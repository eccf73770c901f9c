------------------------------- MODULE Stream -------------------------------
(***************************************************************************)
(* struct stream, kernel/io/stream.c: a ring of STREAM_BUFF bytes between  *)
(* one reader and one writer, without a lock.                              *)
(*                                                                         *)
(* The build does not optimise, so every mention of s->pos or s->end in    *)
(* the source is a load or a store of its own; a step below makes at most  *)
(* one access to a field that the other side writes.  The reader is a      *)
(* program (getc of the shell, user_piperead) and can be preempted or      *)
(* interrupted anywhere.  The writer is either a program too               *)
(* (user_pipewrite: ~wirq) or the keyboard interrupt (tty_input_char,      *)
(* interrupts off: wirq), during which the reader stands still.  Every     *)
(* stream has one kind of writer for good.                                 *)
(***************************************************************************)
EXTENDS Integers, Sequences

CONSTANTS
    STREAM_BUFF,    \* inc/stream.h
    Byte,           \* what a program writes
    Junk,           \* what lies in memory behind the writer's data
    MaxSize,        \* bound on the size of a read or a write
    Word,           \* 2^32, the range of size_t
    Writers         \* kinds of writer: TRUE for the interrupt

ASSUME StreamAssumption ==
    /\ STREAM_BUFF \in Nat /\ STREAM_BUFF >= 2
    /\ Junk \notin Byte
    /\ MaxSize \in Nat
    /\ Word \in Nat /\ Word > 2 * STREAM_BUFF + MaxSize
    /\ Writers \subseteq BOOLEAN

VARIABLES
    pos, end, buff,     \* struct stream
    wpc, wreq,          \* stream_write: its place, the size it was called with,
    wsize, writed, wle, \* its locals size and writed, and the branch taken in
    wuse, wirq,         \* stream_toread; bytes used when it was called; its kind
    rpc, rsize, readed, \* stream_read
    rdata, last         \* the byte just loaded, and the one read before it

stream == <<pos, end, buff>>
writer == <<wpc, wreq, wsize, writed, wle, wuse, wirq>>
reader == <<rpc, rsize, readed, rdata, last>>
vars == <<pos, end, buff, wpc, wreq, wsize, writed, wle, wuse, wirq,
          rpc, rsize, readed, rdata, last>>

Cell == Byte \cup {Junk}
NextIndex_no_wrap(x) == x + 1
NextIndex(x) == (x + 1) % STREAM_BUFF

\* The case where the contents wrap round is forgotten.
stream_toread_flat(le, p, e) == (e - p) % Word

\* stream_toread, its two branches; le is the outcome of pos <= end.
stream_toread(le, p, e) == IF le THEN (e - p) % Word ELSE (e + STREAM_BUFF - p) % Word

\* The bytes between pos and end, as one reads them off the ring.
Used == IF pos <= end THEN end - pos ELSE end + STREAM_BUFF - pos
Contents == [k \in 1..Used |-> buff[(pos + k - 1) % STREAM_BUFF]]

StreamInit ==
    /\ pos = 0 /\ end = 0
    /\ buff \in [0..(STREAM_BUFF - 1) -> {Junk}]
    /\ wpc = "idle" /\ wreq = 0 /\ wsize = 0 /\ writed = 0 /\ wle = TRUE /\ wuse = 0
    /\ wirq \in Writers
    /\ rpc = "idle" /\ rsize = 0 /\ readed = 0 /\ rdata = Junk /\ last = Junk

-----------------------------------------------------------------------------
(* stream_write *)

write_call(size) ==
    /\ wpc = "idle"
    /\ wpc' = "compare1"
    /\ wreq' = size /\ wsize' = size /\ writed' = 0 /\ wuse' = Used
    /\ UNCHANGED <<stream, wle, wirq, reader>>

\* if (s->pos <= s->end), in the first or in the second call of stream_toread
write_compare(from, to) ==
    /\ wpc = from
    /\ wle' = (pos <= end)
    /\ wpc' = to
    /\ UNCHANGED <<stream, wreq, wsize, writed, wuse, wirq, reader>>

\* if (stream_toread(s) + size > STREAM_BUFF)
write_fits ==
    /\ wpc = "subtract1"
    /\ wpc' = IF (stream_toread(wle, pos, end) + wsize) % Word > STREAM_BUFF
              THEN "compare2" ELSE "test"
    /\ UNCHANGED <<stream, wreq, wsize, writed, wle, wuse, wirq, reader>>

\* size = STREAM_BUFF - stream_toread(s)
write_clip ==
    /\ wpc = "subtract2"
    /\ wsize' = (STREAM_BUFF - stream_toread(wle, pos, end)) % Word
    /\ wpc' = "test"
    /\ UNCHANGED <<stream, wreq, writed, wle, wuse, wirq, reader>>

\* while (writed < size && s->pos != (s->end + 1) % STREAM_BUFF)
write_goes_on_when_full(full) == writed < wsize
write_goes_on(full) == writed < wsize /\ ~full

write_test ==
    /\ wpc = "test"
    /\ wpc' = IF write_goes_on(pos = NextIndex(end)) THEN "store" ELSE "idle"
    /\ UNCHANGED <<stream, wreq, wsize, writed, wle, wuse, wirq, reader>>

\* s->buff[s->end] = *data++
write_store ==
    /\ wpc = "store"
    /\ \E b \in IF writed < wreq THEN Byte ELSE {Junk} : buff' = [buff EXCEPT ![end] = b]
    /\ wpc' = "advance"
    /\ UNCHANGED <<pos, end, wreq, wsize, writed, wle, wuse, wirq, reader>>

\* s->end = (s->end + 1) % STREAM_BUFF; writed++
write_advance ==
    /\ wpc = "advance"
    /\ end' = NextIndex(end)
    /\ writed' = writed + 1
    /\ wpc' = "test"
    /\ UNCHANGED <<pos, buff, wreq, wsize, wle, wuse, wirq, reader>>

-----------------------------------------------------------------------------
(* stream_read *)

\* May the reader move?  Not while an interrupt handler writes.
ReaderRuns == ~wirq \/ wpc = "idle"

read_call(size) ==
    /\ rpc = "idle" /\ ReaderRuns
    /\ rpc' = "test"
    /\ rsize' = size /\ readed' = 0
    /\ UNCHANGED <<stream, writer, rdata, last>>

\* The reader does not look whether there is anything to read.
read_test_always ==
    /\ rpc = "test" /\ ReaderRuns
    /\ rpc' = IF readed < rsize THEN "load" ELSE "idle"
    /\ UNCHANGED <<stream, writer, rsize, readed, rdata, last>>

\* while (readed < size && s->pos != s->end)
read_test ==
    /\ rpc = "test" /\ ReaderRuns
    /\ rpc' = IF readed < rsize /\ pos # end THEN "load" ELSE "idle"
    /\ UNCHANGED <<stream, writer, rsize, readed, rdata, last>>

\* *data = s->buff[s->pos]
read_load ==
    /\ rpc = "load" /\ ReaderRuns
    /\ rdata' = buff[pos]
    /\ rpc' = "advance"
    /\ UNCHANGED <<stream, writer, rsize, readed, last>>

\* s->pos = (s->pos + 1) % STREAM_BUFF; readed++
read_advance ==
    /\ rpc = "advance" /\ ReaderRuns
    /\ pos' = NextIndex(pos)
    /\ readed' = readed + 1
    /\ last' = rdata
    /\ rpc' = "test"
    /\ UNCHANGED <<end, buff, writer, rsize, rdata>>

-----------------------------------------------------------------------------

Write == \/ \E size \in 0..MaxSize : write_call(size)
         \/ write_compare("compare1", "subtract1") \/ write_compare("compare2", "subtract2")
         \/ write_fits \/ write_clip \/ write_test \/ write_store \/ write_advance

Read == \/ \E size \in 0..MaxSize : read_call(size)
        \/ read_test \/ read_load \/ read_advance

StreamNext == Write \/ Read

StreamSpec == StreamInit /\ [][StreamNext]_vars

-----------------------------------------------------------------------------
(* Properties *)

\* stream.c: both indices stay within the ring and sizes within a size_t.
StreamTypeOK ==
    /\ pos \in 0..(STREAM_BUFF - 1) /\ end \in 0..(STREAM_BUFF - 1)
    /\ buff \in [0..(STREAM_BUFF - 1) -> Cell]
    /\ wpc \in {"idle", "compare1", "subtract1", "compare2", "subtract2", "test", "store", "advance"}
    /\ wreq \in 0..MaxSize /\ wsize \in 0..(Word - 1) /\ writed \in Nat
    /\ wle \in BOOLEAN /\ wuse \in 0..(STREAM_BUFF - 1) /\ wirq \in BOOLEAN
    /\ rpc \in {"idle", "test", "load", "advance"}
    /\ rsize \in 0..MaxSize /\ readed \in Nat
    /\ rdata \in Cell /\ last \in Cell

\* stream.c:15-20 and 31-36: what either side has tested stays true until it
\* acts on it, whatever the other side does meanwhile: the writer, about to
\* store, has a free cell besides the one that tells full from empty, and the
\* reader, about to advance, holds the byte that is in the ring at pos.
RingSafe ==
    /\ wpc \in {"store", "advance"} => pos # NextIndex(end)
    /\ rpc \in {"load", "advance"} => pos # end
    /\ rpc = "advance" => rdata = buff[pos]

F == INSTANCE Fifo WITH Byte <- Cell, Capacity <- STREAM_BUFF - 1,
                        queue <- Contents, last <- last

\* stream.c:10-38: every byte stored is read once and in order, however the
\* loads and stores of reader and writer interleave, and at most
\* STREAM_BUFF - 1 bytes wait at any time.
IsFifo == F!FifoSpec

\* stream.c:29-31: in the keyboard interrupt a write returns what was asked
\* for or, if less, the room that was left.  The clip is to STREAM_BUFF bytes
\* and only the loop keeps the last cell free.
WriteReturns ==
    wirq /\ wpc = "idle" => writed = LET room == STREAM_BUFF - 1 - wuse
                                     IN  IF wreq <= room THEN wreq ELSE room

\* user_pipewrite (kernel/x86/user2.c:145-150) adds what stream_write returned
\* to its offset and passes strlen(str) - basse: no write takes more bytes than
\* it was given.
WriteBounded == writed <= wreq
=============================================================================
