---------------------------- MODULE StreamProofs ----------------------------
(***************************************************************************)
(* The ring is safe and a FIFO, for any size of it, any sizes of reads and *)
(* writes, and any interleaving of reader and writer.                      *)
(***************************************************************************)
EXTENDS Stream, TLAPS

\* Stepping to the next cell of the ring, without a remainder.
LEMMA NextIndexCases ==
    ASSUME NEW x \in 0..(STREAM_BUFF - 1)
    PROVE  NextIndex(x) = IF x = STREAM_BUFF - 1 THEN 0 ELSE x + 1
  <1>1. CASE x = STREAM_BUFF - 1
    BY <1>1, StreamAssumption DEF NextIndex
  <1>2. CASE x # STREAM_BUFF - 1
    BY <1>2, StreamAssumption DEF NextIndex
  <1>3. QED BY <1>1, <1>2

\* A remainder taken by one subtraction.
LEMMA RingMod ==
    ASSUME NEW x \in Nat, x < 2 * STREAM_BUFF
    PROVE  x % STREAM_BUFF = IF x < STREAM_BUFF THEN x ELSE x - STREAM_BUFF
  <1>1. CASE x < STREAM_BUFF
    BY <1>1, StreamAssumption
  <1>2. CASE x >= STREAM_BUFF
    BY <1>2, StreamAssumption
  <1>3. QED BY <1>1, <1>2, StreamAssumption

-----------------------------------------------------------------------------
(* The inductive invariant: types and RingSafe.  RingSafe is needed to keep   *)
(* rdata = buff[pos] under the writer's store, and the tests of each side are *)
(* kept by the other side because it only moves its own index, away.          *)

StreamInv == StreamTypeOK /\ RingSafe

\* stream_toread is a size_t.
LEMMA ToreadType ==
    ASSUME NEW le \in BOOLEAN, NEW p \in Int, NEW e \in Int
    PROVE  stream_toread(le, p, e) \in 0..(Word - 1)
  BY StreamAssumption DEF stream_toread

\* The ring never holds STREAM_BUFF bytes.
LEMMA UsedType ==
    ASSUME StreamTypeOK
    PROVE  Used \in 0..(STREAM_BUFF - 1)
  BY StreamAssumption DEF Used, StreamTypeOK

\* The ring is safe when it is made.
LEMMA StreamInitInv == StreamInit => StreamInv
  BY StreamAssumption DEF StreamInit, StreamInv, StreamTypeOK, RingSafe, Cell

\* No step of the writer makes the ring unsafe: it alone moves end.
LEMMA StreamWriteInv ==
    ASSUME StreamInv, Write
    PROVE  StreamInv'
  <1> USE StreamAssumption DEF StreamInv, stream, writer, reader
  <1>1. ASSUME NEW size \in 0..MaxSize, write_call(size)
        PROVE  StreamInv'
    <2>1. size \in 0..(Word - 1)
      OBVIOUS
    <2>2. QED BY <1>1, <2>1, UsedType DEF write_call, StreamTypeOK, RingSafe
  <1>2. ASSUME NEW from, NEW to \in {"subtract1", "subtract2"}, write_compare(from, to)
        PROVE  StreamInv'
    BY <1>2 DEF write_compare, StreamTypeOK, RingSafe
  <1>3. CASE write_fits
    BY <1>3 DEF write_fits, StreamTypeOK, RingSafe
  <1>4. CASE write_clip
    <2>1. stream_toread(wle, pos, end) \in 0..(Word - 1)
      BY ToreadType DEF StreamTypeOK
    <2>2. (STREAM_BUFF - stream_toread(wle, pos, end)) % Word \in 0..(Word - 1)
      BY <2>1
    <2>3. QED BY <1>4, <2>2 DEF write_clip, StreamTypeOK, RingSafe
  <1>5. CASE write_test
    BY <1>5 DEF write_test, write_goes_on, StreamTypeOK, RingSafe
  <1>6. CASE write_store
    <2>1. PICK b \in Cell : buff' = [buff EXCEPT ![end] = b]
      BY <1>6 DEF write_store, Cell
    <2>2. StreamTypeOK'
      BY <1>6, <2>1 DEF write_store, StreamTypeOK
    <2>3. RingSafe'
      BY <1>6, <2>1 DEF write_store, StreamTypeOK, RingSafe
    <2>4. QED BY <2>2, <2>3
  <1>7. CASE write_advance
    <2>1. /\ NextIndex(end) = IF end = STREAM_BUFF - 1 THEN 0 ELSE end + 1
          /\ NextIndex(end) \in 0..(STREAM_BUFF - 1)
      BY NextIndexCases DEF StreamTypeOK
    <2>2. StreamTypeOK'
      BY <1>7, <2>1 DEF write_advance, StreamTypeOK
    <2>3. RingSafe'
      BY <1>7, <2>1 DEF write_advance, StreamTypeOK, RingSafe
    <2>4. QED BY <2>2, <2>3
  <1>8. QED BY <1>1, <1>2, <1>3, <1>4, <1>5, <1>6, <1>7 DEF Write

\* No step of the reader makes the ring unsafe: it alone moves pos.
LEMMA StreamReadInv ==
    ASSUME StreamInv, Read
    PROVE  StreamInv'
  <1> USE StreamAssumption DEF StreamInv, stream, writer, reader
  <1>1. ASSUME NEW size \in 0..MaxSize, read_call(size)
        PROVE  StreamInv'
    BY <1>1 DEF read_call, StreamTypeOK, RingSafe
  <1>2. CASE read_test
    BY <1>2 DEF read_test, StreamTypeOK, RingSafe
  <1>3. CASE read_load
    BY <1>3 DEF read_load, StreamTypeOK, RingSafe
  <1>4. CASE read_advance
    <2>1. /\ NextIndex(pos) = IF pos = STREAM_BUFF - 1 THEN 0 ELSE pos + 1
          /\ NextIndex(end) = IF end = STREAM_BUFF - 1 THEN 0 ELSE end + 1
      BY NextIndexCases DEF StreamTypeOK
    <2>2. StreamTypeOK'
      BY <1>4, <2>1 DEF read_advance, StreamTypeOK
    <2>3. NextIndex(end)' = NextIndex(end)
      BY <1>4 DEF read_advance, NextIndex
    <2>4. RingSafe'
      BY <1>4, <2>1, <2>3 DEF read_advance, StreamTypeOK, RingSafe
    <2>5. QED BY <2>2, <2>4
  <1>5. QED BY <1>1, <1>2, <1>3, <1>4 DEF Read

\* The invariant is inductive.
LEMMA StreamStepInv == StreamInv /\ [StreamNext]_vars => StreamInv'
  <1> SUFFICES ASSUME StreamInv, [StreamNext]_vars PROVE StreamInv'
    OBVIOUS
  <1>1. CASE Write BY <1>1, StreamWriteInv
  <1>2. CASE Read BY <1>2, StreamReadInv
  <1>3. CASE UNCHANGED vars
    BY <1>3 DEF vars, StreamInv, StreamTypeOK, RingSafe, NextIndex
  <1>4. QED BY <1>1, <1>2, <1>3 DEF StreamNext

\* stream.c: for every size of the ring, the fields of a stream and the locals
\* of a read and a write in progress stay in their ranges.
THEOREM StreamTypes == StreamSpec => []StreamTypeOK
  <1>1. StreamInv => StreamTypeOK BY DEF StreamInv
  <1>2. QED BY <1>1, StreamInitInv, StreamStepInv, PTL DEF StreamSpec

\* stream.c:15-20 and 31-36: for every size of the ring, a test made by either
\* side holds until it has acted on it, with no lock.
THEOREM RingIsSafe == StreamSpec => []RingSafe
  <1>1. StreamInv => RingSafe BY DEF StreamInv
  <1>2. QED BY <1>1, StreamInitInv, StreamStepInv, PTL DEF StreamSpec

-----------------------------------------------------------------------------
(* The keyboard interrupt.  While it writes the reader stands still, so what  *)
(* stream_toread computes is what was in the ring, and each turn of the loop  *)
(* adds one to it.                                                            *)

WriteInv ==
    /\ wpc # "idle" => Used = wuse + writed
    /\ wpc \in {"compare1", "subtract1", "compare2", "subtract2"} => writed = 0 /\ wsize = wreq
    /\ wpc \in {"subtract1", "subtract2"} => wle = (pos <= end)
    /\ wpc \in {"compare2", "subtract2"} => wuse + wreq > STREAM_BUFF
    /\ wpc \in {"test", "store", "advance"} =>
          /\ writed <= wsize
          /\ \/ wsize = wreq /\ wuse + wreq <= STREAM_BUFF
             \/ wsize = STREAM_BUFF - wuse /\ wsize < wreq
    /\ wpc \in {"store", "advance"} => writed < wsize
    /\ WriteReturns

\* With nobody in between, stream_toread gives the bytes on the ring.
LEMMA ToreadIsUsed ==
    ASSUME StreamTypeOK
    PROVE  stream_toread(pos <= end, pos, end) = Used
  BY StreamAssumption DEF stream_toread, Used, StreamTypeOK

\* Moving end adds one byte.
LEMMA UsedAfterAdvance ==
    ASSUME StreamInv, write_advance
    PROVE  Used' = Used + 1
  <1>1. NextIndex(end) = IF end = STREAM_BUFF - 1 THEN 0 ELSE end + 1
    BY NextIndexCases DEF StreamInv, StreamTypeOK
  <1>2. QED
    BY <1>1, StreamAssumption DEF StreamInv, StreamTypeOK, RingSafe, write_advance, Used

\* The loop's test fails exactly when the ring holds STREAM_BUFF - 1 bytes.
LEMMA FullIsFull ==
    ASSUME StreamTypeOK
    PROVE  pos = NextIndex(end) <=> Used = STREAM_BUFF - 1
  <1>1. NextIndex(end) = IF end = STREAM_BUFF - 1 THEN 0 ELSE end + 1
    BY NextIndexCases DEF StreamTypeOK
  <1>2. QED
    BY <1>1, StreamAssumption DEF StreamTypeOK, Used

\* The writer's locals, when the reader stands still, keep up with the ring.
LEMMA WriteStepInv ==
    ASSUME wirq, StreamInv, StreamInv', WriteInv, [StreamNext]_vars
    PROVE  WriteInv'
  <1> USE StreamAssumption DEF stream, writer, reader
  <1>0. Used \in 0..(STREAM_BUFF - 1)
    BY UsedType DEF StreamInv
  <1>t. /\ wreq \in 0..MaxSize /\ wsize \in 0..(Word - 1) /\ writed \in Nat
        /\ wuse \in 0..(STREAM_BUFF - 1) /\ wle \in BOOLEAN
    BY DEF StreamInv, StreamTypeOK
  <1>1. ASSUME NEW size \in 0..MaxSize, write_call(size)
        PROVE  WriteInv'
    BY <1>0, <1>1, <1>t DEF write_call, WriteInv, WriteReturns, Used
  <1>2. CASE write_compare("compare1", "subtract1")
    BY <1>0, <1>2, <1>t DEF write_compare, WriteInv, WriteReturns, Used
  <1>3. CASE write_compare("compare2", "subtract2")
    BY <1>0, <1>3, <1>t DEF write_compare, WriteInv, WriteReturns, Used
  <1>4. CASE write_fits
    <2>1. stream_toread(wle, pos, end) = Used
      BY <1>4, ToreadIsUsed DEF write_fits, WriteInv, StreamInv
    <2>2. (Used + wsize) % Word = Used + wsize
      BY <1>0, <1>4, <1>t DEF write_fits, WriteInv
    <2>3. QED BY <1>0, <1>4, <1>t, <2>1, <2>2 DEF write_fits, WriteInv, WriteReturns, Used
  <1>5. CASE write_clip
    <2>1. stream_toread(wle, pos, end) = Used
      BY <1>5, ToreadIsUsed DEF write_clip, WriteInv, StreamInv
    <2>2. (STREAM_BUFF - Used) % Word = STREAM_BUFF - Used
      BY <1>0
    <2>3. QED BY <1>0, <1>5, <1>t, <2>1, <2>2 DEF write_clip, WriteInv, WriteReturns, Used
  <1>6. CASE write_test
    <2>1. Used' = Used
      BY <1>6 DEF write_test, Used
    <2>2. pos = NextIndex(end) <=> Used = STREAM_BUFF - 1
      BY FullIsFull DEF StreamInv
    <2>3. QED BY <1>0, <1>6, <1>t, <2>1, <2>2 DEF write_test, write_goes_on, WriteInv, WriteReturns
  <1>7. CASE write_store
    BY <1>7, <1>t DEF write_store, WriteInv, WriteReturns, Used
  <1>8. CASE write_advance
    <2>1. Used' = Used + 1
      BY <1>8, UsedAfterAdvance
    <2>2. QED BY <1>0, <1>8, <1>t, <2>1 DEF write_advance, WriteInv, WriteReturns
  <1>9. CASE Read
    <2>1. wpc = "idle" /\ UNCHANGED writer
      BY <1>9 DEF Read, read_call, read_test, read_load, read_advance, ReaderRuns
    <2>2. QED BY <2>1 DEF WriteInv, WriteReturns
  <1>10. CASE UNCHANGED vars
    BY <1>10 DEF vars, WriteInv, WriteReturns, Used
  <1>11. QED
    BY <1>1, <1>2, <1>3, <1>4, <1>5, <1>6, <1>7, <1>8, <1>9, <1>10 DEF StreamNext, Write

\* A stream keeps its kind of writer.
LEMMA WriterForGood ==
    ASSUME [StreamNext]_vars
    PROVE  wirq' = wirq
  BY DEF StreamNext, Write, Read, write_call, write_compare, write_fits, write_clip, write_test,
         write_store, write_advance, read_call, read_test, read_load, read_advance, vars, writer

\* stream.c:25-38: for every size of the ring and of the write, stream_write
\* called by the keyboard interrupt returns the smaller of what was asked for
\* and the room there was.
THEOREM InterruptWriteReturns == StreamSpec => []WriteReturns
  <1> DEFINE IrqInv == wirq => WriteInv
  <1>1. StreamInit => IrqInv
    BY StreamAssumption DEF StreamInit, WriteInv, WriteReturns, Used
  <1>2. StreamInv /\ StreamInv' /\ IrqInv /\ [StreamNext]_vars => IrqInv'
    BY WriteStepInv, WriterForGood
  <1>3. IrqInv => WriteReturns
    BY DEF WriteInv, WriteReturns
  <1>4. QED BY <1>1, <1>2, <1>3, StreamInitInv, StreamStepInv, PTL DEF StreamSpec

-----------------------------------------------------------------------------
(* A stream is a bounded queue.  Only the two steps that move an index are    *)
(* steps of the queue; a store goes to a cell outside the contents.           *)

\* The k-th byte waiting lies k - 1 cells after pos, wrapped round.
Cellof(k) == IF pos + k - 1 < STREAM_BUFF THEN pos + k - 1 ELSE pos + k - 1 - STREAM_BUFF

\* The place of the k-th byte after one has been read.
LEMMA CellofMod ==
    ASSUME pos \in Nat, NEW k \in Nat, pos + k - 1 \in Nat, pos + k - 1 < 2 * STREAM_BUFF
    PROVE  (pos + k - 1) % STREAM_BUFF = Cellof(k)
  <1> DEFINE x == pos + k - 1
  <1>1. x \in Nat /\ x < 2 * STREAM_BUFF
    OBVIOUS
  <1> HIDE DEF x
  <1>2. x % STREAM_BUFF = IF x < STREAM_BUFF THEN x ELSE x - STREAM_BUFF
    BY <1>1, RingMod
  <1>3. Cellof(k) = IF x < STREAM_BUFF THEN x ELSE x - STREAM_BUFF
    BY StreamAssumption DEF x, Cellof
  <1>4. x = pos + k - 1
    BY DEF x
  <1>5. QED BY <1>2, <1>3, <1>4

\* The contents of the ring are a sequence of cells.
LEMMA ContentsCells ==
    ASSUME StreamTypeOK
    PROVE  /\ Contents = [k \in 1..Used |-> buff[Cellof(k)]]
           /\ \A k \in 1..Used : /\ (pos + k - 1) % STREAM_BUFF = Cellof(k)
                                 /\ Cellof(k) \in 0..(STREAM_BUFF - 1) /\ Cellof(k) # end
           /\ Contents \in Seq(Cell)
           /\ Len(Contents) = Used
  <1>0. Used \in 0..(STREAM_BUFF - 1)
    BY UsedType
  <1>1. ASSUME NEW k \in 1..Used
        PROVE  /\ (pos + k - 1) % STREAM_BUFF = Cellof(k)
               /\ Cellof(k) \in 0..(STREAM_BUFF - 1) /\ Cellof(k) # end
    <2>1. pos + k - 1 \in Nat /\ pos + k - 1 < 2 * STREAM_BUFF
      BY <1>0, StreamAssumption DEF StreamTypeOK
    <2>2. (pos + k - 1) % STREAM_BUFF = Cellof(k)
      BY <2>1, CellofMod DEF StreamTypeOK
    <2>3. Cellof(k) \in 0..(STREAM_BUFF - 1) /\ Cellof(k) # end
      BY <1>0, StreamAssumption DEF StreamTypeOK, Cellof, Used
    <2>4. QED BY <2>2, <2>3
  <1>2. Contents = [k \in 1..Used |-> buff[Cellof(k)]]
    BY <1>1 DEF Contents
  <1>3. \A k \in 1..Used : buff[Cellof(k)] \in Cell
    BY <1>1 DEF StreamTypeOK
  <1>4. Contents \in [1..Used -> Cell]
    BY <1>2, <1>3
  <1>5. Contents \in Seq(Cell) /\ Len(Contents) = Used
    BY <1>0, <1>4
  <1>6. QED BY <1>1, <1>2, <1>5

\* Moving end puts the byte stored there into the queue.
LEMMA AdvanceIsPut ==
    ASSUME StreamInv, StreamInv', write_advance
    PROVE  F!Put(buff[end])
  <1> USE StreamAssumption DEF StreamInv
  <1>1. Used' = Used + 1 /\ Used \in 0..(STREAM_BUFF - 1) /\ Used' \in 0..(STREAM_BUFF - 1)
    <2>1. Used' = Used + 1 BY UsedAfterAdvance
    <2>2. Used \in 0..(STREAM_BUFF - 1) BY UsedType
    <2>3. Used # STREAM_BUFF - 1 BY FullIsFull DEF RingSafe, write_advance
    <2>4. QED BY <2>1, <2>2, <2>3
  <1>2. /\ Contents = [k \in 1..Used |-> buff[Cellof(k)]]
        /\ Contents \in Seq(Cell) /\ Len(Contents) = Used
    BY ContentsCells
  <1>3. StreamTypeOK'
    OBVIOUS
  <1>4. Contents' = [k \in 1..Used' |-> buff[Cellof(k)]]
    <2>1. buff' = buff /\ pos' = pos
      BY DEF write_advance
    <2>2. ASSUME NEW k \in 1..Used' PROVE Contents'[k] = buff[Cellof(k)]
      <3>1. pos + k - 1 \in Nat /\ pos + k - 1 < 2 * STREAM_BUFF
        BY <1>1 DEF StreamTypeOK
      <3>2. (pos + k - 1) % STREAM_BUFF = Cellof(k)
        BY <1>1, <3>1, CellofMod, SMTT(30) DEF StreamTypeOK
      <3>3. QED BY <2>1, <3>2 DEF Contents
    <2>3. QED BY <2>1, <2>2 DEF Contents
  <1>5. Cellof(Used + 1) = end
    BY <1>1, SMTT(30) DEF StreamTypeOK, Cellof, Used
  <1>6. Contents' = Append(Contents, buff[end])
    BY <1>1, <1>2, <1>4, <1>5
  <1>7. Len(Contents) < STREAM_BUFF - 1
    BY <1>1, <1>2
  <1>8. last' = last
    BY DEF write_advance, reader
  <1>9. QED BY <1>6, <1>7, <1>8 DEF F!Put

\* Moving pos gets the first byte of the queue.
LEMMA AdvanceIsGet ==
    ASSUME StreamInv, StreamInv', read_advance
    PROVE  F!Get
  <1> USE StreamAssumption DEF StreamInv
  <1>1. NextIndex(pos) = IF pos = STREAM_BUFF - 1 THEN 0 ELSE pos + 1
    BY NextIndexCases DEF StreamTypeOK
  <1>2. /\ Used \in 1..(STREAM_BUFF - 1)
        /\ Used' = Used - 1
    BY <1>1 DEF StreamTypeOK, RingSafe, read_advance, Used
  <1>3. /\ Contents = [k \in 1..Used |-> buff[Cellof(k)]]
        /\ \A k \in 1..Used : Cellof(k) \in 0..(STREAM_BUFF - 1)
        /\ Contents \in Seq(Cell) /\ Len(Contents) = Used
    BY ContentsCells
  <1>4. /\ pos' = NextIndex(pos) /\ end' = end /\ buff' = buff /\ last' = rdata
        /\ rdata = buff[pos]
    BY DEF read_advance, RingSafe
  <1>5. Contents' = [k \in 1..(Used - 1) |-> buff[Cellof(k + 1)]]
    <2>1. ASSUME NEW k \in 1..(Used - 1)
          PROVE  (NextIndex(pos) + k - 1) % STREAM_BUFF = Cellof(k + 1)
      <3> DEFINE x == NextIndex(pos) + k - 1
      <3>1. x \in Nat /\ x < 2 * STREAM_BUFF
        BY <1>1, <1>2, SMTT(30) DEF StreamTypeOK
      <3>2. (IF x < STREAM_BUFF THEN x ELSE x - STREAM_BUFF) = Cellof(k + 1)
        BY <1>1, <1>2, SMTT(30) DEF Cellof, StreamTypeOK
      <3> HIDE DEF x
      <3>3. x % STREAM_BUFF = IF x < STREAM_BUFF THEN x ELSE x - STREAM_BUFF
        BY <3>1, RingMod
      <3>4. QED BY <3>2, <3>3 DEF x
    <2>2. QED BY <1>2, <1>4, <2>1 DEF Contents
  <1>6. Contents # <<>> /\ Head(Contents) = buff[Cellof(1)]
    BY <1>2, <1>3
  <1>7. Cellof(1) = pos
    BY DEF Cellof, StreamTypeOK
  <1>8. Contents' = Tail(Contents)
    BY <1>2, <1>3, <1>5
  <1>9. QED BY <1>4, <1>6, <1>7, <1>8 DEF F!Get

\* Storing a byte beyond the contents is not seen by the queue.
LEMMA StoreIsStutter ==
    ASSUME StreamInv, write_store
    PROVE  Contents' = Contents
  <1>1. \A k \in 1..Used : /\ (pos + k - 1) % STREAM_BUFF = Cellof(k)
                           /\ Cellof(k) \in 0..(STREAM_BUFF - 1) /\ Cellof(k) # end
    BY ContentsCells DEF StreamInv
  <1>2. Used' = Used /\ pos' = pos
    BY DEF write_store, Used
  <1>3. \A k \in 1..Used : buff'[Cellof(k)] = buff[Cellof(k)]
    BY <1>1 DEF write_store, StreamInv, StreamTypeOK
  <1>4. QED BY <1>1, <1>2, <1>3 DEF Contents

\* stream.c:10-38: for every size of the ring, and however the accesses of one
\* reader and one writer interleave, a stream is a first-in first-out queue of
\* at most STREAM_BUFF - 1 bytes.
THEOREM StreamIsFifo == StreamSpec => IsFifo
  <1>1. StreamInit => F!FifoInit
    <2> SUFFICES ASSUME StreamInit PROVE F!FifoInit
      OBVIOUS
    <2>1. Used = 0
      BY DEF StreamInit, Used
    <2>2. Contents = <<>>
      BY <2>1 DEF Contents
    <2>3. last \in Cell
      BY DEF StreamInit, Cell
    <2>4. QED BY <2>2, <2>3 DEF F!FifoInit
  <1>2. StreamInv /\ StreamInv' /\ [StreamNext]_vars => [F!FifoNext]_<<Contents, last>>
    <2> SUFFICES ASSUME StreamInv, StreamInv', [StreamNext]_vars
                 PROVE  F!FifoNext \/ UNCHANGED <<Contents, last>>
      OBVIOUS
    <2>1. CASE write_advance
      <3>1. buff[end] \in Cell
        BY DEF StreamInv, StreamTypeOK
      <3>2. QED BY <2>1, <3>1, AdvanceIsPut DEF F!FifoNext
    <2>2. CASE read_advance
      BY <2>2, AdvanceIsGet DEF F!FifoNext
    <2>3. CASE write_store
      BY <2>3, StoreIsStutter DEF write_store, reader
    <2>4. CASE UNCHANGED <<pos, end, buff, last>>
      BY <2>4 DEF Contents, Used
    <2>5. QED
      BY <2>1, <2>2, <2>3, <2>4
      DEF StreamNext, Write, Read, vars, stream, writer, reader, write_call, write_compare,
          write_fits, write_clip, write_test, read_call, read_test, read_load
  <1>3. QED
    BY <1>1, <1>2, StreamInitInv, StreamStepInv, PTL DEF StreamSpec, IsFifo, F!FifoSpec
=============================================================================
