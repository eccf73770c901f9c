-------------------------------- MODULE Fifo --------------------------------
(***************************************************************************)
(* What a stream promises its users: a bounded first-in first-out queue of *)
(* bytes.  last is the byte the latest get returned.                       *)
(***************************************************************************)
EXTENDS Naturals, Sequences

CONSTANTS Byte, Capacity

VARIABLES queue, last

FifoInit == queue = <<>> /\ last \in Byte

Put(b) == /\ Len(queue) < Capacity
          /\ queue' = Append(queue, b)
          /\ UNCHANGED last

Get == /\ queue # <<>>
       /\ last' = Head(queue)
       /\ queue' = Tail(queue)

FifoNext == Get \/ \E b \in Byte : Put(b)

FifoSpec == FifoInit /\ [][FifoNext]_<<queue, last>>
=============================================================================
