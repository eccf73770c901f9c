------------------------------- MODULE MCHeap -------------------------------
(***************************************************************************)
(* Heap for TLC.                                                           *)
(***************************************************************************)
EXTENDS Heap

\* All pages free, or a hole among them.
WholeOrHoled == {Frames, Frames \ {LOW_PAGE + 2}}
Whole == {Frames}
=============================================================================
