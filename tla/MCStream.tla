------------------------------ MODULE MCStream ------------------------------
(***************************************************************************)
(* Stream for TLC, with two bytes.                                         *)
(***************************************************************************)
EXTENDS Stream, TLC

CONSTANTS x, y

TwoBytes == {x, y}
Sym == Permutations(TwoBytes)
=============================================================================
