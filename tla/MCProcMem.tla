----------------------------- MODULE MCProcMem -----------------------------
(* ProcMem for TLC: init has one page of program, the shell two.            *)
EXTENDS ProcMem

CONSTANTS i, s, a

MCImages == [p \in {i, s} |-> IF p = i THEN [v |-> 1, n |-> 1] ELSE [v |-> 2, n |-> 2]]
=============================================================================
