--------------------------- MODULE PrivateMemory ---------------------------
(***************************************************************************)
(* What the memory of a process promises: every process has areas of its   *)
(* own, given by their first page, each a sequence of the pages' contents, *)
(* and a step changes the areas of one process.  New areas are zero.  A    *)
(* forked process has the areas of its father, of which only the first     *)
(* pages are promised to be copies (process_copy_mem_block).               *)
(***************************************************************************)
EXTENDS Integers, Sequences

CONSTANTS
    Owner,      \* the processes
    First       \* those the kernel makes at boot

VARIABLE space      \* [Owner -> [first pages of areas -> contents, page by page]]

NoAreas == [v \in {} |-> <<>>]

Init == space = [p \in Owner |-> NoAreas]

\* Every area of p that is there before and after keeps its contents.
Keeps(p) ==
    \A v \in DOMAIN space[p] \cap DOMAIN space'[p] : space'[p][v] = space[p][v]

Write(p) ==
    /\ DOMAIN space'[p] = DOMAIN space[p]
    /\ \E v \in DOMAIN space[p] :
          /\ Len(space'[p][v]) = Len(space[p][v])
          /\ \E i \in 1..Len(space[p][v]), x \in {space'[p][v][j] : j \in 1..Len(space[p][v])} :
                space'[p] = [space[p] EXCEPT ![v][i] = x]

\* The program and the stack of a process made at boot.
Load(p) == p \in First /\ space[p] = NoAreas

Map(p) ==
    /\ Keeps(p)
    /\ \E v \in DOMAIN space'[p] \ DOMAIN space[p] :
          /\ DOMAIN space'[p] = DOMAIN space[p] \cup {v}
          /\ \A i \in 1..Len(space'[p][v]) : space'[p][v][i] = 0

Unmap(p) ==
    /\ Keeps(p)
    /\ \E v \in DOMAIN space[p] : DOMAIN space'[p] = DOMAIN space[p] \ {v}

Fork(p, child) ==
    /\ space[child] = NoAreas /\ space[p] # NoAreas
    /\ DOMAIN space'[child] = DOMAIN space[p]
    /\ \A v \in DOMAIN space[p] :
          /\ Len(space'[child][v]) = Len(space[p][v])
          /\ space'[child][v][1] = space[p][v][1]

Free(p) == space'[p] = NoAreas

Next ==
    \E p \in Owner :
        /\ \A q \in Owner \ {p} : space'[q] = space[q]
        /\ \/ Write(p) \/ Load(p) \/ Map(p) \/ Unmap(p) \/ Free(p)
           \/ \E father \in Owner \ {p} : Fork(father, p)

PrivateSpec == Init /\ [][Next]_space
=============================================================================
