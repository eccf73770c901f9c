-------------------------------- MODULE Lists --------------------------------
(***************************************************************************)
(* inc/list.h: the circular lists of the kernel, as the sequence of their  *)
(* nodes from the head on.                                                 *)
(***************************************************************************)
EXTENDS Integers, Sequences, SequencesExt

Has(s, x) == \E i \in 1..Len(s) : s[i] = x
Pos(s, x) == CHOOSE i \in 1..Len(s) : s[i] = x /\ \A j \in 1..(i - 1) : s[j] # x
Injective(s) == \A i, j \in 1..Len(s) : i # j => s[i] # s[j]

\* list_del: the node of x leaves the list.
list_del(s, x) == IF Has(s, x) THEN RemoveAt(s, Pos(s, x)) ELSE s

\* list_add: a new node right behind that of an element; behind the head it is
\* <<new>> \o s, and list_add_end is Append.
list_add(s, new, after) ==
    SubSeq(s, 1, Pos(s, after)) \o <<new>> \o SubSeq(s, Pos(s, after) + 1, Len(s))
=============================================================================
