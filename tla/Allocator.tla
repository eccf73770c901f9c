------------------------------ MODULE Allocator ------------------------------
(***************************************************************************)
(* What kmalloc, vmalloc, kfree and vfree promise their callers: a block   *)
(* is memory of one's own.  A block is a function from 0 .. size - 1 to    *)
(* places in physical memory; it is where it was given out until it is     *)
(* freed, and nobody else writes there.                                    *)
(***************************************************************************)
EXTENDS Integers

CONSTANTS Sizes     \* what is asked for

VARIABLES
    held,           \* [pointers -> blocks], of those given out and not freed
    others          \* the places the kernel writes to as it likes: free pages,
                    \* page tables, headers of the heap

PlacesOf(block) == {block[k] : k \in DOMAIN block}

HeldPlaces == UNION {PlacesOf(held[p]) : p \in DOMAIN held}

NothingHeld == [p \in {} |-> {}]

Init == held = NothingHeld

\* The blocks given out before and after a step are where they were.
Stay == \A p \in DOMAIN held \cap DOMAIN held' : held'[p] = held[p]

\* A block for a request of a units: all its places differ and none is held.
\* That of kmalloc lies in one piece.
Alloc(a) ==
    /\ Stay
    /\ \E p \in DOMAIN held' \ DOMAIN held :
          /\ DOMAIN held' = DOMAIN held \cup {p}
          /\ DOMAIN held'[p] = 0 .. (a - 1)
          /\ \A j, k \in 0 .. (a - 1) : j # k => held'[p][j] # held'[p][k]
          /\ PlacesOf(held'[p]) \cap HeldPlaces = {}
          /\ ~p.virtual => \A k \in 0 .. (a - 1) : held'[p][k] = held'[p][0] + k

Free ==
    /\ Stay
    /\ \E p \in DOMAIN held : DOMAIN held' = DOMAIN held \ {p}

\* A call that comes to nothing.
Fail == Stay /\ DOMAIN held' = DOMAIN held

Next == /\ (\E a \in Sizes : Alloc(a)) \/ Free \/ Fail
        /\ HeldPlaces' \cap others' = {}

AllocatorSpec == Init /\ [][Next]_<<held, others>>
=============================================================================
