------------------------------ MODULE PidTable ------------------------------
(***************************************************************************)
(* What fork, exit and wait promise programs, which know each other by     *)
(* pid: who is there, whose child it is, and what an ended one ended with. *)
(* Nobody is ended but by itself, and one step brings, ends or takes away  *)
(* one process.  The promise is kept until a process is taken away that    *)
(* has children: they keep a pointer to their father.                      *)
(***************************************************************************)
EXTENDS Integers

CONSTANTS Pids      \* 0, the father of those without one, is not a pid

VARIABLES
    table,          \* [pids in use -> what is known of the process]
    running,        \* the pid of the running process, or 0
    lost            \* has a process been taken away that had children?

NewChild(f) == [father |-> f, ended |-> FALSE, status |-> 0, keeps |-> TRUE]

Living == {n \in DOMAIN table : ~table[n].ended}

Init ==
    /\ DOMAIN table \subseteq Pids /\ table = [n \in DOMAIN table |-> NewChild(0)]
    /\ running = 0 /\ lost = FALSE

Keep == table' = table /\ lost' = lost

Fork ==
    /\ running \in Living
    /\ \E n \in Pids \ DOMAIN table :
          table' = [m \in DOMAIN table \cup {n} |-> IF m = n THEN NewChild(running) ELSE table[m]]
    /\ lost' = lost

\* The children that end from now on are not kept for the running process.
Ignore ==
    /\ running \in Living
    /\ table' = [table EXCEPT ![running].keeps = FALSE]
    /\ lost' = lost

TakeAway(n) ==
    /\ table' = [m \in DOMAIN table \ {n} |-> IF table[m].father = n THEN [table[m] EXCEPT !.father = 0]
                                              ELSE table[m]]
    /\ lost' = \E m \in DOMAIN table : table[m].father = n

\* Is there somebody the process n is kept for when it ends?
Kept(n) == table[n].father # 0 /\ table[table[n].father].keeps

End ==
    /\ running \in Living
    /\ IF Kept(running)
       THEN /\ running \in DOMAIN table' /\ lost' = lost
            /\ table' = [table EXCEPT ![running].ended = TRUE,
                                      ![running].status = table'[running].status]
       ELSE TakeAway(running)

Reap ==
    /\ running \in Living
    /\ \E c \in DOMAIN table : table[c].ended /\ table[c].father = running /\ TakeAway(c)

Next ==
    \/ lost /\ lost'
    \/ /\ ~lost /\ (Keep \/ Fork \/ Ignore \/ End \/ Reap)
       /\ running' \in Living' \cup {0}

PidTableSpec == Init /\ [][Next]_<<table, running, lost>>
=============================================================================
