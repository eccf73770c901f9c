--------------------------- MODULE ProcessProofs ---------------------------
(***************************************************************************)
(* The process table is consistent, for any number of processes, pids and  *)
(* signals.                                                                *)
(***************************************************************************)
EXTENDS Process, ListProofs

MachineType == [proc : [Procs -> Struct], list : Seq(Procs), bad : BOOLEAN]

\* The struct Q is the struct P but for its children.
SameBut(P, Q) ==
    /\ Q.state = P.state /\ Q.pid = P.pid /\ Q.uid = P.uid /\ Q.father = P.father
    /\ Q.waiting_pid = P.waiting_pid /\ Q.waiting_return = P.waiting_return
    /\ Q.end_value = P.end_value /\ Q.sig_queue = P.sig_queue
    /\ Q.sig_avalaible = P.sig_avalaible /\ Q.sig_handler = P.sig_handler

\* Every bit of the mask is there for an entry of the queue.
Covered(q, mask) ==
    \A b \in mask : \E i \in 1..Len(q) : b \in blocked_sig(q[i].sig)

StructInv(P) ==
    /\ P.state = ZOMBIE => P.sig_queue = <<>>
    /\ P.state # ZOMBIE => Covered(P.sig_queue, P.sig_avalaible)

\* No struct is on the list twice and no two on it have the same pid.
ListInv(T, l) ==
    /\ Injective(l)
    /\ \A p \in Procs : Has(l, p) => T[p].pid \in Pids
    /\ \A p, q \in Procs : Has(l, p) /\ Has(l, q) /\ p # q => T[p].pid # T[q].pid

MachineInv(M) ==
    /\ M \in MachineType
    /\ \A p \in Procs : StructInv(M.proc[p]) /\ M.proc[p].father # p
    /\ ListInv(M.proc, M.list)

-----------------------------------------------------------------------------
(* Structs *)

\* process_new gives a struct that is in order.
LEMMA NewStruct == process_new \in Struct /\ StructInv(process_new)
                   /\ process_new.pid = 0 /\ process_new.father = NULL
                   /\ process_new.sig_queue = <<>> /\ process_new.state # ZOMBIE
  <1>1. [s \in Sigs |-> "NULL"] \in [Sigs -> Handlers]
    BY DEF Handlers
  <1>2. <<>> \in Seq(Procs) /\ <<>> \in Seq(Entry)
    OBVIOUS
  <1>3. QED
    BY <1>1, <1>2 DEF process_new, Struct, StructInv, Covered, RUN, STOPPED, ZOMBIE

\* A struct may be given other children.
LEMMA SetChildren ==
    ASSUME NEW P \in Struct, NEW ch \in Seq(Procs)
    PROVE  [P EXCEPT !.children = ch] \in Struct /\ SameBut(P, [P EXCEPT !.children = ch])
  BY DEF Struct, SameBut

\* add_signal keeps a struct in order: a SOFT signal goes behind the others, a
\* HARD one before them, and what it masks it also queues.
LEMMA AddSignal ==
    ASSUME NEW P \in Struct, StructInv(P), NEW sig \in Sigs \cup {0},
           NEW hard \in BOOLEAN, NEW ok \in BOOLEAN
    PROVE  LET Q == add_signal(P, sig, hard, ok)
           IN  /\ Q \in Struct /\ StructInv(Q)
               /\ Q.state = P.state /\ Q.pid = P.pid /\ Q.father = P.father
               /\ Q.children = P.children /\ Q.sig_handler = P.sig_handler
  <1> DEFINE Q == add_signal(P, sig, hard, ok)
             e == [sig |-> sig, hard |-> hard]
             q == IF hard THEN <<e>> \o P.sig_queue ELSE Append(P.sig_queue, e)
             m == P.sig_avalaible \cup blocked_sig(sig)
  <1>1. CASE Q = P
    BY <1>1
  <1>2. CASE Q # P
    <2>1. sig \in Sigs /\ P.state # ZOMBIE
      BY <1>2 DEF add_signal
    <2>2. Q = [P EXCEPT !.sig_queue = q, !.sig_avalaible = m]
      BY <1>2 DEF add_signal
    <2>3. e \in Entry /\ P.sig_queue \in Seq(Entry) /\ P.sig_avalaible \in SUBSET (1..32)
      BY <2>1 DEF Entry, Struct
    <2>4. q \in Seq(Entry)
      BY <2>3
    <2>5. m \in SUBSET (1..32)
      <3>1. blocked_sig(sig) \subseteq 1..32
        BY <2>1, SigAssumption DEF blocked_sig, MaxSig, SIGKILL, SIGSTOP, SIGUSR2, SIGHUP
      <3>2. QED BY <2>3, <3>1
    <2>6. Covered(q, m)
      <3> SUFFICES ASSUME NEW b \in m PROVE \E i \in 1..Len(q) : b \in blocked_sig(q[i].sig)
        BY DEF Covered
      <3>1. CASE b \in blocked_sig(sig)
        <4>1. CASE hard
          BY <2>3, <3>1, <4>1
        <4>2. CASE ~hard
          BY <2>3, <3>1, <4>2
        <4>3. QED BY <4>1, <4>2
      <3>2. CASE b \in P.sig_avalaible
        <4>1. PICK i \in 1..Len(P.sig_queue) : b \in blocked_sig(P.sig_queue[i].sig)
          BY <2>1, <3>2 DEF StructInv, Covered
        <4>2. CASE hard
          <5>1. <<e>> \in Seq(Entry) /\ Len(<<e>>) = 1 /\ Len(P.sig_queue) \in Nat
            BY <2>3
          <5>2. /\ Len(<<e>> \o P.sig_queue) = 1 + Len(P.sig_queue)
                /\ (<<e>> \o P.sig_queue)[i + 1] = P.sig_queue[(i + 1) - 1]
            BY <2>3, <5>1, ConcatProperties
          <5>3. q = <<e>> \o P.sig_queue
            BY <4>2
          <5> HIDE DEF q, e
          <5>4. i + 1 \in 1..Len(q) /\ q[i + 1] = P.sig_queue[i]
            BY <5>1, <5>2, <5>3
          <5>5. QED BY <4>1, <5>4
        <4>3. CASE ~hard
          BY <2>3, <4>1, <4>3
        <4>4. QED BY <4>2, <4>3
      <3>3. QED BY <3>1, <3>2
    <2> HIDE DEF q, m, Q
    <2>7. /\ Q \in Struct /\ Q.state = P.state /\ Q.pid = P.pid /\ Q.father = P.father
          /\ Q.children = P.children /\ Q.sig_handler = P.sig_handler
          /\ Q.sig_queue = q /\ Q.sig_avalaible = m
      BY <2>2, <2>4, <2>5 DEF Struct
    <2>8. StructInv(Q)
      BY <2>1, <2>6, <2>7 DEF StructInv
    <2>9. QED BY <2>7, <2>8 DEF Q
  <1>3. QED BY <1>1, <1>2

-----------------------------------------------------------------------------
(* The operations on the process table *)

\* Reverse, of the community modules, keeps the type.
LEMMA ReverseType ==
    ASSUME NEW S, NEW s \in Seq(S)
    PROVE  Reverse(s) \in Seq(S)
  <1>1. Len(s) \in Nat /\ \A i \in 1..Len(s) : s[i] \in S
    OBVIOUS
  <1>2. \A i \in 1..Len(s) : (Len(s) - i) + 1 \in 1..Len(s)
    BY <1>1
  <1>3. Reverse(s) \in [1..Len(s) -> S]
    BY <1>1, <1>2 DEF Reverse
  <1>4. QED BY <1>1, <1>3, SeqDef

\* A table in order stays so when one struct in order takes the place of
\* another with the same pid.
LEMMA Update ==
    ASSUME NEW M, MachineInv(M), NEW N \in MachineType, N.list = M.list, NEW p \in Procs,
           \A q \in Procs : q # p => N.proc[q] = M.proc[q],
           StructInv(N.proc[p]), N.proc[p].father # p, N.proc[p].pid = M.proc[p].pid
    PROVE  MachineInv(N)
  BY DEF MachineInv, MachineType, ListInv

\* process_get_with_pid returns an element of the list, with that pid, or NULL.
LEMMA GetWithPid ==
    ASSUME NEW M \in MachineType, NEW pid
    PROVE  LET r == process_get_with_pid(M, pid)
           IN  r = NULL \/ (r \in Procs /\ Has(M.list, r) /\ M.proc[r].pid = pid)
  <1> DEFINE first == {i \in 1..Len(M.list) :
                          /\ M.proc[M.list[i]].pid = pid
                          /\ \A j \in 1..(i - 1) : M.proc[M.list[j]].pid # pid}
             c == CHOOSE i \in first : TRUE
  <1>1. CASE first = {}
    BY <1>1 DEF process_get_with_pid
  <1>2. CASE first # {}
    <2>1. c \in first
      BY <1>2
    <2>2. process_get_with_pid(M, pid) = M.list[c]
      BY <1>2, SMTT(30) DEF process_get_with_pid
    <2>3. c \in 1..Len(M.list) /\ M.proc[M.list[c]].pid = pid
      BY <2>1
    <2> HIDE DEF c, first
    <2>4. M.list \in Seq(Procs)
      BY DEF MachineType
    <2>5. QED BY <2>2, <2>3, <2>4, SMTT(30) DEF Has
  <1>3. QED BY <1>1, <1>2

\* What free_process and its callers leave of the structs other than p, and
\* of the list.
Others(M, N, p) ==
    \A q \in Procs : q # p =>
        /\ SameBut(M.proc[q], N.proc[q])
        /\ Has(N.list, q) <=> Has(M.list, q)

\* free_process keeps the table in order and changes nothing of the other
\* processes but their children.
LEMMA FreeProcess ==
    ASSUME NEW M, MachineInv(M), ~M.bad, NEW p \in Procs
    PROVE  LET N == free_process(M, p)
           IN  /\ MachineInv(N) /\ Others(M, N, p)
               /\ ~N.bad => ~Has(N.list, p)
               /\ N.bad => N = [M EXCEPT !.bad = TRUE]
  <1> DEFINE N == free_process(M, p)
             father == M.proc[p].father
             list == list_del(M.list, p)
             T1 == IF father = NULL THEN M.proc
                   ELSE [M.proc EXCEPT ![father].children = list_del(@, p)]
             one == process_get_with_pid([M EXCEPT !.list = list], PROC_MIN_PID)
             T2 == IF one = NULL THEN T1
                   ELSE [T1 EXCEPT ![one].children = Reverse(T1[p].children) \o @]
             B == [M EXCEPT !.bad = TRUE]
  <1>1. /\ M \in MachineType /\ M.proc \in [Procs -> Struct] /\ M.list \in Seq(Procs)
        /\ M.bad \in BOOLEAN
    BY DEF MachineInv, MachineType
  <1>2. ASSUME N = B PROVE MachineInv(N) /\ Others(M, N, p)
    <2>1. B.proc = M.proc /\ B.list = M.list /\ B.bad = TRUE /\ B \in MachineType
      BY <1>1 DEF MachineType
    <2>2. QED BY <1>2, <2>1 DEF MachineInv, Others, SameBut
  <1>3. CASE father # NULL /\ father \notin Live(M)
    <2>1. N = B
      BY <1>3 DEF free_process
    <2>2. B.bad
      BY <1>1 DEF MachineType
    <2>3. QED BY <1>2, <2>1, <2>2
  <1>4. CASE ~(father # NULL /\ father \notin Live(M))
    <2> DEFINE T3 == [T2 EXCEPT ![p] = process_new]
    <2>1. N = [M EXCEPT !.proc = T3, !.list = list]
      BY <1>4 DEF free_process
    <2>2. father \in Procs \cup {NULL}
      BY <1>1, SMTT(30) DEF Struct
    <2>3. T1 \in [Procs -> Struct] /\ \A q \in Procs : SameBut(M.proc[q], T1[q])
      <3>1. CASE father = NULL
        BY <1>1, <3>1 DEF SameBut
      <3>2. CASE father # NULL
        <4> DEFINE P == M.proc[father]
                   Q == [P EXCEPT !.children = list_del(@, p)]
        <4>1. P \in Struct /\ father \in Procs
          BY <1>1, <2>2, <3>2
        <4>2. list_del(P.children, p) \in Seq(Procs)
          BY <4>1, ListDelType DEF Struct
        <4>3. Q \in Struct /\ SameBut(P, Q)
          BY <4>1, <4>2, SetChildren
        <4>4. T1 = [M.proc EXCEPT ![father] = Q]
          BY <3>2
        <4> HIDE DEF Q, T1, father
        <4>5. QED BY <1>1, <4>1, <4>3, <4>4 DEF SameBut
      <3>3. QED BY <3>1, <3>2
    <2> HIDE DEF T1
    <2>4. list \in Seq(Procs)
      BY <1>1, ListDelType
    <2>5. one \in Procs \cup {NULL}
      <3>1. [M EXCEPT !.list = list] \in MachineType
        BY <1>1, <2>4 DEF MachineType
      <3>2. QED BY <3>1, GetWithPid
    <2> HIDE DEF one, list
    <2>6. T2 \in [Procs -> Struct] /\ \A q \in Procs : SameBut(M.proc[q], T2[q])
      <3>1. CASE one = NULL
        BY <2>3, <3>1
      <3>2. CASE one # NULL
        <4> DEFINE P == T1[one]
                   Q == [P EXCEPT !.children = Reverse(T1[p].children) \o @]
        <4>1. P \in Struct /\ one \in Procs /\ T1[p] \in Struct
          BY <2>3, <2>5, <3>2
        <4>2. T1[p].children \in Seq(Procs) /\ P.children \in Seq(Procs)
          BY <4>1 DEF Struct
        <4>3. Reverse(T1[p].children) \o P.children \in Seq(Procs)
          BY <4>2, ReverseType, ConcatProperties
        <4>4. Q \in Struct /\ SameBut(P, Q)
          BY <4>1, <4>3, SetChildren
        <4>5. T2 = [T1 EXCEPT ![one] = Q]
          BY <3>2
        <4> HIDE DEF Q, T2
        <4>6. QED BY <2>3, <4>1, <4>4, <4>5 DEF SameBut
      <3>3. QED BY <3>1, <3>2
    <2> HIDE DEF T2
    <2>7. /\ T3 \in [Procs -> Struct] /\ T3[p] = process_new
          /\ \A q \in Procs : q # p => SameBut(M.proc[q], T3[q])
      BY <2>6, NewStruct
    <2> HIDE DEF T3
    <2>8. N \in MachineType /\ N.proc = T3 /\ N.list = list /\ N.bad = M.bad
      BY <1>1, <2>1, <2>4, <2>7 DEF MachineType
    <2>9. /\ Injective(list) /\ ~Has(list, p)
          /\ \A q \in Procs : q # p => (Has(list, q) <=> Has(M.list, q))
      <3>1. Injective(M.list)
        BY DEF MachineInv, ListInv
      <3>2. QED BY <1>1, <3>1, ListDelInjective, ListDelHas DEF list
    <2>10. Others(M, N, p)
      BY <2>7, <2>8, <2>9 DEF Others
    <2>11. ListInv(N.proc, N.list)
      BY <2>7, <2>8, <2>9 DEF MachineInv, ListInv, SameBut
    <2>12. \A q \in Procs : StructInv(N.proc[q]) /\ N.proc[q].father # q
      <3> TAKE q \in Procs
      <3>1. CASE q = p
        BY <2>7, <2>8, <3>1, NewStruct, ProcsAssumption
      <3>2. CASE q # p
        BY <2>7, <2>8, <3>2 DEF MachineInv, SameBut, StructInv
      <3>3. QED BY <3>1, <3>2
    <2>13. MachineInv(N)
      BY <2>8, <2>11, <2>12 DEF MachineInv
    <2>14. QED
      BY <2>8, <2>9, <2>10, <2>13
  <1>5. QED BY <1>3, <1>4

\* What process_die_safe makes of the struct P, and of the table before it
\* chooses whether to free p: p is a zombie without signals and its father, if
\* it has one, has been sent SIGCHLD.
Dead(P) == [P EXCEPT !.sig_queue = <<>>, !.state = ZOMBIE]
Told(M, p, ok) == add_signal(M.proc[M.proc[p].father], SIGCHLD, FALSE, ok)
DeadAlone(M, p) == [M EXCEPT !.proc = [M.proc EXCEPT ![p] = Dead(M.proc[p])]]
DeadChild(M, p, ok) ==
    [M EXCEPT !.proc = [M.proc EXCEPT ![p] = Dead(M.proc[p]), ![M.proc[p].father] = Told(M, p, ok)]]

\* process_die_safe in these words.
LEMMA DieSafeDef ==
    ASSUME NEW M, MachineInv(M), NEW p \in Procs, NEW ok \in BOOLEAN
    PROVE  LET father == M.proc[p].father
           IN  process_die_safe(M, p, ok) =
                   IF father = NULL THEN free_process(DeadAlone(M, p), p)
                   ELSE IF father \notin Live(M) THEN [M EXCEPT !.bad = TRUE]
                   ELSE IF M.proc[father].sig_handler[SIGCHLD] # "NULL"
                   THEN free_process(DeadChild(M, p, ok), p)
                   ELSE DeadChild(M, p, ok)
  <1> DEFINE father == M.proc[p].father
             T1 == [M.proc EXCEPT ![p].sig_queue = <<>>]
             T2 == [T1 EXCEPT ![father] = add_signal(@, SIGCHLD, FALSE, ok)]
             M1 == [M EXCEPT !.proc = [T1 EXCEPT ![p].state = ZOMBIE]]
             M2 == [M EXCEPT !.proc = [T2 EXCEPT ![p].state = ZOMBIE]]
  <1>1. /\ M.proc \in [Procs -> Struct] /\ M.proc[p] \in Struct
        /\ father \in Procs \cup {NULL} /\ father # p
    BY DEF MachineInv, MachineType, Struct
  <1>2. M1 = DeadAlone(M, p)
    BY <1>1 DEF DeadAlone, Dead
  <1>3. father # NULL => M2 = DeadChild(M, p, ok)
    BY <1>1 DEF DeadChild, Dead, Told
  <1>4. father # NULL => T2[father].sig_handler = M.proc[father].sig_handler
    <2> SUFFICES ASSUME father # NULL PROVE T2[father].sig_handler = M.proc[father].sig_handler
      OBVIOUS
    <2>1. father \in Procs /\ M.proc[father] \in Struct /\ StructInv(M.proc[father])
      BY <1>1 DEF MachineInv
    <2>2. T2[father] = Told(M, p, ok)
      BY <1>1, <2>1 DEF Told
    <2>3. SIGCHLD \in Sigs \cup {0} /\ FALSE \in BOOLEAN
      BY SigAssumption
    <2> DEFINE F == add_signal(M.proc[father], SIGCHLD, FALSE, ok)
    <2>4. F.sig_handler = M.proc[father].sig_handler
      BY <2>1, <2>3, AddSignal
    <2> HIDE DEF F, T2
    <2>5. QED BY <2>2, <2>4 DEF Told, F
  <1>5. process_die_safe(M, p, ok) =
            IF father = NULL THEN free_process(M1, p)
            ELSE IF father \notin Live(M) THEN [M EXCEPT !.bad = TRUE]
            ELSE IF T2[father].sig_handler[SIGCHLD] # "NULL" THEN free_process(M2, p) ELSE M2
    BY DEF process_die_safe
  <1> HIDE DEF T2, M1, M2
  <1>6. QED BY <1>2, <1>3, <1>4, <1>5

\* Both tables are in order.
LEMMA Dying ==
    ASSUME NEW M, MachineInv(M), ~M.bad, NEW p \in Procs, NEW ok \in BOOLEAN
    PROVE  LET Z == Dead(M.proc[p])
               father == M.proc[p].father
               M1 == DeadAlone(M, p)
               M2 == DeadChild(M, p, ok)
           IN  /\ MachineInv(M1) /\ ~M1.bad /\ M1.list = M.list /\ M1.proc[p] = Z
               /\ \A q \in Procs : q # p => M1.proc[q] = M.proc[q]
               /\ father # NULL =>
                    /\ MachineInv(M2) /\ ~M2.bad /\ M2.list = M.list /\ M2.proc[p] = Z
                    /\ M2.proc[father] = Told(M, p, ok)
                    /\ \A q \in Procs : q # p /\ q # father => M2.proc[q] = M.proc[q]
               /\ Z \in Struct /\ Z.father = father /\ Z.pid = M.proc[p].pid
               /\ Z.children = M.proc[p].children /\ Z.state = ZOMBIE /\ Z.sig_queue = <<>>
  <1> DEFINE father == M.proc[p].father
             M1 == DeadAlone(M, p)
             M2 == DeadChild(M, p, ok)
             Z == Dead(M.proc[p])
             F == Told(M, p, ok)
  <1>1. /\ M \in MachineType /\ M.proc \in [Procs -> Struct] /\ M.list \in Seq(Procs)
        /\ M.bad = FALSE
    BY DEF MachineInv, MachineType
  <1>2. M.proc[p] \in Struct /\ father \in Procs \cup {NULL} /\ father # p
    BY <1>1 DEF MachineInv, Struct
  <1>3. /\ Z \in Struct /\ StructInv(Z) /\ Z.father = M.proc[p].father
        /\ Z.pid = M.proc[p].pid /\ Z.children = M.proc[p].children
        /\ Z.state = ZOMBIE /\ Z.sig_queue = <<>>
    <2>1. <<>> \in Seq(Entry) OBVIOUS
    <2>2. QED BY <1>2, <2>1 DEF Struct, StructInv, Dead
  <1> HIDE DEF Z
  <1>4. /\ M1 \in MachineType /\ M1.list = M.list /\ M1.proc[p] = Z /\ M1.bad = FALSE
        /\ \A q \in Procs : q # p => M1.proc[q] = M.proc[q]
    BY <1>1, <1>3 DEF MachineType, DeadAlone, Z
  <1> HIDE DEF M1
  <1>5. MachineInv(M1)
    BY <1>2, <1>3, <1>4, Update
  <1>6. ASSUME father # NULL
        PROVE  /\ MachineInv(M2) /\ ~M2.bad /\ M2.list = M.list /\ M2.proc[p] = Z
               /\ M2.proc[father] = F
               /\ \A q \in Procs : q # p /\ q # father => M2.proc[q] = M.proc[q]
    <2>1. father \in Procs /\ M.proc[father] \in Struct /\ StructInv(M.proc[father])
      BY <1>1, <1>2, <1>6 DEF MachineInv
    <2>2. /\ F \in Struct /\ StructInv(F) /\ F.pid = M.proc[father].pid
          /\ F.father = M.proc[father].father /\ F.father # father
      <3>1. SIGCHLD \in Sigs \cup {0} BY SigAssumption
      <3>2. M.proc[father].father # father BY <2>1 DEF MachineInv
      <3>3. QED BY <2>1, <3>1, <3>2, AddSignal DEF Told
    <2> HIDE DEF F
    <2>3. M2 = [M EXCEPT !.proc = [M.proc EXCEPT ![p] = Z, ![father] = F]]
      BY DEF Z, F, DeadChild
    <2> HIDE DEF M2
    <2>4. /\ M2 \in MachineType /\ M2.list = M.list /\ M2.proc[p] = Z
          /\ M2.bad = FALSE /\ M2.proc[father] = F
          /\ \A q \in Procs : q # p /\ q # father => M2.proc[q] = M.proc[q]
      BY <1>1, <1>2, <1>3, <2>1, <2>2, <2>3 DEF MachineType
    <2> HIDE DEF father
    <2>5. \A q \in Procs : q # father => M2.proc[q] = M1.proc[q]
      BY <1>4, <2>4
    <2>6. M2.proc[father].pid = M1.proc[father].pid /\ M2.list = M1.list
      BY <1>2, <1>4, <2>1, <2>2, <2>4
    <2>7. MachineInv(M2)
      BY <1>5, <2>1, <2>2, <2>4, <2>5, <2>6, Update
    <2>8. QED BY <2>4, <2>7
  <1>7. QED BY <1>3, <1>4, <1>5, <1>6 DEF Z, M1

\* process_die_safe keeps the table in order, whether it leaves a zombie or
\* frees the process.
LEMMA DieSafe ==
    ASSUME NEW M, MachineInv(M), ~M.bad, NEW p \in Procs, NEW ok \in BOOLEAN
    PROVE  MachineInv(process_die_safe(M, p, ok))
  <1> DEFINE father == M.proc[p].father
             B == [M EXCEPT !.bad = TRUE]
  <1>1. MachineInv(B)
    <2>1. B.proc = M.proc /\ B.list = M.list /\ B \in MachineType
      BY DEF MachineType, MachineInv
    <2> HIDE DEF B
    <2>2. QED BY <2>1 DEF MachineInv
  <1>2. MachineInv(DeadAlone(M, p)) /\ MachineInv(free_process(DeadAlone(M, p), p))
    BY Dying, FreeProcess
  <1>3. ASSUME father # NULL
        PROVE  MachineInv(DeadChild(M, p, ok)) /\ MachineInv(free_process(DeadChild(M, p, ok), p))
    BY <1>3, Dying, FreeProcess
  <1> HIDE DEF B
  <1>4. process_die_safe(M, p, ok) =
            IF father = NULL THEN free_process(DeadAlone(M, p), p)
            ELSE IF father \notin Live(M) THEN B
            ELSE IF M.proc[father].sig_handler[SIGCHLD] # "NULL"
            THEN free_process(DeadChild(M, p, ok), p)
            ELSE DeadChild(M, p, ok)
    BY DieSafeDef DEF B
  <1>5. QED BY <1>1, <1>2, <1>3, <1>4

\* A table in order stays so when it turns out that a dangling pointer was read.
LEMMA Bad ==
    ASSUME NEW M, MachineInv(M)
    PROVE  /\ MachineInv([M EXCEPT !.bad = TRUE])
           /\ [M EXCEPT !.bad = TRUE].list = M.list /\ [M EXCEPT !.bad = TRUE].bad
  <1> DEFINE B == [M EXCEPT !.bad = TRUE]
  <1>1. B.proc = M.proc /\ B.list = M.list /\ B \in MachineType /\ B.bad
    BY DEF MachineType, MachineInv
  <1> HIDE DEF B
  <1>2. MachineInv(B)
    BY <1>1 DEF MachineInv
  <1>3. QED BY <1>1, <1>2 DEF B

\* Walk gives NULL or a child, which need not be alive; one that is alive is
\* among the wanted.
LEMMA WalkResult ==
    ASSUME NEW M \in MachineType, NEW f \in Procs, NEW wanted
    PROVE  LET c == Walk(M, f, wanted)
           IN  c = NULL \/ (c \in Procs /\ (Has(M.list, c) => c \in wanted))
  <1> DEFINE ch == M.proc[f].children
             stop == {i \in 1..Len(ch) : /\ ch[i] \notin Live(M) \/ ch[i] \in wanted
                                         /\ \A j \in 1..(i - 1) : /\ ch[j] \in Live(M)
                                                                  /\ ch[j] \notin wanted}
             k == CHOOSE i \in stop : TRUE
  <1>1. CASE stop = {}
    BY <1>1 DEF Walk
  <1>2. CASE stop # {}
    <2>1. k \in stop
      BY <1>2
    <2>2. Walk(M, f, wanted) = ch[k]
      BY <1>2 DEF Walk
    <2>3. k \in 1..Len(ch) /\ (ch[k] \notin Live(M) \/ ch[k] \in wanted)
      BY <2>1
    <2>4. ch \in Seq(Procs)
      BY DEF MachineType, Struct
    <2> HIDE DEF k, stop, ch
    <2>5. QED BY <2>2, <2>3, <2>4 DEF Live
  <1>3. QED BY <1>1, <1>2

\* end_of_child keeps the table in order; the father stays on the list, and is
\* set running unless a dangling pointer was read.
LEMMA EndOfChild ==
    ASSUME NEW M, MachineInv(M), ~M.bad, NEW c \in Procs, NEW f \in Procs, c # f,
           M.proc[f].state # ZOMBIE, Has(M.list, f)
    PROVE  LET N == end_of_child(M, c, f)
           IN  /\ MachineInv(N) /\ Has(N.list, f)
               /\ N.proc[f].state # ZOMBIE
               /\ N.proc[f].sig_queue = M.proc[f].sig_queue
               /\ N.proc[f].pid = M.proc[f].pid
  <1> DEFINE C == M.proc[c]
             P0 == [M.proc[f] EXCEPT !.waiting_return = C.end_value, !.waiting_pid = C.pid]
             M0 == [M EXCEPT !.proc[f].waiting_return = C.end_value, !.proc[f].waiting_pid = C.pid]
             M1 == free_process(M0, c)
             P2 == [M1.proc[f] EXCEPT !.state = RUN]
             M2 == [M1 EXCEPT !.proc[f].state = RUN]
  <1>1. /\ M \in MachineType /\ M.proc \in [Procs -> Struct] /\ M.list \in Seq(Procs)
        /\ M.bad = FALSE /\ M.proc[f] \in Struct /\ C \in Struct
    BY DEF MachineInv, MachineType
  <1>2. StructInv(M.proc[f]) /\ M.proc[f].father # f
    BY DEF MachineInv
  <1>3. /\ P0 \in Struct /\ StructInv(P0) /\ P0.father # f /\ P0.pid = M.proc[f].pid
        /\ P0.state = M.proc[f].state /\ P0.sig_queue = M.proc[f].sig_queue
    <2> HIDE DEF C
    <2>1. C.end_value \in Int /\ C.pid \in Pids \cup {0}
      BY <1>1 DEF Struct
    <2>2. C.pid \in Int
      BY <2>1, PidAssumption DEF Pids
    <2>3. QED BY <1>1, <1>2, <2>1, <2>2 DEF Struct, StructInv
  <1>4. M0 = [M EXCEPT !.proc = [M.proc EXCEPT ![f] = P0]]
    BY <1>1
  <1> HIDE DEF P0
  <1>5. /\ M0 \in MachineType /\ M0.list = M.list /\ M0.proc[f] = P0 /\ M0.bad = FALSE
        /\ \A q \in Procs : q # f => M0.proc[q] = M.proc[q]
    BY <1>1, <1>3, <1>4, ZenonT(40) DEF MachineType
  <1> HIDE DEF M0
  <1>6. MachineInv(M0)
    BY <1>3, <1>5, Update
  <1>7. MachineInv(M1) /\ Others(M0, M1, c)
    BY <1>5, <1>6, FreeProcess
  <1> HIDE DEF M1
  <1>8. /\ M1 \in MachineType /\ M1.proc \in [Procs -> Struct] /\ M1.proc[f] \in Struct
        /\ StructInv(M1.proc[f]) /\ M1.proc[f].father # f
        /\ M1.proc[f].state # ZOMBIE /\ Has(M1.list, f)
        /\ M1.proc[f].sig_queue = M.proc[f].sig_queue /\ M1.proc[f].pid = M.proc[f].pid
    BY <1>3, <1>5, <1>7 DEF MachineInv, MachineType, Others, SameBut
  <1>9. CASE M1.bad
    <2>1. end_of_child(M, c, f) = M1
      BY <1>9 DEF end_of_child, M1, M0
    <2>2. QED BY <1>7, <1>8, <2>1
  <1>10. CASE ~M1.bad
    <2>1. end_of_child(M, c, f) = M2
      BY <1>10 DEF end_of_child, M1, M0
    <2>2. /\ P2 \in Struct /\ StructInv(P2) /\ P2.father # f /\ P2.pid = M1.proc[f].pid
          /\ P2.state # ZOMBIE /\ P2.sig_queue = M1.proc[f].sig_queue
      BY <1>8 DEF Struct, StructInv, RUN, ZOMBIE
    <2>3. M2 = [M1 EXCEPT !.proc = [M1.proc EXCEPT ![f] = P2]]
      BY <1>8
    <2> HIDE DEF P2
    <2>4. /\ M2 \in MachineType /\ M2.list = M1.list /\ M2.proc[f] = P2
          /\ \A q \in Procs : q # f => M2.proc[q] = M1.proc[q]
      BY <1>8, <2>2, <2>3 DEF MachineType
    <2> HIDE DEF M2
    <2>5. MachineInv(M2)
      BY <1>7, <2>2, <2>4, Update
    <2>6. QED BY <1>8, <2>1, <2>2, <2>4, <2>5
  <1>11. QED BY <1>9, <1>10

\* What a kernel call of the process f, or a signal sent to it, may leave: the
\* table in order, and f on the list with its signals, not dead.
Kept(M, N, f) ==
    /\ MachineInv(N) /\ Has(N.list, f)
    /\ N.proc[f].state # ZOMBIE
    /\ N.proc[f].sig_queue = M.proc[f].sig_queue

\* child_ended keeps the process it runs for.
LEMMA ChildEnded ==
    ASSUME NEW M, MachineInv(M), ~M.bad, NEW f \in Procs, Has(M.list, f),
           M.proc[f].state # ZOMBIE
    PROVE  Kept(M, child_ended(M, f), f)
  <1> DEFINE w == M.proc[f].waiting_pid
             wanted == {c \in Live(M) : M.proc[c].state = ZOMBIE /\ (w = -1 \/ M.proc[c].pid = w)}
             c == Walk(M, f, wanted)
             B == [M EXCEPT !.bad = TRUE]
  <1>1. M \in MachineType
    BY DEF MachineInv
  <1>2. c = NULL \/ (c \in Procs /\ (Has(M.list, c) => c \in wanted))
    BY <1>1, WalkResult
  <1>3. child_ended(M, f) = IF c = NULL THEN M
                            ELSE IF c \notin Live(M) THEN B ELSE end_of_child(M, c, f)
    BY DEF child_ended
  <1>4. c \in wanted => c # f
    OBVIOUS
  <1> HIDE DEF wanted, c
  <1>5. CASE c = NULL
    BY <1>3, <1>5 DEF Kept
  <1>6. CASE c # NULL /\ c \notin Live(M)
    <2>1. child_ended(M, f) = B
      BY <1>3, <1>6
    <2>2. B.proc = M.proc
      BY <1>1 DEF MachineType
    <2>3. QED BY <2>1, <2>2, Bad DEF Kept
  <1>7. CASE c # NULL /\ c \in Live(M)
    <2>1. child_ended(M, f) = end_of_child(M, c, f)
      BY <1>3, <1>7
    <2>2. c \in Procs /\ c # f
      BY <1>2, <1>4, <1>7 DEF Live
    <2>3. QED BY <2>1, <2>2, EndOfChild DEF Kept
  <1>8. QED BY <1>5, <1>6, <1>7

\* A struct may be given another waiting_return.
LEMMA SetReturn ==
    ASSUME NEW P \in Struct, NEW v \in Int
    PROVE  LET Q == [P EXCEPT !.waiting_return = v]
           IN  /\ Q \in Struct /\ Q.father = P.father /\ Q.pid = P.pid /\ Q.state = P.state
               /\ Q.sig_queue = P.sig_queue /\ Q.sig_avalaible = P.sig_avalaible
  BY DEF Struct

\* process_waitpid keeps its caller.
LEMMA WaitPid ==
    ASSUME NEW M, MachineInv(M), ~M.bad, NEW f \in Procs, Has(M.list, f),
           M.proc[f].state # ZOMBIE, NEW w \in Int, NEW nohang \in BOOLEAN
    PROVE  Kept(M, process_waitpid(M, f, w, nohang), f)
  <1> DEFINE P == M.proc[f]
             wanted == {c \in Live(M) : \/ w = -1 /\ M.proc[c].state = ZOMBIE
                                        \/ M.proc[c].pid = w}
             c == Walk(M, f, wanted)
             block == IF nohang THEN M
                      ELSE [M EXCEPT !.proc[f].state = STOPPED, !.proc[f].waiting_pid = w]
             clear == [M EXCEPT !.proc[f].waiting_return = 0]
             B == [M EXCEPT !.bad = TRUE]
             E == end_of_child(M, c, f)
             E0 == [E EXCEPT !.proc[f].waiting_return = 0]
             N == process_waitpid(M, f, w, nohang)
  <1>1. /\ M \in MachineType /\ M.proc \in [Procs -> Struct] /\ P \in Struct
        /\ StructInv(P) /\ P.father # f /\ M.bad = FALSE
    BY DEF MachineInv, MachineType
  <1>2. c = NULL \/ (c \in Procs /\ (Has(M.list, c) => c \in wanted))
    BY <1>1, WalkResult
  <1> HIDE DEF c, wanted
  <1>3. Kept(M, M, f)
    BY DEF Kept
  <1>4. Kept(M, B, f)
    <2>1. B.proc = M.proc
      BY <1>1 DEF MachineType
    <2>2. QED BY <2>1, Bad DEF Kept
  <1>5. ASSUME NEW K, MachineInv(K), Kept(M, K, f)
        PROVE  Kept(M, [K EXCEPT !.proc[f].waiting_return = 0], f)
    <2> DEFINE L == [K EXCEPT !.proc[f].waiting_return = 0]
               R == K.proc[f]
               Q == [R EXCEPT !.waiting_return = 0]
    <2>1. /\ K \in MachineType /\ K.proc \in [Procs -> Struct] /\ R \in Struct
          /\ StructInv(R) /\ R.father # f
      BY <1>5 DEF MachineInv, MachineType
    <2>2. L = [K EXCEPT !.proc = [K.proc EXCEPT ![f] = Q]]
      BY <2>1
    <2> HIDE DEF R
    <2>3. /\ Q \in Struct /\ StructInv(Q) /\ Q.father # f /\ Q.pid = R.pid
          /\ Q.state = R.state /\ Q.sig_queue = R.sig_queue
      <3>1. /\ Q \in Struct /\ Q.father = R.father /\ Q.pid = R.pid /\ Q.state = R.state
            /\ Q.sig_queue = R.sig_queue /\ Q.sig_avalaible = R.sig_avalaible
        BY <2>1, SetReturn, 0 \in Int
      <3> HIDE DEF Q
      <3>2. QED BY <2>1, <3>1 DEF StructInv
    <2> HIDE DEF Q
    <2>4. /\ L \in MachineType /\ L.list = K.list /\ L.proc[f] = Q
          /\ \A q \in Procs : q # f => L.proc[q] = K.proc[q]
      BY <2>1, <2>2, <2>3 DEF MachineType
    <2> HIDE DEF L
    <2>5. MachineInv(L)
      BY <1>5, <2>3, <2>4, Update DEF R
    <2>6. Kept(M, L, f)
      BY <1>5, <2>3, <2>4, <2>5 DEF Kept, R
    <2>7. QED BY <2>6 DEF L
  <1>6. Kept(M, clear, f)
    BY <1>3, <1>5
  <1>7. Kept(M, block, f)
    <2>1. CASE nohang
      BY <1>3, <2>1
    <2>2. CASE ~nohang
      <3> DEFINE L == [M EXCEPT !.proc[f].state = STOPPED, !.proc[f].waiting_pid = w]
                 Q == [P EXCEPT !.state = STOPPED, !.waiting_pid = w]
      <3>1. P.state # ZOMBIE
        OBVIOUS
      <3>2. /\ Q \in Struct /\ StructInv(Q) /\ Q.father # f /\ Q.pid = P.pid
            /\ Q.state # ZOMBIE /\ Q.sig_queue = P.sig_queue
        BY <1>1, <3>1 DEF Struct, StructInv, STOPPED, ZOMBIE
      <3>3. L = [M EXCEPT !.proc = [M.proc EXCEPT ![f] = Q]]
        BY <1>1
      <3> HIDE DEF Q
      <3>4. /\ L \in MachineType /\ L.list = M.list /\ L.proc[f] = Q
            /\ \A q \in Procs : q # f => L.proc[q] = M.proc[q]
        BY <1>1, <3>2, <3>3, ZenonT(40) DEF MachineType
      <3>5. block = L
        BY <2>2
      <3> HIDE DEF L
      <3>6. MachineInv(L)
        BY <3>2, <3>4, Update
      <3>7. QED BY <3>2, <3>4, <3>5, <3>6 DEF Kept
    <2>3. QED BY <2>1, <2>2
  <1>8. ASSUME c \in Live(M), c \in Procs, M.proc[c].state = ZOMBIE
        PROVE  Kept(M, E, f) /\ Kept(M, E0, f)
    <2>1. c # f
      BY <1>8
    <2>2. Kept(M, E, f) /\ MachineInv(E)
      BY <1>8, <2>1, EndOfChild DEF Kept
    <2>3. QED BY <2>2, <1>5
  <1>9. \/ N \in {M, clear, block, B}
        \/ c \in Live(M) /\ M.proc[c].state = ZOMBIE /\ N \in {E, E0}
    <2>1. NULL \notin Live(M)
      BY ProcsAssumption DEF Live
    <2> HIDE DEF clear, block, B, E0
    <2>2. N = IF P.waiting_return # 0 /\ (P.waiting_pid = w \/ w = -1) THEN clear
              ELSE CASE c = NULL -> IF w = -1 /\ P.children # <<>> THEN block ELSE M
                     [] c # NULL /\ c \notin Live(M) -> B
                     [] OTHER -> IF M.proc[c].state # ZOMBIE THEN block
                                 ELSE IF E.bad THEN E ELSE E0
      BY DEF process_waitpid, clear, block, B, E0, c, wanted
    <2> HIDE DEF E, N, P
    <2>3. CASE c = NULL
      BY <2>1, <2>2, <2>3
    <2>4. CASE c # NULL /\ c \notin Live(M)
      BY <2>2, <2>4
    <2>5. CASE c # NULL /\ c \in Live(M)
      BY <2>2, <2>5
    <2>6. QED BY <2>3, <2>4, <2>5
  <1> HIDE DEF N, E, E0, clear, block, B
  <1>10. Live(M) \subseteq Procs
    BY DEF Live
  <1>11. Kept(M, N, f)
    BY <1>3, <1>4, <1>6, <1>7, <1>8, <1>9, <1>10
  <1>12. QED BY <1>11 DEF N

\* sent takes the head of the queue away and no more of the mask than what the
\* rest of the queue does not need to cover.
LEMMA Sent ==
    ASSUME NEW M, MachineInv(M), NEW f \in Procs, Has(M.list, f),
           M.proc[f].state # ZOMBIE, M.proc[f].sig_queue # <<>>
    PROVE  LET N == sent(M, f)
           IN  /\ MachineInv(N) /\ N.list = M.list
               /\ N.proc[f].state = M.proc[f].state /\ N.bad = M.bad
  <1> DEFINE P == M.proc[f]
             q == P.sig_queue
             t == Tail(q)
             m == P.sig_avalaible \ blocked_sig(Head(q).sig)
             Q == [P EXCEPT !.sig_avalaible = m, !.sig_queue = t]
             N == [M EXCEPT !.proc[f].sig_avalaible = m, !.proc[f].sig_queue = t]
  <1>1. /\ M \in MachineType /\ M.proc \in [Procs -> Struct] /\ P \in Struct
        /\ StructInv(P) /\ P.father # f
    BY DEF MachineInv, MachineType
  <1>2. /\ q \in Seq(Entry) /\ P.sig_avalaible \in SUBSET (1..32) /\ q # <<>>
        /\ P.state # ZOMBIE
    BY <1>1 DEF Struct
  <1>3. CASE M.bad
    <2>1. sent(M, f) = M BY <1>3 DEF sent
    <2>2. QED BY <2>1
  <1>4. CASE ~M.bad
    <2>1. sent(M, f) = N
      BY <1>2, <1>4 DEF sent
    <2>2. N = [M EXCEPT !.proc = [M.proc EXCEPT ![f] = Q]]
      BY <1>1
    <2>3. Covered(q, P.sig_avalaible)
      BY <1>1, <1>2 DEF StructInv
    <2> HIDE DEF q
    <2>4. /\ t \in Seq(Entry) /\ Len(t) = Len(q) - 1 /\ Len(q) \in Nat
          /\ \A i \in 1..Len(t) : t[i] = q[i + 1]
          /\ Head(q) = q[1]
      BY <1>2
    <2> HIDE DEF t
    <2>5. Covered(t, m)
      <3> SUFFICES ASSUME NEW b \in m PROVE \E i \in 1..Len(t) : b \in blocked_sig(t[i].sig)
        BY DEF Covered
      <3>1. PICK i \in 1..Len(q) : b \in blocked_sig(q[i].sig)
        BY <2>3 DEF Covered
      <3>2. i # 1
        BY <2>4, <3>1
      <3> HIDE DEF m
      <3>3. i - 1 \in 1..Len(t) /\ (i - 1) + 1 = i
        BY <2>4, <3>2
      <3>4. t[i - 1] = q[i]
        BY <2>4, <3>3
      <3>5. QED BY <3>1, <3>3, <3>4
    <2>6. m \in SUBSET (1..32)
      BY <1>2
    <2> HIDE DEF m
    <2>7. /\ Q \in Struct /\ Q.father # f /\ Q.pid = P.pid /\ Q.state = P.state
          /\ Q.sig_queue = t /\ Q.sig_avalaible = m
      BY <1>1, <2>4, <2>6 DEF Struct
    <2> HIDE DEF Q
    <2>8. StructInv(Q)
      BY <1>2, <2>5, <2>7 DEF StructInv
    <2> HIDE DEF N, P
    <2>9. /\ N \in MachineType /\ N.list = M.list /\ N.proc[f] = Q /\ N.bad = M.bad
          /\ \A r \in Procs : r # f => N.proc[r] = M.proc[r]
      BY <1>1, <2>2, <2>7 DEF MachineType
    <2>10. MachineInv(N)
      BY <2>7, <2>8, <2>9, Update DEF P
    <2>11. QED BY <2>1, <2>7, <2>9, <2>10 DEF P
  <1>5. QED BY <1>3, <1>4

\* The remainder of a division by n lies below n.
LEMMA ModRange ==
    ASSUME NEW x \in Int, NEW n \in Nat, n > 0
    PROVE  x % n \in 0..(n - 1)
  OBVIOUS

\* What switch_process and its callers hand to proc_switch: a process on the
\* list that is not dead, or none.
Choice(M, r) ==
    /\ r.cur \in Procs \cup {NULL} /\ r.mode \in Modes \ {"fork"}
    /\ r.cur # NULL => Has(M.list, r.cur)
    /\ r.mode = "load" => r.cur # NULL
    /\ r.mode \in {"run", "load"} /\ r.cur # NULL => M.proc[r.cur].state # ZOMBIE

\* switch_process never chooses a dead process.
LEMMA SwitchProcess ==
    ASSUME NEW M, MachineInv(M), NEW cur \in Procs \cup {NULL}, cur # NULL => Has(M.list, cur)
    PROVE  Choice(M, switch_process(M, cur))
  <1> DEFINE n     == Len(M.list)
             start == IF cur = NULL THEN 0 ELSE Pos(M.list, cur)
             at(k) == M.list[((start + k - 1) % n) + 1]
             first == {k \in 1..n : /\ runnable(M.proc[at(k)])
                                    /\ \A j \in 1..(k - 1) : ~runnable(M.proc[at(j)])}
             k0    == CHOOSE k \in first : TRUE
             r     == switch_process(M, cur)
  <1>1. /\ M \in MachineType /\ M.proc \in [Procs -> Struct] /\ M.list \in Seq(Procs)
        /\ n \in Nat
    BY DEF MachineInv, MachineType
  <1>2. start \in Nat
    BY <1>1, PosExists
  <1>3. r \in {[cur |-> cur, mode |-> "undefined"], [cur |-> at(k0), mode |-> "load"],
               [cur |-> NULL, mode |-> "panic"], [cur |-> NULL, mode |-> "hang"],
               [cur |-> NULL, mode |-> "run"]}
        /\ (r = [cur |-> at(k0), mode |-> "load"] => first # {})
    <2> HIDE DEF n, first, start
    <2>1. r = CASE M.bad -> [cur |-> cur, mode |-> "undefined"]
               [] ~M.bad /\ first # {} -> [cur |-> at(k0), mode |-> "load"]
               [] ~M.bad /\ first = {} /\ n = 0 -> [cur |-> NULL, mode |-> "panic"]
               [] ~M.bad /\ first = {} /\ n # 0 /\ cur = NULL -> [cur |-> NULL, mode |-> "hang"]
               [] OTHER -> IF \E i \in 1..n : M.proc[M.list[i]].state # ZOMBIE
                           THEN [cur |-> NULL, mode |-> "run"]
                           ELSE [cur |-> NULL, mode |-> "panic"]
      BY DEF switch_process, n, first, start
    <2> HIDE DEF k0, r, at
    <2>2. CASE M.bad
      BY <2>1, <2>2
    <2>3. CASE ~M.bad /\ first # {}
      BY <2>1, <2>3
    <2>4. CASE ~M.bad /\ first = {} /\ n = 0
      BY <2>1, <2>4
    <2>5. CASE ~M.bad /\ first = {} /\ n # 0 /\ cur = NULL
      BY <2>1, <2>5
    <2>6. CASE ~M.bad /\ first = {} /\ n # 0 /\ cur # NULL
      BY <2>1, <2>6
    <2>7. QED BY <2>2, <2>3, <2>4, <2>5, <2>6
  <1>4. ASSUME first # {}
        PROVE  at(k0) \in Procs /\ Has(M.list, at(k0)) /\ M.proc[at(k0)].state # ZOMBIE
    <2>1. k0 \in first
      BY <1>4, ZenonT(40)
    <2>2. k0 \in 1..n /\ runnable(M.proc[at(k0)])
      BY <2>1
    <2> HIDE DEF k0, first, start
    <2>3. ((start + k0 - 1) % n) + 1 \in 1..n
      <3> HIDE DEF n
      <3>1. start + k0 - 1 \in Int /\ n > 0
        BY <1>1, <1>2, <2>2
      <3>2. (start + k0 - 1) % n \in 0..(n - 1)
        BY <1>1, <3>1, ModRange
      <3>3. QED BY <1>1, <3>2
    <2>4. at(k0) \in Procs /\ Has(M.list, at(k0))
      BY <1>1, <2>3 DEF Has
    <2> HIDE DEF at
    <2>5. StructInv(M.proc[at(k0)])
      BY <2>4 DEF MachineInv
    <2>6. QED BY <2>2, <2>4, <2>5, SMTT(30) DEF StructInv, runnable, RUN, ZOMBIE
  <1> HIDE DEF r, at, k0, first
  <1>5. ASSUME r = [cur |-> at(k0), mode |-> "load"] PROVE Choice(M, r)
    BY <1>3, <1>4, <1>5, ProcsAssumption DEF Choice, Modes
  <1>6. ASSUME r = [cur |-> cur, mode |-> "undefined"] PROVE Choice(M, r)
    BY <1>6 DEF Choice, Modes
  <1>7. ASSUME r \in {[cur |-> NULL, mode |-> "panic"], [cur |-> NULL, mode |-> "hang"],
                      [cur |-> NULL, mode |-> "run"]}
        PROVE  Choice(M, r)
    BY <1>7 DEF Choice, Modes
  <1>8. QED BY <1>3, <1>5, <1>6, <1>7 DEF r

\* process_alloc_pid returns a pid nobody on the list has, or fails, and leaves
\* its counter within the pids.
LEMMA AllocPid ==
    ASSUME NEW M, NEW last \in Pids
    PROVE  LET a == process_alloc_pid(M, last)
           IN  /\ a.pid \in Pids \cup {0} /\ a.last \in Pids
               /\ a.pid # 0 => \A p \in Procs : Has(M.list, p) => M.proc[p].pid # a.pid
  <1> DEFINE tries == FreeTries(M, last)
             k == CHOOSE t \in tries : TRUE
             a == process_alloc_pid(M, last)
  <1>1. PidRing \in Nat /\ PidRing > 0 /\ PROC_MAX_PID = PidRing + 1 /\ PROC_MIN_PID = 1
    BY PidAssumption DEF PidRing
  <1>2. \A pid \in Pids : PidAfter(pid) \in Pids
    BY PidAssumption DEF PidAfter, Pids
  <1>3. ASSUME NEW j \in Nat, j # 0 PROVE PidCandidate(last, j) \in PROC_MIN_PID..(PROC_MAX_PID - 1)
    <2> DEFINE x == PidAfter(last) - PROC_MIN_PID + j - 1
    <2>1. x \in Int
      BY <1>1, <1>2 DEF Pids
    <2>2. PidCandidate(last, j) = PROC_MIN_PID + (x % PidRing)
      BY <1>3 DEF PidCandidate
    <2> HIDE DEF x
    <2>3. x % PidRing \in 0..(PidRing - 1)
      BY <1>1, <2>1, ModRange
    <2>4. QED BY <1>1, <2>2, <2>3
  <1>4. \A j \in Nat : PidCandidate(last, j) \in Pids
    <2> TAKE j \in Nat
    <2>1. CASE j = 0
      BY <2>1 DEF PidCandidate
    <2>2. CASE j # 0
      BY <1>1, <1>3, <2>2 DEF Pids
    <2>3. QED BY <2>1, <2>2
  <1>5. CASE tries = {}
    <2>1. a = [pid |-> 0, last |-> PidCandidate(last, PidRing + 1) + 1]
      BY <1>5 DEF process_alloc_pid
    <2>2. PidRing + 1 \in Nat /\ PidRing + 1 # 0
      BY <1>1
    <2>3. PidCandidate(last, PidRing + 1) \in PROC_MIN_PID..(PROC_MAX_PID - 1)
      BY <1>3, <2>2
    <2>4. PidCandidate(last, PidRing + 1) + 1 \in Pids
      BY <1>1, <2>3 DEF Pids
    <2>5. QED BY <2>1, <2>4
  <1>6. CASE tries # {}
    <2> DEFINE c == PidCandidate(last, k)
    <2>1. k \in tries
      BY <1>6
    <2>2. a = [pid |-> c, last |-> PidAfter(c)]
      BY <1>6 DEF process_alloc_pid
    <2>3. k \in Nat /\ \A p \in Live(M) : M.proc[p].pid # c
      BY <1>1, <2>1 DEF FreeTries
    <2> HIDE DEF k, tries
    <2>4. c \in Pids /\ PidAfter(c) \in Pids
      BY <1>2, <1>4, <2>3
    <2>5. QED BY <2>2, <2>3, <2>4 DEF Live
  <1>7. QED BY <1>5, <1>6

LiveStates == {RUN, STOPPED}

\* N is as M but for the end_value and the state of f.
Marked(M, N, f, st) ==
    /\ MachineInv(N) /\ N.list = M.list /\ N.bad = M.bad
    /\ N.proc[f].state = st /\ N.proc[f].sig_queue = M.proc[f].sig_queue

\* A table stays in order when a process that lives is given an end_value, and
\* stopped or set running.
LEMMA SetState ==
    ASSUME NEW M, MachineInv(M), NEW f \in Procs, M.proc[f].state # ZOMBIE,
           NEW v \in Int, NEW st \in LiveStates
    PROVE  LET N == [M EXCEPT !.proc[f].end_value = v, !.proc[f].state = st]
               E == [M EXCEPT !.proc[f].end_value = v]
           IN  Marked(M, N, f, st) /\ Marked(M, E, f, M.proc[f].state)
  <1> DEFINE N == [M EXCEPT !.proc[f].end_value = v, !.proc[f].state = st]
             E == [M EXCEPT !.proc[f].end_value = v]
             P == M.proc[f]
             Q == [P EXCEPT !.end_value = v, !.state = st]
             R == [P EXCEPT !.end_value = v]
  <1>1. /\ M \in MachineType /\ M.proc \in [Procs -> Struct] /\ P \in Struct
        /\ StructInv(P) /\ P.father # f /\ P.state # ZOMBIE
    BY DEF MachineInv, MachineType
  <1>2. /\ N = [M EXCEPT !.proc = [M.proc EXCEPT ![f] = Q]]
        /\ E = [M EXCEPT !.proc = [M.proc EXCEPT ![f] = R]]
    BY <1>1
  <1> HIDE DEF N, E, P
  <1>3. /\ Q \in Struct /\ Q.father = P.father /\ Q.pid = P.pid /\ Q.state = st
        /\ Q.sig_queue = P.sig_queue /\ Q.sig_avalaible = P.sig_avalaible
    BY <1>1 DEF Struct, LiveStates
  <1>4. /\ R \in Struct /\ R.father = P.father /\ R.pid = P.pid /\ R.state = P.state
        /\ R.sig_queue = P.sig_queue /\ R.sig_avalaible = P.sig_avalaible
    BY <1>1 DEF Struct
  <1> HIDE DEF Q, R
  <1>5. StructInv(Q) /\ StructInv(R)
    BY <1>1, <1>3, <1>4 DEF StructInv, LiveStates, RUN, STOPPED, ZOMBIE
  <1>6. /\ N \in MachineType /\ N.list = M.list /\ N.proc[f] = Q /\ N.bad = M.bad
        /\ \A r \in Procs : r # f => N.proc[r] = M.proc[r]
    BY <1>1, <1>2, <1>3 DEF MachineType
  <1>7. /\ E \in MachineType /\ E.list = M.list /\ E.proc[f] = R /\ E.bad = M.bad
        /\ \A r \in Procs : r # f => E.proc[r] = M.proc[r]
    BY <1>1, <1>2, <1>4 DEF MachineType
  <1>8. MachineInv(N)
    BY <1>1, <1>3, <1>5, <1>6, Update DEF P
  <1>9. MachineInv(E)
    BY <1>1, <1>4, <1>5, <1>7, Update DEF P
  <1>10. Marked(M, N, f, st) /\ Marked(M, E, f, P.state)
    BY <1>3, <1>4, <1>6, <1>7, <1>8, <1>9 DEF Marked, P
  <1>11. QED BY <1>10 DEF N, E, P

-----------------------------------------------------------------------------
(* The inductive invariant *)

CurrentInv ==
    current # NULL =>
        /\ Has(process_list, current)
        /\ mode \in {"run", "load", "fork"} => proc[current].state # ZOMBIE

\* The struct fork is filling is not on the list yet, but has a pid that
\* nobody on the list has.
ForkInv ==
    mode = "fork" =>
        /\ ~Has(process_list, fork_new)
        /\ proc[fork_new].state # ZOMBIE /\ proc[fork_new].father = NULL
        /\ proc[fork_new].pid \in Pids
        /\ \A p \in Procs : Has(process_list, p) => proc[p].pid # proc[fork_new].pid

IInv == Typed /\ MachineInv(Machine) /\ CurrentInv /\ ForkInv

\* The table of the variables, field by field.
LEMMA MachineFields ==
    Machine.proc = proc /\ Machine.list = process_list /\ Machine.bad = FALSE
  BY DEF Machine

\* The invariant of the table is one of its two lists only.
LEMMA MachineInvPrime ==
    ASSUME NEW M, MachineInv(M), proc' = M.proc, process_list' = M.list
    PROVE  MachineInv(Machine)' /\ proc' \in [Procs -> Struct] /\ process_list' \in Seq(Procs)
  <1>1. /\ Machine' = [proc |-> proc', list |-> process_list', bad |-> FALSE]
        /\ M \in MachineType /\ M.proc \in [Procs -> Struct] /\ M.list \in Seq(Procs)
    BY DEF Machine, MachineInv, MachineType
  <1>2. Machine' \in MachineType /\ Machine'.proc = M.proc /\ Machine'.list = M.list
    BY <1>1 DEF MachineType
  <1>3. MachineInv(Machine')
    BY <1>2 DEF MachineInv
  <1>4. QED BY <1>1, <1>3 DEF MachineInv, MachineType, ListInv, StructInv, Covered, Machine, Injective, Has

\* Every step that installs a table in order and goes on with a process that
\* is alive keeps the invariant.
LEMMA InstallStep ==
    ASSUME IInv, NEW M, MachineInv(M), NEW r, Choice(M, r), Install(M, r)
    PROVE  IInv'
  <1>1. MachineInv(Machine)' /\ proc' \in [Procs -> Struct] /\ process_list' \in Seq(Procs)
    BY MachineInvPrime DEF Install
  <1>2. current' = r.cur /\ mode' = r.mode /\ proc' = M.proc /\ process_list' = M.list
    BY DEF Install
  <1>3. Typed'
    BY <1>1, <1>2 DEF IInv, Typed, Install, Choice
  <1>4. CurrentInv'
    BY <1>2 DEF CurrentInv, Choice
  <1>5. ForkInv'
    BY <1>2 DEF ForkInv, Choice
  <1>6. QED BY <1>1, <1>3, <1>4, <1>5 DEF IInv

\* The initial table is in order.
LEMMA InitIInv == Init => IInv
  <1> SUFFICES ASSUME Init PROVE IInv
    OBVIOUS
  <1>1. PICK uid \in Uids : proc = [p \in Procs |->
            CASE p = InitProc  -> [process_new EXCEPT !.pid = PROC_MIN_PID]
              [] p = ShellProc -> [process_new EXCEPT !.pid = PROC_MIN_PID + 1, !.uid = uid]
              [] OTHER         -> process_new]
    BY DEF Init
  <1> DEFINE one == PROC_MIN_PID
             two == PROC_MIN_PID + 1
             I == [process_new EXCEPT !.pid = one]
             S == [process_new EXCEPT !.pid = two, !.uid = uid]
  <1>2. uid \in Nat /\ one \in Pids /\ two \in Pids /\ one # two /\ last_pid \in Pids
    BY SigAssumption, PidAssumption DEF Pids, Init
  <1> HIDE DEF one, two
  <1>3. /\ I \in Struct /\ I.pid = one /\ I.father = NULL /\ I.state = process_new.state
        /\ I.sig_queue = process_new.sig_queue /\ I.sig_avalaible = process_new.sig_avalaible
    BY <1>2, NewStruct DEF Struct
  <1>4. /\ S \in Struct /\ S.pid = two /\ S.father = NULL /\ S.state = process_new.state
        /\ S.sig_queue = process_new.sig_queue /\ S.sig_avalaible = process_new.sig_avalaible
    BY <1>2, NewStruct DEF Struct
  <1> HIDE DEF I, S
  <1>5. StructInv(I) /\ StructInv(S) /\ StructInv(process_new)
    BY <1>3, <1>4, NewStruct DEF StructInv
  <1>6. /\ proc \in [Procs -> Struct] /\ proc[InitProc] = I /\ proc[ShellProc] = S
        /\ \A p \in Procs : proc[p] \in {I, S, process_new}
    <2>1. proc = [p \in Procs |-> IF p = InitProc THEN I ELSE IF p = ShellProc THEN S ELSE process_new]
      BY <1>1, ProcsAssumption DEF I, S, one, two
    <2>2. QED BY <1>3, <1>4, <2>1, NewStruct, ProcsAssumption
  <1>7. process_list = <<ShellProc, InitProc>> /\ process_list \in Seq(Procs)
    BY ProcsAssumption DEF Init
  <1>8. \A p : Has(process_list, p) <=> p \in {ShellProc, InitProc}
    BY <1>7 DEF Has
  <1>9. ListInv(proc, process_list)
    <2>1. Injective(process_list)
      BY <1>7, ProcsAssumption DEF Injective
    <2>2. QED BY <1>2, <1>3, <1>4, <1>6, <1>8, <2>1 DEF ListInv
  <1>10. MachineInv(Machine)
    <2>1. Machine \in MachineType
      BY <1>6, <1>7 DEF Machine, MachineType
    <2>2. \A p \in Procs : StructInv(proc[p]) /\ proc[p].father # p
      BY <1>3, <1>4, <1>5, <1>6, NewStruct, ProcsAssumption
    <2>3. QED BY <1>9, <2>1, <2>2, MachineFields DEF MachineInv
  <1>11. Typed
    <2>1. <<>> \in Seq(Entry) OBVIOUS
    <2>2. QED BY <1>2, <1>6, <1>7, <2>1 DEF Typed, Init, Modes
  <1>12. CurrentInv /\ ForkInv
    BY DEF CurrentInv, ForkInv, Init
  <1>13. QED BY <1>10, <1>11, <1>12 DEF IInv

\* irq_clock.
LEMMA ClockStep == ASSUME IInv, irq_clock PROVE IInv'
  <1>1. MachineInv(Machine) /\ current \in Procs \cup {NULL}
        /\ (current # NULL => Has(Machine.list, current))
    BY MachineFields DEF IInv, Typed, CurrentInv
  <1>2. Choice(Machine, switch_process(Machine, current))
    BY <1>1, SwitchProcess
  <1>3. Install(Machine, switch_process(Machine, current))
    BY DEF irq_clock
  <1>4. QED BY <1>1, <1>2, <1>3, InstallStep

\* The death of the running process.
LEMMA DieStep ==
    ASSUME IInv, current # NULL, mode \in {"run", "load"}, NEW v \in Int, NEW ok \in BOOLEAN, Die(v, ok)
    PROVE  IInv'
  <1> DEFINE E == [Machine EXCEPT !.proc[current].end_value = v]
             M == process_die_safe(E, current, ok)
  <1>1. /\ MachineInv(Machine) /\ current \in Procs /\ Machine.proc[current].state # ZOMBIE
        /\ ~Machine.bad
    BY MachineFields DEF IInv, Typed, CurrentInv
  <1>2. MachineInv(E) /\ ~E.bad
    <2>1. RUN \in LiveStates BY DEF LiveStates
    <2>2. Marked(Machine, E, current, Machine.proc[current].state)
      BY <1>1, <2>1, SetState, Zenon
    <2> HIDE DEF E
    <2>3. QED BY <1>1, <2>2 DEF Marked
  <1> HIDE DEF E
  <1>3. MachineInv(M)
    BY <1>1, <1>2, DieSafe
  <1> HIDE DEF M
  <1>4. Choice(M, switch_process(M, NULL))
    BY <1>3, SwitchProcess
  <1>5. Install(M, switch_process(M, NULL))
    BY DEF Die, M, E
  <1>6. QED BY <1>3, <1>4, <1>5, InstallStep

\* What proc_switch_p does when the signal has been sent.
LEMMA LoadedStep ==
    ASSUME IInv, NEW M, MachineInv(M), current \in Procs, Has(M.list, current), Loaded(M)
    PROVE  IInv'
  <1> DEFINE r == IF ~M.bad /\ M.proc[current].state = RUN THEN Resume(M, current)
                  ELSE switch_process(M, current)
  <1>1. Choice(M, switch_process(M, current))
    BY SwitchProcess
  <1>2. ASSUME ~M.bad, M.proc[current].state = RUN PROVE Choice(M, Resume(M, current))
    BY <1>2, ProcsAssumption DEF Choice, Resume, Modes, RUN, ZOMBIE
  <1>3. Choice(M, r)
    BY <1>1, <1>2
  <1>4. Install(M, r)
    BY DEF Loaded
  <1>5. QED BY <1>3, <1>4, InstallStep

\* The signal at the head of the queue is sent to a process that lives.
LEMMA SendingFacts ==
    ASSUME IInv, NEW r, Sending(r)
    PROVE  /\ MachineInv(Machine) /\ current \in Procs /\ Has(Machine.list, current)
           /\ Machine.proc[current].state # ZOMBIE /\ ~Machine.bad
           /\ Machine.proc[current].sig_queue # <<>>
           /\ signum \in 1..MaxSig
  <1>1. /\ current \in Procs /\ proc[current] \in Struct /\ Has(process_list, current)
        /\ proc[current].state # ZOMBIE /\ proc[current].sig_queue # <<>>
    BY DEF IInv, Typed, CurrentInv, Sending
  <1>2. Head(proc[current].sig_queue) \in Entry
    BY <1>1 DEF Struct
  <1>3. signum \in 1..MaxSig
    BY <1>2, SigAssumption DEF Entry, signum
  <1>4. QED BY <1>1, <1>3, MachineFields DEF IInv

\* A signal that stops a process, or sets it running, is sent like any other.
LEMMA StateSent ==
    ASSUME NEW M, MachineInv(M), NEW f \in Procs, Has(M.list, f), M.proc[f].state # ZOMBIE,
           M.proc[f].sig_queue # <<>>, NEW v \in Int, NEW st \in LiveStates
    PROVE  LET N == [M EXCEPT !.proc[f].end_value = v, !.proc[f].state = st]
           IN  MachineInv(sent(N, f)) /\ Has(sent(N, f).list, f)
  <1> DEFINE N == [M EXCEPT !.proc[f].end_value = v, !.proc[f].state = st]
  <1>1. Marked(M, N, f, st)
    BY SetState, Zenon
  <1> HIDE DEF N
  <1>2. N.proc[f].state # ZOMBIE
    BY <1>1 DEF Marked, LiveStates, RUN, STOPPED, ZOMBIE
  <1>3. MachineInv(sent(N, f)) /\ Has(sent(N, f).list, f)
    BY <1>1, <1>2, Sent DEF Marked
  <1>4. QED BY <1>3 DEF N

\* With nothing to send the table is left as it is: no zombie is loaded.
LEMMA SendNothing == ASSUME IInv, send_nothing PROVE Loaded(Machine)
  <1> DEFINE M == Machine
             P == M.proc[current]
             Q == [P EXCEPT !.sig_queue = IF @ = <<>> THEN @ ELSE Tail(@)]
             N == [M EXCEPT !.proc[current].sig_queue = IF @ = <<>> THEN @ ELSE Tail(@)]
  <1>1. current # NULL /\ mode = "load"
    BY DEF IInv, Typed, send_nothing
  <1>2. /\ MachineInv(M) /\ current \in Procs /\ proc[current].sig_queue = <<>>
    BY <1>1 DEF IInv, Typed, CurrentInv, send_nothing
  <1>3. /\ M \in MachineType /\ M.proc \in [Procs -> Struct] /\ P \in Struct
        /\ P.sig_queue = <<>>
    BY <1>2, MachineFields DEF MachineInv, MachineType
  <1>4. Loaded(N)
    BY DEF send_nothing
  <1>5. N = [M EXCEPT !.proc = [M.proc EXCEPT ![current] = Q]]
    BY <1>2, <1>3
  <1>6. Q = P
    BY <1>3 DEF Struct
  <1> HIDE DEF Q, P, N, M
  <1>7. [M.proc EXCEPT ![current] = P] = M.proc
    BY <1>2, <1>3 DEF P
  <1>8. N = M
    BY <1>3, <1>5, <1>6, <1>7 DEF MachineType
  <1>9. QED BY <1>4, <1>8 DEF M

\* send_signal, whatever the routine it calls.
LEMMA DeliverStep == ASSUME IInv, Deliver PROVE IInv'
  <1>1. CASE send_nothing
    <2>1. current # NULL /\ mode = "load"
      BY <1>1 DEF IInv, Typed, send_nothing
    <2>2. /\ MachineInv(Machine) /\ current \in Procs /\ Has(process_list, current)
          /\ proc[current].state # ZOMBIE /\ proc[current].sig_queue = <<>>
          /\ proc \in [Procs -> Struct]
      BY <1>1, <2>1 DEF IInv, Typed, CurrentInv, send_nothing
    <2>3. Loaded(Machine)
      BY <1>1, SendNothing
    <2>4. QED BY <2>2, <2>3, LoadedStep, MachineFields
  <1>2. CASE sig_term
    <2>1. Sending("sig_term") BY <1>2 DEF sig_term
    <2>2. PICK ok \in KmallocOutcomes : Die(signum, ok) BY <1>2 DEF sig_term
    <2>3. current # NULL /\ mode = "load" BY <2>1 DEF Sending, IInv, Typed
    <2>4. ok \in BOOLEAN /\ signum \in Int BY <2>1, SendingFacts, SigAssumption
    <2>5. QED BY <2>2, <2>3, <2>4, DieStep
  <1>3. CASE sig_core
    <2> DEFINE v == 128 * ((signum \div 128) % 2)
    <2>1. Sending("sig_core") BY <1>3 DEF sig_core
    <2>2. PICK ok \in KmallocOutcomes : Die(v, ok) BY <1>3 DEF sig_core
    <2>3. current # NULL /\ mode = "load" BY <2>1 DEF Sending, IInv, Typed
    <2>4. signum \in Int BY <2>1, SendingFacts
    <2>5. ok \in BOOLEAN BY SigAssumption
    <2>6. v \in Int
      <3> HIDE DEF signum
      <3>1. QED BY <2>4
    <2> HIDE DEF v
    <2>7. QED BY <2>2, <2>3, <2>5, <2>6, DieStep
  <1>4. ASSUME NEW r, Sending(r), Loaded(sent(Machine, current)) PROVE IInv'
    <2>1. MachineInv(sent(Machine, current)) /\ Has(sent(Machine, current).list, current)
      BY <1>4, SendingFacts, Sent
    <2>2. current \in Procs
      BY <1>4, SendingFacts
    <2>3. QED BY <1>4, <2>1, <2>2, LoadedStep
  <1>5. CASE sig_ign
    BY <1>4, <1>5 DEF sig_ign
  <1>6. CASE send_user
    BY <1>4, <1>6 DEF send_user
  <1>7. ASSUME NEW r, Sending(r), NEW v \in Int, NEW st \in LiveStates,
               Loaded(sent([Machine EXCEPT !.proc[current].end_value = v,
                                           !.proc[current].state = st], current))
        PROVE  IInv'
    <2> DEFINE N == [Machine EXCEPT !.proc[current].end_value = v, !.proc[current].state = st]
    <2>1. /\ MachineInv(Machine) /\ current \in Procs /\ Has(Machine.list, current)
          /\ Machine.proc[current].state # ZOMBIE /\ Machine.proc[current].sig_queue # <<>>
      BY <1>7, SendingFacts
    <2>2. MachineInv(sent(N, current)) /\ Has(sent(N, current).list, current)
      BY <2>1, StateSent, Zenon
    <2>3. Loaded(sent(N, current))
      BY <1>7, SMTT(30)
    <2> HIDE DEF N
    <2>4. QED BY <2>1, <2>2, <2>3, LoadedStep
  <1>8. CASE sig_stop
    <2> DEFINE v == signum * 256 + 127
    <2>1. Sending("sig_stop") BY <1>8 DEF sig_stop
    <2>2. signum \in Int BY <2>1, SendingFacts
    <2>3. v \in Int
      <3> HIDE DEF signum
      <3>1. QED BY <2>2
    <2>4. Loaded(sent([Machine EXCEPT !.proc[current].end_value = v,
                                      !.proc[current].state = STOPPED], current))
      BY <1>8, SMTT(30) DEF sig_stop
    <2> HIDE DEF v
    <2>5. QED BY <1>7, <2>1, <2>3, <2>4 DEF LiveStates
  <1>9. CASE sig_cont
    <2> DEFINE v == 65535
    <2>1. Sending("sig_cont") /\ v \in Int BY <1>9 DEF sig_cont
    <2>2. Loaded(sent([Machine EXCEPT !.proc[current].end_value = v,
                                      !.proc[current].state = RUN], current))
      BY <1>9 DEF sig_cont
    <2> HIDE DEF v
    <2>3. QED BY <1>7, <2>1, <2>2 DEF LiveStates
  <1>10. CASE send_child_ended
    <2> DEFINE N == child_ended(Machine, current)
    <2>1. Sending("child_ended") /\ Loaded(sent(N, current))
      BY <1>10 DEF send_child_ended
    <2>2. /\ MachineInv(Machine) /\ current \in Procs /\ Has(Machine.list, current) /\ ~Machine.bad
          /\ Machine.proc[current].state # ZOMBIE /\ Machine.proc[current].sig_queue # <<>>
      BY <2>1, SendingFacts
    <2>3. Kept(Machine, N, current)
      BY <2>2, ChildEnded
    <2> HIDE DEF N
    <2>4. MachineInv(sent(N, current)) /\ Has(sent(N, current).list, current)
      BY <2>2, <2>3, Sent DEF Kept
    <2>5. QED BY <2>1, <2>2, <2>4, LoadedStep
  <1>11. QED BY <1>1, <1>2, <1>3, <1>5, <1>6, <1>8, <1>9, <1>10 DEF Deliver

\* The calls of a program: its process is on the list and lives.
LEMMA CallsFacts ==
    ASSUME IInv, Calls
    PROVE  /\ MachineInv(Machine) /\ current \in Procs /\ Has(Machine.list, current)
           /\ Machine.proc[current].state # ZOMBIE /\ ~Machine.bad /\ mode = "run"
           /\ proc \in [Procs -> Struct]
           /\ \A p \in Procs : StructInv(proc[p]) /\ proc[p].father # p
  <1>1. current \in Procs /\ Has(process_list, current) /\ proc[current].state # ZOMBIE
    BY DEF IInv, Typed, CurrentInv, Calls
  <1>2. \A p \in Procs : StructInv(proc[p]) /\ proc[p].father # p
    BY MachineFields DEF IInv, MachineInv
  <1>3. QED BY <1>1, <1>2, MachineFields DEF IInv, Typed, Calls

\* A step that changes nothing but structs, and keeps their pids and states.
LEMMA StructsStep ==
    ASSUME IInv, mode = "run", proc' \in [Procs -> Struct],
           \A p \in Procs : /\ StructInv(proc'[p]) /\ proc'[p].father = proc[p].father
                            /\ proc'[p].pid = proc[p].pid /\ proc'[p].state = proc[p].state,
           UNCHANGED <<process_list, last_pid, current, mode, fork_new, fork_todo, orphaned>>
    PROVE  IInv'
  <1> DEFINE N == [proc |-> proc', list |-> process_list, bad |-> FALSE]
  <1>1. ListInv(proc, process_list) /\ \A p \in Procs : proc[p].father # p
    BY MachineFields DEF IInv, MachineInv
  <1>2. N \in MachineType /\ N.proc = proc' /\ N.list = process_list
    BY DEF IInv, Typed, MachineType
  <1> HIDE DEF N
  <1>3. MachineInv(N)
    BY <1>1, <1>2 DEF MachineInv, ListInv
  <1>4. MachineInv(Machine)'
    BY <1>2, <1>3, MachineInvPrime
  <1>5. Typed'
    BY DEF IInv, Typed
  <1>6. CurrentInv'
    BY DEF IInv, Typed, CurrentInv
  <1>7. ForkInv'
    BY DEF ForkInv
  <1>8. QED BY <1>4, <1>5, <1>6, <1>7 DEF IInv

\* process_waitpid.
LEMMA WaitStep ==
    ASSUME IInv, NEW w \in WaitPids \cup {-1}, NEW nohang \in BOOLEAN, call_waitpid(w, nohang)
    PROVE  IInv'
  <1> DEFINE M == process_waitpid(Machine, current, w, nohang)
  <1>1. Calls /\ Install(M, Resume(M, current))
    BY DEF call_waitpid
  <1>2. /\ MachineInv(Machine) /\ current \in Procs /\ Has(Machine.list, current)
        /\ Machine.proc[current].state # ZOMBIE /\ ~Machine.bad
    BY <1>1, CallsFacts
  <1>3. w \in Int
    BY SigAssumption, PidAssumption DEF Pids
  <1>4. Kept(Machine, M, current)
    BY <1>2, <1>3, WaitPid
  <1> HIDE DEF M
  <1>5. Choice(M, Resume(M, current))
    BY <1>2, <1>4, ProcsAssumption DEF Choice, Resume, Modes, Kept
  <1>6. QED BY <1>1, <1>4, <1>5, InstallStep DEF Kept

\* kill.
LEMMA KillStep ==
    ASSUME IInv, NEW pid \in KillPids, NEW sig \in KillSigs, kill(pid, sig)
    PROVE  IInv'
  <1> DEFINE target(p) == /\ Has(process_list, p) /\ proc[p].state # ZOMBIE
                          /\ pid = -1 \/ proc[p].pid = pid
                          /\ proc[current].uid = 0 \/ proc[current].uid = proc[p].uid
  <1>1. PICK ok \in [Procs -> KmallocOutcomes] :
            proc' = [p \in Procs |-> IF target(p) THEN add_signal(proc[p], sig, FALSE, ok[p])
                                     ELSE proc[p]]
    BY DEF kill
  <1>2. /\ Calls
        /\ UNCHANGED <<process_list, last_pid, current, mode, fork_new, fork_todo, orphaned>>
    BY DEF kill, UserCalls
  <1>3. /\ proc \in [Procs -> Struct] /\ mode = "run"
        /\ \A p \in Procs : StructInv(proc[p])
    BY <1>2, CallsFacts
  <1> HIDE DEF target
  <1>4. ASSUME NEW p \in Procs
        PROVE  /\ proc'[p] \in Struct /\ StructInv(proc'[p]) /\ proc'[p].father = proc[p].father
               /\ proc'[p].pid = proc[p].pid /\ proc'[p].state = proc[p].state
    <2> DEFINE Q == add_signal(proc[p], sig, FALSE, ok[p])
    <2>1. sig \in Sigs \cup {0} /\ ok[p] \in BOOLEAN
      BY SigAssumption
    <2>2. /\ Q \in Struct /\ StructInv(Q) /\ Q.state = proc[p].state
          /\ Q.pid = proc[p].pid /\ Q.father = proc[p].father
      BY <1>3, <2>1, AddSignal
    <2>3. proc'[p] = IF target(p) THEN Q ELSE proc[p]
      BY <1>1
    <2> HIDE DEF Q
    <2>4. CASE target(p)
      BY <2>2, <2>3, <2>4
    <2>5. CASE ~target(p)
      BY <1>3, <2>3, <2>5
    <2>6. QED BY <2>4, <2>5
  <1>5. proc' \in [Procs -> Struct]
    BY <1>1, <1>4
  <1>6. QED BY <1>2, <1>3, <1>4, <1>5, StructsStep

\* signal.
LEMMA SignalStep ==
    ASSUME IInv, NEW sig \in HandledSigs, NEW h \in Handlers \ {"NULL"}, signal(sig, h)
    PROVE  IInv'
  <1> DEFINE P == proc[current]
             H == [P.sig_handler EXCEPT ![sig] = h]
             Q == [P EXCEPT !.sig_handler = H]
  <1>1. /\ Calls /\ proc' = [proc EXCEPT ![current].sig_handler[sig] = h]
        /\ UNCHANGED <<process_list, last_pid, current, mode, fork_new, fork_todo, orphaned>>
    BY DEF signal, UserCalls
  <1>2. /\ proc \in [Procs -> Struct] /\ mode = "run" /\ current \in Procs /\ P \in Struct
        /\ \A p \in Procs : StructInv(proc[p])
    BY <1>1, CallsFacts
  <1>3. H \in [Sigs -> Handlers]
    BY <1>2, SigAssumption DEF Struct
  <1>4. proc' = [proc EXCEPT ![current] = Q]
    BY <1>1, <1>2 DEF Struct
  <1> HIDE DEF H, P
  <1>5. /\ Q \in Struct /\ Q.father = P.father /\ Q.pid = P.pid /\ Q.state = P.state
        /\ Q.sig_queue = P.sig_queue /\ Q.sig_avalaible = P.sig_avalaible
    BY <1>2, <1>3 DEF Struct
  <1> HIDE DEF Q
  <1>6. StructInv(Q)
    BY <1>2, <1>5 DEF StructInv, P
  <1>7. /\ proc' \in [Procs -> Struct] /\ proc'[current] = Q
        /\ \A p \in Procs : p # current => proc'[p] = proc[p]
    BY <1>2, <1>4, <1>5
  <1>8. QED BY <1>1, <1>2, <1>5, <1>6, <1>7, StructsStep DEF P

\* The signal irq_general raises for an exception is one of those in use.
LEMMA FaultSignal == ASSUME NEW info \in Faults, info.signal >= 0 PROVE info.signal \in Sigs \cup {0}
  <1>1. info \in signal_info /\ (info.signal > 0 => info.signal \in Sigs)
    BY SigAssumption
  <1>2. info.signal \in Int
    <2>1. CASE \E s \in {8, 4, 7, 11, -1} : info = [signal |-> s, error |-> TRUE]
      BY <2>1
    <2>2. CASE info = [signal |-> SIGTRAP, error |-> FALSE]
      BY <2>2 DEF SIGTRAP
    <2>3. CASE info = [signal |-> 0, error |-> FALSE]
      BY <2>3
    <2>4. QED BY <1>1, <2>1, <2>2, <2>3 DEF signal_info
  <1>3. QED BY <1>1, <1>2

\* irq_general.
LEMMA FaultStep == ASSUME IInv, NEW info \in Faults, irq_general(info) PROVE IInv'
  <1>1. Calls
    BY DEF irq_general, UserCalls
  <1>2. /\ MachineInv(Machine) /\ current \in Procs /\ Has(Machine.list, current)
        /\ Machine.proc[current].state # ZOMBIE /\ ~Machine.bad /\ mode = "run"
        /\ current # NULL /\ proc \in [Procs -> Struct]
    BY <1>1, CallsFacts, ProcsAssumption
  <1>3. PICK ok \in KmallocOutcomes :
          LET M == [Machine EXCEPT !.proc[current] = add_signal(@, info.signal, TRUE, ok)]
          IN  \/ info.signal >= 0 /\ Install(M, switch_process(M, current))
              \/ Die(proc[current].end_value, ok)
              \/ Install(Machine, Resume(Machine, current))
    BY DEF irq_general
  <1> DEFINE Q == add_signal(Machine.proc[current], info.signal, TRUE, ok)
             M == [Machine EXCEPT !.proc[current] = Q]
  <1>4. CASE info.signal >= 0 /\ Install(M, switch_process(M, current))
    <2>1. info.signal \in Sigs \cup {0} /\ ok \in BOOLEAN
      BY <1>4, FaultSignal, SigAssumption
    <2>2. /\ Machine \in MachineType /\ Machine.proc \in [Procs -> Struct]
          /\ Machine.proc[current] \in Struct
          /\ StructInv(Machine.proc[current]) /\ Machine.proc[current].father # current
      BY <1>2 DEF MachineInv, MachineType
    <2>3. /\ Q \in Struct /\ StructInv(Q) /\ Q.father # current
          /\ Q.pid = Machine.proc[current].pid
      BY <2>1, <2>2, AddSignal
    <2>4. M = [Machine EXCEPT !.proc = [Machine.proc EXCEPT ![current] = Q]]
      BY <2>2
    <2> HIDE DEF Q, M
    <2>5. /\ M \in MachineType /\ M.list = Machine.list /\ M.proc[current] = Q
          /\ \A p \in Procs : p # current => M.proc[p] = Machine.proc[p]
      BY <1>2, <2>2, <2>3, <2>4 DEF MachineType
    <2>6. MachineInv(M)
      BY <1>2, <2>3, <2>5, Update
    <2>7. Choice(M, switch_process(M, current))
      BY <1>2, <2>5, <2>6, SwitchProcess
    <2>8. QED BY <1>4, <2>6, <2>7, InstallStep
  <1>5. CASE Die(proc[current].end_value, ok)
    <2>1. proc[current].end_value \in Int /\ ok \in BOOLEAN
      BY <1>2, SigAssumption DEF Struct
    <2>2. QED BY <1>2, <1>5, <2>1, DieStep
  <1>6. CASE Install(Machine, Resume(Machine, current))
    <2>1. Choice(Machine, Resume(Machine, current))
      BY <1>2 DEF Choice, Resume, Modes
    <2>2. QED BY <1>2, <1>6, <2>1, InstallStep
  <1>7. QED BY <1>3, <1>4, <1>5, <1>6

\* The kernel calls, fork aside.
LEMMA CallStep == ASSUME IInv, Call PROVE IInv'
  <1>1. ASSUME NEW status \in Statuses, exit(status) PROVE IInv'
    <2>1. Calls
      BY <1>1 DEF exit, UserCalls
    <2>2. PICK ok \in KmallocOutcomes : Die(status * 256, ok)
      BY <1>1 DEF exit
    <2>3. status * 256 \in Int /\ ok \in BOOLEAN
      BY SigAssumption
    <2>4. current # NULL /\ mode = "run"
      BY <2>1 DEF Calls
    <2>5. QED BY <2>2, <2>3, <2>4, DieStep
  <1>2. QED
    BY <1>1, WaitStep, KillStep, SignalStep, FaultStep DEF Call

\* process_new and process_alloc_pid at the start of fork.
LEMMA ForkStartStep == ASSUME IInv, NEW new \in Procs, fork_start(new) PROVE IInv'
  <1> DEFINE a == process_alloc_pid(Machine, last_pid)
             b == a.pid
             Q == [process_new EXCEPT !.pid = b]
  <1>1. /\ Calls /\ ~Has(process_list, new) /\ last_pid' = a.last
        /\ UNCHANGED <<process_list, current, orphaned>>
        /\ \/ /\ b # 0 /\ proc' = [proc EXCEPT ![new] = Q]
              /\ mode' = "fork" /\ fork_new' = new
              /\ fork_todo' = proc[current].sig_queue
           \/ UNCHANGED <<proc, mode, fork_new, fork_todo>>
    BY DEF fork_start, UserCalls
  <1>2. /\ proc \in [Procs -> Struct] /\ mode = "run" /\ current \in Procs
        /\ Has(process_list, current) /\ proc[current].state # ZOMBIE
        /\ last_pid \in Pids /\ MachineInv(Machine) /\ current # NULL
        /\ process_list \in Seq(Procs)
    BY <1>1, CallsFacts, MachineFields, ProcsAssumption DEF IInv, Typed
  <1>3. /\ b \in Pids \cup {0} /\ a.last \in Pids
        /\ b # 0 => \A p \in Procs : Has(process_list, p) => proc[p].pid # b
    BY <1>2, AllocPid, MachineFields
  <1> HIDE DEF a, b
  <1>4. CASE UNCHANGED <<proc, mode, fork_new, fork_todo>>
    <2>1. MachineInv(Machine)'
      BY <1>1, <1>2, <1>4, MachineFields, MachineInvPrime
    <2>2. QED BY <1>1, <1>2, <1>3, <1>4, <2>1 DEF IInv, Typed, CurrentInv, ForkInv
  <1>5. CASE /\ b # 0 /\ proc' = [proc EXCEPT ![new] = Q]
             /\ mode' = "fork" /\ fork_new' = new
             /\ fork_todo' = proc[current].sig_queue
    <2>1. /\ Q \in Struct /\ Q.pid = b /\ Q.father = NULL /\ Q.state = process_new.state
          /\ Q.sig_queue = process_new.sig_queue /\ Q.sig_avalaible = process_new.sig_avalaible
      BY <1>3, NewStruct DEF Struct
    <2> HIDE DEF Q
    <2>2. StructInv(Q) /\ Q.state # ZOMBIE
      BY <2>1, NewStruct DEF StructInv
    <2>3. /\ proc' \in [Procs -> Struct] /\ proc'[new] = Q
          /\ \A p \in Procs : p # new => proc'[p] = proc[p]
      BY <1>2, <1>5, <2>1
    <2>4. current # new
      BY <1>1, <1>2
    <2>5. MachineInv(Machine)'
      <3> DEFINE N == [proc |-> proc', list |-> process_list, bad |-> FALSE]
      <3>1. /\ ListInv(proc, process_list)
            /\ \A p \in Procs : StructInv(proc[p]) /\ proc[p].father # p
        BY <1>2, MachineFields DEF MachineInv
      <3>2. N \in MachineType /\ N.proc = proc' /\ N.list = process_list
        BY <1>2, <2>3 DEF MachineType
      <3> HIDE DEF N
      <3>3. ListInv(proc', process_list)
        BY <1>1, <2>3, <3>1 DEF ListInv
      <3>4. \A p \in Procs : StructInv(proc'[p]) /\ proc'[p].father # p
        BY <2>1, <2>2, <2>3, <3>1, ProcsAssumption
      <3>5. MachineInv(N)
        BY <3>2, <3>3, <3>4 DEF MachineInv
      <3>6. QED BY <1>1, <3>2, <3>5, MachineInvPrime
    <2>6. Typed'
      <3>1. proc[current].sig_queue \in Seq(Entry)
        BY <1>2 DEF Struct
      <3>2. QED BY <1>1, <1>2, <1>3, <1>5, <2>3, <3>1, ProcsAssumption DEF IInv, Typed, Modes
    <2>7. CurrentInv'
      BY <1>1, <1>2, <2>3, <2>4 DEF CurrentInv
    <2>8. ForkInv'
      BY <1>1, <1>3, <1>5, <2>1, <2>2, <2>3 DEF ForkInv
    <2>9. QED BY <2>5, <2>6, <2>7, <2>8 DEF IInv
  <1>6. QED BY <1>1, <1>4, <1>5

\* What holds while copy_process is at work.
LEMMA ForkFacts ==
    ASSUME IInv, mode = "fork"
    PROVE  /\ proc \in [Procs -> Struct] /\ process_list \in Seq(Procs)
           /\ fork_new \in Procs /\ current \in Procs /\ current # fork_new
           /\ Has(process_list, current) /\ ~Has(process_list, fork_new)
           /\ proc[current].state # ZOMBIE /\ proc[fork_new].state # ZOMBIE
           /\ proc[fork_new].father = NULL /\ proc[fork_new].pid \in Pids
           /\ \A p \in Procs : Has(process_list, p) => proc[p].pid # proc[fork_new].pid
           /\ ListInv(proc, process_list)
           /\ \A p \in Procs : StructInv(proc[p]) /\ proc[p].father # p
  <1>1. /\ proc \in [Procs -> Struct] /\ process_list \in Seq(Procs)
        /\ fork_new \in Procs /\ current \in Procs
    BY DEF IInv, Typed
  <1>2. /\ ListInv(proc, process_list)
        /\ \A p \in Procs : StructInv(proc[p]) /\ proc[p].father # p
    BY MachineFields DEF IInv, MachineInv
  <1>3. QED BY <1>1, <1>2, ProcsAssumption DEF IInv, ForkInv, CurrentInv

\* One signal is copied.
LEMMA ForkSignalStep == ASSUME IInv, fork_signal PROVE IInv'
  <1> DEFINE e == Head(fork_todo)
  <1>1. /\ mode = "fork" /\ fork_todo # <<>> /\ fork_todo' = Tail(fork_todo)
        /\ UNCHANGED <<process_list, last_pid, current, mode, fork_new, orphaned>>
    BY DEF fork_signal
  <1>2. PICK ok \in KmallocOutcomes :
            proc' = [proc EXCEPT ![fork_new] = add_signal(@, e.sig, e.hard, ok)]
    BY DEF fork_signal
  <1>3. e \in Entry /\ Tail(fork_todo) \in Seq(Entry)
    BY <1>1 DEF IInv, Typed
  <1> HIDE DEF e
  <1> DEFINE P == proc[fork_new]
             Q == add_signal(P, e.sig, e.hard, ok)
  <1>4. P \in Struct /\ StructInv(P) /\ fork_new \in Procs
    BY <1>1, ForkFacts
  <1>5. e.sig \in Sigs \cup {0} /\ e.hard \in BOOLEAN /\ ok \in BOOLEAN
    BY <1>3, SigAssumption DEF Entry
  <1>6. /\ Q \in Struct /\ StructInv(Q) /\ Q.state = P.state /\ Q.pid = P.pid
        /\ Q.father = P.father
    BY <1>4, <1>5, AddSignal
  <1> HIDE DEF Q
  <1>7. /\ proc' \in [Procs -> Struct] /\ proc'[fork_new] = Q
        /\ \A p \in Procs : p # fork_new => proc'[p] = proc[p]
    <2>1. proc \in [Procs -> Struct] /\ proc' = [proc EXCEPT ![fork_new] = Q]
      BY <1>1, <1>2, ForkFacts DEF Q
    <2>2. QED BY <1>4, <1>6, <2>1
  <1>8. MachineInv(Machine)'
    <2> DEFINE N == [proc |-> proc', list |-> process_list, bad |-> FALSE]
    <2>1. N \in MachineType /\ N.proc = proc' /\ N.list = process_list
      BY <1>1, <1>7, ForkFacts DEF MachineType
    <2> HIDE DEF N
    <2>2. ListInv(proc', process_list)
      BY <1>1, <1>7, ForkFacts DEF ListInv
    <2>3. \A p \in Procs : StructInv(proc'[p]) /\ proc'[p].father # p
      BY <1>1, <1>6, <1>7, ForkFacts
    <2>4. MachineInv(N)
      BY <2>1, <2>2, <2>3 DEF MachineInv
    <2>5. QED BY <1>1, <2>1, <2>4, MachineInvPrime
  <1>9. Typed'
    BY <1>1, <1>3, <1>7 DEF IInv, Typed
  <1>10. CurrentInv'
    BY <1>1, <1>7, ForkFacts DEF CurrentInv
  <1>11. ForkInv'
    BY <1>1, <1>6, <1>7, ForkFacts DEF ForkInv
  <1>12. QED BY <1>8, <1>9, <1>10, <1>11 DEF IInv

\* The new process goes on the list, or copy_process has failed.
LEMMA ForkEndStep == ASSUME IInv, NEW ok \in KmallocOutcomes, fork_end(ok) PROVE IInv'
  <1>1. /\ mode = "fork" /\ mode' = "run" /\ fork_new' = NULL
        /\ UNCHANGED <<last_pid, current, fork_todo, orphaned>>
    BY DEF fork_end
  <1>2. ASSUME NEW T \in [Procs -> Struct], NEW l \in Seq(Procs), ListInv(T, l),
               \A p \in Procs : StructInv(T[p]) /\ T[p].father # p,
               Has(l, current), T[current].state # ZOMBIE,
               proc' = T, process_list' = l
        PROVE  IInv'
    <2> DEFINE N == [proc |-> T, list |-> l, bad |-> FALSE]
    <2>1. N \in MachineType /\ N.proc = T /\ N.list = l
      BY DEF MachineType
    <2> HIDE DEF N
    <2>2. MachineInv(N)
      BY <1>2, <2>1 DEF MachineInv
    <2>3. MachineInv(Machine)'
      BY <1>2, <2>1, <2>2, MachineInvPrime
    <2>4. Typed' /\ CurrentInv' /\ ForkInv'
      BY <1>1, <1>2 DEF IInv, Typed, CurrentInv, ForkInv, Modes
    <2>5. QED BY <2>3, <2>4 DEF IInv
  <1>3. CASE ~ok
    <2> DEFINE T == [proc EXCEPT ![fork_new] = process_new]
    <2>1. proc' = T /\ process_list' = process_list
      BY <1>3 DEF fork_end
    <2>2. /\ T \in [Procs -> Struct] /\ T[fork_new] = process_new
          /\ \A p \in Procs : p # fork_new => T[p] = proc[p]
      BY <1>1, ForkFacts, NewStruct
    <2> HIDE DEF T
    <2>3. ListInv(T, process_list)
      BY <1>1, <2>2, ForkFacts DEF ListInv
    <2>4. \A p \in Procs : StructInv(T[p]) /\ T[p].father # p
      BY <1>1, <2>2, ForkFacts, NewStruct, ProcsAssumption
    <2>5. T[current].state # ZOMBIE /\ Has(process_list, current) /\ process_list \in Seq(Procs)
      BY <1>1, <2>2, ForkFacts
    <2>6. QED BY <1>2, <2>1, <2>2, <2>3, <2>4, <2>5
  <1>4. CASE ok
    <2> DEFINE F == proc[current]
               P == proc[fork_new]
               st == F.state
               u == F.uid
               ch == <<fork_new>> \o F.children
               Q == [P EXCEPT !.state = st, !.uid = u, !.father = current]
               G == [F EXCEPT !.children = ch]
               T == [proc EXCEPT ![fork_new] = Q, ![current] = G]
               l == list_add(process_list, fork_new, current)
    <2>1. /\ P \in Struct /\ F \in Struct /\ fork_new \in Procs /\ current \in Procs
          /\ current # fork_new /\ proc \in [Procs -> Struct]
      BY <1>1, ForkFacts
    <2>2. proc' = T /\ process_list' = l
      BY <1>4, <2>1 DEF fork_end
    <2>3. /\ st \in {RUN, STOPPED, ZOMBIE} /\ u \in Nat /\ st # ZOMBIE /\ ch \in Seq(Procs)
      BY <1>1, <2>1, ForkFacts DEF Struct
    <2> HIDE DEF ch, st, u, P, F
    <2>4. /\ Q \in Struct /\ Q.father = current /\ Q.pid = P.pid /\ Q.state = st
          /\ Q.sig_queue = P.sig_queue /\ Q.sig_avalaible = P.sig_avalaible
      BY <2>1, <2>3 DEF Struct
    <2>5. G \in Struct /\ SameBut(F, G)
      BY <2>1, <2>3, SetChildren
    <2> HIDE DEF Q, G
    <2>6. StructInv(Q) /\ StructInv(G)
      BY <1>1, <2>3, <2>4, <2>5, ForkFacts DEF StructInv, SameBut, P, F
    <2>7. /\ T \in [Procs -> Struct] /\ T[fork_new] = Q /\ T[current] = G
          /\ \A p \in Procs : p # fork_new /\ p # current => T[p] = proc[p]
      BY <2>1, <2>4, <2>5
    <2> HIDE DEF T
    <2>8. /\ l \in Seq(Procs) /\ Injective(l)
          /\ \A p \in Procs : Has(l, p) <=> (Has(process_list, p) \/ p = fork_new)
      <3>1. /\ process_list \in Seq(Procs) /\ Injective(process_list)
            /\ Has(process_list, current) /\ ~Has(process_list, fork_new)
        BY <1>1, ForkFacts DEF ListInv
      <3>2. QED BY <2>1, <3>1, ListAdd
    <2> HIDE DEF l
    <2>9. \A p \in Procs : T[p].pid = proc[p].pid
      BY <2>4, <2>5, <2>7 DEF SameBut, P, F
    <2>10. ListInv(T, l)
      BY <1>1, <2>8, <2>9, ForkFacts DEF ListInv
    <2>11. \A p \in Procs : StructInv(T[p]) /\ T[p].father # p
      <3>1. G.father # current
        BY <1>1, <2>1, <2>5, ForkFacts DEF SameBut, F
      <3>2. QED BY <1>1, <2>1, <2>4, <2>6, <2>7, <3>1, ForkFacts
    <2>12. Has(l, current) /\ T[current].state # ZOMBIE
      BY <1>1, <2>3, <2>5, <2>7, <2>8, ForkFacts DEF SameBut, st
    <2>13. QED BY <1>2, <2>2, <2>7, <2>8, <2>10, <2>11, <2>12
  <1>5. QED BY <1>3, <1>4, SigAssumption

\* Every step of the kernel keeps the invariant.
LEMMA NextIInv == IInv /\ [Next]_vars => IInv'
  <1> SUFFICES ASSUME IInv, [Next]_vars PROVE IInv'
    OBVIOUS
  <1>1. CASE UNCHANGED vars
    BY <1>1 DEF vars, IInv, Typed, MachineInv, Machine, MachineType, ListInv, StructInv,
                Covered, Has, Injective, CurrentInv, ForkInv
  <1>2. CASE irq_clock
    BY <1>2, ClockStep
  <1>3. CASE Deliver
    BY <1>3, DeliverStep
  <1>4. CASE Call
    BY <1>4, CallStep
  <1>5. CASE Fork
    BY <1>5, ForkStartStep, ForkSignalStep, ForkEndStep DEF Fork
  <1>6. CASE Halted
    BY <1>1, <1>6 DEF Halted
  <1>7. QED BY <1>1, <1>2, <1>3, <1>4, <1>5, <1>6 DEF Next

-----------------------------------------------------------------------------
(* Structs that are not in use *)

\* From M to N no struct came on the list, those that left it are clear, and the
\* others off it are as they were.
Clears(M, N) ==
    \A q \in Procs :
        /\ Has(N.list, q) => Has(M.list, q)
        /\ Has(M.list, q) /\ ~Has(N.list, q) => N.proc[q] = process_new
        /\ ~Has(M.list, q) => N.proc[q] = M.proc[q]

\* A table in which only structs of the list were written.
LEMMA ClearsOn ==
    ASSUME NEW M, NEW N, N.list = M.list,
           \A q \in Procs : ~Has(M.list, q) => N.proc[q] = M.proc[q]
    PROVE  Clears(M, N)
  BY DEF Clears

LEMMA ClearsTwice ==
    ASSUME NEW M, NEW N, NEW K, Clears(M, N), Clears(N, K)
    PROVE  Clears(M, K)
  BY DEF Clears

\* free_process writes to the struct it frees, to its father, which is alive or a
\* dangling pointer was read, and to the process with pid 1.
LEMMA FreeClears ==
    ASSUME NEW M, MachineInv(M), NEW p \in Procs, Has(M.list, p)
    PROVE  Clears(M, free_process(M, p))
  <1> DEFINE N == free_process(M, p)
             father == M.proc[p].father
             list == list_del(M.list, p)
             T1 == IF father = NULL THEN M.proc
                   ELSE [M.proc EXCEPT ![father].children = list_del(@, p)]
             L == [M EXCEPT !.list = list]
             one == process_get_with_pid(L, PROC_MIN_PID)
             T2 == IF one = NULL THEN T1
                   ELSE [T1 EXCEPT ![one].children = Reverse(T1[p].children) \o @]
             T3 == [T2 EXCEPT ![p] = process_new]
             B == [M EXCEPT !.bad = TRUE]
  <1>1. M \in MachineType /\ M.proc \in [Procs -> Struct] /\ M.list \in Seq(Procs)
    BY DEF MachineInv, MachineType
  <1>2. CASE father # NULL /\ father \notin Live(M)
    <2>1. N = B /\ B.list = M.list /\ B.proc = M.proc
      BY <1>1, <1>2 DEF free_process, MachineType
    <2> HIDE DEF N, B
    <2>2. Clears(M, N) BY <2>1, ClearsOn
    <2>3. QED BY <2>2 DEF N
  <1>3. CASE ~(father # NULL /\ father \notin Live(M))
    <2>1. N = [M EXCEPT !.proc = T3, !.list = list] BY <1>3 DEF free_process
    <2>2. father = NULL \/ (father \in Procs /\ Has(M.list, father)) BY <1>3 DEF Live
    <2>3. ~Has(list, p) /\ \A q : Has(list, q) => Has(M.list, q)
      <3>1. Injective(M.list) BY DEF MachineInv, ListInv
      <3>2. QED BY <1>1, <3>1, ListDelHas, ListDelInjective
    <2>4. \A q \in Procs : q # p /\ Has(M.list, q) => Has(list, q) BY <1>1, ListDelHas
    <2>5. one = NULL \/ (one \in Procs /\ Has(list, one))
      <3>1. list \in Seq(Procs) BY <1>1, ListDelType
      <3>2. L \in MachineType /\ L.list = list BY <1>1, <3>1 DEF MachineType
      <3> HIDE DEF L
      <3>3. QED BY <3>2, GetWithPid
    <2> HIDE DEF list, one
    <2>6. DOMAIN T1 = Procs /\ \A q \in Procs : q # father => T1[q] = M.proc[q] BY <1>1
    <2> HIDE DEF T1
    <2>7. DOMAIN T2 = Procs /\ \A q \in Procs : q # one => T2[q] = T1[q] BY <2>6
    <2> HIDE DEF T2
    <2>8. T3[p] = process_new /\ \A q \in Procs : q # p => T3[q] = T2[q] BY <2>7
    <2> HIDE DEF T3
    <2>9. N.proc = T3 /\ N.list = list BY <1>1, <2>1 DEF MachineType
    <2> HIDE DEF N, father
    <2>10. ASSUME NEW q \in Procs, ~Has(M.list, q) PROVE N.proc[q] = M.proc[q]
      <3>1. q # p /\ q # father /\ q # one BY <2>2, <2>3, <2>5, <2>10, ProcsAssumption
      <3>2. QED BY <2>6, <2>7, <2>8, <2>9, <3>1
    <2>11. Clears(M, N) BY <2>3, <2>4, <2>8, <2>9, <2>10 DEF Clears
    <2>12. QED BY <2>11 DEF N
  <1>4. QED BY <1>2, <1>3

\* process_die_safe writes to the process that dies and to its father.
LEMMA DieClears ==
    ASSUME NEW M, MachineInv(M), ~M.bad, NEW p \in Procs, Has(M.list, p), NEW ok \in BOOLEAN
    PROVE  Clears(M, process_die_safe(M, p, ok))
  <1> DEFINE father == M.proc[p].father
             B == [M EXCEPT !.bad = TRUE]
             D == DeadAlone(M, p)
             C == DeadChild(M, p, ok)
             N == process_die_safe(M, p, ok)
  <1>1. M \in MachineType BY DEF MachineInv
  <1>2. /\ MachineInv(D) /\ D.list = M.list
        /\ \A q \in Procs : q # p => D.proc[q] = M.proc[q]
    BY Dying
  <1>3. father # NULL => /\ MachineInv(C) /\ C.list = M.list
                         /\ \A q \in Procs : q # p /\ q # father => C.proc[q] = M.proc[q]
    BY Dying
  <1>4. B.list = M.list /\ B.proc = M.proc BY <1>1 DEF MachineType
  <1>5. \/ father = NULL /\ N = free_process(D, p)
        \/ N = B
        \/ father # NULL /\ Has(M.list, father) /\ N \in {C, free_process(C, p)}
    <2> HIDE DEF B, C, D, N
    <2>1. N = IF father = NULL THEN free_process(D, p)
              ELSE IF father \notin Live(M) THEN B
              ELSE IF M.proc[father].sig_handler[SIGCHLD] # "NULL"
              THEN free_process(C, p) ELSE C
      BY DieSafeDef DEF B, C, D, N
    <2> HIDE DEF father
    <2>2. QED BY <2>1 DEF Live
  <1> HIDE DEF B, C, D, N
  <1>6. CASE father = NULL /\ N = free_process(D, p)
    <2>1. Clears(M, D) BY <1>2, ClearsOn
    <2>2. Clears(D, N) BY <1>2, <1>6, FreeClears
    <2>3. QED BY <2>1, <2>2, ClearsTwice DEF N
  <1>7. CASE N = B
    <2>1. Clears(M, N) BY <1>4, <1>7, ClearsOn
    <2>2. QED BY <2>1 DEF N
  <1>8. CASE father # NULL /\ Has(M.list, father) /\ N \in {C, free_process(C, p)}
    <2>1. Clears(M, C) BY <1>3, <1>8, ClearsOn
    <2>2. Clears(C, free_process(C, p)) BY <1>3, <1>8, FreeClears
    <2>3. Clears(M, free_process(C, p)) BY <2>1, <2>2, ClearsTwice
    <2>4. Clears(M, N) BY <1>8, <2>1, <2>3
    <2>5. QED BY <2>4 DEF N
  <1>9. QED BY <1>5, <1>6, <1>7, <1>8

\* The fields of one struct of the list are written.
LEMMA ClearsField ==
    ASSUME NEW M \in MachineType, NEW f \in Procs, Has(M.list, f), NEW P
    PROVE  LET N == [M EXCEPT !.proc = [M.proc EXCEPT ![f] = P]]
           IN  Clears(M, N) /\ N.list = M.list /\ N.bad = M.bad
  <1> DEFINE N == [M EXCEPT !.proc = [M.proc EXCEPT ![f] = P]]
  <1>1. M.proc \in [Procs -> Struct] BY DEF MachineType
  <1>2. /\ N.list = M.list /\ N.bad = M.bad
        /\ \A q \in Procs : q # f => N.proc[q] = M.proc[q]
    BY <1>1 DEF MachineType
  <1> HIDE DEF N
  <1>3. Clears(M, N) BY <1>2, ClearsOn
  <1>4. QED BY <1>2, <1>3 DEF N

\* end_of_child writes to the father that waits.
LEMMA EndClears ==
    ASSUME NEW M, MachineInv(M), ~M.bad, NEW c \in Procs, NEW f \in Procs, c # f,
           M.proc[f].state # ZOMBIE, Has(M.list, f), Has(M.list, c)
    PROVE  Clears(M, end_of_child(M, c, f))
  <1> DEFINE C == M.proc[c]
             P0 == [M.proc[f] EXCEPT !.waiting_return = C.end_value, !.waiting_pid = C.pid]
             M0 == [M EXCEPT !.proc[f].waiting_return = C.end_value, !.proc[f].waiting_pid = C.pid]
             M1 == free_process(M0, c)
             P2 == [M1.proc[f] EXCEPT !.state = RUN]
             M2 == [M1 EXCEPT !.proc[f].state = RUN]
             E == end_of_child(M, c, f)
  <1>1. /\ M \in MachineType /\ M.proc \in [Procs -> Struct]
        /\ M.proc[f] \in Struct /\ C \in Struct
    BY DEF MachineInv, MachineType
  <1>2. StructInv(M.proc[f]) /\ M.proc[f].father # f BY DEF MachineInv
  <1>3. /\ P0 \in Struct /\ StructInv(P0) /\ P0.father # f /\ P0.pid = M.proc[f].pid
    <2> HIDE DEF C
    <2>1. C.end_value \in Int /\ C.pid \in Pids \cup {0} BY <1>1 DEF Struct
    <2>2. C.pid \in Int BY <2>1, PidAssumption DEF Pids
    <2>3. QED BY <1>1, <1>2, <2>1, <2>2 DEF Struct, StructInv
  <1>4. M0 = [M EXCEPT !.proc = [M.proc EXCEPT ![f] = P0]] BY <1>1
  <1> HIDE DEF P0
  <1>5. /\ M0 \in MachineType /\ M0.list = M.list /\ M0.proc[f] = P0 /\ M0.bad = M.bad
        /\ \A q \in Procs : q # f => M0.proc[q] = M.proc[q]
    BY <1>1, <1>3, <1>4, ZenonT(40) DEF MachineType
  <1>6. E = IF M1.bad THEN M1 ELSE M2 BY DEF end_of_child
  <1> HIDE DEF M0
  <1>7. MachineInv(M0) BY <1>3, <1>5, Update
  <1>8. Clears(M, M0) BY <1>5, ClearsOn
  <1>9. Clears(M0, M1) BY <1>5, <1>7, FreeClears
  <1>10. MachineInv(M1) /\ Others(M0, M1, c) BY <1>5, <1>7, FreeProcess
  <1> HIDE DEF M1
  <1>11. Clears(M, M1) BY <1>8, <1>9, ClearsTwice
  <1>12. M1 \in MachineType /\ M1.proc \in [Procs -> Struct] /\ Has(M1.list, f)
    BY <1>5, <1>10 DEF MachineInv, MachineType, Others
  <1>13. M2 = [M1 EXCEPT !.proc = [M1.proc EXCEPT ![f] = P2]] BY <1>12
  <1> HIDE DEF P2, M2, E
  <1>14. Clears(M1, M2) BY <1>12, <1>13, ClearsField
  <1>15. Clears(M, M2) BY <1>11, <1>14, ClearsTwice
  <1>16. Clears(M, E) BY <1>6, <1>11, <1>15
  <1>17. QED BY <1>16 DEF E

\* child_ended.
LEMMA ChildClears ==
    ASSUME NEW M, MachineInv(M), ~M.bad, NEW f \in Procs, Has(M.list, f),
           M.proc[f].state # ZOMBIE
    PROVE  Clears(M, child_ended(M, f))
  <1> DEFINE w == M.proc[f].waiting_pid
             wanted == {c \in Live(M) : M.proc[c].state = ZOMBIE /\ (w = -1 \/ M.proc[c].pid = w)}
             c == Walk(M, f, wanted)
             B == [M EXCEPT !.bad = TRUE]
             N == child_ended(M, f)
  <1>1. M \in MachineType BY DEF MachineInv
  <1>2. c = NULL \/ (c \in Procs /\ (Has(M.list, c) => c \in wanted)) BY <1>1, WalkResult
  <1>3. N = IF c = NULL THEN M ELSE IF c \notin Live(M) THEN B ELSE end_of_child(M, c, f)
    BY DEF child_ended
  <1>4. c \in wanted => c # f OBVIOUS
  <1>5. B.list = M.list /\ B.proc = M.proc BY <1>1 DEF MachineType
  <1> HIDE DEF wanted, c, B, N
  <1>6. Clears(M, M) /\ Clears(M, B) BY <1>5, ClearsOn
  <1>7. ASSUME c # NULL, c \in Live(M) PROVE Clears(M, end_of_child(M, c, f))
    <2>1. c \in Procs /\ c # f /\ Has(M.list, c) BY <1>2, <1>4, <1>7 DEF Live
    <2>2. QED BY <2>1, EndClears
  <1>8. Clears(M, N) BY <1>3, <1>6, <1>7
  <1>9. QED BY <1>8 DEF N

\* process_waitpid.
LEMMA WaitClears ==
    ASSUME NEW M, MachineInv(M), ~M.bad, NEW f \in Procs, Has(M.list, f),
           M.proc[f].state # ZOMBIE, NEW w \in Int, NEW nohang \in BOOLEAN
    PROVE  Clears(M, process_waitpid(M, f, w, nohang))
  <1> DEFINE P == M.proc[f]
             wanted == {c \in Live(M) : \/ w = -1 /\ M.proc[c].state = ZOMBIE
                                        \/ M.proc[c].pid = w}
             c == Walk(M, f, wanted)
             stopped == [M EXCEPT !.proc[f].state = STOPPED, !.proc[f].waiting_pid = w]
             block == IF nohang THEN M ELSE stopped
             clear == [M EXCEPT !.proc[f].waiting_return = 0]
             B == [M EXCEPT !.bad = TRUE]
             E == end_of_child(M, c, f)
             E0 == [E EXCEPT !.proc[f].waiting_return = 0]
             N == process_waitpid(M, f, w, nohang)
  <1>1. M \in MachineType /\ M.proc \in [Procs -> Struct] BY DEF MachineInv, MachineType
  <1>2. c = NULL \/ (c \in Procs /\ (Has(M.list, c) => c \in wanted)) BY <1>1, WalkResult
  <1>3. B.list = M.list /\ B.proc = M.proc BY <1>1 DEF MachineType
  <1> HIDE DEF c, wanted
  <1>4. Clears(M, M) /\ Clears(M, B)
    <2> HIDE DEF B
    <2>1. QED BY <1>3, ClearsOn
  <1>5. ASSUME NEW K, K \in MachineType, Has(K.list, f), Clears(M, K)
        PROVE  Clears(M, [K EXCEPT !.proc[f].waiting_return = 0])
    <2> DEFINE R == K.proc[f]
               Q == [R EXCEPT !.waiting_return = 0]
               J == [K EXCEPT !.proc[f].waiting_return = 0]
    <2>1. K.proc \in [Procs -> Struct] BY <1>5 DEF MachineType
    <2>2. J = [K EXCEPT !.proc = [K.proc EXCEPT ![f] = Q]] BY <2>1
    <2> HIDE DEF Q, J
    <2>3. Clears(K, J) BY <1>5, <2>2, ClearsField
    <2>4. Clears(M, J) BY <1>5, <2>3, ClearsTwice
    <2>5. QED BY <2>4 DEF J
  <1>6. Clears(M, clear) BY <1>1, <1>4, <1>5
  <1>7. Clears(M, block)
    <2> DEFINE Q == [P EXCEPT !.state = STOPPED, !.waiting_pid = w]
    <2>1. stopped = [M EXCEPT !.proc = [M.proc EXCEPT ![f] = Q]] BY <1>1
    <2> HIDE DEF Q, stopped
    <2>2. Clears(M, stopped) BY <1>1, <2>1, ClearsField
    <2>3. QED BY <1>4, <2>2
  <1>8. ASSUME c \in Live(M), c \in Procs, M.proc[c].state = ZOMBIE
        PROVE  Clears(M, E) /\ Clears(M, E0)
    <2>1. c # f /\ Has(M.list, c) BY <1>8 DEF Live
    <2>2. Clears(M, E) BY <1>8, <2>1, EndClears
    <2>3. E \in MachineType /\ Has(E.list, f) BY <1>8, <2>1, EndOfChild DEF MachineInv
    <2> HIDE DEF E
    <2>4. QED BY <1>5, <2>2, <2>3
  <1>9. \/ N \in {M, clear, block, B}
        \/ c \in Live(M) /\ M.proc[c].state = ZOMBIE /\ N \in {E, E0}
    <2>1. NULL \notin Live(M) BY ProcsAssumption DEF Live
    <2> HIDE DEF clear, block, B, E0
    <2>2. N = IF P.waiting_return # 0 /\ (P.waiting_pid = w \/ w = -1) THEN clear
              ELSE CASE c = NULL -> IF w = -1 /\ P.children # <<>> THEN block ELSE M
                     [] c # NULL /\ c \notin Live(M) -> B
                     [] OTHER -> IF M.proc[c].state # ZOMBIE THEN block
                                 ELSE IF E.bad THEN E ELSE E0
      BY DEF process_waitpid, clear, block, stopped, B, E0, c, wanted
    <2> HIDE DEF E, N, P
    <2>3. CASE c = NULL BY <2>1, <2>2, <2>3
    <2>4. CASE c # NULL /\ c \notin Live(M) BY <2>2, <2>4
    <2>5. CASE c # NULL /\ c \in Live(M) BY <2>2, <2>5
    <2>6. QED BY <2>3, <2>4, <2>5
  <1> HIDE DEF N, E, E0, clear, block, B
  <1>10. Live(M) \subseteq Procs BY DEF Live
  <1>11. Clears(M, N) BY <1>4, <1>6, <1>7, <1>8, <1>9, <1>10
  <1>12. QED BY <1>11 DEF N

\* sent writes to the process the signal was sent to.
LEMMA SentClears ==
    ASSUME NEW M, MachineInv(M), NEW f \in Procs, Has(M.list, f)
    PROVE  Clears(M, sent(M, f))
  <1> DEFINE P == M.proc[f]
             m == P.sig_avalaible \ blocked_sig(Head(P.sig_queue).sig)
             t == Tail(P.sig_queue)
             Q == [P EXCEPT !.sig_avalaible = m, !.sig_queue = t]
             N == [M EXCEPT !.proc[f].sig_avalaible = m, !.proc[f].sig_queue = t]
  <1>1. M \in MachineType /\ M.proc \in [Procs -> Struct] /\ P \in Struct
    BY DEF MachineInv, MachineType
  <1>2. sent(M, f) \in {M, N} BY DEF sent
  <1>3. N = [M EXCEPT !.proc = [M.proc EXCEPT ![f] = Q]] BY <1>1
  <1> HIDE DEF Q, N
  <1>4. Clears(M, N) BY <1>1, <1>3, ClearsField
  <1>5. Clears(M, M) BY ClearsOn
  <1>6. QED BY <1>2, <1>4, <1>5

\* The table a step installs leaves what is not in use clear.
LEMMA InstallClear ==
    ASSUME Clear, NEW M, Clears(Machine, M), NEW r, Install(M, r)
    PROVE  Clear'
  <1>1. proc' = M.proc /\ process_list' = M.list /\ fork_new' = fork_new BY DEF Install
  <1>2. \A q \in Procs : /\ Has(process_list, q) /\ ~Has(M.list, q) => M.proc[q] = process_new
                         /\ ~Has(process_list, q) => M.proc[q] = proc[q]
    BY MachineFields DEF Clears
  <1>3. ASSUME NEW q \in Procs, ~Has(process_list', q), q # fork_new' PROVE proc'[q] = process_new
    BY <1>1, <1>2, <1>3 DEF Clear, Alive
  <1>4. QED BY <1>3 DEF Clear, Alive

\* So does a step that writes to structs on the list only.
LEMMA WriteClear ==
    ASSUME Clear, UNCHANGED <<process_list, fork_new>>,
           \A q \in Procs : ~Has(process_list, q) /\ q # fork_new => proc'[q] = proc[q]
    PROVE  Clear'
  BY DEF Clear, Alive

LEMMA DieClear ==
    ASSUME IInv, Clear, current # NULL, mode \in {"run", "load"}, NEW v \in Int,
           NEW ok \in BOOLEAN, Die(v, ok)
    PROVE  Clear'
  <1> DEFINE P == Machine.proc[current]
             Q == [P EXCEPT !.end_value = v]
             E == [Machine EXCEPT !.proc[current].end_value = v]
             M == process_die_safe(E, current, ok)
  <1>1. /\ MachineInv(Machine) /\ current \in Procs /\ Machine.proc[current].state # ZOMBIE
        /\ ~Machine.bad /\ Has(Machine.list, current)
    BY MachineFields DEF IInv, Typed, CurrentInv
  <1>2. MachineInv(E) /\ ~E.bad /\ E.list = Machine.list
    <2>1. RUN \in LiveStates BY DEF LiveStates
    <2>2. Marked(Machine, E, current, Machine.proc[current].state)
      BY <1>1, <2>1, SetState, Zenon
    <2> HIDE DEF E
    <2>3. QED BY <1>1, <2>2 DEF Marked
  <1>3. Machine \in MachineType /\ Machine.proc \in [Procs -> Struct]
    BY <1>1 DEF MachineInv, MachineType
  <1>4. E = [Machine EXCEPT !.proc = [Machine.proc EXCEPT ![current] = Q]] BY <1>3
  <1> HIDE DEF Q, E
  <1>5. Clears(Machine, E) BY <1>1, <1>3, <1>4, ClearsField
  <1>6. Clears(E, M) BY <1>1, <1>2, DieClears
  <1> HIDE DEF M
  <1>7. Clears(Machine, M) BY <1>5, <1>6, ClearsTwice
  <1>8. Install(M, switch_process(M, NULL)) BY DEF Die, M, E
  <1>9. QED BY <1>7, <1>8, InstallClear

LEMMA LoadedClear ==
    ASSUME Clear, NEW M, Clears(Machine, M), Loaded(M)
    PROVE  Clear'
  BY InstallClear DEF Loaded

LEMMA DeliverClear == ASSUME IInv, Clear, Deliver PROVE Clear'
  <1>1. CASE send_nothing
    <2>1. Clears(Machine, Machine) BY ClearsOn
    <2>2. QED BY <1>1, <2>1, SendNothing, LoadedClear
  <1>2. CASE sig_term
    <2>1. Sending("sig_term") BY <1>2 DEF sig_term
    <2>2. PICK ok \in KmallocOutcomes : Die(signum, ok) BY <1>2 DEF sig_term
    <2>3. current # NULL /\ mode = "load" BY <2>1 DEF Sending, IInv, Typed
    <2>4. ok \in BOOLEAN /\ signum \in Int BY <2>1, SendingFacts, SigAssumption
    <2>5. QED BY <2>2, <2>3, <2>4, DieClear
  <1>3. CASE sig_core
    <2> DEFINE v == 128 * ((signum \div 128) % 2)
    <2>1. Sending("sig_core") BY <1>3 DEF sig_core
    <2>2. PICK ok \in KmallocOutcomes : Die(v, ok) BY <1>3 DEF sig_core
    <2>3. current # NULL /\ mode = "load" BY <2>1 DEF Sending, IInv, Typed
    <2>4. signum \in Int BY <2>1, SendingFacts
    <2>5. ok \in BOOLEAN BY SigAssumption
    <2>6. v \in Int
      <3> HIDE DEF signum
      <3>1. QED BY <2>4
    <2> HIDE DEF v
    <2>7. QED BY <2>2, <2>3, <2>5, <2>6, DieClear
  <1>4. ASSUME NEW r, Sending(r), NEW N, MachineInv(N), Has(N.list, current), Clears(Machine, N),
               Loaded(sent(N, current))
        PROVE  Clear'
    <2>1. current \in Procs BY <1>4, SendingFacts
    <2>2. Clears(N, sent(N, current)) BY <1>4, <2>1, SentClears
    <2>3. Clears(Machine, sent(N, current)) BY <1>4, <2>2, ClearsTwice
    <2>4. QED BY <1>4, <2>3, LoadedClear
  <1>5. ASSUME NEW r, Sending(r), Loaded(sent(Machine, current)) PROVE Clear'
    <2>1. MachineInv(Machine) /\ Has(Machine.list, current) BY <1>5, SendingFacts
    <2>2. Clears(Machine, Machine) BY ClearsOn
    <2>3. QED BY <1>4, <1>5, <2>1, <2>2
  <1>6. CASE sig_ign BY <1>5, <1>6 DEF sig_ign
  <1>7. CASE send_user BY <1>5, <1>7 DEF send_user
  <1>8. ASSUME NEW r, Sending(r), NEW v \in Int, NEW st \in LiveStates,
               Loaded(sent([Machine EXCEPT !.proc[current].end_value = v,
                                           !.proc[current].state = st], current))
        PROVE  Clear'
    <2> DEFINE N == [Machine EXCEPT !.proc[current].end_value = v, !.proc[current].state = st]
               P == Machine.proc[current]
               Q == [P EXCEPT !.end_value = v, !.state = st]
    <2>1. /\ MachineInv(Machine) /\ current \in Procs /\ Has(Machine.list, current)
          /\ Machine.proc[current].state # ZOMBIE
      BY <1>8, SendingFacts
    <2>2. Marked(Machine, N, current, st) BY <2>1, SetState, Zenon
    <2>3. Machine \in MachineType /\ Machine.proc \in [Procs -> Struct]
      BY <2>1 DEF MachineInv, MachineType
    <2>4. N = [Machine EXCEPT !.proc = [Machine.proc EXCEPT ![current] = Q]] BY <2>3
    <2>5. Loaded(sent(N, current)) BY <1>8, SMTT(30)
    <2> HIDE DEF Q, N
    <2>6. Clears(Machine, N) BY <2>1, <2>3, <2>4, ClearsField
    <2>7. MachineInv(N) /\ Has(N.list, current) BY <2>1, <2>2 DEF Marked
    <2>8. QED BY <1>4, <1>8, <2>5, <2>6, <2>7
  <1>9. CASE sig_stop
    <2> DEFINE v == signum * 256 + 127
    <2>1. Sending("sig_stop") BY <1>9 DEF sig_stop
    <2>2. signum \in Int BY <2>1, SendingFacts
    <2>3. v \in Int
      <3> HIDE DEF signum
      <3>1. QED BY <2>2
    <2>4. Loaded(sent([Machine EXCEPT !.proc[current].end_value = v,
                                      !.proc[current].state = STOPPED], current))
      BY <1>9, SMTT(30) DEF sig_stop
    <2> HIDE DEF v
    <2>5. QED BY <1>8, <2>1, <2>3, <2>4 DEF LiveStates
  <1>10. CASE sig_cont
    <2> DEFINE v == 65535
    <2>1. Sending("sig_cont") /\ v \in Int BY <1>10 DEF sig_cont
    <2>2. Loaded(sent([Machine EXCEPT !.proc[current].end_value = v,
                                      !.proc[current].state = RUN], current))
      BY <1>10 DEF sig_cont
    <2> HIDE DEF v
    <2>3. QED BY <1>8, <2>1, <2>2 DEF LiveStates
  <1>11. CASE send_child_ended
    <2> DEFINE N == child_ended(Machine, current)
    <2>1. Sending("child_ended") /\ Loaded(sent(N, current))
      BY <1>11 DEF send_child_ended
    <2>2. /\ MachineInv(Machine) /\ current \in Procs /\ Has(Machine.list, current) /\ ~Machine.bad
          /\ Machine.proc[current].state # ZOMBIE
      BY <2>1, SendingFacts
    <2>3. Kept(Machine, N, current) BY <2>2, ChildEnded
    <2>4. Clears(Machine, N) BY <2>2, ChildClears
    <2> HIDE DEF N
    <2>5. MachineInv(N) /\ Has(N.list, current) BY <2>3 DEF Kept
    <2>6. QED BY <1>4, <2>1, <2>4, <2>5
  <1>12. QED BY <1>1, <1>2, <1>3, <1>6, <1>7, <1>9, <1>10, <1>11 DEF Deliver

LEMMA CallClear == ASSUME IInv, Clear, Call PROVE Clear'
  <1>1. ASSUME Calls
        PROVE  /\ MachineInv(Machine) /\ current \in Procs /\ Has(Machine.list, current)
               /\ Machine.proc[current].state # ZOMBIE /\ ~Machine.bad /\ mode = "run"
               /\ current # NULL /\ proc \in [Procs -> Struct] /\ Has(process_list, current)
    BY <1>1, CallsFacts, MachineFields, ProcsAssumption
  <1>2. ASSUME NEW status \in Statuses, exit(status) PROVE Clear'
    <2>1. Calls BY <1>2 DEF exit, UserCalls
    <2>2. PICK ok \in KmallocOutcomes : Die(status * 256, ok) BY <1>2 DEF exit
    <2>3. status * 256 \in Int /\ ok \in BOOLEAN BY SigAssumption
    <2>4. QED BY <1>1, <2>1, <2>2, <2>3, DieClear
  <1>3. ASSUME NEW w \in WaitPids \cup {-1}, NEW nohang \in BOOLEAN, call_waitpid(w, nohang)
        PROVE  Clear'
    <2> DEFINE M == process_waitpid(Machine, current, w, nohang)
    <2>1. Calls /\ Install(M, Resume(M, current)) BY <1>3 DEF call_waitpid
    <2>2. w \in Int BY SigAssumption, PidAssumption DEF Pids
    <2>3. Clears(Machine, M) BY <1>1, <2>1, <2>2, WaitClears
    <2> HIDE DEF M
    <2>4. QED BY <2>1, <2>3, InstallClear
  <1>4. ASSUME NEW pid \in KillPids, NEW sig \in KillSigs, kill(pid, sig) PROVE Clear'
    <2> DEFINE target(p) == /\ Has(process_list, p) /\ proc[p].state # ZOMBIE
                            /\ pid = -1 \/ proc[p].pid = pid
                            /\ proc[current].uid = 0 \/ proc[current].uid = proc[p].uid
    <2>1. PICK ok \in [Procs -> KmallocOutcomes] :
              proc' = [p \in Procs |-> IF target(p) THEN add_signal(proc[p], sig, FALSE, ok[p])
                                       ELSE proc[p]]
      BY <1>4 DEF kill
    <2>2. UNCHANGED <<process_list, fork_new>> BY <1>4 DEF kill
    <2>3. \A q \in Procs : ~Has(process_list, q) => ~target(q) OBVIOUS
    <2> HIDE DEF target
    <2>4. \A q \in Procs : ~Has(process_list, q) => proc'[q] = proc[q] BY <2>1, <2>3
    <2>5. QED BY <2>2, <2>4, WriteClear
  <1>5. ASSUME NEW sig \in HandledSigs, NEW h \in Handlers \ {"NULL"}, signal(sig, h) PROVE Clear'
    <2>1. /\ Calls /\ proc' = [proc EXCEPT ![current].sig_handler[sig] = h]
          /\ UNCHANGED <<process_list, fork_new>>
      BY <1>5 DEF signal, UserCalls
    <2>2. \A q \in Procs : q # current => proc'[q] = proc[q] BY <1>1, <2>1
    <2>3. \A q \in Procs : ~Has(process_list, q) => q # current BY <1>1, <2>1
    <2>4. QED BY <2>1, <2>2, <2>3, WriteClear
  <1>6. ASSUME NEW info \in Faults, irq_general(info) PROVE Clear'
    <2>1. Calls BY <1>6 DEF irq_general, UserCalls
    <2>2. PICK ok \in KmallocOutcomes :
            LET M == [Machine EXCEPT !.proc[current] = add_signal(@, info.signal, TRUE, ok)]
            IN  \/ Install(M, switch_process(M, current))
                \/ Die(proc[current].end_value, ok)
                \/ Install(Machine, Resume(Machine, current))
      BY <1>6 DEF irq_general
    <2> DEFINE Q == add_signal(Machine.proc[current], info.signal, TRUE, ok)
               M == [Machine EXCEPT !.proc[current] = Q]
    <2>3. Machine \in MachineType /\ Machine.proc \in [Procs -> Struct]
      BY <1>1, <2>1 DEF MachineInv, MachineType
    <2>4. CASE Install(M, switch_process(M, current))
      <3>1. M = [Machine EXCEPT !.proc = [Machine.proc EXCEPT ![current] = Q]] BY <2>3
      <3> HIDE DEF Q, M
      <3>2. Clears(Machine, M) BY <1>1, <2>1, <2>3, <3>1, ClearsField
      <3>3. QED BY <2>4, <3>2, InstallClear
    <2>5. CASE Die(proc[current].end_value, ok)
      <3>1. proc[current].end_value \in Int /\ ok \in BOOLEAN
        BY <1>1, <2>1, SigAssumption DEF Struct
      <3>2. QED BY <1>1, <2>1, <2>5, <3>1, DieClear
    <2>6. CASE Install(Machine, Resume(Machine, current))
      <3>1. Clears(Machine, Machine) BY ClearsOn
      <3>2. QED BY <2>6, <3>1, InstallClear
    <2>7. QED BY <2>2, <2>4, <2>5, <2>6
  <1>7. QED BY <1>2, <1>3, <1>4, <1>5, <1>6 DEF Call

\* fork_new is NULL but while fork fills a struct.
Filling == mode # "fork" => fork_new = NULL

LEMMA InitFilling == Init => Filling BY DEF Init, Filling

LEMMA NextFilling == ASSUME Filling, [Next]_vars PROVE Filling'
  <1>1. CASE UNCHANGED vars BY <1>1 DEF vars, Filling
  <1>2. ASSUME mode # "fork", UNCHANGED fork_new PROVE Filling' BY <1>2 DEF Filling
  <1>3. CASE irq_clock BY <1>2, <1>3 DEF irq_clock, Install
  <1>4. CASE Deliver
    <2>1. mode = "load"
      BY <1>4 DEF Deliver, send_nothing, sig_term, sig_core, sig_ign, send_user, sig_stop, sig_cont,
                  send_child_ended, Sending
    <2>2. ASSUME NEW v, NEW ok, Die(v, ok) PROVE UNCHANGED fork_new BY <2>2 DEF Die, Install
    <2>3. ASSUME NEW M, Loaded(M) PROVE UNCHANGED fork_new BY <2>3 DEF Loaded, Install
    <2>4. CASE send_nothing BY <1>2, <2>1, <2>3, <2>4, Zenon DEF send_nothing
    <2>5. CASE sig_term BY <1>2, <2>1, <2>2, <2>5, Zenon DEF sig_term
    <2>6. CASE sig_core BY <1>2, <2>1, <2>2, <2>6, Zenon DEF sig_core
    <2>7. CASE sig_ign BY <1>2, <2>1, <2>3, <2>7, Zenon DEF sig_ign
    <2>8. CASE send_user BY <1>2, <2>1, <2>3, <2>8, Zenon DEF send_user
    <2>9. CASE sig_stop
      <3> DEFINE v == signum * 256 + 127
                 M == sent([Machine EXCEPT !.proc[current].end_value = v,
                                           !.proc[current].state = STOPPED], current)
      <3>1. Loaded(M) BY <2>9, SMTT(30) DEF sig_stop
      <3> HIDE DEF M
      <3>2. QED BY <1>2, <2>1, <2>3, <3>1
    <2>10. CASE sig_cont
      <3> DEFINE v == 65535
                 M == sent([Machine EXCEPT !.proc[current].end_value = v,
                                           !.proc[current].state = RUN], current)
      <3>1. Loaded(M) BY <2>10, SMTT(30) DEF sig_cont
      <3> HIDE DEF M
      <3>2. QED BY <1>2, <2>1, <2>3, <3>1
    <2>11. CASE send_child_ended BY <1>2, <2>1, <2>3, <2>11, Zenon DEF send_child_ended
    <2>12. QED BY <1>4, <2>4, <2>5, <2>6, <2>7, <2>8, <2>9, <2>10, <2>11 DEF Deliver
  <1>5. CASE Call
    <2>1. mode = "run"
      BY <1>5 DEF Call, exit, call_waitpid, kill, signal, irq_general, UserCalls, Calls
    <2>2. ASSUME NEW v, NEW ok, Die(v, ok) PROVE UNCHANGED fork_new BY <2>2 DEF Die, Install
    <2>3. ASSUME NEW M, NEW r, Install(M, r) PROVE UNCHANGED fork_new BY <2>3 DEF Install
    <2>4. ASSUME NEW status \in Statuses, exit(status) PROVE UNCHANGED fork_new
      BY <2>2, <2>4 DEF exit
    <2>5. ASSUME NEW w \in WaitPids \cup {-1}, NEW nohang \in BOOLEAN, call_waitpid(w, nohang)
          PROVE  UNCHANGED fork_new
      BY <2>3, <2>5 DEF call_waitpid
    <2>6. ASSUME NEW info \in Faults, irq_general(info) PROVE UNCHANGED fork_new
      BY <2>2, <2>3, <2>6, Zenon DEF irq_general
    <2>7. UNCHANGED fork_new BY <1>5, <2>4, <2>5, <2>6 DEF Call, kill, signal
    <2>8. QED BY <1>2, <2>1, <2>7
  <1>6. CASE Fork
    <2>1. CASE \E new \in Procs : fork_start(new) BY <2>1 DEF fork_start, UserCalls, Calls, Filling
    <2>2. CASE fork_signal BY <2>2 DEF fork_signal, Filling
    <2>3. CASE \E ok \in KmallocOutcomes : fork_end(ok) BY <2>3 DEF fork_end, Filling
    <2>4. QED BY <1>6, <2>1, <2>2, <2>3 DEF Fork
  <1>7. QED BY <1>1, <1>3, <1>4, <1>5, <1>6 DEF Next, Halted

\* Fork writes to the struct it fills and to the father, and clears the struct again
\* when it fails.
LEMMA ForkClear == ASSUME IInv, Clear, Filling, Fork PROVE Clear'
  <1>1. ASSUME NEW new \in Procs, fork_start(new) PROVE Clear'
    <2>1. Calls /\ UNCHANGED process_list
          /\ \/ fork_new' = new /\ \A q \in Procs : q # new => proc'[q] = proc[q]
             \/ UNCHANGED <<proc, fork_new>>
      BY <1>1, CallsFacts DEF fork_start, UserCalls
    <2>2. CASE UNCHANGED <<proc, fork_new>> BY <2>1, <2>2, WriteClear
    <2>3. CASE fork_new' = new /\ \A q \in Procs : q # new => proc'[q] = proc[q]
      <3>1. mode = "run" BY <2>1 DEF Calls
      <3>2. fork_new = NULL BY <3>1 DEF Filling
      <3>3. QED BY <2>1, <2>3, <3>2, ProcsAssumption DEF Clear, Alive
    <2>4. QED BY <2>1, <2>2, <2>3
  <1>2. CASE fork_signal
    <2>1. mode = "fork" /\ UNCHANGED <<process_list, fork_new>> BY <1>2 DEF fork_signal
    <2>2. \A q \in Procs : q # fork_new => proc'[q] = proc[q]
      BY <1>2, <2>1, ForkFacts DEF fork_signal
    <2>3. QED BY <2>1, <2>2, WriteClear
  <1>3. ASSUME NEW ok \in KmallocOutcomes, fork_end(ok) PROVE Clear'
    <2>1. mode = "fork" /\ fork_new' = NULL BY <1>3 DEF fork_end
    <2>2. /\ proc \in [Procs -> Struct] /\ process_list \in Seq(Procs)
          /\ fork_new \in Procs /\ current \in Procs /\ Has(process_list, current)
      BY <2>1, ForkFacts
    <2>3. CASE ~ok
      <3>1. proc' = [proc EXCEPT ![fork_new] = process_new] /\ process_list' = process_list
        BY <1>3, <2>3 DEF fork_end
      <3>2. QED BY <2>2, <3>1 DEF Clear, Alive
    <2>4. CASE ok
      <3>1. /\ process_list' = list_add(process_list, fork_new, current)
            /\ \A q \in Procs : q # fork_new /\ q # current => proc'[q] = proc[q]
        BY <1>3, <2>2, <2>4 DEF fork_end
      <3>2. \A q : Has(process_list', q) <=> (Has(process_list, q) \/ q = fork_new)
        BY <2>2, <3>1, ListAdd
      <3>3. QED BY <2>2, <3>1, <3>2 DEF Clear, Alive
    <2>5. QED BY <2>3, <2>4, SigAssumption
  <1>4. QED BY <1>1, <1>2, <1>3 DEF Fork

LEMMA InitClear == Init => Clear
  BY ProcsAssumption DEF Init, Clear, Alive, Has

LEMMA NextClear == ASSUME IInv, Clear, Filling, [Next]_vars PROVE Clear'
  <1>1. CASE UNCHANGED vars BY <1>1 DEF vars, Clear, Alive
  <1>2. CASE irq_clock
    <2>1. Clears(Machine, Machine) BY ClearsOn
    <2>2. QED BY <1>2, <2>1, InstallClear DEF irq_clock
  <1>3. QED BY <1>1, <1>2, DeliverClear, CallClear, ForkClear DEF Next, Halted

-----------------------------------------------------------------------------
(* Theorems *)

\* process_new, free_process and process_alloc_pid: every struct, list and counter
\* keeps its type, the pid counter its range, and switch_process resumes a process,
\* never NULL; no step writes to a struct that is neither on process_list nor
\* being filled by fork.
THEOREM ProcessTypes == Spec => []TypeOK
  <1>1. IInv => Typed BY DEF IInv
  <1>2. QED BY InitIInv, NextIInv, InitClear, NextClear, InitFilling, NextFilling, <1>1, PTL DEF Spec, TypeOK

\* process_alloc_pid, free_process and copy_process: no two processes on the
\* list share a pid or a struct, and the running one is on it.
THEOREM PidsAreUnique == Spec => []PidsUnique
  <1>1. IInv => PidsUnique
    <2> SUFFICES ASSUME IInv PROVE PidsUnique
      OBVIOUS
    <2>1. ListInv(proc, process_list) /\ process_list \in Seq(Procs)
      BY MachineFields DEF IInv, MachineInv, Typed
    <2>2. \A i \in 1..Len(process_list) :
              process_list[i] \in Procs /\ Has(process_list, process_list[i])
      BY <2>1 DEF Has
    <2>3. QED BY <2>1, <2>2 DEF PidsUnique, ListInv, Injective, IInv, CurrentInv, Alive
  <1>2. QED BY InitIInv, NextIInv, <1>1, PTL DEF Spec

\* process_die_safe and add_signal: a zombie has no signal pending and never
\* gets the processor back.
THEOREM ZombiesAreQuiet == Spec => []ZombieQuiet
  <1>1. IInv => ZombieQuiet
    <2> SUFFICES ASSUME IInv PROVE ZombieQuiet
      OBVIOUS
    <2>1. \A p \in Procs : StructInv(proc[p])
      BY MachineFields DEF IInv, MachineInv
    <2>2. QED BY <2>1, ProcsAssumption DEF ZombieQuiet, StructInv, IInv, CurrentInv, Alive
  <1>2. QED BY InitIInv, NextIInv, <1>1, PTL DEF Spec

\* add_signal and send_signal: a signal is masked only while one that masks it
\* is queued, so no signal is refused for ever.
THEOREM NoSignalIsLost == Spec => []NoSignalLost
  <1>1. IInv => NoSignalLost
    <2> SUFFICES ASSUME IInv, NEW p \in Procs, proc[p].state # ZOMBIE,
                        NEW b \in proc[p].sig_avalaible
                 PROVE  \E s \in Sigs : Queued(p, s) /\ b \in blocked_sig(s)
      BY DEF NoSignalLost
    <2>1. StructInv(proc[p]) /\ proc[p].sig_queue \in Seq(Entry)
      BY MachineFields DEF IInv, MachineInv, Typed, Struct
    <2>2. PICK i \in 1..Len(proc[p].sig_queue) : b \in blocked_sig(proc[p].sig_queue[i].sig)
      BY <2>1 DEF StructInv, Covered
    <2>3. proc[p].sig_queue[i] \in Entry
      BY <2>1
    <2>4. proc[p].sig_queue[i].sig \in Sigs
      BY <2>3 DEF Entry
    <2>5. QED BY <2>2, <2>4 DEF Queued
  <1>2. QED BY InitIInv, NextIInv, <1>1, PTL DEF Spec
=============================================================================
