---------------------------- MODULE FamilyProofs ----------------------------
(***************************************************************************)
(* Fathers and children: until a process is freed that still has children, *)
(* the two directions of the family agree, no call reads freed memory, the *)
(* father and nobody else reaps a zombie, no wakeup of a waiting father is *)
(* lost, and the process table implements PidTable.                        *)
(***************************************************************************)
EXTENDS ProcessProofs

\* Father pointers and children lists of the processes on l agree.
Family(T, l) ==
    \A p \in Procs : Has(l, p) =>
        /\ T[p].father # NULL => Has(l, T[p].father) /\ Has(T[T[p].father].children, p)
        /\ Injective(T[p].children)
        /\ \A c \in Procs : Has(T[p].children, c) => Has(l, c) /\ T[c].father = p

\* A SIGCHLD is queued for the struct P.
Pending(P) == \E i \in 1..Len(P.sig_queue) : P.sig_queue[i].sig = SIGCHLD

\* No child of f is a zombie that f waits for, or waited for last.
Calm(T, f) ==
    \A c \in Procs : Has(T[f].children, c) /\ T[c].state = ZOMBIE =>
        T[f].waiting_pid # -1 /\ T[f].waiting_pid # T[c].pid

\* The same of the children of f other than p.
CalmBut(T, f, p) ==
    \A c \in Procs : c # p /\ Has(T[f].children, c) /\ T[c].state = ZOMBIE =>
        T[f].waiting_pid # -1 /\ T[f].waiting_pid # T[c].pid

\* The struct P is served by the default routine of SIGCHLD, and none is queued.
Deaf(P) == P.state # ZOMBIE /\ P.sig_handler[SIGCHLD] = "NULL" /\ ~Pending(P)

\* Where kmalloc cannot fail, a process with no SIGCHLD queued is calm, in
\* whatever state it is: it may stop at any time for another reason than to
\* wait.
Wake(T, l) ==
    KmallocOutcomes = {TRUE} => \A f \in Procs : Has(l, f) /\ Deaf(T[f]) => Calm(T, f)

FamilyInv(M) == ~M.bad /\ Family(M.proc, M.list) /\ Wake(M.proc, M.list)

-----------------------------------------------------------------------------
(* What a step does to the processes on the list, as far as programs see it: *)
(* the structs T on the list l become the structs U on the list k.           *)

\* The struct Q shows what P shows.
Alike(P, Q) ==
    /\ Q.pid = P.pid /\ Q.father = P.father
    /\ Q.state = ZOMBIE <=> P.state = ZOMBIE
    /\ P.state = ZOMBIE => Q.end_value = P.end_value
    /\ Q.sig_handler[SIGCHLD] = "NULL" <=> P.sig_handler[SIGCHLD] = "NULL"

AllAlike(T, U) == \A q \in Procs : Alike(T[q], U[q])

AlikeBut(T, l, U, p) == \A q \in Procs : q # p /\ Has(l, q) => Alike(T[q], U[q])

SameMembers(l, k) == \A q \in Procs : Has(k, q) <=> Has(l, q)

Acts(T, l, p) == p \in Procs /\ Has(l, p) /\ T[p].state # ZOMBIE

\* Does p have a father that left SIGCHLD alone?
Minded(T, p) == T[p].father # NULL /\ T[T[p].father].sig_handler[SIGCHLD] = "NULL"

Stays(T, l, U, k) == SameMembers(l, k) /\ \A q \in Procs : Has(l, q) => Alike(T[q], U[q])

Ends(T, l, U, k, p) ==
    /\ SameMembers(l, k) /\ AlikeBut(T, l, U, p)
    /\ U[p].pid = T[p].pid /\ U[p].father = T[p].father /\ U[p].state = ZOMBIE
    /\ U[p].sig_handler[SIGCHLD] = "NULL" <=> T[p].sig_handler[SIGCHLD] = "NULL"

Goes(T, l, U, k, c) ==
    /\ Has(l, c) /\ \A q \in Procs : Has(k, q) <=> Has(l, q) /\ q # c
    /\ AlikeBut(T, l, U, c) /\ U[c].pid = 0

Comes(T, l, U, k, n, f) ==
    /\ ~Has(l, n) /\ \A q \in Procs : Has(k, q) <=> Has(l, q) \/ q = n
    /\ AlikeBut(T, l, U, n)
    /\ U[n].father = f /\ U[n].state # ZOMBIE /\ U[n].sig_handler[SIGCHLD] = "NULL"

Ignores(T, l, U, k, p) ==
    /\ SameMembers(l, k) /\ AlikeBut(T, l, U, p)
    /\ U[p].pid = T[p].pid /\ U[p].father = T[p].father /\ U[p].state # ZOMBIE
    /\ U[p].sig_handler[SIGCHLD] # "NULL"

\* A step of the process p.
Effect(T, l, U, k, p) ==
    \/ Stays(T, l, U, k)
    \/ /\ Acts(T, l, p)
       /\ \/ Minded(T, p) /\ Ends(T, l, U, k, p)
          \/ ~Minded(T, p) /\ Goes(T, l, U, k, p)
          \/ \E c \in Procs : T[c].state = ZOMBIE /\ T[c].father = p /\ Goes(T, l, U, k, c)
          \/ \E n \in Procs : Comes(T, l, U, k, n, p)
          \/ Ignores(T, l, U, k, p)

\* Nothing has changed; one change after another; two structs but for some fields.
LEMMA AlikeSelf == \A T : AllAlike(T, T)
  BY DEF AllAlike, Alike

LEMMA AlikeTrans ==
    ASSUME NEW P, NEW Q, NEW R, Alike(P, Q), Alike(Q, R)
    PROVE  Alike(P, R)
  BY DEF Alike

LEMMA SameAlike ==
    ASSUME NEW P, NEW Q, SameBut(P, Q)
    PROVE  Alike(P, Q)
  BY DEF SameBut, Alike

\* A step that nobody sees.
LEMMA StaysEffect ==
    ASSUME NEW T, NEW l, NEW U, NEW p, \A q \in Procs : Has(l, q) => Alike(T[q], U[q])
    PROVE  Effect(T, l, U, l, p)
  <1>1. Stays(T, l, U, l)
    BY DEF Stays, SameMembers
  <1>2. QED BY <1>1, Zenon DEF Effect

\* What keeps all structs alike is not seen before or after a step of p.
LEMMA EffectAfter ==
    ASSUME NEW T, NEW l, NEW U, NEW k, NEW p, NEW S,
           p \in Procs, S[p].state # ZOMBIE, AllAlike(S, T), Effect(T, l, U, k, p),
           \A q \in Procs : Has(l, q) /\ T[q].father # NULL => T[q].father \in Procs
    PROVE  Effect(S, l, U, k, p)
  <1>1. \A q \in Procs : Alike(S[q], T[q])
    BY DEF AllAlike
  <1>2. ASSUME NEW c, AlikeBut(T, l, U, c) PROVE AlikeBut(S, l, U, c)
    BY <1>1, <1>2, AlikeTrans DEF AlikeBut
  <1>3. Stays(T, l, U, k) => Stays(S, l, U, k)
    BY <1>1, AlikeTrans DEF Stays
  <1>4. ASSUME Acts(T, l, p) PROVE Minded(S, p) <=> Minded(T, p)
    <2>1. S[p].father = T[p].father /\ Has(l, p)
      BY <1>1, <1>4 DEF Alike, Acts
    <2>2. T[p].father # NULL => T[p].father \in Procs
      BY <1>4, <2>1
    <2>3. T[p].father # NULL => Alike(S[T[p].father], T[T[p].father])
      BY <1>1, <2>2
    <2>4. QED BY <2>1, <2>3 DEF Minded, Alike
  <1>5. Acts(T, l, p) => Acts(S, l, p)
    BY DEF Acts
  <1>6. S[p].pid = T[p].pid /\ S[p].father = T[p].father
    BY <1>1 DEF Alike
  <1>7. Ends(T, l, U, k, p) => Ends(S, l, U, k, p)
    BY <1>1, <1>2, <1>6 DEF Ends, Alike
  <1>8. \A c \in Procs : Goes(T, l, U, k, c) => Goes(S, l, U, k, c)
    BY <1>2 DEF Goes
  <1>9. \A n \in Procs : Comes(T, l, U, k, n, p) => Comes(S, l, U, k, n, p)
    BY <1>2 DEF Comes
  <1>10. Ignores(T, l, U, k, p) => Ignores(S, l, U, k, p)
    BY <1>2, <1>6 DEF Ignores
  <1>11. \A c \in Procs : T[c].state = ZOMBIE /\ T[c].father = p => S[c].state = ZOMBIE /\ S[c].father = p
    BY <1>1 DEF Alike
  <1>12. QED BY <1>3, <1>4, <1>5, <1>7, <1>8, <1>9, <1>10, <1>11, Zenon DEF Effect

-----------------------------------------------------------------------------
(* Lists *)

\* Reverse has the same members.
LEMMA ReverseHas ==
    ASSUME NEW S, NEW s \in Seq(S), NEW x
    PROVE  Has(Reverse(s), x) <=> Has(s, x)
  <1> DEFINE n == Len(s)
             r == Reverse(s)
  <1>1. n \in Nat /\ r = [i \in 1..n |-> s[(n - i) + 1]]
    BY DEF Reverse
  <1>2. r \in Seq(S) /\ Len(r) = n
    <2>1. r \in Seq(S) BY ReverseType
    <2>2. DOMAIN r = 1..n BY <1>1
    <2>3. DOMAIN r = 1..Len(r) /\ Len(r) \in Nat BY <2>1, LenProperties
    <2> HIDE DEF r, n
    <2>4. QED BY <1>1, <2>1, <2>2, <2>3
  <1>3. \A i \in 1..n : (n - i) + 1 \in 1..n /\ r[(n - i) + 1] = s[i] /\ r[i] = s[(n - i) + 1]
    <2> TAKE i \in 1..n
    <2> DEFINE j == (n - i) + 1
    <2>1. j \in 1..n /\ (n - j) + 1 = i BY <1>1
    <2> HIDE DEF j
    <2>2. r[j] = s[(n - j) + 1] /\ r[i] = s[(n - i) + 1] BY <1>1, <2>1
    <2>3. QED BY <2>1, <2>2 DEF j
  <1>4. Has(r, x) <=> \E i \in 1..n : r[i] = x
    BY <1>2 DEF Has
  <1>5. Has(s, x) <=> \E i \in 1..n : s[i] = x
    BY DEF Has
  <1> HIDE DEF r, n
  <1>6. Has(r, x) <=> Has(s, x)
    BY <1>3, <1>4, <1>5
  <1>7. QED BY <1>6 DEF r

\* The members of two lists one behind the other.
LEMMA ConcatHas ==
    ASSUME NEW S, NEW s \in Seq(S), NEW t \in Seq(S), NEW x
    PROVE  Has(s \o t, x) <=> (Has(s, x) \/ Has(t, x))
  <1> DEFINE u == s \o t
  <1>1. /\ u \in Seq(S) /\ Len(u) = Len(s) + Len(t) /\ Len(s) \in Nat /\ Len(t) \in Nat
        /\ \A i \in 1..(Len(s) + Len(t)) : u[i] = IF i <= Len(s) THEN s[i] ELSE t[i - Len(s)]
    BY ConcatProperties
  <1> HIDE DEF u
  <1>2. ASSUME Has(u, x) PROVE Has(s, x) \/ Has(t, x)
    <2>1. PICK i \in 1..(Len(s) + Len(t)) : u[i] = x
      BY <1>1, <1>2 DEF Has
    <2>2. CASE i <= Len(s)
      BY <1>1, <2>1, <2>2 DEF Has
    <2>3. CASE i > Len(s)
      <3>1. i - Len(s) \in 1..Len(t) /\ t[i - Len(s)] = x
        BY <1>1, <2>1, <2>3
      <3>2. QED BY <3>1 DEF Has
    <2>4. QED BY <1>1, <2>2, <2>3
  <1>3. ASSUME Has(s, x) PROVE Has(u, x)
    BY <1>1, <1>3 DEF Has
  <1>4. ASSUME Has(t, x) PROVE Has(u, x)
    <2>1. PICK i \in 1..Len(t) : t[i] = x
      BY <1>4 DEF Has
    <2>2. i + Len(s) \in 1..(Len(s) + Len(t)) /\ (i + Len(s)) - Len(s) = i /\ ~(i + Len(s) <= Len(s))
      BY <1>1
    <2>3. u[i + Len(s)] = x
      BY <1>1, <2>1, <2>2
    <2>4. QED BY <1>1, <2>2, <2>3 DEF Has
  <1>5. QED BY <1>2, <1>3, <1>4 DEF u

\* A list without members is empty, and nothing when it is put before another.
LEMMA NoMembers ==
    ASSUME NEW S, NEW t \in Seq(S)
    PROVE  /\ Reverse(<<>>) \o t = t
           /\ t # <<>> => \E x \in S : Has(t, x)
           /\ ~\E x : Has(<<>>, x)
  <1>1. Reverse(<<>>) \in Seq(S)
    BY ReverseType, EmptySeq
  <1>2. DOMAIN Reverse(<<>>) = 1..Len(<<>>) /\ Len(<<>>) = 0
    BY DEF Reverse
  <1>3. DOMAIN Reverse(<<>>) = 1..Len(Reverse(<<>>)) /\ Len(Reverse(<<>>)) \in Nat
    BY <1>1, LenProperties
  <1>4. Len(Reverse(<<>>)) = 0
    BY <1>2, <1>3
  <1>5. Reverse(<<>>) = <<>>
    BY <1>1, <1>4, EmptySeq
  <1>6. Reverse(<<>>) \o t = t
    BY <1>5, ConcatEmptySeq
  <1>7. t # <<>> => Len(t) \in Nat /\ Len(t) # 0
    BY EmptySeq
  <1>8. t # <<>> => 1 \in 1..Len(t) /\ t[1] \in S
    BY <1>7
  <1>9. QED BY <1>2, <1>6, <1>8 DEF Has

-----------------------------------------------------------------------------
(* free_process *)

\* process_get_with_pid finds the one process on the list with that pid.
LEMMA GetFound ==
    ASSUME NEW M \in MachineType, NEW pid, NEW q \in Procs, Has(M.list, q), M.proc[q].pid = pid,
           \A r \in Procs : Has(M.list, r) /\ r # q => M.proc[r].pid # pid
    PROVE  process_get_with_pid(M, pid) = q
  <1> DEFINE S == {i \in 1..Len(M.list) : M.proc[M.list[i]].pid = pid}
             first == {i \in 1..Len(M.list) :
                          /\ M.proc[M.list[i]].pid = pid
                          /\ \A j \in 1..(i - 1) : M.proc[M.list[j]].pid # pid}
             c == CHOOSE i \in first : TRUE
  <1>1. M.list \in Seq(Procs)
    BY DEF MachineType
  <1>2. S # {} /\ S \subseteq Nat
    BY <1>1 DEF Has
  <1>3. PICK k \in S : \A y \in S : k <= y
    BY <1>2, LeastNatural
  <1>4. \A j \in 1..(k - 1) : j \in 1..Len(M.list) /\ ~(k <= j)
    BY <1>1, <1>3
  <1>5. k \in first
    BY <1>3, <1>4, SMTT(30)
  <1>6. c \in first
    BY <1>5
  <1>7. process_get_with_pid(M, pid) = M.list[c]
    BY <1>5, SMTT(30) DEF process_get_with_pid
  <1>8. c \in 1..Len(M.list) /\ M.proc[M.list[c]].pid = pid
    BY <1>6
  <1> HIDE DEF c, first, S
  <1>9. QED BY <1>1, <1>7, <1>8 DEF Has

\* free_process of a process whose father is alive reads no freed memory: the
\* father loses the process, the others keep their children, and pid 1 gets
\* those of the process.
LEMMA FreeChildren ==
    ASSUME NEW M, MachineInv(M), ~M.bad, NEW p \in Procs,
           M.proc[p].father # NULL => Has(M.list, M.proc[p].father)
    PROVE  LET N == free_process(M, p)
               one == process_get_with_pid([M EXCEPT !.list = list_del(M.list, p)], PROC_MIN_PID)
               kept(q) == IF q = M.proc[p].father THEN list_del(M.proc[q].children, p)
                          ELSE M.proc[q].children
           IN  /\ ~N.bad /\ N.list = list_del(M.list, p) /\ N.proc[p] = process_new
               /\ \A q \in Procs : q # p =>
                    N.proc[q].children = IF q = one THEN Reverse(M.proc[p].children) \o kept(q)
                                         ELSE kept(q)
  <1> DEFINE N == free_process(M, p)
             father == M.proc[p].father
             list == list_del(M.list, p)
             kept(q) == IF q = father THEN list_del(M.proc[q].children, p) ELSE M.proc[q].children
             T1 == IF father = NULL THEN M.proc
                   ELSE [M.proc EXCEPT ![father].children = list_del(@, p)]
             one == process_get_with_pid([M EXCEPT !.list = list], PROC_MIN_PID)
             T2 == IF one = NULL THEN T1
                   ELSE [T1 EXCEPT ![one].children = Reverse(T1[p].children) \o @]
             T3 == [T2 EXCEPT ![p] = process_new]
  <1>1. /\ M \in MachineType /\ M.proc \in [Procs -> Struct] /\ M.list \in Seq(Procs)
        /\ M.bad = FALSE
    BY DEF MachineInv, MachineType
  <1>2. father \in Procs \cup {NULL} /\ father # p
    BY <1>1 DEF MachineInv, Struct
  <1>3. ~(father # NULL /\ father \notin Live(M))
    BY <1>2 DEF Live
  <1>4. N = [M EXCEPT !.proc = T3, !.list = list]
    BY <1>3 DEF free_process
  <1>5. /\ N.bad = FALSE /\ N.list = list /\ N.proc = T3
    BY <1>1, <1>4 DEF MachineType
  <1>6. list \in Seq(Procs)
    BY <1>1, ListDelType
  <1>7. one \in Procs \cup {NULL}
    <2>1. [M EXCEPT !.list = list] \in MachineType
      BY <1>1, <1>6 DEF MachineType
    <2>2. QED BY <2>1, GetWithPid
  <1> HIDE DEF one, list
  <1>8. /\ DOMAIN T1 = Procs /\ T1[p] = M.proc[p]
        /\ \A q \in Procs : T1[q].children = kept(q) /\ DOMAIN T1[q] = DOMAIN M.proc[q]
        /\ \A q \in Procs : "children" \in DOMAIN T1[q]
    BY <1>1, <1>2, ProcsAssumption, ZenonT(40) DEF Struct
  <1> HIDE DEF T1, kept
  <1>9. /\ DOMAIN T2 = Procs
        /\ \A q \in Procs : T2[q].children = IF q = one THEN Reverse(M.proc[p].children) \o kept(q)
                                             ELSE kept(q)
    BY <1>7, <1>8, ProcsAssumption
  <1> HIDE DEF T2
  <1>10. T3[p] = process_new /\ \A q \in Procs : q # p => T3[q] = T2[q]
    BY <1>9
  <1>11. QED BY <1>5, <1>9, <1>10 DEF N, list, one, kept, T3, father

\* The same for the members of the children lists of the processes on the list.
LEMMA FreeMembers ==
    ASSUME NEW M, MachineInv(M), ~M.bad, NEW p \in Procs, Has(M.list, p),
           Family(M.proc, M.list)
    PROVE  LET N == free_process(M, p)
           IN  /\ ~N.bad /\ ~Has(N.list, p)
               /\ \A q \in Procs : q # p /\ Has(M.list, q) =>
                    \A c \in Procs : Has(N.proc[q].children, c) <=>
                        \/ Has(M.proc[q].children, c) /\ c # p
                        \/ M.proc[q].pid = PROC_MIN_PID /\ Has(M.proc[p].children, c)
               /\ M.proc[p].children = <<>> =>
                    \A q \in Procs : q # p /\ Has(M.list, q) => Injective(N.proc[q].children)
  <1> DEFINE N == free_process(M, p)
             father == M.proc[p].father
             list == list_del(M.list, p)
             L == [M EXCEPT !.list = list]
             kept(q) == IF q = father THEN list_del(M.proc[q].children, p) ELSE M.proc[q].children
             one == process_get_with_pid(L, PROC_MIN_PID)
  <1>1. /\ M \in MachineType /\ M.proc \in [Procs -> Struct] /\ M.list \in Seq(Procs)
        /\ M.bad = FALSE
    BY DEF MachineInv, MachineType
  <1>2. /\ ~N.bad /\ N.list = list
        /\ \A q \in Procs : q # p =>
              N.proc[q].children = IF q = one THEN Reverse(M.proc[p].children) \o kept(q) ELSE kept(q)
    BY FreeChildren DEF Family
  <1>3. ~Has(list, p) /\ list \in Seq(Procs)
    BY <1>1, ListDelInjective, ListDelType DEF MachineInv, ListInv
  <1> SUFFICES ASSUME NEW q \in Procs, q # p, Has(M.list, q)
               PROVE  /\ \A c \in Procs : Has(N.proc[q].children, c) <=>
                            \/ Has(M.proc[q].children, c) /\ c # p
                            \/ M.proc[q].pid = PROC_MIN_PID /\ Has(M.proc[p].children, c)
                      /\ M.proc[p].children = <<>> => Injective(N.proc[q].children)
    BY <1>2, <1>3
  <1> DEFINE s == M.proc[q].children
             k == kept(q)
             r == Reverse(M.proc[p].children)
  <1>4. s \in Seq(Procs) /\ M.proc[p].children \in Seq(Procs)
    BY <1>1 DEF Struct
  <1>5. Injective(s) /\ (q # father => ~Has(s, p))
    BY DEF Family
  <1>6. /\ k \in Seq(Procs) /\ Injective(k)
        /\ \A c \in Procs : Has(k, c) <=> Has(s, c) /\ c # p
    <2>1. CASE q = father
      <3>1. k = list_del(s, p) BY <2>1
      <3> HIDE DEF k, s
      <3>2. QED BY <1>4, <1>5, <3>1, ListDelType, ListDelHas, ListDelInjective
    <2>2. CASE q # father
      BY <1>4, <1>5, <2>2
    <2>3. QED BY <2>1, <2>2
  <1>7. r \in Seq(Procs) /\ \A c \in Procs : Has(r, c) <=> Has(M.proc[p].children, c)
    BY <1>4, ReverseType, ReverseHas
  <1>8. one = q <=> M.proc[q].pid = PROC_MIN_PID
    <2>1. L \in MachineType /\ L.list = list /\ L.proc = M.proc
      BY <1>1, <1>3 DEF MachineType
    <2>2. Has(list, q)
      BY <1>1, ListDelHas
    <2>3. \A x \in Procs : Has(list, x) => Has(M.list, x)
      BY <1>1, ListDelHas
    <2> HIDE DEF L, list
    <2>4. one = NULL \/ M.proc[one].pid = PROC_MIN_PID
      BY <2>1, GetWithPid
    <2>5. ASSUME M.proc[q].pid = PROC_MIN_PID PROVE one = q
      <3>1. \A x \in Procs : Has(L.list, x) /\ x # q => L.proc[x].pid # PROC_MIN_PID
        BY <2>1, <2>3, <2>5 DEF MachineInv, ListInv
      <3>2. QED BY <2>1, <2>2, <2>5, <3>1, GetFound
    <2>6. QED BY <2>4, <2>5, ProcsAssumption
  <1>9. N.proc[q].children = IF q = one THEN r \o k ELSE k
    BY <1>2
  <1>10. M.proc[p].children = <<>> => r \o k = k
    BY <1>6, NoMembers
  <1> HIDE DEF r, k, one, N, s
  <1>11. \A c \in Procs : Has(r \o k, c) <=> (Has(r, c) \/ Has(k, c))
    BY <1>6, <1>7, ConcatHas
  <1>12. QED BY <1>6, <1>7, <1>8, <1>9, <1>10, <1>11 DEF s

\* free_process of a process without children keeps the family in order, and
\* leaves calm those who were, but for that process.
LEMMA FreeFamily ==
    ASSUME NEW M, MachineInv(M), ~M.bad, NEW p \in Procs, Has(M.list, p),
           Family(M.proc, M.list), M.proc[p].children = <<>>
    PROVE  LET N == free_process(M, p)
           IN  /\ ~N.bad /\ Family(N.proc, N.list)
               /\ \A q \in Procs : q # p /\ Has(M.list, q) /\ CalmBut(M.proc, q, p) => Calm(N.proc, q)
  <1> DEFINE N == free_process(M, p)
             T == M.proc
             U == N.proc
  <1>1. ~N.bad /\ ~Has(N.list, p) /\ MachineInv(N)
    BY FreeMembers, FreeProcess
  <1>2. \A q \in Procs : q # p => SameBut(T[q], U[q]) /\ (Has(N.list, q) <=> Has(M.list, q))
    BY FreeProcess DEF Others
  <1>3. ~\E c : Has(T[p].children, c)
    <2>1. Len(<<>>) = 0
      OBVIOUS
    <2>2. QED BY <2>1 DEF Has
  <1>4. \A q \in Procs : q # p /\ Has(M.list, q) =>
           /\ Injective(U[q].children)
           /\ \A c \in Procs : Has(U[q].children, c) <=> Has(T[q].children, c) /\ c # p
    BY <1>3, FreeMembers
  <1> HIDE DEF N
  <1>5. ASSUME NEW q \in Procs, Has(N.list, q)
        PROVE  /\ U[q].father # NULL => Has(N.list, U[q].father) /\ Has(U[U[q].father].children, q)
               /\ Injective(U[q].children)
               /\ \A c \in Procs : Has(U[q].children, c) => Has(N.list, c) /\ U[c].father = q
    <2>1. q # p /\ Has(M.list, q) /\ U[q].father = T[q].father
      BY <1>1, <1>2, <1>5 DEF SameBut
    <2>2. Injective(U[q].children)
      BY <1>4, <2>1
    <2>3. ASSUME NEW c \in Procs, Has(U[q].children, c) PROVE Has(N.list, c) /\ U[c].father = q
      <3>1. c # p /\ Has(T[q].children, c)
        BY <1>4, <2>1, <2>3
      <3>2. Has(M.list, c) /\ T[c].father = q
        BY <2>1, <3>1 DEF Family
      <3>3. QED BY <1>2, <3>1, <3>2 DEF SameBut
    <2>4. ASSUME U[q].father # NULL PROVE Has(N.list, U[q].father) /\ Has(U[U[q].father].children, q)
      <3> DEFINE f == T[q].father
      <3>1. f \in Procs
        BY <2>1, <2>4 DEF MachineInv, MachineType, Struct
      <3>2. Has(M.list, f) /\ Has(T[f].children, q)
        BY <2>1, <2>4 DEF Family
      <3> HIDE DEF f
      <3>3. f # p
        BY <1>3, <3>2
      <3>4. QED BY <1>2, <1>4, <2>1, <3>1, <3>2, <3>3 DEF f
    <2>5. QED BY <2>2, <2>3, <2>4
  <1>6. Family(N.proc, N.list)
    BY <1>5 DEF Family
  <1>7. ASSUME NEW q \in Procs, q # p, Has(M.list, q), CalmBut(T, q, p) PROVE Calm(U, q)
    <2> SUFFICES ASSUME NEW c \in Procs, Has(U[q].children, c), U[c].state = ZOMBIE
                 PROVE  U[q].waiting_pid # -1 /\ U[q].waiting_pid # U[c].pid
      BY DEF Calm
    <2>1. c # p /\ Has(T[q].children, c)
      BY <1>4, <1>7
    <2>2. SameBut(T[c], U[c]) /\ SameBut(T[q], U[q])
      BY <1>2, <1>7, <2>1
    <2>3. QED BY <1>7, <2>1, <2>2 DEF CalmBut, SameBut
  <1>8. QED BY <1>1, <1>6, <1>7 DEF N

\* A step that leaves the fathers and the children lists leaves the family.
LEMMA SameFamily ==
    ASSUME NEW T \in [Procs -> Struct], NEW U \in [Procs -> Struct], NEW l, Family(T, l),
           \A q \in Procs : U[q].father = T[q].father /\ U[q].children = T[q].children
    PROVE  Family(U, l)
  <1>1. \A q \in Procs : T[q].father \in Procs \cup {NULL}
    BY DEF Struct
  <1>2. QED BY <1>1 DEF Family

\* A calm process stays so while its children keep their pids, and none of
\* them becomes a zombie.
LEMMA StillCalm ==
    ASSUME NEW T, NEW U, NEW f \in Procs, Calm(T, f),
           U[f].children = T[f].children, U[f].waiting_pid = T[f].waiting_pid,
           \A c \in Procs : U[c].pid = T[c].pid /\ (U[c].state = ZOMBIE => T[c].state = ZOMBIE)
    PROVE  Calm(U, f)
  BY DEF Calm

\* Another struct takes the place of that of f: family and wakeups are kept if
\* it keeps its relations and its pid, is no new zombie, and is calm or heard
\* at least what was heard before.
LEMMA UpdateFamily ==
    ASSUME NEW M, MachineInv(M), FamilyInv(M), NEW N, MachineInv(N), ~N.bad, N.list = M.list,
           NEW f \in Procs, \A q \in Procs : q # f => N.proc[q] = M.proc[q],
           N.proc[f].father = M.proc[f].father, N.proc[f].children = M.proc[f].children,
           N.proc[f].pid = M.proc[f].pid,
           N.proc[f].state = ZOMBIE => M.proc[f].state = ZOMBIE,
           \/ Calm(N.proc, f)
           \/ /\ N.proc[f].waiting_pid = M.proc[f].waiting_pid
              /\ Deaf(N.proc[f]) => Deaf(M.proc[f])
    PROVE  FamilyInv(N)
  <1> DEFINE T == M.proc
             U == N.proc
  <1>1. T \in [Procs -> Struct] /\ U \in [Procs -> Struct]
    BY DEF MachineInv, MachineType
  <1>2. \A q \in Procs : /\ U[q].father = T[q].father /\ U[q].children = T[q].children
                         /\ U[q].pid = T[q].pid /\ (U[q].state = ZOMBIE => T[q].state = ZOMBIE)
    OBVIOUS
  <1>3. Family(U, N.list)
    BY <1>1, <1>2, SameFamily DEF FamilyInv
  <1>4. ASSUME KmallocOutcomes = {TRUE}, NEW g \in Procs, Has(N.list, g), Deaf(U[g]) PROVE Calm(U, g)
    <2>1. CASE g = f /\ Calm(U, f)
      BY <2>1
    <2>2. CASE ~(g = f /\ Calm(U, f))
      <3>1. Deaf(T[g]) /\ U[g].waiting_pid = T[g].waiting_pid
        BY <1>4, <2>2
      <3>2. Calm(T, g)
        BY <1>4, <3>1 DEF FamilyInv, Wake
      <3> HIDE DEF T, U
      <3>3. QED BY <1>2, <3>1, <3>2, StillCalm
    <2>3. QED BY <2>1, <2>2
  <1>5. QED BY <1>3, <1>4 DEF FamilyInv, Wake

-----------------------------------------------------------------------------
(* Signals *)

\* add_signal loses no SIGCHLD that is queued, and leaves one queued unless it
\* is refused for want of memory or because the process is a zombie.
LEMMA AddSignalPending ==
    ASSUME NEW P \in Struct, StructInv(P), NEW sig \in Sigs \cup {0},
           NEW hard \in BOOLEAN, NEW ok \in BOOLEAN
    PROVE  LET Q == add_signal(P, sig, hard, ok)
           IN  /\ Q.waiting_pid = P.waiting_pid
               /\ Pending(P) => Pending(Q)
               /\ sig = SIGCHLD /\ ~hard /\ ok /\ P.state # ZOMBIE => Pending(Q)
  <1> DEFINE Q == add_signal(P, sig, hard, ok)
             e == [sig |-> sig, hard |-> hard]
             q == IF hard THEN <<e>> \o P.sig_queue ELSE Append(P.sig_queue, e)
             m == P.sig_avalaible \cup blocked_sig(sig)
  <1>1. P.sig_queue \in Seq(Entry) /\ Len(P.sig_queue) \in Nat
    BY DEF Struct
  <1>2. ASSUME Q # P
        PROVE  Q.waiting_pid = P.waiting_pid /\ (Pending(P) => Pending(Q)) /\ (sig = SIGCHLD => Pending(Q))
    <2>1. sig \in Sigs /\ Q = [P EXCEPT !.sig_queue = q, !.sig_avalaible = m]
      BY <1>2 DEF add_signal
    <2>2. e \in Entry
      BY <2>1 DEF Entry
    <2>3. Q.waiting_pid = P.waiting_pid /\ Q.sig_queue = q
      BY <2>1 DEF Struct
    <2>4. \E i \in 1..Len(q) : q[i].sig = sig
      <3>1. CASE hard
        <4>1. q = <<e>> \o P.sig_queue
          BY <3>1
        <4>2. Len(q) \in Nat /\ Len(q) >= 1 /\ q[1] = e
          BY <1>1, <2>2, <4>1
        <4>3. QED BY <4>2
      <3>2. CASE ~hard
        <4>1. q = Append(P.sig_queue, e)
          BY <3>2
        <4>2. Len(q) \in Nat /\ Len(q) >= 1 /\ q[Len(q)] = e
          BY <1>1, <2>2, <4>1
        <4>3. QED BY <4>2
      <3>3. QED BY <3>1, <3>2
    <2>5. ASSUME NEW i \in 1..Len(P.sig_queue) PROVE \E j \in 1..Len(q) : q[j] = P.sig_queue[i]
      <3>1. CASE hard
        <4>1. /\ Len(<<e>> \o P.sig_queue) = 1 + Len(P.sig_queue)
              /\ (<<e>> \o P.sig_queue)[i + 1] = P.sig_queue[(i + 1) - 1]
          BY <1>1, <2>2, ConcatProperties
        <4>2. q = <<e>> \o P.sig_queue
          BY <3>1
        <4> HIDE DEF q, e
        <4>3. i + 1 \in 1..Len(q) /\ q[i + 1] = P.sig_queue[i]
          BY <1>1, <4>1, <4>2
        <4>4. QED BY <4>3
      <3>2. CASE ~hard
        BY <1>1, <2>2, <3>2
      <3>3. QED BY <3>1, <3>2
    <2> HIDE DEF q, Q
    <2>6. QED BY <2>3, <2>4, <2>5 DEF Pending
  <1>3. ASSUME Q = P, sig = SIGCHLD, ~hard, ok, P.state # ZOMBIE PROVE Pending(P)
    <2>1. CASE SIG_UNAVAILABLE(P.sig_avalaible, sig)
      <3>1. SIGCHLD \in P.sig_avalaible
        BY <1>3, <2>1 DEF SIG_UNAVAILABLE, SIGCHLD
      <3>2. PICK i \in 1..Len(P.sig_queue) : SIGCHLD \in blocked_sig(P.sig_queue[i].sig)
        BY <1>3, <3>1 DEF StructInv, Covered
      <3>3. P.sig_queue[i].sig = SIGCHLD
        BY <3>2 DEF blocked_sig, SIGCHLD, SIGKILL, SIGSTOP, SIGUSR2, SIGHUP, MaxSig
      <3>4. QED BY <3>3 DEF Pending
    <2>2. CASE ~SIG_UNAVAILABLE(P.sig_avalaible, sig)
      <3>1. P = [P EXCEPT !.sig_queue = Append(@, e), !.sig_avalaible = m]
        BY <1>3, <2>2 DEF add_signal, SIGCHLD
      <3>2. P.sig_queue = Append(P.sig_queue, e)
        BY <3>1 DEF Struct
      <3>3. e \in Entry
        BY <1>3, SigAssumption DEF Entry
      <3>4. Len(P.sig_queue) = Len(P.sig_queue) + 1
        BY <1>1, <3>2, <3>3
      <3>5. QED BY <1>1, <3>4
    <2>3. QED BY <2>1, <2>2
  <1>4. QED BY <1>2, <1>3

\* add_signal on a struct in the table keeps family and wakeups.
LEMMA AddSignalFamily ==
    ASSUME NEW P \in Struct, StructInv(P), NEW sig \in Sigs \cup {0},
           NEW hard \in BOOLEAN, NEW ok \in BOOLEAN
    PROVE  LET Q == add_signal(P, sig, hard, ok)
           IN  /\ Q.father = P.father /\ Q.children = P.children /\ Q.pid = P.pid
               /\ Q.state = P.state /\ Q.waiting_pid = P.waiting_pid
               /\ Deaf(Q) => Deaf(P)
               /\ Alike(P, Q)
  <1> DEFINE Q == add_signal(P, sig, hard, ok)
  <1>1. /\ Q.father = P.father /\ Q.children = P.children /\ Q.pid = P.pid
        /\ Q.state = P.state /\ Q.sig_handler = P.sig_handler
    BY AddSignal
  <1>2. Q.waiting_pid = P.waiting_pid /\ (Pending(P) => Pending(Q))
    BY AddSignalPending
  <1>3. Q.end_value = P.end_value
    BY DEF add_signal, Struct
  <1> HIDE DEF Q
  <1>4. Deaf(Q) => Deaf(P)
    BY <1>1, <1>2 DEF Deaf
  <1>5. Alike(P, Q)
    BY <1>1, <1>3 DEF Alike
  <1>6. QED BY <1>1, <1>2, <1>4, <1>5 DEF Q

-----------------------------------------------------------------------------
(* Death and waiting *)

\* process_die_safe frees no process but p and reads no freed memory; family
\* and wakeups are kept unless it frees a process with children.
LEMMA DieFamily ==
    ASSUME NEW M, MachineInv(M), FamilyInv(M), NEW p \in Procs, Has(M.list, p),
           M.proc[p].state # ZOMBIE, NEW ok \in BOOLEAN, KmallocOutcomes = {TRUE} => ok
    PROVE  LET N == process_die_safe(M, p, ok)
           IN  /\ \A q \in Procs : q # p => (Has(N.list, q) <=> Has(M.list, q))
               /\ FamilyInv(N) \/ (~Has(N.list, p) /\ M.proc[p].children # <<>>)
               /\ ~N.bad /\ Effect(M.proc, M.list, N.proc, N.list, p)
  <1> DEFINE father == M.proc[p].father
             M1 == DeadAlone(M, p)
             M2 == DeadChild(M, p, ok)
             Z == Dead(M.proc[p])
             F == Told(M, p, ok)
             N == process_die_safe(M, p, ok)
  <1>1. /\ M \in MachineType /\ M.proc \in [Procs -> Struct] /\ M.list \in Seq(Procs)
        /\ M.bad = FALSE /\ father \in Procs \cup {NULL} /\ father # p
        /\ Family(M.proc, M.list) /\ Wake(M.proc, M.list)
    BY DEF MachineInv, MachineType, Struct, FamilyInv
  <1>2. /\ MachineInv(M1) /\ M1.bad = FALSE /\ M1.list = M.list /\ M1.proc[p] = Z
        /\ \A q \in Procs : q # p => M1.proc[q] = M.proc[q]
        /\ Z.father = father /\ Z.pid = M.proc[p].pid
        /\ Z.children = M.proc[p].children /\ Z.state = ZOMBIE
        /\ Z.sig_handler = M.proc[p].sig_handler
    <2>1. ~M1.bad /\ MachineInv(M1)
      BY <1>1, Dying
    <2>2. M1.bad = FALSE
      BY <2>1 DEF MachineInv, MachineType
    <2>3. /\ M1.list = M.list /\ M1.proc[p] = Z
          /\ \A q \in Procs : q # p => M1.proc[q] = M.proc[q]
      BY <1>1, Dying
    <2>4. /\ Z.father = father /\ Z.pid = M.proc[p].pid
          /\ Z.children = M.proc[p].children /\ Z.state = ZOMBIE
      BY <1>1, Dying
    <2>5. Z.sig_handler = M.proc[p].sig_handler
      BY <1>1 DEF Dead, Struct
    <2>6. QED BY <2>1, <2>2, <2>3, <2>4, <2>5
  <1>3. ASSUME father # NULL
        PROVE  /\ MachineInv(M2) /\ M2.bad = FALSE /\ M2.list = M.list /\ M2.proc[p] = Z
               /\ M2.proc[father] = F
               /\ \A q \in Procs : q # p /\ q # father => M2.proc[q] = M.proc[q]
    BY <1>1, <1>3, Dying DEF MachineInv, MachineType
  <1>4. ASSUME father # NULL
        PROVE  /\ F.father = M.proc[father].father /\ F.children = M.proc[father].children
               /\ F.pid = M.proc[father].pid /\ F.state = M.proc[father].state
               /\ F.waiting_pid = M.proc[father].waiting_pid
               /\ Deaf(F) => Deaf(M.proc[father])
               /\ ok /\ F.state # ZOMBIE => Pending(F)
               /\ Alike(M.proc[father], F)
    <2>1. father \in Procs /\ M.proc[father] \in Struct /\ StructInv(M.proc[father])
      BY <1>1, <1>4 DEF MachineInv
    <2>2. SIGCHLD \in Sigs \cup {0} /\ FALSE \in BOOLEAN BY SigAssumption
    <2> DEFINE G == add_signal(M.proc[father], SIGCHLD, FALSE, ok)
    <2>3. /\ G.father = M.proc[father].father /\ G.children = M.proc[father].children
          /\ G.pid = M.proc[father].pid /\ G.state = M.proc[father].state
          /\ G.waiting_pid = M.proc[father].waiting_pid
          /\ Deaf(G) => Deaf(M.proc[father])
          /\ Alike(M.proc[father], G)
      BY <2>1, <2>2, AddSignalFamily, ZenonT(40)
    <2>4. ok /\ M.proc[father].state # ZOMBIE => Pending(G)
      BY <2>1, <2>2, AddSignalPending
    <2>5. F = G
      BY DEF Told
    <2> HIDE DEF F, G
    <2>6. QED BY <2>3, <2>4, <2>5
  \* Any of the two tables, with p still on it, and then p freed.
  <1>5. ASSUME NEW K, MachineInv(K), K.bad = FALSE, K.list = M.list, K.proc[p] = Z,
               \A q \in Procs : q # p =>
                   /\ K.proc[q].father = M.proc[q].father /\ K.proc[q].children = M.proc[q].children
                   /\ K.proc[q].pid = M.proc[q].pid /\ K.proc[q].state = M.proc[q].state
                   /\ K.proc[q].waiting_pid = M.proc[q].waiting_pid
                   /\ Deaf(K.proc[q]) => Deaf(M.proc[q])
                   /\ Alike(M.proc[q], K.proc[q])
        PROVE  /\ Family(K.proc, K.list)
               /\ \A q \in Procs : KmallocOutcomes = {TRUE} /\ q # p /\ Has(M.list, q) /\ Deaf(K.proc[q])
                                     => CalmBut(K.proc, q, p)
               /\ LET L == free_process(K, p)
                  IN  /\ \A q \in Procs : q # p => (Has(L.list, q) <=> Has(M.list, q))
                      /\ FamilyInv(L) \/ (~Has(L.list, p) /\ M.proc[p].children # <<>>)
                      /\ ~L.bad /\ Goes(M.proc, M.list, L.proc, L.list, p)
    <2> DEFINE L == free_process(K, p)
    <2> HIDE DEF father, Z
    <2>1. K.proc \in [Procs -> Struct]
      BY <1>5 DEF MachineInv, MachineType
    <2>2. Family(K.proc, K.list)
      BY <1>1, <1>2, <1>5, <2>1, SameFamily DEF father
    <2>3. ASSUME KmallocOutcomes = {TRUE}, NEW q \in Procs, q # p, Has(M.list, q), Deaf(K.proc[q])
          PROVE  CalmBut(K.proc, q, p)
      <3>1. Calm(M.proc, q)
        BY <1>1, <1>5, <2>3 DEF Wake
      <3>2. QED BY <1>5, <2>3, <3>1 DEF Calm, CalmBut
    <2>4. Others(K, L, p)
      BY <1>5, FreeProcess
    <2>5. \A q \in Procs : q # p => (Has(L.list, q) <=> Has(M.list, q))
      BY <1>5, <2>4 DEF Others
    <2>6. ~L.bad /\ ~Has(L.list, p)
      BY <1>5, <2>2, FreeMembers
    <2>7. ASSUME M.proc[p].children = <<>> PROVE FamilyInv(L)
      <3>1. /\ Family(L.proc, L.list)
            /\ \A q \in Procs : q # p /\ Has(K.list, q) /\ CalmBut(K.proc, q, p) => Calm(L.proc, q)
        BY <1>2, <1>5, <2>2, <2>7, FreeFamily DEF Z
      <3>2. ASSUME KmallocOutcomes = {TRUE}, NEW q \in Procs, Has(L.list, q), Deaf(L.proc[q])
            PROVE  Calm(L.proc, q)
        <4>1. q # p /\ Has(M.list, q)
          BY <2>5, <2>6, <3>2
        <4>2. Deaf(K.proc[q])
          BY <2>4, <3>2, <4>1 DEF Others, SameBut, Deaf, Pending
        <4>3. QED BY <1>5, <2>3, <3>1, <3>2, <4>1, <4>2
      <3>3. QED BY <2>6, <3>1, <3>2 DEF FamilyInv, Wake
    <2>8. L.proc[p].pid = 0
      <3>1. K.proc[p].father # NULL => Has(K.list, K.proc[p].father)
        BY <1>5, <2>2 DEF Family
      <3>2. L.proc[p] = process_new
        BY <1>5, <3>1, FreeChildren
      <3> HIDE DEF L
      <3>3. QED BY <3>2, NewStruct
    <2>9. Goes(M.proc, M.list, L.proc, L.list, p)
      <3> HIDE DEF L
      <3>1. AlikeBut(M.proc, M.list, L.proc, p)
        <4> SUFFICES ASSUME NEW q \in Procs, q # p PROVE Alike(M.proc[q], L.proc[q])
          BY DEF AlikeBut
        <4>1. Alike(M.proc[q], K.proc[q])
          BY <1>5
        <4>2. SameBut(K.proc[q], L.proc[q])
          BY <2>4 DEF Others
        <4>3. QED BY <4>1, <4>2, SameAlike, AlikeTrans
      <3>2. \A q \in Procs : Has(L.list, q) <=> Has(M.list, q) /\ q # p
        BY <2>5, <2>6
      <3>3. QED BY <2>8, <3>1, <3>2 DEF Goes
    <2>10. QED BY <2>2, <2>3, <2>5, <2>6, <2>7, <2>9
  <1>6. CASE father = NULL
    <2>1. N = free_process(M1, p)
      BY <1>6, DieSafeDef
    <2>2. \A q \in Procs : q # p => Alike(M.proc[q], M1.proc[q])
      BY <1>2 DEF Alike
    <2> HIDE DEF M1, Z, N
    <2>3. /\ \A q \in Procs : q # p => (Has(N.list, q) <=> Has(M.list, q))
          /\ FamilyInv(N) \/ (~Has(N.list, p) /\ M.proc[p].children # <<>>)
          /\ ~N.bad /\ Goes(M.proc, M.list, N.proc, N.list, p)
      BY <1>2, <1>5, <2>1, <2>2
    <2>4. ~Minded(M.proc, p) /\ Acts(M.proc, M.list, p)
      BY <1>6 DEF Minded, Acts, father
    <2>5. Effect(M.proc, M.list, N.proc, N.list, p)
      BY <2>3, <2>4 DEF Effect
    <2>6. QED BY <2>3, <2>5 DEF N
  <1>7. CASE father # NULL
    <2>1. father \in Procs /\ Has(M.list, father) /\ father \in Live(M)
      BY <1>1, <1>7 DEF Family, Live
    <2>2. N = IF M.proc[father].sig_handler[SIGCHLD] # "NULL" THEN free_process(M2, p) ELSE M2
      BY <1>7, <2>1, DieSafeDef
    <2>9. Minded(M.proc, p) <=> M.proc[father].sig_handler[SIGCHLD] = "NULL"
      BY <1>7 DEF Minded
    <2>10. Acts(M.proc, M.list, p)
      BY DEF Acts
    <2> HIDE DEF M2, Z, F, N
    <2>3. \A q \in Procs : q # p =>
              /\ M2.proc[q].father = M.proc[q].father /\ M2.proc[q].children = M.proc[q].children
              /\ M2.proc[q].pid = M.proc[q].pid /\ M2.proc[q].state = M.proc[q].state
              /\ M2.proc[q].waiting_pid = M.proc[q].waiting_pid
              /\ Deaf(M2.proc[q]) => Deaf(M.proc[q])
              /\ Alike(M.proc[q], M2.proc[q])
      <3>1. \A q \in Procs : Alike(M.proc[q], M.proc[q])
        BY DEF Alike
      <3>2. QED BY <1>3, <1>4, <1>7, <3>1
    <2>4. CASE N = free_process(M2, p) /\ ~Minded(M.proc, p)
      <3>1. /\ \A q \in Procs : q # p => (Has(N.list, q) <=> Has(M.list, q))
            /\ FamilyInv(N) \/ (~Has(N.list, p) /\ M.proc[p].children # <<>>)
            /\ ~N.bad /\ Goes(M.proc, M.list, N.proc, N.list, p)
        BY <1>3, <1>5, <1>7, <2>3, <2>4
      <3>2. Effect(M.proc, M.list, N.proc, N.list, p)
        BY <2>4, <2>10, <3>1 DEF Effect
      <3>3. QED BY <3>1, <3>2 DEF N
    <2>5. CASE N = M2 /\ Minded(M.proc, p)
      <3>1. /\ Family(M2.proc, M2.list)
            /\ \A q \in Procs : KmallocOutcomes = {TRUE} /\ q # p /\ Has(M.list, q) /\ Deaf(M2.proc[q])
                                  => CalmBut(M2.proc, q, p)
        BY <1>3, <1>5, <1>7, <2>3
      <3>2. ASSUME KmallocOutcomes = {TRUE}, NEW q \in Procs, Has(M2.list, q), Deaf(M2.proc[q])
            PROVE  Calm(M2.proc, q)
        <4>1. q # p
          BY <1>2, <1>3, <1>7, <3>2 DEF Deaf
        <4>2. q # father
          BY <1>3, <1>4, <1>7, <3>2 DEF Deaf
        <4>3. ~Has(M2.proc[q].children, p)
          <5>1. M2.proc[p].father = father
            BY <1>2, <1>3, <1>7
          <5>2. QED BY <3>1, <3>2, <4>2, <5>1 DEF Family
        <4>4. CalmBut(M2.proc, q, p)
          BY <1>3, <1>7, <3>1, <3>2, <4>1
        <4>5. QED BY <4>3, <4>4 DEF Calm, CalmBut
      <3>3. FamilyInv(M2)
        BY <1>3, <1>7, <3>1, <3>2 DEF FamilyInv, Wake
      <3>4. Ends(M.proc, M.list, M2.proc, M2.list, p)
        <4>1. AlikeBut(M.proc, M.list, M2.proc, p)
          BY <2>3 DEF AlikeBut
        <4>2. SameMembers(M.list, M2.list)
          BY <1>3, <1>7 DEF SameMembers
        <4>3. /\ M2.proc[p].pid = M.proc[p].pid /\ M2.proc[p].father = M.proc[p].father
              /\ M2.proc[p].state = ZOMBIE /\ M2.proc[p].sig_handler = M.proc[p].sig_handler
          BY <1>2, <1>3, <1>7 DEF father
        <4>4. QED BY <4>1, <4>2, <4>3 DEF Ends
      <3>5. Effect(M.proc, M.list, M2.proc, M2.list, p)
        BY <2>5, <2>10, <3>4 DEF Effect
      <3>6. M2.list = M.list /\ ~M2.bad
        BY <1>3, <1>7
      <3>7. QED BY <2>5, <3>3, <3>5, <3>6 DEF N
    <2>6. QED BY <2>2, <2>4, <2>5, <2>9
  <1>8. QED BY <1>6, <1>7

\* The zombie c is taken off the list, and nobody else; its father f gets its pid,
\* runs, and keeps its other children.
Reaps(M, N, c, f) ==
    /\ Acts(M.proc, M.list, f) /\ ~N.bad
    /\ M.proc[c].state = ZOMBIE /\ M.proc[c].father = f
    /\ Goes(M.proc, M.list, N.proc, N.list, c)
    /\ N.proc[f].waiting_pid = M.proc[c].pid /\ N.proc[f].state = RUN
    /\ \A x \in Procs : x # c =>
         (Has(N.proc[f].children, x) <=>
             Has(M.proc[f].children, x) \/ (M.proc[f].pid = PROC_MIN_PID /\ Has(M.proc[c].children, x)))

\* What changes nothing but hidden fields of f leaves the reaping as it was.
LEMMA ReapsAfter ==
    ASSUME NEW M, NEW N, NEW K, NEW c \in Procs, NEW f \in Procs, Reaps(M, N, c, f),
           K.list = N.list, ~K.bad, K.proc[f].children = N.proc[f].children,
           K.proc[f].state = N.proc[f].state, K.proc[f].waiting_pid = N.proc[f].waiting_pid,
           AllAlike(N.proc, K.proc)
    PROVE  Reaps(M, K, c, f)
  <1>1. \A q \in Procs : Alike(N.proc[q], K.proc[q])
    BY DEF AllAlike
  <1>2. Goes(M.proc, M.list, N.proc, N.list, c)
    BY DEF Reaps
  <1>3. AlikeBut(M.proc, M.list, K.proc, c)
    BY <1>1, <1>2, AlikeTrans DEF Goes, AlikeBut
  <1>4. K.proc[c].pid = 0
    BY <1>1, <1>2 DEF Goes, Alike
  <1>5. Goes(M.proc, M.list, K.proc, K.list, c)
    BY <1>2, <1>3, <1>4 DEF Goes
  <1>6. QED BY <1>5 DEF Reaps

\* end_of_child reaps its child.  If that had no children itself the family
\* stays in order, and the father waits for none of its zombies.
LEMMA EndOfChildFamily ==
    ASSUME NEW M, MachineInv(M), FamilyInv(M), NEW f \in Procs, Has(M.list, f),
           M.proc[f].state # ZOMBIE, NEW c \in Procs, Has(M.list, c),
           M.proc[c].state = ZOMBIE, M.proc[c].father = f
    PROVE  LET N == end_of_child(M, c, f)
           IN  /\ Reaps(M, N, c, f)
               /\ M.proc[c].children = <<>> => FamilyInv(N) /\ Calm(N.proc, f)
  <1> DEFINE C == M.proc[c]
             P0 == [M.proc[f] EXCEPT !.waiting_return = C.end_value, !.waiting_pid = C.pid]
             M0 == [M EXCEPT !.proc[f].waiting_return = C.end_value, !.proc[f].waiting_pid = C.pid]
             M1 == free_process(M0, c)
             P2 == [M1.proc[f] EXCEPT !.state = RUN]
             M2 == [M1 EXCEPT !.proc[f].state = RUN]
             N == end_of_child(M, c, f)
  <1>1. /\ M \in MachineType /\ M.proc \in [Procs -> Struct] /\ M.list \in Seq(Procs)
        /\ M.bad = FALSE /\ M.proc[f] \in Struct /\ C \in Struct
        /\ Family(M.proc, M.list) /\ Wake(M.proc, M.list)
    BY DEF MachineInv, MachineType, FamilyInv
  <1>2. c # f /\ C.pid \in Int /\ C.pid # -1 /\ C.pid \in Pids
    <2>1. c # f /\ C.pid \in Pids BY DEF MachineInv, ListInv
    <2>2. QED BY <2>1, PidAssumption DEF Pids
  <1>3. /\ P0 \in Struct /\ StructInv(P0) /\ P0.father = M.proc[f].father /\ P0.pid = M.proc[f].pid
        /\ P0.state = M.proc[f].state /\ P0.children = M.proc[f].children
        /\ P0.sig_queue = M.proc[f].sig_queue /\ P0.sig_handler = M.proc[f].sig_handler
        /\ P0.waiting_pid = C.pid /\ P0.end_value = M.proc[f].end_value
    <2>1. C.end_value \in Int
      BY <1>1 DEF Struct
    <2>2. StructInv(M.proc[f])
      BY DEF MachineInv
    <2> HIDE DEF C
    <2>3. QED BY <1>1, <1>2, <2>1, <2>2 DEF Struct, StructInv
  <1>4. M0 = [M EXCEPT !.proc = [M.proc EXCEPT ![f] = P0]]
    BY <1>1
  <1> HIDE DEF P0
  <1>5. /\ M0 \in MachineType /\ M0.list = M.list /\ M0.proc[f] = P0 /\ M0.bad = FALSE
        /\ \A q \in Procs : q # f => M0.proc[q] = M.proc[q]
    <2>1. P0 \in Struct
      BY <1>3
    <2>2. M \in MachineType /\ M.bad = FALSE
      BY <1>1
    <2> HIDE DEF M0
    <2>3. QED BY <1>4, <2>1, <2>2 DEF MachineType
  <1> HIDE DEF M0
  <1>6. MachineInv(M0)
    <2>1. P0.father # f BY <1>3 DEF MachineInv
    <2>2. QED BY <1>3, <1>5, <2>1, Update
  <1>7. M0.proc[c] = C
    BY <1>2, <1>5
  <1>8. Family(M0.proc, M0.list)
    <2>1. M0.proc \in [Procs -> Struct]
      BY <1>5 DEF MachineType
    <2>2. QED BY <1>1, <1>3, <1>5, <2>1, SameFamily
  <1>9. /\ ~M1.bad /\ ~Has(M1.list, c)
        /\ \A x \in Procs : Has(M1.proc[f].children, x) <=>
               \/ Has(M0.proc[f].children, x) /\ x # c
               \/ M0.proc[f].pid = PROC_MIN_PID /\ Has(M0.proc[c].children, x)
    BY <1>2, <1>5, <1>6, <1>8, FreeMembers
  <1>10. MachineInv(M1) /\ Others(M0, M1, c)
    BY <1>5, <1>6, FreeProcess
  <1>11. ASSUME C.children = <<>>
         PROVE  /\ Family(M1.proc, M1.list)
                /\ \A q \in Procs : q # c /\ Has(M0.list, q) /\ CalmBut(M0.proc, q, c) => Calm(M1.proc, q)
    BY <1>5, <1>6, <1>7, <1>8, <1>11, FreeFamily, SMTT(30)
  <1>12. N = M2
    BY <1>9 DEF end_of_child, M1, M0
  <1> HIDE DEF M1, N
  <1>13. /\ M1 \in MachineType /\ M1.proc \in [Procs -> Struct] /\ M1.proc[f] \in Struct
         /\ M1.bad = FALSE /\ SameBut(P0, M1.proc[f]) /\ Has(M1.list, f)
         /\ StructInv(M1.proc[f]) /\ M1.proc[f].father # f
    BY <1>2, <1>5, <1>9, <1>10 DEF MachineInv, MachineType, Others
  <1>14. /\ P2 \in Struct /\ P2.father = M1.proc[f].father /\ P2.pid = M1.proc[f].pid
         /\ P2.children = M1.proc[f].children /\ P2.waiting_pid = M1.proc[f].waiting_pid
         /\ P2.state = RUN /\ P2.end_value = M1.proc[f].end_value
         /\ P2.sig_handler = M1.proc[f].sig_handler
    BY <1>13 DEF Struct
  <1>15. M2 = [M1 EXCEPT !.proc = [M1.proc EXCEPT ![f] = P2]]
    BY <1>13
  <1> HIDE DEF P2, M2
  <1>16. /\ M2 \in MachineType /\ M2.list = M1.list /\ M2.proc[f] = P2 /\ M2.bad = FALSE
         /\ \A q \in Procs : q # f => M2.proc[q] = M1.proc[q]
    BY <1>13, <1>14, <1>15 DEF MachineType
  <1>17. MachineInv(N)
    BY <1>1, <1>2, EndOfChild DEF N
  <1>18. Reaps(M, N, c, f)
    <2>1. \A q \in Procs : Has(N.list, q) <=> Has(M.list, q) /\ q # c
      BY <1>5, <1>9, <1>10, <1>12, <1>16 DEF Others
    <2>2. N.proc[f].waiting_pid = C.pid /\ N.proc[f].state = RUN
      BY <1>3, <1>12, <1>13, <1>14, <1>16 DEF SameBut
    <2>3. \A x \in Procs : x # c =>
            (Has(N.proc[f].children, x) <=>
               Has(M.proc[f].children, x) \/ (M.proc[f].pid = PROC_MIN_PID /\ Has(C.children, x)))
      BY <1>3, <1>5, <1>7, <1>9, <1>12, <1>14, <1>16
    <2>4. N.proc[c].pid = 0
      <3>1. M0.proc[c].father # NULL => Has(M0.list, M0.proc[c].father)
        BY <1>5, <1>7
      <3>2. M1.proc[c] = process_new
        BY <1>5, <1>6, <3>1, FreeChildren DEF M1
      <3>3. QED BY <1>2, <1>12, <1>16, <3>2, NewStruct
    <2>5. AlikeBut(M.proc, M.list, N.proc, c)
      <3> SUFFICES ASSUME NEW q \in Procs, q # c PROVE Alike(M.proc[q], N.proc[q])
        BY DEF AlikeBut
      <3>1. SameBut(M0.proc[q], M1.proc[q])
        BY <1>10 DEF Others
      <3>2. CASE q # f
        BY <1>5, <1>12, <1>16, <3>1, <3>2, SameAlike
      <3>3. CASE q = f
        <4>1. /\ P2.pid = P0.pid /\ P2.father = P0.father /\ P2.state = RUN
              /\ P2.sig_handler = P0.sig_handler
          BY <1>13, <1>14 DEF SameBut
        <4>2. Alike(M.proc[f], P2)
          BY <1>3, <4>1 DEF Alike, RUN, ZOMBIE
        <4>3. QED BY <1>12, <1>16, <3>3, <4>2
      <3>4. QED BY <3>2, <3>3
    <2>6. Goes(M.proc, M.list, N.proc, N.list, c)
      BY <2>1, <2>4, <2>5 DEF Goes
    <2>7. ~N.bad /\ Acts(M.proc, M.list, f)
      BY <1>12, <1>16 DEF Acts
    <2>8. QED BY <2>2, <2>3, <2>6, <2>7 DEF Reaps
  <1>19. ASSUME C.children = <<>> PROVE FamilyInv(N) /\ Calm(N.proc, f)
    <2>1. CalmBut(M0.proc, f, c)
      <3> SUFFICES ASSUME NEW x \in Procs, x # c, Has(M0.proc[f].children, x)
                   PROVE  C.pid # M0.proc[x].pid
        BY <1>2, <1>3, <1>5 DEF CalmBut
      <3>1. Has(M.list, x)
        BY <1>5, <1>8 DEF Family
      <3>2. M0.proc[x].pid = M.proc[x].pid
        BY <1>3, <1>5
      <3>3. QED BY <3>1, <3>2 DEF MachineInv, ListInv
    <2>2. Calm(M1.proc, f)
      BY <1>2, <1>5, <1>11, <1>19, <2>1
    <2>3. ASSUME KmallocOutcomes = {TRUE}, NEW g \in Procs, g # f, Has(M1.list, g), Deaf(M1.proc[g])
          PROVE  Calm(M1.proc, g)
      <3>1. g # c /\ Has(M.list, g) /\ SameBut(M.proc[g], M1.proc[g])
        BY <1>5, <1>9, <1>10, <2>3 DEF Others
      <3>2. Deaf(M.proc[g])
        BY <2>3, <3>1 DEF SameBut, Deaf, Pending
      <3>3. Calm(M.proc, g)
        BY <1>1, <2>3, <3>1, <3>2 DEF Wake
      <3>4. CalmBut(M0.proc, g, c)
        BY <1>3, <1>5, <2>3, <3>3 DEF Calm, CalmBut
      <3>5. QED BY <1>5, <1>11, <1>19, <3>1, <3>4
    <2>4. FamilyInv(M1)
      BY <1>11, <1>13, <1>19, <2>2, <2>3 DEF FamilyInv, Wake
    <2>5. N.proc[f].state # ZOMBIE
      BY <1>12, <1>14, <1>16 DEF RUN, ZOMBIE
    <2>6. Calm(N.proc, f)
      <3>1. \A x \in Procs : N.proc[x].pid = M1.proc[x].pid /\ (N.proc[x].state = ZOMBIE => M1.proc[x].state = ZOMBIE)
        BY <1>12, <1>14, <1>16, <2>5
      <3>2. N.proc[f].children = M1.proc[f].children /\ N.proc[f].waiting_pid = M1.proc[f].waiting_pid
        BY <1>12, <1>14, <1>16
      <3>3. QED BY <2>2, <3>1, <3>2, StillCalm
    <2>7. FamilyInv(N)
      BY <1>10, <1>12, <1>14, <1>16, <1>17, <2>4, <2>5, <2>6, UpdateFamily
    <2>8. QED BY <2>6, <2>7
  <1>20. QED BY <1>18, <1>19 DEF N

\* Along the children of a process nobody is dead, so Walk finds the first one
\* wanted, or there is none.
LEMMA WalkFamily ==
    ASSUME NEW M \in MachineType, Family(M.proc, M.list), NEW f \in Procs, Has(M.list, f),
           NEW wanted
    PROVE  LET c == Walk(M, f, wanted)
           IN  \/ c = NULL /\ \A x \in Procs : Has(M.proc[f].children, x) => x \notin wanted
               \/ /\ c \in Procs /\ c \in wanted /\ Has(M.proc[f].children, c)
                  /\ Has(M.list, c) /\ M.proc[c].father = f
  <1> DEFINE ch == M.proc[f].children
             stop == {i \in 1..Len(ch) : /\ ch[i] \notin Live(M) \/ ch[i] \in wanted
                                         /\ \A j \in 1..(i - 1) : /\ ch[j] \in Live(M)
                                                                  /\ ch[j] \notin wanted}
             S == {i \in 1..Len(ch) : ch[i] \in wanted}
             k == CHOOSE i \in stop : TRUE
  <1>1. ch \in Seq(Procs) /\ Len(ch) \in Nat
    BY DEF MachineType, Struct
  <1>2. \A i \in 1..Len(ch) : ch[i] \in Procs /\ Has(ch, ch[i]) /\ ch[i] \in Live(M)
    <2> TAKE i \in 1..Len(ch)
    <2>1. ch[i] \in Procs /\ Has(ch, ch[i])
      BY <1>1 DEF Has
    <2>2. QED BY <2>1 DEF Family, Live
  <1>3. CASE stop = {}
    <2>1. Walk(M, f, wanted) = NULL
      BY <1>3 DEF Walk
    <2>2. S = {}
      <3> SUFFICES ASSUME S # {} PROVE FALSE
        OBVIOUS
      <3>1. S \subseteq Nat
        BY <1>1
      <3>2. PICK i \in S : \A y \in S : i <= y
        BY <3>1, LeastNatural
      <3>3. \A j \in 1..(i - 1) : j \in 1..Len(ch) /\ ~(i <= j)
        BY <1>1, <3>2
      <3>4. i \in stop
        BY <1>2, <3>2, <3>3
      <3>5. QED BY <1>3, <3>4
    <2>3. QED BY <2>1, <2>2 DEF Has
  <1>4. CASE stop # {}
    <2>1. k \in stop
      BY <1>4
    <2>2. Walk(M, f, wanted) = ch[k]
      BY <1>4, SMTT(30) DEF Walk
    <2>3. k \in 1..Len(ch) /\ (ch[k] \notin Live(M) \/ ch[k] \in wanted)
      BY <2>1
    <2> HIDE DEF k, stop
    <2>4. ch[k] \in Procs /\ Has(ch, ch[k]) /\ ch[k] \in wanted
      BY <1>2, <2>3
    <2>5. Has(M.list, ch[k]) /\ M.proc[ch[k]].father = f
      BY <2>4 DEF Family
    <2> HIDE DEF ch
    <2>6. QED BY <2>2, <2>4, <2>5 DEF ch
  <1>5. QED BY <1>3, <1>4

\* child_ended reads no freed memory.  It finds no zombie the process waits
\* for, or reaps one.
LEMMA ChildEndedFamily ==
    ASSUME NEW M, MachineInv(M), FamilyInv(M), NEW f \in Procs, Has(M.list, f),
           M.proc[f].state # ZOMBIE
    PROVE  LET N == child_ended(M, f)
           IN  \/ N = M /\ Calm(M.proc, f)
               \/ \E c \in Procs : /\ Reaps(M, N, c, f)
                                   /\ M.proc[c].children = <<>> => FamilyInv(N) /\ Calm(N.proc, f)
  <1> DEFINE w == M.proc[f].waiting_pid
             wanted == {c \in Live(M) : M.proc[c].state = ZOMBIE /\ (w = -1 \/ M.proc[c].pid = w)}
             c == Walk(M, f, wanted)
             B == [M EXCEPT !.bad = TRUE]
             N == child_ended(M, f)
  <1>1. M \in MachineType /\ Family(M.proc, M.list)
    BY DEF MachineInv, FamilyInv
  <1>2. \/ c = NULL /\ \A x \in Procs : Has(M.proc[f].children, x) => x \notin wanted
        \/ c \in Procs /\ c \in wanted /\ Has(M.list, c) /\ M.proc[c].father = f
    BY <1>1, WalkFamily, SMTT(30)
  <1>8. c \in wanted => M.proc[c].state = ZOMBIE
    OBVIOUS
  <1>3. N = IF c = NULL THEN M
            ELSE IF c \notin Live(M) THEN B ELSE end_of_child(M, c, f)
    BY DEF child_ended
  <1>4. \A x \in Procs : /\ x \notin wanted /\ Has(M.list, x) /\ M.proc[x].state = ZOMBIE
                             => w # -1 /\ w # M.proc[x].pid
    BY DEF Live
  <1> HIDE DEF wanted, c, B, N, w
  <1>5. CASE c = NULL
    <2>1. \A x \in Procs : Has(M.proc[f].children, x) => x \notin wanted /\ Has(M.list, x)
      BY <1>1, <1>2, <1>5, ProcsAssumption DEF Family
    <2>2. Calm(M.proc, f)
      BY <1>4, <2>1 DEF Calm, w
    <2>3. N = M
      BY <1>3, <1>5
    <2>4. QED BY <2>2, <2>3 DEF N
  <1>6. CASE c # NULL
    <2>1. /\ c \in Procs /\ Has(M.list, c) /\ M.proc[c].father = f /\ c \in Live(M)
          /\ M.proc[c].state = ZOMBIE
      BY <1>2, <1>6, <1>8 DEF Live
    <2>2. N = end_of_child(M, c, f)
      BY <1>3, <1>6, <2>1
    <2>3. Reaps(M, N, c, f) /\ (M.proc[c].children = <<>> => FamilyInv(N) /\ Calm(N.proc, f))
      BY <2>1, <2>2, EndOfChildFamily
    <2>4. QED BY <2>1, <2>3 DEF N
  <1>7. QED BY <1>5, <1>6

\* N is the table M with some other waiting_return for f.
LEMMA ClearFamily ==
    ASSUME NEW M, MachineInv(M), ~M.bad, NEW f \in Procs
    PROVE  LET N == [M EXCEPT !.proc[f].waiting_return = 0]
           IN  /\ MachineInv(N) /\ ~N.bad /\ N.list = M.list
               /\ \A q \in Procs : q # f => N.proc[q] = M.proc[q]
               /\ N.proc[f].father = M.proc[f].father /\ N.proc[f].children = M.proc[f].children
               /\ N.proc[f].pid = M.proc[f].pid /\ N.proc[f].state = M.proc[f].state
               /\ N.proc[f].waiting_pid = M.proc[f].waiting_pid
               /\ FamilyInv(M) => FamilyInv(N)
               /\ AllAlike(M.proc, N.proc)
  <1> DEFINE P == M.proc[f]
             Q == [P EXCEPT !.waiting_return = 0]
             N == [M EXCEPT !.proc[f].waiting_return = 0]
  <1>1. /\ M \in MachineType /\ M.proc \in [Procs -> Struct] /\ P \in Struct
        /\ StructInv(P) /\ P.father # f /\ M.bad = FALSE
    BY DEF MachineInv, MachineType
  <1>2. N = [M EXCEPT !.proc = [M.proc EXCEPT ![f] = Q]]
    BY <1>1
  <1> HIDE DEF P
  <1>3. /\ Q \in Struct /\ Q.father = P.father /\ Q.children = P.children /\ Q.pid = P.pid
        /\ Q.state = P.state /\ Q.waiting_pid = P.waiting_pid /\ Q.sig_queue = P.sig_queue
        /\ Q.sig_avalaible = P.sig_avalaible /\ Q.sig_handler = P.sig_handler
        /\ Q.end_value = P.end_value
    <2>1. P \in Struct /\ 0 \in Int
      BY <1>1
    <2>2. Q \in Struct /\ Q.father = P.father /\ Q.pid = P.pid /\ Q.state = P.state
          /\ Q.sig_queue = P.sig_queue /\ Q.sig_avalaible = P.sig_avalaible
      BY <2>1, SetReturn
    <2>3. /\ Q.children = P.children /\ Q.waiting_pid = P.waiting_pid /\ Q.sig_handler = P.sig_handler
          /\ Q.end_value = P.end_value
      BY <2>1 DEF Struct
    <2>4. QED BY <2>2, <2>3
  <1> HIDE DEF Q
  <1>4. StructInv(Q) /\ (Deaf(Q) => Deaf(P))
    BY <1>1, <1>3 DEF StructInv, Deaf, Pending
  <1> HIDE DEF N
  <1>5. /\ N \in MachineType /\ N.list = M.list /\ N.proc[f] = Q /\ N.bad = FALSE
        /\ \A q \in Procs : q # f => N.proc[q] = M.proc[q]
    <2>1. Q \in Struct
      BY <1>3
    <2>2. QED BY <1>1, <1>2, <2>1 DEF MachineType
  <1>6. MachineInv(N)
    BY <1>1, <1>3, <1>4, <1>5, Update DEF P
  <1>7. FamilyInv(M) => FamilyInv(N)
    BY <1>3, <1>4, <1>5, <1>6, UpdateFamily DEF P
  <1>8. AllAlike(M.proc, N.proc)
    BY <1>3, <1>5 DEF AllAlike, Alike, P
  <1>9. QED BY <1>3, <1>5, <1>6, <1>7, <1>8 DEF N, P

\* process_waitpid reads no freed memory: it reaps a child, or leaves the family
\* in order and frees nobody.
LEMMA WaitPidFamily ==
    ASSUME NEW M, MachineInv(M), FamilyInv(M), NEW f \in Procs, Has(M.list, f),
           M.proc[f].state # ZOMBIE, NEW w \in Int, NEW nohang \in BOOLEAN
    PROVE  LET N == process_waitpid(M, f, w, nohang)
           IN  \/ FamilyInv(N) /\ N.list = M.list /\ AllAlike(M.proc, N.proc)
               \/ \E c \in Procs : /\ Reaps(M, N, c, f)
                                   /\ M.proc[c].children = <<>> => FamilyInv(N)
  <1> DEFINE P == M.proc[f]
             wanted == {c \in Live(M) : \/ w = -1 /\ M.proc[c].state = ZOMBIE
                                        \/ M.proc[c].pid = w}
             c == Walk(M, f, wanted)
             L == [M EXCEPT !.proc[f].state = STOPPED, !.proc[f].waiting_pid = w]
             block == IF nohang THEN M ELSE L
             clear == [M EXCEPT !.proc[f].waiting_return = 0]
             B == [M EXCEPT !.bad = TRUE]
             E == end_of_child(M, c, f)
             E0 == [E EXCEPT !.proc[f].waiting_return = 0]
             N == process_waitpid(M, f, w, nohang)
  <1>1. /\ M \in MachineType /\ M.proc \in [Procs -> Struct] /\ P \in Struct
        /\ StructInv(P) /\ P.father # f /\ M.bad = FALSE /\ Family(M.proc, M.list)
        /\ P.state # ZOMBIE
    BY DEF MachineInv, MachineType, FamilyInv
  <1>2. \/ c = NULL /\ \A x \in Procs : Has(M.proc[f].children, x) => x \notin wanted
        \/ /\ c \in Procs /\ c \in wanted /\ Has(M.list, c) /\ M.proc[c].father = f
           /\ Has(M.proc[f].children, c)
    BY <1>1, WalkFamily
  <1>3. N = IF P.waiting_return # 0 /\ (P.waiting_pid = w \/ w = -1) THEN clear
            ELSE CASE c = NULL -> IF w = -1 /\ P.children # <<>> THEN block ELSE M
                   [] c # NULL /\ c \notin Live(M) -> B
                   [] OTHER -> IF M.proc[c].state # ZOMBIE THEN block
                               ELSE IF E.bad THEN E ELSE E0
    <2> HIDE DEF clear, block, B, E0
    <2>1. QED BY DEF process_waitpid, clear, block, B, E0, L
  <1>4. \A x \in Procs : Has(M.list, x) /\ x \notin wanted /\ M.proc[x].state = ZOMBIE
                            => w # -1 /\ w # M.proc[x].pid
    BY DEF Live
  <1>5. c \in wanted => (w = -1 /\ M.proc[c].state = ZOMBIE) \/ M.proc[c].pid = w
    OBVIOUS
  <1> HIDE DEF wanted, c
  <1>12. AllAlike(M.proc, M.proc)
    BY DEF AllAlike, Alike
  <1>6. FamilyInv(clear) /\ clear.list = M.list /\ AllAlike(M.proc, clear.proc)
    BY ClearFamily DEF FamilyInv
  \* It stops only if no child it waits for is a zombie already.
  <1>7. ASSUME \A x \in Procs : Has(P.children, x) /\ M.proc[x].state = ZOMBIE => w # -1 /\ w # M.proc[x].pid
        PROVE  FamilyInv(block) /\ block.list = M.list /\ AllAlike(M.proc, block.proc)
    <2> DEFINE Q == [P EXCEPT !.state = STOPPED, !.waiting_pid = w]
    <2>1. /\ Q \in Struct /\ Q.father = P.father /\ Q.children = P.children /\ Q.pid = P.pid
          /\ Q.state = STOPPED /\ Q.waiting_pid = w /\ Q.sig_queue = P.sig_queue
          /\ Q.sig_avalaible = P.sig_avalaible /\ Q.sig_handler = P.sig_handler
          /\ Q.end_value = P.end_value
      BY <1>1 DEF Struct, STOPPED
    <2>2. L = [M EXCEPT !.proc = [M.proc EXCEPT ![f] = Q]]
      BY <1>1
    <2> HIDE DEF Q, L
    <2>3. StructInv(Q) /\ Q.father # f /\ Q.state # ZOMBIE
      BY <1>1, <2>1 DEF StructInv, STOPPED, ZOMBIE
    <2>4. /\ L \in MachineType /\ L.list = M.list /\ L.proc[f] = Q /\ L.bad = FALSE
          /\ \A q \in Procs : q # f => L.proc[q] = M.proc[q]
      <3>1. Q \in Struct
        BY <2>1
      <3>2. QED BY <1>1, <2>2, <3>1 DEF MachineType
    <2>5. MachineInv(L)
      BY <2>1, <2>3, <2>4, Update
    <2>6. Calm(L.proc, f)
      <3> SUFFICES ASSUME NEW x \in Procs, Has(L.proc[f].children, x), L.proc[x].state = ZOMBIE
                   PROVE  w # -1 /\ w # L.proc[x].pid
        BY <2>1, <2>4 DEF Calm
      <3>1. x # f
        BY <2>3, <2>4
      <3>2. QED BY <1>7, <2>1, <2>4, <3>1
    <2>7. FamilyInv(L)
      BY <2>1, <2>3, <2>4, <2>5, <2>6, UpdateFamily
    <2>8. AllAlike(M.proc, L.proc)
      <3>1. Alike(P, Q)
        BY <1>1, <2>1, <2>3 DEF Alike
      <3>2. \A q \in Procs : Alike(M.proc[q], M.proc[q])
        BY DEF Alike
      <3>3. QED BY <2>4, <3>1, <3>2 DEF AllAlike
    <2>9. QED BY <1>12, <2>4, <2>7, <2>8
  <1>8. ASSUME c \in Procs, Has(M.list, c), M.proc[c].state = ZOMBIE, M.proc[c].father = f
        PROVE  /\ ~E.bad /\ Reaps(M, E0, c, f)
               /\ M.proc[c].children = <<>> => FamilyInv(E0)
    <2>1. /\ Reaps(M, E, c, f) /\ MachineInv(E) /\ ~E.bad
          /\ M.proc[c].children = <<>> => FamilyInv(E)
      <3>1. c # f
        BY <1>8 DEF MachineInv
      <3>2. MachineInv(E)
        BY <1>1, <1>8, <3>1, EndOfChild
      <3>3. Reaps(M, E, c, f) /\ (M.proc[c].children = <<>> => FamilyInv(E))
        BY <1>8, EndOfChildFamily
      <3>4. QED BY <3>2, <3>3 DEF Reaps
    <2> HIDE DEF E
    <2>2. /\ ~E0.bad /\ E0.list = E.list /\ E0.proc[f].children = E.proc[f].children
          /\ E0.proc[f].state = E.proc[f].state /\ E0.proc[f].waiting_pid = E.proc[f].waiting_pid
          /\ FamilyInv(E) => FamilyInv(E0)
          /\ AllAlike(E.proc, E0.proc)
      BY <2>1, ClearFamily
    <2> HIDE DEF E0
    <2>3. Reaps(M, E0, c, f)
      BY <1>8, <2>1, <2>2, ReapsAfter
    <2>4. QED BY <2>1, <2>2, <2>3
  <1> HIDE DEF N, E, E0, clear, B, P
  <1>9. CASE c = NULL
    <2>1. \A x \in Procs : Has(P.children, x) /\ M.proc[x].state = ZOMBIE => w # -1 /\ w # M.proc[x].pid
      BY <1>1, <1>2, <1>4, <1>9, ProcsAssumption DEF Family, P
    <2>2. FamilyInv(block) /\ block.list = M.list /\ AllAlike(M.proc, block.proc)
      BY <1>7, <2>1
    <2> HIDE DEF block
    <2>3. N \in {clear, block, M}
      BY <1>3, <1>9
    <2>4. FamilyInv(N) /\ N.list = M.list /\ AllAlike(M.proc, N.proc)
      BY <1>6, <1>12, <2>2, <2>3
    <2>5. QED BY <2>4 DEF N
  <1>10. CASE c # NULL
    <2>1. c \in Procs /\ c \in wanted /\ Has(M.list, c) /\ M.proc[c].father = f /\ c \in Live(M)
      BY <1>2, <1>10 DEF Live
    <2>2. CASE M.proc[c].state # ZOMBIE
      <3>1. M.proc[c].pid = w
        BY <1>5, <2>1, <2>2
      <3>2. \A x \in Procs : Has(P.children, x) /\ M.proc[x].state = ZOMBIE => w # -1 /\ w # M.proc[x].pid
        <4>1. w # -1
          BY <2>1, <3>1, PidAssumption DEF MachineInv, ListInv, Pids
        <4>2. ASSUME NEW x \in Procs, Has(P.children, x), M.proc[x].state = ZOMBIE PROVE w # M.proc[x].pid
          <5>1. x # c /\ Has(M.list, x)
            BY <1>1, <2>2, <4>2 DEF Family, P
          <5>2. QED BY <2>1, <3>1, <5>1 DEF MachineInv, ListInv
        <4>3. QED BY <4>1, <4>2
      <3>3. FamilyInv(block) /\ block.list = M.list /\ AllAlike(M.proc, block.proc)
        BY <1>7, <3>2
      <3> HIDE DEF block
      <3>4. N \in {clear, block}
        BY <1>3, <1>10, <2>1, <2>2
      <3>5. FamilyInv(N) /\ N.list = M.list /\ AllAlike(M.proc, N.proc)
        BY <1>6, <3>3, <3>4
      <3>6. QED BY <3>5 DEF N
    <2>3. CASE M.proc[c].state = ZOMBIE
      <3>1. /\ ~E.bad /\ Reaps(M, E0, c, f)
            /\ M.proc[c].children = <<>> => FamilyInv(E0)
        BY <1>8, <2>1, <2>3
      <3> HIDE DEF block
      <3>2. N \in {clear, E0}
        BY <1>3, <1>10, <2>1, <2>3, <3>1
      <3>3. CASE N = clear
        BY <1>6, <3>3 DEF N
      <3>4. CASE N = E0
        BY <2>1, <3>1, <3>4 DEF N
      <3>5. QED BY <3>2, <3>3, <3>4
    <2>4. QED BY <2>2, <2>3
  <1>11. QED BY <1>9, <1>10

\* sent takes the head of the queue away.  The wakeups are kept if that was no
\* SIGCHLD for the default routine, or if the routine has left f calm.
LEMMA SentFamily ==
    ASSUME NEW M, MachineInv(M), NEW f \in Procs, Has(M.list, f),
           M.proc[f].state # ZOMBIE, M.proc[f].sig_queue # <<>>
    PROVE  LET N == sent(M, f)
           IN  /\ N.list = M.list /\ N.bad = M.bad
               /\ N.proc[f].children = M.proc[f].children /\ N.proc[f].state = M.proc[f].state
               /\ N.proc[f].waiting_pid = M.proc[f].waiting_pid
               /\ AllAlike(M.proc, N.proc)
               /\ /\ FamilyInv(M)
                  /\ \/ Calm(M.proc, f)
                     \/ Head(M.proc[f].sig_queue).sig # SIGCHLD
                     \/ M.proc[f].sig_handler[SIGCHLD] # "NULL"
                  => FamilyInv(N)
  <1> DEFINE P == M.proc[f]
             q == P.sig_queue
             t == Tail(q)
             m == P.sig_avalaible \ blocked_sig(Head(q).sig)
             Q == [P EXCEPT !.sig_avalaible = m, !.sig_queue = t]
             L == [M EXCEPT !.proc[f].sig_avalaible = m, !.proc[f].sig_queue = t]
             N == sent(M, f)
  <1>1. /\ M \in MachineType /\ M.proc \in [Procs -> Struct] /\ P \in Struct
        /\ q \in Seq(Entry) /\ q # <<>> /\ P.state # ZOMBIE
    BY DEF MachineInv, MachineType, Struct
  <1>2. MachineInv(N)
    BY Sent
  <1>6. \A r \in Procs : Alike(M.proc[r], M.proc[r])
    BY DEF Alike
  <1>3. CASE M.bad
    <2>1. N = M
      BY <1>3 DEF sent
    <2> HIDE DEF N
    <2>2. QED BY <1>6, <2>1 DEF N, AllAlike
  <1>4. CASE ~M.bad
    <2>1. N = L
      BY <1>1, <1>4 DEF sent
    <2>2. L = [M EXCEPT !.proc = [M.proc EXCEPT ![f] = Q]]
      BY <1>1
    <2> HIDE DEF q, N
    <2>3. /\ Len(t) = Len(q) - 1 /\ Len(q) \in Nat /\ Head(q) = q[1]
          /\ \A i \in 1..Len(t) : t[i] = q[i + 1]
      BY <1>1
    <2> HIDE DEF t, m, P
    <2>4. /\ Q.father = P.father /\ Q.children = P.children /\ Q.pid = P.pid
          /\ Q.state = P.state /\ Q.waiting_pid = P.waiting_pid /\ Q.sig_handler = P.sig_handler
          /\ Q.sig_queue = t /\ Q.end_value = P.end_value
      BY <1>1 DEF Struct
    <2> HIDE DEF Q, L
    <2>5. /\ L.list = M.list /\ L.proc[f] = Q /\ L.bad = M.bad
          /\ \A r \in Procs : r # f => L.proc[r] = M.proc[r]
      BY <1>1, <2>2 DEF MachineType
    <2>6. ASSUME Pending(P), Head(q).sig # SIGCHLD PROVE Pending(Q)
      <3>1. PICK i \in 1..Len(q) : q[i].sig = SIGCHLD
        BY <2>6 DEF Pending, q
      <3>2. i # 1
        BY <2>3, <2>6, <3>1
      <3>3. i - 1 \in 1..Len(t) /\ (i - 1) + 1 = i
        BY <2>3, <3>2
      <3>4. t[i - 1].sig = SIGCHLD
        BY <2>3, <3>1, <3>3
      <3>5. QED BY <2>4, <3>3, <3>4 DEF Pending
    <2>7. ASSUME Head(q).sig # SIGCHLD \/ P.sig_handler[SIGCHLD] # "NULL", Deaf(Q) PROVE Deaf(P)
      BY <2>4, <2>6, <2>7 DEF Deaf
    <2>8. Calm(M.proc, f) => Calm(L.proc, f)
      <3>1. \A r \in Procs : L.proc[r].pid = M.proc[r].pid /\ L.proc[r].state = M.proc[r].state
        BY <2>4, <2>5 DEF P
      <3>2. QED BY <2>4, <2>5, <3>1, StillCalm DEF P
    <2>9. ASSUME FamilyInv(M),
                 \/ Calm(M.proc, f)
                 \/ Head(q).sig # SIGCHLD
                 \/ P.sig_handler[SIGCHLD] # "NULL"
          PROVE  FamilyInv(L)
      <3>1. ~L.bad /\ MachineInv(L)
        BY <1>2, <2>1, <2>5, <2>9 DEF FamilyInv
      <3>2. Calm(L.proc, f) \/ (Deaf(L.proc[f]) => Deaf(M.proc[f]))
        BY <2>5, <2>7, <2>8, <2>9 DEF P
      <3>3. QED BY <2>4, <2>5, <2>9, <3>1, <3>2, UpdateFamily DEF P
    <2>10. AllAlike(M.proc, L.proc)
      <3>1. Alike(P, Q)
        BY <2>4 DEF Alike
      <3>2. QED BY <1>6, <2>5, <3>1 DEF AllAlike, P
    <2>11. QED BY <2>1, <2>4, <2>5, <2>9, <2>10 DEF P, q, N
  <1>5. QED BY <1>3, <1>4

\* An end_value, and a stop or a continue, leave the family alone.
LEMMA SetStateFamily ==
    ASSUME NEW M, MachineInv(M), FamilyInv(M), NEW f \in Procs, M.proc[f].state # ZOMBIE,
           NEW v \in Int, NEW st \in LiveStates
    PROVE  LET N == [M EXCEPT !.proc[f].end_value = v, !.proc[f].state = st]
               E == [M EXCEPT !.proc[f].end_value = v]
           IN  /\ FamilyInv(N) /\ N.proc[f].sig_handler = M.proc[f].sig_handler
               /\ FamilyInv(E) /\ E.proc[f].children = M.proc[f].children
               /\ AllAlike(M.proc, N.proc) /\ AllAlike(M.proc, E.proc)
  <1> DEFINE N == [M EXCEPT !.proc[f].end_value = v, !.proc[f].state = st]
             E == [M EXCEPT !.proc[f].end_value = v]
             P == M.proc[f]
             Q == [P EXCEPT !.end_value = v, !.state = st]
             R == [P EXCEPT !.end_value = v]
  <1>1. /\ M \in MachineType /\ M.proc \in [Procs -> Struct] /\ P \in Struct
        /\ P.state # ZOMBIE /\ M.bad = FALSE
    BY DEF MachineInv, MachineType, FamilyInv
  <1>2. /\ N = [M EXCEPT !.proc = [M.proc EXCEPT ![f] = Q]]
        /\ E = [M EXCEPT !.proc = [M.proc EXCEPT ![f] = R]]
    BY <1>1
  <1>3. Marked(M, N, f, st) /\ Marked(M, E, f, P.state)
    BY SetState, Zenon
  <1> HIDE DEF N, E, P
  <1>4. /\ Q.father = P.father /\ Q.children = P.children /\ Q.pid = P.pid /\ Q.state = st
        /\ Q.waiting_pid = P.waiting_pid /\ Q.sig_queue = P.sig_queue
        /\ Q.sig_handler = P.sig_handler
    BY <1>1 DEF Struct
  <1>5. /\ R.father = P.father /\ R.children = P.children /\ R.pid = P.pid /\ R.state = P.state
        /\ R.waiting_pid = P.waiting_pid /\ R.sig_queue = P.sig_queue
        /\ R.sig_handler = P.sig_handler
    BY <1>1 DEF Struct
  <1> HIDE DEF Q, R
  <1>6. /\ Deaf(Q) => Deaf(P)
        /\ Deaf(R) => Deaf(P)
        /\ Q.state # ZOMBIE
    BY <1>1, <1>4, <1>5 DEF Deaf, Pending, LiveStates, RUN, STOPPED, ZOMBIE
  <1>7. N.proc[f] = Q /\ \A r \in Procs : r # f => N.proc[r] = M.proc[r]
    BY <1>1, <1>2 DEF MachineType
  <1>8. E.proc[f] = R /\ \A r \in Procs : r # f => E.proc[r] = M.proc[r]
    BY <1>1, <1>2 DEF MachineType
  <1>9. MachineInv(N) /\ N.list = M.list /\ ~N.bad /\ MachineInv(E) /\ E.list = M.list /\ ~E.bad
    BY <1>1, <1>3 DEF Marked
  <1>10. FamilyInv(N)
    BY <1>4, <1>6, <1>7, <1>9, UpdateFamily DEF P
  <1>11. FamilyInv(E)
    BY <1>1, <1>5, <1>6, <1>8, <1>9, UpdateFamily DEF P
  <1>12. Alike(P, Q) /\ Alike(P, R)
    BY <1>1, <1>4, <1>5, <1>6 DEF Alike
  <1>13. \A r \in Procs : Alike(M.proc[r], M.proc[r])
    BY DEF Alike
  <1>14. AllAlike(M.proc, N.proc) /\ AllAlike(M.proc, E.proc)
    BY <1>7, <1>8, <1>12, <1>13 DEF AllAlike, P
  <1>15. QED BY <1>4, <1>5, <1>7, <1>8, <1>10, <1>11, <1>14 DEF N, E, P

-----------------------------------------------------------------------------
(* The inductive invariant *)

\* A step of the process cur makes the table N of M: it adds nobody, reaps what
\* zombies it takes away, keeps the family unless it frees a process with
\* children, and has no effect but those programs know.
Outcome(M, N, cur) ==
    /\ \A q \in Procs : Has(N.list, q) => Has(M.list, q)
    /\ \A p \in Procs : Has(M.list, p) /\ M.proc[p].state = ZOMBIE /\ ~Has(N.list, p)
                            => Reaps(M, N, p, cur)
    /\ \/ FamilyInv(N)
       \/ \E p \in Procs : Has(M.list, p) /\ ~Has(N.list, p) /\ M.proc[p].children # <<>>
    /\ ~N.bad /\ Effect(M.proc, M.list, N.proc, N.list, cur)

\* The struct fork is filling has no children and no handlers.
FInv == /\ IInv
        /\ ~orphaned => Family(proc, process_list) /\ Wake(proc, process_list) /\ mode # "undefined"
        /\ mode = "fork" => /\ proc[fork_new].children = <<>>
                            /\ proc[fork_new].sig_handler[SIGCHLD] = "NULL"

\* What ReapedByFather says of a step.
Reaping ==
    \A p \in Procs :
         (~orphaned /\ Alive(p) /\ proc[p].state = ZOMBIE /\ ~Alive(p)') =>
            LET f == proc[p].father
            IN  /\ f = current
                /\ proc'[f].waiting_pid = proc[p].pid
                /\ proc'[f].state = RUN
                /\ \A c \in Procs : c # p =>
                     (Has(proc'[f].children, c) <=>
                         \/ Has(proc[f].children, c)
                         \/ proc[f].pid = PROC_MIN_PID /\ Has(proc[p].children, c))

\* What programs see of a step, and who runs after it.
Visible ==
    /\ Effect(proc, process_list, proc', process_list', current)
    /\ orphaned' = \E p \in Procs : /\ Has(process_list, p) /\ ~Has(process_list', p)
                                    /\ proc[p].children # <<>>
    /\ current' # NULL => mode' \in {"run", "load", "fork"}

StepOK ==
    /\ Reaping
    /\ orphaned => orphaned'
    /\ ~orphaned => Visible

\* What is handed to proc_switch fits the table.
Sound(M, r) ==
    /\ r.mode = "undefined" => M.bad
    /\ r.cur # NULL => r.mode \in {"run", "load"} \/ M.bad

\* A step that frees nobody and that nobody sees.
LEMMA Outcomes ==
    ASSUME NEW M, NEW N, NEW cur, N.list = M.list, FamilyInv(N), AllAlike(M.proc, N.proc)
    PROVE  Outcome(M, N, cur)
  <1>1. Effect(M.proc, M.list, N.proc, N.list, cur)
    BY StaysEffect DEF AllAlike
  <1>2. QED BY <1>1 DEF Outcome, FamilyInv

\* A step that reaps.
LEMMA ReapOutcome ==
    ASSUME NEW M, NEW N, NEW cur, NEW c \in Procs, Reaps(M, N, c, cur),
           M.proc[c].children = <<>> => FamilyInv(N)
    PROVE  Outcome(M, N, cur)
  <1>1. /\ Acts(M.proc, M.list, cur) /\ ~N.bad /\ M.proc[c].state = ZOMBIE
        /\ M.proc[c].father = cur /\ Goes(M.proc, M.list, N.proc, N.list, c)
    BY DEF Reaps
  <1>2. Has(M.list, c) /\ \A q \in Procs : Has(N.list, q) <=> Has(M.list, q) /\ q # c
    BY <1>1 DEF Goes
  <1>3. \A p \in Procs : Has(M.list, p) /\ ~Has(N.list, p) => p = c
    BY <1>2
  <1>4. Effect(M.proc, M.list, N.proc, N.list, cur)
    BY <1>1, Zenon DEF Effect
  <1>5. QED BY <1>1, <1>2, <1>3, <1>4 DEF Outcome

\* Either of the two, as process_waitpid leaves it.
LEMMA EitherOutcome ==
    ASSUME NEW M, NEW N, NEW cur,
           \/ FamilyInv(N) /\ N.list = M.list /\ AllAlike(M.proc, N.proc)
           \/ \E c \in Procs : /\ Reaps(M, N, c, cur)
                               /\ M.proc[c].children = <<>> => FamilyInv(N)
    PROVE  Outcome(M, N, cur)
  <1>1. CASE FamilyInv(N) /\ N.list = M.list /\ AllAlike(M.proc, N.proc)
    BY <1>1, Outcomes
  <1>2. ASSUME NEW c \in Procs, Reaps(M, N, c, cur), M.proc[c].children = <<>> => FamilyInv(N)
        PROVE  Outcome(M, N, cur)
    BY <1>2, ReapOutcome
  <1>3. QED BY <1>1, <1>2

\* And as child_ended leaves N, of which sent makes K.
LEMMA SentOutcome ==
    ASSUME NEW M, NEW N, NEW K, NEW cur,
           \/ N = M /\ FamilyInv(N) /\ Calm(N.proc, cur)
           \/ \E c \in Procs : /\ Reaps(M, N, c, cur)
                               /\ M.proc[c].children = <<>> => FamilyInv(N) /\ Calm(N.proc, cur),
           K.list = N.list, K.bad = N.bad, K.proc[cur].children = N.proc[cur].children,
           K.proc[cur].state = N.proc[cur].state, K.proc[cur].waiting_pid = N.proc[cur].waiting_pid,
           AllAlike(N.proc, K.proc),
           FamilyInv(N) /\ Calm(N.proc, cur) => FamilyInv(K)
    PROVE  Outcome(M, K, cur)
  <1>1. CASE N = M /\ FamilyInv(N) /\ Calm(N.proc, cur)
    BY <1>1, Outcomes
  <1>2. ASSUME NEW c \in Procs, Reaps(M, N, c, cur),
               M.proc[c].children = <<>> => FamilyInv(N) /\ Calm(N.proc, cur)
        PROVE  Outcome(M, K, cur)
    <2>1. cur \in Procs /\ ~N.bad
      BY <1>2 DEF Reaps, Acts
    <2>2. Reaps(M, K, c, cur)
      BY <1>2, <2>1, ReapsAfter
    <2>3. QED BY <1>2, <2>2, ReapOutcome
  <1>3. QED BY <1>1, <1>2

\* The family of the variables.
LEMMA FamilyFields ==
    ASSUME FInv, ~orphaned
    PROVE  FamilyInv(Machine) /\ MachineInv(Machine)
  BY MachineFields DEF FInv, IInv, FamilyInv

LEMMA FamilyPrime ==
    ASSUME NEW T, NEW l, Family(T, l), Wake(T, l), proc' = T, process_list' = l
    PROVE  Family(proc, process_list)' /\ Wake(proc, process_list)'
  <1>1. Family(proc', process_list') /\ Wake(proc', process_list')
    OBVIOUS
  <1>2. Family(proc, process_list)'
    BY <1>1 DEF Family, Has, Injective
  <1>3. Wake(proc, process_list)'
    BY <1>1 DEF Wake, Calm, Deaf, Pending, Has
  <1>4. QED BY <1>2, <1>3

\* Every step that installs a table.
LEMMA InstallFamily ==
    ASSUME FInv, NEW M, NEW r, MachineInv(M), Choice(M, r), Install(M, r),
           Sound(M, r),
           ~orphaned => Outcome(Machine, M, current)
    PROVE  FInv' /\ StepOK
  <1>1. IInv'
    BY InstallStep DEF FInv
  <1>2. /\ proc' = M.proc /\ process_list' = M.list /\ mode' = r.mode
        /\ orphaned' = (orphaned \/ \E p \in Procs : /\ Has(process_list, p) /\ ~Has(M.list, p)
                                                     /\ proc[p].children # <<>>)
    BY DEF Install
  <1>3. ASSUME ~orphaned' PROVE Family(proc, process_list)' /\ Wake(proc, process_list)' /\ mode' # "undefined"
    <2>1. FamilyInv(M)
      BY <1>2, <1>3, MachineFields DEF Outcome
    <2>2. mode' # "undefined"
      BY <1>2, <2>1 DEF FamilyInv, Sound
    <2>3. QED BY <1>2, <2>1, <2>2, FamilyPrime DEF FamilyInv
  <1>4. mode' # "fork"
    BY <1>2 DEF Choice, Modes
  <1>5. Reaping
    <2> SUFFICES ASSUME NEW p \in Procs, ~orphaned, Has(process_list, p), proc[p].state = ZOMBIE,
                        ~Has(process_list', p)
                 PROVE  LET f == proc[p].father
                        IN  /\ f = current
                            /\ proc'[f].waiting_pid = proc[p].pid
                            /\ proc'[f].state = RUN
                            /\ \A c \in Procs : c # p =>
                                 (Has(proc'[f].children, c) <=>
                                     \/ Has(proc[f].children, c)
                                     \/ proc[f].pid = PROC_MIN_PID /\ Has(proc[p].children, c))
      BY DEF Reaping, Alive
    <2>1. Reaps(Machine, M, p, current)
      BY <1>2, MachineFields DEF Outcome
    <2>2. QED BY <1>2, <2>1, MachineFields DEF Reaps
  <1>6. ASSUME ~orphaned PROVE Visible
    <2>1. ~M.bad /\ Effect(proc, process_list, M.proc, M.list, current)
      BY <1>6, MachineFields DEF Outcome
    <2>2. current' # NULL => mode' \in {"run", "load", "fork"}
      <3>1. current' = r.cur
        BY DEF Install
      <3>2. QED BY <1>2, <2>1, <3>1 DEF Sound
    <2>3. QED BY <1>2, <1>6, <2>1, <2>2 DEF Visible
  <1>7. StepOK
    BY <1>2, <1>5, <1>6 DEF StepOK
  <1>8. QED BY <1>1, <1>3, <1>4, <1>7 DEF FInv

\* The scheduler and a return to the program end in undefined behaviour only if
\* freed memory has been read, and a machine that stops runs nobody.
LEMMA NotUndefined ==
    ASSUME NEW M, NEW cur
    PROVE  Sound(M, switch_process(M, cur)) /\ Sound(M, Resume(M, cur))
  <1>1. ASSUME ~M.bad
        PROVE  LET r == switch_process(M, cur)
               IN  r.mode # "undefined" /\ (r.cur # NULL => r.mode \in {"run", "load"})
    <2> DEFINE n     == Len(M.list)
               start == IF cur = NULL THEN 0 ELSE Pos(M.list, cur)
               at(k) == M.list[((start + k - 1) % n) + 1]
               first == {k \in 1..n : /\ runnable(M.proc[at(k)])
                                      /\ \A j \in 1..(k - 1) : ~runnable(M.proc[at(j)])}
               k0    == CHOOSE k \in first : TRUE
               r     == switch_process(M, cur)
    <2> HIDE DEF n, first, start
    <2>1. r = CASE M.bad -> [cur |-> cur, mode |-> "undefined"]
               [] ~M.bad /\ first # {} -> [cur |-> at(k0), mode |-> "load"]
               [] ~M.bad /\ first = {} /\ n = 0 -> [cur |-> NULL, mode |-> "panic"]
               [] ~M.bad /\ first = {} /\ n # 0 /\ cur = NULL -> [cur |-> NULL, mode |-> "hang"]
               [] OTHER -> IF \E i \in 1..n : M.proc[M.list[i]].state # ZOMBIE
                           THEN [cur |-> NULL, mode |-> "run"]
                           ELSE [cur |-> NULL, mode |-> "panic"]
      BY DEF switch_process, n, first, start
    <2> HIDE DEF k0, r, at
    <2>2. CASE first # {}
      BY <1>1, <2>1, <2>2 DEF r
    <2>3. CASE first = {} /\ n = 0
      BY <1>1, <2>1, <2>3 DEF r
    <2>4. CASE first = {} /\ n # 0 /\ cur = NULL
      BY <1>1, <2>1, <2>4 DEF r
    <2>5. CASE first = {} /\ n # 0 /\ cur # NULL
      BY <1>1, <2>1, <2>5 DEF r
    <2>6. QED BY <2>2, <2>3, <2>4, <2>5
  <1>2. Sound(M, switch_process(M, cur))
    <2> DEFINE r == switch_process(M, cur)
    <2>1. ~M.bad => r.mode # "undefined" /\ (r.cur # NULL => r.mode \in {"run", "load"})
      BY <1>1
    <2> HIDE DEF r
    <2>2. Sound(M, r)
      BY <2>1 DEF Sound
    <2>3. QED BY <2>2 DEF r
  <1>3. Sound(M, Resume(M, cur))
    BY DEF Resume, Sound
  <1>4. QED BY <1>2, <1>3

\* irq_clock.
LEMMA ClockFamily == ASSUME FInv, irq_clock PROVE FInv' /\ StepOK
  <1>1. /\ MachineInv(Machine) /\ current \in Procs \cup {NULL}
        /\ (current # NULL => Has(Machine.list, current))
    BY MachineFields DEF FInv, IInv, Typed, CurrentInv
  <1>2. Choice(Machine, switch_process(Machine, current))
    BY <1>1, SwitchProcess
  <1>3. Install(Machine, switch_process(Machine, current))
    BY DEF irq_clock
  <1>4. ~orphaned => Outcome(Machine, Machine, current)
    BY FamilyFields, AlikeSelf, Outcomes
  <1>5. QED BY <1>1, <1>2, <1>3, <1>4, NotUndefined, InstallFamily

\* The death of the running process.
LEMMA DieStepFamily ==
    ASSUME FInv, current # NULL, mode \in {"run", "load"}, NEW v \in Int, NEW ok \in KmallocOutcomes,
           Die(v, ok)
    PROVE  FInv' /\ StepOK
  <1> DEFINE E == [Machine EXCEPT !.proc[current].end_value = v]
             M == process_die_safe(E, current, ok)
  <1>1. /\ MachineInv(Machine) /\ current \in Procs /\ Machine.proc[current].state # ZOMBIE
        /\ ~Machine.bad /\ Has(Machine.list, current) /\ ok \in BOOLEAN
    BY MachineFields, SigAssumption DEF FInv, IInv, Typed, CurrentInv
  <1>2. RUN \in LiveStates
    BY DEF LiveStates
  <1>3. Marked(Machine, E, current, Machine.proc[current].state)
    BY <1>1, <1>2, SetState, Zenon
  <1>4. ~orphaned => /\ FamilyInv(E) /\ E.proc[current].children = Machine.proc[current].children
                     /\ AllAlike(Machine.proc, E.proc)
    BY <1>1, <1>2, FamilyFields, SetStateFamily, Zenon
  <1>5. Install(M, switch_process(M, NULL))
    BY DEF Die
  <1> HIDE DEF E
  <1>6. MachineInv(E) /\ ~E.bad /\ E.list = Machine.list
    BY <1>1, <1>3 DEF Marked
  <1>7. MachineInv(M)
    BY <1>1, <1>6, DieSafe
  <1>8. ASSUME ~orphaned PROVE Outcome(Machine, M, current)
    <2>1. KmallocOutcomes = {TRUE} => ok
      OBVIOUS
    <2>2. E.proc[current].state # ZOMBIE
      BY <1>1, <1>4, <1>8 DEF AllAlike, Alike
    <2>3. /\ \A q \in Procs : q # current => (Has(M.list, q) <=> Has(E.list, q))
          /\ FamilyInv(M) \/ (~Has(M.list, current) /\ E.proc[current].children # <<>>)
          /\ ~M.bad /\ Effect(E.proc, E.list, M.proc, M.list, current)
      BY <1>1, <1>4, <1>6, <1>8, <2>1, <2>2, DieFamily
    <2> HIDE DEF M
    <2>4. \A q \in Procs : Has(E.list, q) /\ E.proc[q].father # NULL => E.proc[q].father \in Procs
      BY <1>6 DEF MachineInv, MachineType, Struct
    <2>5. Effect(Machine.proc, E.list, M.proc, M.list, current)
      BY <1>1, <1>4, <1>8, <2>3, <2>4, EffectAfter
    <2>6. QED BY <1>1, <1>4, <1>6, <1>8, <2>3, <2>5 DEF Outcome
  <1> HIDE DEF M
  <1>9. Choice(M, switch_process(M, NULL))
    BY <1>7, SwitchProcess
  <1>10. QED BY <1>5, <1>7, <1>8, <1>9, NotUndefined, InstallFamily

\* What proc_switch_p does when the signal has been sent.
LEMMA LoadedFamily ==
    ASSUME FInv, NEW M, MachineInv(M), current \in Procs, Has(M.list, current), Loaded(M),
           ~orphaned => Outcome(Machine, M, current)
    PROVE  FInv' /\ StepOK
  <1> DEFINE r == IF ~M.bad /\ M.proc[current].state = RUN THEN Resume(M, current)
                  ELSE switch_process(M, current)
  <1>1. Choice(M, switch_process(M, current))
    BY SwitchProcess
  <1>2. ASSUME ~M.bad, M.proc[current].state = RUN PROVE Choice(M, Resume(M, current))
    BY <1>2, ProcsAssumption DEF Choice, Resume, Modes, RUN, ZOMBIE
  <1>3. Choice(M, r) /\ Sound(M, r)
    BY <1>1, <1>2, NotUndefined
  <1>4. Install(M, r)
    BY DEF Loaded
  <1>5. QED BY <1>3, <1>4, InstallFamily

\* A SIGCHLD that no handler is set for goes to child_ended.
LEMMA ChildRoutine ==
    ASSUME NEW P \in Struct, P.sig_queue # <<>>, routine(P, Head(P.sig_queue)) # "child_ended"
    PROVE  Head(P.sig_queue).sig # SIGCHLD \/ P.sig_handler[SIGCHLD] # "NULL"
  <1> DEFINE e == Head(P.sig_queue)
  <1> SUFFICES ASSUME e.sig = SIGCHLD, P.sig_handler[e.sig] = "NULL" PROVE FALSE
    OBVIOUS
  <1> HIDE DEF e
  <1>1. routine(P, e) = sig_handler[e.sig + 1]
    BY DEF routine
  <1>2. e.sig + 1 = 18 /\ sig_handler[18] = "child_ended"
    BY DEF SIGCHLD, sig_handler
  <1>3. QED BY <1>1, <1>2 DEF e

\* send_signal, whatever the routine it calls.
LEMMA DeliverFamily == ASSUME FInv, Deliver PROVE FInv' /\ StepOK
  <1> USE DEF FInv
  <1>1. CASE send_nothing
    <2>1. current # NULL /\ mode = "load"
      BY <1>1 DEF IInv, Typed, send_nothing
    <2>2. /\ MachineInv(Machine) /\ current \in Procs /\ Has(process_list, current)
          /\ proc[current].state # ZOMBIE /\ proc[current].sig_queue = <<>>
      BY <1>1, <2>1 DEF IInv, Typed, CurrentInv, send_nothing
    <2>3. Loaded(Machine)
      BY <1>1, SendNothing
    <2>4. ~orphaned => Outcome(Machine, Machine, current)
      BY FamilyFields, AlikeSelf, Outcomes
    <2>5. QED BY <2>2, <2>3, <2>4, LoadedFamily, MachineFields
  <1>2. CASE sig_term
    <2>1. Sending("sig_term") BY <1>2 DEF sig_term
    <2>2. PICK ok \in KmallocOutcomes : Die(signum, ok) BY <1>2 DEF sig_term
    <2>3. current # NULL /\ mode = "load" BY <2>1 DEF Sending, IInv, Typed
    <2>4. signum \in Int BY <2>1, SendingFacts
    <2>5. QED BY <2>2, <2>3, <2>4, DieStepFamily
  <1>3. CASE sig_core
    <2> DEFINE v == 128 * ((signum \div 128) % 2)
    <2>1. Sending("sig_core") BY <1>3 DEF sig_core
    <2>2. PICK ok \in KmallocOutcomes : Die(v, ok) BY <1>3 DEF sig_core
    <2>3. current # NULL /\ mode = "load" BY <2>1 DEF Sending, IInv, Typed
    <2>4. signum \in Int BY <2>1, SendingFacts
    <2>5. v \in Int
      <3> HIDE DEF signum
      <3>1. QED BY <2>4
    <2> HIDE DEF v
    <2>6. QED BY <2>2, <2>3, <2>5, DieStepFamily
  \* The routine, any but child_ended, has made N of the table.
  <1>4. ASSUME NEW r, Sending(r), r # "child_ended", NEW N, MachineInv(N), N.list = Machine.list,
               N.proc[current].state # ZOMBIE,
               N.proc[current].sig_queue = Machine.proc[current].sig_queue,
               ~orphaned => /\ FamilyInv(N) /\ AllAlike(Machine.proc, N.proc)
                            /\ N.proc[current].sig_handler = Machine.proc[current].sig_handler,
               Loaded(sent(N, current))
        PROVE  FInv' /\ StepOK
    <2>1. /\ MachineInv(Machine) /\ current \in Procs /\ Has(Machine.list, current)
          /\ Machine.proc[current].sig_queue # <<>> /\ Machine.proc[current] \in Struct
      BY <1>4, SendingFacts DEF MachineInv, MachineType
    <2>2. MachineInv(sent(N, current)) /\ Has(sent(N, current).list, current)
      BY <1>4, <2>1, Sent
    <2>3. routine(Machine.proc[current], Head(Machine.proc[current].sig_queue)) = r
      BY <1>4, MachineFields DEF Sending
    <2>4. \/ Head(Machine.proc[current].sig_queue).sig # SIGCHLD
          \/ Machine.proc[current].sig_handler[SIGCHLD] # "NULL"
      BY <1>4, <2>1, <2>3, ChildRoutine
    <2>5. ~orphaned => /\ sent(N, current).list = Machine.list /\ FamilyInv(sent(N, current))
                       /\ AllAlike(N.proc, sent(N, current).proc)
      BY <1>4, <2>1, <2>4, SentFamily
    <2>6. ~orphaned => AllAlike(Machine.proc, sent(N, current).proc)
      BY <1>4, <2>5, AlikeTrans DEF AllAlike
    <2>7. ~orphaned => Outcome(Machine, sent(N, current), current)
      BY <2>5, <2>6, Outcomes
    <2>8. QED BY <1>4, <2>1, <2>2, <2>7, LoadedFamily
  <1>5. ASSUME NEW r, Sending(r), r # "child_ended", Loaded(sent(Machine, current))
        PROVE  FInv' /\ StepOK
    <2>1. MachineInv(Machine) /\ Machine.proc[current].state # ZOMBIE
      BY <1>5, SendingFacts
    <2>2. ~orphaned => FamilyInv(Machine) /\ AllAlike(Machine.proc, Machine.proc)
      BY FamilyFields, AlikeSelf
    <2>3. QED BY <1>4, <1>5, <2>1, <2>2
  <1>6. CASE sig_ign
    BY <1>5, <1>6 DEF sig_ign
  <1>7. CASE send_user
    BY <1>5, <1>7 DEF send_user
  <1>8. ASSUME NEW r, Sending(r), r # "child_ended", NEW v \in Int, NEW st \in LiveStates,
               Loaded(sent([Machine EXCEPT !.proc[current].end_value = v,
                                           !.proc[current].state = st], current))
        PROVE  FInv' /\ StepOK
    <2> DEFINE N == [Machine EXCEPT !.proc[current].end_value = v, !.proc[current].state = st]
    <2>1. /\ MachineInv(Machine) /\ current \in Procs /\ Machine.proc[current].state # ZOMBIE
      BY <1>8, SendingFacts
    <2>2. Marked(Machine, N, current, st)
      BY <1>8, <2>1, SetState, Zenon
    <2>3. ~orphaned => /\ FamilyInv(N) /\ AllAlike(Machine.proc, N.proc)
                       /\ N.proc[current].sig_handler = Machine.proc[current].sig_handler
      BY <1>8, <2>1, FamilyFields, SetStateFamily, Zenon
    <2>4. Loaded(sent(N, current))
      BY <1>8
    <2> HIDE DEF N
    <2>5. N.proc[current].state # ZOMBIE
      BY <1>8, <2>2 DEF Marked, LiveStates, RUN, STOPPED, ZOMBIE
    <2>6. MachineInv(N) /\ N.list = Machine.list /\ N.proc[current].sig_queue = Machine.proc[current].sig_queue
      BY <2>2, SMTT(30) DEF Marked
    <2>7. QED BY <1>4, <1>8, <2>3, <2>4, <2>5, <2>6
  <1>9. CASE sig_stop
    <2> DEFINE v == signum * 256 + 127
    <2>1. Sending("sig_stop") BY <1>9 DEF sig_stop
    <2>2. signum \in Int BY <2>1, SendingFacts
    <2>3. v \in Int
      <3> HIDE DEF signum
      <3>1. QED BY <2>2
    <2>4. Loaded(sent([Machine EXCEPT !.proc[current].end_value = v,
                                      !.proc[current].state = STOPPED], current))
      BY <1>9, SMTT(30) DEF sig_stop
    <2> HIDE DEF v
    <2>5. QED BY <1>8, <2>1, <2>3, <2>4 DEF LiveStates
  <1>10. CASE sig_cont
    <2> DEFINE v == 65535
    <2>1. Sending("sig_cont") /\ v \in Int BY <1>10 DEF sig_cont
    <2>2. Loaded(sent([Machine EXCEPT !.proc[current].end_value = v,
                                      !.proc[current].state = RUN], current))
      BY <1>10 DEF sig_cont
    <2> HIDE DEF v
    <2>3. QED BY <1>8, <2>1, <2>2 DEF LiveStates
  <1>11. CASE send_child_ended
    <2> DEFINE N == child_ended(Machine, current)
               K == sent(N, current)
    <2>1. Sending("child_ended") /\ Loaded(K)
      BY <1>11 DEF send_child_ended
    <2>2. /\ MachineInv(Machine) /\ current \in Procs /\ Has(Machine.list, current) /\ ~Machine.bad
          /\ Machine.proc[current].state # ZOMBIE /\ Machine.proc[current].sig_queue # <<>>
      BY <2>1, SendingFacts
    <2>3. Kept(Machine, N, current)
      BY <2>2, ChildEnded
    <2>4. ASSUME ~orphaned
          PROVE  \/ N = Machine /\ FamilyInv(N) /\ Calm(N.proc, current)
                 \/ \E c \in Procs : /\ Reaps(Machine, N, c, current)
                                     /\ Machine.proc[c].children = <<>>
                                            => FamilyInv(N) /\ Calm(N.proc, current)
      BY <2>2, <2>4, FamilyFields, ChildEndedFamily
    <2> HIDE DEF N
    <2>5. MachineInv(K) /\ Has(K.list, current)
      BY <2>2, <2>3, Sent DEF Kept
    <2>6. /\ K.list = N.list /\ K.bad = N.bad
          /\ K.proc[current].children = N.proc[current].children
          /\ K.proc[current].state = N.proc[current].state
          /\ K.proc[current].waiting_pid = N.proc[current].waiting_pid
          /\ AllAlike(N.proc, K.proc)
          /\ FamilyInv(N) /\ Calm(N.proc, current) => FamilyInv(K)
      BY <2>2, <2>3, SentFamily DEF Kept
    <2> HIDE DEF K
    <2>7. ASSUME ~orphaned PROVE Outcome(Machine, K, current)
      BY <2>4, <2>6, <2>7, SentOutcome
    <2>8. QED BY <2>1, <2>2, <2>5, <2>7, LoadedFamily
  <1>12. QED BY <1>1, <1>2, <1>3, <1>6, <1>7, <1>9, <1>10, <1>11 DEF Deliver

\* process_waitpid.
LEMMA WaitFamily ==
    ASSUME FInv, NEW w \in WaitPids \cup {-1}, NEW nohang \in BOOLEAN, call_waitpid(w, nohang)
    PROVE  FInv' /\ StepOK
  <1> DEFINE M == process_waitpid(Machine, current, w, nohang)
  <1>1. Calls /\ Install(M, Resume(M, current))
    BY DEF call_waitpid
  <1>2. /\ MachineInv(Machine) /\ current \in Procs /\ Has(Machine.list, current)
        /\ Machine.proc[current].state # ZOMBIE /\ ~Machine.bad
    BY <1>1, CallsFacts DEF FInv
  <1>3. w \in Int
    BY SigAssumption, PidAssumption DEF Pids
  <1>4. Kept(Machine, M, current)
    BY <1>2, <1>3, WaitPid
  <1>5. ASSUME ~orphaned
        PROVE  \/ FamilyInv(M) /\ M.list = Machine.list /\ AllAlike(Machine.proc, M.proc)
               \/ \E c \in Procs : /\ Reaps(Machine, M, c, current)
                                   /\ Machine.proc[c].children = <<>> => FamilyInv(M)
    BY <1>2, <1>3, <1>5, FamilyFields, WaitPidFamily
  <1> HIDE DEF M
  <1>6. ASSUME ~orphaned PROVE Outcome(Machine, M, current)
    BY <1>5, <1>6, EitherOutcome
  <1>7. Choice(M, Resume(M, current))
    BY <1>2, <1>4, ProcsAssumption DEF Choice, Resume, Modes, Kept
  <1>8. QED BY <1>1, <1>4, <1>6, <1>7, NotUndefined, InstallFamily DEF Kept

\* A step that changes nothing but structs, and of those on the list no
\* relation, pid, state or wait, and has an effect that programs know.
LEMMA StructsFamily ==
    ASSUME FInv, IInv', process_list' = process_list, orphaned' = orphaned,
           mode' \in {"run", "fork"},
           mode' = "fork" => /\ proc'[fork_new'].children = <<>>
                             /\ proc'[fork_new'].sig_handler[SIGCHLD] = "NULL",
           Effect(proc, process_list, proc', process_list, current),
           \A q \in Procs : Has(process_list, q) =>
               /\ proc'[q].father = proc[q].father /\ proc'[q].children = proc[q].children
               /\ proc'[q].pid = proc[q].pid /\ proc'[q].state = proc[q].state
               /\ proc'[q].waiting_pid = proc[q].waiting_pid
               /\ Deaf(proc'[q]) => Deaf(proc[q])
    PROVE  FInv' /\ StepOK
  <1>1. Reaping
    BY DEF Reaping, Alive
  <1>2. ASSUME ~orphaned'
        PROVE  Family(proc, process_list)' /\ Wake(proc, process_list)' /\ mode' # "undefined"
    <2> DEFINE T == proc
               U == proc'
               l == process_list
    <2>1. Family(T, l) /\ Wake(T, l) /\ mode # "undefined"
      BY <1>2 DEF FInv
    <2>2. \A q \in Procs : T[q].father \in Procs \cup {NULL}
      BY DEF FInv, IInv, Typed, Struct
    <2> HIDE DEF T, U
    <2>3. \A q \in Procs : Has(l, q) =>
               /\ U[q].father = T[q].father /\ U[q].children = T[q].children
               /\ U[q].pid = T[q].pid /\ U[q].state = T[q].state
               /\ U[q].waiting_pid = T[q].waiting_pid
               /\ Deaf(U[q]) => Deaf(T[q])
      BY DEF T, U
    <2>4. Family(U, l)
      BY <2>1, <2>2, <2>3 DEF Family
    <2>5. Wake(U, l)
      <3> SUFFICES ASSUME KmallocOutcomes = {TRUE}, NEW f \in Procs, Has(l, f), Deaf(U[f]) PROVE Calm(U, f)
        BY DEF Wake
      <3>1. Calm(T, f)
        BY <2>1, <2>3 DEF Wake
      <3>2. \A c \in Procs : Has(T[f].children, c) => Has(l, c)
        BY <2>1 DEF Family
      <3>3. QED BY <2>3, <3>1, <3>2 DEF Calm
    <2>6. Family(proc, process_list)' /\ Wake(proc, process_list)'
      BY <2>4, <2>5, FamilyPrime DEF U
    <2>7. QED BY <2>1, <2>6
  <1>3. StepOK
    <2>1. ASSUME ~orphaned PROVE Visible
      <3>1. orphaned' = FALSE
        BY <2>1 DEF FInv, IInv, Typed
      <3>2. ~\E p \in Procs : /\ Has(process_list, p) /\ ~Has(process_list', p)
                             /\ proc[p].children # <<>>
        OBVIOUS
      <3>3. QED BY <3>1, <3>2 DEF Visible
    <2>2. QED BY <1>1, <2>1 DEF StepOK
  <1>4. QED BY <1>2, <1>3 DEF FInv

\* kill.
LEMMA KillFamily ==
    ASSUME FInv, NEW pid \in KillPids, NEW sig \in KillSigs, kill(pid, sig)
    PROVE  FInv' /\ StepOK
  <1> DEFINE target(p) == /\ Has(process_list, p) /\ proc[p].state # ZOMBIE
                          /\ pid = -1 \/ proc[p].pid = pid
                          /\ proc[current].uid = 0 \/ proc[current].uid = proc[p].uid
  <1>1. PICK ok \in [Procs -> KmallocOutcomes] :
            proc' = [p \in Procs |-> IF target(p) THEN add_signal(proc[p], sig, FALSE, ok[p])
                                     ELSE proc[p]]
    BY DEF kill
  <1>2. /\ Calls
        /\ UNCHANGED <<process_list, last_pid, current, mode, fork_new, fork_todo, orphaned>>
    BY DEF kill, UserCalls
  <1>3. /\ proc \in [Procs -> Struct] /\ mode = "run"
        /\ \A p \in Procs : StructInv(proc[p])
    BY <1>2, CallsFacts DEF FInv
  <1> HIDE DEF target
  <1>4. ASSUME NEW p \in Procs
        PROVE  /\ proc'[p].father = proc[p].father /\ proc'[p].children = proc[p].children
               /\ proc'[p].pid = proc[p].pid /\ proc'[p].state = proc[p].state
               /\ proc'[p].waiting_pid = proc[p].waiting_pid
               /\ Deaf(proc'[p]) => Deaf(proc[p])
               /\ Alike(proc[p], proc'[p])
    <2> DEFINE Q == add_signal(proc[p], sig, FALSE, ok[p])
    <2>1. sig \in Sigs \cup {0} /\ ok[p] \in BOOLEAN
      BY SigAssumption
    <2>2. /\ Q.father = proc[p].father /\ Q.children = proc[p].children /\ Q.pid = proc[p].pid
          /\ Q.state = proc[p].state /\ Q.waiting_pid = proc[p].waiting_pid
          /\ Deaf(Q) => Deaf(proc[p])
          /\ Alike(proc[p], Q)
      BY <1>3, <2>1, AddSignalFamily
    <2>3. proc'[p] = IF target(p) THEN Q ELSE proc[p]
      BY <1>1
    <2> HIDE DEF Q
    <2>4. CASE target(p)
      BY <2>2, <2>3, <2>4
    <2>5. CASE ~target(p)
      BY <1>3, <2>3, <2>5 DEF Alike
    <2>6. QED BY <2>4, <2>5
  <1>5. IInv'
    BY KillStep DEF FInv
  <1>6. Effect(proc, process_list, proc', process_list, current)
    <2> DEFINE U == proc'
    <2>1. \A q \in Procs : Has(process_list, q) => Alike(proc[q], U[q])
      BY <1>4
    <2> HIDE DEF U
    <2>2. Effect(proc, process_list, U, process_list, current)
      BY <2>1, StaysEffect
    <2>3. QED BY <2>2 DEF U
  <1>7. QED BY <1>2, <1>3, <1>4, <1>5, <1>6, StructsFamily

\* signal: a process that takes SIGCHLD into its own hands is not owed a wakeup.
LEMMA SignalFamily ==
    ASSUME FInv, NEW sig \in HandledSigs, NEW h \in Handlers \ {"NULL"}, signal(sig, h)
    PROVE  FInv' /\ StepOK
  <1> DEFINE P == proc[current]
             H == [P.sig_handler EXCEPT ![sig] = h]
             Q == [P EXCEPT !.sig_handler = H]
  <1>1. /\ Calls /\ proc' = [proc EXCEPT ![current].sig_handler[sig] = h]
        /\ UNCHANGED <<process_list, last_pid, current, mode, fork_new, fork_todo, orphaned>>
    BY DEF signal, UserCalls
  <1>2. /\ proc \in [Procs -> Struct] /\ mode = "run" /\ current \in Procs /\ P \in Struct
        /\ Has(process_list, current) /\ P.state # ZOMBIE
    BY <1>1, CallsFacts, MachineFields DEF FInv
  <1>3. /\ H[SIGCHLD] = "NULL" => P.sig_handler[SIGCHLD] = "NULL"
        /\ H[SIGCHLD] # "NULL" \/ H[SIGCHLD] = P.sig_handler[SIGCHLD]
    BY <1>2, SigAssumption DEF Struct
  <1>4. proc' = [proc EXCEPT ![current] = Q]
    BY <1>1, <1>2 DEF Struct
  <1> HIDE DEF H, P
  <1>5. /\ Q.father = P.father /\ Q.children = P.children /\ Q.pid = P.pid /\ Q.state = P.state
        /\ Q.waiting_pid = P.waiting_pid /\ Q.sig_queue = P.sig_queue /\ Q.sig_handler = H
        /\ Q.end_value = P.end_value
    BY <1>2 DEF Struct
  <1> HIDE DEF Q
  <1>6. Deaf(Q) => Deaf(P)
    BY <1>3, <1>5 DEF Deaf, Pending
  <1>7. proc'[current] = Q /\ \A p \in Procs : p # current => proc'[p] = proc[p]
    BY <1>2, <1>4
  <1>8. IInv'
    BY SignalStep DEF FInv
  <1>9. \A q \in Procs :
            /\ proc'[q].father = proc[q].father /\ proc'[q].children = proc[q].children
            /\ proc'[q].pid = proc[q].pid /\ proc'[q].state = proc[q].state
            /\ proc'[q].waiting_pid = proc[q].waiting_pid
            /\ Deaf(proc'[q]) => Deaf(proc[q])
    BY <1>5, <1>6, <1>7 DEF P
  <1>10. Effect(proc, process_list, proc', process_list, current)
    <2> DEFINE T == proc
               U == proc'
               l == process_list
    <2>1. T[current] = P /\ U[current] = Q /\ \A q \in Procs : q # current => U[q] = T[q]
      BY <1>7 DEF P
    <2> HIDE DEF T, U, l
    <2>2. AlikeBut(T, l, U, current)
      BY <2>1 DEF AlikeBut, Alike
    <2>3. CASE H[SIGCHLD] = P.sig_handler[SIGCHLD]
      <3>1. Alike(T[current], U[current])
        BY <1>5, <2>1, <2>3 DEF Alike
      <3>2. \A q \in Procs : Has(l, q) => Alike(T[q], U[q])
        BY <2>2, <3>1 DEF AlikeBut
      <3>3. QED BY <3>2, StaysEffect DEF T, U, l
    <2>4. CASE H[SIGCHLD] # "NULL"
      <3>1. Ignores(T, l, U, l, current)
        BY <1>2, <1>5, <2>1, <2>2, <2>4 DEF Ignores, SameMembers
      <3>2. Acts(T, l, current)
        BY <1>2, <2>1 DEF Acts, l
      <3>3. Effect(T, l, U, l, current)
        BY <3>1, <3>2, Zenon DEF Effect
      <3>4. QED BY <3>3 DEF T, U, l
    <2>5. QED BY <1>3, <2>3, <2>4
  <1>11. QED BY <1>1, <1>2, <1>8, <1>9, <1>10, StructsFamily

\* irq_general.
LEMMA FaultFamily == ASSUME FInv, NEW info \in Faults, irq_general(info) PROVE FInv' /\ StepOK
  <1>1. Calls
    BY DEF irq_general, UserCalls
  <1>2. /\ MachineInv(Machine) /\ current \in Procs /\ Has(Machine.list, current)
        /\ Machine.proc[current].state # ZOMBIE /\ ~Machine.bad /\ mode = "run"
        /\ current # NULL /\ proc \in [Procs -> Struct]
    BY <1>1, CallsFacts, ProcsAssumption DEF FInv
  <1>3. PICK ok \in KmallocOutcomes :
          LET M == [Machine EXCEPT !.proc[current] = add_signal(@, info.signal, TRUE, ok)]
          IN  \/ info.signal >= 0 /\ Install(M, switch_process(M, current))
              \/ Die(proc[current].end_value, ok)
              \/ Install(Machine, Resume(Machine, current))
    BY DEF irq_general
  <1> DEFINE Q == add_signal(Machine.proc[current], info.signal, TRUE, ok)
             M == [Machine EXCEPT !.proc[current] = Q]
  <1>4. CASE info.signal >= 0 /\ Install(M, switch_process(M, current))
    <2>1. info.signal \in Sigs \cup {0} /\ ok \in BOOLEAN
      BY <1>4, FaultSignal, SigAssumption
    <2>2. /\ Machine \in MachineType /\ Machine.proc \in [Procs -> Struct]
          /\ Machine.proc[current] \in Struct
          /\ StructInv(Machine.proc[current]) /\ Machine.proc[current].father # current
      BY <1>2 DEF MachineInv, MachineType
    <2>3. /\ Q \in Struct /\ StructInv(Q) /\ Q.father # current
          /\ Q.pid = Machine.proc[current].pid
      BY <2>1, <2>2, AddSignal
    <2>4. /\ Q.father = Machine.proc[current].father /\ Q.children = Machine.proc[current].children
          /\ Q.state = Machine.proc[current].state
          /\ Q.waiting_pid = Machine.proc[current].waiting_pid
          /\ Deaf(Q) => Deaf(Machine.proc[current])
          /\ Alike(Machine.proc[current], Q)
      BY <2>1, <2>2, AddSignalFamily
    <2>5. M = [Machine EXCEPT !.proc = [Machine.proc EXCEPT ![current] = Q]]
      BY <2>2
    <2> HIDE DEF Q, M
    <2>6. /\ M \in MachineType /\ M.list = Machine.list /\ M.proc[current] = Q /\ M.bad = Machine.bad
          /\ \A p \in Procs : p # current => M.proc[p] = Machine.proc[p]
      BY <1>2, <2>2, <2>3, <2>5 DEF MachineType
    <2>7. MachineInv(M)
      BY <1>2, <2>3, <2>6, Update
    <2>8. Choice(M, switch_process(M, current))
      BY <1>2, <2>6, <2>7, SwitchProcess
    <2>9. ASSUME ~orphaned PROVE Outcome(Machine, M, current)
      <3>1. FamilyInv(Machine)
        BY <2>9, FamilyFields
      <3>2. FamilyInv(M)
        BY <1>2, <2>3, <2>4, <2>6, <2>7, <3>1, UpdateFamily
      <3>3. AllAlike(Machine.proc, M.proc)
        BY <2>4, <2>6 DEF AllAlike, Alike
      <3>4. QED BY <2>6, <3>2, <3>3, Outcomes
    <2>10. QED BY <1>4, <2>7, <2>8, <2>9, NotUndefined, InstallFamily
  <1>5. CASE Die(proc[current].end_value, ok)
    <2>1. proc[current].end_value \in Int
      BY <1>2 DEF Struct
    <2>2. QED BY <1>2, <1>5, <2>1, DieStepFamily
  <1>6. CASE Install(Machine, Resume(Machine, current))
    <2>1. Choice(Machine, Resume(Machine, current))
      BY <1>2 DEF Choice, Resume, Modes
    <2>2. ~orphaned => Outcome(Machine, Machine, current)
      BY FamilyFields, AlikeSelf, Outcomes
    <2>3. QED BY <1>2, <1>6, <2>1, <2>2, NotUndefined, InstallFamily
  <1>7. QED BY <1>3, <1>4, <1>5, <1>6

\* The kernel calls, fork aside.
LEMMA CallFamily == ASSUME FInv, Call PROVE FInv' /\ StepOK
  <1>1. ASSUME NEW status \in Statuses, exit(status) PROVE FInv' /\ StepOK
    <2>1. Calls
      BY <1>1 DEF exit, UserCalls
    <2>2. PICK ok \in KmallocOutcomes : Die(status * 256, ok)
      BY <1>1 DEF exit
    <2>3. status * 256 \in Int
      BY SigAssumption
    <2>4. current # NULL /\ mode = "run"
      BY <2>1 DEF Calls
    <2>5. QED BY <2>2, <2>3, <2>4, DieStepFamily
  <1>2. QED
    BY <1>1, WaitFamily, KillFamily, SignalFamily, FaultFamily DEF Call

\* A step that leaves the structs on the list as they are.
LEMMA SameEffect ==
    ASSUME \A q \in Procs : Has(process_list, q) => proc'[q] = proc[q]
    PROVE  Effect(proc, process_list, proc', process_list, current)
  <1> DEFINE U == proc'
  <1>1. \A q \in Procs : Has(process_list, q) => Alike(proc[q], U[q])
    BY DEF Alike
  <1> HIDE DEF U
  <1>2. Effect(proc, process_list, U, process_list, current)
    BY <1>1, StaysEffect
  <1>3. QED BY <1>2 DEF U

\* process_new and process_alloc_pid at the start of fork: nobody knows the new
\* struct yet.
LEMMA ForkStartFamily == ASSUME FInv, NEW new \in Procs, fork_start(new) PROVE FInv' /\ StepOK
  <1> DEFINE a == process_alloc_pid(Machine, last_pid)
             b == a.pid
             Q == [process_new EXCEPT !.pid = b]
  <1>1. /\ Calls /\ ~Has(process_list, new)
        /\ UNCHANGED <<process_list, current, orphaned>>
        /\ \/ /\ proc' = [proc EXCEPT ![new] = Q]
              /\ mode' = "fork" /\ fork_new' = new
           \/ UNCHANGED <<proc, mode, fork_new, fork_todo>>
    BY DEF fork_start, UserCalls
  <1>2. proc \in [Procs -> Struct] /\ mode = "run"
    BY <1>1, CallsFacts DEF FInv
  <1>3. IInv'
    BY ForkStartStep DEF FInv
  <1>4. Q.children = <<>> /\ Q.sig_handler[SIGCHLD] = "NULL"
    BY SigAssumption DEF process_new
  <1> HIDE DEF Q
  <1>5. \A q \in Procs : Has(process_list, q) => proc'[q] = proc[q]
    BY <1>1, <1>2
  <1>6. mode' = "fork" => /\ proc'[fork_new'].children = <<>>
                          /\ proc'[fork_new'].sig_handler[SIGCHLD] = "NULL"
    BY <1>1, <1>2, <1>4
  <1>7. Effect(proc, process_list, proc', process_list, current)
    BY <1>5, SameEffect
  <1>8. mode' \in {"run", "fork"}
    BY <1>1, <1>2
  <1>9. QED BY <1>1, <1>3, <1>5, <1>6, <1>7, <1>8, StructsFamily

\* One signal is copied.
LEMMA ForkSignalFamily == ASSUME FInv, fork_signal PROVE FInv' /\ StepOK
  <1> DEFINE e == Head(fork_todo)
  <1>1. /\ mode = "fork" /\ fork_todo # <<>>
        /\ UNCHANGED <<process_list, last_pid, current, mode, fork_new, orphaned>>
    BY DEF fork_signal
  <1>2. PICK ok \in KmallocOutcomes :
            proc' = [proc EXCEPT ![fork_new] = add_signal(@, e.sig, e.hard, ok)]
    BY DEF fork_signal
  <1>3. e \in Entry
    BY <1>1 DEF FInv, IInv, Typed
  <1> HIDE DEF e
  <1> DEFINE P == proc[fork_new]
             Q == add_signal(P, e.sig, e.hard, ok)
  <1>4. P \in Struct /\ StructInv(P) /\ fork_new \in Procs /\ ~Has(process_list, fork_new)
        /\ proc \in [Procs -> Struct]
    BY <1>1, ForkFacts DEF FInv
  <1>5. e.sig \in Sigs \cup {0} /\ e.hard \in BOOLEAN /\ ok \in BOOLEAN
    BY <1>3, SigAssumption DEF Entry
  <1>6. Q.children = P.children /\ Q.sig_handler = P.sig_handler
    BY <1>4, <1>5, AddSignal
  <1>7. proc' = [proc EXCEPT ![fork_new] = Q]
    BY <1>2
  <1> HIDE DEF Q
  <1>8. proc'[fork_new] = Q /\ \A q \in Procs : Has(process_list, q) => proc'[q] = proc[q]
    BY <1>4, <1>7
  <1>9. proc'[fork_new'].children = <<>> /\ proc'[fork_new'].sig_handler[SIGCHLD] = "NULL"
    BY <1>1, <1>6, <1>8 DEF FInv
  <1>10. IInv'
    BY ForkSignalStep DEF FInv
  <1>11. Effect(proc, process_list, proc', process_list, current)
    BY <1>8, SameEffect
  <1>12. QED BY <1>1, <1>8, <1>9, <1>10, <1>11, StructsFamily

\* The new process becomes a child of the one that forks, or copy_process fails.
LEMMA ForkEndFamily == ASSUME FInv, NEW ok \in KmallocOutcomes, fork_end(ok) PROVE FInv' /\ StepOK
  <1>1. /\ mode = "fork" /\ mode' = "run" /\ fork_new' = NULL
        /\ UNCHANGED <<last_pid, current, fork_todo, orphaned>>
    BY DEF fork_end
  <1>2. IInv'
    BY ForkEndStep DEF FInv
  <1>3. /\ proc \in [Procs -> Struct] /\ process_list \in Seq(Procs)
        /\ fork_new \in Procs /\ current \in Procs /\ current # fork_new
        /\ Has(process_list, current) /\ ~Has(process_list, fork_new)
        /\ proc[current].state # ZOMBIE /\ Injective(process_list)
        /\ proc[fork_new].children = <<>> /\ proc[fork_new].sig_handler[SIGCHLD] = "NULL"
    BY <1>1, ForkFacts DEF FInv, ListInv
  <1>4. CASE ~ok
    <2>1. proc' = [proc EXCEPT ![fork_new] = process_new] /\ process_list' = process_list
      BY <1>4 DEF fork_end
    <2>2. \A q \in Procs : Has(process_list, q) => proc'[q] = proc[q]
      BY <1>3, <2>1
    <2>3. Effect(proc, process_list, proc', process_list, current)
      BY <2>2, SameEffect
    <2>4. QED BY <1>1, <1>2, <2>1, <2>2, <2>3, StructsFamily
  <1>5. CASE ok
    <2> DEFINE n == fork_new
               F == proc[current]
               P == proc[n]
               st == F.state
               u == F.uid
               ch == <<n>> \o F.children
               Q == [P EXCEPT !.state = st, !.uid = u, !.father = current]
               G == [F EXCEPT !.children = ch]
               T == proc
               U == proc'
               k == process_list
               l == list_add(process_list, fork_new, current)
    <2>1. P \in Struct /\ F \in Struct /\ F.children \in Seq(Procs)
      BY <1>3 DEF Struct
    <2>2. U = [T EXCEPT ![n] = Q, ![current] = G] /\ process_list' = l
      BY <1>3, <1>5 DEF fork_end
    <2>3. ch \in Seq(Procs) /\ \A x \in Procs : Has(ch, x) <=> x = n \/ Has(F.children, x)
      <3>1. <<n>> \in Seq(Procs) /\ Len(<<n>>) = 1 /\ <<n>>[1] = n
        BY <1>3
      <3>2. \A x : Has(<<n>>, x) <=> x = n
        BY <3>1 DEF Has
      <3>3. ch \in Seq(Procs)
        BY <2>1, <3>1, ConcatProperties
      <3>4. \A x \in Procs : Has(ch, x) <=> Has(<<n>>, x) \/ Has(F.children, x)
        <4> DEFINE one == <<n>>
                   old == F.children
        <4>1. one \in Seq(Procs) /\ old \in Seq(Procs)
          BY <2>1, <3>1
        <4> HIDE DEF one, old
        <4>2. \A x \in Procs : Has(one \o old, x) <=> Has(one, x) \/ Has(old, x)
          BY <4>1, ConcatHas
        <4>3. QED BY <4>2 DEF one, old
      <3>5. QED BY <3>2, <3>3, <3>4
    <2>4. \A x \in Procs : Has(l, x) <=> Has(k, x) \/ x = n
      BY <1>3, ListAdd
    <2>5. ASSUME Injective(F.children), ~Has(F.children, n) PROVE Injective(ch)
      <3>1. /\ Len(ch) = 1 + Len(F.children) /\ Len(F.children) \in Nat
            /\ \A i \in 1..(1 + Len(F.children)) : ch[i] = IF i <= 1 THEN n ELSE F.children[i - 1]
        BY <1>3, <2>1, ConcatProperties
      <3> HIDE DEF ch, n, F
      <3>2. \A i \in 1..Len(ch) : i = 1 \/ (i - 1 \in 1..Len(F.children) /\ ch[i] = F.children[i - 1])
        BY <3>1
      <3>3. ch[1] = n
        BY <3>1
      <3> SUFFICES ASSUME NEW i \in 1..Len(ch), NEW j \in 1..Len(ch), i # j, ch[i] = ch[j] PROVE FALSE
        BY DEF Injective
      <3>4. i # 1 /\ j # 1
        BY <2>5, <3>1, <3>2, <3>3 DEF Has
      <3>5. i - 1 # j - 1
        BY <3>1
      <3>6. QED BY <2>5, <3>2, <3>4, <3>5 DEF Injective
    <2> HIDE DEF ch, l, u, st
    <2>6. Q.father = current /\ Q.children = <<>> /\ Q.sig_handler[SIGCHLD] = "NULL"
      BY <1>3, <2>1 DEF Struct
    <2>7. G.children = ch /\ SameBut(F, G)
      BY <2>1, <2>3, SetChildren DEF Struct
    <2>8. Q.state # ZOMBIE
      BY <1>3, <2>1 DEF Struct, st
    <2> HIDE DEF Q, G
    <2>9. U[n] = Q /\ U[current] = G /\ \A q \in Procs : q # n /\ q # current => U[q] = T[q]
      BY <1>3, <2>2
    <2> HIDE DEF U, F, T, n, k
    <2>10. \A q \in Procs : q # n =>
              /\ U[q].father = T[q].father /\ U[q].pid = T[q].pid /\ U[q].state = T[q].state
              /\ U[q].waiting_pid = T[q].waiting_pid /\ U[q].sig_queue = T[q].sig_queue
              /\ U[q].sig_handler = T[q].sig_handler /\ U[q].end_value = T[q].end_value
      BY <2>7, <2>9 DEF SameBut, F, T
    <2>11. Reaping
      BY <1>3, <2>2, <2>4 DEF Reaping, Alive, k, n
    <2>12. ASSUME ~orphaned PROVE Family(U, l) /\ Wake(U, l)
      <3>1. Family(T, k) /\ Wake(T, k)
        BY <2>12 DEF FInv, T, k
      <3>2. /\ current \in Procs /\ n \in Procs /\ n # current /\ Has(k, current) /\ ~Has(k, n)
            /\ \A q \in Procs : T[q].father \in Procs \cup {NULL}
        BY <1>3 DEF n, k, T, Struct
      <3>3. \A q \in Procs : Has(k, q) =>
              /\ Injective(U[q].children)
              /\ \A x \in Procs : Has(U[q].children, x) <=> Has(T[q].children, x) \/ (q = current /\ x = n)
        <4> TAKE q \in Procs
        <4>1. HAVE Has(k, q)
        <4>2. Injective(T[q].children) /\ ~Has(T[q].children, n)
          BY <3>1, <3>2, <4>1 DEF Family
        <4>3. CASE q = current
          <5>1. U[q].children = ch /\ T[q].children = F.children
            BY <2>7, <2>9, <4>3 DEF F, T
          <5>2. Injective(ch)
            BY <2>5, <4>2, <5>1
          <5>3. QED BY <2>3, <4>3, <5>1, <5>2
        <4>4. CASE q # current
          BY <2>9, <3>2, <4>1, <4>2, <4>4
        <4>5. QED BY <4>3, <4>4
      <3>4. ASSUME NEW p \in Procs, Has(l, p)
            PROVE  /\ U[p].father # NULL => Has(l, U[p].father) /\ Has(U[U[p].father].children, p)
                   /\ Injective(U[p].children)
                   /\ \A c \in Procs : Has(U[p].children, c) => Has(l, c) /\ U[c].father = p
        <4>1. CASE p = n
          <5>1. U[p].father = current /\ Has(l, current) /\ Has(U[current].children, n)
            BY <2>4, <2>6, <2>9, <3>2, <3>3, <4>1
          <5>2. U[p].children = <<>> /\ (~\E x : Has(<<>>, x)) /\ Injective(<<>>)
            <6>1. Len(<<>>) = 0
              OBVIOUS
            <6>2. QED BY <2>6, <2>9, <4>1, <6>1 DEF Has, Injective
          <5>3. QED BY <4>1, <5>1, <5>2
        <4>2. CASE p # n
          <5>1. Has(k, p)
            BY <2>4, <3>4, <4>2
          <5>2. ASSUME U[p].father # NULL PROVE Has(l, U[p].father) /\ Has(U[U[p].father].children, p)
            <6>1. U[p].father = T[p].father /\ T[p].father \in Procs
              BY <2>10, <3>2, <4>2, <5>2
            <6>2. Has(k, T[p].father) /\ Has(T[T[p].father].children, p)
              BY <3>1, <5>1, <5>2, <6>1 DEF Family
            <6>3. QED BY <2>4, <3>3, <6>1, <6>2
          <5>3. ASSUME NEW c \in Procs, Has(U[p].children, c) PROVE Has(l, c) /\ U[c].father = p
            <6>1. CASE Has(T[p].children, c)
              <7>1. Has(k, c) /\ T[c].father = p
                BY <3>1, <5>1, <6>1 DEF Family
              <7>2. QED BY <2>4, <2>10, <3>2, <7>1
            <6>2. CASE p = current /\ c = n
              BY <2>4, <2>6, <2>9, <6>2
            <6>3. QED BY <3>3, <5>1, <5>3, <6>1, <6>2
          <5>4. QED BY <3>3, <5>1, <5>2, <5>3
        <4>3. QED BY <4>1, <4>2
      <3>5. Family(U, l)
        BY <3>4 DEF Family
      <3>6. ASSUME KmallocOutcomes = {TRUE}, NEW f \in Procs, Has(l, f), Deaf(U[f]) PROVE Calm(U, f)
        <4>1. CASE f = n
          <5>1. Len(<<>>) = 0
            OBVIOUS
          <5>2. QED BY <2>6, <2>9, <4>1, <5>1 DEF Calm, Has
        <4>2. CASE f # n
          <5>1. Has(k, f)
            BY <2>4, <3>6, <4>2
          <5>2. Deaf(T[f])
            BY <2>10, <3>6, <4>2 DEF Deaf, Pending
          <5>3. Calm(T, f)
            BY <3>1, <3>6, <5>1, <5>2 DEF Wake
          <5>4. ASSUME NEW c \in Procs, Has(U[f].children, c), U[c].state = ZOMBIE
                PROVE  U[f].waiting_pid # -1 /\ U[f].waiting_pid # U[c].pid
            <6>1. c # n /\ Has(T[f].children, c)
              BY <2>8, <2>9, <3>3, <5>1, <5>4
            <6>2. QED BY <2>10, <4>2, <5>3, <5>4, <6>1 DEF Calm
          <5>5. QED BY <5>4 DEF Calm
        <4>3. QED BY <4>1, <4>2
      <3>7. QED BY <3>5, <3>6 DEF Wake
    <2>13. ~orphaned' => Family(proc, process_list)' /\ Wake(proc, process_list)'
      BY <1>1, <2>2, <2>12, FamilyPrime DEF U
    <2>14. Effect(T, k, U, l, current)
      <3>1. Acts(T, k, current)
        BY <1>3 DEF Acts, T, k
      <3>2. AlikeBut(T, k, U, n)
        BY <2>10 DEF AlikeBut, Alike
      <3>3. n \in Procs /\ ~Has(k, n)
        BY <1>3 DEF n, k
      <3>4. Comes(T, k, U, l, n, current)
        BY <2>4, <2>6, <2>8, <2>9, <3>2, <3>3 DEF Comes
      <3>5. QED BY <3>1, <3>3, <3>4, Zenon DEF Effect
    <2>15. StepOK
      <3>1. ~\E q \in Procs : Has(k, q) /\ ~Has(l, q)
        BY <2>4
      <3>2. Effect(proc, process_list, proc', process_list', current)
        BY <2>2, <2>14 DEF T, U, k
      <3>3. ASSUME ~orphaned PROVE Visible
        <4>1. orphaned' = FALSE
          BY <1>1, <3>3 DEF FInv, IInv, Typed
        <4>2. ~\E q \in Procs : /\ Has(process_list, q) /\ ~Has(process_list', q)
                               /\ proc[q].children # <<>>
          BY <2>2, <3>1 DEF k
        <4>3. mode' \in {"run", "load", "fork"}
          BY <1>5 DEF fork_end
        <4>4. QED BY <3>2, <4>1, <4>2, <4>3 DEF Visible
      <3>4. QED BY <1>1, <2>11, <3>3 DEF StepOK
    <2>16. QED BY <1>1, <1>2, <2>13, <2>15 DEF FInv
  <1>6. QED BY <1>4, <1>5, SigAssumption

\* The two processes kmain makes have no relations.
LEMMA InitFamily == Init => FInv
  <1> SUFFICES ASSUME Init PROVE FInv
    OBVIOUS
  <1>1. IInv
    BY InitIInv
  <1>2. \A p \in Procs : proc[p].father = NULL /\ proc[p].children = <<>>
    <2> TAKE p \in Procs
    <2>1. PICK uid \in Uids : proc = [q \in Procs |->
              CASE q = InitProc  -> [process_new EXCEPT !.pid = PROC_MIN_PID]
                [] q = ShellProc -> [process_new EXCEPT !.pid = PROC_MIN_PID + 1, !.uid = uid]
                [] OTHER         -> process_new]
      BY DEF Init
    <2> DEFINE I == [process_new EXCEPT !.pid = PROC_MIN_PID]
               S == [process_new EXCEPT !.pid = PROC_MIN_PID + 1, !.uid = uid]
    <2>2. /\ I.father = NULL /\ I.children = <<>> /\ S.father = NULL /\ S.children = <<>>
          /\ process_new.father = NULL /\ process_new.children = <<>>
      BY DEF process_new
    <2> HIDE DEF I, S
    <2>3. proc[p] \in {I, S, process_new}
      BY <2>1, ProcsAssumption DEF I, S
    <2>4. QED BY <2>2, <2>3
  <1>3. Injective(<<>>) /\ (~\E x : Has(<<>>, x))
    <2>1. Len(<<>>) = 0
      OBVIOUS
    <2>2. QED BY <2>1 DEF Has, Injective
  <1>4. Family(proc, process_list)
    BY <1>2, <1>3 DEF Family
  <1>5. Wake(proc, process_list)
    BY <1>2, <1>3 DEF Wake, Calm
  <1>6. QED BY <1>1, <1>4, <1>5 DEF FInv, Init

\* Every step of the kernel keeps the invariant, reaps what zombies it frees, and
\* has an effect that programs know.
LEMMA NextFamily == FInv /\ [Next]_vars => FInv' /\ (StepOK \/ UNCHANGED vars)
  <1> SUFFICES ASSUME FInv, [Next]_vars PROVE FInv' /\ (StepOK \/ UNCHANGED vars)
    OBVIOUS
  <1>1. CASE UNCHANGED vars
    <2>1. IInv'
      BY <1>1, NextIInv DEF FInv
    <2>2. ~orphaned => Family(proc, process_list)' /\ Wake(proc, process_list)'
      BY <1>1, FamilyPrime DEF vars, FInv
    <2>3. QED BY <1>1, <2>1, <2>2 DEF vars, FInv
  <1>2. CASE irq_clock
    BY <1>2, ClockFamily
  <1>3. CASE Deliver
    BY <1>3, DeliverFamily
  <1>4. CASE Call
    BY <1>4, CallFamily
  <1>5. CASE Fork
    BY <1>5, ForkStartFamily, ForkSignalFamily, ForkEndFamily DEF Fork
  <1>6. CASE Halted
    BY <1>1, <1>6 DEF Halted
  <1>7. QED BY <1>1, <1>2, <1>3, <1>4, <1>5, <1>6 DEF Next

-----------------------------------------------------------------------------
(* Theorems *)

\* free_process, copy_process, process_die_safe and end_of_child: until a
\* process is freed that still has children, the father pointers and the
\* children lists of the processes agree, and no kernel call reads freed memory.
THEOREM FamilyIsOK == Spec => []FamilyOK
  <1>1. FInv => FamilyOK
    <2> SUFFICES ASSUME FInv, ~orphaned
                 PROVE  /\ mode # "undefined"
                        /\ \A p \in Procs : Has(process_list, p) =>
                             /\ proc[p].father # NULL => /\ Has(process_list, proc[p].father)
                                                         /\ Has(proc[proc[p].father].children, p)
                             /\ \A i, j \in 1..Len(proc[p].children) :
                                  /\ Has(process_list, proc[p].children[i])
                                  /\ proc[proc[p].children[i]].father = p
                                  /\ i # j => proc[p].children[i] # proc[p].children[j]
      BY DEF FamilyOK, Alive
    <2>1. Family(proc, process_list) /\ mode # "undefined" /\ proc \in [Procs -> Struct]
      BY DEF FInv, IInv, Typed
    <2>2. ASSUME NEW p \in Procs, Has(process_list, p), NEW i \in 1..Len(proc[p].children)
          PROVE  Has(process_list, proc[p].children[i]) /\ proc[proc[p].children[i]].father = p
      <3>1. proc[p].children \in Seq(Procs)
        BY <2>1 DEF Struct
      <3>2. proc[p].children[i] \in Procs /\ Has(proc[p].children, proc[p].children[i])
        BY <3>1 DEF Has
      <3>3. QED BY <2>1, <2>2, <3>2 DEF Family
    <2>3. ASSUME NEW p \in Procs, Has(process_list, p)
          PROVE  /\ Injective(proc[p].children)
                 /\ proc[p].father # NULL => /\ Has(process_list, proc[p].father)
                                             /\ Has(proc[proc[p].father].children, p)
      BY <2>1, <2>3 DEF Family
    <2>4. QED BY <2>1, <2>2, <2>3 DEF Injective
  <1>2. QED BY InitFamily, NextFamily, <1>1, PTL DEF Spec

\* end_of_child: until then a zombie is freed by its father and nobody else,
\* which is told its pid, runs, and keeps its other children.
THEOREM ZombiesReaped == Spec => ReapedByFather
  <1>1. FInv /\ [Next]_vars =>
          [\A p \in Procs :
             (~orphaned /\ Alive(p) /\ proc[p].state = ZOMBIE /\ ~Alive(p)') =>
                LET f == proc[p].father
                IN  /\ f = current
                    /\ proc'[f].waiting_pid = proc[p].pid
                    /\ proc'[f].state = RUN
                    /\ \A c \in Procs : c # p =>
                         (Has(proc'[f].children, c) <=>
                             \/ Has(proc[f].children, c)
                             \/ proc[f].pid = PROC_MIN_PID /\ Has(proc[p].children, c))]_vars
    BY NextFamily DEF Reaping, StepOK
  <1>2. QED BY InitFamily, NextFamily, <1>1, PTL DEF Spec, ReapedByFather

\* process_waitpid, child_ended and add_signal: as long as kmalloc does not fail,
\* a process stopped to wait for a child that is a zombie has the SIGCHLD pending
\* that will wake it.  When kmalloc fails, process_die_safe sends none.
THEOREM NoWakeupLost == ASSUME KmallocOutcomes = {TRUE} PROVE Spec => []NoLostWakeup
  <1>1. FInv => NoLostWakeup
    <2> SUFFICES ASSUME FInv, NEW f \in Procs, Woken(f) PROVE Queued(f, SIGCHLD)
      BY DEF NoLostWakeup
    <2>1. /\ ~orphaned /\ Has(process_list, f) /\ proc[f].state = STOPPED
          /\ proc[f].sig_handler[SIGCHLD] = "NULL"
      BY DEF Woken, Alive
    <2>2. PICK i \in 1..Len(proc[f].children) :
              /\ proc[proc[f].children[i]].state = ZOMBIE
              /\ \/ proc[f].waiting_pid = -1
                 \/ proc[f].waiting_pid = proc[proc[f].children[i]].pid
      BY DEF Woken
    <2>3. proc[f].children \in Seq(Procs)
      BY DEF FInv, IInv, Typed, Struct
    <2>4. proc[f].children[i] \in Procs /\ Has(proc[f].children, proc[f].children[i])
      BY <2>3 DEF Has
    <2>5. ~Calm(proc, f)
      BY <2>2, <2>4 DEF Calm
    <2>6. ~Deaf(proc[f])
      BY <2>1, <2>5 DEF FInv, Wake
    <2>7. Pending(proc[f])
      BY <2>1, <2>6 DEF Deaf, STOPPED, ZOMBIE
    <2>8. QED BY <2>7 DEF Pending, Queued
  <1>2. QED BY InitFamily, NextFamily, <1>1, PTL DEF Spec
-----------------------------------------------------------------------------
(* The process table implements PidTable.  S is what programs see of the     *)
(* structs T on the list l, and R what they see of U on k.                   *)

InOrder(T, l) == T \in [Procs -> Struct] /\ ListInv(T, l) /\ Family(T, l)

\* The table has the processes on the list, each at its pid.
LEMMA TableAt ==
    ASSUME NEW T, NEW l, ListInv(T, l)
    PROVE  /\ DOMAIN TableOf(T, l) = PidsInUse(T, l)
           /\ \A p \in Procs : Has(l, p) => /\ T[p].pid \in PidsInUse(T, l)
                                            /\ TableOf(T, l)[T[p].pid] = Seen(T, T[p])
           /\ \A n \in PidsInUse(T, l) : \E p \in Procs : Has(l, p) /\ T[p].pid = n
  <1>1. ASSUME NEW p \in Procs, Has(l, p) PROVE Owner(T, l, T[p].pid) = p
    <2> DEFINE o == Owner(T, l, T[p].pid)
    <2>1. o \in Procs /\ Has(l, o) /\ T[o].pid = T[p].pid
      BY <1>1 DEF Owner
    <2> HIDE DEF o
    <2>2. o = p
      BY <1>1, <2>1 DEF ListInv
    <2>3. QED BY <2>2 DEF o
  <1>2. \A p \in Procs : Has(l, p) => T[p].pid \in PidsInUse(T, l)
    BY DEF PidsInUse
  <1>3. \A n \in PidsInUse(T, l) : \E p \in Procs : Has(l, p) /\ T[p].pid = n
    BY DEF PidsInUse
  <1>4. /\ DOMAIN TableOf(T, l) = PidsInUse(T, l)
        /\ \A n \in PidsInUse(T, l) : TableOf(T, l)[n] = Seen(T, T[Owner(T, l, n)])
    BY DEF TableOf
  <1>5. QED BY <1>1, <1>2, <1>3, <1>4

\* A function that has those processes, each at its pid, is the table.
LEMMA TableIs ==
    ASSUME NEW U, NEW k, ListInv(U, k), NEW F, F = [m \in DOMAIN F |-> F[m]],
           \A p \in Procs : Has(k, p) => U[p].pid \in DOMAIN F /\ F[U[p].pid] = Seen(U, U[p]),
           \A m \in DOMAIN F : \E p \in Procs : Has(k, p) /\ U[p].pid = m
    PROVE  TableOf(U, k) = F
  <1> DEFINE R == TableOf(U, k)
  <1>1. /\ DOMAIN R = PidsInUse(U, k)
        /\ \A p \in Procs : Has(k, p) => U[p].pid \in PidsInUse(U, k) /\ R[U[p].pid] = Seen(U, U[p])
        /\ \A n \in PidsInUse(U, k) : \E p \in Procs : Has(k, p) /\ U[p].pid = n
    BY TableAt
  <1>2. R = [m \in DOMAIN R |-> R[m]]
    BY DEF TableOf
  <1> HIDE DEF R
  <1>3. DOMAIN R = DOMAIN F
    BY <1>1
  <1>4. \A m \in DOMAIN F : R[m] = F[m]
    BY <1>1
  <1>5. R = F
    BY <1>2, <1>3, <1>4, Zenon
  <1>6. QED BY <1>5 DEF R

\* Who shows the same, and whose father has kept its pid, is seen as before.
LEMMA SeenSame ==
    ASSUME NEW T, NEW U, NEW P, NEW Q, Alike(P, Q),
           P.father # NULL => U[P.father].pid = T[P.father].pid
    PROVE  Seen(U, Q) = Seen(T, P)
  <1>1. (Q.state = ZOMBIE) = (P.state = ZOMBIE)
    BY DEF Alike
  <1>2. (Q.sig_handler[SIGCHLD] = "NULL") = (P.sig_handler[SIGCHLD] = "NULL")
    BY DEF Alike
  <1>3. QED BY <1>1, <1>2 DEF Alike, Seen

\* So are the others, when a struct changes that keeps its pid; if it does not,
\* its children lose their father.
LEMMA SeenBut ==
    ASSUME NEW T, NEW l, InOrder(T, l), NEW U, NEW p \in Procs, AlikeBut(T, l, U, p),
           NEW q \in Procs, q # p, Has(l, q)
    PROVE  /\ U[q].pid = T[q].pid
           /\ T[q].father # p \/ U[p].pid = T[p].pid => Seen(U, U[q]) = Seen(T, T[q])
           /\ T[q].father = p /\ U[p].pid = 0 => Seen(U, U[q]) = [Seen(T, T[q]) EXCEPT !.father = 0]
  <1>1. Alike(T[q], U[q])
    BY DEF AlikeBut
  <1>2. T[q].father # NULL => T[q].father \in Procs /\ Has(l, T[q].father)
    BY DEF InOrder, Family, Struct
  <1>3. ASSUME T[q].father # NULL, T[q].father # p PROVE U[T[q].father].pid = T[T[q].father].pid
    BY <1>2, <1>3 DEF AlikeBut, Alike
  <1>4. ASSUME T[q].father # p \/ U[p].pid = T[p].pid PROVE Seen(U, U[q]) = Seen(T, T[q])
    BY <1>1, <1>3, <1>4, SeenSame
  <1>5. ASSUME T[q].father = p, U[p].pid = 0
        PROVE  Seen(U, U[q]) = [Seen(T, T[q]) EXCEPT !.father = 0]
    <2>1. (U[q].state = ZOMBIE) = (T[q].state = ZOMBIE)
      BY <1>1 DEF Alike
    <2>2. (U[q].sig_handler[SIGCHLD] = "NULL") = (T[q].sig_handler[SIGCHLD] = "NULL")
      BY <1>1 DEF Alike
    <2>3. U[q].father = p /\ p # NULL
      BY <1>1, <1>5, ProcsAssumption DEF Alike
    <2>4. T[q].state = ZOMBIE => U[q].end_value = T[q].end_value
      BY <1>1 DEF Alike
    <2>5. QED BY <1>5, <2>1, <2>2, <2>3, <2>4 DEF Seen
  <1>6. U[q].pid = T[q].pid
    BY <1>1 DEF Alike
  <1>7. QED BY <1>4, <1>5, <1>6

\* What p is seen as, in a table in order.
LEMMA SeenAt ==
    ASSUME NEW T, NEW l, InOrder(T, l), NEW p \in Procs, Has(l, p)
    PROVE  LET S == TableOf(T, l)
               n == T[p].pid
           IN  /\ n \in DOMAIN S /\ n \in Pids /\ n # 0
               /\ S[n] = Seen(T, T[p])
               /\ S[n].ended <=> T[p].state = ZOMBIE
               /\ T[p].father = NULL => S[n].father = 0
               /\ T[p].father # NULL => /\ T[p].father \in Procs /\ Has(l, T[p].father)
                                        /\ S[n].father = T[T[p].father].pid
               /\ \A q \in Procs : Has(l, q) => (S[n].father = T[q].pid <=> T[p].father = q)
               /\ S[n].keeps <=> T[p].sig_handler[SIGCHLD] = "NULL"
  <1> DEFINE S == TableOf(T, l)
             n == T[p].pid
             P == T[p]
  <1>1. n \in DOMAIN S /\ S[n] = Seen(T, P)
    BY TableAt DEF InOrder
  <1>2. n \in Pids /\ n # 0
    BY PidAssumption DEF InOrder, ListInv, Pids
  <1>3. P.father # NULL => P.father \in Procs /\ Has(l, P.father)
    BY DEF InOrder, Family, Struct
  <1>4. \A q \in Procs : Has(l, q) => T[q].pid # 0 /\ T[q].pid \in Pids
    BY PidAssumption DEF InOrder, ListInv, Pids
  <1>5. \A q \in Procs : Has(l, q) /\ P.father # NULL /\ T[P.father].pid = T[q].pid => P.father = q
    BY <1>3 DEF InOrder, ListInv
  <1> HIDE DEF S, n, P
  <1>6. /\ S[n].ended <=> P.state = ZOMBIE
        /\ S[n].keeps <=> P.sig_handler[SIGCHLD] = "NULL"
        /\ S[n].father = IF P.father = NULL THEN 0 ELSE T[P.father].pid
    <2>1. S[n] = Seen(T, P)
      BY <1>1
    <2>2. S[n].ended = (P.state = ZOMBIE) /\ S[n].keeps = (P.sig_handler[SIGCHLD] = "NULL")
      BY <2>1 DEF Seen
    <2>3. S[n].father = IF P.father = NULL THEN 0 ELSE T[P.father].pid
      BY <2>1 DEF Seen
    <2>4. QED BY <2>2, <2>3
  <1>7. \A q \in Procs : Has(l, q) => (S[n].father = T[q].pid <=> P.father = q)
    BY <1>4, <1>5, <1>6, ProcsAssumption
  <1>8. QED BY <1>1, <1>2, <1>3, <1>6, <1>7 DEF S, n, P

\* A step that nobody sees.
LEMMA StaysTable ==
    ASSUME NEW T, NEW l, InOrder(T, l), NEW U, NEW k, ListInv(U, k), Stays(T, l, U, k)
    PROVE  TableOf(U, k) = TableOf(T, l)
  <1> DEFINE S == TableOf(T, l)
  <1>1. \A q \in Procs : Has(k, q) <=> Has(l, q)
    BY DEF Stays, SameMembers
  <1>2. ASSUME NEW q \in Procs, Has(l, q) PROVE U[q].pid = T[q].pid /\ Seen(U, U[q]) = Seen(T, T[q])
    <2>1. Alike(T[q], U[q])
      BY <1>2 DEF Stays
    <2>2. T[q].father # NULL => T[q].father \in Procs /\ Has(l, T[q].father)
      BY <1>2 DEF InOrder, Family, Struct
    <2>3. T[q].father # NULL => U[T[q].father].pid = T[T[q].father].pid
      BY <2>2 DEF Stays, Alike
    <2>4. Seen(U, U[q]) = Seen(T, T[q])
      BY <2>1, <2>3, SeenSame
    <2>5. QED BY <2>1, <2>4 DEF Alike
  <1>3. /\ \A p \in Procs : Has(l, p) => T[p].pid \in DOMAIN S /\ S[T[p].pid] = Seen(T, T[p])
        /\ \A n \in DOMAIN S : \E p \in Procs : Has(l, p) /\ T[p].pid = n
    BY TableAt DEF InOrder
  <1>4. S = [m \in DOMAIN S |-> S[m]]
    BY DEF TableOf
  <1> HIDE DEF S
  <1>5. \A p \in Procs : Has(k, p) => U[p].pid \in DOMAIN S /\ S[U[p].pid] = Seen(U, U[p])
    BY <1>1, <1>2, <1>3
  <1>6. \A m \in DOMAIN S : \E p \in Procs : Has(k, p) /\ U[p].pid = m
    BY <1>1, <1>2, <1>3
  <1>7. QED BY <1>4, <1>5, <1>6, TableIs DEF S

\* A step that changes what one process, p, is seen as.
LEMMA ChangeTable ==
    ASSUME NEW T, NEW l, InOrder(T, l), NEW U, NEW k, ListInv(U, k), SameMembers(l, k),
           NEW p \in Procs, Has(l, p), AlikeBut(T, l, U, p), U[p].pid = T[p].pid
    PROVE  TableOf(U, k) = [TableOf(T, l) EXCEPT ![T[p].pid] = Seen(U, U[p])]
  <1> DEFINE S == TableOf(T, l)
             n == T[p].pid
             F == [S EXCEPT ![n] = Seen(U, U[p])]
  <1>1. \A q \in Procs : Has(k, q) <=> Has(l, q)
    BY DEF SameMembers
  <1>2. ASSUME NEW q \in Procs, q # p, Has(l, q)
        PROVE  U[q].pid = T[q].pid /\ Seen(U, U[q]) = Seen(T, T[q])
    <2>1. /\ U[q].pid = T[q].pid
          /\ T[q].father # p \/ U[p].pid = T[p].pid => Seen(U, U[q]) = Seen(T, T[q])
          /\ T[q].father = p /\ U[p].pid = 0 => Seen(U, U[q]) = [Seen(T, T[q]) EXCEPT !.father = 0]
      BY <1>2, SeenBut
    <2>2. QED BY <2>1
  <1>3. /\ \A q \in Procs : Has(l, q) => T[q].pid \in DOMAIN S /\ S[T[q].pid] = Seen(T, T[q])
        /\ \A m \in DOMAIN S : \E q \in Procs : Has(l, q) /\ T[q].pid = m
    BY TableAt DEF InOrder
  <1>4. \A q \in Procs : q # p /\ Has(l, q) => T[q].pid # n
    BY DEF InOrder, ListInv
  <1>5. DOMAIN F = DOMAIN S /\ F = [m \in DOMAIN F |-> F[m]]
    OBVIOUS
  <1>6. F[n] = Seen(U, U[p]) /\ \A m \in DOMAIN S : m # n => F[m] = S[m]
    BY <1>3
  <1> HIDE DEF S, F, n
  <1>7. ASSUME NEW q \in Procs, Has(k, q) PROVE U[q].pid \in DOMAIN F /\ F[U[q].pid] = Seen(U, U[q])
    <2>1. CASE q = p
      BY <1>3, <1>5, <1>6, <2>1 DEF n
    <2>2. CASE q # p
      BY <1>1, <1>2, <1>3, <1>4, <1>5, <1>6, <1>7, <2>2
    <2>3. QED BY <2>1, <2>2
  <1>8. \A m \in DOMAIN F : \E q \in Procs : Has(k, q) /\ U[q].pid = m
    BY <1>1, <1>2, <1>3, <1>5
  <1>9. TableOf(U, k) = F
    BY <1>5, <1>7, <1>8, TableIs
  <1>10. QED BY <1>9 DEF F, S, n

\* A process goes.
LEMMA GoesTable ==
    ASSUME NEW T, NEW l, InOrder(T, l), NEW U, NEW k, ListInv(U, k),
           NEW c \in Procs, Goes(T, l, U, k, c)
    PROVE  LET S == TableOf(T, l)
               n == T[c].pid
           IN  TableOf(U, k) = [m \in DOMAIN S \ {n} |->
                                    IF S[m].father = n THEN [S[m] EXCEPT !.father = 0] ELSE S[m]]
  <1> DEFINE S == TableOf(T, l)
             n == T[c].pid
             G(m) == IF S[m].father = n THEN [S[m] EXCEPT !.father = 0] ELSE S[m]
             F == [m \in DOMAIN S \ {n} |-> G(m)]
  <1>1. /\ Has(l, c) /\ \A q \in Procs : Has(k, q) <=> Has(l, q) /\ q # c
        /\ AlikeBut(T, l, U, c) /\ U[c].pid = 0
    BY DEF Goes
  <1>2. /\ \A q \in Procs : Has(l, q) => T[q].pid \in DOMAIN S /\ S[T[q].pid] = Seen(T, T[q])
        /\ \A m \in DOMAIN S : \E q \in Procs : Has(l, q) /\ T[q].pid = m
    BY TableAt DEF InOrder
  <1>3. \A q \in Procs : q # c /\ Has(l, q) => T[q].pid # n
    BY <1>1 DEF InOrder, ListInv
  <1>4. ASSUME NEW q \in Procs, q # c, Has(l, q)
        PROVE  U[q].pid = T[q].pid /\ Seen(U, U[q]) = G(T[q].pid)
    <2>1. S[T[q].pid].father = n <=> T[q].father = c
      BY <1>1, <1>4, SeenAt
    <2>2. /\ U[q].pid = T[q].pid
          /\ T[q].father # c => Seen(U, U[q]) = Seen(T, T[q])
          /\ T[q].father = c => Seen(U, U[q]) = [Seen(T, T[q]) EXCEPT !.father = 0]
      BY <1>1, <1>4, SeenBut
    <2>3. S[T[q].pid] = Seen(T, T[q])
      BY <1>2, <1>4
    <2> HIDE DEF S, n
    <2>4. QED BY <2>1, <2>2, <2>3
  <1>5. DOMAIN F = DOMAIN S \ {n} /\ F = [m \in DOMAIN F |-> F[m]]
    OBVIOUS
  <1>6. \A m \in DOMAIN S \ {n} : F[m] = G(m)
    OBVIOUS
  <1> HIDE DEF S, F, n, G
  <1>7. ASSUME NEW q \in Procs, Has(k, q) PROVE U[q].pid \in DOMAIN F /\ F[U[q].pid] = Seen(U, U[q])
    BY <1>1, <1>2, <1>3, <1>4, <1>5, <1>6, <1>7
  <1>8. \A m \in DOMAIN F : \E q \in Procs : Has(k, q) /\ U[q].pid = m
    <2> TAKE m \in DOMAIN F
    <2>1. m \in DOMAIN S /\ m # n
      BY <1>5
    <2>2. PICK q \in Procs : Has(l, q) /\ T[q].pid = m
      BY <1>2, <2>1
    <2>3. q # c
      BY <2>1, <2>2 DEF n
    <2>4. QED BY <1>1, <1>4, <2>2, <2>3
  <1>9. TableOf(U, k) = F
    BY <1>5, <1>7, <1>8, TableIs
  <1>10. QED BY <1>9 DEF F, S, n, G

\* A process comes, and gets a pid that nobody has.
LEMMA ComesTable ==
    ASSUME NEW T, NEW l, InOrder(T, l), NEW U, NEW k, ListInv(U, k),
           NEW p \in Procs, Has(l, p), NEW c \in Procs, Comes(T, l, U, k, c, p)
    PROVE  LET S == TableOf(T, l)
               n == U[c].pid
           IN  /\ n \in Pids \ DOMAIN S
               /\ TableOf(U, k) = [m \in DOMAIN S \cup {n} |->
                                      IF m = n THEN Promise!NewChild(T[p].pid) ELSE S[m]]
  <1> DEFINE S == TableOf(T, l)
             n == U[c].pid
             G(m) == IF m = n THEN Promise!NewChild(T[p].pid) ELSE S[m]
             F == [m \in DOMAIN S \cup {n} |-> G(m)]
  <1>1. /\ ~Has(l, c) /\ \A q \in Procs : Has(k, q) <=> Has(l, q) \/ q = c
        /\ AlikeBut(T, l, U, c)
        /\ U[c].father = p /\ U[c].state # ZOMBIE /\ U[c].sig_handler[SIGCHLD] = "NULL"
    BY DEF Comes
  <1>2. /\ \A q \in Procs : Has(l, q) => T[q].pid \in DOMAIN S /\ S[T[q].pid] = Seen(T, T[q])
        /\ \A m \in DOMAIN S : \E q \in Procs : Has(l, q) /\ T[q].pid = m
    BY TableAt DEF InOrder
  <1>3. ASSUME NEW q \in Procs, Has(l, q)
        PROVE  q # c /\ U[q].pid = T[q].pid /\ Seen(U, U[q]) = Seen(T, T[q])
    <2>1. q # c /\ T[q].father # c
      BY <1>1, <1>3, ProcsAssumption DEF InOrder, Family
    <2>2. /\ U[q].pid = T[q].pid
          /\ T[q].father # c \/ U[c].pid = T[c].pid => Seen(U, U[q]) = Seen(T, T[q])
          /\ T[q].father = c /\ U[c].pid = 0 => Seen(U, U[q]) = [Seen(T, T[q]) EXCEPT !.father = 0]
      BY <1>1, <1>3, <2>1, SeenBut
    <2>3. QED BY <2>1, <2>2
  <1>4. n \in Pids /\ \A q \in Procs : Has(l, q) => U[q].pid # n
    BY <1>1, <1>3 DEF ListInv
  <1>5. n \notin DOMAIN S
    BY <1>2, <1>3, <1>4
  <1>6. Seen(U, U[c]) = Promise!NewChild(T[p].pid)
    <2>1. U[p].pid = T[p].pid
      BY <1>3
    <2>2. /\ (U[c].state = ZOMBIE) = FALSE /\ (U[c].sig_handler[SIGCHLD] = "NULL") = TRUE
          /\ U[c].father = p /\ p # NULL
      BY <1>1, ProcsAssumption
    <2>3. QED BY <2>1, <2>2 DEF Seen, Promise!NewChild
  <1>7. DOMAIN F = DOMAIN S \cup {n} /\ F = [m \in DOMAIN F |-> F[m]]
    OBVIOUS
  <1>8. F[n] = Promise!NewChild(T[p].pid) /\ \A m \in DOMAIN S : m # n => F[m] = S[m]
    OBVIOUS
  <1> HIDE DEF S, F, n, G
  <1>9. ASSUME NEW q \in Procs, Has(k, q) PROVE U[q].pid \in DOMAIN F /\ F[U[q].pid] = Seen(U, U[q])
    <2>1. CASE q = c
      BY <1>6, <1>7, <1>8, <2>1 DEF n
    <2>2. CASE q # c
      BY <1>1, <1>2, <1>3, <1>4, <1>7, <1>8, <1>9, <2>2
    <2>3. QED BY <2>1, <2>2
  <1>10. \A m \in DOMAIN F : \E q \in Procs : Has(k, q) /\ U[q].pid = m
    <2> TAKE m \in DOMAIN F
    <2>1. CASE m = n
      BY <1>1, <2>1 DEF n
    <2>2. CASE m \in DOMAIN S
      BY <1>1, <1>2, <1>3, <2>2
    <2>3. QED BY <1>7, <2>1, <2>2
  <1>11. TableOf(U, k) = F
    BY <1>7, <1>9, <1>10, TableIs
  <1>12. QED BY <1>4, <1>5, <1>11 DEF F, S, n, G

\* The children of a process, by its list and by their fathers.
LEMMA HasChildren ==
    ASSUME NEW T, NEW l, InOrder(T, l), NEW c \in Procs, Has(l, c)
    PROVE  LET S == TableOf(T, l)
           IN  T[c].children # <<>> <=> \E m \in DOMAIN S : S[m].father = T[c].pid
  <1> DEFINE S == TableOf(T, l)
             ch == T[c].children
  <1>1. ch \in Seq(Procs)
    BY DEF InOrder, Struct
  <1>2. ASSUME ch # <<>> PROVE \E m \in DOMAIN S : S[m].father = T[c].pid
    <2>1. PICK q \in Procs : Has(ch, q)
      BY <1>1, <1>2, NoMembers
    <2>2. Has(l, q) /\ T[q].father = c
      BY <2>1 DEF InOrder, Family
    <2>3. T[q].pid \in DOMAIN S /\ S[T[q].pid].father = T[c].pid
      BY <2>2, SeenAt
    <2> HIDE DEF S
    <2>4. QED BY <2>3
  <1>3. ASSUME NEW m \in DOMAIN S, S[m].father = T[c].pid PROVE ch # <<>>
    <2>1. PICK q \in Procs : Has(l, q) /\ T[q].pid = m
      BY TableAt DEF InOrder
    <2>2. S[T[q].pid].father = T[c].pid <=> T[q].father = c
      BY <2>1, SeenAt
    <2>3. T[q].father = c
      BY <1>3, <2>1, <2>2
    <2>4. Has(ch, q)
      BY <2>1, <2>3, ProcsAssumption DEF InOrder, Family
    <2>5. QED BY <1>1, <2>4, NoMembers
  <1>4. QED BY <1>2, <1>3

\* Whom a process is kept for when it ends, by the structs and by the table.
LEMMA KeptMinded ==
    ASSUME NEW T, NEW l, InOrder(T, l), NEW p \in Procs, Has(l, p)
    PROVE  LET S == TableOf(T, l)
               n == T[p].pid
           IN  (S[n].father # 0 /\ S[S[n].father].keeps) <=> Minded(T, p)
  <1> DEFINE S == TableOf(T, l)
             n == T[p].pid
             f == T[p].father
  <1>1. /\ f = NULL => S[n].father = 0
        /\ f # NULL => f \in Procs /\ Has(l, f) /\ S[n].father = T[f].pid
    BY SeenAt
  <1>2. ASSUME NEW q \in Procs, Has(l, q)
        PROVE  T[q].pid # 0 /\ (S[T[q].pid].keeps <=> T[q].sig_handler[SIGCHLD] = "NULL")
    BY <1>2, SeenAt
  <1> HIDE DEF S, n
  <1>3. (S[n].father # 0 /\ S[S[n].father].keeps) <=> Minded(T, p)
    BY <1>1, <1>2 DEF Minded
  <1>4. QED BY <1>3 DEF S, n

\* What a process that changes, but keeps its pid and its father, is seen as.
LEMMA SeenSelf ==
    ASSUME NEW T, NEW l, InOrder(T, l), NEW U, NEW p \in Procs, Has(l, p), AlikeBut(T, l, U, p),
           U[p].pid = T[p].pid, U[p].father = T[p].father
    PROVE  /\ Seen(U, U[p]).father = Seen(T, T[p]).father
           /\ Seen(U, U[p]).ended <=> U[p].state = ZOMBIE
           /\ U[p].state # ZOMBIE => Seen(U, U[p]).status = 0
           /\ Seen(U, U[p]).keeps <=> U[p].sig_handler[SIGCHLD] = "NULL"
  <1> DEFINE f == T[p].father
  <1>1. f # NULL => f \in Procs /\ Has(l, f)
    BY DEF InOrder, Family, Struct
  <1>2. f # NULL => U[f].pid = T[f].pid
    BY <1>1 DEF AlikeBut, Alike
  <1> HIDE DEF f
  <1>3. /\ Seen(U, U[p]).father = IF f = NULL THEN 0 ELSE U[f].pid
        /\ Seen(T, T[p]).father = IF f = NULL THEN 0 ELSE T[f].pid
    BY DEF Seen, f
  <1>4. /\ Seen(U, U[p]).ended = (U[p].state = ZOMBIE)
        /\ Seen(U, U[p]).status = IF U[p].state = ZOMBIE THEN U[p].end_value ELSE 0
        /\ Seen(U, U[p]).keeps = (U[p].sig_handler[SIGCHLD] = "NULL")
    BY DEF Seen
  <1>5. QED BY <1>2, <1>3, <1>4

\* A process ends and stays.
LEMMA EndTable ==
    ASSUME NEW T, NEW l, InOrder(T, l), NEW U, NEW k, ListInv(U, k),
           NEW p \in Procs, Has(l, p), Ends(T, l, U, k, p)
    PROVE  LET S == TableOf(T, l)
               R == TableOf(U, k)
               n == T[p].pid
           IN  n \in DOMAIN R /\ R = [S EXCEPT ![n].ended = TRUE, ![n].status = R[n].status]
  <1> DEFINE S == TableOf(T, l)
             R == TableOf(U, k)
             n == T[p].pid
             s == Seen(T, T[p])
             v == Seen(U, U[p])
  <1>1. /\ SameMembers(l, k) /\ AlikeBut(T, l, U, p) /\ U[p].pid = T[p].pid
        /\ U[p].father = T[p].father /\ U[p].state = ZOMBIE
        /\ U[p].sig_handler[SIGCHLD] = "NULL" <=> T[p].sig_handler[SIGCHLD] = "NULL"
    BY DEF Ends
  <1>2. R = [S EXCEPT ![n] = v]
    BY <1>1, ChangeTable
  <1>3. n \in DOMAIN S /\ S[n] = s /\ S = [m \in DOMAIN S |-> S[m]]
    BY SeenAt DEF TableOf
  <1>4. /\ v.father = s.father
        /\ v.ended <=> U[p].state = ZOMBIE
        /\ v.keeps <=> U[p].sig_handler[SIGCHLD] = "NULL"
    BY <1>1, SeenSelf
  <1>5. /\ s = [father |-> s.father, ended |-> s.ended, status |-> s.status, keeps |-> s.keeps]
        /\ v = [father |-> v.father, ended |-> v.ended, status |-> v.status, keeps |-> v.keeps]
        /\ s.keeps = (T[p].sig_handler[SIGCHLD] = "NULL")
        /\ v.keeps = (U[p].sig_handler[SIGCHLD] = "NULL")
        /\ v.ended = (U[p].state = ZOMBIE)
    BY DEF Seen
  <1> HIDE DEF S, R, n, s, v
  <1>6. v.keeps = s.keeps /\ v.ended = TRUE
    BY <1>1, <1>5
  <1>7. v = [[s EXCEPT !.ended = TRUE] EXCEPT !.status = v.status]
    BY <1>4, <1>5, <1>6
  <1>8. R[n] = v
    BY <1>2, <1>3
  <1>9. n \in DOMAIN R /\ R = [S EXCEPT ![n].ended = TRUE, ![n].status = R[n].status]
    BY <1>2, <1>3, <1>7, <1>8
  <1>10. QED BY <1>9 DEF S, R, n

\* A process no longer leaves SIGCHLD alone.
LEMMA IgnoreTable ==
    ASSUME NEW T, NEW l, InOrder(T, l), NEW U, NEW k, ListInv(U, k),
           NEW p \in Procs, Has(l, p), T[p].state # ZOMBIE, Ignores(T, l, U, k, p)
    PROVE  LET S == TableOf(T, l)
               n == T[p].pid
           IN  TableOf(U, k) = [S EXCEPT ![n].keeps = FALSE]
  <1> DEFINE S == TableOf(T, l)
             R == TableOf(U, k)
             n == T[p].pid
             s == Seen(T, T[p])
             v == Seen(U, U[p])
  <1>1. /\ SameMembers(l, k) /\ AlikeBut(T, l, U, p) /\ U[p].pid = T[p].pid
        /\ U[p].father = T[p].father /\ U[p].state # ZOMBIE
        /\ U[p].sig_handler[SIGCHLD] # "NULL"
    BY DEF Ignores
  <1>2. R = [S EXCEPT ![n] = v]
    BY <1>1, ChangeTable
  <1>3. n \in DOMAIN S /\ S[n] = s /\ S = [m \in DOMAIN S |-> S[m]]
    BY SeenAt DEF TableOf
  <1>4. v.father = s.father
    BY <1>1, SeenSelf
  <1>5. /\ s = [father |-> s.father, ended |-> s.ended, status |-> s.status, keeps |-> s.keeps]
        /\ v = [father |-> v.father, ended |-> v.ended, status |-> v.status, keeps |-> v.keeps]
        /\ v.keeps = (U[p].sig_handler[SIGCHLD] = "NULL")
        /\ v.ended = (U[p].state = ZOMBIE) /\ s.ended = (T[p].state = ZOMBIE)
        /\ v.status = IF U[p].state = ZOMBIE THEN U[p].end_value ELSE 0
        /\ s.status = IF T[p].state = ZOMBIE THEN T[p].end_value ELSE 0
    BY DEF Seen
  <1> HIDE DEF S, R, n, s, v
  <1>6. v.keeps = FALSE /\ v.ended = s.ended /\ v.status = s.status
    BY <1>1, <1>5
  <1>7. v = [s EXCEPT !.keeps = FALSE]
    BY <1>4, <1>5, <1>6
  <1>8. R = [S EXCEPT ![n].keeps = FALSE]
    BY <1>2, <1>3, <1>7
  <1>9. QED BY <1>8 DEF S, R, n

\* Who is left without father when a process goes.
LEMMA GoesLost ==
    ASSUME NEW T, NEW l, InOrder(T, l), NEW U, NEW k, NEW c \in Procs, Goes(T, l, U, k, c)
    PROVE  LET S == TableOf(T, l)
           IN  (\E q \in Procs : Has(l, q) /\ ~Has(k, q) /\ T[q].children # <<>>)
                  <=> \E m \in DOMAIN S : S[m].father = T[c].pid
  <1> DEFINE S == TableOf(T, l)
             E == \E m \in DOMAIN S : S[m].father = T[c].pid
  <1>1. Has(l, c) /\ \A q \in Procs : Has(k, q) <=> Has(l, q) /\ q # c
    BY DEF Goes
  <1>2. T[c].children # <<>> <=> E
    BY <1>1, HasChildren
  <1> HIDE DEF E
  <1>3. (\E q \in Procs : Has(l, q) /\ ~Has(k, q) /\ T[q].children # <<>>) <=> E
    BY <1>1, <1>2
  <1>4. QED BY <1>3 DEF E

\* The table, and who runs, before and after a step.
LEMMA TablePrime ==
    /\ Table = TableOf(proc, process_list)
    /\ Table' = TableOf(proc', process_list')
    /\ Running' = IF current' = NULL THEN 0 ELSE proc'[current'].pid
  <1>1. Table' = TableOf(proc', process_list')
    BY DEF Table, TableOf, PidsInUse, Owner, Seen, Has
  <1>2. QED BY <1>1 DEF Table, Running

\* What the table and the one who runs keep of the invariant.
Ordered ==
    /\ ListInv(proc, process_list)
    /\ current \in Procs \cup {NULL}
    /\ current # NULL =>
         /\ Has(process_list, current)
         /\ mode \in {"run", "load", "fork"} => proc[current].state # ZOMBIE

LEMMA OrderedInv == FInv => Ordered
  BY MachineFields DEF FInv, IInv, Typed, MachineInv, CurrentInv, Ordered

LEMMA OrderedPrime ==
    ASSUME FInv'
    PROVE  /\ ListInv(proc', process_list')
           /\ current' \in Procs \cup {NULL}
           /\ current' # NULL =>
                /\ Has(process_list', current')
                /\ mode' \in {"run", "load", "fork"} => proc'[current'].state # ZOMBIE
  <1>1. Ordered'
    BY OrderedInv, PTL
  <1>2. QED BY <1>1 DEF Ordered, ListInv, Injective, Has

\* Who runs after a step is alive.
LEMMA RunningLives ==
    ASSUME FInv', current' # NULL => mode' \in {"run", "load", "fork"}
    PROVE  Running' \in Promise!Living' \cup {0}
  <1> DEFINE U == proc'
             k == process_list'
             R == TableOf(U, k)
             p == current'
  <1>1. Running' = (IF p = NULL THEN 0 ELSE U[p].pid) /\ Table' = R
    BY TablePrime
  <1>2. ListInv(U, k) /\ (p # NULL => p \in Procs /\ Has(k, p) /\ U[p].state # ZOMBIE)
    BY OrderedPrime
  <1>3. ASSUME p # NULL PROVE U[p].pid \in DOMAIN R /\ R[U[p].pid].ended = FALSE
    <2>1. U[p].pid \in PidsInUse(U, k) /\ R[U[p].pid] = Seen(U, U[p]) /\ DOMAIN R = PidsInUse(U, k)
      BY <1>2, <1>3, TableAt
    <2>2. Seen(U, U[p]).ended = FALSE
      BY <1>2, <1>3 DEF Seen
    <2>3. QED BY <2>1, <2>2
  <1> HIDE DEF R, U, k, p
  <1>4. CASE p = NULL
    BY <1>1, <1>4
  <1>5. CASE p # NULL
    <2>1. U[p].pid \in DOMAIN Table' /\ ~Table'[U[p].pid].ended
      BY <1>1, <1>3, <1>5
    <2>2. U[p].pid \in Promise!Living'
      BY <2>1 DEF Promise!Living
    <2>3. QED BY <1>1, <1>5, <2>2
  <1>6. QED BY <1>4, <1>5

\* A step that programs see is a step of PidTable.
LEMMA VisibleNext ==
    ASSUME FInv, FInv', ~orphaned, Visible
    PROVE  Promise!Next
  <1> DEFINE T == proc
             U == proc'
             l == process_list
             k == process_list'
             p == current
             n == T[p].pid
             S == TableOf(T, l)
             R == TableOf(U, k)
             s == Table
             t == Table'
             lose == \E q \in Procs : Has(l, q) /\ ~Has(k, q) /\ T[q].children # <<>>
  <1>1. InOrder(T, l) /\ orphaned = FALSE
    BY MachineFields DEF FInv, IInv, Typed, MachineInv, InOrder
  <1>2. ListInv(U, k)
    BY OrderedPrime
  <1>3. Effect(T, l, U, k, p) /\ orphaned' = lose
    BY DEF Visible
  <1>4. s = S /\ t = R
    BY TablePrime
  <1>5. Running' \in Promise!Living' \cup {0}
    BY RunningLives DEF Visible
  <1>6. p \in Procs => Running = n
    BY ProcsAssumption DEF Running
  <1> HIDE DEF T, U, l, k, p, n, S, R, s, t, lose
  <1>7. ASSUME \A q \in Procs : Has(l, q) => Has(k, q) PROVE orphaned' = orphaned
    <2>1. lose = FALSE
      BY <1>7 DEF lose
    <2>2. QED BY <1>1, <1>3, <2>1
  <1>8. ASSUME Acts(T, l, p)
        PROVE  /\ p \in Procs /\ Has(l, p) /\ T[p].state # ZOMBIE
               /\ Running = n /\ n \in DOMAIN s /\ ~s[n].ended
               /\ Running \in Promise!Living
    <2>1. p \in Procs /\ Has(l, p) /\ T[p].state # ZOMBIE
      BY <1>8 DEF Acts
    <2>2. n \in DOMAIN S /\ (S[n].ended <=> T[p].state = ZOMBIE)
      BY <1>1, <2>1, SeenAt DEF n, S
    <2>3. Running = n /\ n \in DOMAIN s /\ ~s[n].ended
      BY <1>4, <1>6, <2>1, <2>2
    <2>4. Running \in Promise!Living
      BY <2>3 DEF Promise!Living, s
    <2>5. QED BY <2>1, <2>3, <2>4
  <1>9. ASSUME NEW c \in Procs, Goes(T, l, U, k, c) PROVE Promise!TakeAway(T[c].pid)
    <2> DEFINE m == T[c].pid
               E == \E a \in DOMAIN s : s[a].father = m
    <2>1. t = [a \in DOMAIN s \ {m} |-> IF s[a].father = m THEN [s[a] EXCEPT !.father = 0] ELSE s[a]]
      <3>1. R = [a \in DOMAIN S \ {m} |-> IF S[a].father = m THEN [S[a] EXCEPT !.father = 0] ELSE S[a]]
        BY <1>1, <1>2, <1>9, GoesTable DEF S, R
      <3>2. QED BY <1>4, <3>1
    <2>2. lose <=> \E a \in DOMAIN S : S[a].father = m
      BY <1>1, <1>9, GoesLost DEF lose, S
    <2>3. lose <=> E
      BY <1>4, <2>2
    <2> HIDE DEF E
    <2>4. orphaned' = E
      BY <1>3, <2>3
    <2>5. QED BY <2>1, <2>4, Zenon DEF Promise!TakeAway, E, s, t
  <1>10. ASSUME Acts(T, l, p) PROVE Promise!Kept(Running) <=> Minded(T, p)
    <2>1. (S[n].father # 0 /\ S[S[n].father].keeps) <=> Minded(T, p)
      BY <1>1, <1>8, <1>10, KeptMinded DEF n, S
    <2>2. (s[n].father # 0 /\ s[s[n].father].keeps) <=> Minded(T, p)
      BY <1>4, <2>1
    <2>3. Promise!Kept(n) <=> Minded(T, p)
      BY <2>2 DEF Promise!Kept, s
    <2>4. QED BY <1>8, <1>10, <2>3
  <1>11. CASE Stays(T, l, U, k)
    <2>1. R = S
      BY <1>1, <1>2, <1>11, StaysTable DEF R, S
    <2>2. t = s
      BY <1>4, <2>1
    <2>3. orphaned' = orphaned
      BY <1>7, <1>11 DEF Stays, SameMembers
    <2>4. Promise!Keep
      BY <2>2, <2>3, Zenon DEF Promise!Keep, s, t
    <2>5. QED BY <1>1, <1>5, <2>4, Zenon DEF Promise!Next
  <1>12. CASE Acts(T, l, p) /\ Minded(T, p) /\ Ends(T, l, U, k, p)
    <2>1. n \in DOMAIN R /\ R = [S EXCEPT ![n].ended = TRUE, ![n].status = R[n].status]
      BY <1>1, <1>2, <1>8, <1>12, EndTable DEF n, R, S
    <2>2. n \in DOMAIN t /\ t = [s EXCEPT ![n].ended = TRUE, ![n].status = t[n].status]
      BY <1>4, <2>1
    <2>3. orphaned' = orphaned
      BY <1>7, <1>12 DEF Ends, SameMembers
    <2>4. Running = n /\ Running \in Promise!Living /\ Promise!Kept(Running)
      BY <1>8, <1>10, <1>12
    <2>5. Running \in DOMAIN t /\ t = [s EXCEPT ![Running].ended = TRUE, ![Running].status = t[Running].status]
      BY <2>2, <2>4, Zenon
    <2>6. Promise!End
      BY <2>3, <2>4, <2>5, Zenon DEF Promise!End, s, t
    <2>7. QED BY <1>1, <1>5, <2>6, Zenon DEF Promise!Next
  <1>13. CASE Acts(T, l, p) /\ ~Minded(T, p) /\ Goes(T, l, U, k, p)
    <2>1. Running = n /\ Running \in Promise!Living /\ ~Promise!Kept(Running) /\ p \in Procs
      BY <1>8, <1>10, <1>13
    <2>2. Promise!TakeAway(n)
      BY <1>9, <1>13, <2>1 DEF n
    <2>3. Promise!End
      BY <2>1, <2>2, Zenon DEF Promise!End
    <2>4. QED BY <1>1, <1>5, <2>3, Zenon DEF Promise!Next
  <1>14. ASSUME Acts(T, l, p), NEW c \in Procs, T[c].state = ZOMBIE, T[c].father = p, Goes(T, l, U, k, c)
         PROVE  Promise!Next
    <2> DEFINE m == T[c].pid
    <2>1. Has(l, c)
      BY <1>14 DEF Goes
    <2>2. /\ m \in DOMAIN S
          /\ S[m].ended <=> T[c].state = ZOMBIE
          /\ \A q \in Procs : Has(l, q) => (S[m].father = T[q].pid <=> T[c].father = q)
      BY <1>1, <1>14, <2>1, SeenAt DEF S
    <2>3. m \in DOMAIN s /\ s[m].ended /\ s[m].father = Running
      BY <1>4, <1>8, <1>14, <2>2 DEF n
    <2>4. Promise!TakeAway(m)
      BY <1>9, <1>14
    <2>5. Running \in Promise!Living
      BY <1>8, <1>14
    <2> HIDE DEF m
    <2>6. Promise!Reap
      BY <2>3, <2>4, <2>5, Zenon DEF Promise!Reap, s
    <2>7. QED BY <1>1, <1>5, <2>6, Zenon DEF Promise!Next
  <1>15. ASSUME Acts(T, l, p), NEW c \in Procs, Comes(T, l, U, k, c, p)
         PROVE  Promise!Next
    <2> DEFINE m == U[c].pid
    <2>1. /\ m \in Pids \ DOMAIN S
          /\ R = [a \in DOMAIN S \cup {m} |-> IF a = m THEN Promise!NewChild(n) ELSE S[a]]
      BY <1>1, <1>2, <1>8, <1>15, ComesTable, SMTT(30) DEF R, S, n
    <2> HIDE DEF m
    <2>2. /\ m \in Pids \ DOMAIN s /\ Running = n /\ Running \in Promise!Living
          /\ t = [a \in DOMAIN s \cup {m} |-> IF a = m THEN Promise!NewChild(n) ELSE s[a]]
      BY <1>4, <1>8, <1>15, <2>1, Zenon
    <2>3. orphaned' = orphaned
      BY <1>7, <1>15 DEF Comes
    <2>4. Promise!Fork
      BY <2>2, <2>3, Zenon DEF Promise!Fork, s, t
    <2>5. QED BY <1>1, <1>5, <2>4, Zenon DEF Promise!Next
  <1>16. CASE Acts(T, l, p) /\ Ignores(T, l, U, k, p)
    <2>1. R = [S EXCEPT ![n].keeps = FALSE]
      BY <1>1, <1>2, <1>8, <1>16, IgnoreTable DEF n, R, S
    <2>2. t = [s EXCEPT ![Running].keeps = FALSE] /\ Running \in Promise!Living
      BY <1>4, <1>8, <1>16, <2>1
    <2>3. orphaned' = orphaned
      BY <1>7, <1>16 DEF Ignores, SameMembers
    <2>4. Promise!Ignore
      BY <2>2, <2>3, Zenon DEF Promise!Ignore, s, t
    <2>5. QED BY <1>1, <1>5, <2>4, Zenon DEF Promise!Next
  <1>17. QED BY <1>3, <1>11, <1>12, <1>13, <1>14, <1>15, <1>16, Zenon DEF Effect

\* The processes kmain makes have no father, are not dead, and leave SIGCHLD alone.
LEMMA InitTable == Init => Promise!Init
  <1> SUFFICES ASSUME Init PROVE Promise!Init
    OBVIOUS
  <1> DEFINE T == proc
             l == process_list
             S == TableOf(T, l)
             s == Table
  <1>1. ListInv(T, l) /\ orphaned = FALSE /\ current = NULL
    BY InitFamily, OrderedInv DEF Ordered, Init
  <1>2. \A p \in Procs : /\ T[p].father = NULL /\ T[p].state # ZOMBIE
                         /\ T[p].sig_handler[SIGCHLD] = "NULL"
    <2> TAKE p \in Procs
    <2>1. PICK uid \in Uids : proc = [q \in Procs |->
              CASE q = InitProc  -> [process_new EXCEPT !.pid = PROC_MIN_PID]
                [] q = ShellProc -> [process_new EXCEPT !.pid = PROC_MIN_PID + 1, !.uid = uid]
                [] OTHER         -> process_new]
      BY DEF Init
    <2> DEFINE A == [process_new EXCEPT !.pid = PROC_MIN_PID]
               B == [process_new EXCEPT !.pid = PROC_MIN_PID + 1, !.uid = uid]
               C == process_new
    <2>2. /\ A.father = NULL /\ A.state = C.state /\ A.sig_handler = C.sig_handler
          /\ B.father = NULL /\ B.state = C.state /\ B.sig_handler = C.sig_handler
          /\ C.father = NULL /\ C.state # ZOMBIE /\ C.sig_handler[SIGCHLD] = "NULL"
      BY NewStruct, SigAssumption DEF process_new
    <2> HIDE DEF A, B
    <2>3. T[p] \in {A, B, C}
      BY <2>1, ProcsAssumption DEF A, B
    <2> HIDE DEF T, C
    <2>4. QED BY <2>2, <2>3
  <1> HIDE DEF T, l
  <1>3. ASSUME NEW p \in Procs PROVE Seen(T, T[p]) = Promise!NewChild(0)
    <2>1. T[p].father = NULL /\ (T[p].state = ZOMBIE) = FALSE /\ (T[p].sig_handler[SIGCHLD] = "NULL") = TRUE
      BY <1>2
    <2>2. QED BY <2>1 DEF Seen, Promise!NewChild
  <1>4. /\ DOMAIN S = PidsInUse(T, l)
        /\ \A p \in Procs : Has(l, p) => T[p].pid \in PidsInUse(T, l) /\ S[T[p].pid] = Seen(T, T[p])
        /\ \A n \in PidsInUse(T, l) : \E p \in Procs : Has(l, p) /\ T[p].pid = n
    BY <1>1, TableAt
  <1>5. S = [n \in DOMAIN S |-> S[n]]
    BY DEF TableOf
  <1> HIDE DEF S
  <1>6. DOMAIN S \subseteq Pids
    BY <1>1, <1>4 DEF ListInv
  <1>7. \A n \in DOMAIN S : S[n] = Promise!NewChild(0)
    BY <1>3, <1>4
  <1>8. S = [n \in DOMAIN S |-> Promise!NewChild(0)]
    BY <1>5, <1>7
  <1>9. s = S
    BY TablePrime DEF S, T, l
  <1> HIDE DEF s
  <1>10. /\ DOMAIN s \subseteq Pids /\ s = [n \in DOMAIN s |-> Promise!NewChild(0)]
         /\ Running = 0 /\ orphaned = FALSE
    BY <1>1, <1>6, <1>8, <1>9 DEF Running
  <1>11. QED BY <1>10, Zenon DEF Promise!Init, s

\* Every step of the kernel is a step of PidTable or leaves its variables alone.
LEMMA StepPidTable ==
    FInv /\ FInv' /\ (StepOK \/ UNCHANGED vars) => [Promise!Next]_<<Table, Running, orphaned>>
  <1> SUFFICES ASSUME FInv, FInv', StepOK \/ UNCHANGED vars
               PROVE  [Promise!Next]_<<Table, Running, orphaned>>
    OBVIOUS
  <1>1. CASE UNCHANGED vars
    <2>1. Table' = Table
      <3>1. Table' = TableOf(proc', process_list') /\ Table = TableOf(proc, process_list)
        BY TablePrime
      <3>2. proc' = proc /\ process_list' = process_list
        BY <1>1 DEF vars
      <3>3. QED BY <3>1, <3>2
    <2>2. Running' = Running /\ orphaned' = orphaned
      BY <1>1, TablePrime DEF Running, vars
    <2>3. QED BY <2>1, <2>2
  <1>2. CASE StepOK /\ orphaned
    <2>1. orphaned /\ orphaned'
      BY <1>2 DEF StepOK
    <2>2. Promise!Next
      BY <2>1, Zenon DEF Promise!Next
    <2>3. QED BY <2>2, Zenon
  <1>3. CASE StepOK /\ ~orphaned
    <2>1. Visible
      BY <1>3 DEF StepOK
    <2>2. Promise!Next
      BY <1>3, <2>1, VisibleNext
    <2>3. QED BY <2>2, Zenon
  <1>4. QED BY <1>1, <1>2, <1>3

\* fork, exit, process_die_safe, process_waitpid, child_ended, free_process: the
\* process table keeps the promise of PidTable: no pid is given away while its
\* process is there, ended or not; only the running process ends, by itself; an
\* ended one stays, with its status, until its father reaps it, and is kept for
\* it unless the father has set a handler.
THEOREM ProcessIsPidTable == Spec => IsPidTable
  <1>1. FInv /\ [Next]_vars => FInv' /\ [Promise!Next]_<<Table, Running, orphaned>>
    BY NextFamily, StepPidTable
  <1>2. QED BY <1>1, InitFamily, InitTable, PTL DEF Spec, IsPidTable, Promise!PidTableSpec
=============================================================================
