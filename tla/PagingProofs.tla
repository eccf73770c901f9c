---------------------------- MODULE PagingProofs ----------------------------
(***************************************************************************)
(* What the searches in the bitmaps find, and what the mapping functions   *)
(* do to the bitmap and the page tables.                                   *)
(***************************************************************************)
EXTENDS Paging, ListProofs, FiniteSetTheorems

\* The least element of a set of naturals.
LEMMA MinNat ==
    ASSUME NEW T, T \subseteq Nat, T # {}
    PROVE  Min(T) \in T /\ \A y \in T : Min(T) <= y
  <1>1. \E x \in T : \A y \in T : x <= y BY LeastNatural
  <1>2. QED BY <1>1 DEF Min

\* Division of naturals.
LEMMA DivNat ==
    ASSUME NEW a \in Nat, NEW b \in Nat \ {0}
    PROVE  /\ a \div b \in Nat
           /\ b * (a \div b) <= a
           /\ a < b * (a \div b) + b
  OBVIOUS

\* get_phys_block, find_free_virt_addr: a run that is found lies within the
\* bitmap and is free.
LEMMA RunFound ==
    ASSUME NEW free, NEW from \in Nat, NEW to \in Nat, NEW n \in Nat,
           FirstRun(free, from, to, n) # NULL
    PROVE  /\ FirstRun(free, from, to, n) \in from..(to - 1 - n)
           /\ FirstRun(free, from, to, n)..(FirstRun(free, from, to, n) + n - 1) \subseteq free
  <1> DEFINE runs == {k \in from..(to - 1 - n) : \A i \in k..(k + n - 1) : i \in free}
  <1>1. FirstRun(free, from, to, n) = Min(runs) /\ runs # {}
    BY DEF FirstRun
  <1>2. runs \subseteq Nat OBVIOUS
  <1> HIDE DEF runs
  <1>3. Min(runs) \in runs BY <1>1, <1>2, MinNat
  <1>4. QED BY <1>1, <1>3 DEF runs

-----------------------------------------------------------------------------
(* One page *)

MemType(M) ==
    /\ M = [mm |-> M.mm, dir |-> M.dir, pte |-> M.pte, warned |-> M.warned]
    /\ M.mm \subseteq Frames
    /\ M.dir \in [Tables -> Frames \cup {NULL}]
    /\ M.pte \in [VPages -> Frames \cup {NULL, JUNK}]
    /\ M.warned \in BOOLEAN

TablesOf(M) == {M.dir[d] : d \in Tables} \ {NULL}

\* No page table lies in a free page or in the page of another one.
TablesApart(M) ==
    /\ \A d \in Tables : M.dir[d] # NULL => M.dir[d] \notin M.mm
    /\ \A d, e \in Tables : M.dir[d] # NULL /\ M.dir[d] = M.dir[e] => d = e

Sound(M) == MemType(M) /\ TablesApart(M)

\* Is there something behind v?
Present(M, v) == M.dir[Table(v)] # NULL /\ M.pte[v] # NULL

\* Is there a page behind v?
Framed(M, v) == M.dir[Table(v)] # NULL /\ M.pte[v] \in Frames

\* From M to N only entries of W have changed among those that were present,
\* no other has come to lead to a page, and pages have only gone from the bitmap
\* to tables and back.
Keeps(M, N, W) ==
    /\ Sound(N)
    /\ N.warned = M.warned
    /\ N.mm \cup TablesOf(N) = M.mm \cup TablesOf(M)
    /\ \A x \in VPages \ W : Present(M, x) =>
          N.dir[Table(x)] = M.dir[Table(x)] /\ N.pte[x] = M.pte[x]
    /\ \A x \in VPages \ W : Framed(N, x) => Framed(M, x) /\ N.pte[x] = M.pte[x]

LEMMA KeepsItself ==
    ASSUME NEW M, Sound(M), NEW W
    PROVE  Keeps(M, M, W)
  BY DEF Keeps

LEMMA KeepsOn ==
    ASSUME NEW L, NEW M, NEW N, NEW W, Keeps(L, M, W), Keeps(M, N, W)
    PROVE  Keeps(L, N, W)
  <1>1. /\ Sound(N) /\ N.warned = L.warned /\ N.mm \cup TablesOf(N) = L.mm \cup TablesOf(L)
    BY DEF Keeps
  <1>2. \A x \in VPages \ W : Present(L, x) =>
          N.dir[Table(x)] = L.dir[Table(x)] /\ N.pte[x] = L.pte[x]
    BY DEF Keeps, Present
  <1>3. \A x \in VPages \ W : Framed(N, x) => Framed(L, x) /\ N.pte[x] = L.pte[x]
    BY DEF Keeps
  <1>4. QED BY <1>1, <1>2, <1>3 DEF Keeps

LEMMA KeepsMore ==
    ASSUME NEW M, NEW N, NEW W, NEW X, Keeps(M, N, W), W \subseteq X
    PROVE  Keeps(M, N, X)
  BY DEF Keeps

\* The numbers of pages are integers, and NULL and JUNK are none.
LEMMA FrameFacts ==
    /\ Frames \subseteq Nat /\ NULL \notin Frames /\ JUNK \notin Frames /\ NULL # JUNK
    /\ \A f \in Frames : f < MAX_RAM_PAGE /\ f >= LOW_PAGE
    /\ LOW_PAGE \in Nat /\ MAX_RAM_PAGE \in Nat
  BY PagingAssumption DEF Frames

\* alloc_phys_block, free_phys_block, and the entries of M, written out.
LEMMA MemSet ==
    ASSUME NEW M, MemType(M), NEW x
    PROVE  /\ [M EXCEPT !.mm = x] = [mm |-> x, dir |-> M.dir, pte |-> M.pte, warned |-> M.warned]
           /\ [M EXCEPT !.dir = x] = [mm |-> M.mm, dir |-> x, pte |-> M.pte, warned |-> M.warned]
           /\ [M EXCEPT !.pte = x] = [mm |-> M.mm, dir |-> M.dir, pte |-> x, warned |-> M.warned]
  <1>1. M = [mm |-> M.mm, dir |-> M.dir, pte |-> M.pte, warned |-> M.warned] BY DEF MemType
  <1> DEFINE a == M.mm
             b == M.dir
             c == M.pte
             d == M.warned
  <1>2. M = [mm |-> a, dir |-> b, pte |-> c, warned |-> d] BY <1>1
  <1> HIDE DEF a, b, c, d
  <1>3. [M EXCEPT !.mm = x] = [mm |-> x, dir |-> b, pte |-> c, warned |-> d] BY <1>2
  <1>4. [M EXCEPT !.dir = x] = [mm |-> a, dir |-> x, pte |-> c, warned |-> d] BY <1>2
  <1>5. [M EXCEPT !.pte = x] = [mm |-> a, dir |-> b, pte |-> x, warned |-> d] BY <1>2
  <1>6. QED BY <1>3, <1>4, <1>5 DEF a, b, c, d

\* free_phys_block of pages that are in use.
LEMMA FreesPages ==
    ASSUME NEW M, MemType(M), NEW f \in Nat, NEW n \in Nat,
           f..(f + n - 1) \subseteq Frames \ M.mm
    PROVE  free_phys_block(M, f, n) = [M EXCEPT !.mm = M.mm \cup (f..(f + n - 1))]
  <1> DEFINE run == {k \in f..(f + n - 1) : k < MAX_RAM_PAGE}
  <1>1. run = f..(f + n - 1) BY FrameFacts
  <1>2. run \cap M.mm = {} BY <1>1
  <1>3. free_phys_block(M, f, n) = [M EXCEPT !.mm = M.mm \cup run, !.warned = M.warned \/ run \cap M.mm # {}]
    BY DEF free_phys_block
  <1>4. (M.warned \/ run \cap M.mm # {}) = M.warned BY <1>2 DEF MemType
  <1> HIDE DEF run
  <1>5. [M EXCEPT !.mm = M.mm \cup run, !.warned = M.warned] = [M EXCEPT !.mm = M.mm \cup run]
    <2> DEFINE y == M.mm \cup run
    <2> HIDE DEF y
    <2>1. [M EXCEPT !.mm = y, !.warned = M.warned] = [M EXCEPT !.mm = y]
      BY DEF MemType
    <2>2. QED BY <2>1 DEF y
  <1>6. QED BY <1>1, <1>3, <1>4, <1>5

\* free_phys_block of a page that is in use.
LEMMA FreesPage ==
    ASSUME NEW M, MemType(M), NEW f \in Frames, f \notin M.mm
    PROVE  free_phys_block(M, f, 1) = [M EXCEPT !.mm = M.mm \cup {f}]
  <1>1. f \in Nat BY FrameFacts
  <1>2. f..(f + 1 - 1) = {f} BY <1>1
  <1>3. free_phys_block(M, f, 1) = [M EXCEPT !.mm = M.mm \cup (f..(f + 1 - 1))]
    BY <1>1, <1>2, FreesPages
  <1>4. QED BY <1>2, <1>3

\* get_phys_block and alloc_phys_block of one page.
LEMMA TakesPage ==
    ASSUME NEW M, MemType(M), get_phys_block(M, 1) # NULL
    PROVE  /\ get_phys_block(M, 1) \in M.mm
           /\ get_phys_block(M, 1) \in Frames
           /\ alloc_phys_block(M, get_phys_block(M, 1), 1) = [M EXCEPT !.mm = M.mm \ {get_phys_block(M, 1)}]
  <1> DEFINE t == get_phys_block(M, 1)
  <1>1. t = FirstRun(M.mm, LOW_PAGE, MAX_RAM_PAGE, 1) BY DEF get_phys_block
  <1>2. t \in LOW_PAGE..(MAX_RAM_PAGE - 1 - 1) /\ t..(t + 1 - 1) \subseteq M.mm
    BY <1>1, FrameFacts, RunFound
  <1>3. t \in Nat BY <1>2, FrameFacts
  <1> HIDE DEF t
  <1>4. t..(t + 1 - 1) = {t} BY <1>3
  <1>5. alloc_phys_block(M, t, 1) = [M EXCEPT !.mm = M.mm \ {t}] BY <1>4 DEF alloc_phys_block
  <1>6. QED BY <1>2, <1>4, <1>5 DEF t, MemType

\* page_unmap changes one entry; if it frees the table, nothing in it was present.
LEMMA Unmaps ==
    ASSUME NEW M, Sound(M), NEW v \in VPages
    PROVE  Keeps(M, page_unmap(M, v), {v}) /\ ~Framed(page_unmap(M, v), v)
  <1> DEFINE d == Table(v)
             p == [M.pte EXCEPT ![v] = NULL]
             M1 == [M EXCEPT !.pte[v] = NULL]
             M2 == [M1 EXCEPT !.dir[d] = NULL]
             c == [M.dir EXCEPT ![d] = NULL]
  <1>1. MemType(M) /\ TablesApart(M) /\ d \in Tables BY DEF Sound, Tables
  <1>2. CASE M.dir[d] = NULL
    <2>1. page_unmap(M, v) = M BY <1>2 DEF page_unmap
    <2>2. ~Framed(M, v) BY <1>2 DEF Framed
    <2>3. QED BY <2>1, <2>2, KeepsItself
  <1>3. M1 = [mm |-> M.mm, dir |-> M.dir, pte |-> p, warned |-> M.warned] BY <1>1, MemSet
  <1>4. p \in [VPages -> Frames \cup {NULL, JUNK}] /\ \A x \in VPages : p[x] = IF x = v THEN NULL ELSE M.pte[x]
    BY <1>1 DEF MemType
  <1>5. CASE M.dir[d] # NULL /\ \E x \in VPages : Table(x) = d /\ M1.pte[x] # NULL
    <2>1. page_unmap(M, v) = M1 BY <1>5 DEF page_unmap
    <2> HIDE DEF p, d, M1
    <2>2. MemType(M1) BY <1>1, <1>3, <1>4 DEF MemType
    <2>3. M1.dir = M.dir /\ \A x \in VPages \ {v} : M1.pte[x] = M.pte[x] BY <1>3, <1>4
    <2>4. \A x \in VPages \ {v} : Framed(M1, x) => Framed(M, x) /\ M1.pte[x] = M.pte[x]
      BY <2>3 DEF Framed
    <2>5. ~Framed(M1, v) BY <1>3, <1>4, FrameFacts DEF Framed
    <2>6. Keeps(M, M1, {v})
      BY <1>1, <1>3, <1>4, <2>2, <2>4 DEF Keeps, Sound, TablesApart, TablesOf
    <2>7. QED BY <2>1, <2>5, <2>6
  <1>6. CASE M.dir[d] # NULL /\ ~\E x \in VPages : Table(x) = d /\ M1.pte[x] # NULL
    <2> DEFINE t == M.dir[d]
    <2>1. page_unmap(M, v) = free_phys_block(M2, t, 1) BY <1>6 DEF page_unmap
    <2>2. c \in [Tables -> Frames \cup {NULL}] /\ \A e \in Tables : c[e] = IF e = d THEN NULL ELSE M.dir[e]
      BY <1>1 DEF MemType
    <2>3. t \in Frames /\ t \notin M.mm /\ t \in Nat
      BY <1>1, <1>6, FrameFacts DEF MemType, TablesApart
    <2>4. M1.dir = M.dir BY <1>3
    <2> HIDE DEF p
    <2>5. MemType(M1) BY <1>1, <1>3, <1>4 DEF MemType
    <2>6. M2 = [mm |-> M.mm, dir |-> c, pte |-> p, warned |-> M.warned]
      <3>1. M1.mm = M.mm /\ M1.pte = p /\ M1.warned = M.warned BY <1>3
      <3> HIDE DEF M1
      <3>2. M2 = [M1 EXCEPT !.dir = c] BY <2>4
      <3> HIDE DEF c, M2
      <3>3. [M1 EXCEPT !.dir = c] = [mm |-> M1.mm, dir |-> c, pte |-> M1.pte, warned |-> M1.warned]
        BY <2>5, MemSet
      <3>4. QED BY <3>1, <3>2, <3>3
    <2> HIDE DEF c, t, M1, M2
    <2>7. MemType(M2) BY <1>1, <2>2, <1>4, <2>6 DEF MemType
    <2>8. t..(t + 1 - 1) = {t} BY <2>3
    <2> DEFINE N == [mm |-> M.mm \cup {t}, dir |-> c, pte |-> p, warned |-> M.warned]
    <2>9. free_phys_block(M2, t, 1) = [M2 EXCEPT !.mm = M2.mm \cup {t}]
      <3>1. M2.mm = M.mm BY <2>6
      <3>2. t..(t + 1 - 1) \subseteq Frames \ M2.mm BY <2>3, <2>8, <3>1
      <3>3. free_phys_block(M2, t, 1) = [M2 EXCEPT !.mm = M2.mm \cup (t..(t + 1 - 1))]
        BY <2>3, <2>7, <3>2, FreesPages
      <3>4. QED BY <2>8, <3>3
    <2>10. page_unmap(M, v) = N
      BY <2>1, <2>6, <2>7, <2>9, MemSet
    <2>11. MemType(N) BY <1>1, <1>4, <2>2, <2>3 DEF MemType
    <2>12. TablesApart(N) BY <1>1, <2>2, <2>3 DEF TablesApart, t
    <2>13. N.mm \cup TablesOf(N) = M.mm \cup TablesOf(M)
      <3>1. TablesOf(M) = TablesOf(N) \cup {t}
        BY <1>1, <1>6, <2>2, <2>3 DEF TablesOf, TablesApart, t
      <3>2. QED BY <3>1
    <2>14. ASSUME NEW x \in VPages \ {v}, Present(M, x)
           PROVE  N.dir[Table(x)] = M.dir[Table(x)] /\ N.pte[x] = M.pte[x]
      <3>1. M1.pte[x] = M.pte[x] BY <1>3, <1>4, <2>14
      <3>2. Table(x) # d BY <3>1, <1>6, <2>14 DEF Present
      <3>3. Table(x) \in Tables BY DEF Tables
      <3>4. QED BY <3>2, <3>3, <2>2, <1>4
    <2>15. ASSUME NEW x \in VPages \ {v}, Framed(N, x)
           PROVE  Framed(M, x) /\ N.pte[x] = M.pte[x]
      <3>1. N.dir = c /\ N.pte = p OBVIOUS
      <3> HIDE DEF N
      <3>2. Table(x) \in Tables BY DEF Tables
      <3>3. QED BY <3>1, <3>2, <2>2, <1>4, <2>15 DEF Framed
    <2> HIDE DEF N
    <2>16. N.warned = M.warned BY DEF N
    <2>17. N.dir[Table(v)] = NULL BY <1>1, <2>2 DEF N, d
    <2>18. ~Framed(N, v) BY <2>17 DEF Framed
    <2>19. Keeps(M, N, {v}) BY <2>11, <2>12, <2>13, <2>14, <2>15, <2>16 DEF Keeps, Sound
    <2>20. QED BY <2>10, <2>18, <2>19
  <1>7. QED BY <1>2, <1>5, <1>6

\* The table page_map makes: the entries it overwrites belong to no table.
LEMMA NewTable ==
    ASSUME NEW M, Sound(M), NEW d \in Tables, M.dir[d] = NULL, get_phys_block(M, 1) # NULL,
           NEW fill \in [Frames -> {NULL, JUNK}]
    PROVE  Keeps(M, new_table(M, d, fill), {}) /\ new_table(M, d, fill).dir[d] # NULL
  <1> DEFINE t == get_phys_block(M, 1)
             A == alloc_phys_block(M, t, 1)
             c == [M.dir EXCEPT ![d] = t]
             p == [x \in VPages |-> IF Table(x) = d THEN fill[t] ELSE M.pte[x]]
             N == [mm |-> M.mm \ {t}, dir |-> c, pte |-> p, warned |-> M.warned]
  <1>1. MemType(M) /\ TablesApart(M) BY DEF Sound
  <1>2. t \in M.mm /\ t \in Frames /\ A = [M EXCEPT !.mm = M.mm \ {t}] BY <1>1, TakesPage
  <1>3. c \in [Tables -> Frames \cup {NULL}] /\ \A e \in Tables : c[e] = IF e = d THEN t ELSE M.dir[e]
    BY <1>1, <1>2 DEF MemType
  <1>4. p \in [VPages -> Frames \cup {NULL, JUNK}]
    BY <1>1, <1>2 DEF MemType
  <1>5. new_table(M, d, fill) = N
    <2>1. new_table(M, d, fill) =
            [A EXCEPT !.dir[d] = t, !.pte = [x \in VPages |-> IF Table(x) = d THEN fill[t] ELSE A.pte[x]]]
      BY DEF new_table
    <2>2. A = [mm |-> M.mm \ {t}, dir |-> M.dir, pte |-> M.pte, warned |-> M.warned]
      BY <1>1, <1>2, MemSet
    <2> HIDE DEF A, t
    <2>3. A.pte = M.pte /\ A.dir = M.dir BY <2>2
    <2>4. new_table(M, d, fill) = [A EXCEPT !.dir = c, !.pte = p] BY <2>1, <2>3
    <2> DEFINE m == M.mm \ {t}
    <2> HIDE DEF c, p, m
    <2>5. A = [mm |-> m, dir |-> M.dir, pte |-> M.pte, warned |-> M.warned] BY <2>2 DEF m
    <2>6. [A EXCEPT !.dir = c, !.pte = p] = [mm |-> m, dir |-> c, pte |-> p, warned |-> M.warned]
      <3> DEFINE B == [A EXCEPT !.dir = c]
                 C == [B EXCEPT !.pte = p]
      <3>1. [A EXCEPT !.dir = c, !.pte = p] = C OBVIOUS
      <3>2. MemType(A) BY <1>1, <1>2, <2>5 DEF MemType, m
      <3>3. A.mm = m /\ A.pte = M.pte /\ A.warned = M.warned BY <2>5
      <3>4. B = [mm |-> m, dir |-> c, pte |-> M.pte, warned |-> M.warned] BY <3>2, <3>3, MemSet
      <3> HIDE DEF B
      <3>5. B.mm = m /\ B.dir = c /\ B.warned = M.warned BY <3>4
      <3>6. MemType(B) BY <1>1, <1>2, <1>3, <3>4 DEF MemType, m
      <3>7. C = [mm |-> m, dir |-> c, pte |-> p, warned |-> M.warned] BY <3>5, <3>6, MemSet
      <3>8. QED BY <3>1, <3>7
    <2>7. QED BY <2>4, <2>6 DEF m
  <1> HIDE DEF t, A
  <1>6. \A x \in VPages : Table(x) # d => p[x] = M.pte[x] OBVIOUS
  <1> HIDE DEF c, p
  <1>7. MemType(N) BY <1>1, <1>2, <1>3, <1>4 DEF MemType
  <1>8. t # NULL BY <1>2, FrameFacts
  <1>9. TablesApart(N) BY <1>1, <1>2, <1>3, <1>8 DEF TablesApart
  <1>10. N.mm \cup TablesOf(N) = M.mm \cup TablesOf(M)
    <2>1. TablesOf(N) = TablesOf(M) \cup {t} BY <1>3, <1>8 DEF TablesOf
    <2>2. QED BY <1>2, <2>1
  <1>11. ASSUME NEW x \in VPages, Present(M, x)
         PROVE  N.dir[Table(x)] = M.dir[Table(x)] /\ N.pte[x] = M.pte[x]
    <2>1. Table(x) # d /\ Table(x) \in Tables BY <1>11 DEF Present, Tables
    <2>2. QED BY <2>1, <1>3, <1>6
  <1>12. N.dir[d] # NULL /\ N.warned = M.warned BY <1>3, <1>8
  <1>13. ASSUME NEW x \in VPages, Framed(N, x)
         PROVE  Framed(M, x) /\ N.pte[x] = M.pte[x]
    <2>1. N.dir = c /\ N.pte = p OBVIOUS
    <2>2. Table(x) \in Tables BY DEF Tables
    <2>3. Table(x) # d
      <3>1. CASE Table(x) = d
        <4>1. p[x] = fill[t] BY <3>1 DEF p
        <4>2. fill[t] \notin Frames BY <1>2, FrameFacts
        <4>3. QED BY <2>1, <4>1, <4>2, <1>13 DEF Framed
      <3>2. QED BY <3>1
    <2> HIDE DEF N
    <2>4. QED BY <1>3, <1>6, <2>1, <2>2, <2>3, <1>13 DEF Framed
  <1> HIDE DEF N
  <1>14. QED BY <1>5, <1>7, <1>9, <1>10, <1>11, <1>12, <1>13 DEF Keeps, Sound

\* An entry of a table that exists is written.
Written(M, v, f) == [M EXCEPT !.pte[v] = f]

LEMMA WritesEntry ==
    ASSUME NEW M, Sound(M), NEW v \in VPages, NEW f \in Frames
    PROVE  Keeps(M, Written(M, v, f), {v}) /\ Written(M, v, f).dir = M.dir /\ Written(M, v, f).pte[v] = f
  <1> DEFINE p == [M.pte EXCEPT ![v] = f]
             N == [mm |-> M.mm, dir |-> M.dir, pte |-> p, warned |-> M.warned]
  <1>1. MemType(M) /\ TablesApart(M) BY DEF Sound
  <1>2. p \in [VPages -> Frames \cup {NULL, JUNK}] /\ \A x \in VPages : p[x] = IF x = v THEN f ELSE M.pte[x]
    BY <1>1 DEF MemType
  <1>3. Written(M, v, f) = N BY <1>1, MemSet DEF Written
  <1> HIDE DEF p
  <1>4. MemType(N) BY <1>1, <1>2 DEF MemType
  <1>5. TablesApart(N) /\ TablesOf(N) = TablesOf(M) BY <1>1 DEF TablesApart, TablesOf
  <1>6. N.dir = M.dir /\ N.pte[v] = f /\ N.warned = M.warned /\ N.mm = M.mm BY <1>2
  <1>7. \A x \in VPages \ {v} : N.pte[x] = M.pte[x] BY <1>2
  <1> HIDE DEF N
  <1>8. \A x \in VPages \ {v} : Framed(N, x) => Framed(M, x) /\ N.pte[x] = M.pte[x]
    BY <1>6, <1>7 DEF Framed
  <1>9. QED BY <1>3, <1>4, <1>5, <1>6, <1>7, <1>8 DEF Keeps, Sound

\* The bitmap and the tables have no more pages than there can be tables.
Full(M) == Cardinality(M.mm \cup TablesOf(M)) <= Cardinality(Tables)

\* The values of a function are no more than its arguments.
Values(h, S) == {h[x] : x \in S}

LEMMA FewValues ==
    ASSUME NEW S, IsFiniteSet(S), NEW h, h = [x \in S |-> h[x]]
    PROVE  IsFiniteSet(Values(h, S)) /\ Cardinality(Values(h, S)) <= Cardinality(S)
  <1>1. h \in Surjection(S, Values(h, S)) BY DEF Surjection, Values
  <1>2. QED BY <1>1, FS_Surjection

LEMMA ManyTables == IsFiniteSet(Tables) /\ IsFiniteSet(Frames)
  <1> DEFINE h == [v \in VPages |-> Table(v)]
  <1>1. IsFiniteSet(VPages) BY PagingAssumption, FS_Interval DEF VPages
  <1>2. Tables = Values(h, VPages) BY DEF Tables, Values
  <1>3. h = [v \in VPages |-> h[v]] OBVIOUS
  <1>4. IsFiniteSet(Frames) BY PagingAssumption, FS_Interval DEF Frames
  <1> HIDE DEF h
  <1>5. QED BY <1>1, <1>2, <1>3, <1>4, FewValues

\* page_map fails when only the last page, which the search does not see, may
\* be free, and there is one table less than there could be.
LEMMA FailsWhenFull ==
    ASSUME NEW M, Sound(M), NEW v \in VPages, page_map_fails(M, v)
    PROVE  Full(M)
  <1> DEFINE d == Table(v)
             last == MAX_RAM_PAGE - 1
             runs == {k \in LOW_PAGE..(MAX_RAM_PAGE - 1 - 1) : \A i \in k..(k + 1 - 1) : i \in M.mm}
             h == [e \in Tables |-> IF e = d THEN last ELSE M.dir[e]]
  <1>1. MemType(M) /\ M.dir[d] = NULL /\ d \in Tables /\ get_phys_block(M, 1) = NULL
    BY DEF Sound, page_map_fails, Tables
  <1>2. runs = {}
    <2>1. runs # {} => Min(runs) = NULL BY <1>1 DEF get_phys_block, FirstRun
    <2>2. runs \subseteq Nat BY FrameFacts
    <2> HIDE DEF runs
    <2>3. runs # {} => Min(runs) \in Nat BY <2>2, MinNat
    <2>4. NULL \notin Nat BY PagingAssumption
    <2>5. QED BY <2>1, <2>3, <2>4
  <1>3. \A x \in M.mm : x = last
    <2> SUFFICES ASSUME NEW x \in M.mm, x # last PROVE FALSE OBVIOUS
    <2>1. x \in Nat /\ x >= LOW_PAGE /\ x < MAX_RAM_PAGE BY <1>1, FrameFacts DEF MemType
    <2>2. x \in LOW_PAGE..(MAX_RAM_PAGE - 1 - 1) /\ x..(x + 1 - 1) = {x} BY <2>1, FrameFacts
    <2>3. QED BY <1>2, <2>2
  <1>4. \A t \in M.mm \cup TablesOf(M) : \E e \in Tables : t = h[e]
    <2> SUFFICES ASSUME NEW t \in M.mm \cup TablesOf(M) PROVE \E e \in Tables : t = h[e] OBVIOUS
    <2>1. CASE t \in M.mm BY <1>1, <1>3, <2>1
    <2>2. CASE t \in TablesOf(M)
      <3>1. PICK e \in Tables : t = M.dir[e] /\ t # NULL BY <2>2 DEF TablesOf
      <3>2. QED BY <1>1, <3>1
    <2>3. QED BY <2>1, <2>2
  <1>h. h = [e \in Tables |-> h[e]] OBVIOUS
  <1> HIDE DEF h
  <1> DEFINE T == Values(h, Tables)
  <1>5. IsFiniteSet(T) /\ Cardinality(T) <= Cardinality(Tables) BY <1>h, ManyTables, FewValues
  <1>6. M.mm \cup TablesOf(M) \subseteq T BY <1>4 DEF Values
  <1> DEFINE S == M.mm \cup TablesOf(M)
  <1> HIDE DEF T, S
  <1>7. S \subseteq T BY <1>6 DEF S
  <1>8. IsFiniteSet(S) /\ Cardinality(S) <= Cardinality(T) BY <1>5, <1>7, FS_Subset
  <1>9. Cardinality(S) \in Nat /\ Cardinality(T) \in Nat /\ Cardinality(Tables) \in Nat
    BY <1>5, <1>8, ManyTables, FS_CardinalityType
  <1>10. Cardinality(S) <= Cardinality(Tables) BY <1>5, <1>8, <1>9
  <1>11. QED BY <1>10 DEF Full, S

LEMMA KeepsFull ==
    ASSUME NEW M, NEW N, NEW W, Keeps(M, N, W), Full(M)
    PROVE  Full(N)
  BY DEF Keeps, Full

\* page_map, where it does not fail.
LEMMA Maps ==
    ASSUME NEW M, Sound(M), NEW v \in VPages, NEW f \in Frames,
           NEW fill \in [Frames -> {NULL, JUNK}], ~page_map_fails(M, v)
    PROVE  /\ Keeps(M, page_map(M, f, v, fill), {v})
           /\ page_map(M, f, v, fill).dir[Table(v)] # NULL
           /\ page_map(M, f, v, fill).pte[v] = f
  <1> DEFINE d == Table(v)
             T == new_table(M, d, fill)
  <1>1. d \in Tables BY DEF Tables
  <1>2. CASE M.dir[d] # NULL
    <2>1. page_map(M, f, v, fill) = Written(M, v, f) BY <1>2 DEF page_map, Written
    <2>2. QED BY <1>2, <2>1, WritesEntry
  <1>3. CASE M.dir[d] = NULL
    <2>1. page_map(M, f, v, fill) = Written(T, v, f) BY <1>3 DEF page_map, Written
    <2>2. get_phys_block(M, 1) # NULL BY <1>3 DEF page_map_fails
    <2>3. Keeps(M, T, {}) /\ T.dir[d] # NULL BY <1>1, <1>3, <2>2, NewTable
    <2> HIDE DEF T
    <2>4. Keeps(M, T, {v}) BY <2>3, KeepsMore
    <2>5. Sound(T) BY <2>3 DEF Keeps
    <2>6. Keeps(T, Written(T, v, f), {v}) /\ Written(T, v, f).dir = T.dir /\ Written(T, v, f).pte[v] = f
      BY <2>5, WritesEntry
    <2>7. Keeps(M, Written(T, v, f), {v}) BY <2>4, <2>6, KeepsOn
    <2>8. QED BY <2>1, <2>3, <2>6, <2>7
  <1>4. QED BY <1>2, <1>3

-----------------------------------------------------------------------------
(* Loops.  A loop of n rounds takes x in X[i - 1] to S[i][x] in X[i].        *)

Loop(S, X, n) ==
    \A i \in 1..n : \A x \in X[i - 1] : S[i][x] \in X[i]

Rounds(g, S, n) == \A i \in 1..n : g[i] = S[i][g[i - 1]]

\* g holds the values of a loop that starts with x0.
Computed(g, S, X, x0, n) ==
    g = [i \in 0..n |-> g[i]] /\ g[0] = x0 /\ Rounds(g, S, n) /\ \A i \in 0..n : g[i] \in X[i]

\* Every loop has its values.
LEMMA LoopRuns ==
    ASSUME NEW n \in Nat, NEW X, NEW S, NEW x0, x0 \in X[0], Loop(S, X, n)
    PROVE  \E g : Computed(g, S, X, x0, n)
  <1> USE DEF Computed
  <1> DEFINE Good(g, k) == Computed(g, S, X, x0, k)
             Bad == {k \in 0..n : ~\E g : Good(g, k)}
  <1>1. SUFFICES Bad = {} OBVIOUS
  <1>2. SUFFICES ASSUME Bad # {} PROVE FALSE OBVIOUS
  <1>3. PICK k \in Bad : \A j \in Bad : k <= j
    <2>1. Bad \subseteq Nat OBVIOUS
    <2> HIDE DEF Bad
    <2>2. QED BY <1>2, <2>1, LeastNatural
  <1>4. k # 0
    <2> DEFINE g == [i \in 0..0 |-> x0]
    <2>1. Good(g, 0) BY DEF Rounds
    <2>2. QED BY <1>3, <2>1
  <1>5. k - 1 \in 0..n /\ k - 1 \notin Bad BY <1>3, <1>4
  <1>6. PICK g : Good(g, k - 1) BY <1>5
  <1> DEFINE y == S[k][g[k - 1]]
             h == [i \in 0..k |-> IF i = k THEN y ELSE g[i]]
  <1>7. y \in X[k] BY <1>3, <1>4, <1>6 DEF Loop
  <1>8. h = [i \in 0..k |-> h[i]] OBVIOUS
  <1>9. k \in Nat \ {0} BY <1>3, <1>4
  <1>10. \A i \in 0..(k - 1) : h[i] = g[i] BY <1>9
  <1>11. h[k] = y BY <1>9
  <1> HIDE DEF h
  <1>12. h[0] = x0 BY <1>6, <1>9, <1>10
  <1>13. \A i \in 0..k : h[i] \in X[i] BY <1>6, <1>7, <1>9, <1>10, <1>11
  <1>14. Rounds(h, S, k)
    <2> SUFFICES ASSUME NEW i \in 1..k PROVE h[i] = S[i][h[i - 1]] BY DEF Rounds
    <2>1. CASE i = k BY <2>1, <1>9, <1>10, <1>11
    <2>2. CASE i # k
      <3>1. i \in 1..(k - 1) /\ i \in 0..(k - 1) /\ i - 1 \in 0..(k - 1) BY <2>2, <1>9
      <3>2. QED BY <3>1, <1>6, <1>10 DEF Rounds
    <2>3. QED BY <2>1, <2>2
  <1>15. QED BY <1>3, <1>8, <1>12, <1>13, <1>14

\* What holds before a loop and of every round holds after it.
LEMMA LoopKeeps ==
    ASSUME NEW n \in Nat, NEW X, NEW S, NEW g, g[0] \in X[0], Loop(S, X, n), Rounds(g, S, n)
    PROVE  \A i \in 0..n : g[i] \in X[i]
  <1> DEFINE Bad == {k \in 0..n : g[k] \notin X[k]}
  <1>1. SUFFICES ASSUME Bad # {} PROVE FALSE OBVIOUS
  <1>2. PICK k \in Bad : \A j \in Bad : k <= j
    <2>1. Bad \subseteq Nat OBVIOUS
    <2> HIDE DEF Bad
    <2>2. QED BY <1>1, <2>1, LeastNatural
  <1>3. k \in 1..n /\ k - 1 \in 0..n /\ k - 1 \notin Bad BY <1>2
  <1>4. QED BY <1>2, <1>3 DEF Loop, Rounds

LEMMA LoopGoes ==
    ASSUME NEW n \in Nat, NEW X, NEW g, g[0] \in X[0],
           \A i \in 1..n : g[i - 1] \in X[i - 1] => g[i] \in X[i]
    PROVE  \A i \in 0..n : g[i] \in X[i]
  <1> DEFINE Bad == {k \in 0..n : g[k] \notin X[k]}
  <1>1. SUFFICES ASSUME Bad # {} PROVE FALSE OBVIOUS
  <1>2. PICK k \in Bad : \A j \in Bad : k <= j
    <2>1. Bad \subseteq Nat OBVIOUS
    <2> HIDE DEF Bad
    <2>2. QED BY <1>1, <2>1, LeastNatural
  <1>3. k \in 1..n /\ k - 1 \in 0..n /\ k - 1 \notin Bad BY <1>2
  <1>4. QED BY <1>2, <1>3

-----------------------------------------------------------------------------
(* Ranges of pages *)

Memories == [mm : SUBSET Frames, dir : [Tables -> Frames \cup {NULL}],
             pte : [VPages -> Frames \cup {NULL, JUNK}], warned : BOOLEAN]

LEMMA MemIs ==
    ASSUME NEW M, MemType(M)
    PROVE  M \in Memories
  BY DEF MemType, Memories

\* The loop of page_map_range over the pages, and the one that undoes it.
MapRound(r, i, f, v, fill) ==
    IF ~r.ok \/ page_map_fails(r.M, v + i - 1) THEN [r EXCEPT !.ok = FALSE]
    ELSE [M |-> page_map(r.M, f + i - 1, v + i - 1, fill), ok |-> TRUE, n |-> i]

MapRounds(g, M, f, v, n, fill) ==
    g = [i \in 0..n |-> IF i = 0 THEN [M |-> M, ok |-> TRUE, n |-> 0]
                        ELSE MapRound(g[i - 1], i, f, v, fill)]

UndoRounds(u, M, k, v, n) ==
    u = [i \in 0..n |-> IF i >= k THEN M ELSE page_unmap(u[i + 1], v + i)]

\* The values of the two loops.
MapLoop(M, f, v, n, fill) == CHOOSE h : MapRounds(h, M, f, v, n, fill)
UndoLoop(M, k, v, n) == CHOOSE h : UndoRounds(h, M, k, v, n)

LEMMA RangeIs ==
    ASSUME NEW M, NEW f, NEW v, NEW n, NEW fill, NEW q, q = MapLoop(M, f, v, n, fill)[n]
    PROVE  page_map_range(M, f, v, n, fill)
             = [ok |-> q.ok, M |-> IF q.ok THEN q.M ELSE UndoLoop(q.M, q.n, v, n)[0]]
  BY DEF page_map_range, MapRounds, MapRound, UndoRounds, MapLoop, UndoLoop

\* After i rounds.
Mapping(r, i, M, f, v, n) ==
    /\ r = [M |-> r.M, ok |-> r.ok, n |-> r.n] /\ r.ok \in BOOLEAN /\ r.n \in 0..n
    /\ Keeps(M, r.M, v..(v + r.n - 1))
    /\ ~r.ok => Full(r.M)
    /\ r.ok => /\ r.n = i
               /\ \A k \in 0..(i - 1) : r.M.dir[Table(v + k)] # NULL /\ r.M.pte[v + k] = f + k

LEMMA MapsOneMore ==
    ASSUME NEW M, Sound(M), NEW n \in Nat, NEW v \in Nat, NEW f \in Nat,
           v..(v + n - 1) \subseteq VPages, f..(f + n - 1) \subseteq Frames,
           NEW fill \in [Frames -> {NULL, JUNK}],
           NEW i \in 1..n, NEW r, Mapping(r, i - 1, M, f, v, n)
    PROVE  Mapping(MapRound(r, i, f, v, fill), i, M, f, v, n)
  <1> DEFINE W == v..(v + i - 1)
             x == v + i - 1
             y == f + i - 1
             N == page_map(r.M, y, x, fill)
  <1>1. x \in v..(v + n - 1) /\ y \in f..(f + n - 1) /\ x \in W OBVIOUS
  <1>2. x \in VPages /\ y \in Frames BY <1>1
  <1>3. Sound(r.M) /\ Keeps(M, r.M, v..(v + r.n - 1)) BY DEF Mapping, Keeps
  <1>4. CASE ~r.ok \/ page_map_fails(r.M, x)
    <2>1. MapRound(r, i, f, v, fill) = [r EXCEPT !.ok = FALSE] BY <1>4 DEF MapRound
    <2>2. [r EXCEPT !.ok = FALSE] = [M |-> r.M, ok |-> FALSE, n |-> r.n]
      <3> DEFINE a == r.M
                 b == r.ok
                 c == r.n
      <3>1. r = [M |-> a, ok |-> b, n |-> c] BY DEF Mapping
      <3> HIDE DEF a, b, c
      <3>2. \A z : [r EXCEPT !.ok = z] = [M |-> a, ok |-> z, n |-> c] BY <3>1
      <3>3. [r EXCEPT !.ok = FALSE] = [M |-> a, ok |-> FALSE, n |-> c] BY <3>2, Zenon
      <3>4. QED BY <3>3 DEF a, c
    <2>3. r.n \in 0..n BY DEF Mapping
    <2>4. Full(r.M)
      <3>1. CASE page_map_fails(r.M, x) BY <1>2, <1>3, <3>1, FailsWhenFull
      <3>2. CASE ~r.ok BY <3>2 DEF Mapping
      <3>3. QED BY <1>4, <3>1, <3>2
    <2>5. QED BY <2>1, <2>2, <2>3, <2>4, <1>3 DEF Mapping
  <1>5. CASE r.ok /\ ~page_map_fails(r.M, x)
    <2>1. MapRound(r, i, f, v, fill) = [M |-> N, ok |-> TRUE, n |-> i] BY <1>5 DEF MapRound
    <2> HIDE DEF x, y, W
    <2>s. Sound(r.M) /\ x \in VPages /\ y \in Frames /\ ~page_map_fails(r.M, x) BY <1>2, <1>3, <1>5
    <2>2. Keeps(r.M, N, {x}) /\ N.dir[Table(x)] # NULL /\ N.pte[x] = y
      <3> DEFINE K == r.M
      <3>1. Sound(K) /\ ~page_map_fails(K, x) /\ N = page_map(K, y, x, fill) BY <2>s
      <3> HIDE DEF K, N
      <3>2. /\ Keeps(K, page_map(K, y, x, fill), {x})
            /\ page_map(K, y, x, fill).dir[Table(x)] # NULL
            /\ page_map(K, y, x, fill).pte[x] = y
        BY <2>s, <3>1, Maps, ZenonT(60)
      <3>3. QED BY <3>1, <3>2 DEF K
    <2> HIDE DEF N
    <2>3. Keeps(r.M, N, W) BY <1>1, <2>2, KeepsMore
    <2>w. v..(v + r.n - 1) \subseteq W BY <1>5 DEF Mapping, W
    <2>m. Keeps(M, r.M, W) BY <1>3, <2>w, KeepsMore
    <2>4. Keeps(M, N, W) BY <2>m, <2>3, KeepsOn
    <2>5. ASSUME NEW k \in 0..(i - 1)
          PROVE  N.dir[Table(v + k)] # NULL /\ N.pte[v + k] = f + k
      <3>1. CASE k = i - 1
        <4>1. v + k = x /\ f + k = y BY <3>1 DEF x, y
        <4>2. QED BY <4>1, <2>2
      <3>2. CASE k # i - 1
        <4> DEFINE z == v + k
        <4>1. k \in 0..(i - 1 - 1) /\ z # x BY <3>2 DEF x
        <4>2. z \in VPages /\ f + k \in Frames
          <5>1. v + k \in v..(v + n - 1) /\ f + k \in f..(f + n - 1) OBVIOUS
          <5>2. QED BY <5>1
        <4>3. r.M.dir[Table(v + k)] # NULL /\ r.M.pte[v + k] = f + k BY <4>1, <1>5 DEF Mapping
        <4>4. Present(r.M, z) BY <4>2, <4>3, FrameFacts DEF Present
        <4> HIDE DEF z
        <4>5. N.dir[Table(z)] = r.M.dir[Table(z)] /\ N.pte[z] = r.M.pte[z]
          BY <4>1, <4>2, <4>4, <2>2 DEF Keeps
        <4>6. QED BY <4>3, <4>5 DEF z
      <3>3. QED BY <3>1, <3>2
    <2>6. i \in 0..n OBVIOUS
    <2>7. QED BY <2>1, <2>4, <2>5, <2>6 DEF Mapping, W
  <1>6. r.ok \in BOOLEAN BY DEF Mapping
  <1>7. QED BY <1>4, <1>5, <1>6

\* The loop has its values, and each is as the number of rounds says.
LEMMA MapRoundsRun ==
    ASSUME NEW M, Sound(M), NEW n \in Nat, NEW v \in Nat, NEW f \in Nat,
           v..(v + n - 1) \subseteq VPages, f..(f + n - 1) \subseteq Frames,
           NEW fill \in [Frames -> {NULL, JUNK}],
           NEW g, g = MapLoop(M, f, v, n, fill)
    PROVE  Mapping(g[n], n, M, f, v, n)
  <1> DEFINE R == [M : Memories, ok : BOOLEAN, n : 0..n]
             X == [i \in 0..n |-> {r \in R : Mapping(r, i, M, f, v, n)}]
             S == [i \in 1..n |-> [r \in X[i - 1] |-> MapRound(r, i, f, v, fill)]]
             x0 == [M |-> M, ok |-> TRUE, n |-> 0]
  <1>1. ASSUME NEW r, NEW i \in 0..n, Mapping(r, i, M, f, v, n) PROVE r \in X[i]
    <2>1. MemType(r.M) BY <1>1 DEF Mapping, Keeps, Sound
    <2>2. r.M \in Memories BY <2>1, MemIs
    <2>3. r \in R BY <1>1, <2>2 DEF Mapping
    <2>4. QED BY <1>1, <2>3
  <1>2. Mapping(x0, 0, M, f, v, n)
    <2>1. Keeps(M, M, v..(v + 0 - 1)) BY KeepsItself
    <2>2. 0 \in 0..n /\ 0..(0 - 1) = {} OBVIOUS
    <2>3. QED BY <2>1, <2>2 DEF Mapping
  <1>3. 0 \in 0..n /\ n \in 0..n OBVIOUS
  <1>4. x0 \in X[0] BY <1>1, <1>2, <1>3
  <1>5. \A i \in 0..n : \A r \in X[i] : Mapping(r, i, M, f, v, n) OBVIOUS
  <1>6. \A i \in 1..n : \A r \in X[i - 1] : S[i][r] = MapRound(r, i, f, v, fill) OBVIOUS
  <1> HIDE DEF X, S, R
  <1>7. Loop(S, X, n)
    <2> SUFFICES ASSUME NEW i \in 1..n, NEW r \in X[i - 1] PROVE S[i][r] \in X[i] BY DEF Loop
    <2>1. i \in 0..n /\ i - 1 \in 0..n OBVIOUS
    <2>2. Mapping(r, i - 1, M, f, v, n) BY <1>5, <2>1
    <2>3. Mapping(MapRound(r, i, f, v, fill), i, M, f, v, n) BY <2>2, MapsOneMore
    <2>4. QED BY <1>1, <1>6, <2>1, <2>3
  <1>8. PICK w : w = [i \in 0..n |-> w[i]] /\ w[0] = x0 /\ Rounds(w, S, n) /\ \A i \in 0..n : w[i] \in X[i]
    <2>1. \E w : Computed(w, S, X, x0, n) BY <1>4, <1>7, LoopRuns
    <2>2. QED BY <2>1 DEF Computed
  <1>9. MapRounds(w, M, f, v, n, fill)
    <2>1. \A i \in 0..n : w[i] = IF i = 0 THEN x0 ELSE MapRound(w[i - 1], i, f, v, fill)
      <3> SUFFICES ASSUME NEW i \in 0..n, i # 0 PROVE w[i] = MapRound(w[i - 1], i, f, v, fill) BY <1>8
      <3>1. i \in 1..n /\ i - 1 \in 0..n OBVIOUS
      <3>2. QED BY <3>1, <1>6, <1>8 DEF Rounds
    <2>2. [i \in 0..n |-> w[i]] = [i \in 0..n |-> IF i = 0 THEN x0 ELSE MapRound(w[i - 1], i, f, v, fill)]
      BY <2>1
    <2>3. QED BY <2>2, <1>8 DEF MapRounds
  <1>10. MapRounds(g, M, f, v, n, fill) BY <1>9 DEF MapLoop
  <1>11. g[0] = x0 /\ \A i \in 1..n : g[i] = MapRound(g[i - 1], i, f, v, fill)
    <2>1. g = [i \in 0..n |-> IF i = 0 THEN x0 ELSE MapRound(g[i - 1], i, f, v, fill)]
      BY <1>10 DEF MapRounds
    <2> HIDE DEF x0
    <2>2. \A i \in 0..n : g[i] = IF i = 0 THEN x0 ELSE MapRound(g[i - 1], i, f, v, fill) BY <2>1
    <2>3. QED BY <1>3, <2>2
  <1> DEFINE T == [i \in 1..n |-> [r \in X[i - 1] \cup {g[i - 1]} |-> MapRound(r, i, f, v, fill)]]
  <1>12. \A i \in 1..n : \A r \in X[i - 1] \cup {g[i - 1]} : T[i][r] = MapRound(r, i, f, v, fill) OBVIOUS
  <1> HIDE DEF T
  <1>13. Rounds(g, T, n) BY <1>11, <1>12 DEF Rounds
  <1>14. Loop(T, X, n)
    <2> SUFFICES ASSUME NEW i \in 1..n, NEW r \in X[i - 1] PROVE T[i][r] \in X[i] BY DEF Loop
    <2>1. T[i][r] = S[i][r] BY <1>6, <1>12
    <2>2. QED BY <1>7, <2>1 DEF Loop
  <1>15. \A i \in 0..n : g[i] \in X[i] BY <1>4, <1>11, <1>13, <1>14, LoopKeeps
  <1>16. QED BY <1>3, <1>5, <1>15

\* Unmapped again, the last page first, down to the i-th of the first k.
Undone(M, K, k, v, i) ==
    /\ Keeps(M, K, v..(v + k - 1))
    /\ \A x \in (v + i)..(v + k - 1) : ~Framed(K, x)

LEMMA UndoesOneMore ==
    ASSUME NEW M, Sound(M), NEW n \in Nat, NEW v \in Nat, NEW k \in 0..n, NEW i \in 0..(n - 1),
           v..(v + n - 1) \subseteq VPages, NEW K, Undone(M, K, k, v, i + 1)
    PROVE  Undone(M, IF i >= k THEN M ELSE page_unmap(K, v + i), k, v, i)
  <1>1. CASE i >= k
    <2>1. (v + i)..(v + k - 1) = {} BY <1>1
    <2>2. Keeps(M, M, v..(v + k - 1)) BY KeepsItself
    <2>3. QED BY <1>1, <2>1, <2>2 DEF Undone
  <1>2. CASE ~(i >= k)
    <2> DEFINE x == v + i
               N == page_unmap(K, x)
    <2>1. x \in v..(v + k - 1) /\ x \in v..(v + n - 1) BY <1>2
    <2>2. Sound(K) /\ x \in VPages BY <2>1 DEF Undone, Keeps
    <2>x. \A y \in x..(v + k - 1) : y = x \/ (y \in (v + (i + 1))..(v + k - 1) /\ y \in v..(v + n - 1))
      BY <1>2
    <2>3. \A y \in (v + (i + 1))..(v + k - 1) : ~Framed(K, y) BY DEF Undone
    <2> HIDE DEF x
    <2>4. Keeps(K, N, {x}) /\ ~Framed(N, x) BY <2>2, Unmaps
    <2> HIDE DEF N
    <2>5. Keeps(K, N, v..(v + k - 1)) BY <2>1, <2>4, KeepsMore
    <2>6. Keeps(M, N, v..(v + k - 1)) BY <2>5, KeepsOn DEF Undone
    <2>7. \A y \in x..(v + k - 1) : ~Framed(N, y) BY <2>x, <2>3, <2>4 DEF Keeps
    <2>8. Undone(M, N, k, v, i) BY <2>6, <2>7 DEF Undone, x
    <2>9. QED BY <1>2, <2>8 DEF N, x
  <1>3. QED BY <1>1, <1>2

\* Whatever is unmapped again, the memory keeps the rest.
LEMMA UndoRoundsRun ==
    ASSUME NEW M, Sound(M), NEW n \in Nat, NEW v \in Nat, NEW k \in 0..n,
           v..(v + n - 1) \subseteq VPages,
           NEW u, u = UndoLoop(M, k, v, n)
    PROVE  Undone(M, u[0], k, v, 0)
  <1> DEFINE Y(i) == {K \in Memories : Undone(M, K, k, v, i)}
             X == [j \in 0..n |-> Y(n - j)]
             Round(K, i) == IF i >= k THEN M ELSE page_unmap(K, v + i)
             S == [j \in 1..n |-> [K \in X[j - 1] |-> Round(K, n - j)]]
  <1>1. ASSUME NEW K, NEW j \in 0..n, Undone(M, K, k, v, n - j) PROVE K \in X[j]
    <2>1. K \in Memories BY <1>1, MemIs DEF Undone, Keeps, Sound
    <2>2. QED BY <1>1, <2>1
  <1>2. \A j \in 0..n : \A K \in X[j] : Undone(M, K, k, v, n - j) OBVIOUS
  <1>3. 0 \in 0..n /\ n \in 0..n OBVIOUS
  <1>4. M \in X[0]
    <2>1. (v + (n - 0))..(v + k - 1) = {} OBVIOUS
    <2>2. Keeps(M, M, v..(v + k - 1)) BY KeepsItself
    <2>3. Undone(M, M, k, v, n - 0) BY <2>1, <2>2 DEF Undone
    <2>4. QED BY <1>1, <1>3, <2>3
  <1>5. \A j \in 1..n : \A K \in X[j - 1] : S[j][K] = Round(K, n - j) OBVIOUS
  <1> HIDE DEF X, S
  <1>6. ASSUME NEW j \in 1..n, NEW K \in X[j - 1] PROVE Round(K, n - j) \in X[j]
    <2>1. n - j \in 0..(n - 1) /\ (n - j) + 1 = n - (j - 1) /\ j \in 0..n /\ j - 1 \in 0..n OBVIOUS
    <2>2. Undone(M, K, k, v, n - (j - 1)) BY <1>2, <2>1
    <2>3. Undone(M, K, k, v, (n - j) + 1) BY <2>1, <2>2
    <2>4. Undone(M, Round(K, n - j), k, v, n - j) BY <2>1, <2>3, UndoesOneMore
    <2> HIDE DEF Round
    <2>5. QED BY <1>1, <2>1, <2>4
  <1> HIDE DEF Round
  <1>7. Loop(S, X, n) BY <1>5, <1>6 DEF Loop
  <1>8. PICK w : w = [i \in 0..n |-> w[i]] /\ w[0] = M /\ Rounds(w, S, n) /\ \A i \in 0..n : w[i] \in X[i]
    <2>1. \E w : Computed(w, S, X, M, n) BY <1>4, <1>7, LoopRuns
    <2>2. QED BY <2>1 DEF Computed
  <1> DEFINE z == [i \in 0..n |-> w[n - i]]
  <1>9. UndoRounds(z, M, k, v, n)
    <2>1. ASSUME NEW i \in 0..n PROVE z[i] = IF i >= k THEN M ELSE page_unmap(z[i + 1], v + i)
      <3>1. CASE i = n BY <3>1, <1>8
      <3>2. CASE i # n
        <4>1. n - i \in 1..n /\ n - (i + 1) = n - i - 1 /\ i + 1 \in 0..n /\ n - i - 1 \in 0..n
              /\ n - (n - i) = i
          BY <3>2
        <4>2. w[n - i] = S[n - i][w[n - i - 1]] BY <4>1, <1>8 DEF Rounds
        <4>3. w[n - i - 1] \in X[n - i - 1] BY <4>1, <1>8
        <4>4. w[n - i] = Round(w[n - i - 1], n - (n - i)) BY <4>1, <4>2, <4>3, <1>5
        <4>5. z[i] = w[n - i] /\ z[i + 1] = w[n - i - 1] BY <4>1
        <4> HIDE DEF z
        <4>6. z[i] = Round(z[i + 1], i) BY <4>1, <4>4, <4>5
        <4>7. QED BY <4>6 DEF Round
      <3>3. QED BY <3>1, <3>2
    <2>2. z = [i \in 0..n |-> z[i]] OBVIOUS
    <2> HIDE DEF z
    <2>3. [i \in 0..n |-> z[i]] = [i \in 0..n |-> IF i >= k THEN M ELSE page_unmap(z[i + 1], v + i)]
      BY <2>1
    <2>4. QED BY <2>2, <2>3 DEF UndoRounds
  <1> HIDE DEF z
  <1>10. UndoRounds(u, M, k, v, n) BY <1>9 DEF UndoLoop
  <1>11. \A i \in 0..n : u[i] = IF i >= k THEN M ELSE page_unmap(u[i + 1], v + i)
    BY <1>10 DEF UndoRounds
  <1> DEFINE h == [j \in 0..n |-> u[n - j]]
  <1>12. h[0] = M BY <1>11
  <1>13. \A j \in 1..n : h[j] = Round(h[j - 1], n - j)
    <2> SUFFICES ASSUME NEW j \in 1..n PROVE h[j] = Round(h[j - 1], n - j) OBVIOUS
    <2>1. n - j \in 0..n /\ (n - j) + 1 = n - (j - 1) /\ j - 1 \in 0..n /\ j \in 0..n OBVIOUS
    <2>2. h[j] = u[n - j] /\ h[j - 1] = u[(n - j) + 1] BY <2>1
    <2> HIDE DEF h
    <2>3. QED BY <1>11, <2>1, <2>2 DEF Round
  <1>14. h[n] = u[0] OBVIOUS
  <1> HIDE DEF h
  <1>15. \A j \in 0..n : h[j] \in X[j] BY <1>4, <1>6, <1>12, <1>13, LoopGoes
  <1>16. Undone(M, h[n], k, v, n - n) BY <1>2, <1>3, <1>15
  <1>17. n - n = 0 OBVIOUS
  <1>18. QED BY <1>14, <1>16, <1>17

\* The n pages from v on are mapped to those from f on.
MappedTo(M, f, v, n) ==
    \A k \in 0..(n - 1) : M.dir[Table(v + k)] # NULL /\ M.pte[v + k] = f + k

\* page_map_range: all of the range is mapped, or nothing outside it has changed.
LEMMA MapsRange ==
    ASSUME NEW M, Sound(M), NEW n \in Nat, NEW v \in Nat, NEW f \in Nat,
           v..(v + n - 1) \subseteq VPages, f..(f + n - 1) \subseteq Frames,
           NEW fill \in [Frames -> {NULL, JUNK}],
           NEW r, r = page_map_range(M, f, v, n, fill)
    PROVE  /\ Keeps(M, r.M, v..(v + n - 1)) /\ r.ok \in BOOLEAN
           /\ r.ok => MappedTo(r.M, f, v, n)
           /\ ~r.ok => Full(r.M) /\ \A x \in v..(v + n - 1) : Framed(r.M, x) => Framed(M, x)
  <1> DEFINE q == MapLoop(M, f, v, n, fill)[n]
             u == UndoLoop(q.M, q.n, v, n)
  <1>1. Mapping(q, n, M, f, v, n) BY MapRoundsRun
  <1>2. r = [ok |-> q.ok, M |-> IF q.ok THEN q.M ELSE u[0]] BY RangeIs
  <1> HIDE DEF q
  <1>3. Sound(q.M) /\ q.n \in 0..n /\ q.ok \in BOOLEAN BY <1>1 DEF Mapping, Keeps
  <1>4. Undone(q.M, u[0], q.n, v, 0) BY <1>3, UndoRoundsRun
  <1> HIDE DEF u
  <1>5. Keeps(M, q.M, v..(v + q.n - 1)) BY <1>1 DEF Mapping
  <1>6. Keeps(M, u[0], v..(v + q.n - 1)) BY <1>4, <1>5, KeepsOn DEF Undone
  <1>w. v..(v + q.n - 1) \subseteq v..(v + n - 1) BY <1>3
  <1>k. Keeps(M, q.M, v..(v + n - 1)) /\ Keeps(M, u[0], v..(v + n - 1)) BY <1>5, <1>6, <1>w, KeepsMore
  <1>7. CASE q.ok
    <2>1. r.ok = q.ok /\ r.M = q.M BY <1>2, <1>7
    <2>2. QED BY <1>1, <1>3, <1>k, <1>7, <2>1 DEF Mapping, MappedTo
  <1>8. CASE ~q.ok
    <2>1. r.ok = q.ok /\ r.M = u[0] BY <1>2, <1>8
    <2>2. Full(q.M) BY <1>1, <1>8 DEF Mapping
    <2>3. Full(u[0]) BY <1>4, <2>2, KeepsFull DEF Undone
    <2>4. ASSUME NEW x \in v..(v + n - 1), Framed(u[0], x) PROVE Framed(M, x)
      <3>1. x \notin (v + 0)..(v + q.n - 1) BY <1>4, <2>4 DEF Undone
      <3>2. x \in VPages \ (v..(v + q.n - 1)) BY <3>1
      <3>3. QED BY <1>6, <2>4, <3>2 DEF Keeps
    <2>5. QED BY <1>3, <1>k, <1>8, <2>1, <2>3, <2>4
  <1>9. QED BY <1>3, <1>7, <1>8

-----------------------------------------------------------------------------
(* Virtual pages in use: each has a physical page of its own.                *)

Total(M) == M.mm \cup TablesOf(M)

Backed(M, X) ==
    /\ Sound(M) /\ ~M.warned /\ X \subseteq VPages
    /\ \A x \in X : M.dir[Table(x)] # NULL /\ M.pte[x] \in Frames \ Total(M)
    /\ \A x, y \in X : M.pte[x] = M.pte[y] => x = y

\* The pages behind X, and those the bitmap, the tables and X have between them.
PagesOf(M, X) == {M.pte[x] : x \in X}
Pool(M, X) == Total(M) \cup PagesOf(M, X)

\* The entries of X are the same in M and in N.
SameEntries(M, N, X) ==
    \A x \in X : N.dir[Table(x)] = M.dir[Table(x)] /\ N.pte[x] = M.pte[x]

LEMMA BackedSome ==
    ASSUME NEW M, NEW X, NEW Y, Backed(M, X), Y \subseteq X
    PROVE  Backed(M, Y)
  BY DEF Backed

\* Whatever goes on in the bitmap and the tables, X keeps its pages.
LEMMA StillBacked ==
    ASSUME NEW M, NEW N, NEW X, Backed(M, X), Sound(N), ~N.warned,
           Total(N) \subseteq Total(M), SameEntries(M, N, X)
    PROVE  Backed(N, X)
  BY DEF Backed, SameEntries

\* Y is mapped to pages that were neither free nor in use.
LEMMA MoreBacked ==
    ASSUME NEW N, NEW X, NEW Y, Backed(N, X), Y \subseteq VPages,
           \A y \in Y : N.dir[Table(y)] # NULL /\ N.pte[y] \in Frames \ Total(N),
           \A y, z \in Y : N.pte[y] = N.pte[z] => y = z,
           \A x \in X, y \in Y : N.pte[x] # N.pte[y]
    PROVE  Backed(N, X \cup Y)
  BY DEF Backed

\* What the mapping functions keep.
LEMMA KeepsBacked ==
    ASSUME NEW M, NEW N, NEW X, NEW W, Backed(M, X), Keeps(M, N, W), W \cap X = {}
    PROVE  Backed(N, X) /\ SameEntries(M, N, X) /\ Total(N) = Total(M)
  <1>1. Sound(N) /\ N.warned = M.warned /\ Total(N) = Total(M) BY DEF Keeps, Total
  <1>2. ASSUME NEW x \in X
        PROVE  N.dir[Table(x)] = M.dir[Table(x)] /\ N.pte[x] = M.pte[x]
    <2>1. x \in VPages \ W BY DEF Backed
    <2>2. Present(M, x) BY FrameFacts DEF Backed, Present
    <2>3. QED BY <2>1, <2>2 DEF Keeps
  <1>3. SameEntries(M, N, X) BY <1>2 DEF SameEntries
  <1>4. ~N.warned BY <1>1 DEF Backed
  <1>5. QED BY <1>1, <1>3, <1>4, StillBacked

\* alloc_phys_block of pages that are free.
Without(M, F) == [M EXCEPT !.mm = M.mm \ F]

LEMMA TakenFrom ==
    ASSUME NEW M, NEW X, Backed(M, X), NEW F, F \subseteq M.mm
    PROVE  /\ Backed(Without(M, F), X) /\ SameEntries(M, Without(M, F), X)
           /\ Total(Without(M, F)) = Total(M) \ F
           /\ F \cap PagesOf(M, X) = {} /\ F \subseteq Frames
  <1> DEFINE m == M.mm \ F
             N == [mm |-> m, dir |-> M.dir, pte |-> M.pte, warned |-> M.warned]
  <1>1. MemType(M) /\ TablesApart(M) /\ ~M.warned BY DEF Backed, Sound
  <1>2. Without(M, F) = N BY <1>1, MemSet DEF Without
  <1> HIDE DEF m
  <1>3. m \subseteq M.mm /\ m = M.mm \ F BY DEF m
  <1>4. MemType(N) BY <1>1, <1>3 DEF MemType
  <1>5. TablesApart(N) BY <1>1, <1>3 DEF TablesApart
  <1>6. TablesOf(N) = TablesOf(M) BY DEF TablesOf
  <1>7. F \cap TablesOf(M) = {} BY <1>1 DEF TablesApart, TablesOf
  <1>8. Total(N) = Total(M) \ F BY <1>3, <1>6, <1>7 DEF Total
  <1>9. SameEntries(M, N, X) /\ ~N.warned BY <1>1 DEF SameEntries
  <1> HIDE DEF N
  <1>10. Backed(N, X) BY <1>4, <1>5, <1>8, <1>9, StillBacked DEF Sound
  <1>11. F \cap PagesOf(M, X) = {} BY DEF Backed, Total, PagesOf
  <1>12. F \subseteq Frames BY <1>1 DEF MemType
  <1>13. QED BY <1>2, <1>8, <1>9, <1>10, <1>11, <1>12

\* free_phys_block of pages that are not free, hold no table and are not of X.
With(M, F) == [M EXCEPT !.mm = M.mm \cup F]

LEMMA GivenTo ==
    ASSUME NEW M, NEW X, Backed(M, X), NEW F, F \subseteq Frames \ Total(M),
           F \cap PagesOf(M, X) = {}
    PROVE  /\ Backed(With(M, F), X) /\ With(M, F).pte = M.pte /\ With(M, F).dir = M.dir
           /\ Total(With(M, F)) = Total(M) \cup F
  <1> DEFINE m == M.mm \cup F
             N == [mm |-> m, dir |-> M.dir, pte |-> M.pte, warned |-> M.warned]
  <1>1. MemType(M) /\ TablesApart(M) /\ ~M.warned BY DEF Backed, Sound
  <1>2. With(M, F) = N BY <1>1, MemSet DEF With
  <1> HIDE DEF m
  <1>3. m = M.mm \cup F BY DEF m
  <1>4. MemType(N) BY <1>1, <1>3 DEF MemType
  <1>5. TablesOf(N) = TablesOf(M) BY DEF TablesOf
  <1>6. Total(N) = Total(M) \cup F BY <1>3, <1>5 DEF Total
  <1>7. TablesApart(N)
    <2>1. F \cap TablesOf(M) = {} BY DEF Total
    <2>2. \A d \in Tables : M.dir[d] # NULL => M.dir[d] \notin F BY <2>1 DEF TablesOf
    <2>3. QED BY <1>1, <1>3, <2>2 DEF TablesApart
  <1>8. N.pte = M.pte /\ N.dir = M.dir /\ ~N.warned BY <1>1
  <1> HIDE DEF N
  <1>9. Backed(N, X)
    <2>1. \A x \in X : M.pte[x] \in Frames \ Total(N) BY <1>6 DEF Backed, PagesOf
    <2>2. QED BY <1>4, <1>7, <1>8, <2>1 DEF Backed, Sound
  <1>10. QED BY <1>2, <1>6, <1>8, <1>9

\* page_map of a page taken from the bitmap.
LEMMA MapsBacked ==
    ASSUME NEW M, NEW X, Backed(M, X), NEW v \in VPages, v \notin X,
           NEW f \in Frames, f \notin Total(M), f \notin PagesOf(M, X),
           NEW fill \in [Frames -> {NULL, JUNK}], ~page_map_fails(M, v),
           NEW N, N = page_map(M, f, v, fill)
    PROVE  /\ Backed(N, X \cup {v}) /\ SameEntries(M, N, X)
           /\ Pool(N, X \cup {v}) = Pool(M, X) \cup {f}
  <1>1. Sound(M) BY DEF Backed
  <1>2. Keeps(M, N, {v}) /\ N.dir[Table(v)] # NULL /\ N.pte[v] = f BY <1>1, Maps
  <1>3. Backed(N, X) /\ SameEntries(M, N, X) /\ Total(N) = Total(M) BY <1>2, KeepsBacked
  <1>4. \A x \in X : N.pte[x] = M.pte[x] BY <1>3 DEF SameEntries
  <1>5. \A x \in X, y \in {v} : N.pte[x] # N.pte[y] BY <1>2, <1>4 DEF PagesOf
  <1>6. Backed(N, X \cup {v}) BY <1>2, <1>3, <1>5, MoreBacked
  <1>7. PagesOf(N, X \cup {v}) = PagesOf(M, X) \cup {f} BY <1>2, <1>4 DEF PagesOf
  <1>8. QED BY <1>3, <1>6, <1>7 DEF Pool

\* page_map_range of pages taken from the bitmap.
RangeMapped(r, M, X, f, v, n) ==
    /\ Backed(r.M, X) /\ SameEntries(M, r.M, X) /\ Total(r.M) = Total(M) /\ r.ok \in BOOLEAN
    /\ r.ok => /\ Backed(r.M, X \cup (v..(v + n - 1)))
               /\ Pool(r.M, X \cup (v..(v + n - 1))) = Pool(M, X) \cup (f..(f + n - 1))
               /\ \A k \in 0..(n - 1) : r.M.pte[v + k] = f + k

LEMMA RangeBacked ==
    ASSUME NEW M, NEW X, Backed(M, X), NEW n \in Nat, NEW v \in Nat, NEW f \in Nat,
           v..(v + n - 1) \subseteq VPages \ X, f..(f + n - 1) \subseteq Frames \ Total(M),
           (f..(f + n - 1)) \cap PagesOf(M, X) = {},
           NEW fill \in [Frames -> {NULL, JUNK}],
           NEW r, r = page_map_range(M, f, v, n, fill)
    PROVE  RangeMapped(r, M, X, f, v, n)
  <1> DEFINE Y == v..(v + n - 1)
             F == f..(f + n - 1)
             N == r.M
  <1>1. Sound(M) BY DEF Backed
  <1>2. /\ Keeps(M, N, Y) /\ r.ok \in BOOLEAN
        /\ r.ok => \A k \in 0..(n - 1) : N.dir[Table(v + k)] # NULL /\ N.pte[v + k] = f + k
    <2>1. Y \subseteq VPages /\ F \subseteq Frames OBVIOUS
    <2>2. Keeps(M, r.M, v..(v + n - 1)) /\ r.ok \in BOOLEAN /\ (r.ok => MappedTo(r.M, f, v, n))
      BY <1>1, <2>1, MapsRange
    <2>3. QED BY <2>2 DEF MappedTo
  <1>3. Backed(N, X) /\ SameEntries(M, N, X) /\ Total(N) = Total(M)
    <2>1. Y \cap X = {} OBVIOUS
    <2> HIDE DEF Y, N
    <2>2. QED BY <1>2, <2>1, KeepsBacked
  <1>4. ASSUME r.ok
        PROVE  /\ Backed(N, X \cup Y) /\ Pool(N, X \cup Y) = Pool(M, X) \cup F
    <2>1. \A y \in Y : N.dir[Table(y)] # NULL /\ N.pte[y] = f + (y - v) /\ N.pte[y] \in F
      <3> SUFFICES ASSUME NEW y \in Y
                   PROVE  N.dir[Table(y)] # NULL /\ N.pte[y] = f + (y - v) /\ N.pte[y] \in F
        OBVIOUS
      <3> DEFINE k == y - v
      <3>1. k \in 0..(n - 1) /\ v + k = y OBVIOUS
      <3>2. f + k \in F BY <3>1
      <3> HIDE DEF k, N
      <3>3. N.dir[Table(v + k)] # NULL /\ N.pte[v + k] = f + k BY <1>2, <1>4, <3>1
      <3>4. QED BY <3>1, <3>2, <3>3 DEF k
    <2>2. \A y, z \in Y : N.pte[y] = N.pte[z] => y = z
      <3> HIDE DEF N
      <3> SUFFICES ASSUME NEW y \in Y, NEW z \in Y, N.pte[y] = N.pte[z] PROVE y = z OBVIOUS
      <3>1. f + (y - v) = f + (z - v) BY <2>1
      <3>2. QED BY <3>1
    <2>3. \A x \in X : N.pte[x] = M.pte[x] BY <1>3 DEF SameEntries
    <2> HIDE DEF N
    <2>4. \A x \in X, y \in Y : N.pte[x] # N.pte[y] BY <2>1, <2>3 DEF PagesOf
    <2>5. \A y \in Y : N.pte[y] \in Frames \ Total(N) BY <2>1, <1>3
    <2>6. Y \subseteq VPages OBVIOUS
    <2>7. PagesOf(N, Y) = F
      <3>1. PagesOf(N, Y) \subseteq F BY <2>1 DEF PagesOf
      <3>2. ASSUME NEW g \in F PROVE g \in PagesOf(N, Y)
        <4> DEFINE y == v + (g - f)
        <4>1. y \in Y /\ f + (y - v) = g OBVIOUS
        <4> HIDE DEF y
        <4>2. N.pte[y] = g BY <2>1, <4>1
        <4>3. QED BY <4>1, <4>2 DEF PagesOf
      <3>3. QED BY <3>1, <3>2
    <2> HIDE DEF Y, F
    <2>8. Backed(N, X \cup Y) BY <1>3, <2>1, <2>2, <2>4, <2>5, <2>6, MoreBacked
    <2>9. PagesOf(N, X \cup Y) = PagesOf(M, X) \cup F BY <2>3, <2>7 DEF PagesOf
    <2>10. QED BY <1>3, <2>8, <2>9 DEF Pool
  <1>5. QED BY <1>2, <1>3, <1>4 DEF RangeMapped
=============================================================================
