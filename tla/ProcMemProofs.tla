---------------------------- MODULE ProcMemProofs ----------------------------
(***************************************************************************)
(* The memory of processes, for any number of processes, pages, tables and *)
(* blocks.                                                                 *)
(***************************************************************************)
EXTENDS ProcMem, PagingProofs

Block == [v : Nat, p : Frames, n : Nat]
BlockOK(b) == b \in Block /\ VRange(b) \subseteq User /\ PRange(b) \subseteq Frames

LEMMA Pages ==
    /\ TOP \in Nat \ {0} /\ User \subseteq VPages /\ TOP \in User /\ 0 \notin User
    /\ LOW_PAGE \in Frames
  BY PagingAssumption, ProcMemAssumption DEF TOP, User, VPages, Frames

-----------------------------------------------------------------------------
(* Lists of blocks *)

\* The physical and the virtual pages of the blocks of s.
PagesIn(s) == UNION {PRange(s[i]) : i \in 1..Len(s)}
PlacesIn(s) == UNION {VRange(s[i]) : i \in 1..Len(s)}

Disjoint(b, c) == PRange(b) \cap PRange(c) = {} /\ VRange(b) \cap VRange(c) = {}
Distinct(s) == \A i, j \in 1..Len(s) : i # j => Disjoint(s[i], s[j])

\* The blocks of s and t side by side.
Beside(s, t) == PagesIn(s) \cap PagesIn(t) = {} /\ PlacesIn(s) \cap PlacesIn(t) = {}

\* Every block of s is one of t.
Within(s, t) == \A i \in 1..Len(s) : \E j \in 1..Len(t) : s[i] = t[j]

LEMMA WithinPages ==
    ASSUME NEW s, NEW t, Within(s, t)
    PROVE  PagesIn(s) \subseteq PagesIn(t) /\ PlacesIn(s) \subseteq PlacesIn(t)
  BY DEF Within, PagesIn, PlacesIn

LEMMA Concats ==
    ASSUME NEW s \in Seq(Block), NEW t \in Seq(Block)
    PROVE  /\ s \o t \in Seq(Block)
           /\ PagesIn(s \o t) = PagesIn(s) \cup PagesIn(t)
           /\ PlacesIn(s \o t) = PlacesIn(s) \cup PlacesIn(t)
           /\ Distinct(s \o t) <=> Distinct(s) /\ Distinct(t) /\ Beside(s, t)
  <1> DEFINE u == s \o t
             a == Len(s)
             b == Len(t)
  <1>1. /\ u \in Seq(Block) /\ Len(u) = a + b
        /\ \A i \in 1..(a + b) : u[i] = IF i <= a THEN s[i] ELSE t[i - a]
    BY ConcatProperties
  <1>2. a \in Nat /\ b \in Nat OBVIOUS
  <1> HIDE DEF u
  <1>3. \A i \in 1..a : i \in 1..Len(u) /\ u[i] = s[i] BY <1>1, <1>2
  <1>4. \A i \in 1..b : a + i \in 1..Len(u) /\ u[a + i] = t[i]
    <2> SUFFICES ASSUME NEW i \in 1..b PROVE a + i \in 1..Len(u) /\ u[a + i] = t[i] OBVIOUS
    <2>1. a + i \in 1..(a + b) /\ ~(a + i <= a) /\ (a + i) - a = i BY <1>2
    <2> HIDE DEF a, b
    <2>2. u[a + i] = t[(a + i) - a] BY <1>1, <2>1
    <2>3. QED BY <1>1, <2>1, <2>2
  <1>5. \A i \in 1..Len(u) : i \in 1..a \/ \E j \in 1..b : i = a + j
    <2> SUFFICES ASSUME NEW i \in 1..Len(u), ~(i \in 1..a) PROVE \E j \in 1..b : i = a + j OBVIOUS
    <2>1. i - a \in 1..b /\ i = a + (i - a) BY <1>1, <1>2
    <2>2. QED BY <2>1
  <1> HIDE DEF a, b
  <1>6. PagesIn(u) = PagesIn(s) \cup PagesIn(t)
    <2>1. \A i \in 1..a : PRange(s[i]) \subseteq PagesIn(u) BY <1>3 DEF PagesIn
    <2>2. \A i \in 1..b : PRange(t[i]) \subseteq PagesIn(u) BY <1>4 DEF PagesIn
    <2>3. ASSUME NEW i \in 1..Len(u) PROVE PRange(u[i]) \subseteq PagesIn(s) \cup PagesIn(t)
      <3>1. CASE i \in 1..a BY <1>3, <3>1 DEF PagesIn, a
      <3>2. CASE i \notin 1..a
        <4>1. PICK j \in 1..b : i = a + j BY <1>5, <3>2
        <4>2. PRange(u[i]) = PRange(t[j]) BY <1>4, <4>1
        <4>3. QED BY <4>2 DEF PagesIn, b
      <3>3. QED BY <3>1, <3>2
    <2>4. PagesIn(u) \subseteq PagesIn(s) \cup PagesIn(t) BY <2>3 DEF PagesIn
    <2>5. PagesIn(s) \subseteq PagesIn(u) BY <2>1 DEF PagesIn, a
    <2>6. PagesIn(t) \subseteq PagesIn(u) BY <2>2 DEF PagesIn, b
    <2>7. QED BY <2>4, <2>5, <2>6
  <1>7. PlacesIn(u) = PlacesIn(s) \cup PlacesIn(t)
    <2>1. \A i \in 1..a : VRange(s[i]) \subseteq PlacesIn(u) BY <1>3 DEF PlacesIn
    <2>2. \A i \in 1..b : VRange(t[i]) \subseteq PlacesIn(u) BY <1>4 DEF PlacesIn
    <2>3. ASSUME NEW i \in 1..Len(u) PROVE VRange(u[i]) \subseteq PlacesIn(s) \cup PlacesIn(t)
      <3>1. CASE i \in 1..a BY <1>3, <3>1 DEF PlacesIn, a
      <3>2. CASE i \notin 1..a
        <4>1. PICK j \in 1..b : i = a + j BY <1>5, <3>2
        <4>2. VRange(u[i]) = VRange(t[j]) BY <1>4, <4>1
        <4>3. QED BY <4>2 DEF PlacesIn, b
      <3>3. QED BY <3>1, <3>2
    <2>4. PlacesIn(u) \subseteq PlacesIn(s) \cup PlacesIn(t) BY <2>3 DEF PlacesIn
    <2>5. PlacesIn(s) \subseteq PlacesIn(u) BY <2>1 DEF PlacesIn, a
    <2>6. PlacesIn(t) \subseteq PlacesIn(u) BY <2>2 DEF PlacesIn, b
    <2>7. QED BY <2>4, <2>5, <2>6
  <1>8. ASSUME Distinct(u) PROVE Distinct(s) /\ Distinct(t) /\ Beside(s, t)
    <2>1. \A i, j \in 1..Len(u) : i # j => Disjoint(u[i], u[j]) BY <1>8 DEF Distinct
    <2>2. \A i, j \in 1..a : i # j => Disjoint(s[i], s[j]) BY <1>3, <2>1
    <2>3. ASSUME NEW i \in 1..b, NEW j \in 1..b, i # j PROVE Disjoint(t[i], t[j])
      <3>1. a + i # a + j BY <1>2, <2>3
      <3>2. QED BY <1>4, <2>1, <3>1
    <2>4. ASSUME NEW i \in 1..a, NEW j \in 1..b PROVE Disjoint(s[i], t[j])
      <3>1. i # a + j BY <1>2
      <3>2. QED BY <1>3, <1>4, <2>1, <3>1
    <2>5. PagesIn(s) \cap PagesIn(t) = {}
      <3> SUFFICES ASSUME NEW x \in PagesIn(s), x \in PagesIn(t) PROVE FALSE OBVIOUS
      <3>1. PICK i \in 1..a : x \in PRange(s[i]) BY DEF PagesIn, a
      <3>2. PICK j \in 1..b : x \in PRange(t[j]) BY DEF PagesIn, b
      <3>3. QED BY <2>4, <3>1, <3>2 DEF Disjoint
    <2>6. PlacesIn(s) \cap PlacesIn(t) = {}
      <3> SUFFICES ASSUME NEW x \in PlacesIn(s), x \in PlacesIn(t) PROVE FALSE OBVIOUS
      <3>1. PICK i \in 1..a : x \in VRange(s[i]) BY DEF PlacesIn, a
      <3>2. PICK j \in 1..b : x \in VRange(t[j]) BY DEF PlacesIn, b
      <3>3. QED BY <2>4, <3>1, <3>2 DEF Disjoint
    <2>7. QED BY <2>2, <2>3, <2>5, <2>6 DEF Distinct, Beside, a, b
  <1>9. ASSUME Distinct(s), Distinct(t), Beside(s, t) PROVE Distinct(u)
    <2>1. \A i, j \in 1..a : i # j => Disjoint(s[i], s[j]) BY <1>9 DEF Distinct, a
    <2>2. \A i, j \in 1..b : i # j => Disjoint(t[i], t[j]) BY <1>9 DEF Distinct, b
    <2>3. ASSUME NEW i \in 1..a, NEW j \in 1..b PROVE Disjoint(s[i], t[j]) /\ Disjoint(t[j], s[i])
      <3>1. PRange(s[i]) \cap PRange(t[j]) = {} BY <1>9 DEF Beside, PagesIn, a, b
      <3>2. VRange(s[i]) \cap VRange(t[j]) = {} BY <1>9 DEF Beside, PlacesIn, a, b
      <3>3. QED BY <3>1, <3>2 DEF Disjoint
    <2>4. ASSUME NEW i \in 1..Len(u), NEW j \in 1..Len(u), i # j PROVE Disjoint(u[i], u[j])
      <3>1. CASE i \in 1..a /\ j \in 1..a BY <1>3, <2>1, <2>4, <3>1
      <3>2. CASE i \in 1..a /\ j \notin 1..a BY <1>3, <1>4, <1>5, <2>3, <3>2
      <3>3. CASE i \notin 1..a /\ j \in 1..a BY <1>3, <1>4, <1>5, <2>3, <3>3
      <3>4. CASE i \notin 1..a /\ j \notin 1..a
        <4>1. PICK k \in 1..b : i = a + k BY <1>5, <3>4
        <4>2. PICK l \in 1..b : j = a + l BY <1>5, <3>4
        <4>3. k # l BY <2>4, <4>1, <4>2
        <4>4. QED BY <1>4, <2>2, <4>1, <4>2, <4>3
      <3>5. QED BY <3>1, <3>2, <3>3, <3>4
    <2>5. QED BY <2>4 DEF Distinct
  <1>10. QED BY <1>1, <1>6, <1>7, <1>8, <1>9 DEF u

LEMMA OneBlock ==
    ASSUME NEW b \in Block
    PROVE  /\ <<b>> \in Seq(Block) /\ PagesIn(<<b>>) = PRange(b) /\ PlacesIn(<<b>>) = VRange(b)
           /\ Distinct(<<b>>)
  <1>1. <<b>> \in Seq(Block) /\ Len(<<b>>) = 1 /\ <<b>>[1] = b OBVIOUS
  <1> DEFINE s == <<b>>
  <1> HIDE DEF s
  <1>2. s \in Seq(Block) /\ Len(s) = 1 /\ s[1] = b BY <1>1 DEF s
  <1>3. PagesIn(s) = PRange(b) /\ PlacesIn(s) = VRange(b) BY <1>2 DEF PagesIn, PlacesIn
  <1>4. Distinct(s) BY <1>2 DEF Distinct
  <1>5. QED BY <1>2, <1>3, <1>4 DEF s

LEMMA NoBlocks ==
    /\ <<>> \in Seq(Block) /\ PagesIn(<<>>) = {} /\ PlacesIn(<<>>) = {} /\ Distinct(<<>>)
  <1>1. <<>> \in Seq(Block) /\ Len(<<>>) = 0 OBVIOUS
  <1>2. QED BY <1>1 DEF PagesIn, PlacesIn, Distinct

\* The blocks before the i-th and those behind it.
Before(s, i) == SubSeq(s, 1, i - 1)
Behind(s, i) == SubSeq(s, i + 1, Len(s))

LEMMA Parts ==
    ASSUME NEW s \in Seq(Block), NEW i \in 1..Len(s)
    PROVE  /\ Before(s, i) \in Seq(Block) /\ Behind(s, i) \in Seq(Block) /\ s[i] \in Block
           /\ s = Before(s, i) \o (<<s[i]>> \o Behind(s, i))
  <1> DEFINE a == SubSeq(s, 1, i - 1)
             c == SubSeq(s, i + 1, Len(s))
             u == <<s[i]>> \o c
             n == Len(s)
  <1>1. n \in Nat /\ i \in Nat /\ i >= 1 /\ i <= n /\ s[i] \in Block OBVIOUS
  <1>2. a \in Seq(Block) /\ Len(a) = i - 1 /\ \A j \in 1..(i - 1) : a[j] = s[j] OBVIOUS
  <1>3. c \in Seq(Block) /\ Len(c) = n - i /\ \A j \in 1..(n - i) : c[j] = s[i + j] OBVIOUS
  <1> HIDE DEF a, c, n
  <1>4. <<s[i]>> \in Seq(Block) /\ Len(<<s[i]>>) = 1 /\ <<s[i]>>[1] = s[i] BY <1>1
  <1>5. u \in Seq(Block) /\ Len(u) = 1 + Len(c)
        /\ \A j \in 1..(1 + Len(c)) : u[j] = IF j <= 1 THEN s[i] ELSE c[j - 1]
    BY <1>3, <1>4, ConcatProperties
  <1> HIDE DEF u
  <1>6. a \o u \in Seq(Block) /\ Len(a \o u) = n
        /\ \A j \in 1..n : (a \o u)[j] = IF j <= i - 1 THEN a[j] ELSE u[j - (i - 1)]
    <2>1. Len(a) + Len(u) = n BY <1>1, <1>2, <1>3, <1>5
    <2>2. /\ a \o u \in Seq(Block) /\ Len(a \o u) = Len(a) + Len(u)
          /\ \A j \in 1..(Len(a) + Len(u)) : (a \o u)[j] = IF j <= Len(a) THEN a[j] ELSE u[j - Len(a)]
      BY <1>2, <1>5, ConcatProperties
    <2> DEFINE w == a \o u
    <2> HIDE DEF w
    <2>3. w \in Seq(Block) /\ Len(w) = n /\ \A j \in 1..n : w[j] = IF j <= i - 1 THEN a[j] ELSE u[j - (i - 1)]
      BY <1>2, <2>1, <2>2 DEF w
    <2>4. QED BY <2>3 DEF w
  <1> DEFINE w == a \o u
  <1>w. \A j \in 1..n : w[j] = IF j <= i - 1 THEN a[j] ELSE u[j - (i - 1)] BY <1>6
  <1> HIDE DEF w
  <1>7. ASSUME NEW j \in 1..n PROVE w[j] = s[j]
    <2>1. CASE j <= i - 1
      <3>1. j \in 1..(i - 1) BY <1>1, <2>1
      <3>2. QED BY <1>2, <1>w, <2>1, <3>1
    <2>2. CASE j = i
      <3>1. j - (i - 1) = 1 /\ ~(j <= i - 1) BY <1>1, <2>2
      <3>2. u[1] = s[i] BY <1>3, <1>5, <1>1
      <3>3. w[j] = u[j - (i - 1)] BY <1>w, <3>1
      <3>4. QED BY <2>2, <3>1, <3>2, <3>3
    <2>3. CASE j > i
      <3>1. j - (i - 1) \in 1..(1 + Len(c)) /\ ~(j - (i - 1) <= 1) /\ (j - (i - 1)) - 1 = j - i
            /\ j - i \in 1..(n - i) /\ i + (j - i) = j /\ ~(j <= i - 1)
        BY <1>1, <1>3, <2>3
      <3>2. u[j - (i - 1)] = c[j - i] BY <1>5, <3>1
      <3>3. c[j - i] = s[j] BY <1>3, <3>1
      <3>4. w[j] = u[j - (i - 1)] BY <1>w, <3>1
      <3>5. QED BY <3>2, <3>3, <3>4
    <2>4. QED BY <1>1, <2>1, <2>2, <2>3
  <1>8. s = a \o u BY <1>6, <1>7, SeqEqual DEF n, w
  <1>9. QED BY <1>1, <1>2, <1>3, <1>8 DEF u, a, c, n, Before, Behind

\* list_del of the block of a list.
LeavesOut(t, s, b) ==
    /\ t \in Seq(Block)
    /\ PagesIn(s) = PagesIn(t) \cup PRange(b) /\ PlacesIn(s) = PlacesIn(t) \cup VRange(b)
    /\ Distinct(s) => /\ Distinct(t) /\ PagesIn(t) \cap PRange(b) = {}
                      /\ PlacesIn(t) \cap VRange(b) = {}

LEMMA TakesOut ==
    ASSUME NEW s \in Seq(Block), NEW i \in 1..Len(s)
    PROVE  LeavesOut(Before(s, i) \o Behind(s, i), s, s[i])
  <1> DEFINE a == Before(s, i)
             c == Behind(s, i)
             b == s[i]
             o == <<b>>
             u == o \o c
  <1>1. a \in Seq(Block) /\ c \in Seq(Block) /\ s = a \o u /\ b \in Block BY Parts
  <1>2. o \in Seq(Block) /\ PagesIn(o) = PRange(b) /\ PlacesIn(o) = VRange(b) BY <1>1, OneBlock
  <1> HIDE DEF a, b, c, o
  <1>3. /\ u \in Seq(Block) /\ PagesIn(u) = PagesIn(o) \cup PagesIn(c)
        /\ PlacesIn(u) = PlacesIn(o) \cup PlacesIn(c)
        /\ Distinct(u) <=> Distinct(o) /\ Distinct(c) /\ Beside(o, c)
    BY <1>1, <1>2, Concats
  <1> HIDE DEF u
  <1>4. /\ PagesIn(s) = PagesIn(a) \cup PagesIn(u) /\ PlacesIn(s) = PlacesIn(a) \cup PlacesIn(u)
        /\ Distinct(s) <=> Distinct(a) /\ Distinct(u) /\ Beside(a, u)
    BY <1>1, <1>3, Concats
  <1>5. /\ a \o c \in Seq(Block) /\ PagesIn(a \o c) = PagesIn(a) \cup PagesIn(c)
        /\ PlacesIn(a \o c) = PlacesIn(a) \cup PlacesIn(c)
        /\ Distinct(a \o c) <=> Distinct(a) /\ Distinct(c) /\ Beside(a, c)
    BY <1>1, Concats
  <1>6. Distinct(s) => /\ Distinct(a \o c) /\ PagesIn(a \o c) \cap PRange(b) = {}
                       /\ PlacesIn(a \o c) \cap VRange(b) = {}
    BY <1>2, <1>3, <1>4, <1>5 DEF Beside
  <1>7. QED BY <1>2, <1>3, <1>4, <1>5, <1>6 DEF a, b, c, LeavesOut

\* list_add to the front of each: a list that has been turned round.
LEMMA Reverses ==
    ASSUME NEW s \in Seq(Block)
    PROVE  /\ Reverse(s) \in Seq(Block) /\ PagesIn(Reverse(s)) = PagesIn(s)
           /\ PlacesIn(Reverse(s)) = PlacesIn(s) /\ (Distinct(s) => Distinct(Reverse(s)))
           /\ Len(Reverse(s)) = Len(s)
  <1> DEFINE n == Len(s)
             r == Reverse(s)
  <1>1. n \in Nat OBVIOUS
  <1>2. r = [i \in 1..n |-> s[(n - i) + 1]] BY DEF Reverse
  <1>3. \A i \in 1..n : (n - i) + 1 \in 1..n /\ (n - ((n - i) + 1)) + 1 = i BY <1>1
  <1>4. r \in Seq(Block) /\ Len(r) = n /\ \A i \in 1..n : r[i] = s[(n - i) + 1]
    <2>1. \A i \in 1..n : s[(n - i) + 1] \in Block BY <1>3
    <2>2. QED BY <1>1, <1>2, <2>1
  <1> HIDE DEF r
  <1>5. \A i \in 1..n : s[i] = r[(n - i) + 1] BY <1>3, <1>4
  <1>6. PagesIn(r) = PagesIn(s) /\ PlacesIn(r) = PlacesIn(s)
    <2>1. Within(r, s) BY <1>3, <1>4 DEF Within
    <2>2. Within(s, r) BY <1>3, <1>4, <1>5 DEF Within
    <2>3. PagesIn(r) \subseteq PagesIn(s) /\ PlacesIn(r) \subseteq PlacesIn(s) BY <2>1, WithinPages
    <2>4. PagesIn(s) \subseteq PagesIn(r) /\ PlacesIn(s) \subseteq PlacesIn(r) BY <2>2, WithinPages
    <2>5. QED BY <2>3, <2>4
  <1>7. ASSUME Distinct(s) PROVE Distinct(r)
    <2>1. ASSUME NEW i \in 1..n, NEW j \in 1..n, i # j PROVE Disjoint(r[i], r[j])
      <3> DEFINE x == (n - i) + 1
                 y == (n - j) + 1
      <3>1. x # y BY <1>1, <2>1
      <3>2. x \in 1..n /\ y \in 1..n /\ r[i] = s[x] /\ r[j] = s[y] BY <1>3, <1>4
      <3> HIDE DEF x, y
      <3>3. QED BY <1>7, <3>1, <3>2 DEF Distinct
    <2>2. QED BY <1>4, <2>1 DEF Distinct
  <1>8. QED BY <1>4, <1>6, <1>7 DEF r

-----------------------------------------------------------------------------
(* page_unmap_range *)

BlockMapped(M, b) == MappedTo(M, b.p, b.v, b.n)

\* Outside W, what was present stays, and nothing has come to lead to a page.
Entries(M, N, W) ==
    /\ \A x \in VPages \ W : Present(M, x) =>
          N.dir[Table(x)] = M.dir[Table(x)] /\ N.pte[x] = M.pte[x]
    /\ \A x \in VPages \ W : Framed(N, x) => Framed(M, x) /\ N.pte[x] = M.pte[x]

LEMMA KeepsEntries ==
    ASSUME NEW M, NEW N, NEW W, Keeps(M, N, W)
    PROVE  Entries(M, N, W)
  BY DEF Keeps, Entries

LEMMA EntriesOn ==
    ASSUME NEW L, NEW M, NEW N, NEW W, Entries(L, M, W), Entries(M, N, W)
    PROVE  Entries(L, N, W)
  <1>1. \A x \in VPages \ W : Present(L, x) =>
          N.dir[Table(x)] = L.dir[Table(x)] /\ N.pte[x] = L.pte[x]
    BY DEF Entries, Present
  <1>2. \A x \in VPages \ W : Framed(N, x) => Framed(L, x) /\ N.pte[x] = L.pte[x]
    BY DEF Entries
  <1>3. QED BY <1>1, <1>2 DEF Entries

LEMMA SameTables ==
    ASSUME NEW M, NEW N, NEW W, N.dir = M.dir, N.pte = M.pte
    PROVE  Entries(M, N, W)
  BY DEF Entries, Framed

\* A block that is mapped stays so while other pages come and go.
LEMMA StaysMapped ==
    ASSUME NEW M, NEW N, NEW W, Entries(M, N, W), NEW b, BlockOK(b), BlockMapped(M, b),
           VRange(b) \cap W = {}
    PROVE  BlockMapped(N, b)
  <1> SUFFICES ASSUME NEW k \in 0..(b.n - 1)
               PROVE  N.dir[Table(b.v + k)] # NULL /\ N.pte[b.v + k] = b.p + k
    BY DEF BlockMapped, MappedTo
  <1> DEFINE x == b.v + k
  <1>1. b.v \in Nat /\ b.n \in Nat /\ b.p \in Nat BY FrameFacts DEF BlockOK, Block
  <1>2. x \in VRange(b) /\ b.p + k \in PRange(b) BY <1>1 DEF VRange, PRange
  <1>3. x \in VPages \ W /\ b.p + k \in Frames BY <1>2, Pages DEF BlockOK
  <1>4. M.dir[Table(x)] # NULL /\ M.pte[x] = b.p + k BY DEF BlockMapped, MappedTo
  <1> HIDE DEF x
  <1>5. Present(M, x) BY <1>3, <1>4, FrameFacts DEF Present
  <1>6. N.dir[Table(x)] # NULL /\ N.pte[x] = b.p + k BY <1>3, <1>4, <1>5 DEF Entries
  <1>7. QED BY <1>6 DEF x

UnmapRound(r, i, v) ==
    IF ~r.ok \/ r.M.dir[Table(v + i - 1)] = NULL THEN [r EXCEPT !.ok = FALSE]
    ELSE [r EXCEPT !.M = page_unmap(r.M, v + i - 1)]

UnmapRounds(g, M, v, n) ==
    g = [i \in 0..n |-> IF i = 0 THEN [M |-> M, ok |-> TRUE] ELSE UnmapRound(g[i - 1], i, v)]

UnmapLoop(M, v, n) == CHOOSE g : UnmapRounds(g, M, v, n)

LEMMA UnmapIs ==
    ASSUME NEW M, NEW v, NEW n
    PROVE  page_unmap_range(M, v, n) = UnmapLoop(M, v, n)[n]
  BY DEF page_unmap_range, UnmapLoop, UnmapRounds, UnmapRound

\* A memory and whether what was to be done to it has failed.
Outcome(r) == r = [M |-> r.M, ok |-> r.ok] /\ r.ok \in BOOLEAN

LEMMA OutcomeSet ==
    ASSUME NEW r, Outcome(r)
    PROVE  /\ [r EXCEPT !.ok = FALSE] = [M |-> r.M, ok |-> FALSE]
           /\ \A N : [r EXCEPT !.M = N] = [M |-> N, ok |-> r.ok]
  <1> DEFINE a == r.M
             b == r.ok
  <1>1. r = [M |-> a, ok |-> b] BY DEF Outcome
  <1> HIDE DEF a, b
  <1>2. \A z : [r EXCEPT !.ok = z] = [M |-> a, ok |-> z] BY <1>1
  <1>3. [r EXCEPT !.ok = FALSE] = [M |-> a, ok |-> FALSE] BY <1>2, Zenon
  <1>4. \A N : [r EXCEPT !.M = N] = [M |-> N, ok |-> b] BY <1>1
  <1>5. QED BY <1>3, <1>4 DEF a, b

\* After i rounds.
Unmapping(r, i, M, v, n) ==
    /\ Outcome(r) /\ Keeps(M, r.M, v..(v + n - 1))
    /\ r.ok => \A k \in 0..(i - 1) : ~Framed(r.M, v + k)
    /\ (\A k \in 0..(n - 1) : Present(M, v + k)) => r.ok /\ \A k \in i..(n - 1) : Present(r.M, v + k)

LEMMA UnmapsOneMore ==
    ASSUME NEW M, NEW n \in Nat, NEW v \in Nat, v..(v + n - 1) \subseteq VPages,
           NEW i \in 1..n, NEW r, Unmapping(r, i - 1, M, v, n)
    PROVE  Unmapping(UnmapRound(r, i, v), i, M, v, n)
  <1> DEFINE W == v..(v + n - 1)
             x == v + i - 1
             K == r.M
             N == page_unmap(K, x)
             s == UnmapRound(r, i, v)
  <1>1. x \in W /\ x \in VPages /\ x = v + (i - 1) /\ i - 1 \in 0..(n - 1) /\ i - 1 \in (i - 1)..(n - 1)
    OBVIOUS
  <1>2. Outcome(r) /\ Keeps(M, K, W) /\ Sound(K) BY DEF Unmapping, Keeps
  <1>3. CASE ~r.ok \/ K.dir[Table(x)] = NULL
    <2>1. s = [M |-> K, ok |-> FALSE]
      <3>1. s = [r EXCEPT !.ok = FALSE] BY <1>3 DEF UnmapRound
      <3>2. QED BY <1>2, <3>1, OutcomeSet
    <2>2. s.M = K /\ s.ok = FALSE /\ Outcome(s) BY <2>1 DEF Outcome
    <2>3. ~(\A k \in 0..(n - 1) : Present(M, v + k))
      <3> SUFFICES ASSUME \A k \in 0..(n - 1) : Present(M, v + k) PROVE FALSE OBVIOUS
      <3>1. r.ok /\ Present(K, v + (i - 1)) BY <1>1 DEF Unmapping
      <3>2. QED BY <1>1, <1>3, <3>1 DEF Present
    <2> HIDE DEF s, K
    <2>4. QED BY <1>2, <2>2, <2>3 DEF Unmapping, s
  <1>4. CASE r.ok /\ K.dir[Table(x)] # NULL
    <2>1. s = [M |-> N, ok |-> r.ok]
      <3>1. s = [r EXCEPT !.M = N] BY <1>4 DEF UnmapRound
      <3>2. QED BY <1>2, <3>1, OutcomeSet
    <2>2. s.M = N /\ s.ok = r.ok /\ Outcome(s) BY <1>2, <2>1 DEF Outcome
    <2> HIDE DEF x, K
    <2>3. Keeps(K, N, {x}) /\ ~Framed(N, x) BY <1>1, <1>2, Unmaps
    <2> HIDE DEF N, W, s
    <2>4. Keeps(K, N, W) BY <1>1, <2>3, KeepsMore
    <2>5. Keeps(M, N, W) BY <1>2, <2>4, KeepsOn
    <2>6. ASSUME NEW k \in 0..(i - 1) PROVE ~Framed(N, v + k)
      <3>1. CASE k = i - 1 BY <1>1, <2>3, <3>1
      <3>2. CASE k # i - 1
        <4>1. k \in 0..((i - 1) - 1) /\ v + k \in v..(v + n - 1) /\ v + k # v + (i - 1) BY <3>2
        <4>2. ~Framed(K, v + k) BY <1>4, <4>1 DEF Unmapping, K
        <4>3. v + k \in VPages \ {x} BY <1>1, <4>1
        <4>4. QED BY <2>3, <4>2, <4>3 DEF Keeps
      <3>3. QED BY <3>1, <3>2
    <2>7. ASSUME \A k \in 0..(n - 1) : Present(M, v + k), NEW k \in i..(n - 1) PROVE Present(N, v + k)
      <3>1. k \in (i - 1)..(n - 1) /\ v + k \in v..(v + n - 1) /\ v + k # v + (i - 1) OBVIOUS
      <3>2. Present(K, v + k) BY <2>7, <3>1 DEF Unmapping, K
      <3>3. v + k \in VPages \ {x} BY <1>1, <3>1
      <3> DEFINE y == v + k
      <3> HIDE DEF y
      <3>4. Present(K, y) /\ y \in VPages \ {x} BY <3>2, <3>3 DEF y
      <3>5. N.dir[Table(y)] = K.dir[Table(y)] /\ N.pte[y] = K.pte[y] BY <2>3, <3>4 DEF Keeps
      <3>6. Present(N, y) BY <3>4, <3>5 DEF Present
      <3>7. QED BY <3>6 DEF y
    <2>8. QED BY <1>4, <2>2, <2>5, <2>6, <2>7 DEF Unmapping, s, W
  <1>5. r.ok \in BOOLEAN BY <1>2 DEF Outcome
  <1>6. QED BY <1>3, <1>4, <1>5

Outcomes == [M : Memories, ok : BOOLEAN]

LEMMA OutcomeIs ==
    ASSUME NEW r, Outcome(r), Sound(r.M)
    PROVE  r \in Outcomes
  BY MemIs DEF Outcome, Outcomes, Sound

LEMMA UnmapRoundsRun ==
    ASSUME NEW M, Sound(M), NEW n \in Nat, NEW v \in Nat, v..(v + n - 1) \subseteq VPages,
           NEW g, g = UnmapLoop(M, v, n)
    PROVE  Unmapping(g[n], n, M, v, n)
  <1> DEFINE X == [i \in 0..n |-> {r \in Outcomes : Unmapping(r, i, M, v, n)}]
             S == [i \in 1..n |-> [r \in X[i - 1] |-> UnmapRound(r, i, v)]]
             x0 == [M |-> M, ok |-> TRUE]
  <1>1. ASSUME NEW r, NEW i \in 0..n, Unmapping(r, i, M, v, n) PROVE r \in X[i]
    <2>1. r \in Outcomes BY <1>1, OutcomeIs DEF Unmapping, Keeps
    <2>2. QED BY <1>1, <2>1
  <1>2. \A i \in 0..n : \A r \in X[i] : Unmapping(r, i, M, v, n) OBVIOUS
  <1>3. 0 \in 0..n /\ n \in 0..n OBVIOUS
  <1>4. x0 \in X[0]
    <2>1. x0.M = M /\ x0.ok = TRUE /\ Outcome(x0) BY DEF Outcome
    <2>2. Keeps(M, M, v..(v + n - 1)) BY KeepsItself
    <2>3. 0..(0 - 1) = {} OBVIOUS
    <2> HIDE DEF x0
    <2>4. Unmapping(x0, 0, M, v, n) BY <2>1, <2>2, <2>3 DEF Unmapping
    <2>5. QED BY <1>1, <1>3, <2>4
  <1>5. \A i \in 1..n : \A r \in X[i - 1] : S[i][r] = UnmapRound(r, i, v) OBVIOUS
  <1> HIDE DEF X, S, x0
  <1>6. ASSUME NEW i \in 1..n, NEW r \in X[i - 1] PROVE UnmapRound(r, i, v) \in X[i]
    <2>1. i \in 0..n /\ i - 1 \in 0..n OBVIOUS
    <2>2. Unmapping(r, i - 1, M, v, n) BY <1>2, <2>1
    <2>3. Unmapping(UnmapRound(r, i, v), i, M, v, n) BY <2>2, UnmapsOneMore
    <2>4. QED BY <1>1, <2>1, <2>3
  <1>7. Loop(S, X, n) BY <1>5, <1>6 DEF Loop
  <1>8. PICK w : Computed(w, S, X, x0, n) BY <1>4, <1>7, LoopRuns
  <1>9. UnmapRounds(w, M, v, n)
    <2>1. \A i \in 0..n : w[i] = IF i = 0 THEN x0 ELSE UnmapRound(w[i - 1], i, v)
      <3> SUFFICES ASSUME NEW i \in 0..n, i # 0 PROVE w[i] = UnmapRound(w[i - 1], i, v)
        BY <1>8 DEF Computed
      <3>1. i \in 1..n /\ i - 1 \in 0..n OBVIOUS
      <3>2. QED BY <3>1, <1>5, <1>8 DEF Rounds, Computed
    <2>2. [i \in 0..n |-> w[i]] = [i \in 0..n |-> IF i = 0 THEN x0 ELSE UnmapRound(w[i - 1], i, v)]
      BY <2>1
    <2>3. w = [i \in 0..n |-> w[i]] BY <1>8 DEF Computed
    <2>4. QED BY <2>2, <2>3 DEF UnmapRounds, x0
  <1>10. UnmapRounds(g, M, v, n) BY <1>9 DEF UnmapLoop
  <1>11. g[0] = x0 /\ \A i \in 1..n : g[i] = UnmapRound(g[i - 1], i, v)
    <2>1. g = [i \in 0..n |-> IF i = 0 THEN x0 ELSE UnmapRound(g[i - 1], i, v)]
      BY <1>10 DEF UnmapRounds, x0
    <2>2. \A i \in 0..n : g[i] = IF i = 0 THEN x0 ELSE UnmapRound(g[i - 1], i, v) BY <2>1
    <2>3. QED BY <1>3, <2>2
  <1>12. \A i \in 0..n : g[i] \in X[i] BY <1>4, <1>6, <1>11, LoopGoes
  <1>13. QED BY <1>2, <1>3, <1>12

\* A whole block is unmapped.
BlockGone(M, b) == \A x \in VRange(b) : ~Framed(M, x)

LEMMA UnmapsBlock ==
    ASSUME NEW M, Sound(M), NEW b, BlockOK(b), NEW r, r = page_unmap_range(M, b.v, b.n)
    PROVE  /\ Outcome(r) /\ Keeps(M, r.M, VRange(b)) /\ (r.ok => BlockGone(r.M, b))
           /\ BlockMapped(M, b) => r.ok
  <1> DEFINE v == b.v
             n == b.n
  <1>1. v \in Nat /\ n \in Nat /\ b.p \in Nat BY FrameFacts DEF BlockOK, Block
  <1>2. v..(v + n - 1) = VRange(b) /\ v..(v + n - 1) \subseteq VPages BY Pages DEF BlockOK, VRange
  <1>3. r = UnmapLoop(M, v, n)[n] BY UnmapIs
  <1>4. ASSUME BlockMapped(M, b), NEW k \in 0..(n - 1) PROVE Present(M, v + k)
    <2>1. b.p + k \in PRange(b) BY <1>1, <1>4 DEF PRange
    <2>2. b.p + k \in Frames BY <2>1 DEF BlockOK
    <2>3. M.dir[Table(v + k)] # NULL /\ M.pte[v + k] = b.p + k BY <1>4 DEF BlockMapped, MappedTo
    <2>4. QED BY <2>2, <2>3, FrameFacts DEF Present
  <1>5. ASSUME NEW x \in VRange(b) PROVE x - v \in 0..(n - 1) /\ v + (x - v) = x
    BY <1>1 DEF VRange
  <1> HIDE DEF v, n
  <1>6. Unmapping(r, n, M, v, n) BY <1>1, <1>2, <1>3, UnmapRoundsRun
  <1>7. Outcome(r) /\ Keeps(M, r.M, VRange(b)) BY <1>2, <1>6 DEF Unmapping
  <1>8. r.ok => BlockGone(r.M, b)
    <2>1. r.ok => \A k \in 0..(n - 1) : ~Framed(r.M, v + k) BY <1>6 DEF Unmapping
    <2>2. QED BY <1>5, <2>1 DEF BlockGone
  <1>9. BlockMapped(M, b) => r.ok BY <1>4, <1>6 DEF Unmapping
  <1>10. QED BY <1>7, <1>8, <1>9

LEMMA StaysGone ==
    ASSUME NEW M, NEW N, NEW W, Entries(M, N, W), NEW b, BlockOK(b), BlockGone(M, b),
           VRange(b) \cap W = {}
    PROVE  BlockGone(N, b)
  BY Pages DEF BlockGone, BlockOK, Entries

-----------------------------------------------------------------------------
(* process_memory_switch *)

LEMMA FillIs == Fill \in [Frames -> {NULL, JUNK}]
  BY DEF Fill

LEMMA MapsBlock ==
    ASSUME NEW M, Sound(M), NEW b, BlockOK(b), NEW r, r = page_map_range(M, b.p, b.v, b.n, Fill)
    PROVE  /\ Keeps(M, r.M, VRange(b)) /\ r.ok \in BOOLEAN /\ (r.ok => BlockMapped(r.M, b))
           /\ ~r.ok => Full(r.M) /\ \A x \in VRange(b) : Framed(r.M, x) => Framed(M, x)
  <1> DEFINE v == b.v
             n == b.n
             f == b.p
             fill == Fill
  <1>1. v \in Nat /\ n \in Nat /\ f \in Nat BY FrameFacts DEF BlockOK, Block
  <1>2. v..(v + n - 1) = VRange(b) /\ v..(v + n - 1) \subseteq VPages BY Pages DEF BlockOK, VRange
  <1>3. f..(f + n - 1) \subseteq Frames BY DEF BlockOK, PRange
  <1>4. fill \in [Frames -> {NULL, JUNK}] BY FillIs
  <1> HIDE DEF v, n, f, fill
  <1>5. r = page_map_range(M, f, v, n, fill) BY DEF v, n, f, fill
  <1>6. /\ Keeps(M, r.M, v..(v + n - 1)) /\ r.ok \in BOOLEAN
        /\ r.ok => MappedTo(r.M, f, v, n)
        /\ ~r.ok => Full(r.M) /\ \A x \in v..(v + n - 1) : Framed(r.M, x) => Framed(M, x)
    BY <1>1, <1>2, <1>3, <1>4, <1>5, MapsRange
  <1>7. QED BY <1>2, <1>6 DEF BlockMapped, v, n, f

SwitchRound(r, b, add) ==
    IF ~r.ok THEN r
    ELSE IF add THEN page_map_range(r.M, b.p, b.v, b.n, Fill)
    ELSE page_unmap_range(r.M, b.v, b.n)

SwitchRounds(g, M, bs, add) ==
    g = [k \in 0..Len(bs) |-> IF k = 0 THEN [M |-> M, ok |-> TRUE] ELSE SwitchRound(g[k - 1], bs[k], add)]

SwitchLoop(M, bs, add) == CHOOSE g : SwitchRounds(g, M, bs, add)

LEMMA SwitchIs ==
    ASSUME NEW M, NEW pr, NEW add
    PROVE  process_memory_switch(M, pr, add) = SwitchLoop(M, Blocks(pr), add)[Len(Blocks(pr))]
  BY DEF process_memory_switch, Walk, SwitchLoop, SwitchRounds, SwitchRound

\* A list of blocks that are a process's own.
BlocksOK(bs) == bs \in Seq(Block) /\ \A i \in 1..Len(bs) : BlockOK(bs[i])

\* After k blocks.
SwitchingIn(r, k, M, bs) ==
    /\ Outcome(r) /\ Keeps(M, r.M, PlacesIn(bs))
    /\ ~r.ok => Full(r.M)
    /\ r.ok /\ Distinct(bs) => \A j \in 1..k : BlockMapped(r.M, bs[j])

SwitchingOut(r, k, M, bs) ==
    /\ Outcome(r) /\ Keeps(M, r.M, PlacesIn(bs))
    /\ Distinct(bs) /\ (\A j \in 1..Len(bs) : BlockMapped(M, bs[j])) =>
          /\ r.ok
          /\ \A j \in 1..k : BlockGone(r.M, bs[j])
          /\ \A j \in (k + 1)..Len(bs) : BlockMapped(r.M, bs[j])

Switching(r, k, M, bs, add) == IF add THEN SwitchingIn(r, k, M, bs) ELSE SwitchingOut(r, k, M, bs)

LEMMA MapsIsOutcome ==
    ASSUME NEW M, NEW f, NEW v, NEW n, NEW fill, NEW r, r = page_map_range(M, f, v, n, fill)
    PROVE  r = [M |-> r.M, ok |-> r.ok]
  <1> DEFINE q == MapLoop(M, f, v, n, fill)[n]
             K == IF q.ok THEN q.M ELSE UndoLoop(q.M, q.n, v, n)[0]
  <1>1. r = [ok |-> q.ok, M |-> K] BY RangeIs
  <1> HIDE DEF q, K
  <1>2. QED BY <1>1

LEMMA SwitchesInOneMore ==
    ASSUME NEW M, NEW bs, BlocksOK(bs), NEW k \in 1..Len(bs), NEW r, SwitchingIn(r, k - 1, M, bs)
    PROVE  SwitchingIn(SwitchRound(r, bs[k], TRUE), k, M, bs)
  <1> DEFINE b == bs[k]
             W == PlacesIn(bs)
             K == r.M
             s == SwitchRound(r, bs[k], TRUE)
  <1>1. Outcome(r) /\ Keeps(M, K, W) /\ Sound(K) BY DEF SwitchingIn, Keeps
  <1>2. BlockOK(b) /\ VRange(b) \subseteq W BY DEF BlocksOK, PlacesIn
  <1>3. CASE ~r.ok
    <2>1. s = r BY <1>3 DEF SwitchRound
    <2> HIDE DEF s
    <2>2. QED BY <1>3, <2>1 DEF SwitchingIn, s
  <1>4. CASE r.ok
    <2>1. s = page_map_range(K, b.p, b.v, b.n, Fill) BY <1>4 DEF SwitchRound
    <2> HIDE DEF s, b, W, K
    <2>2. /\ Keeps(K, s.M, VRange(b)) /\ s.ok \in BOOLEAN /\ (s.ok => BlockMapped(s.M, b))
          /\ ~s.ok => Full(s.M)
      BY <1>1, <1>2, <2>1, MapsBlock
    <2>3. Outcome(s) BY <2>1, <2>2, MapsIsOutcome DEF Outcome
    <2>4. Keeps(K, s.M, W) BY <1>2, <2>2, KeepsMore
    <2>5. Keeps(M, s.M, W) BY <1>1, <2>4, KeepsOn
    <2>6. ASSUME s.ok, Distinct(bs), NEW j \in 1..k PROVE BlockMapped(s.M, bs[j])
      <3>1. CASE j = k BY <2>2, <2>6, <3>1 DEF b
      <3>2. CASE j # k
        <4>1. j \in 1..(k - 1) /\ j \in 1..Len(bs) BY <3>2
        <4>2. BlockMapped(K, bs[j]) BY <1>4, <2>6, <4>1 DEF SwitchingIn, K
        <4>3. VRange(bs[j]) \cap VRange(b) = {} BY <2>6, <3>2, <4>1 DEF Distinct, Disjoint, b
        <4>4. BlockOK(bs[j]) BY <4>1 DEF BlocksOK
        <4>5. QED BY <2>2, <4>2, <4>3, <4>4, StaysMapped, KeepsEntries
      <3>3. QED BY <3>1, <3>2
    <2>7. QED BY <2>2, <2>3, <2>5, <2>6 DEF SwitchingIn, s, W
  <1>5. QED BY <1>1, <1>3, <1>4

LEMMA SwitchesOutOneMore ==
    ASSUME NEW M, NEW bs, BlocksOK(bs), NEW k \in 1..Len(bs), NEW r, SwitchingOut(r, k - 1, M, bs)
    PROVE  SwitchingOut(SwitchRound(r, bs[k], FALSE), k, M, bs)
  <1> DEFINE b == bs[k]
             W == PlacesIn(bs)
             K == r.M
             s == SwitchRound(r, bs[k], FALSE)
             All == Distinct(bs) /\ \A j \in 1..Len(bs) : BlockMapped(M, bs[j])
  <1>1. Outcome(r) /\ Keeps(M, K, W) /\ Sound(K) BY DEF SwitchingOut, Keeps
  <1>2. BlockOK(b) /\ VRange(b) \subseteq W /\ bs \in Seq(Block) BY DEF BlocksOK, PlacesIn
  <1>3. CASE ~r.ok
    <2>1. s = r BY <1>3 DEF SwitchRound
    <2> HIDE DEF s
    <2>2. QED BY <1>3, <2>1 DEF SwitchingOut, s
  <1>4. CASE r.ok
    <2>1. s = page_unmap_range(K, b.v, b.n) BY <1>4 DEF SwitchRound
    <2> HIDE DEF s, b, W, K
    <2>2. /\ Outcome(s) /\ Keeps(K, s.M, VRange(b)) /\ (s.ok => BlockGone(s.M, b))
          /\ BlockMapped(K, b) => s.ok
      BY <1>1, <1>2, <2>1, UnmapsBlock
    <2>4. Keeps(K, s.M, W) BY <1>2, <2>2, KeepsMore
    <2>5. Keeps(M, s.M, W) BY <1>1, <2>4, KeepsOn
    <2>6. ASSUME All
          PROVE  /\ s.ok
                 /\ \A j \in 1..k : BlockGone(s.M, bs[j])
                 /\ \A j \in (k + 1)..Len(bs) : BlockMapped(s.M, bs[j])
      <3>1. /\ \A j \in 1..(k - 1) : BlockGone(K, bs[j])
            /\ \A j \in ((k - 1) + 1)..Len(bs) : BlockMapped(K, bs[j])
        BY <2>6 DEF SwitchingOut, K
      <3>2. Len(bs) \in Nat BY <1>2
      <3>3. k \in ((k - 1) + 1)..Len(bs) BY <3>2
      <3>4. s.ok BY <2>2, <3>1, <3>3 DEF b
      <3>5. ASSUME NEW j \in 1..k PROVE BlockGone(s.M, bs[j])
        <4>1. CASE j = k BY <2>2, <3>4, <4>1 DEF b
        <4>2. CASE j # k
          <5>1. j \in 1..(k - 1) /\ j \in 1..Len(bs) BY <4>2, <3>2
          <5>2. BlockGone(K, bs[j]) BY <3>1, <5>1
          <5>3. VRange(bs[j]) \cap VRange(b) = {} BY <2>6, <4>2, <5>1 DEF Distinct, Disjoint, b
          <5>4. BlockOK(bs[j]) BY <5>1 DEF BlocksOK
          <5>5. QED BY <2>2, <5>2, <5>3, <5>4, StaysGone, KeepsEntries
        <4>3. QED BY <4>1, <4>2
      <3>6. ASSUME NEW j \in (k + 1)..Len(bs) PROVE BlockMapped(s.M, bs[j])
        <4>1. j \in ((k - 1) + 1)..Len(bs) /\ j \in 1..Len(bs) /\ j # k BY <3>2
        <4>2. BlockMapped(K, bs[j]) BY <3>1, <4>1
        <4>3. VRange(bs[j]) \cap VRange(b) = {} BY <2>6, <4>1 DEF Distinct, Disjoint, b
        <4>4. BlockOK(bs[j]) BY <4>1 DEF BlocksOK
        <4>5. QED BY <2>2, <4>2, <4>3, <4>4, StaysMapped, KeepsEntries
      <3>7. QED BY <3>4, <3>5, <3>6
    <2>7. QED BY <2>2, <2>5, <2>6 DEF SwitchingOut, s, W
  <1>5. QED BY <1>1, <1>3, <1>4

LEMMA SwitchRoundsRun ==
    ASSUME NEW M, Sound(M), NEW bs, BlocksOK(bs), NEW add \in BOOLEAN,
           NEW g, g = SwitchLoop(M, bs, add)
    PROVE  Switching(g[Len(bs)], Len(bs), M, bs, add)
  <1> DEFINE n == Len(bs)
             X == [i \in 0..n |-> {r \in Outcomes : Switching(r, i, M, bs, add)}]
             S == [i \in 1..n |-> [r \in X[i - 1] |-> SwitchRound(r, bs[i], add)]]
             x0 == [M |-> M, ok |-> TRUE]
  <1>0. n \in Nat BY DEF BlocksOK
  <1>1. ASSUME NEW r, NEW i \in 0..n, Switching(r, i, M, bs, add) PROVE r \in X[i]
    <2>1. r \in Outcomes BY <1>1, OutcomeIs DEF Switching, SwitchingIn, SwitchingOut, Keeps
    <2>2. QED BY <1>1, <2>1
  <1>2. \A i \in 0..n : \A r \in X[i] : Switching(r, i, M, bs, add) OBVIOUS
  <1>3. 0 \in 0..n /\ n \in 0..n BY <1>0
  <1>4. x0 \in X[0]
    <2>1. x0.M = M /\ x0.ok = TRUE /\ Outcome(x0) BY DEF Outcome
    <2>2. Keeps(M, M, PlacesIn(bs)) BY KeepsItself
    <2>3. 1..0 = {} /\ (0 + 1)..n = 1..n BY <1>0
    <2> HIDE DEF x0
    <2>4. SwitchingIn(x0, 0, M, bs) BY <2>1, <2>2, <2>3 DEF SwitchingIn
    <2>5. SwitchingOut(x0, 0, M, bs) BY <2>1, <2>2, <2>3 DEF SwitchingOut
    <2>6. Switching(x0, 0, M, bs, add) BY <2>4, <2>5 DEF Switching
    <2>7. QED BY <1>1, <1>3, <2>6
  <1>5. \A i \in 1..n : \A r \in X[i - 1] : S[i][r] = SwitchRound(r, bs[i], add) OBVIOUS
  <1> HIDE DEF X, S, x0
  <1>6. ASSUME NEW i \in 1..n, NEW r \in X[i - 1] PROVE SwitchRound(r, bs[i], add) \in X[i]
    <2>1. i \in 0..n /\ i - 1 \in 0..n BY <1>0
    <2>2. Switching(r, i - 1, M, bs, add) BY <1>2, <2>1
    <2>3. Switching(SwitchRound(r, bs[i], add), i, M, bs, add)
      <3>1. CASE add = TRUE
        <4>1. SwitchingIn(r, i - 1, M, bs) BY <2>2, <3>1 DEF Switching
        <4>2. SwitchingIn(SwitchRound(r, bs[i], TRUE), i, M, bs) BY <4>1, SwitchesInOneMore
        <4>3. QED BY <3>1, <4>2 DEF Switching
      <3>2. CASE add = FALSE
        <4>1. SwitchingOut(r, i - 1, M, bs) BY <2>2, <3>2 DEF Switching
        <4>2. SwitchingOut(SwitchRound(r, bs[i], FALSE), i, M, bs) BY <4>1, SwitchesOutOneMore
        <4>3. QED BY <3>2, <4>2 DEF Switching
      <3>3. QED BY <3>1, <3>2
    <2>4. QED BY <1>1, <2>1, <2>3
  <1> HIDE DEF n
  <1>7. Loop(S, X, n) BY <1>5, <1>6 DEF Loop
  <1>8. PICK w : Computed(w, S, X, x0, n) BY <1>0, <1>4, <1>7, LoopRuns
  <1>9. SwitchRounds(w, M, bs, add)
    <2>1. \A i \in 0..n : w[i] = IF i = 0 THEN x0 ELSE SwitchRound(w[i - 1], bs[i], add)
      <3> SUFFICES ASSUME NEW i \in 0..n, i # 0 PROVE w[i] = SwitchRound(w[i - 1], bs[i], add)
        BY <1>8 DEF Computed
      <3>1. i \in 1..n /\ i - 1 \in 0..n BY <1>0
      <3>2. QED BY <3>1, <1>5, <1>8 DEF Rounds, Computed
    <2>2. [i \in 0..n |-> w[i]] = [i \in 0..n |-> IF i = 0 THEN x0 ELSE SwitchRound(w[i - 1], bs[i], add)]
      BY <2>1
    <2>3. w = [i \in 0..n |-> w[i]] BY <1>8 DEF Computed
    <2>4. QED BY <2>2, <2>3 DEF SwitchRounds, x0, n
  <1>10. SwitchRounds(g, M, bs, add) BY <1>9 DEF SwitchLoop
  <1>11. g[0] = x0 /\ \A i \in 1..n : g[i] = SwitchRound(g[i - 1], bs[i], add)
    <2>1. g = [i \in 0..n |-> IF i = 0 THEN x0 ELSE SwitchRound(g[i - 1], bs[i], add)]
      BY <1>10 DEF SwitchRounds, x0, n
    <2>2. \A i \in 0..n : g[i] = IF i = 0 THEN x0 ELSE SwitchRound(g[i - 1], bs[i], add) BY <2>1
    <2>3. \A i \in 1..n : i \in 0..n /\ i # 0 BY <1>0
    <2>4. QED BY <1>3, <2>2, <2>3
  <1>12. \A i \in 0..n : g[i] \in X[i] BY <1>0, <1>4, <1>6, <1>11, LoopGoes
  <1>13. QED BY <1>2, <1>3, <1>12 DEF n

AllMapped(M, bs) == \A j \in 1..Len(bs) : BlockMapped(M, bs[j])
AllGone(M, bs) == \A x \in PlacesIn(bs) : ~Framed(M, x)

\* process_memory_switch(p, 1): all blocks are mapped, or it fails for want of pages.
SwitchedIn(r, M, bs) ==
    /\ Keeps(M, r.M, PlacesIn(bs)) /\ r.ok \in BOOLEAN
    /\ r.ok /\ Distinct(bs) => AllMapped(r.M, bs)
    /\ ~r.ok => Full(r.M)

\* process_memory_switch(p, 0) of a process that is mapped does not fail.
SwitchedOut(r, M, bs) ==
    /\ Keeps(M, r.M, PlacesIn(bs)) /\ r.ok \in BOOLEAN
    /\ Distinct(bs) /\ AllMapped(M, bs) => r.ok /\ AllGone(r.M, bs)

LEMMA SwitchesIn ==
    ASSUME NEW M, Sound(M), NEW pr, BlocksOK(Blocks(pr))
    PROVE  SwitchedIn(process_memory_switch(M, pr, TRUE), M, Blocks(pr))
  <1> DEFINE bs == Blocks(pr)
             add == TRUE
             r == SwitchLoop(M, bs, add)[Len(bs)]
  <1>1. process_memory_switch(M, pr, TRUE) = r BY SwitchIs
  <1>2. add \in BOOLEAN OBVIOUS
  <1> HIDE DEF bs, add
  <1>3. BlocksOK(bs) BY DEF bs
  <1>4. Switching(r, Len(bs), M, bs, add) BY <1>2, <1>3, SwitchRoundsRun
  <1> HIDE DEF r
  <1>5. SwitchingIn(r, Len(bs), M, bs) BY <1>4 DEF Switching, add
  <1>6. SwitchedIn(r, M, bs) BY <1>5 DEF SwitchingIn, SwitchedIn, AllMapped, Outcome
  <1>7. QED BY <1>1, <1>6 DEF bs

LEMMA SwitchesOut ==
    ASSUME NEW M, Sound(M), NEW pr, BlocksOK(Blocks(pr))
    PROVE  SwitchedOut(process_memory_switch(M, pr, FALSE), M, Blocks(pr))
  <1> DEFINE bs == Blocks(pr)
             add == FALSE
             r == SwitchLoop(M, bs, add)[Len(bs)]
  <1>1. process_memory_switch(M, pr, FALSE) = r BY SwitchIs
  <1>2. add \in BOOLEAN OBVIOUS
  <1> HIDE DEF bs, add
  <1>3. BlocksOK(bs) BY DEF bs
  <1>4. Switching(r, Len(bs), M, bs, add) BY <1>2, <1>3, SwitchRoundsRun
  <1> HIDE DEF r
  <1>5. SwitchingOut(r, Len(bs), M, bs) BY <1>4 DEF Switching, add
  <1>6. (\A j \in 1..Len(bs) : BlockGone(r.M, bs[j])) => AllGone(r.M, bs)
    BY DEF AllGone, BlockGone, PlacesIn
  <1>7. SwitchedOut(r, M, bs) BY <1>5, <1>6 DEF SwitchingOut, SwitchedOut, AllMapped, Outcome
  <1>8. QED BY <1>1, <1>7 DEF bs

-----------------------------------------------------------------------------
(* Pages from the bitmap and back *)

\* alloc_phys_block: only the bitmap changes.
Took(M, N, F) ==
    /\ Sound(N) /\ N.warned = M.warned /\ N.dir = M.dir /\ N.pte = M.pte
    /\ N.mm = M.mm \ F /\ Total(N) = Total(M) \ F /\ F \subseteq Frames /\ F \subseteq Total(M)

LEMMA Takes ==
    ASSUME NEW M, Sound(M), NEW F, F \subseteq M.mm
    PROVE  Took(M, Without(M, F), F)
  <1> DEFINE m == M.mm \ F
             N == [mm |-> m, dir |-> M.dir, pte |-> M.pte, warned |-> M.warned]
  <1>1. MemType(M) /\ TablesApart(M) BY DEF Sound
  <1>2. Without(M, F) = N BY <1>1, MemSet DEF Without
  <1> HIDE DEF m
  <1>3. m \subseteq M.mm /\ m = M.mm \ F BY DEF m
  <1>4. MemType(N) BY <1>1, <1>3 DEF MemType
  <1>5. TablesApart(N) BY <1>1, <1>3 DEF TablesApart
  <1>6. TablesOf(N) = TablesOf(M) BY DEF TablesOf
  <1>7. F \cap TablesOf(M) = {} BY <1>1 DEF TablesApart, TablesOf
  <1>8. Total(N) = Total(M) \ F BY <1>3, <1>6, <1>7 DEF Total
  <1>9. N.warned = M.warned /\ N.dir = M.dir /\ N.pte = M.pte /\ N.mm = M.mm \ F BY <1>3
  <1> HIDE DEF N
  <1>10. F \subseteq Frames /\ F \subseteq Total(M) BY <1>1 DEF MemType, Total
  <1>11. QED BY <1>2, <1>4, <1>5, <1>8, <1>9, <1>10 DEF Took, Sound

\* free_phys_block of pages in use.
Gave(M, N, F) ==
    /\ Sound(N) /\ N.warned = M.warned /\ N.dir = M.dir /\ N.pte = M.pte
    /\ Total(N) = Total(M) \cup F

LEMMA Gives ==
    ASSUME NEW M, Sound(M), NEW f \in Nat, NEW n \in Nat, f..(f + n - 1) \subseteq Frames \ Total(M)
    PROVE  Gave(M, free_phys_block(M, f, n), f..(f + n - 1))
  <1> DEFINE F == f..(f + n - 1)
             m == M.mm \cup F
             N == [mm |-> m, dir |-> M.dir, pte |-> M.pte, warned |-> M.warned]
  <1>1. MemType(M) /\ TablesApart(M) BY DEF Sound
  <1>2. F \subseteq Frames \ M.mm BY DEF Total
  <1>3. free_phys_block(M, f, n) = [M EXCEPT !.mm = m] BY <1>1, <1>2, FreesPages
  <1> HIDE DEF m, F
  <1>4. free_phys_block(M, f, n) = N BY <1>1, <1>3, MemSet
  <1>5. m = M.mm \cup F BY DEF m
  <1>6. MemType(N) BY <1>1, <1>2, <1>5 DEF MemType
  <1>7. TablesOf(N) = TablesOf(M) BY DEF TablesOf
  <1>8. Total(N) = Total(M) \cup F BY <1>5, <1>7 DEF Total
  <1>9. TablesApart(N)
    <2>1. F \cap TablesOf(M) = {} BY DEF Total, F
    <2>2. \A d \in Tables : M.dir[d] # NULL => M.dir[d] \notin F BY <2>1 DEF TablesOf
    <2>3. QED BY <1>1, <1>5, <2>2 DEF TablesApart
  <1>10. N.warned = M.warned /\ N.dir = M.dir /\ N.pte = M.pte OBVIOUS
  <1> HIDE DEF N
  <1>11. QED BY <1>4, <1>6, <1>8, <1>9, <1>10 DEF Gave, Sound, F

\* get_phys_block and alloc_phys_block.
LEMMA Gets ==
    ASSUME NEW M, Sound(M), NEW n \in Nat, NEW f, f = get_phys_block(M, n), f # NULL
    PROVE  /\ f \in Frames /\ f \in Nat /\ f..(f + n - 1) \subseteq M.mm
           /\ Took(M, alloc_phys_block(M, f, n), f..(f + n - 1))
  <1>1. f = FirstRun(M.mm, LOW_PAGE, MAX_RAM_PAGE, n) BY DEF get_phys_block
  <1>2. f \in LOW_PAGE..(MAX_RAM_PAGE - 1 - n) /\ f..(f + n - 1) \subseteq M.mm
    BY <1>1, FrameFacts, RunFound
  <1>3. f \in Frames /\ f \in Nat BY <1>2, FrameFacts DEF Frames
  <1> DEFINE F == f..(f + n - 1)
  <1>4. alloc_phys_block(M, f, n) = Without(M, F) BY DEF alloc_phys_block, Without
  <1> HIDE DEF F
  <1>5. F \subseteq M.mm BY <1>2 DEF F
  <1>6. Took(M, Without(M, F), F) BY <1>5, Takes
  <1>7. QED BY <1>2, <1>3, <1>4, <1>6 DEF F

\* process_memory_add: a block of pages that were free, mapped; or all is as before
\* but for the contents of such pages.
Added(r, M, v, n) ==
    /\ r.ok \in BOOLEAN /\ Sound(r.M) /\ r.M.warned = M.warned
    /\ Entries(M, r.M, v..(v + n - 1)) /\ PRange(r.b) \subseteq Total(M)
    /\ r.ok => /\ BlockOK(r.b) /\ r.b.v = v /\ r.b.n = n /\ BlockMapped(r.M, r.b)
               /\ Total(r.M) = Total(M) \ PRange(r.b)
    /\ ~r.ok => /\ Total(r.M) = Total(M)
                /\ \A x \in v..(v + n - 1) : Framed(r.M, x) => Framed(M, x)

LEMMA Adds ==
    ASSUME NEW M, Sound(M), NEW v \in Nat, NEW n \in Nat, v..(v + n - 1) \subseteq User
    PROVE  Added(process_memory_add(M, v, n), M, v, n)
  <1> DEFINE f == get_phys_block(M, n)
             b == [v |-> v, p |-> f, n |-> n]
             A == alloc_phys_block(M, f, n)
             q == page_map_range(A, f, v, n, Fill)
             W == v..(v + n - 1)
             F == f..(f + n - 1)
             E == free_phys_block(q.M, f, n)
             r == process_memory_add(M, v, n)
  <1>1. CASE page_get_phys(M, v) # NULL \/ f = NULL
    <2>1. r = [ok |-> FALSE, M |-> M, b |-> NoBlock] BY <1>1 DEF process_memory_add
    <2> HIDE DEF r
    <2>2. r.ok = FALSE /\ r.M = M /\ r.b = NoBlock BY <2>1
    <2>3. Entries(M, M, W) BY SameTables
    <2>4. PRange(NoBlock) = {} BY FrameFacts DEF PRange, NoBlock
    <2>5. QED BY <2>2, <2>3, <2>4 DEF Added, r
  <1>2. CASE ~(page_get_phys(M, v) # NULL \/ f = NULL)
    <2> HIDE DEF f, A
    <2>1. /\ f \in Frames /\ f \in Nat /\ F \subseteq M.mm /\ Took(M, A, F)
      BY <1>2, Gets DEF f, A
    <2>2. b.v = v /\ b.p = f /\ b.n = n /\ b \in Block BY <2>1 DEF Block
    <2>3. VRange(b) = W /\ PRange(b) = F BY <2>2 DEF VRange, PRange
    <2>4. BlockOK(b) BY <2>1, <2>2, <2>3 DEF BlockOK, Took
    <2>5. Sound(A) /\ A.warned = M.warned /\ Total(A) = Total(M) \ F /\ F \subseteq Total(M) /\ F \subseteq Frames
      BY <2>1 DEF Took
    <2>6. q = page_map_range(A, b.p, b.v, b.n, Fill) BY <2>2
    <2> HIDE DEF b, q
    <2>7. /\ Keeps(A, q.M, VRange(b)) /\ q.ok \in BOOLEAN /\ (q.ok => BlockMapped(q.M, b))
          /\ ~q.ok => \A x \in VRange(b) : Framed(q.M, x) => Framed(A, x)
      BY <2>4, <2>5, <2>6, MapsBlock
    <2>8. Sound(q.M) /\ q.M.warned = M.warned /\ Total(q.M) = Total(M) \ F
      BY <2>5, <2>7 DEF Keeps, Total
    <2>9. Entries(M, q.M, W)
      <3>1. Entries(M, A, W) BY <2>1, SameTables DEF Took
      <3>2. Entries(A, q.M, W) BY <2>3, <2>7, KeepsEntries
      <3>3. QED BY <3>1, <3>2, EntriesOn
    <2>10. CASE q.ok
      <3>1. r = [ok |-> q.ok, M |-> q.M, b |-> b]
        BY <1>2, <2>10 DEF process_memory_add, q, A, f, b
      <3>2. r.ok = TRUE /\ r.M = q.M /\ r.b = b BY <2>7, <2>10, <3>1
      <3> HIDE DEF r, W, F
      <3>3. /\ BlockOK(r.b) /\ r.b.v = v /\ r.b.n = n /\ BlockMapped(r.M, r.b)
            /\ PRange(r.b) \subseteq Total(M) /\ Total(r.M) = Total(M) \ PRange(r.b)
        BY <2>2, <2>3, <2>4, <2>5, <2>7, <2>8, <2>10, <3>2
      <3>4. Sound(r.M) /\ r.M.warned = M.warned /\ Entries(M, r.M, W) BY <2>8, <2>9, <3>2
      <3>5. QED BY <3>2, <3>3, <3>4 DEF Added, W, r
    <2>11. CASE ~q.ok
      <3>1. r = [ok |-> q.ok, M |-> E, b |-> b]
        BY <1>2, <2>11 DEF process_memory_add, q, A, f, b
      <3>2. F \subseteq Frames \ Total(q.M) BY <2>5, <2>8
      <3>3. Gave(q.M, E, F) BY <2>1, <2>8, <3>2, Gives
      <3>4. r.ok = FALSE /\ r.M = E /\ r.b = b BY <2>7, <2>11, <3>1
      <3> HIDE DEF r, E, W, F
      <3>5. Sound(E) /\ E.warned = M.warned /\ Total(E) = Total(M)
        BY <2>5, <2>8, <3>3 DEF Gave
      <3>6. Entries(q.M, E, W) BY <3>3, SameTables DEF Gave
      <3>7. Entries(M, E, W) BY <2>9, <3>6, EntriesOn
      <3>8. \A x \in W : Framed(E, x) => Framed(M, x)
        <4>1. \A x \in W : Framed(E, x) => Framed(q.M, x) BY <3>3 DEF Gave, Framed
        <4>2. \A x \in W : Framed(A, x) => Framed(M, x) BY <2>1 DEF Took, Framed
        <4>3. QED BY <2>3, <2>7, <2>11, <4>1, <4>2
      <3>9. PRange(r.b) \subseteq Total(M) BY <2>3, <2>5, <3>4 DEF F
      <3>10. QED BY <3>4, <3>5, <3>7, <3>8, <3>9 DEF Added, W, r
    <2>12. QED BY <2>7, <2>10, <2>11
  <1>3. QED BY <1>1, <1>2

-----------------------------------------------------------------------------
(* process_free_all_memory *)

FreeRounds(g, M, bs) ==
    g = [k \in 0..Len(bs) |-> IF k = 0 THEN M ELSE free_phys_block(g[k - 1], bs[k].p, bs[k].n)]

FreeLoop(M, bs) == CHOOSE g : FreeRounds(g, M, bs)

LEMMA FreeIs ==
    ASSUME NEW M, NEW pr
    PROVE  process_free_all_memory(M, pr) = FreeLoop(M, Blocks(pr))[Len(Blocks(pr))]
  BY DEF process_free_all_memory, Walk, FreeLoop, FreeRounds

\* The pages of the first k blocks.
FirstPages(bs, k) == UNION {PRange(bs[i]) : i \in 1..k}

\* What can be freed: blocks apart, none of them free.
Freeable(M, bs) == BlocksOK(bs) /\ Distinct(bs) /\ PagesIn(bs) \cap Total(M) = {}

LEMMA FreesOneMore ==
    ASSUME NEW M, NEW bs, Freeable(M, bs), NEW k \in 1..Len(bs),
           NEW K, Gave(M, K, FirstPages(bs, k - 1))
    PROVE  Gave(M, free_phys_block(K, bs[k].p, bs[k].n), FirstPages(bs, k))
  <1> DEFINE b == bs[k]
             N == free_phys_block(K, b.p, b.n)
  <1>1. bs \in Seq(Block) /\ Len(bs) \in Nat /\ BlockOK(b) BY DEF Freeable, BlocksOK
  <1>2. b.p \in Nat /\ b.n \in Nat /\ PRange(b) \subseteq Frames BY <1>1, FrameFacts DEF BlockOK, Block
  <1>3. PRange(b) \cap FirstPages(bs, k - 1) = {}
    <2> SUFFICES ASSUME NEW x \in PRange(b), x \in FirstPages(bs, k - 1) PROVE FALSE OBVIOUS
    <2>1. PICK i \in 1..(k - 1) : x \in PRange(bs[i]) BY DEF FirstPages
    <2>2. i \in 1..Len(bs) /\ i # k BY <1>1
    <2>3. QED BY <2>1, <2>2 DEF Freeable, Distinct, Disjoint
  <1>4. PRange(b) \cap Total(M) = {} BY DEF Freeable, PagesIn
  <1> HIDE DEF b
  <1>5. PRange(b) \subseteq Frames \ Total(K) BY <1>2, <1>3, <1>4 DEF Gave
  <1>6. PRange(b) = b.p..(b.p + b.n - 1) BY DEF PRange
  <1>7. Sound(K) BY DEF Gave
  <1>8. Gave(K, N, PRange(b)) BY <1>2, <1>5, <1>6, <1>7, Gives
  <1>9. FirstPages(bs, k) = FirstPages(bs, k - 1) \cup PRange(b)
    <2>1. 1..k = (1..(k - 1)) \cup {k} OBVIOUS
    <2>2. QED BY <2>1 DEF FirstPages, b
  <1> HIDE DEF N
  <1>10. Gave(M, N, FirstPages(bs, k)) BY <1>8, <1>9 DEF Gave
  <1>11. QED BY <1>10 DEF N, b

LEMMA Frees ==
    ASSUME NEW M, Sound(M), NEW pr, Freeable(M, Blocks(pr))
    PROVE  Gave(M, process_free_all_memory(M, pr), PagesIn(Blocks(pr)))
  <1> DEFINE bs == Blocks(pr)
             n == Len(bs)
             g == FreeLoop(M, bs)
             X == [i \in 0..n |-> {K \in Memories : Gave(M, K, FirstPages(bs, i))}]
             Round(K, i) == free_phys_block(K, bs[i].p, bs[i].n)
             S == [i \in 1..n |-> [K \in X[i - 1] |-> Round(K, i)]]
  <1>0. n \in Nat BY DEF Freeable, BlocksOK
  <1>1. ASSUME NEW K, NEW i \in 0..n, Gave(M, K, FirstPages(bs, i)) PROVE K \in X[i]
    <2>1. K \in Memories BY <1>1, MemIs DEF Gave, Sound
    <2>2. QED BY <1>1, <2>1
  <1>2. \A i \in 0..n : \A K \in X[i] : Gave(M, K, FirstPages(bs, i)) OBVIOUS
  <1>3. 0 \in 0..n /\ n \in 0..n BY <1>0
  <1>4. M \in X[0]
    <2>1. FirstPages(bs, 0) = {}
      <3>1. 1..0 = {} OBVIOUS
      <3>2. QED BY <3>1 DEF FirstPages
    <2>2. Gave(M, M, FirstPages(bs, 0)) BY <2>1 DEF Gave
    <2>3. QED BY <1>1, <1>3, <2>2
  <1>5. \A i \in 1..n : \A K \in X[i - 1] : S[i][K] = Round(K, i) OBVIOUS
  <1> HIDE DEF X, S, bs
  <1>6. ASSUME NEW i \in 1..n, NEW K \in X[i - 1] PROVE Round(K, i) \in X[i]
    <2>1. i \in 0..n /\ i - 1 \in 0..n BY <1>0
    <2>2. Gave(M, K, FirstPages(bs, i - 1)) BY <1>2, <2>1
    <2>3. Freeable(M, bs) BY DEF bs
    <2>4. Gave(M, Round(K, i), FirstPages(bs, i)) BY <2>2, <2>3, FreesOneMore
    <2>5. QED BY <1>1, <2>1, <2>4
  <1> HIDE DEF n
  <1>7. Loop(S, X, n) BY <1>5, <1>6 DEF Loop
  <1>8. PICK w : Computed(w, S, X, M, n) BY <1>0, <1>4, <1>7, LoopRuns
  <1>9. FreeRounds(w, M, bs)
    <2>1. \A i \in 0..n : w[i] = IF i = 0 THEN M ELSE Round(w[i - 1], i)
      <3> SUFFICES ASSUME NEW i \in 0..n, i # 0 PROVE w[i] = Round(w[i - 1], i)
        BY <1>8 DEF Computed
      <3>1. i \in 1..n /\ i - 1 \in 0..n BY <1>0
      <3>2. QED BY <3>1, <1>5, <1>8 DEF Rounds, Computed
    <2>2. [i \in 0..n |-> w[i]] = [i \in 0..n |-> IF i = 0 THEN M ELSE Round(w[i - 1], i)]
      BY <2>1
    <2>3. w = [i \in 0..n |-> w[i]] BY <1>8 DEF Computed
    <2>4. QED BY <2>2, <2>3 DEF FreeRounds, n
  <1>10. FreeRounds(g, M, bs) BY <1>9 DEF FreeLoop
  <1> HIDE DEF g
  <1>11. g[0] = M /\ \A i \in 1..n : g[i] = Round(g[i - 1], i)
    <2>1. g = [i \in 0..n |-> IF i = 0 THEN M ELSE Round(g[i - 1], i)] BY <1>10 DEF FreeRounds, n
    <2> HIDE DEF Round
    <2>2. \A i \in 0..n : g[i] = IF i = 0 THEN M ELSE Round(g[i - 1], i) BY <2>1
    <2>3. \A i \in 1..n : i \in 0..n /\ i # 0 BY <1>0
    <2>4. QED BY <1>3, <2>2, <2>3
  <1>12. \A i \in 0..n : g[i] \in X[i]
    <2> HIDE DEF Round
    <2>1. \A i \in 1..n : g[i - 1] \in X[i - 1] => g[i] \in X[i] BY <1>6, <1>11
    <2>2. g[0] \in X[0] BY <1>4, <1>11
    <2>3. QED BY <1>0, <2>1, <2>2, LoopGoes
  <1>13. Gave(M, g[n], FirstPages(bs, n)) BY <1>2, <1>3, <1>12
  <1>14. FirstPages(bs, n) = PagesIn(bs) BY DEF FirstPages, PagesIn, n
  <1>15. process_free_all_memory(M, pr) = g[n] BY FreeIs DEF g, bs, n
  <1>16. QED BY <1>13, <1>14, <1>15 DEF bs

-----------------------------------------------------------------------------
(* copy_blocks *)

CopyStart(M, D) == [M |-> M, D |-> D, new |-> <<>>, ok |-> TRUE]

CopyRounds(g, M, D, bs) ==
    g = [k \in 0..Len(bs) |-> IF k = 0 THEN CopyStart(M, D) ELSE process_copy_mem_block(g[k - 1], bs[k])]

CopyLoop(M, D, bs) == CHOOSE g : CopyRounds(g, M, D, bs)

Copies(M, D, bs) == CopyLoop(M, D, bs)[Len(bs)]

LEMMA CopyIs ==
    ASSUME NEW k
    PROVE  copy_blocks(k) = Copies(mem, data, SubSeq(Blocks(proc[current]), 1, k))
  BY DEF copy_blocks, Walk, Copies, CopyLoop, CopyRounds, CopyStart

LEMMA Appends ==
    ASSUME NEW s \in Seq(Block), NEW b \in Block
    PROVE  /\ Append(s, b) \in Seq(Block) /\ Len(Append(s, b)) = Len(s) + 1
           /\ \A j \in 1..Len(s) : Append(s, b)[j] = s[j]
           /\ Append(s, b)[Len(s) + 1] = b
           /\ PagesIn(Append(s, b)) = PagesIn(s) \cup PRange(b)
  <1> DEFINE t == Append(s, b)
             n == Len(s)
  <1>1. n \in Nat /\ t \in Seq(Block) /\ Len(t) = n + 1 /\ (\A j \in 1..n : t[j] = s[j]) /\ t[n + 1] = b
    OBVIOUS
  <1> HIDE DEF t
  <1>2. \A j \in 1..(n + 1) : j \in 1..n \/ j = n + 1 BY <1>1
  <1>3. \A j \in 1..n : j \in 1..(n + 1) BY <1>1
  <1>4. PagesIn(t) \subseteq PagesIn(s) \cup PRange(b) BY <1>1, <1>2 DEF PagesIn
  <1>5. n + 1 \in 1..(n + 1) BY <1>1
  <1>6. PagesIn(s) \cup PRange(b) \subseteq PagesIn(t)
    <2>1. \A j \in 1..n : PRange(s[j]) \subseteq PagesIn(t) BY <1>1, <1>3 DEF PagesIn
    <2>2. PRange(b) \subseteq PagesIn(t) BY <1>1, <1>5 DEF PagesIn
    <2>3. QED BY <2>1, <2>2 DEF PagesIn
  <1>7. QED BY <1>1, <1>4, <1>6 DEF t

\* The blocks of a process that lives: none is empty, and all are in use.
InUse(M, bs) == BlocksOK(bs) /\ PagesIn(bs) \cap Total(M) = {} /\ \A j \in 1..Len(bs) : bs[j].n > 0

\* c is a copy of b, of which the first page is one.
CopyOf(c, b, D, E) == BlockOK(c) /\ c.v = b.v /\ c.n = b.n /\ E[c.p] = D[b.p]

PagesApart(s) == \A i, j \in 1..Len(s) : i # j => PRange(s[i]) \cap PRange(s[j]) = {}

\* After k blocks.
Copying(S, k, M, D, bs) ==
    /\ S = [M |-> S.M, D |-> S.D, new |-> S.new, ok |-> S.ok]
    /\ S.ok \in BOOLEAN /\ S.D \in [Frames -> Data] /\ S.new \in Seq(Block)
    /\ Took(M, S.M, PagesIn(S.new)) /\ PagesApart(S.new)
    /\ Len(S.new) <= k /\ (S.ok => Len(S.new) = k)
    /\ \A j \in 1..Len(S.new) : CopyOf(S.new[j], bs[j], D, S.D)
    /\ \A x \in Frames \ PagesIn(S.new) : S.D[x] = D[x]

LEMMA CopySet ==
    ASSUME NEW S, S = [M |-> S.M, D |-> S.D, new |-> S.new, ok |-> S.ok]
    PROVE  /\ [S EXCEPT !.ok = FALSE] = [M |-> S.M, D |-> S.D, new |-> S.new, ok |-> FALSE]
           /\ \A A, E, s : [S EXCEPT !.M = A, !.D = E, !.new = s] = [M |-> A, D |-> E, new |-> s, ok |-> S.ok]
  <1> DEFINE a == S.M
             b == S.D
             c == S.new
             d == S.ok
  <1>1. S = [M |-> a, D |-> b, new |-> c, ok |-> d] OBVIOUS
  <1> HIDE DEF a, b, c, d
  <1>2. \A z : [S EXCEPT !.ok = z] = [M |-> a, D |-> b, new |-> c, ok |-> z] BY <1>1
  <1>3. [S EXCEPT !.ok = FALSE] = [M |-> a, D |-> b, new |-> c, ok |-> FALSE] BY <1>2, Zenon
  <1>4. ASSUME NEW A, NEW E, NEW s
        PROVE  [S EXCEPT !.M = A, !.D = E, !.new = s] = [M |-> A, D |-> E, new |-> s, ok |-> d]
    <2> DEFINE U == [S EXCEPT !.M = A]
               V == [U EXCEPT !.D = E]
    <2>1. U = [M |-> A, D |-> b, new |-> c, ok |-> d] BY <1>1
    <2> HIDE DEF U
    <2>2. V = [M |-> A, D |-> E, new |-> c, ok |-> d] BY <2>1
    <2> HIDE DEF V
    <2>3. [V EXCEPT !.new = s] = [M |-> A, D |-> E, new |-> s, ok |-> d] BY <2>2
    <2>4. [S EXCEPT !.M = A, !.D = E, !.new = s] = [V EXCEPT !.new = s] BY DEF U, V
    <2>5. QED BY <2>3, <2>4
  <1>5. QED BY <1>3, <1>4 DEF a, b, c, d

LEMMA CopiesOneMore ==
    ASSUME NEW M, Sound(M), NEW D \in [Frames -> Data], NEW bs, InUse(M, bs), NEW k \in 1..Len(bs),
           NEW S, Copying(S, k - 1, M, D, bs)
    PROVE  Copying(process_copy_mem_block(S, bs[k]), k, M, D, bs)
  <1> DEFINE b == bs[k]
             f == get_phys_block(S.M, b.n)
             T == process_copy_mem_block(S, b)
             A == alloc_phys_block(S.M, f, b.n)
             E == [S.D EXCEPT ![f] = S.D[b.p]]
             c == [b EXCEPT !.p = f]
             s == Append(S.new, c)
             F == f..(f + b.n - 1)
  <1>1. bs \in Seq(Block) /\ Len(bs) \in Nat /\ BlockOK(b) /\ b.n > 0 BY DEF InUse, BlocksOK
  <1>2. b \in Block /\ b.p \in Frames /\ b.n \in Nat /\ b.v \in Nat /\ VRange(b) \subseteq User
    BY <1>1 DEF BlockOK, Block
  <1>3. /\ S = [M |-> S.M, D |-> S.D, new |-> S.new, ok |-> S.ok]
        /\ S.ok \in BOOLEAN /\ S.D \in [Frames -> Data] /\ S.new \in Seq(Block)
        /\ Took(M, S.M, PagesIn(S.new)) /\ Len(S.new) <= k - 1 /\ Len(S.new) \in Nat
        /\ PagesApart(S.new)
    BY DEF Copying
  <1>4. Sound(S.M) BY <1>3 DEF Took
  <1>5. CASE ~S.ok \/ f = NULL
    <2>1. T = [S EXCEPT !.ok = FALSE] BY <1>5 DEF process_copy_mem_block
    <2>2. T = [M |-> S.M, D |-> S.D, new |-> S.new, ok |-> FALSE] BY <1>3, <2>1, CopySet
    <2> HIDE DEF T
    <2>3. T.M = S.M /\ T.D = S.D /\ T.new = S.new /\ T.ok = FALSE BY <2>2
    <2>4. Len(S.new) <= k BY <1>3
    <2>5. QED BY <1>3, <2>2, <2>3, <2>4 DEF Copying, T
  <1>6. CASE S.ok /\ f # NULL
    <2>1. /\ f \in Frames /\ f \in Nat /\ F \subseteq S.M.mm /\ Took(S.M, A, F)
      <3> DEFINE K == S.M
                 n == b.n
      <3>1. Sound(K) /\ n \in Nat /\ f = get_phys_block(K, n) /\ f # NULL /\ A = alloc_phys_block(K, f, n)
        BY <1>2, <1>4, <1>6
      <3> HIDE DEF K, n, f, A, b
      <3>2. /\ f \in Frames /\ f \in Nat /\ f..(f + n - 1) \subseteq K.mm
            /\ Took(K, alloc_phys_block(K, f, n), f..(f + n - 1))
        BY <3>1, Gets
      <3>3. QED BY <3>1, <3>2 DEF K, n
    <2> HIDE DEF f, A, b
    <2>2. c = [v |-> b.v, p |-> f, n |-> b.n] BY <1>2 DEF Block
    <2> HIDE DEF c
    <2>3. c.v = b.v /\ c.p = f /\ c.n = b.n /\ c \in Block BY <1>2, <2>1, <2>2 DEF Block
    <2>4. PRange(c) = F /\ VRange(c) = VRange(b) BY <2>3 DEF PRange, VRange
    <2>5. F \subseteq Frames /\ F \subseteq Total(S.M) /\ f \in F BY <1>1, <1>2, <2>1 DEF Took
    <2>6. BlockOK(c) BY <1>2, <2>3, <2>4, <2>5 DEF BlockOK
    <2>7. /\ s \in Seq(Block) /\ Len(s) = Len(S.new) + 1
          /\ \A j \in 1..Len(S.new) : s[j] = S.new[j]
          /\ s[Len(S.new) + 1] = c
          /\ PagesIn(s) = PagesIn(S.new) \cup F
      <3> DEFINE t == S.new
      <3>1. t \in Seq(Block) /\ c \in Block BY <1>3, <2>3
      <3> HIDE DEF t, F
      <3>2. /\ Append(t, c) \in Seq(Block) /\ Len(Append(t, c)) = Len(t) + 1
            /\ \A j \in 1..Len(t) : Append(t, c)[j] = t[j]
            /\ Append(t, c)[Len(t) + 1] = c
            /\ PagesIn(Append(t, c)) = PagesIn(t) \cup PRange(c)
        BY <3>1, Appends
      <3>3. QED BY <2>4, <3>2 DEF t
    <2>8. T = [M |-> A, D |-> E, new |-> s, ok |-> S.ok]
      <3>1. T = [S EXCEPT !.M = A, !.D = E, !.new = s]
        BY <1>6 DEF process_copy_mem_block, A, f, c, b
      <3> HIDE DEF T, E, s
      <3>2. QED BY <1>3, <3>1, CopySet
    <2>9. F \cap PagesIn(S.new) = {} BY <1>3, <2>5 DEF Took
    <2>10. Took(M, A, PagesIn(s)) BY <1>3, <2>1, <2>7 DEF Took
    <2>11. E \in [Frames -> Data] /\ E[f] = S.D[b.p] /\ \A x \in Frames : x # f => E[x] = S.D[x]
      BY <1>2, <1>3, <2>1
    <2>12. b.p \notin PagesIn(S.new)
      <3>0. b.p \in Nat BY <1>2, FrameFacts
      <3>1. b.p \in PRange(b) BY <1>1, <1>2, <3>0 DEF PRange
      <3>2. b.p \in PagesIn(bs) BY <3>1 DEF PagesIn, b
      <3>3. QED BY <1>3, <3>2 DEF InUse, Took
    <2>13. S.D[b.p] = D[b.p] BY <1>2, <2>12 DEF Copying
    <2> HIDE DEF s, E, F
    <2>14. Len(S.new) = k - 1 BY <1>6 DEF Copying
    <2>15. Len(s) = k BY <2>7, <2>14
    <2>16. ASSUME NEW j \in 1..Len(s) PROVE CopyOf(s[j], bs[j], D, E)
      <3>1. CASE j = k BY <2>3, <2>6, <2>7, <2>11, <2>13, <2>14, <3>1 DEF CopyOf, b
      <3>2. CASE j # k
        <4>1. j \in 1..Len(S.new) BY <2>14, <2>15, <3>2
        <4>2. CopyOf(S.new[j], bs[j], D, S.D) BY <4>1 DEF Copying
        <4>3. s[j] = S.new[j] BY <2>7, <4>1
        <4> DEFINE d == S.new[j]
        <4> HIDE DEF d
        <4>4. CopyOf(d, bs[j], D, S.D) /\ s[j] = d BY <4>2, <4>3 DEF d
        <4>5. d.p \in PRange(d)
          <5>1. j \in 1..Len(bs) BY <4>1, <2>14, <1>1
          <5>2. d.n > 0 BY <4>4, <5>1 DEF CopyOf, InUse
          <5>3. d.p \in Nat /\ d.n \in Nat BY <4>4, FrameFacts DEF CopyOf, BlockOK, Block
          <5>4. QED BY <5>2, <5>3 DEF PRange
        <4>6. d.p \in PagesIn(S.new) BY <4>1, <4>5 DEF PagesIn, d
        <4>7. d.p \in Frames /\ d.p # f BY <2>5, <2>9, <4>4, <4>6 DEF CopyOf, BlockOK, Block
        <4>8. E[d.p] = S.D[d.p] BY <2>11, <4>7
        <4>9. QED BY <4>4, <4>8 DEF CopyOf
      <3>3. QED BY <3>1, <3>2
    <2>17. PagesApart(s)
      <3> SUFFICES ASSUME NEW i \in 1..Len(s), NEW j \in 1..Len(s), i < j
                   PROVE  PRange(s[i]) \cap PRange(s[j]) = {}
        BY <2>15 DEF PagesApart
      <3>1. i \in 1..Len(S.new) /\ s[i] = S.new[i] BY <2>7, <2>14, <2>15
      <3>2. CASE j = k
        <4>1. s[j] = c BY <2>7, <2>14, <3>2
        <4>2. PRange(s[i]) \subseteq PagesIn(S.new) BY <3>1 DEF PagesIn
        <4>3. QED BY <2>4, <2>9, <4>1, <4>2
      <3>3. CASE j # k
        <4>1. j \in 1..Len(S.new) /\ s[j] = S.new[j] /\ i # j BY <2>7, <2>14, <2>15, <3>3
        <4>2. QED BY <1>3, <3>1, <4>1 DEF PagesApart
      <3>4. QED BY <3>2, <3>3
    <2>18. \A x \in Frames \ PagesIn(s) : E[x] = D[x]
      <3> SUFFICES ASSUME NEW x \in Frames \ PagesIn(s) PROVE E[x] = D[x] OBVIOUS
      <3>1. x \in Frames \ PagesIn(S.new) /\ x # f BY <2>5, <2>7
      <3>2. QED BY <2>11, <3>1 DEF Copying
    <2> HIDE DEF T
    <2>19. T.M = A /\ T.D = E /\ T.new = s /\ T.ok = S.ok BY <2>8
    <2>20. Len(s) <= k BY <2>15
    <2>21. Copying(T, k, M, D, bs)
      BY <1>3, <2>7, <2>8, <2>10, <2>11, <2>15, <2>16, <2>17, <2>18, <2>19, <2>20 DEF Copying
    <2>22. QED BY <2>21 DEF T, b
  <1>7. QED BY <1>3, <1>5, <1>6

LEMMA CopiesAll ==
    ASSUME NEW M, Sound(M), NEW D \in [Frames -> Data], NEW bs, InUse(M, bs)
    PROVE  Copying(Copies(M, D, bs), Len(bs), M, D, bs)
  <1> DEFINE n == Len(bs)
             g == CopyLoop(M, D, bs)
             R == [M : Memories, D : [Frames -> Data], new : Seq(Block), ok : BOOLEAN]
             X == [i \in 0..n |-> {S \in R : Copying(S, i, M, D, bs)}]
             T == [i \in 1..n |-> [S \in X[i - 1] |-> process_copy_mem_block(S, bs[i])]]
             x0 == CopyStart(M, D)
  <1>0. n \in Nat BY DEF InUse, BlocksOK
  <1>1. ASSUME NEW S, NEW i \in 0..n, Copying(S, i, M, D, bs) PROVE S \in X[i]
    <2>1. S.M \in Memories BY <1>1, MemIs DEF Copying, Took, Sound
    <2>2. S \in R BY <1>1, <2>1 DEF Copying
    <2>3. QED BY <1>1, <2>2
  <1>2. \A i \in 0..n : \A S \in X[i] : Copying(S, i, M, D, bs) OBVIOUS
  <1>3. 0 \in 0..n /\ n \in 0..n BY <1>0
  <1>4. x0 \in X[0]
    <2>1. x0 = [M |-> M, D |-> D, new |-> <<>>, ok |-> TRUE] BY DEF CopyStart
    <2>2. x0.M = M /\ x0.D = D /\ x0.new = <<>> /\ x0.ok = TRUE BY <2>1
    <2>3. <<>> \in Seq(Block) /\ Len(<<>>) = 0 /\ PagesIn(<<>>) = {} BY NoBlocks
    <2>4. Took(M, M, {}) BY DEF Took
    <2>5. PagesApart(<<>>) BY <2>3 DEF PagesApart
    <2> HIDE DEF x0
    <2>6. Copying(x0, 0, M, D, bs) BY <2>1, <2>2, <2>3, <2>4, <2>5, SMTT(30) DEF Copying
    <2>7. QED BY <1>1, <1>3, <2>6
  <1>5. \A i \in 1..n : \A S \in X[i - 1] : T[i][S] = process_copy_mem_block(S, bs[i]) OBVIOUS
  <1> HIDE DEF X, T, x0, R
  <1>6. ASSUME NEW i \in 1..n, NEW S \in X[i - 1] PROVE process_copy_mem_block(S, bs[i]) \in X[i]
    <2>1. i \in 0..n /\ i - 1 \in 0..n BY <1>0
    <2>2. Copying(S, i - 1, M, D, bs) BY <1>2, <2>1
    <2>3. Copying(process_copy_mem_block(S, bs[i]), i, M, D, bs) BY <2>2, CopiesOneMore
    <2>4. QED BY <1>1, <2>1, <2>3
  <1> HIDE DEF n
  <1>7. Loop(T, X, n) BY <1>5, <1>6 DEF Loop
  <1>8. PICK w : Computed(w, T, X, x0, n) BY <1>0, <1>4, <1>7, LoopRuns
  <1>9. CopyRounds(w, M, D, bs)
    <2>1. \A i \in 0..n : w[i] = IF i = 0 THEN x0 ELSE process_copy_mem_block(w[i - 1], bs[i])
      <3> SUFFICES ASSUME NEW i \in 0..n, i # 0 PROVE w[i] = process_copy_mem_block(w[i - 1], bs[i])
        BY <1>8 DEF Computed
      <3>1. i \in 1..n /\ i - 1 \in 0..n BY <1>0
      <3>2. QED BY <3>1, <1>5, <1>8 DEF Rounds, Computed
    <2>2. [i \in 0..n |-> w[i]]
            = [i \in 0..n |-> IF i = 0 THEN x0 ELSE process_copy_mem_block(w[i - 1], bs[i])]
      BY <2>1
    <2>3. w = [i \in 0..n |-> w[i]] BY <1>8 DEF Computed
    <2>4. QED BY <2>2, <2>3 DEF CopyRounds, n, x0
  <1>10. CopyRounds(g, M, D, bs) BY <1>9 DEF CopyLoop
  <1> HIDE DEF g
  <1>11. g[0] = x0 /\ \A i \in 1..n : g[i] = process_copy_mem_block(g[i - 1], bs[i])
    <2>1. g = [i \in 0..n |-> IF i = 0 THEN x0 ELSE process_copy_mem_block(g[i - 1], bs[i])]
      BY <1>10 DEF CopyRounds, n, x0
    <2>2. \A i \in 0..n : g[i] = IF i = 0 THEN x0 ELSE process_copy_mem_block(g[i - 1], bs[i]) BY <2>1
    <2>3. \A i \in 1..n : i \in 0..n /\ i # 0 BY <1>0
    <2>4. QED BY <1>3, <2>2, <2>3
  <1>12. \A i \in 0..n : g[i] \in X[i] BY <1>0, <1>4, <1>6, <1>11, LoopGoes
  <1>13. QED BY <1>2, <1>3, <1>12 DEF n, g, Copies

-----------------------------------------------------------------------------
(* Processes *)

\* A struct process and its memory.
Slot(pr) ==
    /\ pr = [state |-> pr.state, mm_heap |-> pr.mm_heap, mm_stack |-> pr.mm_stack, mm_code |-> pr.mm_code]
    /\ pr.state \in {"none", "live", "zombie"}
    /\ pr.mm_heap \in Seq(Block) /\ pr.mm_stack \in Seq(Block) /\ pr.mm_code \in Block
    /\ BlocksOK(Blocks(pr)) /\ Distinct(Blocks(pr))
    /\ pr.state = "live" => \A j \in 1..Len(Blocks(pr)) : Blocks(pr)[j].n > 0

LEMMA MappedIs ==
    ASSUME NEW pr, Blocks(pr) \in Seq(Block)
    PROVE  Mapped(pr) = PlacesIn(Blocks(pr))
  <1> DEFINE bs == Blocks(pr)
  <1>1. DOMAIN bs = 1..Len(bs) OBVIOUS
  <1> HIDE DEF bs
  <1>2. UNION {VRange(b) : b \in Range(bs)} = PlacesIn(bs) BY <1>1 DEF Range, PlacesIn
  <1>3. QED BY <1>2 DEF Mapped, bs

LEMMA PlacesOK ==
    ASSUME NEW bs, BlocksOK(bs)
    PROVE  PlacesIn(bs) \subseteq User /\ PagesIn(bs) \subseteq Frames
  BY DEF BlocksOK, BlockOK, PlacesIn, PagesIn

LEMMA Associates ==
    ASSUME NEW a \in Seq(Block), NEW b \in Seq(Block), NEW c \in Seq(Block)
    PROVE  (a \o b) \o c = a \o (b \o c)
  BY ConcatAssociative

\* The lists of a process, end to end.
LEMMA BlocksIs ==
    ASSUME NEW pr, pr.mm_heap \in Seq(Block), pr.mm_stack \in Seq(Block), pr.mm_code \in Block
    PROVE  /\ Blocks(pr) = pr.mm_heap \o (pr.mm_stack \o <<pr.mm_code>>)
           /\ pr.mm_stack \o <<pr.mm_code>> \in Seq(Block) /\ Blocks(pr) \in Seq(Block)
           /\ Len(Blocks(pr)) = Len(pr.mm_heap) + Len(pr.mm_stack) + 1
  <1> DEFINE a == pr.mm_heap
             b == pr.mm_stack
             c == <<pr.mm_code>>
  <1>1. a \in Seq(Block) /\ b \in Seq(Block) /\ c \in Seq(Block) /\ Len(c) = 1 OBVIOUS
  <1>2. Blocks(pr) = (a \o b) \o c BY DEF Blocks
  <1> HIDE DEF a, b, c
  <1>3. (a \o b) \o c = a \o (b \o c) BY <1>1, Associates, SMTT(30)
  <1>4. a \o b \in Seq(Block) /\ Len(a \o b) = Len(a) + Len(b) BY <1>1, ConcatProperties
  <1>5. b \o c \in Seq(Block) BY <1>1, ConcatProperties
  <1> DEFINE d == a \o b
  <1> HIDE DEF d
  <1>6. d \o c \in Seq(Block) /\ Len(d \o c) = Len(d) + Len(c) BY <1>1, <1>4, ConcatProperties DEF d
  <1>7. QED BY <1>1, <1>2, <1>3, <1>4, <1>5, <1>6 DEF a, b, c, d

LEMMA EmptySlot == Slot(NoProc) /\ NoProc.state = "none" /\ PlacesIn(Blocks(NoProc)) = {}
  <1> DEFINE b == NoBlock
             s == Blocks(NoProc)
  <1>1. b \in Block /\ VRange(b) = {} /\ PRange(b) = {}
    <2>1. b = [v |-> 0, p |-> LOW_PAGE, n |-> 0] BY DEF NoBlock
    <2>2. b \in Block /\ b.v = 0 /\ b.n = 0 /\ b.p = LOW_PAGE BY <2>1, Pages DEF Block
    <2>3. LOW_PAGE..(LOW_PAGE + 0 - 1) = {} /\ 0..(0 + 0 - 1) = {} BY FrameFacts
    <2>4. QED BY <2>2, <2>3 DEF VRange, PRange
  <1>2. /\ NoProc.mm_heap = <<>> /\ NoProc.mm_stack = <<>> /\ NoProc.mm_code = b
        /\ NoProc.state = "none"
    BY DEF NoProc
  <1>3. s = <<b>>
    <2>1. s = (<<>> \o <<>>) \o <<b>> BY <1>2 DEF Blocks
    <2>2. <<b>> \in Seq(Block) BY <1>1
    <2> DEFINE c == <<b>>
    <2> HIDE DEF c
    <2>3. <<>> \o <<>> = <<>> OBVIOUS
    <2>4. <<>> \o c = c BY <2>2, ConcatEmptySeq DEF c
    <2>5. QED BY <2>1, <2>3, <2>4 DEF c
  <1> HIDE DEF b
  <1>4. <<b>> \in Seq(Block) /\ PlacesIn(<<b>>) = VRange(b) /\ Distinct(<<b>>) BY <1>1, OneBlock
  <1>5. Len(<<b>>) = 1 /\ <<b>>[1] = b OBVIOUS
  <1>6. BlocksOK(<<b>>)
    <2> DEFINE c == <<b>>
    <2> HIDE DEF c
    <2>1. Len(c) = 1 /\ c[1] = b /\ c \in Seq(Block) BY <1>4, <1>5 DEF c
    <2>2. BlockOK(b) BY <1>1 DEF BlockOK
    <2>3. BlocksOK(c) BY <2>1, <2>2 DEF BlocksOK
    <2>4. QED BY <2>3 DEF c
  <1>7. /\ NoProc = [state |-> NoProc.state, mm_heap |-> NoProc.mm_heap,
                     mm_stack |-> NoProc.mm_stack, mm_code |-> NoProc.mm_code]
    BY DEF NoProc
  <1>8. <<>> \in Seq(Block) OBVIOUS
  <1> HIDE DEF s
  <1>9. BlocksOK(s) /\ Distinct(s) /\ PlacesIn(s) = {} BY <1>1, <1>3, <1>4, <1>6
  <1>10. QED BY <1>1, <1>2, <1>7, <1>8, <1>9 DEF Slot, s

\* The pages a process has to itself: an ended one has none.
Held(P, p) == IF P[p].state = "live" THEN PagesIn(Blocks(P[p])) ELSE {}

\* Every page is a process's, of the bitmap or the tables (T), or lost (L).
Accounts(P, T, L) ==
    /\ \A p, q \in Procs : p # q => Held(P, p) \cap Held(P, q) = {}
    /\ \A p \in Procs : Held(P, p) \cap T = {} /\ Held(P, p) \cap L = {}
    /\ T \cap L = {}
    /\ T \cup L \cup UNION {Held(P, p) : p \in Procs} = Frames

\* The pages of one process, the bitmap, the tables and the lost pages change hands.
LEMMA Regroup ==
    ASSUME NEW P, NEW Q, NEW T, NEW U, NEW L, NEW K, NEW p \in Procs, Accounts(P, T, L),
           \A q \in Procs \ {p} : Held(Q, q) = Held(P, q),
           Held(Q, p) \cap U = {}, Held(Q, p) \cap K = {}, U \cap K = {},
           Held(Q, p) \cup U \cup K = Held(P, p) \cup T \cup L
    PROVE  Accounts(Q, U, K)
  <1> DEFINE S == Held(P, p) \cup T \cup L
  <1>1. \A q \in Procs \ {p} : Held(P, q) \cap S = {} BY DEF Accounts
  <1> HIDE DEF S
  <1>2. Held(Q, p) \subseteq S /\ U \subseteq S /\ K \subseteq S BY DEF S
  <1>3. \A q \in Procs \ {p} : Held(Q, q) \cap S = {} BY <1>1
  <1>4. ASSUME NEW q \in Procs, NEW r \in Procs, q # r PROVE Held(Q, q) \cap Held(Q, r) = {}
    <2>1. CASE q = p BY <1>2, <1>3, <1>4, <2>1
    <2>2. CASE r = p BY <1>2, <1>3, <1>4, <2>2
    <2>3. CASE q # p /\ r # p BY <1>4, <2>3 DEF Accounts
    <2>4. QED BY <2>1, <2>2, <2>3
  <1>5. ASSUME NEW q \in Procs PROVE Held(Q, q) \cap U = {} /\ Held(Q, q) \cap K = {}
    <2>1. CASE q = p BY <2>1
    <2>2. CASE q # p BY <1>2, <1>3, <2>2
    <2>3. QED BY <2>1, <2>2
  <1>6. U \cup K \cup UNION {Held(Q, q) : q \in Procs} = Frames
    <2> DEFINE R == UNION {Held(P, q) : q \in Procs \ {p}}
    <2>1. UNION {Held(P, q) : q \in Procs} = Held(P, p) \cup R OBVIOUS
    <2>2. UNION {Held(Q, q) : q \in Procs} = Held(Q, p) \cup R OBVIOUS
    <2>3. T \cup L \cup UNION {Held(P, q) : q \in Procs} = Frames BY DEF Accounts
    <2>4. Frames = S \cup R BY <2>1, <2>3 DEF S
    <2>5. S = Held(Q, p) \cup U \cup K BY DEF S
    <2> HIDE DEF R
    <2>6. QED BY <2>2, <2>4, <2>5
  <1>7. QED BY <1>4, <1>5, <1>6 DEF Accounts

-----------------------------------------------------------------------------
(* The invariant *)

Typed ==
    /\ data \in [Frames -> Data]
    /\ proc = [p \in Procs |-> proc[p]] /\ \A p \in Procs : Slot(proc[p])
    /\ current \in Procs \cup {NULL} /\ phase \in {"boot", "run", "map"}
    /\ lost \subseteq Frames /\ stale \subseteq User

PagesHeld == Sound(mem) /\ ~mem.warned /\ Accounts(proc, Total(mem), lost)

\* kmain runs no process before it has made all; the process that runs is mapped.
Running ==
    /\ phase = "boot" => current = NULL /\ \A p \in Procs \ tried : proc[p] = NoProc
    /\ phase = "run" /\ current # NULL => AllMapped(mem, Blocks(proc[current]))
    /\ phase = "map" => Full(mem)

Left ==
    phase # "map" =>
        \A v \in User : Framed(mem, v) =>
            v \in stale \/ (current # NULL /\ v \in PlacesIn(Blocks(proc[current])))

MemInv == Typed /\ PagesHeld /\ Running /\ Left

-----------------------------------------------------------------------------
(* What holds of every block of a list *)

Each(s, E) == \A i \in 1..Len(s) : s[i] \in E

LEMMA EachOf ==
    ASSUME NEW s \in Seq(Block), NEW t \in Seq(Block), NEW E
    PROVE  Each(s \o t, E) <=> Each(s, E) /\ Each(t, E)
  <1> DEFINE u == s \o t
             a == Len(s)
             b == Len(t)
  <1>1. /\ u \in Seq(Block) /\ Len(u) = a + b
        /\ \A i \in 1..(a + b) : u[i] = IF i <= a THEN s[i] ELSE t[i - a]
    BY ConcatProperties
  <1>2. a \in Nat /\ b \in Nat OBVIOUS
  <1> HIDE DEF u
  <1>3. \A i \in 1..a : i \in 1..Len(u) /\ u[i] = s[i] BY <1>1, <1>2
  <1>4. \A i \in 1..b : a + i \in 1..Len(u) /\ u[a + i] = t[i]
    <2> SUFFICES ASSUME NEW i \in 1..b PROVE a + i \in 1..Len(u) /\ u[a + i] = t[i] OBVIOUS
    <2>1. a + i \in 1..(a + b) /\ ~(a + i <= a) /\ (a + i) - a = i BY <1>2
    <2> HIDE DEF a, b
    <2>2. u[a + i] = t[(a + i) - a] BY <1>1, <2>1
    <2>3. QED BY <1>1, <2>1, <2>2
  <1>5. \A i \in 1..Len(u) : i \in 1..a \/ \E j \in 1..b : i = a + j
    <2> SUFFICES ASSUME NEW i \in 1..Len(u), ~(i \in 1..a) PROVE \E j \in 1..b : i = a + j OBVIOUS
    <2>1. i - a \in 1..b /\ i = a + (i - a) BY <1>1, <1>2
    <2>2. QED BY <2>1
  <1> HIDE DEF a, b
  <1>6. ASSUME Each(u, E) PROVE Each(s, E) /\ Each(t, E)
    <2>1. \A i \in 1..a : s[i] \in E BY <1>3, <1>6 DEF Each
    <2>2. \A i \in 1..b : t[i] \in E BY <1>4, <1>6 DEF Each
    <2>3. QED BY <2>1, <2>2 DEF Each, a, b
  <1>7. ASSUME Each(s, E), Each(t, E) PROVE Each(u, E)
    <2>1. \A i \in 1..a : s[i] \in E BY <1>7 DEF Each, a
    <2>2. \A i \in 1..b : t[i] \in E BY <1>7 DEF Each, b
    <2>3. QED BY <1>3, <1>4, <1>5, <2>1, <2>2 DEF Each
  <1>8. QED BY <1>6, <1>7 DEF u

LEMMA EachOne ==
    ASSUME NEW b \in Block, NEW E
    PROVE  Each(<<b>>, E) <=> b \in E
  <1> DEFINE s == <<b>>
  <1>1. Len(s) = 1 /\ s[1] = b OBVIOUS
  <1> HIDE DEF s
  <1>2. Each(s, E) <=> b \in E BY <1>1 DEF Each
  <1>3. QED BY <1>2 DEF s

\* Blocks of a process's own, blocks that are not empty, blocks that are mapped.
Good == {b \in Block : BlockOK(b)}
NotEmpty == {b \in Block : b.n > 0}
MappedIn(M) == {b \in Block : BlockMapped(M, b)}

LEMMA EachIs ==
    ASSUME NEW s \in Seq(Block)
    PROVE  /\ BlocksOK(s) <=> Each(s, Good)
           /\ (\A j \in 1..Len(s) : s[j].n > 0) <=> Each(s, NotEmpty)
           /\ \A M : AllMapped(M, s) <=> Each(s, MappedIn(M))
  <1>1. \A j \in 1..Len(s) : s[j] \in Block OBVIOUS
  <1>2. BlocksOK(s) <=> Each(s, Good) BY <1>1 DEF BlocksOK, Each, Good
  <1>3. (\A j \in 1..Len(s) : s[j].n > 0) <=> Each(s, NotEmpty) BY <1>1 DEF Each, NotEmpty
  <1>4. \A M : AllMapped(M, s) <=> Each(s, MappedIn(M)) BY <1>1 DEF AllMapped, Each, MappedIn
  <1>5. QED BY <1>2, <1>3, <1>4

LEMMA EachReverse ==
    ASSUME NEW s \in Seq(Block), NEW E, Each(s, E)
    PROVE  Each(Reverse(s), E)
  <1> DEFINE n == Len(s)
             r == Reverse(s)
  <1>1. n \in Nat OBVIOUS
  <1>2. r = [i \in 1..n |-> s[(n - i) + 1]] BY DEF Reverse
  <1>3. \A i \in 1..n : (n - i) + 1 \in 1..n BY <1>1
  <1>4. Len(r) = n BY Reverses
  <1>5. \A i \in 1..n : r[i] = s[(n - i) + 1] BY <1>2
  <1> HIDE DEF r
  <1>6. \A i \in 1..n : r[i] \in E BY <1>3, <1>5 DEF Each
  <1>7. QED BY <1>4, <1>6 DEF Each, r

LEMMA AllStayMapped ==
    ASSUME NEW M, NEW N, NEW W, Entries(M, N, W), NEW bs, BlocksOK(bs), AllMapped(M, bs),
           PlacesIn(bs) \cap W = {}
    PROVE  AllMapped(N, bs)
  <1> SUFFICES ASSUME NEW j \in 1..Len(bs) PROVE BlockMapped(N, bs[j]) BY DEF AllMapped
  <1> DEFINE b == bs[j]
  <1>1. BlockOK(b) /\ BlockMapped(M, b) BY DEF BlocksOK, AllMapped
  <1>2. VRange(b) \cap W = {} BY DEF PlacesIn
  <1> HIDE DEF b
  <1>3. BlockMapped(N, b) BY <1>1, <1>2, StaysMapped
  <1>4. QED BY <1>3 DEF b

-----------------------------------------------------------------------------
(* proc_switch *)

LEMMA ContentsIs ==
    ASSUME NEW M, NEW D \in [Frames -> Data]
    PROVE  /\ Contents(M, D) \in [Frames -> Data]
           /\ \A f \in Frames : f \notin TablesOf(M) => Contents(M, D)[f] = D[f]
  BY DEF Contents, TablePages, TablesOf, Data

\* What a switch from old, which is mapped or no process, to new leaves behind.
Places(P, p) == IF p = NULL THEN {} ELSE PlacesIn(Blocks(P[p]))

Switched(M, P, old, new) ==
    /\ proc' = P /\ current' = new /\ data' = Contents(mem', data)
    /\ Sound(mem') /\ mem'.warned = M.warned /\ Total(mem') = Total(M)
    /\ phase' = phase \/ (phase' = "map" /\ Full(mem'))
    /\ phase' # "map" => /\ new # NULL => AllMapped(mem', Blocks(P[new]))
                         /\ \A x \in User : Framed(mem', x) =>
                               \/ x \in Places(P, new)
                               \/ Framed(M, x) /\ x \notin Places(P, old)
    /\ stale' = (stale \cup (IF old = NULL /\ current # NULL THEN Mapped(proc[current]) ELSE {}))
                   \ (Places(P, old) \cup Places(P, new))

LEMMA Switches ==
    ASSUME NEW M, Sound(M), NEW P, \A p \in Procs : Slot(P[p]),
           NEW old \in Procs \cup {NULL}, NEW new \in Procs \cup {NULL},
           old # NULL => AllMapped(M, Blocks(P[old])), phase # "map", proc_switch(M, P, old, new)
    PROVE  Switched(M, P, old, new)
  <1> DEFINE still == [M |-> M, ok |-> TRUE]
             out == IF old = NULL THEN still ELSE process_memory_switch(M, P[old], FALSE)
             in == IF new = NULL THEN out ELSE process_memory_switch(out.M, P[new], TRUE)
  <1>1. NULL \notin Procs BY ProcMemAssumption
  <1>2. \A p \in Procs : BlocksOK(Blocks(P[p])) /\ Distinct(Blocks(P[p])) BY DEF Slot
  <1>3. /\ Keeps(M, out.M, Places(P, old)) /\ out.ok = TRUE
        /\ \A x \in Places(P, old) : ~Framed(out.M, x)
    <2>1. CASE old = NULL
      <3>1. out = still /\ Places(P, old) = {} BY <2>1 DEF Places
      <3>2. still.M = M /\ still.ok = TRUE OBVIOUS
      <3> HIDE DEF out, still
      <3>3. Keeps(M, M, {}) BY KeepsItself
      <3>4. QED BY <3>1, <3>2, <3>3
    <2>2. CASE old # NULL
      <3> DEFINE pr == P[old]
                 bs == Blocks(pr)
      <3>1. out = process_memory_switch(M, pr, FALSE) /\ Places(P, old) = PlacesIn(bs)
        BY <2>2 DEF Places
      <3>2. BlocksOK(bs) /\ Distinct(bs) /\ AllMapped(M, bs) BY <1>2, <2>2
      <3> HIDE DEF out, pr
      <3>3. SwitchedOut(out, M, bs) BY <3>1, <3>2, SwitchesOut
      <3> HIDE DEF bs
      <3>4. QED BY <3>1, <3>2, <3>3 DEF SwitchedOut, AllGone
    <2>3. QED BY <2>1, <2>2
  <1>4. in.ok \in BOOLEAN /\ (new = NULL => in = out)
        /\ Keeps(out.M, in.M, Places(P, new)) /\ (~in.ok => Full(in.M))
        /\ (in.ok /\ new # NULL => AllMapped(in.M, Blocks(P[new])))
    <2>0. Sound(out.M) BY <1>3 DEF Keeps
    <2> HIDE DEF out
    <2>1. CASE new = NULL
      <3>1. in = out /\ Places(P, new) = {} BY <2>1 DEF Places
      <3> HIDE DEF in
      <3>2. Keeps(out.M, out.M, {}) BY <2>0, KeepsItself
      <3>3. QED BY <1>3, <2>1, <3>1, <3>2
    <2>2. CASE new # NULL
      <3> DEFINE pr == P[new]
                 bs == Blocks(pr)
                 K == out.M
      <3>1. in = process_memory_switch(K, pr, TRUE) /\ Places(P, new) = PlacesIn(bs)
        BY <2>2 DEF Places
      <3>2. BlocksOK(bs) /\ Distinct(bs) BY <1>2, <2>2
      <3>3. Sound(K) BY <2>0
      <3> HIDE DEF in, pr, K
      <3>4. SwitchedIn(in, K, bs) BY <3>1, <3>2, <3>3, SwitchesIn
      <3>5. Keeps(K, in.M, PlacesIn(bs)) /\ in.ok \in BOOLEAN /\ (in.ok => AllMapped(in.M, bs))
            /\ (~in.ok => Full(in.M))
        BY <3>2, <3>4 DEF SwitchedIn
      <3>6. QED BY <2>2, <3>1, <3>5 DEF K, pr
    <2>3. QED BY <2>1, <2>2
  <1>5. /\ proc' = P /\ current' = new /\ mem' = in.M /\ data' = Contents(in.M, data)
        /\ phase' = CASE ~out.ok -> "unmap" [] out.ok /\ ~in.ok -> "map" [] OTHER -> phase
        /\ stale' = (stale \cup (IF old = NULL /\ current # NULL THEN Mapped(proc[current]) ELSE {}))
                      \ UNION {Mapped(P[p]) : p \in {old, new} \ {NULL}}
    BY DEF proc_switch
  <1> HIDE DEF out, in
  <1>6. phase' = IF in.ok THEN phase ELSE "map" BY <1>3, <1>4, <1>5
  <1>7. Sound(in.M) /\ in.M.warned = M.warned /\ Total(in.M) = Total(M)
    BY <1>3, <1>4 DEF Keeps, Total
  <1>8. ASSUME NEW x \in User, Framed(in.M, x)
        PROVE  x \in Places(P, new) \/ (Framed(M, x) /\ x \notin Places(P, old))
    <2> SUFFICES ASSUME x \notin Places(P, new)
                 PROVE  Framed(M, x) /\ x \notin Places(P, old)
      OBVIOUS
    <2>1. x \in VPages BY Pages
    <2>2. Framed(out.M, x) BY <1>4, <1>8, <2>1 DEF Keeps
    <2>3. x \notin Places(P, old) BY <1>3, <2>2
    <2>4. QED BY <1>3, <2>1, <2>2, <2>3 DEF Keeps
  <1>9. UNION {Mapped(P[p]) : p \in {old, new} \ {NULL}} = Places(P, old) \cup Places(P, new)
    <2>1. \A p \in Procs : Mapped(P[p]) = Places(P, p)
      <3> SUFFICES ASSUME NEW p \in Procs PROVE Mapped(P[p]) = Places(P, p) OBVIOUS
      <3>1. Blocks(P[p]) \in Seq(Block) BY <1>2 DEF BlocksOK
      <3>2. QED BY <1>1, <3>1, MappedIs DEF Places
    <2>2. Places(P, NULL) = {} BY DEF Places
    <2>3. \A p \in {old, new} \ {NULL} : Mapped(P[p]) = Places(P, p) BY <2>1
    <2>4. UNION {Mapped(P[p]) : p \in {old, new} \ {NULL}}
            = UNION {Places(P, p) : p \in {old, new} \ {NULL}}
      BY <2>3
    <2>5. UNION {Places(P, p) : p \in {old, new} \ {NULL}} = Places(P, old) \cup Places(P, new)
      BY <2>2
    <2>6. QED BY <2>4, <2>5
  <1>10. phase' # "map" /\ new # NULL => AllMapped(mem', Blocks(P[new])) BY <1>4, <1>5, <1>6
  <1>11. phase' = phase \/ (phase' = "map" /\ Full(mem')) BY <1>4, <1>5, <1>6
  <1>12. QED BY <1>5, <1>7, <1>8, <1>9, <1>10, <1>11 DEF Switched

-----------------------------------------------------------------------------
(* The steps *)

LEMMA InvInit == Init => MemInv
  <1> SUFFICES ASSUME Init PROVE MemInv OBVIOUS
  <1> DEFINE dir == [d \in Tables |-> NULL]
             pte == [v \in VPages |-> NULL]
             M == [mm |-> Frames, dir |-> dir, pte |-> pte, warned |-> FALSE]
  <1>1. /\ mem = M /\ data = [f \in Frames |-> 0] /\ proc = [p \in Procs |-> NoProc]
        /\ current = NULL /\ phase = "boot" /\ tried = {} /\ lost = {} /\ stale = {}
    BY DEF Init
  <1>2. dir \in [Tables -> Frames \cup {NULL}] /\ pte \in [VPages -> Frames \cup {NULL, JUNK}]
    OBVIOUS
  <1>3. \A d \in Tables : dir[d] = NULL OBVIOUS
  <1> HIDE DEF dir, pte
  <1>4. /\ M = [mm |-> M.mm, dir |-> M.dir, pte |-> M.pte, warned |-> M.warned]
        /\ M.mm = Frames /\ M.dir = dir /\ M.pte = pte /\ M.warned = FALSE
    OBVIOUS
  <1> HIDE DEF M
  <1>5. Sound(M) BY <1>2, <1>3, <1>4 DEF Sound, MemType, TablesApart
  <1>6. TablesOf(M) = {} BY <1>3, <1>4 DEF TablesOf
  <1>7. Total(M) = Frames BY <1>4, <1>6 DEF Total
  <1>8. \A p \in Procs : proc[p] = NoProc BY <1>1
  <1>9. \A p \in Procs : Held(proc, p) = {} BY <1>8, EmptySlot DEF Held
  <1>10. Accounts(proc, Total(M), {})
    <2>1. UNION {Held(proc, p) : p \in Procs} = {} BY <1>9
    <2>2. QED BY <1>7, <1>9, <2>1 DEF Accounts
  <1>11. PagesHeld BY <1>1, <1>4, <1>5, <1>10 DEF PagesHeld
  <1>12. Typed BY <1>1, <1>8, EmptySlot DEF Typed, Data
  <1>13. Running BY <1>1, <1>8 DEF Running
  <1>14. Left
    <2>1. \A v \in User : ~Framed(mem, v)
      <3> SUFFICES ASSUME NEW v \in User PROVE ~Framed(mem, v) OBVIOUS
      <3>1. Table(v) \in Tables BY Pages DEF Tables
      <3>2. QED BY <1>1, <1>3, <1>4, <3>1 DEF Framed
    <2>2. QED BY <2>1 DEF Left
  <1>15. QED BY <1>11, <1>12, <1>13, <1>14 DEF MemInv

LEMMA StartStep ==
    ASSUME MemInv, Start
    PROVE  MemInv'
  <1>1. phase = "boot" /\ phase' = "run" /\ UNCHANGED <<mem, data, proc, current, lost, stale>>
    BY DEF Start
  <1>2. current = NULL BY <1>1 DEF MemInv, Running
  <1>3. Typed' BY <1>1 DEF MemInv, Typed
  <1>4. PagesHeld' BY <1>1 DEF MemInv, PagesHeld
  <1>5. Running' BY <1>1, <1>2 DEF Running
  <1>6. Left' BY <1>1 DEF MemInv, Left
  <1>7. QED BY <1>3, <1>4, <1>5, <1>6 DEF MemInv

LEMMA StoreStep ==
    ASSUME MemInv, NEW v \in User, store(v)
    PROVE  MemInv'
  <1>1. /\ page_get_phys(mem, v) \in Frames /\ data' = [data EXCEPT ![mem.pte[v]] = 1]
        /\ UNCHANGED <<mem, proc, current, phase, tried, lost, stale>>
    BY DEF store
  <1>2. data' \in [Frames -> Data] BY <1>1 DEF MemInv, Typed, Data
  <1>3. Typed' BY <1>1, <1>2 DEF MemInv, Typed
  <1>4. PagesHeld' BY <1>1 DEF MemInv, PagesHeld
  <1>5. Running' BY <1>1 DEF MemInv, Running
  <1>6. Left' BY <1>1 DEF MemInv, Left
  <1>7. QED BY <1>3, <1>4, <1>5, <1>6 DEF MemInv

LEMMA ReapStep ==
    ASSUME MemInv, NEW p \in Procs, reap(p)
    PROVE  MemInv'
  <1>1. /\ phase = "run" /\ current \in Live /\ proc[p].state = "zombie"
        /\ proc' = [proc EXCEPT ![p] = NoProc]
        /\ UNCHANGED <<mem, data, current, phase, tried, lost, stale>>
    BY DEF reap, Runs
  <1>2. proc = [q \in Procs |-> proc[q]] /\ \A q \in Procs : Slot(proc[q]) BY DEF MemInv, Typed
  <1>3. proc'[p] = NoProc /\ \A q \in Procs \ {p} : proc'[q] = proc[q] BY <1>1, <1>2
  <1>4. proc' = [q \in Procs |-> proc'[q]] BY <1>1, <1>2
  <1>5. \A q \in Procs : Slot(proc'[q]) BY <1>2, <1>3, EmptySlot
  <1>6. current # p /\ current \in Procs BY <1>1 DEF Live
  <1>7. \A q \in Procs : Held(proc', q) = Held(proc, q) BY <1>1, <1>3, EmptySlot DEF Held
  <1>8. Accounts(proc', Total(mem), lost)
    <2>1. Accounts(proc, Total(mem), lost) BY DEF MemInv, PagesHeld
    <2>2. QED BY <1>7, <2>1 DEF Accounts
  <1>9. Typed' BY <1>1, <1>4, <1>5 DEF MemInv, Typed
  <1>10. PagesHeld' BY <1>1, <1>8 DEF MemInv, PagesHeld
  <1>11. proc'[current] = proc[current] BY <1>3, <1>6
  <1>12. Running' BY <1>1, <1>11 DEF MemInv, Running
  <1>13. Left' BY <1>1, <1>11 DEF MemInv, Left
  <1>14. QED BY <1>9, <1>10, <1>12, <1>13 DEF MemInv

\* A switch to new, of the processes P with the memory M.
LEMMA SwitchStep ==
    ASSUME MemInv, phase = "run", UNCHANGED <<tried, lost>>,
           NEW M, Sound(M), ~M.warned, NEW P, P = [p \in Procs |-> P[p]], \A p \in Procs : Slot(P[p]),
           Accounts(P, Total(M), lost),
           NEW old \in {current, NULL}, NEW new \in Procs \cup {NULL},
           old # NULL => AllMapped(M, Blocks(P[old])) /\ P = proc,
           \A x \in User : Framed(M, x) => Framed(mem, x),
           proc_switch(M, P, old, new)
    PROVE  MemInv'
  <1>1. /\ data \in [Frames -> Data] /\ stale \subseteq User /\ current \in Procs \cup {NULL}
        /\ lost \subseteq Frames /\ \A p \in Procs : Slot(proc[p])
    BY DEF MemInv, Typed
  <1>2. old \in Procs \cup {NULL} BY <1>1
  <1>3. Switched(M, P, old, new) BY <1>2, Switches
  <1>4. /\ proc' = P /\ current' = new /\ data' = Contents(mem', data)
        /\ Sound(mem') /\ mem'.warned = M.warned /\ Total(mem') = Total(M)
        /\ phase' = phase \/ (phase' = "map" /\ Full(mem'))
    BY <1>3 DEF Switched
  <1>5. stale' = (stale \cup (IF old = NULL /\ current # NULL THEN Mapped(proc[current]) ELSE {}))
                   \ (Places(P, old) \cup Places(P, new))
    BY <1>3 DEF Switched
  <1>6. phase' # "map" => /\ new # NULL => AllMapped(mem', Blocks(P[new]))
                          /\ \A x \in User : Framed(mem', x) =>
                                \/ x \in Places(P, new)
                                \/ Framed(M, x) /\ x \notin Places(P, old)
    BY <1>3 DEF Switched
  <1>7. data' \in [Frames -> Data] BY <1>1, <1>4, ContentsIs
  <1>8. current # NULL => /\ Mapped(proc[current]) = PlacesIn(Blocks(proc[current]))
                          /\ PlacesIn(Blocks(proc[current])) \subseteq User
    <2> SUFFICES ASSUME current # NULL
                 PROVE  /\ Mapped(proc[current]) = PlacesIn(Blocks(proc[current]))
                        /\ PlacesIn(Blocks(proc[current])) \subseteq User
      OBVIOUS
    <2>1. BlocksOK(Blocks(proc[current])) BY <1>1 DEF Slot
    <2>2. Blocks(proc[current]) \in Seq(Block) BY <2>1 DEF BlocksOK
    <2>3. QED BY <2>1, <2>2, MappedIs, PlacesOK
  <1>9. stale' \subseteq User BY <1>1, <1>5, <1>8
  <1>10. Typed' BY <1>1, <1>4, <1>7, <1>9 DEF Typed
  <1>11. PagesHeld' BY <1>4 DEF PagesHeld
  <1>12. Running' BY <1>4, <1>6 DEF Running
  <1>13. Left'
    <2> SUFFICES ASSUME phase' # "map", NEW x \in User, Framed(mem', x), x \notin Places(P, new)
                 PROVE  x \in stale'
      <3>1. new # NULL => Places(P, new) = PlacesIn(Blocks(proc'[current'])) BY <1>4 DEF Places
      <3>2. new = NULL => Places(P, new) = {} BY DEF Places
      <3>3. QED BY <1>4, <3>1, <3>2 DEF Left
    <2>1. Framed(mem, x) /\ x \notin Places(P, old) BY <1>6
    <2>2. x \in stale \/ (current # NULL /\ x \in PlacesIn(Blocks(proc[current])))
      BY <2>1 DEF MemInv, Left
    <2>3. CASE x \in stale BY <1>5, <2>1, <2>3
    <2>4. CASE current # NULL /\ x \in PlacesIn(Blocks(proc[current]))
      <3>1. CASE old = NULL BY <1>5, <1>8, <2>1, <2>4, <3>1
      <3>2. CASE old # NULL BY <2>1, <2>4, <3>2 DEF Places
      <3>3. QED BY <3>1, <3>2
    <2>5. QED BY <2>2, <2>3, <2>4
  <1>14. QED BY <1>10, <1>11, <1>12, <1>13 DEF MemInv

LEMMA SwitchProcessStep ==
    ASSUME MemInv, switch_process
    PROVE  MemInv'
  <1>1. phase = "run" /\ UNCHANGED <<tried, lost>> BY DEF switch_process
  <1>2. PICK new \in Schedulable(proc) : proc_switch(mem, proc, current, new) BY DEF switch_process
  <1>3. new \in Procs \cup {NULL} BY DEF Schedulable
  <1>4. current # NULL => AllMapped(mem, Blocks(proc[current])) BY <1>1 DEF MemInv, Running
  <1>5. /\ Sound(mem) /\ ~mem.warned /\ proc = [p \in Procs |-> proc[p]] /\ (\A p \in Procs : Slot(proc[p]))
        /\ Accounts(proc, Total(mem), lost)
    BY DEF MemInv, Typed, PagesHeld
  <1>6. QED BY <1>1, <1>2, <1>3, <1>4, <1>5, SwitchStep

\* The code of a process is the last of its blocks.
LEMMA LastBlock ==
    ASSUME NEW pr, Slot(pr)
    PROVE  BlockOK(pr.mm_code) /\ BlocksOK(<<pr.mm_code>>) /\ Distinct(<<pr.mm_code>>)
  <1> DEFINE c == pr.mm_code
             o == <<c>>
             t == pr.mm_stack \o o
  <1>1. pr.mm_heap \in Seq(Block) /\ pr.mm_stack \in Seq(Block) /\ c \in Block /\ BlocksOK(Blocks(pr))
    BY DEF Slot
  <1>2. Blocks(pr) = pr.mm_heap \o t /\ t \in Seq(Block) /\ Blocks(pr) \in Seq(Block) BY <1>1, BlocksIs
  <1>3. o \in Seq(Block) /\ Distinct(o) BY <1>1, OneBlock
  <1>4. Each(Blocks(pr), Good) BY <1>1, <1>2, EachIs
  <1> HIDE DEF t
  <1>5. Each(t, Good) BY <1>1, <1>2, <1>4, EachOf
  <1> HIDE DEF o
  <1>6. Each(o, Good) BY <1>1, <1>3, <1>5, EachOf DEF t
  <1>7. BlocksOK(o) BY <1>3, <1>6, EachIs
  <1>8. c \in Good BY <1>1, <1>6, EachOne DEF o
  <1>9. QED BY <1>3, <1>7, <1>8 DEF Good, o

\* Three fields of a process are set.
LEMMA Renewed ==
    ASSUME NEW pr,
           pr = [state |-> pr.state, mm_heap |-> pr.mm_heap, mm_stack |-> pr.mm_stack, mm_code |-> pr.mm_code]
    PROVE  \A x, y, z : [pr EXCEPT !.state = x, !.mm_heap = y, !.mm_stack = z]
                          = [state |-> x, mm_heap |-> y, mm_stack |-> z, mm_code |-> pr.mm_code]
  <1> DEFINE a == pr.state
             b == pr.mm_heap
             c == pr.mm_stack
             d == pr.mm_code
  <1>1. pr = [state |-> a, mm_heap |-> b, mm_stack |-> c, mm_code |-> d] OBVIOUS
  <1> HIDE DEF a, b, c, d
  <1>2. ASSUME NEW x, NEW y, NEW z
        PROVE  [pr EXCEPT !.state = x, !.mm_heap = y, !.mm_stack = z]
                 = [state |-> x, mm_heap |-> y, mm_stack |-> z, mm_code |-> d]
    <2> DEFINE U == [pr EXCEPT !.state = x]
               V == [U EXCEPT !.mm_heap = y]
    <2>1. U = [state |-> x, mm_heap |-> b, mm_stack |-> c, mm_code |-> d] BY <1>1
    <2> HIDE DEF U
    <2>2. V = [state |-> x, mm_heap |-> y, mm_stack |-> c, mm_code |-> d] BY <2>1
    <2> HIDE DEF V
    <2>3. [V EXCEPT !.mm_stack = z] = [state |-> x, mm_heap |-> y, mm_stack |-> z, mm_code |-> d] BY <2>2
    <2>4. [pr EXCEPT !.state = x, !.mm_heap = y, !.mm_stack = z] = [V EXCEPT !.mm_stack = z] BY DEF U, V
    <2>5. QED BY <2>3, <2>4
  <1>3. QED BY <1>2 DEF d

LEMMA EndedSlot ==
    ASSUME Typed, NEW p \in Procs, NEW zombie \in BOOLEAN
    PROVE  /\ Ended(p, zombie) = [q \in Procs |-> Ended(p, zombie)[q]]
           /\ \A q \in Procs \ {p} : Ended(p, zombie)[q] = proc[q]
           /\ Slot(Ended(p, zombie)[p]) /\ Ended(p, zombie)[p].state # "live"
  <1> DEFINE P == Ended(p, zombie)
             old == proc[p]
             dead == [old EXCEPT !.state = "zombie", !.mm_heap = <<>>, !.mm_stack = <<>>]
             e == IF zombie THEN dead ELSE NoProc
  <1>1. proc = [q \in Procs |-> proc[q]] /\ Slot(old) BY DEF Typed
  <1>2. P = [proc EXCEPT ![p] = e] BY DEF Ended
  <1> HIDE DEF e
  <1>3. P = [q \in Procs |-> P[q]] /\ P[p] = e /\ \A q \in Procs \ {p} : P[q] = proc[q] BY <1>1, <1>2
  <1>4. Slot(e) /\ e.state # "live"
    <2>1. CASE ~zombie BY <2>1, EmptySlot DEF e
    <2>2. CASE zombie
      <3> DEFINE c == old.mm_code
      <3>1. dead = [state |-> "zombie", mm_heap |-> <<>>, mm_stack |-> <<>>, mm_code |-> c]
        BY <1>1, Renewed, ZenonT(60) DEF Slot
      <3> HIDE DEF dead, c
      <3>2. dead.state = "zombie" /\ dead.mm_heap = <<>> /\ dead.mm_stack = <<>> /\ dead.mm_code = c
        BY <3>1
      <3>3. c \in Block /\ BlocksOK(<<c>>) /\ Distinct(<<c>>) BY <1>1, LastBlock DEF c, Slot
      <3>4. Blocks(dead) = <<c>>
        <4>1. Blocks(dead) = (<<>> \o <<>>) \o <<c>> BY <3>2 DEF Blocks
        <4> DEFINE o == <<c>>
        <4>2. o \in Seq(Block) BY <3>3
        <4> HIDE DEF o
        <4>3. <<>> \o <<>> = <<>> OBVIOUS
        <4>4. <<>> \o o = o BY <4>2, ConcatEmptySeq
        <4>5. QED BY <4>1, <4>3, <4>4 DEF o
      <3>5. <<>> \in Seq(Block) OBVIOUS
      <3>6. Slot(dead) BY <3>1, <3>2, <3>3, <3>4, <3>5 DEF Slot
      <3>7. QED BY <2>2, <3>2, <3>6 DEF e
    <2>3. QED BY <2>1, <2>2
  <1>5. QED BY <1>3, <1>4

LEMMA DieStep ==
    ASSUME MemInv, NEW p \in Procs, process_die(p)
    PROVE  MemInv'
  <1>1. /\ phase = "run" /\ current \in Live /\ p \in Live /\ UNCHANGED <<tried, lost>>
    BY DEF process_die, Call, Runs
  <1> DEFINE M == process_free_all_memory(mem, proc[p])
             bs == Blocks(proc[p])
  <1>2. PICK zombie \in BOOLEAN :
          \/ /\ p # current
             /\ proc' = Ended(p, zombie) /\ mem' = M
             /\ UNCHANGED <<data, current, phase, stale>>
          \/ /\ p = current
             /\ \E new \in Schedulable(Ended(p, zombie)) \ {p} : proc_switch(M, Ended(p, zombie), NULL, new)
    BY DEF process_die
  <1> DEFINE P == Ended(p, zombie)
  <1>3. Typed /\ Sound(mem) /\ ~mem.warned /\ Accounts(proc, Total(mem), lost)
    BY DEF MemInv, PagesHeld
  <1>4. P = [q \in Procs |-> P[q]] /\ (\A q \in Procs \ {p} : P[q] = proc[q])
        /\ Slot(P[p]) /\ P[p].state # "live"
    BY <1>3, EndedSlot
  <1> HIDE DEF P
  <1>5. proc[p].state = "live" /\ Slot(proc[p]) BY <1>1, <1>3 DEF Live, Typed
  <1>6. Held(proc, p) = PagesIn(bs) /\ Held(P, p) = {} BY <1>4, <1>5 DEF Held
  <1>7. Freeable(mem, bs) BY <1>3, <1>5, <1>6 DEF Freeable, Slot, Accounts
  <1>8. Gave(mem, M, PagesIn(bs)) BY <1>3, <1>7, Frees
  <1> HIDE DEF M, bs
  <1>9. Sound(M) /\ ~M.warned /\ M.dir = mem.dir /\ M.pte = mem.pte /\ Total(M) = Total(mem) \cup PagesIn(bs)
    BY <1>3, <1>8 DEF Gave
  <1>10. Accounts(P, Total(M), lost)
    <2>1. \A q \in Procs \ {p} : Held(P, q) = Held(proc, q) BY <1>4 DEF Held
    <2>2. Total(M) \cap lost = {} BY <1>3, <1>6, <1>9 DEF Accounts
    <2>3. Held(P, p) \cup Total(M) \cup lost = Held(proc, p) \cup Total(mem) \cup lost BY <1>6, <1>9
    <2>4. QED BY <1>3, <1>6, <2>1, <2>2, <2>3, Regroup
  <1>11. \A q \in Procs : Slot(P[q]) BY <1>3, <1>4 DEF Typed
  <1>12. \A x \in User : Framed(M, x) => Framed(mem, x) BY <1>9 DEF Framed
  <1>13. CASE p = current
    <2>1. PICK new \in Schedulable(P) \ {p} : proc_switch(M, P, NULL, new) BY <1>2, <1>13 DEF P
    <2>2. new \in Procs \cup {NULL} BY DEF Schedulable
    <2> DEFINE old == NULL
    <2>3. old \in {current, NULL} /\ proc_switch(M, P, old, new) BY <2>1
    <2>4. old # NULL => AllMapped(M, Blocks(P[old])) /\ P = proc OBVIOUS
    <2> HIDE DEF old
    <2>5. QED BY <1>1, <1>4, <1>9, <1>10, <1>11, <1>12, <2>2, <2>3, <2>4, SwitchStep
  <1>14. CASE p # current
    <2>1. proc' = P /\ mem' = M /\ UNCHANGED <<data, current, phase, stale>> BY <1>2, <1>14 DEF P
    <2>2. current \in Procs /\ P[current] = proc[current] BY <1>1, <1>4, <1>14 DEF Live
    <2>3. Typed' BY <1>1, <1>3, <1>4, <1>11, <2>1 DEF Typed
    <2>4. PagesHeld' BY <1>1, <1>9, <1>10, <2>1 DEF PagesHeld
    <2>5. AllMapped(M, Blocks(P[current]))
      <3>1. current # NULL BY <2>2, ProcMemAssumption
      <3>2. AllMapped(mem, Blocks(proc[current])) BY <1>1, <3>1 DEF MemInv, Running
      <3>3. QED BY <1>9, <2>2, <3>2 DEF AllMapped, BlockMapped, MappedTo
    <2>6. Running' BY <1>1, <2>1, <2>5 DEF Running
    <2>7. Left' BY <1>12, <2>1, <2>2 DEF MemInv, Left
    <2>8. QED BY <2>3, <2>4, <2>6, <2>7 DEF MemInv
  <1>15. QED BY <1>13, <1>14

-----------------------------------------------------------------------------
(* Steps that change the heap of the process that runs *)

Rest(pr) == pr.mm_stack \o <<pr.mm_code>>

\* A live process whose blocks are bs.
Fine(bs) == BlocksOK(bs) /\ Distinct(bs) /\ Each(bs, NotEmpty)

LEMMA HeapSet ==
    ASSUME NEW pr, Slot(pr), pr.state = "live", NEW h \in Seq(Block), Fine(h \o Rest(pr)),
           NEW q, q = [pr EXCEPT !.mm_heap = h]
    PROVE  Slot(q) /\ q.state = "live" /\ Blocks(q) = h \o Rest(pr)
  <1> DEFINE a == pr.state
             b == pr.mm_heap
             c == pr.mm_stack
             d == pr.mm_code
  <1>1. pr = [state |-> a, mm_heap |-> b, mm_stack |-> c, mm_code |-> d] BY DEF Slot
  <1>2. a = "live" /\ c \in Seq(Block) /\ d \in Block BY DEF Slot
  <1>3. Rest(pr) = c \o <<d>> BY DEF Rest
  <1> HIDE DEF a, b, c, d
  <1>4. q = [state |-> a, mm_heap |-> h, mm_stack |-> c, mm_code |-> d] BY <1>1
  <1>5. q.state = a /\ q.mm_heap = h /\ q.mm_stack = c /\ q.mm_code = d BY <1>4
  <1>6. q = [state |-> q.state, mm_heap |-> q.mm_heap, mm_stack |-> q.mm_stack, mm_code |-> q.mm_code]
    BY <1>4, <1>5
  <1>7. Blocks(q) = h \o Rest(pr) /\ Blocks(q) \in Seq(Block) BY <1>2, <1>3, <1>5, BlocksIs
  <1> DEFINE bs == Blocks(q)
  <1>8. Fine(bs) BY <1>7
  <1> HIDE DEF bs
  <1>9. \A j \in 1..Len(bs) : bs[j].n > 0 BY <1>7, <1>8, EachIs DEF Fine, bs
  <1>10. Slot(q) BY <1>2, <1>5, <1>6, <1>8, <1>9 DEF Slot, Fine, bs
  <1>11. QED BY <1>2, <1>5, <1>7, <1>10

\* What a live process is made of.
LEMMA HeapIs ==
    ASSUME NEW pr, Slot(pr), pr.state = "live"
    PROVE  /\ pr.mm_heap \in Seq(Block) /\ Rest(pr) \in Seq(Block) /\ Blocks(pr) \in Seq(Block)
           /\ Blocks(pr) = pr.mm_heap \o Rest(pr) /\ Fine(Blocks(pr))
  <1>1. pr.mm_heap \in Seq(Block) /\ pr.mm_stack \in Seq(Block) /\ pr.mm_code \in Block
        /\ BlocksOK(Blocks(pr)) /\ Distinct(Blocks(pr))
    BY DEF Slot
  <1>2. Blocks(pr) = pr.mm_heap \o Rest(pr) /\ Rest(pr) \in Seq(Block) /\ Blocks(pr) \in Seq(Block)
    BY <1>1, BlocksIs DEF Rest
  <1> DEFINE bs == Blocks(pr)
  <1>3. \A j \in 1..Len(bs) : bs[j].n > 0 BY DEF Slot
  <1> HIDE DEF bs
  <1>4. Each(bs, NotEmpty) BY <1>2, <1>3, EachIs DEF bs
  <1>5. QED BY <1>1, <1>2, <1>4 DEF Fine, bs

LEMMA FineOf ==
    ASSUME NEW s \in Seq(Block), NEW t \in Seq(Block)
    PROVE  Fine(s \o t) <=> Fine(s) /\ Fine(t) /\ Beside(s, t)
  <1>1. s \o t \in Seq(Block) /\ (Distinct(s \o t) <=> Distinct(s) /\ Distinct(t) /\ Beside(s, t))
    BY Concats
  <1>2. \A E : Each(s \o t, E) <=> Each(s, E) /\ Each(t, E) BY EachOf
  <1> DEFINE u == s \o t
  <1> HIDE DEF u
  <1>3. BlocksOK(u) <=> BlocksOK(s) /\ BlocksOK(t)
    <2>1. BlocksOK(u) <=> Each(u, Good) BY <1>1, EachIs DEF u
    <2>2. BlocksOK(s) <=> Each(s, Good) BY EachIs
    <2>3. BlocksOK(t) <=> Each(t, Good) BY EachIs
    <2>4. Each(u, Good) <=> Each(s, Good) /\ Each(t, Good) BY <1>2 DEF u
    <2>5. QED BY <2>1, <2>2, <2>3, <2>4
  <1>4. Each(u, NotEmpty) <=> Each(s, NotEmpty) /\ Each(t, NotEmpty) BY <1>2 DEF u
  <1>5. QED BY <1>1, <1>3, <1>4 DEF Fine, u

LEMMA AllMappedOf ==
    ASSUME NEW M, NEW s \in Seq(Block), NEW t \in Seq(Block)
    PROVE  AllMapped(M, s \o t) <=> AllMapped(M, s) /\ AllMapped(M, t)
  <1> DEFINE u == s \o t
             E == MappedIn(M)
  <1>1. u \in Seq(Block) BY Concats
  <1> HIDE DEF E
  <1>2. Each(u, E) <=> Each(s, E) /\ Each(t, E) BY EachOf
  <1> HIDE DEF u
  <1>3. AllMapped(M, u) <=> Each(u, E) BY <1>1, EachIs DEF E
  <1>4. AllMapped(M, s) <=> Each(s, E) BY EachIs DEF E
  <1>5. AllMapped(M, t) <=> Each(t, E) BY EachIs DEF E
  <1>6. QED BY <1>2, <1>3, <1>4, <1>5 DEF u

\* The process that runs has become pr; its pages have come from the bitmap or gone there.
LEMMA OwnStep ==
    ASSUME MemInv, phase = "run", current \in Live, UNCHANGED <<current, phase, tried, lost>>,
           NEW pr, Slot(pr), pr.state = "live", proc' = [proc EXCEPT ![current] = pr],
           Sound(mem'), mem'.warned = mem.warned,
           NEW D \in [Frames -> Data], data' = Contents(mem', D), stale' \subseteq User,
           PagesIn(Blocks(pr)) \cap Total(mem') = {},
           PagesIn(Blocks(pr)) \cup Total(mem') = PagesIn(Blocks(proc[current])) \cup Total(mem),
           AllMapped(mem', Blocks(pr)),
           \A x \in User : Framed(mem', x) => x \in stale' \/ x \in PlacesIn(Blocks(pr))
    PROVE  MemInv'
  <1>1. /\ proc = [q \in Procs |-> proc[q]] /\ (\A q \in Procs : Slot(proc[q])) /\ lost \subseteq Frames
        /\ ~mem.warned /\ Accounts(proc, Total(mem), lost)
    BY DEF MemInv, Typed, PagesHeld
  <1>2. current \in Procs /\ proc[current].state = "live" BY DEF Live
  <1>3. proc' = [q \in Procs |-> proc'[q]] /\ proc'[current] = pr
        /\ \A q \in Procs \ {current} : proc'[q] = proc[q]
    BY <1>1, <1>2
  <1>4. \A q \in Procs : Slot(proc'[q]) BY <1>1, <1>3
  <1>5. data' \in [Frames -> Data] BY ContentsIs
  <1>6. Typed' BY <1>1, <1>2, <1>3, <1>4, <1>5 DEF Typed
  <1> DEFINE P == proc'
             h == Held(proc, current)
             k == Held(P, current)
  <1>7. k = PagesIn(Blocks(pr)) /\ h = PagesIn(Blocks(proc[current])) BY <1>2, <1>3 DEF Held
  <1>8. \A q \in Procs \ {current} : Held(P, q) = Held(proc, q) BY <1>3 DEF Held
  <1>9. h \cap lost = {} /\ Total(mem) \cap lost = {} BY <1>1, <1>2 DEF Accounts
  <1> HIDE DEF P, h, k
  <1>10. k \cap Total(mem') = {} /\ k \cup Total(mem') = h \cup Total(mem) BY <1>7
  <1>11. k \cap lost = {} /\ Total(mem') \cap lost = {} BY <1>9, <1>10
  <1>12. k \cup Total(mem') \cup lost = h \cup Total(mem) \cup lost BY <1>10
  <1>13. Accounts(P, Total(mem'), lost) BY <1>1, <1>2, <1>8, <1>10, <1>11, <1>12, Regroup DEF h, k
  <1>14. PagesHeld' BY <1>1, <1>13 DEF PagesHeld, P
  <1>15. Running' BY <1>3 DEF Running
  <1>16. current' # NULL BY <1>2, ProcMemAssumption
  <1>17. Left' BY <1>3, <1>16 DEF Left
  <1>18. QED BY <1>6, <1>14, <1>15, <1>17 DEF MemInv

\* munmap of a whole block: the block goes, and nothing takes its place.
LEMMA WholeBlock ==
    ASSUME NEW b \in Block, b.n > 0, NEW part, part = munmap_parts(b, b.v, b.n)
    PROVE  part.v = b.v /\ part.p = b.p /\ part.n = b.n /\ part.rest = <<>>
  <1>1. b.v \in Nat /\ b.p \in Nat /\ b.n \in Nat BY FrameFacts DEF Block
  <1>2. b.v - b.v = 0 /\ b.n - 0 <= b.n /\ b.n - 0 = b.n /\ b.n - b.n - 0 = 0 BY <1>1
  <1>3. b.v + 0 = b.v /\ b.p + 0 = b.p BY <1>1
  <1>4. part = [v |-> b.v + 0, p |-> b.p + 0, n |-> b.n, rest |-> <<>> \o <<>>]
    BY <1>2 DEF munmap_parts
  <1>5. <<>> \o <<>> = <<>> OBVIOUS
  <1>6. QED BY <1>3, <1>4, <1>5

\* Without b, the heap of the live process pr is h and its blocks are bs.
Lost(pr, h, bs, b) ==
    /\ h \in Seq(Block) /\ bs \in Seq(Block) /\ Fine(bs) /\ BlockOK(b) /\ b.n > 0
    /\ PagesIn(Blocks(pr)) = PagesIn(bs) \cup PRange(b) /\ PagesIn(bs) \cap PRange(b) = {}
    /\ PlacesIn(Blocks(pr)) = PlacesIn(bs) \cup VRange(b) /\ PlacesIn(bs) \cap VRange(b) = {}
    /\ \A M : AllMapped(M, Blocks(pr)) => AllMapped(M, bs) /\ BlockMapped(M, b)

\* Taking the i-th block out of the heap.
LEMMA HeapLoses ==
    ASSUME NEW pr, Slot(pr), pr.state = "live", NEW i \in 1..Len(pr.mm_heap), NEW b, b = pr.mm_heap[i],
           NEW h, h = Before(pr.mm_heap, i) \o Behind(pr.mm_heap, i),
           NEW bs, bs = h \o Rest(pr)
    PROVE  Lost(pr, h, bs, b)
  <1> DEFINE g == pr.mm_heap
             a == Before(g, i)
             c == Behind(g, i)
             o == <<b>>
             r == Rest(pr)
             u == o \o c
  <1>1. g \in Seq(Block) /\ r \in Seq(Block) /\ Blocks(pr) = g \o r /\ Fine(Blocks(pr)) BY HeapIs
  <1>2. a \in Seq(Block) /\ c \in Seq(Block) /\ b \in Block /\ g = a \o u BY <1>1, Parts
  <1>3. LeavesOut(h, g, b) BY <1>1, TakesOut
  <1>4. o \in Seq(Block) BY <1>2, OneBlock
  <1> HIDE DEF g, a, c, r, o
  <1>5. u \in Seq(Block) /\ h \in Seq(Block) BY <1>2, <1>3, <1>4, Concats DEF LeavesOut
  <1>6. bs \in Seq(Block) /\ PagesIn(bs) = PagesIn(h) \cup PagesIn(r)
        /\ PlacesIn(bs) = PlacesIn(h) \cup PlacesIn(r)
    BY <1>1, <1>5, Concats DEF r
  <1>7. PagesIn(Blocks(pr)) = PagesIn(g) \cup PagesIn(r) /\ PlacesIn(Blocks(pr)) = PlacesIn(g) \cup PlacesIn(r)
    BY <1>1, Concats
  <1>8. Fine(g) /\ Fine(r) /\ Beside(g, r) BY <1>1, FineOf
  <1> HIDE DEF u
  <1>9. Fine(a) /\ Fine(u) /\ Beside(a, u) BY <1>2, <1>5, <1>8, FineOf
  <1>10. Fine(o) /\ Fine(c) BY <1>2, <1>4, <1>9, FineOf DEF u
  <1>11. h = a \o c BY DEF a, c, g
  <1>12. Distinct(h) /\ PagesIn(h) \cap PRange(b) = {} /\ PlacesIn(h) \cap VRange(b) = {}
         /\ PagesIn(g) = PagesIn(h) \cup PRange(b) /\ PlacesIn(g) = PlacesIn(h) \cup VRange(b)
    BY <1>3, <1>8 DEF LeavesOut, Fine
  <1>13. Fine(h)
    <2>1. Distinct(h) <=> Distinct(a) /\ Distinct(c) /\ Beside(a, c) BY <1>2, <1>11, Concats
    <2>2. Beside(a, c) BY <1>12, <2>1
    <2>3. QED BY <1>2, <1>9, <1>10, <1>11, <2>2, FineOf
  <1>14. Beside(h, r) BY <1>8, <1>12 DEF Beside
  <1>15. Fine(bs) BY <1>1, <1>5, <1>8, <1>13, <1>14, FineOf DEF r
  <1>16. BlockOK(b) /\ b.n > 0
    <2>1. BlocksOK(o) /\ Each(o, NotEmpty) BY <1>10 DEF Fine
    <2>2. Len(o) = 1 /\ o[1] = b BY DEF o
    <2>3. QED BY <2>1, <2>2 DEF BlocksOK, Each, NotEmpty
  <1>17. PagesIn(bs) \cap PRange(b) = {} /\ PlacesIn(bs) \cap VRange(b) = {}
    BY <1>6, <1>8, <1>12 DEF Beside
  <1>18. ASSUME NEW M, AllMapped(M, Blocks(pr)) PROVE AllMapped(M, bs) /\ BlockMapped(M, b)
    <2>1. AllMapped(M, g) /\ AllMapped(M, r) BY <1>1, <1>18, AllMappedOf
    <2>2. AllMapped(M, a) /\ AllMapped(M, u) BY <1>2, <1>5, <2>1, AllMappedOf
    <2>3. AllMapped(M, o) /\ AllMapped(M, c) BY <1>2, <1>4, <2>2, AllMappedOf DEF u
    <2>4. AllMapped(M, h) BY <1>2, <1>11, <2>2, <2>3, AllMappedOf
    <2>5. AllMapped(M, bs) BY <1>1, <1>5, <2>1, <2>4, AllMappedOf, ZenonT(60) DEF r
    <2>6. Len(o) = 1 /\ o[1] = b BY DEF o
    <2>7. BlockMapped(M, b) BY <2>3, <2>6 DEF AllMapped
    <2>8. QED BY <2>5, <2>7
  <1>19. QED BY <1>5, <1>6, <1>7, <1>12, <1>15, <1>16, <1>17, <1>18 DEF Lost

LEMMA MunmapStep ==
    ASSUME MemInv, NEW i \in 1..TOP, munmap(i)
    PROVE  MemInv'
  <1> DEFINE pr == proc[current]
             heap == pr.mm_heap
             b == heap[i]
             part == munmap_parts(b, b.v, b.n)
             R == page_unmap_range(mem, part.v, part.n)
             M1 == R.M
             M2 == free_phys_block(M1, part.p, part.n)
             a == SubSeq(heap, 1, i - 1)
             c == SubSeq(heap, i + 1, Len(heap))
             h == Before(heap, i) \o Behind(heap, i)
             bs == h \o Rest(pr)
             q == [pr EXCEPT !.mm_heap = h]
  <1>1. phase = "run" /\ current \in Live /\ UNCHANGED <<current, phase, tried, lost>> /\ i \in DOMAIN heap
    BY DEF munmap, Call, Runs
  <1>2. current \in Procs /\ pr.state = "live" /\ Slot(pr) BY <1>1 DEF MemInv, Typed, Live
  <1>3. current # NULL BY <1>2, ProcMemAssumption
  <1>4. heap \in Seq(Block) BY <1>2, HeapIs
  <1>5. i \in 1..Len(heap) BY <1>1, <1>4, SMTT(30)
  <1>6. mem' = M2 /\ data' = Contents(M2, data) /\ stale' = stale \ (part.v..(part.v + part.n - 1))
        /\ proc' = [proc EXCEPT ![current].mm_heap = a \o part.rest \o c]
    BY DEF munmap
  <1>7. /\ h \in Seq(Block) /\ bs \in Seq(Block) /\ Fine(bs) /\ BlockOK(b) /\ b.n > 0
        /\ PagesIn(Blocks(pr)) = PagesIn(bs) \cup PRange(b) /\ PagesIn(bs) \cap PRange(b) = {}
        /\ PlacesIn(Blocks(pr)) = PlacesIn(bs) \cup VRange(b) /\ PlacesIn(bs) \cap VRange(b) = {}
        /\ \A M : AllMapped(M, Blocks(pr)) => AllMapped(M, bs) /\ BlockMapped(M, b)
    <2>1. i \in 1..Len(pr.mm_heap) /\ b = pr.mm_heap[i] /\ bs = h \o Rest(pr)
          /\ h = Before(pr.mm_heap, i) \o Behind(pr.mm_heap, i)
      BY <1>5
    <2> HIDE DEF pr, b, h, bs
    <2>2. Lost(pr, h, bs, b) BY <1>2, <2>1, HeapLoses
    <2>3. QED BY <2>2 DEF Lost
  <1>8. part.v = b.v /\ part.p = b.p /\ part.n = b.n /\ part.rest = <<>>
    BY <1>7, WholeBlock DEF BlockOK
  <1>9. proc' = [proc EXCEPT ![current] = q]
    <2>1. a \o <<>> = a /\ a \in Seq(Block)
      <3>1. a \in Seq(Block) BY <1>4, <1>5, Parts DEF Before
      <3>2. QED BY <3>1, ConcatEmptySeq
    <2>2. (a \o part.rest) \o c = h BY <1>8, <2>1, SMTT(30) DEF Before, Behind
    <2> HIDE DEF h, a, c
    <2>3. proc' = [proc EXCEPT ![current].mm_heap = h] BY <1>6, <2>2
    <2>4. QED BY <2>3
  <1>10. Slot(q) /\ q.state = "live" /\ Blocks(q) = bs BY <1>2, <1>7, HeapSet
  <1>11. R = page_unmap_range(mem, b.v, b.n) /\ M2 = free_phys_block(M1, b.p, b.n)
         /\ stale' = stale \ VRange(b)
    BY <1>6, <1>8 DEF VRange
  <1> HIDE DEF pr, heap, b, part, R, M2, h, bs, q
  <1>12. /\ Sound(mem) /\ data \in [Frames -> Data] /\ stale \subseteq User
         /\ AllMapped(mem, Blocks(pr)) /\ Accounts(proc, Total(mem), lost)
    BY <1>1, <1>3 DEF MemInv, Typed, PagesHeld, Running, pr
  <1>13. AllMapped(mem, bs) /\ BlockMapped(mem, b) BY <1>7, <1>12
  <1>14. Keeps(mem, R.M, VRange(b)) /\ BlockGone(R.M, b) BY <1>7, <1>11, <1>12, <1>13, UnmapsBlock
  <1>15. Sound(M1) /\ M1.warned = mem.warned /\ Total(M1) = Total(mem) BY <1>14 DEF Keeps, Total
  <1>16. PagesIn(Blocks(pr)) \cap Total(mem) = {}
    <2>1. Held(proc, current) = PagesIn(Blocks(pr)) BY <1>2 DEF Held, pr
    <2>2. QED BY <1>2, <1>12, <2>1 DEF Accounts
  <1>17. Gave(M1, M2, PRange(b))
    <2>1. b.p \in Nat /\ b.n \in Nat /\ PRange(b) \subseteq Frames BY <1>7, FrameFacts DEF BlockOK, Block
    <2>2. PRange(b) \subseteq Frames \ Total(M1) BY <1>7, <1>15, <1>16, <2>1
    <2> HIDE DEF M1
    <2>3. Gave(M1, free_phys_block(M1, b.p, b.n), PRange(b)) BY <1>15, <2>1, <2>2, Gives DEF PRange
    <2>4. QED BY <1>11, <2>3
  <1> HIDE DEF M1
  <1>18. Sound(mem') /\ mem'.warned = mem.warned /\ Total(mem') = Total(mem) \cup PRange(b)
    BY <1>6, <1>15, <1>17 DEF Gave
  <1>19. Entries(mem, mem', VRange(b))
    <2>1. Entries(mem, M1, VRange(b)) BY <1>14, KeepsEntries DEF M1
    <2>2. Entries(M1, M2, VRange(b)) BY <1>17, SameTables DEF Gave
    <2>3. QED BY <1>6, <2>1, <2>2, EntriesOn
  <1>20. AllMapped(mem', bs) BY <1>7, <1>13, <1>19, AllStayMapped DEF Fine
  <1>21. PagesIn(bs) \cap Total(mem') = {} BY <1>7, <1>16, <1>18
  <1>22. PagesIn(bs) \cup Total(mem') = PagesIn(Blocks(pr)) \cup Total(mem) BY <1>7, <1>18
  <1>23. ASSUME NEW x \in User, Framed(mem', x) PROVE x \in stale' \/ x \in PlacesIn(bs)
    <2>1. x \notin VRange(b)
      <3>1. \A y \in VRange(b) : ~Framed(M1, y) BY <1>14 DEF BlockGone, M1
      <3>2. Framed(M1, x) BY <1>6, <1>17, <1>23 DEF Gave, Framed
      <3>3. QED BY <3>1, <3>2
    <2>2. Framed(mem, x) BY <1>19, <1>23, <2>1, Pages DEF Entries
    <2>3. x \in stale \/ x \in PlacesIn(Blocks(pr)) BY <1>1, <2>2 DEF MemInv, Left, pr
    <2>4. QED BY <1>7, <1>11, <2>1, <2>3
  <1>24. stale' \subseteq User BY <1>11, <1>12
  <1>25. data' = Contents(mem', data) BY <1>6
  <1>26. QED
    BY <1>1, <1>9, <1>10, <1>12, <1>18, <1>20, <1>21, <1>22, <1>23, <1>24, <1>25, OwnStep DEF pr

LEMMA Greatest ==
    ASSUME NEW k \in Nat, NEW S, S \subseteq 1..k, S # {}
    PROVE  Max(S) \in S
  <1> DEFINE T == {k - x : x \in S}
  <1>1. T \subseteq Nat /\ T # {}
    <2>1. \A x \in S : k - x \in Nat OBVIOUS
    <2>2. PICK x : x \in S OBVIOUS
    <2>3. k - x \in T BY <2>2
    <2>4. QED BY <2>1, <2>3
  <1> HIDE DEF T
  <1>2. PICK t \in T : \A y \in T : t <= y BY <1>1, LeastNatural
  <1>3. PICK x \in S : t = k - x BY DEF T
  <1>4. \A y \in S : x >= y
    <2> SUFFICES ASSUME NEW y \in S PROVE x >= y OBVIOUS
    <2>1. k - x <= k - y BY <1>2, <1>3 DEF T
    <2>2. x \in 1..k /\ y \in 1..k OBVIOUS
    <2>3. QED BY <2>1, <2>2
  <1>5. \E z \in S : \A y \in S : z >= y BY <1>4
  <1>6. QED BY <1>5 DEF Max

\* mmap picks addresses where the process that runs has nothing, page 0 never.
LEMMA TargetsFree ==
    ASSUME NEW n \in Nat \ {0}, NEW v \in Targets(n)
    PROVE  /\ v \in Nat /\ v..(v + n - 1) \subseteq User
           /\ v..(v + n - 1) \cap Mapped(proc[current]) = {}
  <1>1. TOP \in Nat \ {0} /\ VPages = 0..TOP BY Pages, PagingAssumption DEF VPages, TOP
  <1>2. ASSUME NEW addr \in VPages, mmap_search(addr, n) # NULL
        PROVE  mmap_search(addr, n) \in 1..TOP /\ Fits(mmap_search(addr, n), n)
    <2> DEFINE from == IF addr = 0 \/ addr >= TOP THEN TOP ELSE addr
               below == {w \in 1..from : w + n - 1 <= from /\ Fits(w, n)}
               above == {w \in (from + 1)..TOP : Fits(w, n)}
               r == IF below # {} THEN Max(below) ELSE IF above # {} THEN Max(above) ELSE NULL
    <2>1. mmap_search(addr, n) = r BY DEF mmap_search
    <2>2. from \in 1..TOP BY <1>1
    <2> HIDE DEF from
    <2>3. \A w \in 1..from : w \in 1..TOP BY <2>2, <1>1
    <2>4. \A w \in (from + 1)..TOP : w \in 1..TOP BY <2>2, <1>1
    <2>5. below \subseteq 1..TOP /\ \A w \in below : Fits(w, n) BY <2>3
    <2>6. above \subseteq 1..TOP /\ \A w \in above : Fits(w, n) BY <2>4
    <2> HIDE DEF below, above
    <2>7. CASE below # {}
      <3>1. Max(below) \in below BY <1>1, <2>5, <2>7, Greatest
      <3>2. QED BY <2>1, <2>5, <2>7, <3>1
    <2>8. CASE below = {} /\ above # {}
      <3>1. Max(above) \in above BY <1>1, <2>6, <2>8, Greatest
      <3>2. QED BY <2>1, <2>6, <2>8, <3>1
    <2>9. QED BY <1>2, <2>1, <2>7, <2>8
  <1>3. PICK addr \in VPages, fixed \in BOOLEAN : v = mmap_target(addr, n, fixed) BY DEF Targets
  <1>4. v # NULL BY DEF Targets
  <1>5. v \in 1..TOP /\ Fits(v, n)
    <2>1. CASE fixed
      <3>1. v = addr /\ addr # 0 /\ Fits(addr, n) BY <1>3, <1>4, <2>1 DEF mmap_target
      <3>2. QED BY <1>1, <3>1
    <2>2. CASE ~fixed
      <3>1. v = mmap_search(addr, n) BY <1>3, <2>2 DEF mmap_target
      <3>2. QED BY <1>2, <1>4, <3>1
    <2>3. QED BY <2>1, <2>2
  <1>6. \A w \in v..(v + n - 1) : w \in VPages /\ w \notin Mapped(proc[current])
    BY <1>5 DEF Fits, mmap_is_free
  <1>7. \A w \in v..(v + n - 1) : w \in User BY <1>1, <1>5, <1>6 DEF User
  <1>8. QED BY <1>1, <1>5, <1>6, <1>7

LEMMA HoldingIs ==
    ASSUME NEW D \in [Frames -> Data], NEW b, NEW x \in Data
    PROVE  Holding(D, b, x) \in [Frames -> Data]
  BY DEF Holding

LEMMA MmapStep ==
    ASSUME MemInv, NEW n \in Sizes, mmap(n)
    PROVE  MemInv'
  <1>1. phase = "run" /\ current \in Live /\ UNCHANGED <<current, phase, tried, lost>>
    BY DEF mmap, Call, Runs
  <1>2. n \in Nat \ {0} BY ProcMemAssumption
  <1>3. PICK v \in Targets(n) :
          LET r == process_memory_add(mem, v, n)
          IN  \/ /\ r.ok
                 /\ proc' = [proc EXCEPT ![current].mm_heap = <<r.b>> \o @]
                 /\ mem' = r.M
                 /\ data' = Contents(r.M, Holding(data, r.b, 0))
                 /\ stale' = stale \ VRange(r.b)
              \/ /\ ~r.ok
                 /\ mem' = r.M
                 /\ data' = Contents(r.M, Holding(data, r.b, 0))
                 /\ UNCHANGED <<proc, stale>>
    BY DEF mmap
  <1> DEFINE pr == proc[current]
             bs == Blocks(pr)
             W == v..(v + n - 1)
             r == process_memory_add(mem, v, n)
             N == r.M
  <1>4. current \in Procs /\ current # NULL /\ pr.state = "live" /\ Slot(pr)
    BY <1>1, ProcMemAssumption DEF MemInv, Typed, Live
  <1>5. /\ Sound(mem) /\ data \in [Frames -> Data] /\ stale \subseteq User
        /\ AllMapped(mem, bs) /\ Accounts(proc, Total(mem), lost)
        /\ proc = [q \in Procs |-> proc[q]] /\ lost \subseteq Frames /\ ~mem.warned
        /\ \A q \in Procs : Slot(proc[q])
    BY <1>1, <1>4 DEF MemInv, Typed, PagesHeld, Running
  <1>6. v \in Nat /\ W \subseteq User /\ W \cap Mapped(pr) = {} BY <1>2, TargetsFree
  <1>7. Added(r, mem, v, n) BY <1>2, <1>5, <1>6, Adds
  <1>8. pr.mm_heap \in Seq(Block) /\ Rest(pr) \in Seq(Block) /\ bs \in Seq(Block)
        /\ bs = pr.mm_heap \o Rest(pr) /\ Fine(bs)
    BY <1>4, HeapIs
  <1>9. PlacesIn(bs) \cap W = {} BY <1>6, <1>8, MappedIs
  <1>10. PagesIn(bs) \cap Total(mem) = {}
    <2>1. Held(proc, current) = PagesIn(bs) BY <1>4 DEF Held
    <2>2. QED BY <1>4, <1>5, <2>1 DEF Accounts
  <1>11. \A x \in User : Framed(mem, x) => x \in stale \/ x \in PlacesIn(bs) BY <1>1 DEF MemInv, Left
  <1>12. \/ /\ r.ok
            /\ proc' = [proc EXCEPT ![current].mm_heap = <<r.b>> \o pr.mm_heap]
            /\ mem' = N
            /\ data' = Contents(N, Holding(data, r.b, 0))
            /\ stale' = stale \ VRange(r.b)
         \/ /\ ~r.ok
            /\ mem' = N
            /\ data' = Contents(N, Holding(data, r.b, 0))
            /\ UNCHANGED <<proc, stale>>
    BY <1>3
  <1> HIDE DEF r, bs
  <1>13. Sound(N) /\ N.warned = mem.warned /\ Entries(mem, N, W) BY <1>7 DEF Added
  <1> HIDE DEF N, W
  <1>14. AllMapped(N, bs) BY <1>5, <1>8, <1>9, <1>13, AllStayMapped DEF Fine
  <1>15. CASE r.ok
    <2> DEFINE b == r.b
               o == <<b>>
               h == o \o pr.mm_heap
               cs == h \o Rest(pr)
               q == [pr EXCEPT !.mm_heap = h]
               D == Holding(data, b, 0)
    <2>1. /\ BlockOK(b) /\ b.v = v /\ b.n = n /\ BlockMapped(N, b)
          /\ PRange(b) \subseteq Total(mem) /\ Total(N) = Total(mem) \ PRange(b)
      BY <1>7, <1>15 DEF Added, N
    <2>2. VRange(b) = W /\ b \in Block BY <2>1 DEF VRange, BlockOK, W
    <2>3. mem' = N /\ data' = Contents(N, D) /\ stale' = stale \ W
          /\ proc' = [proc EXCEPT ![current].mm_heap = h]
      BY <1>12, <1>15, <2>2
    <2> HIDE DEF b
    <2>4. o \in Seq(Block) /\ PagesIn(o) = PRange(b) /\ PlacesIn(o) = W /\ Distinct(o)
      BY <2>2, OneBlock
    <2>5. Fine(o) /\ AllMapped(N, o)
      <3>1. Len(o) = 1 /\ o[1] = b OBVIOUS
      <3>2. b \in NotEmpty BY <1>2, <2>1, <2>2 DEF NotEmpty
      <3> HIDE DEF o
      <3>3. BlocksOK(o) BY <2>1, <2>4, <3>1 DEF BlocksOK
      <3>4. Each(o, NotEmpty) /\ AllMapped(N, o) BY <2>1, <3>1, <3>2 DEF Each, AllMapped
      <3>5. QED BY <2>4, <3>3, <3>4 DEF Fine
    <2> HIDE DEF o
    <2>6. cs = o \o bs BY <1>8, <2>4, Associates, ZenonT(60)
    <2>7. h \in Seq(Block) BY <1>8, <2>4, Concats
    <2> HIDE DEF cs
    <2>a. o \in Seq(Block) /\ bs \in Seq(Block) /\ Fine(bs) BY <1>8, <2>4
    <2>b. PagesIn(o \o bs) = PagesIn(o) \cup PagesIn(bs) /\ PlacesIn(o \o bs) = PlacesIn(o) \cup PlacesIn(bs)
      BY <2>a, Concats
    <2>8. PagesIn(cs) = PRange(b) \cup PagesIn(bs) /\ PlacesIn(cs) = W \cup PlacesIn(bs)
      BY <2>4, <2>6, <2>b
    <2>9. Beside(o, bs) BY <1>9, <1>10, <2>1, <2>4 DEF Beside
    <2>10. Fine(cs)
      <3>1. Fine(o \o bs) BY <2>a, <2>5, <2>9, FineOf
      <3>2. QED BY <2>6, <3>1
    <2>11. AllMapped(N, cs)
      <3>1. AllMapped(N, o \o bs) BY <1>14, <2>a, <2>5, AllMappedOf
      <3>2. QED BY <2>6, <3>1
    <2>12. proc' = [proc EXCEPT ![current] = q] BY <2>3
    <2> HIDE DEF h
    <2>13. Slot(q) /\ q.state = "live" /\ Blocks(q) = cs BY <1>4, <2>7, <2>10, HeapSet DEF cs
    <2> HIDE DEF q, D
    <2>14. D \in [Frames -> Data] BY <1>5, HoldingIs DEF D, Data
    <2>15. PagesIn(cs) \cap Total(mem') = {} BY <1>10, <2>1, <2>3, <2>8
    <2>16. PagesIn(cs) \cup Total(mem') = PagesIn(bs) \cup Total(mem) BY <2>1, <2>3, <2>8
    <2>17. ASSUME NEW x \in User, Framed(mem', x) PROVE x \in stale' \/ x \in PlacesIn(cs)
      <3>1. CASE x \in W BY <2>8, <3>1
      <3>2. CASE x \notin W
        <4>1. Framed(mem, x) BY <1>13, <2>3, <2>17, <3>2, Pages DEF Entries
        <4>2. QED BY <1>11, <2>3, <2>8, <3>2, <4>1
      <3>3. QED BY <3>1, <3>2
    <2>18. stale' \subseteq User BY <1>5, <2>3
    <2>19. data' = Contents(mem', D) /\ Sound(mem') /\ mem'.warned = mem.warned /\ AllMapped(mem', cs)
      BY <1>13, <2>3, <2>11
    <2>20. QED
      BY <1>1, <2>12, <2>13, <2>14, <2>15, <2>16, <2>17, <2>18, <2>19, OwnStep DEF bs
  <1>16. CASE ~r.ok
    <2>1. Total(N) = Total(mem) /\ \A x \in W : Framed(N, x) => Framed(mem, x)
      BY <1>7, <1>16 DEF Added, N, W
    <2>2. mem' = N /\ data' = Contents(N, Holding(data, r.b, 0)) /\ UNCHANGED <<proc, stale>>
      BY <1>12, <1>16
    <2>3. \A x \in User : Framed(N, x) => Framed(mem, x) BY <1>13, <2>1, Pages DEF Entries
    <2>a. Holding(data, r.b, 0) \in [Frames -> Data] BY <1>5, HoldingIs DEF Data
    <2>4. data' \in [Frames -> Data] BY <2>a, <2>2, ContentsIs
    <2>5. Typed' BY <1>1, <1>4, <1>5, <2>2, <2>4 DEF Typed
    <2>6. PagesHeld' BY <1>1, <1>5, <1>13, <2>1, <2>2 DEF PagesHeld
    <2>7. Running' BY <1>1, <1>14, <2>2 DEF Running, bs
    <2>8. Left' BY <1>1, <1>4, <1>11, <2>2, <2>3 DEF Left, bs
    <2>9. QED BY <2>5, <2>6, <2>7, <2>8 DEF MemInv
  <1>17. QED BY <1>12, <1>15, <1>16

-----------------------------------------------------------------------------
(* The blocks of a list, as a set *)

Elems(s) == {s[i] : i \in 1..Len(s)}

LEMMA ElemsOf ==
    ASSUME NEW s \in Seq(Block), NEW t \in Seq(Block)
    PROVE  Elems(s \o t) = Elems(s) \cup Elems(t)
  <1> DEFINE u == s \o t
             E == Elems(u)
             F == Elems(s) \cup Elems(t)
  <1>1. Each(u, E) BY DEF Each, Elems
  <1>2. Each(s, F) /\ Each(t, F) BY DEF Each, Elems
  <1> HIDE DEF E, F
  <1>3. Each(s, E) /\ Each(t, E) BY <1>1, EachOf
  <1>4. Each(u, F) BY <1>2, EachOf
  <1> HIDE DEF u
  <1>5. F \subseteq E BY <1>3 DEF Each, Elems, F
  <1>6. E \subseteq F BY <1>4 DEF Each, Elems, E
  <1>7. QED BY <1>5, <1>6 DEF E, F, u

LEMMA ElemsOne ==
    ASSUME NEW b
    PROVE  Elems(<<b>>) = {b}
  <1> DEFINE s == <<b>>
  <1>1. Len(s) = 1 /\ s[1] = b OBVIOUS
  <1> HIDE DEF s
  <1>2. Elems(s) = {b} BY <1>1 DEF Elems
  <1>3. QED BY <1>2 DEF s

LEMMA ElemsReverse ==
    ASSUME NEW s \in Seq(Block)
    PROVE  Elems(Reverse(s)) = Elems(s)
  <1> DEFINE n == Len(s)
             r == Reverse(s)
  <1>1. n \in Nat OBVIOUS
  <1>2. r = [i \in 1..n |-> s[(n - i) + 1]] BY DEF Reverse
  <1>3. \A i \in 1..n : (n - i) + 1 \in 1..n /\ (n - ((n - i) + 1)) + 1 = i BY <1>1
  <1>4. Len(r) = n BY Reverses
  <1>5. \A i \in 1..n : r[i] = s[(n - i) + 1] BY <1>2
  <1> HIDE DEF r
  <1>6. \A i \in 1..n : r[i] \in Elems(s) BY <1>3, <1>5 DEF Elems
  <1>7. \A i \in 1..n : s[i] \in Elems(r)
    <2> SUFFICES ASSUME NEW i \in 1..n PROVE s[i] \in Elems(r) OBVIOUS
    <2> DEFINE k == (n - i) + 1
    <2>1. k \in 1..n /\ (n - k) + 1 = i BY <1>3
    <2> HIDE DEF k
    <2>2. r[k] = s[i] BY <1>5, <2>1
    <2>3. QED BY <1>4, <2>1, <2>2 DEF Elems
  <1>8. QED BY <1>4, <1>6, <1>7 DEF Elems, n, r

LEMMA ElemsBlocks ==
    ASSUME NEW pr, Slot(pr)
    PROVE  Elems(Blocks(pr)) = Elems(pr.mm_heap) \cup Elems(pr.mm_stack) \cup {pr.mm_code}
  <1> DEFINE a == pr.mm_heap
             b == pr.mm_stack
             d == pr.mm_code
             c == <<d>>
             t == b \o c
  <1>1. a \in Seq(Block) /\ b \in Seq(Block) /\ d \in Block BY DEF Slot
  <1>2. c \in Seq(Block) /\ Elems(c) = {d} BY <1>1, OneBlock, ElemsOne
  <1>3. Blocks(pr) = a \o t /\ t \in Seq(Block) BY <1>1, BlocksIs
  <1> HIDE DEF a, b, c, d
  <1>4. Elems(t) = Elems(b) \cup Elems(c) BY <1>1, <1>2, ElemsOf
  <1> HIDE DEF t
  <1>5. Elems(a \o t) = Elems(a) \cup Elems(t) BY <1>1, <1>3, ElemsOf
  <1>6. QED BY <1>2, <1>3, <1>4, <1>5 DEF a, b, d

-----------------------------------------------------------------------------
(* process_dup *)

LEMMA FineReverse ==
    ASSUME NEW s \in Seq(Block), Fine(s)
    PROVE  /\ Reverse(s) \in Seq(Block) /\ Fine(Reverse(s))
           /\ PagesIn(Reverse(s)) = PagesIn(s) /\ PlacesIn(Reverse(s)) = PlacesIn(s)
  <1> DEFINE r == Reverse(s)
  <1>1. r \in Seq(Block) /\ PagesIn(r) = PagesIn(s) /\ PlacesIn(r) = PlacesIn(s) /\ Distinct(r)
    BY Reverses DEF Fine
  <1>2. Each(s, Good) BY EachIs DEF Fine
  <1>3. Each(r, Good) BY <1>2, EachReverse
  <1>4. Each(r, NotEmpty) BY EachReverse DEF Fine
  <1> HIDE DEF r
  <1>5. BlocksOK(r) BY <1>1, <1>3, EachIs
  <1>6. QED BY <1>1, <1>4, <1>5 DEF Fine, r

\* A list is what comes before its last element, and that.
LEMMA LastSplit ==
    ASSUME NEW s \in Seq(Block), NEW n \in Nat, n = Len(s), n # 0
    PROVE  s = SubSeq(s, 1, n - 1) \o <<s[n]>>
  <1>1. n \in 1..Len(s) OBVIOUS
  <1>2. s = Before(s, n) \o (<<s[n]>> \o Behind(s, n)) /\ s[n] \in Block BY <1>1, Parts, ZenonT(60)
  <1>3. Behind(s, n) = <<>>
    <2>1. n + 1 \in Int /\ Len(s) \in Int /\ Len(s) < n + 1 OBVIOUS
    <2>2. QED BY <2>1, SubSeqEmpty DEF Behind
  <1>4. <<s[n]>> \o <<>> = <<s[n]>>
    <2> DEFINE o == <<s[n]>>
    <2>1. o \in Seq(Block) BY <1>2
    <2> HIDE DEF o
    <2>2. o \o <<>> = o BY <2>1, ConcatEmptySeq
    <2>3. QED BY <2>2 DEF o
  <1>5. QED BY <1>2, <1>3, <1>4 DEF Before

\* Blocks on the lists of a new process, each list turned round.
LEMMA NewProcess ==
    ASSUME NEW s \in Seq(Block), Fine(s), NEW n \in Nat, n = Len(s), NEW h \in Nat, h < n,
           NEW pr, pr = [state |-> "live", mm_heap |-> Reverse(SubSeq(s, 1, h)),
                         mm_stack |-> Reverse(SubSeq(s, h + 1, n - 1)), mm_code |-> s[n]]
    PROVE  /\ Slot(pr) /\ pr.state = "live" /\ PagesIn(Blocks(pr)) = PagesIn(s)
           /\ Elems(Blocks(pr)) = Elems(s)
  <1> DEFINE a == SubSeq(s, 1, h)
             c == SubSeq(s, h + 1, n - 1)
             o == <<s[n]>>
             t == c \o o
             ra == Reverse(a)
             rc == Reverse(c)
             u == rc \o o
  <1>1. n \in 1..Len(s) /\ s[n] \in Block OBVIOUS
  <1>2. a \in Seq(Block) /\ c \in Seq(Block) /\ o \in Seq(Block)
    <2>1. \A i \in 1..h : s[i] \in Block OBVIOUS
    <2>2. \A i \in (h + 1)..(n - 1) : s[i] \in Block OBVIOUS
    <2>3. QED BY <1>1, <2>1, <2>2, SubSeqProperties
  <1>3. s = a \o t
    <2> DEFINE z == SubSeq(s, 1, n - 1)
    <2>1. z = a \o c
      <3>1. 1 \in 1..(Len(s) + 1) /\ h \in (1 - 1)..Len(s) /\ n - 1 \in h..Len(s) OBVIOUS
      <3>2. QED BY <3>1, ConcatAdjacentSubSeq
    <2>2. n # 0 OBVIOUS
    <2>3. s = z \o o
      <3> HIDE DEF t, ra, rc, u
      <3>1. s = SubSeq(s, 1, n - 1) \o <<s[n]>> BY <2>2, LastSplit
      <3>2. QED BY <3>1
    <2> HIDE DEF a, c, z, o
    <2>4. (a \o c) \o o = a \o t BY <1>2, Associates
    <2>5. QED BY <2>1, <2>3, <2>4
  <1>4. pr = [state |-> "live", mm_heap |-> ra, mm_stack |-> rc, mm_code |-> s[n]] OBVIOUS
  <1> HIDE DEF a, c, ra, rc
  <1>5. pr.state = "live" /\ pr.mm_heap = ra /\ pr.mm_stack = rc /\ pr.mm_code = s[n] BY <1>4
  <1>6. pr = [state |-> pr.state, mm_heap |-> pr.mm_heap, mm_stack |-> pr.mm_stack, mm_code |-> pr.mm_code]
    BY <1>4, <1>5
  <1> HIDE DEF o
  <1>7. t \in Seq(Block) BY <1>2, Concats
  <1> HIDE DEF t
  <1>8. Fine(a) /\ Fine(t) /\ Beside(a, t) BY <1>2, <1>3, <1>7, FineOf
  <1>9. Fine(c) /\ Fine(o) /\ Beside(c, o) BY <1>2, <1>8, FineOf DEF t
  <1>10. ra \in Seq(Block) /\ Fine(ra) /\ PagesIn(ra) = PagesIn(a) /\ PlacesIn(ra) = PlacesIn(a)
    BY <1>2, <1>8, FineReverse DEF ra
  <1>11. rc \in Seq(Block) /\ Fine(rc) /\ PagesIn(rc) = PagesIn(c) /\ PlacesIn(rc) = PlacesIn(c)
    BY <1>2, <1>9, FineReverse DEF rc
  <1>12. PagesIn(s) = PagesIn(a) \cup PagesIn(t) BY <1>2, <1>3, <1>7, Concats
  <1>13. PagesIn(t) = PagesIn(c) \cup PagesIn(o) /\ PlacesIn(t) = PlacesIn(c) \cup PlacesIn(o)
    BY <1>2, Concats DEF t
  <1>14. u \in Seq(Block) /\ PagesIn(u) = PagesIn(rc) \cup PagesIn(o) /\ PlacesIn(u) = PlacesIn(rc) \cup PlacesIn(o)
    BY <1>2, <1>11, Concats
  <1>15. Beside(rc, o) BY <1>9, <1>11 DEF Beside
  <1>16. Fine(u) BY <1>2, <1>9, <1>11, <1>15, FineOf
  <1>17. Blocks(pr) = ra \o u /\ Blocks(pr) \in Seq(Block) BY <1>1, <1>5, <1>10, <1>11, BlocksIs DEF o
  <1> HIDE DEF u
  <1>18. Beside(ra, u) BY <1>8, <1>10, <1>11, <1>13, <1>14 DEF Beside
  <1>19. Fine(ra \o u) BY <1>10, <1>14, <1>16, <1>18, FineOf
  <1>20. PagesIn(ra \o u) = PagesIn(ra) \cup PagesIn(u) BY <1>10, <1>14, Concats
  <1>21. PagesIn(Blocks(pr)) = PagesIn(s) BY <1>10, <1>11, <1>12, <1>13, <1>14, <1>17, <1>20
  <1> DEFINE bs == Blocks(pr)
  <1> HIDE DEF bs
  <1>22. Fine(bs) /\ bs \in Seq(Block) BY <1>17, <1>19 DEF bs
  <1>23. \A j \in 1..Len(bs) : bs[j].n > 0 BY <1>22, EachIs DEF Fine
  <1>24. Slot(pr) BY <1>1, <1>5, <1>6, <1>10, <1>11, <1>22, <1>23 DEF Slot, Fine, bs
  <1>25. Elems(Blocks(pr)) = Elems(s)
    <2>1. Elems(o) = {s[n]} BY ElemsOne DEF o
    <2>2. Elems(s) = Elems(a) \cup Elems(t) BY <1>2, <1>3, <1>7, ElemsOf
    <2>3. Elems(t) = Elems(c) \cup Elems(o) BY <1>2, ElemsOf DEF t
    <2>4. Elems(ra) = Elems(a) /\ Elems(rc) = Elems(c) BY <1>2, ElemsReverse DEF ra, rc
    <2>5. Elems(Blocks(pr)) = Elems(ra) \cup Elems(rc) \cup {s[n]} BY <1>5, <1>24, ElemsBlocks
    <2>6. QED BY <2>1, <2>2, <2>3, <2>4, <2>5
  <1>26. QED BY <1>5, <1>21, <1>24, <1>25

\* The copies of blocks that are apart are apart.
LEMMA CopiesFine ==
    ASSUME NEW M, NEW D, NEW bs \in Seq(Block), Fine(bs), NEW k, NEW S, Copying(S, k, M, D, bs),
           Len(S.new) = Len(bs)
    PROVE  Fine(S.new)
  <1> DEFINE s == S.new
             n == Len(s)
  <1>1. s \in Seq(Block) /\ PagesApart(s) /\ \A j \in 1..n : CopyOf(s[j], bs[j], D, S.D) BY DEF Copying
  <1> HIDE DEF s
  <1>2. n = Len(bs) BY DEF s
  <1> HIDE DEF n
  <1>3. \A j \in 1..n : BlockOK(s[j]) /\ s[j].v = bs[j].v /\ s[j].n = bs[j].n BY <1>1 DEF CopyOf
  <1>4. \A j \in 1..n : VRange(s[j]) = VRange(bs[j]) BY <1>3 DEF VRange
  <1>5. BlocksOK(s) BY <1>1, <1>3 DEF BlocksOK, n
  <1>6. \A i, j \in 1..n : i # j => VRange(bs[i]) \cap VRange(bs[j]) = {}
    BY <1>2 DEF Fine, Distinct, Disjoint
  <1>7. \A i, j \in 1..n : i # j => PRange(s[i]) \cap PRange(s[j]) = {} BY <1>1 DEF PagesApart, n
  <1>8. \A i, j \in 1..n : i # j => VRange(s[i]) \cap VRange(s[j]) = {} BY <1>4, <1>6
  <1>9. Distinct(s) BY <1>7, <1>8 DEF Distinct, Disjoint, n
  <1>10. \A j \in 1..n : s[j].n > 0 BY <1>2, <1>3 DEF Fine, Each, NotEmpty
  <1>11. Each(s, NotEmpty) BY <1>1, <1>10, EachIs DEF n
  <1>12. QED BY <1>5, <1>9, <1>11 DEF Fine, s

\* The first k blocks.
LEMMA FirstBlocks ==
    ASSUME NEW M, NEW bs \in Seq(Block), InUse(M, bs), NEW k \in 0..Len(bs)
    PROVE  InUse(M, SubSeq(bs, 1, k)) /\ Len(SubSeq(bs, 1, k)) = k
  <1> DEFINE s == SubSeq(bs, 1, k)
  <1>1. k \in Nat /\ \A i \in 1..k : i \in 1..Len(bs) /\ bs[i] \in Block OBVIOUS
  <1>2. s \in Seq(Block) /\ Len(s) = k /\ \A i \in 1..k : s[i] = bs[i]
    <2>1. s \in Seq(Block) /\ Len(s) = (IF 1 <= k THEN k - 1 + 1 ELSE 0)
          /\ \A i \in 1..(k - 1 + 1) : s[i] = bs[1 + i - 1]
      BY <1>1, SubSeqProperties
    <2>2. k - 1 + 1 = k /\ (IF 1 <= k THEN k - 1 + 1 ELSE 0) = k BY <1>1
    <2>3. \A i \in 1..k : 1 + i - 1 = i BY <1>1
    <2> HIDE DEF s
    <2>4. \A i \in 1..k : s[i] = bs[i]
      <3> SUFFICES ASSUME NEW i \in 1..k PROVE s[i] = bs[i] OBVIOUS
      <3>1. s[i] = bs[1 + i - 1] BY <2>1, <2>2
      <3>2. QED BY <2>3, <3>1
    <2>5. QED BY <2>1, <2>2, <2>4
  <1> HIDE DEF s
  <1>3. Within(s, bs) BY <1>1, <1>2 DEF Within
  <1>4. PagesIn(s) \subseteq PagesIn(bs) BY <1>3, WithinPages
  <1>5. BlocksOK(s) /\ \A j \in 1..Len(s) : s[j].n > 0 BY <1>1, <1>2 DEF InUse, BlocksOK
  <1>6. QED BY <1>2, <1>4, <1>5 DEF InUse, s

LEMMA PagesOfRange ==
    ASSUME NEW s \in Seq(Block)
    PROVE  UNION {PRange(b) : b \in Range(s)} = PagesIn(s)
  <1>1. DOMAIN s = 1..Len(s) OBVIOUS
  <1>2. QED BY <1>1 DEF Range, PagesIn

LEMMA DupStep ==
    ASSUME MemInv, NEW child \in Procs, process_dup(child)
    PROVE  MemInv'
  <1> DEFINE pr == proc[current]
             bs == Blocks(pr)
             n == Len(bs)
             S == copy_blocks(n)
             h == Len(pr.mm_heap)
             new == [state |-> "live", mm_heap |-> Reverse(SubSeq(S.new, 1, h)),
                     mm_stack |-> Reverse(SubSeq(S.new, h + 1, n - 1)), mm_code |-> S.new[n]]
  <1>1. /\ phase = "run" /\ current \in Live /\ proc[child].state = "none"
        /\ UNCHANGED <<current, phase, tried, stale>>
    BY DEF process_dup, Call, Runs
  <1>2. \/ /\ S.ok /\ proc' = [proc EXCEPT ![child] = new]
           /\ mem' = S.M /\ data' = S.D /\ UNCHANGED lost
        \/ /\ \E k \in 0..n :
                 LET F == copy_blocks(k)
                 IN  /\ F.ok
                     /\ mem' = F.M /\ data' = F.D
                     /\ lost' = lost \cup UNION {PRange(b) : b \in Range(F.new)}
           /\ UNCHANGED proc
    BY DEF process_dup
  <1>3. current \in Procs /\ current # NULL /\ pr.state = "live" /\ Slot(pr) /\ current # child
    BY <1>1, ProcMemAssumption DEF MemInv, Typed, Live
  <1>4. /\ Sound(mem) /\ data \in [Frames -> Data] /\ stale \subseteq User
        /\ AllMapped(mem, bs) /\ Accounts(proc, Total(mem), lost)
        /\ proc = [q \in Procs |-> proc[q]] /\ lost \subseteq Frames /\ ~mem.warned
        /\ \A q \in Procs : Slot(proc[q])
    BY <1>1, <1>3 DEF MemInv, Typed, PagesHeld, Running
  <1>5. bs \in Seq(Block) /\ Fine(bs) BY <1>3, HeapIs
  <1>6. Held(proc, current) = PagesIn(bs) BY <1>3 DEF Held
  <1>7. InUse(mem, bs)
    <2>1. PagesIn(bs) \cap Total(mem) = {} BY <1>3, <1>4, <1>6 DEF Accounts
    <2>2. \A j \in 1..Len(bs) : bs[j].n > 0 BY <1>3 DEF Slot
    <2>3. QED BY <1>5, <2>1, <2>2 DEF InUse, Fine
  <1>8. n \in Nat /\ h \in Nat /\ h < n
    <2>1. pr.mm_heap \in Seq(Block) /\ pr.mm_stack \in Seq(Block) /\ pr.mm_code \in Block BY <1>3 DEF Slot
    <2> DEFINE k == Len(pr.mm_stack)
    <2>2. n = h + k + 1 BY <2>1, BlocksIs
    <2>3. h \in Nat /\ k \in Nat BY <2>1
    <2> HIDE DEF n, h, k
    <2>4. QED BY <2>2, <2>3
  <1>9. \A x \in User : Framed(mem, x) => x \in stale \/ x \in PlacesIn(bs) BY <1>1 DEF MemInv, Left
  <1>10. ASSUME NEW N, NEW F, Took(mem, N, F), mem' = N, proc'[current] = pr
         PROVE  Running' /\ Left' /\ Sound(mem') /\ ~mem'.warned /\ Total(mem') = Total(mem) \ F
    <2>1. N.dir = mem.dir /\ N.pte = mem.pte /\ Sound(N) /\ N.warned = mem.warned /\ Total(N) = Total(mem) \ F
      BY <1>10 DEF Took
    <2>2. AllMapped(N, bs) BY <1>4, <2>1 DEF AllMapped, BlockMapped, MappedTo
    <2>3. Running' BY <1>1, <1>10, <2>2 DEF Running
    <2>4. \A x \in User : Framed(N, x) => Framed(mem, x) BY <2>1 DEF Framed
    <2>5. Left' BY <1>1, <1>3, <1>9, <1>10, <2>4 DEF Left
    <2>6. QED BY <1>4, <1>10, <2>1, <2>3, <2>5
  <1>11. CASE /\ S.ok /\ proc' = [proc EXCEPT ![child] = new]
              /\ mem' = S.M /\ data' = S.D /\ UNCHANGED lost
    <2> DEFINE s == S.new
    <2>1. S = Copies(mem, data, bs)
      <3>1. SubSeq(bs, 1, n) = bs BY <1>5, SubSeqFull
      <3>2. S = Copies(mem, data, SubSeq(bs, 1, n)) BY CopyIs
      <3>3. QED BY <3>1, <3>2
    <2>2. new = [state |-> "live", mm_heap |-> Reverse(SubSeq(s, 1, h)),
                 mm_stack |-> Reverse(SubSeq(s, h + 1, n - 1)), mm_code |-> s[n]]
      OBVIOUS
    <2> HIDE DEF S, new, bs
    <2>3. Copying(S, n, mem, data, bs) BY <1>4, <1>7, <2>1, CopiesAll
    <2>4. /\ S.D \in [Frames -> Data] /\ s \in Seq(Block) /\ Took(mem, S.M, PagesIn(s)) /\ Len(s) = n
      BY <1>11, <2>3 DEF Copying
    <2>5. Fine(s) BY <1>5, <2>3, <2>4, CopiesFine
    <2> HIDE DEF s, n, h
    <2>6. Slot(new) /\ new.state = "live" /\ PagesIn(Blocks(new)) = PagesIn(s)
      BY <1>8, <2>2, <2>4, <2>5, NewProcess
    <2>7. proc' = [q \in Procs |-> proc'[q]] /\ proc'[child] = new /\ \A q \in Procs \ {child} : proc'[q] = proc[q]
      BY <1>4, <1>11
    <2>8. \A q \in Procs : Slot(proc'[q]) BY <1>4, <2>6, <2>7
    <2>9. Typed' BY <1>1, <1>3, <1>4, <1>11, <2>4, <2>7, <2>8 DEF Typed, MemInv
    <2>10. Running' /\ Left' /\ Sound(mem') /\ ~mem'.warned /\ Total(mem') = Total(mem) \ PagesIn(s)
      <3> DEFINE N == S.M
                 F == PagesIn(s)
      <3>1. Took(mem, N, F) /\ mem' = N /\ proc'[current] = pr BY <1>3, <1>11, <2>4, <2>7
      <3> HIDE DEF N, F, pr
      <3>2. Running' /\ Left' /\ Sound(mem') /\ ~mem'.warned /\ Total(mem') = Total(mem) \ F BY <1>10, <3>1
      <3>3. QED BY <3>2 DEF F
    <2> DEFINE P == proc'
    <2>11. Held(P, child) = PagesIn(s) /\ Held(proc, child) = {} /\ \A q \in Procs \ {child} : Held(P, q) = Held(proc, q)
      BY <1>1, <2>6, <2>7 DEF Held
    <2> HIDE DEF P
    <2>12. PagesIn(s) \subseteq Total(mem) BY <2>4 DEF Took
    <2>13. Total(mem) \cap lost = {} BY <1>4 DEF Accounts
    <2>14. Held(P, child) \cap Total(mem') = {} /\ Held(P, child) \cap lost = {} /\ Total(mem') \cap lost = {}
      BY <2>10, <2>11, <2>12, <2>13
    <2>15. Held(P, child) \cup Total(mem') \cup lost = Held(proc, child) \cup Total(mem) \cup lost
      BY <2>10, <2>11, <2>12
    <2>16. Accounts(P, Total(mem'), lost) BY <1>4, <2>11, <2>14, <2>15, Regroup
    <2>17. PagesHeld' BY <1>11, <2>10, <2>16 DEF PagesHeld, P
    <2>18. QED BY <2>9, <2>10, <2>17 DEF MemInv
  <1>12. CASE /\ \E k \in 0..n :
                    LET F == copy_blocks(k)
                    IN  /\ F.ok
                        /\ mem' = F.M /\ data' = F.D
                        /\ lost' = lost \cup UNION {PRange(b) : b \in Range(F.new)}
              /\ UNCHANGED proc
    <2>1. PICK k \in 0..n :
             /\ copy_blocks(k).ok /\ mem' = copy_blocks(k).M /\ data' = copy_blocks(k).D
             /\ lost' = lost \cup UNION {PRange(b) : b \in Range(copy_blocks(k).new)}
      BY <1>12
    <2> DEFINE R == copy_blocks(k)
               s == R.new
               F == PagesIn(s)
               N == R.M
               cs == SubSeq(bs, 1, k)
    <2>2. R = Copies(mem, data, cs) BY CopyIs
    <2>3. mem' = N /\ data' = R.D /\ lost' = lost \cup UNION {PRange(b) : b \in Range(s)} BY <2>1
    <2>4. k \in 0..Len(bs) BY <1>8
    <2> HIDE DEF R, bs
    <2>5. InUse(mem, cs) BY <1>5, <1>7, <2>4, FirstBlocks
    <2> HIDE DEF cs
    <2>6. Copying(R, Len(cs), mem, data, cs) BY <1>4, <2>2, <2>5, CopiesAll
    <2>7. R.D \in [Frames -> Data] /\ s \in Seq(Block) /\ Took(mem, N, F) BY <2>6 DEF Copying
    <2> HIDE DEF s, N
    <2>8. lost' = lost \cup F BY <2>3, <2>7, PagesOfRange
    <2> HIDE DEF F
    <2>9. F \subseteq Frames /\ F \subseteq Total(mem) BY <2>7 DEF Took
    <2>10. proc'[current] = pr BY <1>12
    <2> HIDE DEF pr
    <2>11. Running' /\ Left' /\ Sound(mem') /\ ~mem'.warned /\ Total(mem') = Total(mem) \ F
      BY <1>10, <2>3, <2>7, <2>10
    <2>12. Typed' BY <1>1, <1>3, <1>4, <1>12, <2>3, <2>7, <2>8, <2>9 DEF Typed, MemInv
    <2> DEFINE H == Held(proc, current)
    <2>13. H \cap Total(mem) = {} /\ H \cap lost = {} /\ Total(mem) \cap lost = {} BY <1>3, <1>4 DEF Accounts
    <2>14. \A q \in Procs \ {current} : Held(proc, q) = Held(proc, q) OBVIOUS
    <2> HIDE DEF H
    <2>15. H \cap Total(mem') = {} /\ H \cap lost' = {} /\ Total(mem') \cap lost' = {}
      BY <2>8, <2>9, <2>11, <2>13
    <2>16. H \cup Total(mem') \cup lost' = H \cup Total(mem) \cup lost BY <2>8, <2>9, <2>11
    <2>17. Accounts(proc, Total(mem'), lost') BY <1>3, <1>4, <2>14, <2>15, <2>16, Regroup DEF H
    <2>18. PagesHeld' BY <1>12, <2>11, <2>17 DEF PagesHeld
    <2>19. QED BY <2>11, <2>12, <2>18 DEF MemInv
  <1>13. QED BY <1>2, <1>11, <1>12

-----------------------------------------------------------------------------
(* process_ini_kern *)

\* kmain has tried to make p.
LEMMA BootStep ==
    ASSUME MemInv, phase = "boot", UNCHANGED <<current, phase>>,
           NEW p \in Procs \ tried, tried' = tried \cup {p},
           NEW P, proc' = P, P = [q \in Procs |-> P[q]], \A q \in Procs \ {p} : P[q] = proc[q], Slot(P[p]),
           Sound(mem'), ~mem'.warned, data' \in [Frames -> Data], lost' \subseteq Frames, stale' \subseteq User,
           Held(P, p) \cap Total(mem') = {}, Held(P, p) \cap lost' = {}, Total(mem') \cap lost' = {},
           Held(P, p) \cup Total(mem') \cup lost' = Total(mem) \cup lost,
           \A x \in User : Framed(mem', x) => x \in stale'
    PROVE  MemInv'
  <1>1. /\ current = NULL /\ (\A q \in Procs \ tried : proc[q] = NoProc) /\ (\A q \in Procs : Slot(proc[q]))
        /\ Accounts(proc, Total(mem), lost)
    BY DEF MemInv, Typed, PagesHeld, Running
  <1>2. Held(proc, p) = {} BY <1>1, EmptySlot DEF Held
  <1>3. \A q \in Procs \ {p} : Held(P, q) = Held(proc, q) BY DEF Held
  <1>4. Held(P, p) \cup Total(mem') \cup lost' = Held(proc, p) \cup Total(mem) \cup lost BY <1>2
  <1>5. Accounts(P, Total(mem'), lost') BY <1>1, <1>3, <1>4, Regroup
  <1>6. \A q \in Procs : Slot(P[q]) BY <1>1
  <1>7. Typed' BY <1>1, <1>6 DEF Typed
  <1>8. PagesHeld' BY <1>5 DEF PagesHeld
  <1>9. Running' BY <1>1 DEF Running
  <1>10. Left' BY DEF Left
  <1>11. QED BY <1>7, <1>8, <1>9, <1>10 DEF MemInv

\* A process with a block of code and one of stack.
LEMMA FirstProcess ==
    ASSUME NEW c, BlockOK(c), c.n > 0, NEW s, BlockOK(s), s.n > 0, Disjoint(s, c),
           NEW pr, pr = [state |-> "live", mm_heap |-> <<>>, mm_stack |-> <<s>>, mm_code |-> c]
    PROVE  /\ Slot(pr) /\ pr.state = "live" /\ Blocks(pr) \in Seq(Block) /\ Fine(Blocks(pr))
           /\ Blocks(pr) = <<s>> \o <<c>>
           /\ PagesIn(Blocks(pr)) = PRange(s) \cup PRange(c) /\ PlacesIn(Blocks(pr)) = VRange(s) \cup VRange(c)
  <1> DEFINE o == <<s>>
             t == <<c>>
             e == <<>>
             u == o \o t
  <1>1. s \in Block /\ c \in Block BY DEF BlockOK
  <1>2. o \in Seq(Block) /\ PagesIn(o) = PRange(s) /\ PlacesIn(o) = VRange(s) /\ Distinct(o) BY <1>1, OneBlock
  <1>3. t \in Seq(Block) /\ PagesIn(t) = PRange(c) /\ PlacesIn(t) = VRange(c) /\ Distinct(t) BY <1>1, OneBlock
  <1>4. Len(o) = 1 /\ o[1] = s /\ Len(t) = 1 /\ t[1] = c OBVIOUS
  <1>5. e \in Seq(Block) OBVIOUS
  <1>6. pr.state = "live" /\ pr.mm_heap = e /\ pr.mm_stack = o /\ pr.mm_code = c
        /\ pr = [state |-> pr.state, mm_heap |-> pr.mm_heap, mm_stack |-> pr.mm_stack, mm_code |-> pr.mm_code]
    OBVIOUS
  <1>7. Blocks(pr) = (e \o o) \o t BY <1>6 DEF Blocks
  <1>8. e \o o = o
    <2> HIDE DEF o
    <2>1. QED BY <1>2, ConcatEmptySeq
  <1> HIDE DEF o, t, e
  <1>9. Fine(o) BY <1>1, <1>2, <1>4 DEF Fine, BlocksOK, Each, NotEmpty
  <1>10. Fine(t) BY <1>1, <1>3, <1>4 DEF Fine, BlocksOK, Each, NotEmpty
  <1>11. Beside(o, t) BY <1>2, <1>3 DEF Beside, Disjoint
  <1>12. Fine(u) BY <1>2, <1>3, <1>9, <1>10, <1>11, FineOf
  <1>13. u \in Seq(Block) /\ PagesIn(u) = PagesIn(o) \cup PagesIn(t) /\ PlacesIn(u) = PlacesIn(o) \cup PlacesIn(t)
    BY <1>2, <1>3, Concats
  <1>14. Blocks(pr) = u BY <1>7, <1>8
  <1> HIDE DEF u
  <1>15. \A j \in 1..Len(u) : u[j].n > 0 BY <1>12, <1>13, EachIs DEF Fine
  <1>16. Slot(pr) BY <1>1, <1>2, <1>5, <1>6, <1>12, <1>13, <1>14, <1>15 DEF Slot, Fine
  <1>17. Blocks(pr) = <<s>> \o <<c>> BY <1>14 DEF u, o, t
  <1>18. QED BY <1>2, <1>3, <1>6, <1>12, <1>13, <1>14, <1>16, <1>17

LEMMA IniKernStep ==
    ASSUME MemInv, NEW p \in Procs, process_ini_kern(p)
    PROVE  MemInv'
  <1> DEFINE v == Images[p].v
             n == Images[p].n
             W == v..(v + n - 1)
             T == TOP..(TOP + 1 - 1)
             code == process_memory_add(mem, v, n)
             C == code.M
             c == code.b
             stack == process_memory_add(C, TOP, 1)
             S == stack.M
             s == stack.b
             new == [state |-> "live", mm_heap |-> <<>>, mm_stack |-> <<s>>, mm_code |-> c]
             out == process_memory_switch(S, new, FALSE)
  <1>1. phase = "boot" /\ p \in DOMAIN Images \ tried /\ tried' = tried \cup {p} /\ UNCHANGED <<current, phase>>
    BY DEF process_ini_kern
  <1>2. \/ /\ code.ok /\ stack.ok
           /\ proc' = [proc EXCEPT ![p] = new]
           /\ mem' = out.M
           /\ data' = Contents(out.M, Holding(Holding(data, c, 1), s, 0))
           /\ UNCHANGED <<lost, stale>>
        \/ /\ code.ok
           /\ mem' = C \/ (~stack.ok /\ mem' = S)
           /\ \E x \in {NoBlock, s} : data' = Contents(mem', Holding(Holding(data, c, 1), x, 0))
           /\ lost' = lost \cup PRange(c)
           /\ stale' = stale \cup VRange(c)
           /\ UNCHANGED proc
        \/ /\ mem' = mem \/ (~code.ok /\ mem' = C)
           /\ \E x \in {NoBlock, c} : data' = Contents(mem', Holding(data, x, 0))
           /\ UNCHANGED <<proc, lost, stale>>
    BY DEF process_ini_kern
  <1>3. p \in Procs \ tried /\ v \in Nat /\ n \in Nat \ {0} /\ W \subseteq User \ {TOP}
    BY <1>1, ProcMemAssumption
  <1>4. /\ Sound(mem) /\ ~mem.warned /\ Accounts(proc, Total(mem), lost) /\ current = NULL
        /\ proc = [q \in Procs |-> proc[q]] /\ (\A q \in Procs : Slot(proc[q]))
        /\ data \in [Frames -> Data] /\ lost \subseteq Frames /\ stale \subseteq User
        /\ proc[p] = NoProc
    BY <1>1, <1>3 DEF MemInv, Typed, PagesHeld, Running
  <1>5. Added(code, mem, v, n) BY <1>3, <1>4, Adds
  <1>6. Held(proc, p) = {} BY <1>4, EmptySlot DEF Held
  <1>7. \A x \in User : Framed(mem, x) => x \in stale BY <1>1, <1>4 DEF MemInv, Left
  <1>8. Total(mem) \cap lost = {} BY <1>4 DEF Accounts
  <1> HIDE DEF code
  <1>9. /\ Sound(C) /\ C.warned = mem.warned /\ Entries(mem, C, W) /\ code.ok \in BOOLEAN
        /\ code.ok => /\ BlockOK(c) /\ c.v = v /\ c.n = n /\ BlockMapped(C, c)
                      /\ PRange(c) \subseteq Total(mem) /\ Total(C) = Total(mem) \ PRange(c)
        /\ ~code.ok => /\ Total(C) = Total(mem) /\ \A x \in W : Framed(C, x) => Framed(mem, x)
    BY <1>5 DEF Added
  <1> HIDE DEF C
  <1>10. T = {TOP} /\ T \subseteq User /\ TOP \in Nat BY Pages
  <1>11. Added(stack, C, TOP, 1)
    <2> DEFINE k == 1
    <2>1. k \in Nat /\ TOP..(TOP + k - 1) \subseteq User BY <1>10
    <2>2. TOP \in Nat BY <1>10
    <2> HIDE DEF k
    <2>3. Added(process_memory_add(C, TOP, k), C, TOP, k) BY <1>9, <2>1, <2>2, Adds
    <2>4. QED BY <2>3 DEF k
  <1> HIDE DEF stack
  <1>12. /\ Sound(S) /\ S.warned = C.warned /\ Entries(C, S, T) /\ stack.ok \in BOOLEAN
         /\ stack.ok => /\ BlockOK(s) /\ s.v = TOP /\ s.n = 1 /\ BlockMapped(S, s)
                        /\ PRange(s) \subseteq Total(C) /\ Total(S) = Total(C) \ PRange(s)
         /\ ~stack.ok => /\ Total(S) = Total(C) /\ \A x \in T : Framed(S, x) => Framed(C, x)
    BY <1>11 DEF Added
  <1> HIDE DEF S, W
  <1>13. ASSUME NEW x \in User, Framed(C, x), ~code.ok \/ x \notin W PROVE x \in stale
    BY <1>7, <1>9, <1>13, Pages DEF Entries
  <1>14. code.ok => VRange(c) = W BY <1>9 DEF VRange, W
  <1>15. CASE /\ code.ok /\ stack.ok
              /\ proc' = [proc EXCEPT ![p] = new]
              /\ mem' = out.M
              /\ data' = Contents(out.M, Holding(Holding(data, c, 1), s, 0))
              /\ UNCHANGED <<lost, stale>>
    <2> DEFINE bs == Blocks(new)
               D == Holding(Holding(data, c, 1), s, 0)
               N == out.M
    <2>1. VRange(s) = {TOP} BY <1>10, <1>12, <1>15 DEF VRange
    <2>2. Disjoint(s, c) BY <1>3, <1>9, <1>12, <1>14, <1>15, <2>1 DEF Disjoint
    <2>3. c.n > 0 /\ s.n > 0 /\ BlockOK(c) /\ BlockOK(s) BY <1>3, <1>9, <1>12, <1>15
    <2> HIDE DEF c, s
    <2>4. /\ Slot(new) /\ new.state = "live" /\ bs \in Seq(Block) /\ Fine(bs) /\ bs = <<s>> \o <<c>>
          /\ PagesIn(bs) = PRange(s) \cup PRange(c) /\ PlacesIn(bs) = VRange(s) \cup VRange(c)
      BY <2>2, <2>3, FirstProcess
    <2> HIDE DEF new
    <2>5. AllMapped(S, bs)
      <3> DEFINE o == <<s>>
                 t == <<c>>
      <3>1. VRange(c) \cap T = {} BY <1>3, <1>10, <1>14, <1>15
      <3>2. BlockMapped(S, c) BY <1>9, <1>12, <1>15, <2>3, <3>1, StaysMapped
      <3>3. BlockMapped(S, s) BY <1>12, <1>15
      <3>4. Len(o) = 1 /\ o[1] = s /\ Len(t) = 1 /\ t[1] = c OBVIOUS
      <3>5. o \in Seq(Block) /\ t \in Seq(Block) BY <2>3, OneBlock DEF BlockOK
      <3> HIDE DEF o, t
      <3>6. AllMapped(S, o) /\ AllMapped(S, t) BY <3>2, <3>3, <3>4 DEF AllMapped
      <3>7. AllMapped(S, o \o t) BY <3>5, <3>6, AllMappedOf
      <3>8. QED BY <2>4, <3>7 DEF o, t
    <2>6. SwitchedOut(out, S, bs) BY <1>12, <2>4, SwitchesOut DEF Fine
    <2> HIDE DEF out, bs
    <2>7. Keeps(S, N, PlacesIn(bs)) /\ AllGone(N, bs) BY <2>4, <2>5, <2>6 DEF SwitchedOut, Fine
    <2> HIDE DEF N
    <2>8. Sound(N) /\ N.warned = S.warned /\ Total(N) = Total(S) BY <2>7 DEF Keeps, Total
    <2> DEFINE P == [proc EXCEPT ![p] = new]
    <2>9. P = [q \in Procs |-> P[q]] /\ P[p] = new /\ \A q \in Procs \ {p} : P[q] = proc[q] BY <1>4
    <2> HIDE DEF P
    <2>10. proc' = P /\ mem' = N /\ data' = Contents(N, D) /\ UNCHANGED <<lost, stale>>
      BY <1>15 DEF P, N
    <2>11. Held(P, p) = PRange(s) \cup PRange(c) BY <2>4, <2>9 DEF Held, bs
    <2> DEFINE F == PRange(s)
               G == PRange(c)
    <2>12. G \subseteq Total(mem) /\ F \subseteq Total(mem) \ G /\ Total(mem') = (Total(mem) \ G) \ F
      BY <1>9, <1>12, <1>15, <2>8, <2>10 DEF c, s
    <2> HIDE DEF F, G
    <2>13. Held(P, p) = F \cup G BY <2>11 DEF F, G
    <2>14. Held(P, p) \cap Total(mem') = {} /\ Held(P, p) \cap lost' = {} /\ Total(mem') \cap lost' = {}
      BY <1>8, <2>10, <2>12, <2>13
    <2>15. Held(P, p) \cup Total(mem') \cup lost' = Total(mem) \cup lost BY <2>10, <2>12, <2>13
    <2>16. data' \in [Frames -> Data]
      <3>1. Holding(data, c, 1) \in [Frames -> Data] BY <1>4, HoldingIs DEF Data
      <3>2. D \in [Frames -> Data] BY <3>1, HoldingIs DEF Data
      <3> HIDE DEF D
      <3>3. QED BY <2>10, <3>2, ContentsIs
    <2>17. ASSUME NEW x \in User, Framed(mem', x) PROVE x \in stale'
      <3>1. x \notin PlacesIn(bs) BY <2>7, <2>10, <2>17 DEF AllGone
      <3>2. Framed(S, x) BY <2>7, <2>10, <2>17, <3>1, Pages DEF Keeps
      <3>3. x \notin T /\ x \notin W BY <1>10, <1>14, <1>15, <2>1, <2>4, <3>1 DEF c, bs
      <3>4. Framed(C, x) BY <1>12, <3>2, <3>3, Pages DEF Entries
      <3>5. QED BY <1>13, <2>10, <3>3, <3>4
    <2>18. Sound(mem') /\ ~mem'.warned /\ lost' \subseteq Frames /\ stale' \subseteq User /\ Slot(P[p])
      BY <1>4, <1>9, <1>12, <2>4, <2>8, <2>9, <2>10
    <2>19. QED
      BY <1>1, <1>3, <2>9, <2>10, <2>14, <2>15, <2>16, <2>17, <2>18, BootStep
  <1>16. CASE /\ code.ok
              /\ mem' = C \/ (~stack.ok /\ mem' = S)
              /\ \E x \in {NoBlock, s} : data' = Contents(mem', Holding(Holding(data, c, 1), x, 0))
              /\ lost' = lost \cup PRange(c)
              /\ stale' = stale \cup VRange(c)
              /\ UNCHANGED proc
    <2> DEFINE G == PRange(c)
    <2>1. Sound(mem') /\ mem'.warned = mem.warned /\ Total(mem') = Total(C) BY <1>9, <1>12, <1>16
    <2>2. \A x \in User : Framed(mem', x) => Framed(C, x)
      <3>1. ~stack.ok => \A x \in User : Framed(S, x) => Framed(C, x) BY <1>12, Pages DEF Entries
      <3>2. QED BY <1>16, <3>1
    <2>3. G \subseteq Total(mem) /\ Total(mem') = Total(mem) \ G /\ G \subseteq Frames
      BY <1>9, <1>16, <2>1 DEF BlockOK
    <2>4. VRange(c) = W /\ W \subseteq User BY <1>3, <1>14, <1>16
    <2>5. \A x \in User : Framed(mem', x) => x \in stale' BY <1>13, <1>16, <2>2, <2>4
    <2> HIDE DEF G
    <2>6. data' \in [Frames -> Data]
      <3> DEFINE D == Holding(data, c, 1)
      <3>1. PICK x \in {NoBlock, s} : data' = Contents(mem', Holding(D, x, 0)) BY <1>16
      <3>2. D \in [Frames -> Data] BY <1>4, HoldingIs DEF Data
      <3> HIDE DEF D
      <3> DEFINE E == Holding(D, x, 0)
      <3>3. E \in [Frames -> Data] BY <3>2, HoldingIs DEF Data
      <3>4. data' = Contents(mem', E) BY <3>1
      <3> HIDE DEF E
      <3>5. QED BY <3>3, <3>4, ContentsIs
    <2>7. lost' = lost \cup G BY <1>16 DEF G
    <2>8. lost' \subseteq Frames /\ stale' \subseteq User BY <1>4, <1>16, <2>3, <2>4, <2>7
    <2> DEFINE P == proc
    <2>9. proc' = P /\ P = [q \in Procs |-> P[q]] /\ Slot(P[p]) /\ Held(P, p) = {} BY <1>4, <1>6, <1>16
    <2>10. \A q \in Procs \ {p} : P[q] = proc[q] OBVIOUS
    <2> HIDE DEF P
    <2>11. Held(P, p) \cap Total(mem') = {} /\ Held(P, p) \cap lost' = {} /\ Total(mem') \cap lost' = {}
      BY <1>8, <2>3, <2>7, <2>9
    <2>12. Held(P, p) \cup Total(mem') \cup lost' = Total(mem) \cup lost BY <2>3, <2>7, <2>9
    <2>13. ~mem'.warned BY <1>4, <2>1
    <2>14. QED
      BY <1>1, <1>3, <2>1, <2>5, <2>6, <2>8, <2>9, <2>10, <2>11, <2>12, <2>13, BootStep
  <1>17. CASE /\ mem' = mem \/ (~code.ok /\ mem' = C)
              /\ \E x \in {NoBlock, c} : data' = Contents(mem', Holding(data, x, 0))
              /\ UNCHANGED <<proc, lost, stale>>
    <2>1. Sound(mem') /\ ~mem'.warned /\ Total(mem') = Total(mem) BY <1>4, <1>9, <1>17
    <2>2. \A x \in User : Framed(mem', x) => x \in stale' BY <1>7, <1>13, <1>17
    <2>3. data' \in [Frames -> Data]
      <3>1. PICK x \in {NoBlock, c} : data' = Contents(mem', Holding(data, x, 0)) BY <1>17
      <3> DEFINE E == Holding(data, x, 0)
      <3>2. E \in [Frames -> Data] BY <1>4, HoldingIs DEF Data
      <3>3. data' = Contents(mem', E) BY <3>1
      <3> HIDE DEF E
      <3>4. QED BY <3>2, <3>3, ContentsIs
    <2> DEFINE P == proc
    <2>4. proc' = P /\ P = [q \in Procs |-> P[q]] /\ Slot(P[p]) /\ Held(P, p) = {} BY <1>4, <1>6, <1>17
    <2>5. \A q \in Procs \ {p} : P[q] = proc[q] OBVIOUS
    <2> HIDE DEF P
    <2>6. Held(P, p) \cap Total(mem') = {} /\ Held(P, p) \cap lost' = {} /\ Total(mem') \cap lost' = {}
      BY <1>8, <1>17, <2>1, <2>4
    <2>7. Held(P, p) \cup Total(mem') \cup lost' = Total(mem) \cup lost BY <1>17, <2>1, <2>4
    <2>8. lost' \subseteq Frames /\ stale' \subseteq User BY <1>4, <1>17
    <2>9. QED BY <1>1, <1>3, <2>1, <2>2, <2>3, <2>4, <2>5, <2>6, <2>7, <2>8, BootStep
  <1>18. QED BY <1>2, <1>15, <1>16, <1>17

-----------------------------------------------------------------------------
(* The theorems *)

LEMMA NextInv ==
    ASSUME MemInv, [Next]_vars
    PROVE  MemInv'
  <1>1. CASE UNCHANGED vars
    <2>1. UNCHANGED <<mem, data, proc, current, phase, tried, lost, stale>> BY <1>1 DEF vars
    <2>2. QED BY <2>1 DEF MemInv, Typed, PagesHeld, Running, Left
  <1>2. ASSUME NEW p \in Procs, process_ini_kern(p) PROVE MemInv' BY <1>2, IniKernStep
  <1>3. ASSUME NEW p \in Procs, process_dup(p) PROVE MemInv' BY <1>3, DupStep
  <1>4. ASSUME NEW p \in Procs, process_die(p) PROVE MemInv' BY <1>4, DieStep
  <1>5. ASSUME NEW p \in Procs, reap(p) PROVE MemInv' BY <1>5, ReapStep
  <1>6. CASE Start BY <1>6, StartStep
  <1>7. CASE switch_process BY <1>7, SwitchProcessStep
  <1>8. ASSUME NEW n \in Sizes, mmap(n) PROVE MemInv' BY <1>8, MmapStep
  <1>9. ASSUME NEW i \in 1..TOP, munmap(i) PROVE MemInv' BY <1>9, MunmapStep
  <1>10. ASSUME NEW v \in User, store(v) PROVE MemInv' BY <1>10, StoreStep
  <1>11. CASE Panicked BY <1>1, <1>11 DEF Panicked
  <1>12. QED BY <1>1, <1>2, <1>3, <1>4, <1>5, <1>6, <1>7, <1>8, <1>9, <1>10, <1>11 DEF Next

\* process.c, copy_process.c, process_die.c and interrupt_process.c together: the
\* invariant the theorems below follow from.
THEOREM MemInvariant == ProcMemSpec => []MemInv
  BY InvInit, NextInv, PTL DEF ProcMemSpec

\* process_memory_add, process_memory_switch: every block of a process lies in
\* user pages, page 0 never among them, and the tables lead to pages of memory.
THEOREM MemTypesOK == ProcMemSpec => []MemTypeOK
  <1>1. MemInv => MemTypeOK
    <2> SUFFICES ASSUME MemInv PROVE MemTypeOK OBVIOUS
    <2>1. mem.mm \subseteq Frames /\ \A v \in VPages : mem.pte[v] \in Frames \cup {NULL, JUNK}
      BY DEF MemInv, PagesHeld, Sound, MemType
    <2>2. ASSUME NEW p \in Procs PROVE Mapped(proc[p]) \subseteq User
      <3>1. BlocksOK(Blocks(proc[p])) BY DEF MemInv, Typed, Slot
      <3>2. Mapped(proc[p]) = PlacesIn(Blocks(proc[p])) BY <3>1, MappedIs DEF BlocksOK
      <3>3. QED BY <3>1, <3>2, PlacesOK
    <2>3. QED BY <2>1, <2>2 DEF MemInv, Typed, MemTypeOK
  <1>2. QED BY <1>1, MemInvariant, PTL

\* process_memory_switch, process_memory_add, munmap: whatever was mapped,
\* unmapped, forked and switched before, the process that runs finds its own
\* pages behind its addresses.
THEOREM ProcessRunsOnItsOwn == ProcMemSpec => []RunsOnItsOwn
  <1>1. MemInv => RunsOnItsOwn
    <2> SUFFICES ASSUME MemInv, Runs, NEW b \in Range(Blocks(proc[current])), NEW i \in 0..(b.n - 1)
                 PROVE  page_get_phys(mem, b.v + i) = b.p + i
      BY DEF RunsOnItsOwn
    <2>1. phase = "run" /\ current \in Procs /\ current # NULL BY ProcMemAssumption DEF Runs, Live
    <2> DEFINE bs == Blocks(proc[current])
    <2>2. AllMapped(mem, bs) /\ bs \in Seq(Block)
      BY <2>1 DEF MemInv, Typed, Slot, BlocksOK, Running
    <2> HIDE DEF bs
    <2>3. PICK j \in 1..Len(bs) : b = bs[j]
      <3>1. DOMAIN bs = 1..Len(bs) BY <2>2
      <3>2. QED BY <3>1 DEF Range, bs
    <2>4. BlockMapped(mem, b) BY <2>2, <2>3 DEF AllMapped
    <2>5. QED BY <2>4 DEF BlockMapped, MappedTo, page_get_phys
  <1>2. QED BY <1>1, MemInvariant, PTL

\* get_phys_block, free_phys_block, copy_process.c, process_die.c: every physical
\* page has exactly one use, so that no two processes, and no process and a page
\* table, ever share one, nothing is lost but by a fork or a boot that fails, and
\* no page is freed that is free.
THEOREM EveryFrameAccounted == ProcMemSpec => []FramesAccounted
  <1>1. MemInv => FramesAccounted
    <2> SUFFICES ASSUME MemInv PROVE FramesAccounted OBVIOUS
    <2> DEFINE blocks == UNION {{<<p, i>> : i \in DOMAIN Blocks(proc[p])} : p \in Live}
               pages(u) == PRange(Blocks(proc[u[1]])[u[2]])
               owned == UNION {pages(u) : u \in blocks}
               parts == {mem.mm, TablePages(mem), owned, lost}
    <2>1. Sound(mem) /\ Accounts(proc, Total(mem), lost) BY DEF MemInv, PagesHeld
    <2>2. ASSUME NEW p \in Live
          PROVE  /\ p \in Procs /\ DOMAIN Blocks(proc[p]) = 1..Len(Blocks(proc[p])) /\ Distinct(Blocks(proc[p]))
                 /\ Held(proc, p) = PagesIn(Blocks(proc[p]))
      <3>1. p \in Procs /\ Slot(proc[p]) /\ proc[p].state = "live" BY DEF MemInv, Typed, Live
      <3> DEFINE bs == Blocks(proc[p])
      <3>2. bs \in Seq(Block) /\ Distinct(bs) BY <3>1 DEF Slot, BlocksOK
      <3>3. Held(proc, p) = PagesIn(bs) BY <3>1 DEF Held
      <3> HIDE DEF bs
      <3>4. DOMAIN bs = 1..Len(bs) BY <3>2
      <3>5. QED BY <3>1, <3>2, <3>3, <3>4 DEF bs
    <2>3. ASSUME NEW u \in blocks
          PROVE  \E p \in Live : \E i \in 1..Len(Blocks(proc[p])) :
                    u = <<p, i>> /\ pages(u) = PRange(Blocks(proc[p])[i])
      <3>0. PICK p \in Live : \E i \in DOMAIN Blocks(proc[p]) : u = <<p, i>> OBVIOUS
      <3>1. PICK i \in DOMAIN Blocks(proc[p]) : u = <<p, i>> BY <3>0
      <3>2. u[1] = p /\ u[2] = i BY <3>1
      <3>3. i \in 1..Len(Blocks(proc[p])) BY <2>2
      <3>4. QED BY <3>1, <3>2, <3>3
    <2>4. ASSUME NEW p \in Live, NEW i \in 1..Len(Blocks(proc[p]))
          PROVE  <<p, i>> \in blocks /\ pages(<<p, i>>) = PRange(Blocks(proc[p])[i])
      <3>1. i \in DOMAIN Blocks(proc[p]) BY <2>2
      <3>2. QED BY <3>1
    <2> HIDE DEF blocks, pages
    <2>5. ASSUME NEW u \in blocks, NEW w \in blocks, u # w PROVE pages(u) \cap pages(w) = {}
      <3>1. PICK p \in Live : \E i \in 1..Len(Blocks(proc[p])) :
                u = <<p, i>> /\ pages(u) = PRange(Blocks(proc[p])[i])
        BY <2>3
      <3>2. PICK q \in Live : \E j \in 1..Len(Blocks(proc[q])) :
                w = <<q, j>> /\ pages(w) = PRange(Blocks(proc[q])[j])
        BY <2>3
      <3>3. PICK i \in 1..Len(Blocks(proc[p])) : u = <<p, i>> /\ pages(u) = PRange(Blocks(proc[p])[i])
        BY <3>1
      <3>4. PICK j \in 1..Len(Blocks(proc[q])) : w = <<q, j>> /\ pages(w) = PRange(Blocks(proc[q])[j])
        BY <3>2
      <3>5. CASE p = q
        <4>1. i # j BY <2>5, <3>3, <3>4, <3>5
        <4>2. Distinct(Blocks(proc[p])) BY <2>2
        <4>3. QED BY <3>3, <3>4, <3>5, <4>1, <4>2 DEF Distinct, Disjoint
      <3>6. CASE p # q
        <4>1. Held(proc, p) \cap Held(proc, q) = {} BY <2>1, <2>2, <3>6 DEF Accounts
        <4>2. pages(u) \subseteq Held(proc, p) /\ pages(w) \subseteq Held(proc, q)
          BY <2>2, <3>3, <3>4 DEF PagesIn
        <4>3. QED BY <4>1, <4>2
      <3>7. QED BY <3>5, <3>6
    <2>6. owned = UNION {Held(proc, p) : p \in Procs}
      <3>1. ASSUME NEW f \in owned PROVE f \in UNION {Held(proc, p) : p \in Procs}
        <4>1. PICK u \in blocks : f \in pages(u) BY <3>1
        <4>2. PICK p \in Live : \E i \in 1..Len(Blocks(proc[p])) : pages(u) = PRange(Blocks(proc[p])[i])
          BY <2>3
        <4>3. f \in Held(proc, p) /\ p \in Procs BY <2>2, <4>1, <4>2 DEF PagesIn
        <4>4. QED BY <4>3
      <3>2. ASSUME NEW p \in Procs, NEW f \in Held(proc, p) PROVE f \in owned
        <4>1. p \in Live BY <3>2 DEF Held, Live
        <4>2. PICK i \in 1..Len(Blocks(proc[p])) : f \in PRange(Blocks(proc[p])[i])
          BY <2>2, <3>2, <4>1 DEF PagesIn
        <4>3. <<p, i>> \in blocks /\ f \in pages(<<p, i>>) BY <2>4, <4>1, <4>2
        <4>4. QED BY <4>3
      <3>3. QED BY <3>1, <3>2
    <2> HIDE DEF owned
    <2>7. \A d, e \in Tables : d # e /\ mem.dir[d] # NULL => mem.dir[d] # mem.dir[e]
      BY <2>1 DEF Sound, TablesApart
    <2> DEFINE T == TablePages(mem)
    <2>8. Total(mem) = mem.mm \cup T /\ mem.mm \cap T = {}
      <3>1. T = TablesOf(mem) BY DEF TablePages, TablesOf
      <3>2. mem.mm \cap TablesOf(mem) = {} BY <2>1 DEF Sound, TablesApart, TablesOf
      <3>3. QED BY <3>1, <3>2 DEF Total
    <2> HIDE DEF T
    <2>9. owned \cap Total(mem) = {} /\ owned \cap lost = {} /\ Total(mem) \cap lost = {}
      BY <2>1, <2>6 DEF Accounts
    <2>10. Total(mem) \cup lost \cup owned = Frames BY <2>1, <2>6 DEF Accounts
    <2>11. mem.mm \cap owned = {} /\ mem.mm \cap lost = {} /\ T \cap owned = {} /\ T \cap lost = {}
      BY <2>8, <2>9
    <2>12. \A A, B \in {mem.mm, T, owned, lost} : A # B => A \cap B = {} BY <2>8, <2>9, <2>11
    <2>13. UNION {mem.mm, T, owned, lost} = Frames
      <3>1. UNION {mem.mm, T, owned, lost} = mem.mm \cup T \cup owned \cup lost OBVIOUS
      <3>2. QED BY <2>8, <2>10, <3>1
    <2>14. ~mem.warned BY DEF MemInv, PagesHeld
    <2>15. QED BY <2>5, <2>7, <2>12, <2>13, <2>14 DEF FramesAccounted, blocks, pages, owned, T
  <1>2. QED BY <1>1, MemInvariant, PTL

\* proc_switch_p of interrupt_process.c: taking the old process out of the tables
\* never fails, and putting the new one in only when no page is left for a table.
THEOREM SwitchPanicsOnlyWhenFull == ProcMemSpec => []PanicsOnlyWhenFull
  <1>1. MemInv => PanicsOnlyWhenFull
    <2> SUFFICES ASSUME MemInv PROVE PanicsOnlyWhenFull OBVIOUS
    <2>1. phase # "unmap" BY DEF MemInv, Typed
    <2>2. ASSUME phase = "map" PROVE Cardinality(mem.mm) <= Cardinality(Tables)
      <3> DEFINE A == mem.mm
                 B == mem.mm \cup TablesOf(mem)
      <3>1. Full(mem) /\ Sound(mem) BY <2>2 DEF MemInv, Running, PagesHeld
      <3>2. Cardinality(B) <= Cardinality(Tables) BY <3>1 DEF Full
      <3>3. B \in SUBSET Frames BY <3>1 DEF Sound, MemType, TablesOf
      <3>4. A \in SUBSET B OBVIOUS
      <3> HIDE DEF A, B
      <3>5. IsFiniteSet(B) BY <3>3, ManyTables, FS_Subset
      <3>6. IsFiniteSet(A) /\ Cardinality(A) <= Cardinality(B) BY <3>4, <3>5, FS_Subset
      <3>7. Cardinality(A) \in Nat /\ Cardinality(B) \in Nat /\ Cardinality(Tables) \in Nat
        BY <3>5, <3>6, ManyTables, FS_CardinalityType
      <3>8. Cardinality(A) <= Cardinality(Tables) BY <3>2, <3>6, <3>7
      <3>9. QED BY <3>8 DEF A
    <2>3. QED BY <2>1, <2>2 DEF PanicsOnlyWhenFull
  <1>2. QED BY <1>1, MemInvariant, PTL

\* process_die.c, proc_switch_p: an entry of the tables that is not the running
\* process's own was left by a process that died while it ran, or by a boot that
\* failed.
THEOREM OnlyTheDeadLeaveEntries == ProcMemSpec => []OnlyTheDeadStay
  <1>1. MemInv => OnlyTheDeadStay
    <2> SUFFICES ASSUME MemInv, phase \in {"boot", "run"}, NEW v \in User, page_get_phys(mem, v) \in Frames
                 PROVE  v \in stale \/ (current # NULL /\ v \in Mapped(proc[current]))
      BY DEF OnlyTheDeadStay
    <2>1. Framed(mem, v) BY FrameFacts DEF page_get_phys, Framed
    <2>2. v \in stale \/ (current # NULL /\ v \in PlacesIn(Blocks(proc[current])))
      BY <2>1 DEF MemInv, Left
    <2>3. ASSUME current # NULL PROVE Mapped(proc[current]) = PlacesIn(Blocks(proc[current]))
      <3>1. BlocksOK(Blocks(proc[current])) BY <2>3 DEF MemInv, Typed, Slot
      <3>2. QED BY <3>1, MappedIs DEF BlocksOK
    <2>4. QED BY <2>2, <2>3
  <1>2. QED BY <1>1, MemInvariant, PTL

-----------------------------------------------------------------------------
(* The refinement: who changes which contents *)

\* The blocks of p, and what they hold, as functions of the processes P and the contents D.
AreasOf(P, p) == IF P[p].state = "live" THEN Range(Blocks(P[p])) ELSE {}
Holds(D, b) == [i \in 1..b.n |-> D[b.p + i - 1]]
BlockAt(A, v) == CHOOSE b \in A : b.v = v
SpaceOf(A, D) == [v \in {b.v : b \in A} |-> Holds(D, BlockAt(A, v))]

LEMMA SpaceIs ==
    /\ DOMAIN Space = Procs /\ DOMAIN Space' = Procs
    /\ Space = [p \in Procs |-> Space[p]] /\ Space' = [p \in Procs |-> Space'[p]]
    /\ \A p \in Procs : Space[p] = SpaceOf(AreasOf(proc, p), data)
    /\ \A p \in Procs : Space'[p] = SpaceOf(AreasOf(proc', p), data')
  <1>1. Space = [p \in Procs |-> SpaceOf(Areas(p), data)]
    BY DEF Space, SpaceOf, Holds, BlockAt
  <1>2. Space' = [p \in Procs |-> SpaceOf(Areas(p)', data')]
    BY DEF Space, SpaceOf, Holds, BlockAt
  <1>3. ASSUME NEW p \in Procs PROVE Areas(p) = AreasOf(proc, p) /\ Areas(p)' = AreasOf(proc', p)
    BY DEF Areas, AreasOf, Live
  <1>4. QED BY <1>1, <1>2, <1>3

\* No two areas of a process begin at the same page.
Unique(A) == \A b, c \in A : b.v = c.v => b = c

LEMMA SpaceHas ==
    ASSUME NEW A, Unique(A), NEW D
    PROVE  /\ DOMAIN SpaceOf(A, D) = {b.v : b \in A}
           /\ \A b \in A : SpaceOf(A, D)[b.v] = Holds(D, b)
  <1>1. \A b \in A : BlockAt(A, b.v) = b BY DEF Unique, BlockAt
  <1>2. QED BY <1>1 DEF SpaceOf

LEMMA SpaceSame ==
    ASSUME NEW A, Unique(A), NEW D, NEW E, \A b \in A : Holds(E, b) = Holds(D, b)
    PROVE  SpaceOf(A, E) = SpaceOf(A, D)
  <1> DEFINE s == SpaceOf(A, D)
             t == SpaceOf(A, E)
             V == {b.v : b \in A}
  <1>1. s = [v \in V |-> s[v]] /\ t = [v \in V |-> t[v]] BY DEF SpaceOf
  <1> HIDE DEF s, t
  <1>2. \A b \in A : t[b.v] = s[b.v]
    <2>1. \A b \in A : t[b.v] = Holds(E, b) BY SpaceHas DEF t
    <2>2. \A b \in A : s[b.v] = Holds(D, b) BY SpaceHas DEF s
    <2>3. QED BY <2>1, <2>2
  <1>3. \A v \in V : t[v] = s[v] BY <1>2
  <1> HIDE DEF V
  <1>4. QED BY <1>1, <1>3 DEF s, t

LEMMA NothingHeld ==
    ASSUME NEW P, NEW p, NEW D, P[p].state # "live"
    PROVE  SpaceOf(AreasOf(P, p), D) = Private!NoAreas
  <1>1. AreasOf(P, p) = {} BY DEF AreasOf
  <1>2. SpaceOf({}, D) = [v \in {} |-> <<>>] BY DEF SpaceOf
  <1>3. QED BY <1>1, <1>2 DEF Private!NoAreas

\* The blocks of a live process.
LEMMA AreasAre ==
    ASSUME NEW P, NEW p, P[p].state = "live", Slot(P[p]), NEW bs, bs = Blocks(P[p])
    PROVE  /\ AreasOf(P, p) = {bs[j] : j \in 1..Len(bs)} /\ bs \in Seq(Block)
           /\ \A b \in AreasOf(P, p) : BlockOK(b) /\ b.n > 0 /\ PRange(b) \subseteq Held(P, p)
           /\ \A b, c \in AreasOf(P, p) : b # c => Disjoint(b, c)
           /\ Unique(AreasOf(P, p))
           /\ AreasOf(P, p) # {}
  <1> DEFINE A == AreasOf(P, p)
             n == Len(bs)
  <1>1. bs \in Seq(Block) /\ Fine(bs) BY HeapIs
  <1>2. n \in Nat \ {0}
    <2> DEFINE x == Len(P[p].mm_heap)
               y == Len(P[p].mm_stack)
    <2>1. n = x + y + 1 BY BlocksIs DEF Slot
    <2>2. x \in Nat /\ y \in Nat BY DEF Slot
    <2> HIDE DEF x, y, n
    <2>3. QED BY <2>1, <2>2
  <1>3. A = {bs[j] : j \in 1..n}
    <2>1. DOMAIN bs = 1..n BY <1>1
    <2>2. QED BY <2>1 DEF AreasOf, Range
  <1>4. \A j \in 1..n : BlockOK(bs[j]) /\ bs[j].n > 0 BY <1>1 DEF Fine, BlocksOK, Each, NotEmpty
  <1>5. Held(P, p) = PagesIn(bs) BY DEF Held
  <1>6. \A j \in 1..n : PRange(bs[j]) \subseteq Held(P, p) BY <1>5 DEF PagesIn
  <1>7. \A i, j \in 1..n : i # j => Disjoint(bs[i], bs[j]) BY <1>1 DEF Fine, Distinct
  <1> HIDE DEF A, n
  <1>8. \A b \in A : BlockOK(b) /\ b.n > 0 /\ PRange(b) \subseteq Held(P, p) BY <1>3, <1>4, <1>6
  <1>9. \A b, c \in A : b # c => Disjoint(b, c) BY <1>3, <1>7
  <1>10. ASSUME NEW b \in A, NEW c \in A, b.v = c.v PROVE b = c
    <2>1. b.v \in VRange(b) /\ c.v \in VRange(c) BY <1>8 DEF BlockOK, Block, VRange
    <2>2. QED BY <1>9, <1>10, <2>1 DEF Disjoint
  <1>11. A # {} BY <1>2, <1>3, SMTT(30)
  <1>12. QED BY <1>1, <1>3, <1>8, <1>9, <1>10, <1>11 DEF A, n, Unique

LEMMA HoldsSame ==
    ASSUME NEW b, BlockOK(b), NEW D, NEW E, \A f \in PRange(b) : E[f] = D[f]
    PROVE  Holds(E, b) = Holds(D, b)
  <1>1. b.p \in Nat /\ b.n \in Nat BY FrameFacts DEF BlockOK, Block
  <1>2. \A i \in 1..b.n : b.p + i - 1 \in PRange(b) BY <1>1 DEF PRange
  <1>3. \A i \in 1..b.n : E[b.p + i - 1] = D[b.p + i - 1] BY <1>2
  <1>4. QED BY <1>3 DEF Holds

\* A process whose blocks stay, and whose pages hold what they held, keeps its memory.
LEMMA SpaceStays ==
    ASSUME Typed, NEW p \in Procs, proc'[p] = proc[p], \A f \in Held(proc, p) : data'[f] = data[f]
    PROVE  Space'[p] = Space[p]
  <1> DEFINE A == AreasOf(proc, p)
  <1>1. AreasOf(proc', p) = A BY DEF AreasOf
  <1>2. CASE proc[p].state # "live"
    <2>1. A = {} BY <1>2 DEF AreasOf
    <2>2. SpaceOf({}, data') = SpaceOf({}, data) BY SpaceSame DEF Unique
    <2>3. QED BY <1>1, <2>1, <2>2, SpaceIs
  <1>3. CASE proc[p].state = "live"
    <2>1. Slot(proc[p]) BY DEF Typed
    <2>2. Unique(A) /\ \A b \in A : BlockOK(b) /\ PRange(b) \subseteq Held(proc, p) BY <1>3, <2>1, AreasAre
    <2> HIDE DEF A
    <2>3. \A b \in A : Holds(data', b) = Holds(data, b) BY <2>2, HoldsSame
    <2>4. SpaceOf(A, data') = SpaceOf(A, data) BY <2>2, <2>3, SpaceSame
    <2>5. QED BY <1>1, <2>4, SpaceIs DEF A
  <1>4. QED BY <1>2, <1>3

LEMMA SpaceStutters ==
    ASSUME \A p \in Procs : Space'[p] = Space[p]
    PROVE  UNCHANGED Space
  BY SpaceIs

\* What a page table is cleared to when it goes is no process's.
LEMMA StaysStored ==
    ASSUME MemInv', NEW D \in [Frames -> Data], data' = Contents(mem', D),
           NEW p \in Procs, NEW f \in Held(proc', p)
    PROVE  data'[f] = D[f]
  <1>1. Accounts(proc', Total(mem'), lost') BY DEF MemInv, PagesHeld
  <1>2. f \in Frames /\ f \notin Total(mem') BY <1>1 DEF Accounts
  <1>3. f \notin TablesOf(mem') BY <1>2 DEF Total
  <1>4. QED BY <1>2, <1>3, ContentsIs

LEMMA SwitchPriv ==
    ASSUME MemInv, MemInv', switch_process
    PROVE  UNCHANGED Space
  <1>1. PICK new : proc_switch(mem, proc, current, new) BY DEF switch_process
  <1>2. proc' = proc /\ data' = Contents(mem', data) BY <1>1 DEF proc_switch
  <1>3. Typed /\ data \in [Frames -> Data] BY DEF MemInv, Typed
  <1>4. ASSUME NEW p \in Procs PROVE Space'[p] = Space[p]
    <2>1. \A f \in Held(proc', p) : data'[f] = data[f] BY <1>2, <1>3, StaysStored
    <2>2. QED BY <1>2, <1>3, <2>1, SpaceStays
  <1>5. QED BY <1>4, SpaceStutters

\* A process is gone, or what it was has been freed before.
LEMMA ReapPriv ==
    ASSUME MemInv, NEW p \in Procs, reap(p)
    PROVE  UNCHANGED Space
  <1>1. proc[p].state = "zombie" /\ proc' = [proc EXCEPT ![p] = NoProc] /\ data' = data BY DEF reap
  <1>2. Typed /\ proc = [q \in Procs |-> proc[q]] BY DEF MemInv, Typed
  <1>3. proc'[p] = NoProc /\ \A q \in Procs \ {p} : proc'[q] = proc[q] BY <1>1, <1>2
  <1>4. \A q \in Procs \ {p} : Space'[q] = Space[q] BY <1>1, <1>2, <1>3, SpaceStays
  <1>5. Space[p] = Private!NoAreas BY <1>1, NothingHeld, SpaceIs
  <1>6. Space'[p] = Private!NoAreas BY <1>3, EmptySlot, NothingHeld, SpaceIs
  <1>7. QED BY <1>4, <1>5, <1>6, SpaceStutters

LEMMA DiePriv ==
    ASSUME MemInv, MemInv', NEW p \in Procs, process_die(p)
    PROVE  Private!Next
  <1> DEFINE M == process_free_all_memory(mem, proc[p])
  <1>1. PICK zombie \in BOOLEAN :
          \/ p # current /\ proc' = Ended(p, zombie) /\ data' = data
          \/ \E new \in Schedulable(Ended(p, zombie)) \ {p} : proc_switch(M, Ended(p, zombie), NULL, new)
    BY DEF process_die
  <1> DEFINE P == Ended(p, zombie)
  <1>2. Typed /\ data \in [Frames -> Data] BY DEF MemInv, Typed
  <1>3. (\A q \in Procs \ {p} : P[q] = proc[q]) /\ P[p].state # "live" BY <1>2, EndedSlot
  <1>4. proc' = P /\ (data' = data \/ data' = Contents(mem', data))
    <2>1. CASE data' = data /\ proc' = P BY <2>1
    <2>2. ASSUME NEW new, proc_switch(M, P, NULL, new) PROVE proc' = P /\ data' = Contents(mem', data)
      BY <2>2 DEF proc_switch
    <2> HIDE DEF P, M
    <2>3. QED BY <1>1, <2>1, <2>2 DEF P
  <1> HIDE DEF P
  <1>5. ASSUME NEW q \in Procs \ {p} PROVE Space'[q] = Space[q]
    <2>1. proc'[q] = proc[q] /\ Held(proc', q) = Held(proc, q) BY <1>3, <1>4 DEF Held
    <2>2. \A f \in Held(proc', q) : data'[f] = data[f] BY <1>2, <1>4, StaysStored
    <2>3. QED BY <1>2, <2>1, <2>2, SpaceStays
  <1>6. Space'[p] = Private!NoAreas BY <1>3, <1>4, NothingHeld, SpaceIs
  <1>7. Private!Free(p) BY <1>6 DEF Private!Free
  <1>8. QED BY <1>5, <1>7 DEF Private!Next

LEMMA HoldsLen ==
    ASSUME NEW b, BlockOK(b), NEW D
    PROVE  Len(Holds(D, b)) = b.n /\ \A i \in 1..b.n : Holds(D, b)[i] = D[b.p + i - 1]
  <1>1. b.n \in Nat BY DEF BlockOK, Block
  <1>2. QED BY <1>1 DEF Holds

LEMMA WriteIs ==
    ASSUME NEW p, DOMAIN Space'[p] = DOMAIN Space[p], NEW v \in DOMAIN Space[p],
           Len(Space'[p][v]) = Len(Space[p][v]), NEW i \in 1..Len(Space[p][v]),
           Space'[p] = [Space[p] EXCEPT ![v][i] = Space'[p][v][i]]
    PROVE  Private!Write(p)
  <1> DEFINE s == Space[p]
             t == Space'[p]
             X == {t[v][j] : j \in 1..Len(s[v])}
             x == t[v][i]
  <1>1. x \in X OBVIOUS
  <1>2. DOMAIN t = DOMAIN s /\ v \in DOMAIN s /\ Len(t[v]) = Len(s[v]) /\ i \in 1..Len(s[v])
        /\ t = [s EXCEPT ![v][i] = x]
    OBVIOUS
  <1> HIDE DEF s, t, x
  <1>3. \E j \in 1..Len(s[v]), y \in X : t = [s EXCEPT ![v][j] = y] BY <1>1, <1>2
  <1> HIDE DEF X
  <1>4. \E u \in DOMAIN s : /\ Len(t[u]) = Len(s[u])
                           /\ \E j \in 1..Len(s[u]), y \in {t[u][m] : m \in 1..Len(s[u])} :
                                 t = [s EXCEPT ![u][j] = y]
    BY <1>2, <1>3 DEF X
  <1>5. QED BY <1>2, <1>4, Zenon DEF Private!Write, s, t

\* A program's store changes one page of one of its blocks.
LEMMA StorePriv ==
    ASSUME MemInv, NEW v \in User, store(v)
    PROVE  Private!Next
  <1> DEFINE p == current
             pr == proc[p]
             bs == Blocks(pr)
             f == mem.pte[v]
             A == AreasOf(proc, p)
             s == SpaceOf(A, data)
             t == SpaceOf(A, data')
  <1>1. phase = "run" /\ p \in Live /\ v \in Mapped(pr) /\ data' = [data EXCEPT ![f] = 1] /\ proc' = proc
    BY DEF store, Call, Runs
  <1>2. p \in Procs /\ p # NULL /\ pr.state = "live" /\ Slot(pr) /\ Typed /\ data \in [Frames -> Data]
    BY <1>1, ProcMemAssumption DEF MemInv, Typed, Live
  <1>3. AllMapped(mem, bs) BY <1>1, <1>2 DEF MemInv, Running
  <1>4. /\ A = {bs[j] : j \in 1..Len(bs)} /\ bs \in Seq(Block)
        /\ \A b \in A : BlockOK(b) /\ b.n > 0 /\ PRange(b) \subseteq Held(proc, p)
        /\ \A b, c \in A : b # c => Disjoint(b, c)
        /\ Unique(A)
    BY <1>2, AreasAre
  <1>5. v \in PlacesIn(bs) BY <1>1, <1>4, MappedIs
  <1>6. PICK j \in 1..Len(bs) : v \in VRange(bs[j]) BY <1>5 DEF PlacesIn
  <1> DEFINE b == bs[j]
             k == v - b.v
             i == k + 1
  <1>7. b \in A /\ BlockOK(b) /\ BlockMapped(mem, b) BY <1>3, <1>4 DEF AllMapped
  <1> HIDE DEF A, b, f
  <1>8. b.v \in Nat /\ b.n \in Nat /\ b.p \in Nat BY <1>7, FrameFacts DEF BlockOK, Block
  <1>9. k \in 0..(b.n - 1) /\ b.v + k = v BY <1>6, <1>8, SMTT(30) DEF VRange, b
  <1> HIDE DEF k
  <1>10. f = b.p + k
    <2>1. mem.pte[b.v + k] = b.p + k BY <1>7, <1>9 DEF BlockMapped, MappedTo
    <2>2. QED BY <1>9, <2>1 DEF f
  <1>11. f \in PRange(b) /\ f \in Frames /\ f \in Held(proc, p)
    <2>1. f \in PRange(b) BY <1>8, <1>9, <1>10, SMTT(30) DEF PRange
    <2>2. QED BY <1>4, <1>7, <2>1 DEF BlockOK
  <1>12. \A c \in A : c # b => Holds(data', c) = Holds(data, c)
    <2> SUFFICES ASSUME NEW c \in A, c # b PROVE Holds(data', c) = Holds(data, c) OBVIOUS
    <2>1. f \notin PRange(c) BY <1>4, <1>7, <1>11 DEF Disjoint
    <2>2. BlockOK(c) /\ PRange(c) \subseteq Frames BY <1>4 DEF BlockOK
    <2>3. \A g \in PRange(c) : data'[g] = data[g] BY <1>1, <1>2, <2>1, <2>2
    <2>4. QED BY <2>2, <2>3, HoldsSame
  <1> DEFINE x == Holds(data, b)
             y == Holds(data', b)
  <1>13. x = [m \in 1..b.n |-> data[b.p + m - 1]] /\ y = [m \in 1..b.n |-> data'[b.p + m - 1]] BY DEF Holds
  <1>14. i \in 1..b.n /\ b.p + i - 1 = f BY <1>8, <1>9, <1>10
  <1>15. Len(x) = b.n /\ Len(y) = b.n BY <1>7, HoldsLen
  <1> HIDE DEF x, y, i
  <1>16. y[i] = 1 BY <1>1, <1>2, <1>11, <1>13, <1>14
  <1>17. y = [x EXCEPT ![i] = 1]
    <2>1. \A m \in 1..b.n : m # i => b.p + m - 1 # f /\ b.p + m - 1 \in Frames
      <3> SUFFICES ASSUME NEW m \in 1..b.n, m # i PROVE b.p + m - 1 # f /\ b.p + m - 1 \in Frames OBVIOUS
      <3>1. b.p + m - 1 # b.p + i - 1 BY <1>8, <1>14
      <3>2. b.p + m - 1 \in PRange(b) BY <1>8 DEF PRange
      <3>3. QED BY <1>7, <1>14, <3>1, <3>2 DEF BlockOK
    <2>2. \A m \in 1..b.n : m # i => y[m] = x[m] BY <1>1, <1>2, <1>13, <2>1
    <2>3. QED BY <1>13, <1>14, <1>16, <2>2
  <1>a. Unique(A) BY <1>4
  <1>18. /\ DOMAIN s = {c.v : c \in A} /\ \A c \in A : s[c.v] = Holds(data, c)
    <2>1. DOMAIN SpaceOf(A, data) = {c.v : c \in A} BY <1>a, SpaceHas
    <2>2. \A c \in A : SpaceOf(A, data)[c.v] = Holds(data, c) BY <1>a, SpaceHas
    <2>3. QED BY <2>1, <2>2
  <1>19. /\ DOMAIN t = {c.v : c \in A} /\ \A c \in A : t[c.v] = Holds(data', c)
    <2> DEFINE E == data'
    <2> HIDE DEF E
    <2>1. DOMAIN SpaceOf(A, E) = {c.v : c \in A} BY <1>a, SpaceHas
    <2>2. \A c \in A : SpaceOf(A, E)[c.v] = Holds(E, c) BY <1>a, SpaceHas
    <2>3. QED BY <2>1, <2>2 DEF E
  <1>20. s = [w \in DOMAIN s |-> s[w]] /\ t = [w \in DOMAIN t |-> t[w]] BY DEF SpaceOf
  <1> HIDE DEF s, t
  <1> DEFINE w0 == b.v
  <1>21. w0 \in DOMAIN s /\ s[w0] = x /\ t[w0] = y BY <1>7, <1>18, <1>19 DEF x, y
  <1>22. \A w \in DOMAIN s : w # w0 => t[w] = s[w]
    <2> SUFFICES ASSUME NEW w \in DOMAIN s, w # w0 PROVE t[w] = s[w] OBVIOUS
    <2>1. PICK c \in A : w = c.v BY <1>18
    <2>2. c # b BY <2>1
    <2>3. QED BY <1>12, <1>18, <1>19, <2>1, <2>2
  <1> HIDE DEF w0
  <1>23. DOMAIN t = DOMAIN s BY <1>18, <1>19
  <1>24. t = [s EXCEPT ![w0] = y] BY <1>20, <1>21, <1>22, <1>23
  <1>25. t = [s EXCEPT ![w0][i] = t[w0][i]] BY <1>16, <1>17, <1>21, <1>24
  <1>26. Space[p] = s /\ Space'[p] = t
    <2>1. AreasOf(proc', p) = A BY <1>1 DEF A, AreasOf
    <2>2. QED BY <1>2, <2>1, SpaceIs DEF s, t, A
  <1>27. Private!Write(p)
    <2>1. Len(t[w0]) = Len(s[w0]) /\ i \in 1..Len(s[w0]) BY <1>14, <1>15, <1>21
    <2>2. QED BY <1>21, <1>23, <1>25, <1>26, <2>1, WriteIs
  <1>28. ASSUME NEW q \in Procs \ {p} PROVE Space'[q] = Space[q]
    <2>1. Held(proc, q) \cap Held(proc, p) = {} /\ Held(proc, q) \subseteq Frames
      BY <1>2 DEF MemInv, PagesHeld, Accounts
    <2>2. \A g \in Held(proc, q) : data'[g] = data[g] BY <1>1, <1>2, <1>11, <2>1
    <2>3. QED BY <1>1, <1>2, <2>2, SpaceStays
  <1>29. QED BY <1>2, <1>27, <1>28 DEF Private!Next

\* The memory of a process that lives, before a step and behind it.
LEMMA AreaElems ==
    ASSUME NEW P, NEW p, P[p].state = "live", Slot(P[p])
    PROVE  AreasOf(P, p) = Elems(Blocks(P[p]))
  <1> DEFINE bs == Blocks(P[p])
  <1>1. AreasOf(P, p) = {bs[j] : j \in 1..Len(bs)} BY AreasAre
  <1>2. QED BY <1>1 DEF Elems

Shows(s, A, D) == DOMAIN s = {b.v : b \in A} /\ \A b \in A : s[b.v] = Holds(D, b)

LEMMA SpaceShows ==
    ASSUME NEW A, Unique(A), NEW D
    PROVE  Shows(SpaceOf(A, D), A, D)
  <1> DEFINE s == SpaceOf(A, D)
  <1>1. DOMAIN s = {b.v : b \in A} BY SpaceHas
  <1>2. \A b \in A : s[b.v] = Holds(D, b) BY SpaceHas
  <1>3. QED BY <1>1, <1>2 DEF Shows

LEMMA SpaceBefore ==
    ASSUME Typed, NEW p \in Procs, proc[p].state = "live", NEW A, A = Elems(Blocks(proc[p]))
    PROVE  Shows(Space[p], A, data)
  <1>1. Slot(proc[p]) BY DEF Typed
  <1>2. AreasOf(proc, p) = A BY <1>1, AreaElems
  <1>3. Unique(AreasOf(proc, p)) BY <1>1, AreasAre
  <1>4. Shows(SpaceOf(A, data), A, data) BY <1>2, <1>3, SpaceShows
  <1>5. Space[p] = SpaceOf(A, data) BY <1>2, SpaceIs
  <1>6. QED BY <1>4, <1>5

LEMMA SpaceBehind ==
    ASSUME Typed', NEW p \in Procs, proc'[p].state = "live", NEW A, A = Elems(Blocks(proc'[p]))
    PROVE  Shows(Space'[p], A, data')
  <1> DEFINE P == proc'
             E == data'
  <1>1. Slot(P[p]) /\ P[p].state = "live" /\ A = Elems(Blocks(P[p])) BY DEF Typed
  <1>2. Space'[p] = SpaceOf(AreasOf(P, p), E) BY SpaceIs
  <1> HIDE DEF P, E
  <1>3. AreasOf(P, p) = A BY <1>1, AreaElems
  <1>4. Unique(AreasOf(P, p)) BY <1>1, AreasAre
  <1>5. Shows(SpaceOf(A, E), A, E) BY <1>3, <1>4, SpaceShows
  <1>6. Space'[p] = SpaceOf(A, E) BY <1>2, <1>3
  <1>7. QED BY <1>5, <1>6 DEF E

\* A step of p leaves the process q and its pages alone.
LEMMA OthersKeep ==
    ASSUME MemInv, MemInv', NEW D \in [Frames -> Data], data' = Contents(mem', D),
           NEW q \in Procs, proc'[q] = proc[q], \A f \in Held(proc, q) : D[f] = data[f]
    PROVE  Space'[q] = Space[q]
  <1>1. Held(proc', q) = Held(proc, q) BY DEF Held
  <1>2. \A f \in Held(proc', q) : data'[f] = D[f] BY StaysStored
  <1>3. \A f \in Held(proc, q) : data'[f] = data[f] BY <1>1, <1>2
  <1>4. Typed BY DEF MemInv
  <1>5. QED BY <1>3, <1>4, SpaceStays

\* One area more, of zeros.
LEMMA MapsArea ==
    ASSUME NEW p, NEW A, NEW b, BlockOK(b), b.v \notin {c.v : c \in A},
           Shows(Space[p], A, data), Shows(Space'[p], A \cup {b}, data'),
           \A c \in A : Holds(data', c) = Holds(data, c), \A f \in PRange(b) : data'[f] = 0
    PROVE  Private!Map(p)
  <1> DEFINE s == Space[p]
             t == Space'[p]
             x == b.v
             E == data'
  <1>1. DOMAIN s = {c.v : c \in A} /\ \A c \in A : s[c.v] = Holds(data, c) BY DEF Shows
  <1>2. DOMAIN t = {c.v : c \in A \cup {b}} /\ \A c \in A \cup {b} : t[c.v] = Holds(E, c) BY DEF Shows
  <1> HIDE DEF s, t, E
  <1>3. DOMAIN t = DOMAIN s \cup {x} /\ x \in DOMAIN t \ DOMAIN s BY <1>1, <1>2
  <1>4. \A v \in DOMAIN s \cap DOMAIN t : t[v] = s[v]
    <2> SUFFICES ASSUME NEW v \in DOMAIN s PROVE t[v] = s[v] OBVIOUS
    <2>1. PICK c \in A : v = c.v BY <1>1
    <2>2. QED BY <1>1, <1>2, <2>1 DEF E
  <1>5. t[x] = Holds(E, b) BY <1>2
  <1>6. \A i \in 1..Len(t[x]) : t[x][i] = 0
    <2>1. Len(Holds(E, b)) = b.n /\ \A i \in 1..b.n : Holds(E, b)[i] = E[b.p + i - 1] BY HoldsLen
    <2>2. b.p \in Nat /\ b.n \in Nat BY FrameFacts DEF BlockOK, Block
    <2>3. \A i \in 1..b.n : b.p + i - 1 \in PRange(b) BY <2>2 DEF PRange
    <2>4. \A i \in 1..b.n : E[b.p + i - 1] = 0 BY <2>3 DEF E
    <2>5. QED BY <1>5, <2>1, <2>4
  <1> HIDE DEF x
  <1>7. \E v \in DOMAIN t \ DOMAIN s : DOMAIN t = DOMAIN s \cup {v} /\ \A i \in 1..Len(t[v]) : t[v][i] = 0
    BY <1>3, <1>6
  <1>8. Private!Keeps(p) BY <1>4, Zenon DEF Private!Keeps, s, t
  <1>9. QED BY <1>7, <1>8, Zenon DEF Private!Map, s, t

\* One area less.
LEMMA UnmapsArea ==
    ASSUME NEW p, NEW A, NEW b, b.v \notin {c.v : c \in A},
           Shows(Space[p], A \cup {b}, data), Shows(Space'[p], A, data'),
           \A c \in A : Holds(data', c) = Holds(data, c)
    PROVE  Private!Unmap(p)
  <1> DEFINE s == Space[p]
             t == Space'[p]
             x == b.v
             E == data'
  <1>1. DOMAIN s = {c.v : c \in A \cup {b}} /\ \A c \in A \cup {b} : s[c.v] = Holds(data, c) BY DEF Shows
  <1>2. DOMAIN t = {c.v : c \in A} /\ \A c \in A : t[c.v] = Holds(E, c) BY DEF Shows
  <1> HIDE DEF s, t, E
  <1>3. DOMAIN t = DOMAIN s \ {x} /\ x \in DOMAIN s BY <1>1, <1>2
  <1>4. \A v \in DOMAIN s \cap DOMAIN t : t[v] = s[v]
    <2> SUFFICES ASSUME NEW v \in DOMAIN t PROVE t[v] = s[v] OBVIOUS
    <2>1. PICK c \in A : v = c.v BY <1>2
    <2>2. QED BY <1>1, <1>2, <2>1 DEF E
  <1> HIDE DEF x
  <1>5. \E v \in DOMAIN s : DOMAIN t = DOMAIN s \ {v} BY <1>3
  <1>6. Private!Keeps(p) BY <1>4, Zenon DEF Private!Keeps, s, t
  <1>7. QED BY <1>5, <1>6, Zenon DEF Private!Unmap, s, t

\* The blocks of the process that runs when one is put in front of its heap.
LEMMA HeapGains ==
    ASSUME NEW pr, Slot(pr), NEW b \in Block, NEW q, Slot(q),
           q = [pr EXCEPT !.mm_heap = <<b>> \o pr.mm_heap]
    PROVE  Elems(Blocks(q)) = Elems(Blocks(pr)) \cup {b} /\ q.state = pr.state
  <1> DEFINE a == pr.state
             c == pr.mm_stack
             d == pr.mm_code
             g == pr.mm_heap
             o == <<b>>
             h == o \o g
  <1>1. pr = [state |-> a, mm_heap |-> g, mm_stack |-> c, mm_code |-> d] /\ g \in Seq(Block) BY DEF Slot
  <1>2. o \in Seq(Block) /\ Elems(o) = {b} BY OneBlock, ElemsOne
  <1>3. q = [pr EXCEPT !.mm_heap = h] OBVIOUS
  <1> HIDE DEF a, c, d, g, o
  <1>4. Elems(h) = Elems(o) \cup Elems(g) BY <1>1, <1>2, ElemsOf
  <1> HIDE DEF h
  <1>5. q = [state |-> a, mm_heap |-> h, mm_stack |-> c, mm_code |-> d] BY <1>1, <1>3
  <1>6. q.mm_heap = h /\ q.mm_stack = c /\ q.mm_code = d /\ q.state = a BY <1>5
  <1>7. Elems(Blocks(q)) = Elems(h) \cup Elems(c) \cup {d} BY <1>6, ElemsBlocks
  <1>8. Elems(Blocks(pr)) = Elems(g) \cup Elems(c) \cup {d} BY ElemsBlocks DEF g, c, d
  <1>9. QED BY <1>2, <1>4, <1>6, <1>7, <1>8 DEF a

LEMMA HoldingOutside ==
    ASSUME NEW D, NEW b, NEW x
    PROVE  /\ \A f \in Frames \ PRange(b) : Holding(D, b, x)[f] = D[f]
           /\ \A f \in Frames \cap PRange(b) : Holding(D, b, x)[f] = x
  BY DEF Holding

\* mmap: the new area is zero, nothing else of the process changes.
LEMMA MmapPriv ==
    ASSUME MemInv, MemInv', NEW n \in Sizes, mmap(n)
    PROVE  Private!Next \/ UNCHANGED Space
  <1>1. phase = "run" /\ current \in Live BY DEF mmap, Call, Runs
  <1>2. n \in Nat \ {0} BY ProcMemAssumption
  <1>3. PICK v \in Targets(n) :
          LET r == process_memory_add(mem, v, n)
          IN  \/ /\ r.ok
                 /\ proc' = [proc EXCEPT ![current].mm_heap = <<r.b>> \o @]
                 /\ mem' = r.M
                 /\ data' = Contents(r.M, Holding(data, r.b, 0))
                 /\ stale' = stale \ VRange(r.b)
              \/ /\ ~r.ok
                 /\ mem' = r.M
                 /\ data' = Contents(r.M, Holding(data, r.b, 0))
                 /\ UNCHANGED <<proc, stale>>
    BY DEF mmap
  <1> DEFINE p == current
             pr == proc[p]
             bs == Blocks(pr)
             W == v..(v + n - 1)
             r == process_memory_add(mem, v, n)
             b == r.b
  <1>4. p \in Procs /\ pr.state = "live" /\ Slot(pr) /\ Typed /\ Typed'
    BY <1>1 DEF MemInv, Typed, Live
  <1>5. /\ Sound(mem) /\ data \in [Frames -> Data] /\ Accounts(proc, Total(mem), lost)
        /\ proc = [q \in Procs |-> proc[q]]
    BY DEF MemInv, Typed, PagesHeld
  <1>6. v \in Nat /\ W \subseteq User /\ W \cap Mapped(pr) = {} BY <1>2, TargetsFree
  <1>7. Added(r, mem, v, n) BY <1>2, <1>5, <1>6, Adds
  <1>8. \/ /\ r.ok /\ data' = Contents(mem', Holding(data, b, 0))
           /\ proc' = [proc EXCEPT ![p] = [pr EXCEPT !.mm_heap = <<b>> \o pr.mm_heap]]
        \/ ~r.ok /\ data' = Contents(mem', Holding(data, b, 0)) /\ proc' = proc
    BY <1>3
  <1> HIDE DEF r, bs, W
  <1>9. CASE ~r.ok
    <2> DEFINE D == Holding(data, b, 0)
    <2>1. PRange(b) \subseteq Total(mem) BY <1>7 DEF Added
    <2>2. data' = Contents(mem', D) /\ proc' = proc BY <1>8, <1>9
    <2> HIDE DEF b
    <2>3. D \in [Frames -> Data] BY <1>5, HoldingIs DEF Data
    <2>4. \A f \in Frames \ PRange(b) : D[f] = data[f] BY HoldingOutside
    <2> HIDE DEF D
    <2>5. \A q \in Procs : Held(proc, q) \subseteq Frames \ PRange(b) BY <1>5, <2>1 DEF Accounts
    <2>6. \A q \in Procs : \A f \in Held(proc, q) : D[f] = data[f] BY <2>4, <2>5
    <2>7. ASSUME NEW q \in Procs PROVE Space'[q] = Space[q] BY <2>2, <2>3, <2>6, OthersKeep
    <2>8. QED BY <2>7, SpaceStutters
  <1>10. CASE r.ok
    <2> DEFINE A == Elems(bs)
               D == Holding(data, b, 0)
               q == [pr EXCEPT !.mm_heap = <<b>> \o pr.mm_heap]
    <2>1. BlockOK(b) /\ b.v = v /\ b.n = n /\ PRange(b) \subseteq Total(mem) BY <1>7, <1>10 DEF Added
    <2>2. data' = Contents(mem', D) /\ proc' = [proc EXCEPT ![p] = q] BY <1>8, <1>10
    <2> HIDE DEF b
    <2>3. D \in [Frames -> Data] BY <1>5, HoldingIs DEF Data
    <2>4. (\A f \in Frames \ PRange(b) : D[f] = data[f]) /\ \A f \in Frames \cap PRange(b) : D[f] = 0
      BY HoldingOutside
    <2> HIDE DEF D
    <2>5. \A w \in Procs : Held(proc, w) \subseteq Frames \ PRange(b)
      BY <1>5, <2>1 DEF Accounts
    <2>6. \A w \in Procs : \A f \in Held(proc, w) : D[f] = data[f] BY <2>4, <2>5
    <2> DEFINE Q == q
    <2>7. Q = [pr EXCEPT !.mm_heap = <<b>> \o pr.mm_heap] OBVIOUS
    <2> HIDE DEF Q
    <2>8. proc'[p] = Q /\ \A w \in Procs \ {p} : proc'[w] = proc[w] BY <1>4, <1>5, <2>2 DEF Q
    <2>9. ASSUME NEW w \in Procs \ {p} PROVE Space'[w] = Space[w] BY <2>2, <2>3, <2>6, <2>8, OthersKeep
    <2>10. Slot(Q) BY <1>4, <2>8 DEF Typed
    <2>11. Elems(Blocks(Q)) = A \cup {b} /\ Q.state = "live"
      <3>1. b \in Block BY <2>1 DEF BlockOK
      <3> HIDE DEF pr
      <3>2. QED BY <1>4, <2>7, <2>10, <3>1, HeapGains DEF bs
    <2> HIDE DEF q
    <2>12. Shows(Space[p], A, data) BY <1>4, SpaceBefore DEF bs
    <2>13. Shows(Space'[p], A \cup {b}, data')
      <3> DEFINE B == A \cup {b}
      <3>1. proc'[p].state = "live" /\ B = Elems(Blocks(proc'[p])) BY <2>8, <2>11
      <3> HIDE DEF B
      <3>2. Shows(Space'[p], B, data') BY <1>4, <3>1, SpaceBehind
      <3>3. QED BY <3>2 DEF B
    <2>14. AreasOf(proc, p) = A BY <1>4, AreaElems DEF bs
    <2>15. \A c \in A : BlockOK(c) /\ c.n > 0 /\ PRange(c) \subseteq Held(proc, p) BY <1>4, <2>14, AreasAre
    <2>16. Held(proc', p) = PagesIn(Blocks(Q)) BY <2>8, <2>11 DEF Held
    <2>17. b \in Elems(Blocks(Q)) /\ \A c \in A : c \in Elems(Blocks(Q)) BY <2>11
    <2>18. \A c \in Elems(Blocks(Q)) : PRange(c) \subseteq Held(proc', p) BY <2>16 DEF Elems, PagesIn
    <2>19. \A f \in Held(proc', p) : data'[f] = D[f] BY <1>4, <2>2, <2>3, StaysStored
    <2>20. ASSUME NEW c \in A PROVE Holds(data', c) = Holds(data, c)
      <3>1. BlockOK(c) /\ PRange(c) \subseteq Held(proc, p) /\ PRange(c) \subseteq Held(proc', p)
        BY <2>15, <2>17, <2>18
      <3>2. \A f \in PRange(c) : data'[f] = data[f] BY <1>4, <2>6, <2>19, <3>1
      <3>3. QED BY <3>1, <3>2, HoldsSame
    <2>21. \A f \in PRange(b) : data'[f] = 0
      <3>1. PRange(b) \subseteq Frames /\ PRange(b) \subseteq Held(proc', p) BY <2>1, <2>17, <2>18 DEF BlockOK
      <3>2. QED BY <2>4, <2>19, <3>1
    <2>22. b.v \notin {c.v : c \in A}
      <3> SUFFICES ASSUME NEW c \in A, c.v = b.v PROVE FALSE OBVIOUS
      <3>1. v \in W BY <1>2, <1>6 DEF W
      <3>2. c.v \in VRange(c) BY <2>15 DEF BlockOK, Block, VRange
      <3>3. c \in Range(Blocks(pr))
        <4>1. bs \in Seq(Block) BY <1>4, HeapIs DEF bs
        <4>2. DOMAIN bs = 1..Len(bs) BY <4>1
        <4>3. QED BY <4>2 DEF Elems, Range, bs
      <3>4. c.v \in Mapped(pr) BY <3>2, <3>3 DEF Mapped
      <3>5. QED BY <1>6, <2>1, <3>1, <3>4
    <2> HIDE DEF A
    <2>23. Private!Map(p) BY <2>1, <2>12, <2>13, <2>20, <2>21, <2>22, MapsArea
    <2>24. QED BY <1>4, <2>9, <2>23 DEF Private!Next
  <1>11. QED BY <1>8, <1>9, <1>10

\* The blocks when the i-th of the heap is taken out.
Drops(pr, q, b) == Elems(Blocks(pr)) = Elems(Blocks(q)) \cup {b}

LEMMA HeapDrops ==
    ASSUME NEW pr, Slot(pr), NEW g, g = pr.mm_heap, NEW i \in 1..Len(g), NEW b, b = g[i],
           NEW q, Slot(q), q.mm_heap = Before(g, i) \o Behind(g, i),
           q.mm_stack = pr.mm_stack, q.mm_code = pr.mm_code
    PROVE  Drops(pr, q, b)
  <1> DEFINE x == Before(g, i)
             y == Behind(g, i)
             o == <<b>>
             u == o \o y
             h == q.mm_heap
  <1>1. g \in Seq(Block) BY DEF Slot
  <1>2. x \in Seq(Block) /\ y \in Seq(Block) /\ b \in Block /\ g = x \o u BY <1>1, Parts
  <1>3. o \in Seq(Block) /\ Elems(o) = {b} BY <1>2, OneBlock, ElemsOne
  <1>4. h = x \o y OBVIOUS
  <1> HIDE DEF o, x, y, h
  <1>5. Elems(h) = Elems(x) \cup Elems(y) BY <1>2, <1>4, ElemsOf
  <1>6. u \in Seq(Block) /\ Elems(u) = Elems(o) \cup Elems(y) BY <1>2, <1>3, ElemsOf, Concats
  <1> HIDE DEF u
  <1>7. Elems(g) = Elems(x) \cup Elems(u) BY <1>2, <1>6, ElemsOf
  <1>8. Elems(Blocks(q)) = Elems(q.mm_heap) \cup Elems(q.mm_stack) \cup {q.mm_code} BY ElemsBlocks
  <1>9. Elems(Blocks(pr)) = Elems(g) \cup Elems(pr.mm_stack) \cup {pr.mm_code} BY ElemsBlocks
  <1>10. QED BY <1>3, <1>5, <1>6, <1>7, <1>8, <1>9 DEF Drops, h

\* munmap: one area goes, the others keep what they hold.
LEMMA MunmapPriv ==
    ASSUME MemInv, MemInv', NEW i \in 1..TOP, munmap(i)
    PROVE  Private!Next
  <1> DEFINE p == current
             pr == proc[p]
             heap == pr.mm_heap
             b == heap[i]
             part == munmap_parts(b, b.v, b.n)
             x == SubSeq(heap, 1, i - 1)
             y == SubSeq(heap, i + 1, Len(heap))
             h == Before(heap, i) \o Behind(heap, i)
             Q == [pr EXCEPT !.mm_heap = h]
             A == Elems(Blocks(Q))
  <1>1. p \in Live /\ i \in DOMAIN heap BY DEF munmap, Call, Runs
  <1>2. p \in Procs /\ pr.state = "live" /\ Slot(pr) /\ Typed /\ Typed' BY <1>1 DEF MemInv, Typed, Live
  <1>3. data \in [Frames -> Data] /\ proc = [q \in Procs |-> proc[q]] BY <1>2 DEF Typed
  <1>4. heap \in Seq(Block) BY <1>2, HeapIs
  <1>5. i \in 1..Len(heap) BY <1>1, <1>4, SMTT(30)
  <1>6. data' = Contents(mem', data) /\ proc' = [proc EXCEPT ![p].mm_heap = x \o part.rest \o y]
    BY DEF munmap
  <1>7. x \in Seq(Block) /\ b \in Block BY <1>4, <1>5, Parts DEF Before
  <1>8. AreasOf(proc, p) = Elems(Blocks(pr)) BY <1>2, AreaElems
  <1>9. b.n > 0
    <2>1. b \in Elems(heap) BY <1>5 DEF Elems
    <2>2. b \in Elems(Blocks(pr)) BY <1>2, <2>1, ElemsBlocks
    <2> HIDE DEF b
    <2>3. QED BY <1>2, <1>8, <2>2, AreasAre
  <1>10. part.rest = <<>> BY <1>7, <1>9, WholeBlock
  <1>11. proc' = [proc EXCEPT ![p] = Q]
    <2>1. x \o <<>> = x BY <1>7, ConcatEmptySeq
    <2>2. (x \o part.rest) \o y = h BY <1>10, <2>1, SMTT(30) DEF Before, Behind
    <2> HIDE DEF h, x, y
    <2>3. proc' = [proc EXCEPT ![p].mm_heap = h] BY <1>6, <2>2
    <2>4. QED BY <2>3
  <1>12. Q = [pr EXCEPT !.mm_heap = h] OBVIOUS
  <1> HIDE DEF Q
  <1>13. proc'[p] = Q /\ \A w \in Procs \ {p} : proc'[w] = proc[w] BY <1>2, <1>3, <1>11
  <1>14. Slot(Q) BY <1>2, <1>13 DEF Typed
  <1>15. Elems(Blocks(pr)) = A \cup {b} /\ Q.state = "live"
    <2>1. i \in 1..Len(pr.mm_heap) /\ b = pr.mm_heap[i]
          /\ h = Before(pr.mm_heap, i) \o Behind(pr.mm_heap, i)
      BY <1>5
    <2>2. Q.mm_heap = h /\ Q.mm_stack = pr.mm_stack /\ Q.mm_code = pr.mm_code /\ Q.state = "live"
      <3> DEFINE a == pr.state
                 g == pr.mm_heap
                 c == pr.mm_stack
                 d == pr.mm_code
      <3>1. pr = [state |-> a, mm_heap |-> g, mm_stack |-> c, mm_code |-> d] BY <1>2 DEF Slot
      <3> HIDE DEF a, g, c, d, h
      <3>2. Q = [state |-> a, mm_heap |-> h, mm_stack |-> c, mm_code |-> d] BY <1>12, <3>1
      <3>3. QED BY <1>2, <3>2 DEF a, c, d
    <2>3. Slot(pr) /\ Slot(Q) /\ heap = pr.mm_heap BY <1>2, <1>14
    <2>4. i \in 1..Len(heap) /\ b = heap[i] /\ Q.mm_heap = Before(heap, i) \o Behind(heap, i) BY <2>1, <2>2
    <2>5. Q.mm_stack = pr.mm_stack /\ Q.mm_code = pr.mm_code BY <2>2
    <2> HIDE DEF pr, b, heap, h
    <2>6. Drops(pr, Q, b) BY <2>3, <2>4, <2>5, HeapDrops
    <2>7. QED BY <2>2, <2>6 DEF Drops
  <1>16. Shows(Space[p], A \cup {b}, data)
    <2> DEFINE B == A \cup {b}
    <2>1. B = Elems(Blocks(proc[p])) BY <1>15
    <2> HIDE DEF B
    <2>2. Shows(Space[p], B, data) BY <1>2, <2>1, SpaceBefore
    <2>3. QED BY <2>2 DEF B
  <1>17. Shows(Space'[p], A, data') BY <1>2, <1>13, <1>15, SpaceBehind
  <1>18. Held(proc', p) = PagesIn(Blocks(Q)) BY <1>13, <1>15 DEF Held
  <1>19. \A c \in A : PRange(c) \subseteq Held(proc', p) BY <1>18, SMTT(30) DEF Elems, PagesIn
  <1>20. \A f \in Held(proc', p) : data'[f] = data[f] BY <1>2, <1>3, <1>6, StaysStored
  <1>21. (\A c \in A \cup {b} : BlockOK(c)) /\ Unique(A \cup {b})
    <2> DEFINE B == A \cup {b}
    <2>1. AreasOf(proc, p) = B BY <1>8, <1>15
    <2> HIDE DEF B
    <2>2. \A c \in B : BlockOK(c) BY <1>2, <2>1, AreasAre
    <2>3. Unique(B) BY <1>2, <2>1, AreasAre
    <2>4. QED BY <2>2, <2>3 DEF B
  <1>22. ASSUME NEW c \in A PROVE Holds(data', c) = Holds(data, c)
    <2>1. BlockOK(c) /\ \A f \in PRange(c) : data'[f] = data[f] BY <1>19, <1>20, <1>21
    <2>2. QED BY <2>1, HoldsSame
  <1>23. b \notin A
    <2> DEFINE bs == h \o Rest(pr)
    <2>1. i \in 1..Len(pr.mm_heap) /\ b = pr.mm_heap[i] /\ bs = h \o Rest(pr)
          /\ h = Before(pr.mm_heap, i) \o Behind(pr.mm_heap, i)
      BY <1>5
    <2>2. Q = [pr EXCEPT !.mm_heap = h] BY DEF Q
    <2> HIDE DEF pr, b, h, bs
    <2>3. Lost(pr, h, bs, b) BY <1>2, <2>1, HeapLoses
    <2>4. h \in Seq(Block) /\ Fine(bs) /\ BlockOK(b) /\ b.n > 0 /\ PagesIn(bs) \cap PRange(b) = {}
      BY <2>3 DEF Lost
    <2>5. Blocks(Q) = bs BY <1>2, <2>1, <2>2, <2>4, HeapSet
    <2>6. b.p \in PRange(b)
      <3>1. b.p \in Nat /\ b.n \in Nat BY <2>4, FrameFacts DEF BlockOK, Block
      <3>2. QED BY <2>4, <3>1 DEF PRange
    <2>7. \A c \in A : PRange(c) \subseteq PagesIn(bs) BY <2>5 DEF Elems, PagesIn
    <2>8. QED BY <2>4, <2>6, <2>7
  <1>24. b.v \notin {c.v : c \in A} BY <1>21, <1>23 DEF Unique
  <1> HIDE DEF A, b
  <1>25. Private!Unmap(p) BY <1>16, <1>17, <1>22, <1>24, UnmapsArea
  <1>26. ASSUME NEW w \in Procs \ {p} PROVE Space'[w] = Space[w] BY <1>3, <1>6, <1>13, OthersKeep
  <1>27. QED BY <1>2, <1>25, <1>26 DEF Private!Next

\* What copies of the blocks bs show.
LEMMA CopiesShow ==
    ASSUME NEW bs, NEW s, NEW n \in Nat \ {0}, Len(bs) = n, Len(s) = n, NEW D, NEW E,
           \A j \in 1..n : CopyOf(s[j], bs[j], D, E) /\ BlockOK(bs[j]) /\ bs[j].n > 0,
           NEW x, Shows(x, Elems(bs), D), NEW y, Shows(y, Elems(s), E)
    PROVE  /\ x # Private!NoAreas /\ DOMAIN y = DOMAIN x
           /\ \A v \in DOMAIN x : Len(y[v]) = Len(x[v]) /\ y[v][1] = x[v][1]
  <1>1. DOMAIN x = {b.v : b \in Elems(bs)} /\ \A b \in Elems(bs) : x[b.v] = Holds(D, b) BY DEF Shows
  <1>2. DOMAIN y = {b.v : b \in Elems(s)} /\ \A b \in Elems(s) : y[b.v] = Holds(E, b) BY DEF Shows
  <1>3. \A j \in 1..n : bs[j] \in Elems(bs) /\ s[j] \in Elems(s) BY DEF Elems
  <1>4. \A j \in 1..n : s[j].v = bs[j].v /\ s[j].n = bs[j].n /\ E[s[j].p] = D[bs[j].p] /\ BlockOK(s[j])
    BY DEF CopyOf
  <1>5. DOMAIN x = {bs[j].v : j \in 1..n} BY <1>1 DEF Elems
  <1>6. DOMAIN y = {s[j].v : j \in 1..n} BY <1>2 DEF Elems
  <1>7. DOMAIN y = DOMAIN x BY <1>4, <1>5, <1>6
  <1>8. x # Private!NoAreas
    <2>1. DOMAIN Private!NoAreas = {} BY DEF Private!NoAreas
    <2>2. bs[1].v \in DOMAIN x BY <1>5
    <2>3. QED BY <2>1, <2>2
  <1>9. ASSUME NEW v \in DOMAIN x PROVE Len(y[v]) = Len(x[v]) /\ y[v][1] = x[v][1]
    <2>1. PICK j \in 1..n : v = bs[j].v BY <1>5
    <2> DEFINE b == bs[j]
               c == s[j]
               g == Holds(D, b)
               h == Holds(E, c)
    <2>2. BlockOK(b) /\ BlockOK(c) /\ b.n > 0 /\ c.n = b.n /\ c.v = v /\ b.v = v /\ E[c.p] = D[b.p]
      BY <1>4, <2>1
    <2>3. x[v] = g /\ y[v] = h BY <1>1, <1>2, <1>3, <2>2
    <2> HIDE DEF b, c
    <2>4. Len(g) = b.n /\ \A i \in 1..b.n : g[i] = D[b.p + i - 1] BY <2>2, HoldsLen
    <2>5. Len(h) = c.n /\ \A i \in 1..c.n : h[i] = E[c.p + i - 1] BY <2>2, HoldsLen
    <2> HIDE DEF g, h
    <2>6. b.p \in Nat /\ c.p \in Nat /\ b.n \in Nat BY <2>2, FrameFacts DEF BlockOK, Block
    <2>7. b.p + 1 - 1 = b.p /\ c.p + 1 - 1 = c.p /\ 1 \in 1..b.n BY <2>2, <2>6
    <2>8. g[1] = D[b.p] /\ h[1] = E[c.p]
      <3>1. g[1] = D[b.p + 1 - 1] BY <2>4, <2>7
      <3>2. h[1] = E[c.p + 1 - 1] BY <2>2, <2>5, <2>7
      <3>3. QED BY <2>7, <3>1, <3>2
    <2>9. QED BY <2>2, <2>3, <2>4, <2>5, <2>8
  <1>10. QED BY <1>7, <1>8, <1>9

\* process_dup: a failure changes no process's memory, a child begins with its father's.
LEMMA DupPriv ==
    ASSUME MemInv, MemInv', NEW child \in Procs, process_dup(child)
    PROVE  Private!Next \/ UNCHANGED Space
  <1> DEFINE p == current
             pr == proc[p]
             bs == Blocks(pr)
             n == Len(bs)
             S == copy_blocks(n)
             h == Len(pr.mm_heap)
             new == [state |-> "live", mm_heap |-> Reverse(SubSeq(S.new, 1, h)),
                     mm_stack |-> Reverse(SubSeq(S.new, h + 1, n - 1)), mm_code |-> S.new[n]]
  <1>1. p \in Live /\ proc[child].state = "none" BY DEF process_dup, Call, Runs
  <1>2. \/ S.ok /\ proc' = [proc EXCEPT ![child] = new] /\ data' = S.D
        \/ /\ \E k \in 0..n : data' = copy_blocks(k).D
           /\ proc' = proc
    BY DEF process_dup
  <1>3. p \in Procs /\ pr.state = "live" /\ Slot(pr) /\ p # child /\ Typed /\ Typed'
    BY <1>1 DEF MemInv, Typed, Live
  <1>4. /\ Sound(mem) /\ data \in [Frames -> Data] /\ Accounts(proc, Total(mem), lost)
        /\ proc = [q \in Procs |-> proc[q]]
    BY DEF MemInv, Typed, PagesHeld
  <1>5. bs \in Seq(Block) /\ Fine(bs) BY <1>3, HeapIs
  <1>6. Held(proc, p) = PagesIn(bs) BY <1>3 DEF Held
  <1>7. InUse(mem, bs)
    <2>1. PagesIn(bs) \cap Total(mem) = {} BY <1>3, <1>4, <1>6 DEF Accounts
    <2>2. \A j \in 1..Len(bs) : bs[j].n > 0 BY <1>3 DEF Slot
    <2>3. QED BY <1>5, <2>1, <2>2 DEF InUse, Fine
  <1>8. n \in Nat /\ h \in Nat /\ h < n
    <2>1. pr.mm_heap \in Seq(Block) /\ pr.mm_stack \in Seq(Block) /\ pr.mm_code \in Block BY <1>3 DEF Slot
    <2> DEFINE k == Len(pr.mm_stack)
    <2>2. n = h + k + 1 BY <2>1, BlocksIs
    <2>3. h \in Nat /\ k \in Nat BY <2>1
    <2> HIDE DEF n, h, k
    <2>4. QED BY <2>2, <2>3
  <1>9. ASSUME NEW F, F \subseteq Total(mem), NEW E, \A x \in Frames \ F : E[x] = data[x], data' = E,
               NEW q \in Procs, proc'[q] = proc[q]
        PROVE  Space'[q] = Space[q]
    <2>1. Held(proc, q) \subseteq Frames \ F BY <1>4, <1>9 DEF Accounts
    <2>2. \A f \in Held(proc, q) : data'[f] = data[f] BY <1>9, <2>1
    <2>3. QED BY <1>3, <1>9, <2>2, SpaceStays
  <1>10. CASE S.ok /\ proc' = [proc EXCEPT ![child] = new] /\ data' = S.D
    <2> DEFINE s == S.new
               A == Elems(bs)
               B == Elems(s)
               E == S.D
    <2>1. S = Copies(mem, data, bs)
      <3>1. SubSeq(bs, 1, n) = bs BY <1>5, SubSeqFull
      <3>2. S = Copies(mem, data, SubSeq(bs, 1, n)) BY CopyIs
      <3>3. QED BY <3>1, <3>2
    <2>2. new = [state |-> "live", mm_heap |-> Reverse(SubSeq(s, 1, h)),
                 mm_stack |-> Reverse(SubSeq(s, h + 1, n - 1)), mm_code |-> s[n]]
      OBVIOUS
    <2>a. proc'[child] = new /\ \A q \in Procs \ {child} : proc'[q] = proc[q] BY <1>4, <1>10
    <2> HIDE DEF S, new, bs
    <2>3. Copying(S, n, mem, data, bs) BY <1>4, <1>7, <2>1, CopiesAll
    <2>4. /\ s \in Seq(Block) /\ Took(mem, S.M, PagesIn(s)) /\ Len(s) = n
          /\ \A j \in 1..Len(s) : CopyOf(s[j], bs[j], data, E)
          /\ \A x \in Frames \ PagesIn(s) : E[x] = data[x]
      BY <1>10, <2>3 DEF Copying
    <2>5. Fine(s) BY <1>5, <2>3, <2>4, CopiesFine
    <2> HIDE DEF s, n, h, E
    <2>6. Slot(new) /\ new.state = "live" /\ Elems(Blocks(new)) = B
      BY <1>8, <2>2, <2>4, <2>5, NewProcess
    <2> HIDE DEF B
    <2>7. data' = E BY <1>10 DEF E
    <2> DEFINE F == PagesIn(s)
    <2>8. F \subseteq Total(mem) BY <2>4 DEF Took
    <2>9. \A x \in Frames \ F : E[x] = data[x] BY <2>4
    <2> HIDE DEF F
    <2>10. ASSUME NEW q \in Procs \ {child} PROVE Space'[q] = Space[q]
      BY <1>9, <2>7, <2>8, <2>9, <2>a
    <2>11. Space[child] = Private!NoAreas
      <3>1. proc[child].state # "live" BY <1>1
      <3>2. SpaceOf(AreasOf(proc, child), data) = Private!NoAreas BY <3>1, NothingHeld
      <3>3. QED BY <3>2, SpaceIs
    <2>12. Shows(Space[p], A, data) BY <1>3, SpaceBefore DEF bs
    <2>13. Shows(Space'[child], B, E)
      <3>1. proc'[child].state = "live" /\ B = Elems(Blocks(proc'[child])) BY <2>6, <2>a
      <3>2. Shows(Space'[child], B, data') BY <1>3, <3>1, SpaceBehind
      <3>3. QED BY <2>7, <3>2
    <2>14. n \in Nat \ {0} /\ Len(bs) = n /\ Len(s) = n BY <1>8, <2>4 DEF n
    <2>15. \A j \in 1..n : CopyOf(s[j], bs[j], data, E) /\ BlockOK(bs[j]) /\ bs[j].n > 0
      BY <1>7, <2>4, <2>14 DEF InUse, BlocksOK
    <2> DEFINE x == Space[p]
               y == Space'[child]
    <2>16. Shows(x, Elems(bs), data) /\ Shows(y, Elems(s), E) BY <2>12, <2>13 DEF B
    <2> HIDE DEF x, y
    <2>17. /\ x # Private!NoAreas /\ DOMAIN y = DOMAIN x
           /\ \A v \in DOMAIN x : Len(y[v]) = Len(x[v]) /\ y[v][1] = x[v][1]
      BY <2>14, <2>15, <2>16, CopiesShow
    <2>18. Private!Fork(p, child) BY <2>11, <2>17, Zenon DEF Private!Fork, x, y
    <2>19. QED BY <1>3, <2>10, <2>18 DEF Private!Next
  <1>11. CASE (\E k \in 0..n : data' = copy_blocks(k).D) /\ proc' = proc
    <2>1. PICK k \in 0..n : data' = copy_blocks(k).D BY <1>11
    <2> DEFINE R == copy_blocks(k)
               cs == SubSeq(bs, 1, k)
               F == PagesIn(R.new)
               E == R.D
    <2>2. R = Copies(mem, data, cs) BY CopyIs
    <2>3. data' = E BY <2>1
    <2>4. k \in 0..Len(bs) BY <1>8
    <2> HIDE DEF R, bs
    <2>5. InUse(mem, cs) BY <1>5, <1>7, <2>4, FirstBlocks
    <2> HIDE DEF cs
    <2>6. Copying(R, Len(cs), mem, data, cs) BY <1>4, <2>2, <2>5, CopiesAll
    <2>7. F \subseteq Total(mem) /\ \A x \in Frames \ F : E[x] = data[x] BY <2>6 DEF Copying, Took
    <2> HIDE DEF F, E
    <2>8. \A q \in Procs : proc'[q] = proc[q] BY <1>11
    <2>9. ASSUME NEW q \in Procs PROVE Space'[q] = Space[q] BY <1>9, <2>3, <2>7, <2>8
    <2>10. QED BY <2>9, SpaceStutters
  <1>12. QED BY <1>2, <1>10, <1>11

\* process_ini_kern: the process gets its first memory, or nothing shows.
LEMMA IniKernPriv ==
    ASSUME MemInv, MemInv', NEW p \in Procs, process_ini_kern(p)
    PROVE  Private!Next \/ UNCHANGED Space
  <1> DEFINE v == Images[p].v
             n == Images[p].n
             code == process_memory_add(mem, v, n)
             C == code.M
             c == code.b
             stack == process_memory_add(C, TOP, 1)
             s == stack.b
             new == [state |-> "live", mm_heap |-> <<>>, mm_stack |-> <<s>>, mm_code |-> c]
  <1>1. phase = "boot" /\ p \in DOMAIN Images \ tried BY DEF process_ini_kern
  <1>2. \/ /\ code.ok /\ stack.ok /\ proc' = [proc EXCEPT ![p] = new]
           /\ data' = Contents(mem', Holding(Holding(data, c, 1), s, 0))
        \/ /\ code.ok /\ proc' = proc
           /\ \E x \in {NoBlock, s} : data' = Contents(mem', Holding(Holding(data, c, 1), x, 0))
        \/ /\ proc' = proc
           /\ \E x \in {NoBlock, c} : data' = Contents(mem', Holding(data, x, 0))
    BY DEF process_ini_kern
  <1>3. v \in Nat /\ n \in Nat \ {0} /\ v..(v + n - 1) \subseteq User BY <1>1, ProcMemAssumption
  <1>4. /\ Sound(mem) /\ Accounts(proc, Total(mem), lost) /\ proc = [q \in Procs |-> proc[q]]
        /\ data \in [Frames -> Data] /\ proc[p] = NoProc
    BY <1>1 DEF MemInv, Typed, PagesHeld, Running
  <1>5. Added(code, mem, v, n) BY <1>3, <1>4, Adds
  <1> HIDE DEF code
  <1>6. /\ Sound(C) /\ PRange(c) \subseteq Total(mem)
        /\ code.ok => Total(C) = Total(mem) \ PRange(c)
    BY <1>5 DEF Added
  <1> HIDE DEF C
  <1>7. Added(stack, C, TOP, 1)
    <2> DEFINE k == 1
    <2>1. k \in Nat /\ TOP..(TOP + k - 1) \subseteq User /\ TOP \in Nat BY Pages
    <2> HIDE DEF k
    <2>2. Added(process_memory_add(C, TOP, k), C, TOP, k) BY <1>6, <2>1, Adds
    <2>3. QED BY <2>2 DEF k
  <1> HIDE DEF stack
  <1>8. PRange(s) \subseteq Total(C) BY <1>7 DEF Added
  <1> HIDE DEF c, s
  <1> DEFINE G == Holding(data, c, 1)
             H == Holding(G, s, 0)
  <1>9. G \in [Frames -> Data] /\ \A f \in Frames \ PRange(c) : G[f] = data[f]
    BY <1>4, HoldingIs, HoldingOutside DEF Data
  <1> HIDE DEF G
  <1>10. H \in [Frames -> Data] /\ \A f \in Frames \ PRange(s) : H[f] = G[f]
    BY <1>9, HoldingIs, HoldingOutside DEF Data
  <1> HIDE DEF H
  <1>11. \A q \in Procs : Held(proc, q) \subseteq Frames \ Total(mem) BY <1>4 DEF Accounts
  <1> DEFINE Nothing == PRange(NoBlock) = {}
  <1>11a. Nothing BY FrameFacts DEF PRange, NoBlock
  <1> HIDE DEF Nothing
  <1>12. CASE /\ code.ok /\ stack.ok /\ proc' = [proc EXCEPT ![p] = new]
              /\ data' = Contents(mem', Holding(Holding(data, c, 1), s, 0))
    <2>1. data' = Contents(mem', H) BY <1>12 DEF H, G
    <2>2. \A q \in Procs \ {p} : proc'[q] = proc[q] BY <1>4, <1>12
    <2>3. \A f \in Frames \ Total(mem) : H[f] = data[f] BY <1>6, <1>8, <1>9, <1>10, <1>12
    <2>4. \A q \in Procs : \A f \in Held(proc, q) : H[f] = data[f] BY <1>11, <2>3
    <2>5. ASSUME NEW q \in Procs \ {p} PROVE Space'[q] = Space[q] BY <1>10, <2>1, <2>2, <2>4, OthersKeep
    <2>6. Space[p] = Private!NoAreas
      <3>1. proc[p].state # "live" BY <1>4, EmptySlot
      <3>2. SpaceOf(AreasOf(proc, p), data) = Private!NoAreas BY <3>1, NothingHeld
      <3>3. QED BY <3>2, SpaceIs
    <2>7. Private!Load(p) BY <1>1, <2>6, Zenon DEF Private!Load
    <2>8. QED BY <2>5, <2>7 DEF Private!Next
  <1>13. CASE /\ code.ok /\ proc' = proc
              /\ \E x \in {NoBlock, s} : data' = Contents(mem', Holding(Holding(data, c, 1), x, 0))
    <2>1. PICK x \in {NoBlock, s} : data' = Contents(mem', Holding(G, x, 0)) BY <1>13 DEF G
    <2> DEFINE E == Holding(G, x, 0)
    <2>2. PRange(x) \subseteq Total(mem) BY <1>6, <1>8, <1>13, <1>11a, <2>1 DEF Nothing
    <2>3. E \in [Frames -> Data] /\ \A f \in Frames \ PRange(x) : E[f] = G[f]
      BY <1>9, HoldingIs, HoldingOutside DEF Data
    <2>4. data' = Contents(mem', E) BY <2>1
    <2> HIDE DEF E
    <2>5. \A f \in Frames \ Total(mem) : E[f] = data[f] BY <1>6, <1>9, <2>2, <2>3
    <2>6. \A q \in Procs : \A f \in Held(proc, q) : E[f] = data[f] BY <1>11, <2>5
    <2>7. ASSUME NEW q \in Procs PROVE Space'[q] = Space[q] BY <1>13, <2>3, <2>4, <2>6, OthersKeep
    <2>8. QED BY <2>7, SpaceStutters
  <1>14. CASE /\ proc' = proc
              /\ \E x \in {NoBlock, c} : data' = Contents(mem', Holding(data, x, 0))
    <2>1. PICK x \in {NoBlock, c} : data' = Contents(mem', Holding(data, x, 0)) BY <1>14
    <2> DEFINE E == Holding(data, x, 0)
    <2>2. PRange(x) \subseteq Total(mem) BY <1>6, <1>11a, <2>1 DEF Nothing
    <2>3. E \in [Frames -> Data] /\ \A f \in Frames \ PRange(x) : E[f] = data[f]
      BY <1>4, HoldingIs, HoldingOutside DEF Data
    <2>4. data' = Contents(mem', E) BY <2>1
    <2> HIDE DEF E
    <2>5. \A f \in Frames \ Total(mem) : E[f] = data[f] BY <2>2, <2>3
    <2>6. \A q \in Procs : \A f \in Held(proc, q) : E[f] = data[f] BY <1>11, <2>5
    <2>7. ASSUME NEW q \in Procs PROVE Space'[q] = Space[q] BY <1>14, <2>3, <2>4, <2>6, OthersKeep
    <2>8. QED BY <2>7, SpaceStutters
  <1>15. QED BY <1>2, <1>12, <1>13, <1>14

LEMMA InitPriv ==
    ASSUME Init
    PROVE  Private!Init
  <1>1. ASSUME NEW p \in Procs PROVE Space[p] = Private!NoAreas
    <2>1. proc[p] = NoProc BY DEF Init
    <2>2. proc[p].state # "live" BY <2>1, EmptySlot
    <2>3. SpaceOf(AreasOf(proc, p), data) = Private!NoAreas BY <2>2, NothingHeld
    <2>4. QED BY <2>3, SpaceIs
  <1>2. Space = [p \in Procs |-> Space[p]] BY SpaceIs
  <1> DEFINE x == Space
             N == Private!NoAreas
  <1>3. x = [p \in Procs |-> x[p]] /\ \A p \in Procs : x[p] = N BY <1>1, <1>2
  <1> HIDE DEF x, N
  <1>4. x = [p \in Procs |-> N] BY <1>3
  <1>5. QED BY <1>4, Zenon DEF Private!Init, x, N

LEMMA StepPriv ==
    ASSUME MemInv, MemInv', [Next]_vars
    PROVE  [Private!Next]_Space
  <1> DEFINE OK == Private!Next \/ UNCHANGED Space
  <1>1. ASSUME proc' = proc, data' = data PROVE OK
    <2>1. ASSUME NEW p \in Procs PROVE Space'[p] = Space[p]
      <3>1. Typed BY DEF MemInv
      <3>2. QED BY <1>1, <3>1, SpaceStays
    <2>2. QED BY <2>1, SpaceStutters
  <1>2. CASE UNCHANGED vars BY <1>1, <1>2 DEF vars
  <1>3. ASSUME NEW p \in Procs, process_ini_kern(p) PROVE OK BY <1>3, IniKernPriv
  <1>4. ASSUME NEW p \in Procs, process_dup(p) PROVE OK BY <1>4, DupPriv
  <1>5. ASSUME NEW p \in Procs, process_die(p) PROVE OK BY <1>5, DiePriv
  <1>6. ASSUME NEW p \in Procs, reap(p) PROVE OK BY <1>6, ReapPriv
  <1>7. CASE Start BY <1>1, <1>7 DEF Start
  <1>8. CASE switch_process BY <1>8, SwitchPriv
  <1>9. ASSUME NEW n \in Sizes, mmap(n) PROVE OK BY <1>9, MmapPriv
  <1>10. ASSUME NEW i \in 1..TOP, munmap(i) PROVE OK BY <1>10, MunmapPriv
  <1>11. ASSUME NEW v \in User, store(v) PROVE OK BY <1>11, StorePriv
  <1>12. CASE Panicked BY <1>2, <1>12 DEF Panicked
  <1>13. OK
    <2>1. Next \/ UNCHANGED vars OBVIOUS
    <2>2. QED
      BY <2>1, <1>2, <1>3, <1>4, <1>5, <1>6, <1>7, <1>8, <1>9, <1>10, <1>11, <1>12, Zenon
      DEF Next
  <1>14. QED BY <1>13 DEF OK

\* process.c, copy_process.c, process_die.c, interrupt_process.c and page.c
\* together implement PrivateMemory: whatever is mapped, forked, freed or
\* switched, a step changes what one process has stored at most, new memory
\* is zero, and a child begins with the first pages of its father's blocks.
THEOREM MemoryIsPrivate == ProcMemSpec => IsPrivate
  BY InvInit, NextInv, InitPriv, StepPriv, PTL DEF ProcMemSpec, IsPrivate, Private!PrivateSpec
=============================================================================
