------------------------------ MODULE ListProofs ------------------------------
(***************************************************************************)
(* What list_add and list_del do to the members and the order of a list.   *)
(***************************************************************************)
EXTENDS Lists, SequenceTheorems, WellFoundedInduction, TLAPS

\* A set of naturals that is not empty has a least element.
LEMMA LeastNatural ==
    ASSUME NEW T, T \subseteq Nat, T # {}
    PROVE  \E x \in T : \A y \in T : x <= y
  <1> DEFINE R == OpToRel(<, Nat)
  <1>1. IsWellFoundedOn(R, Nat)
    BY NatLessThanWellFounded
  <1>2. \A x, y \in Nat : x < y => <<x, y>> \in R
    BY DEF OpToRel
  <1> HIDE DEF R
  <1>3. PICK x \in T : \A y \in T : ~(<<y, x>> \in R)
    BY <1>1, WFMin
  <1>4. ASSUME NEW y \in T PROVE x <= y
    <2>1. x \in Nat /\ y \in Nat OBVIOUS
    <2>2. ~(y < x) BY <1>2, <1>3, <2>1
    <2>3. QED BY <2>1, <2>2
  <1>5. QED BY <1>4

\* An element of a sequence has a first place in it.
LEMMA PosExists ==
    ASSUME NEW S, NEW s \in Seq(S), NEW x, Has(s, x)
    PROVE  /\ Pos(s, x) \in 1..Len(s)
           /\ s[Pos(s, x)] = x
           /\ \A j \in 1..(Pos(s, x) - 1) : s[j] # x
  <1> DEFINE T == {i \in 1..Len(s) : s[i] = x}
  <1>1. T \subseteq Nat /\ T # {}
    BY DEF Has
  <1>2. PICK i \in T : \A y \in T : i <= y
    BY <1>1, LeastNatural
  <1>3. i \in 1..Len(s) /\ s[i] = x /\ \A j \in 1..(i - 1) : s[j] # x
    BY <1>2
  <1>4. QED BY <1>3 DEF Pos

\* list_del takes out exactly one place, if x is there at all.
LEMMA ListDel ==
    ASSUME NEW S, NEW s \in Seq(S), NEW x, Has(s, x)
    PROVE  /\ list_del(s, x) \in Seq(S)
           /\ Len(list_del(s, x)) = Len(s) - 1
           /\ \A j \in 1..(Len(s) - 1) : j < Pos(s, x) => list_del(s, x)[j] = s[j]
           /\ \A j \in 1..(Len(s) - 1) : j >= Pos(s, x) => list_del(s, x)[j] = s[j + 1]
  <1> DEFINE i == Pos(s, x)
             u == SubSeq(s, 1, i - 1)
             v == SubSeq(s, i + 1, Len(s))
  <1>1. i \in 1..Len(s) /\ Len(s) \in Nat
    BY PosExists
  <1>2. list_del(s, x) = u \o v
    BY DEF list_del, RemoveAt
  <1> HIDE DEF i
  <1>3. u \in Seq(S) /\ Len(u) = i - 1 /\ \A j \in 1..(i - 1) : u[j] = s[j]
    BY <1>1
  <1>4. v \in Seq(S) /\ Len(v) = Len(s) - i /\ \A j \in 1..(Len(s) - i) : v[j] = s[i + j]
    BY <1>1
  <1> HIDE DEF u, v
  <1>5. /\ u \o v \in Seq(S)
        /\ Len(u \o v) = Len(u) + Len(v)
        /\ \A j \in 1..(Len(u) + Len(v)) :
              (u \o v)[j] = IF j <= Len(u) THEN u[j] ELSE v[j - Len(u)]
    BY <1>3, <1>4, ConcatProperties
  <1>6. Len(u) + Len(v) = Len(s) - 1
    BY <1>1, <1>3, <1>4
  <1>7. ASSUME NEW j \in 1..(Len(s) - 1), j < i PROVE (u \o v)[j] = s[j]
    BY <1>1, <1>3, <1>5, <1>6, <1>7
  <1>8. ASSUME NEW j \in 1..(Len(s) - 1), j >= i PROVE (u \o v)[j] = s[j + 1]
    <2>1. (u \o v)[j] = v[j - (i - 1)]
      BY <1>1, <1>3, <1>5, <1>6, <1>8
    <2>2. v[j - (i - 1)] = s[i + (j - (i - 1))]
      BY <1>1, <1>4, <1>8
    <2>3. i + (j - (i - 1)) = j + 1
      BY <1>1
    <2>4. QED BY <2>1, <2>2, <2>3
  <1>9. QED BY <1>2, <1>5, <1>6, <1>7, <1>8 DEF i

\* list_del keeps the type.
LEMMA ListDelType ==
    ASSUME NEW S, NEW s \in Seq(S), NEW x
    PROVE  list_del(s, x) \in Seq(S)
  <1>1. CASE Has(s, x) BY <1>1, ListDel
  <1>2. CASE ~Has(s, x) BY <1>2 DEF list_del
  <1>3. QED BY <1>1, <1>2

\* list_del loses no element but x.
LEMMA ListDelHas ==
    ASSUME NEW S, NEW s \in Seq(S), NEW x, NEW y
    PROVE  /\ Has(list_del(s, x), y) => Has(s, y)
           /\ Has(s, y) /\ y # x => Has(list_del(s, x), y)
  <1>1. CASE ~Has(s, x)
    BY <1>1 DEF list_del
  <1>2. CASE Has(s, x)
    <2> DEFINE d == list_del(s, x)
               k == Pos(s, x)
    <2>1. /\ d \in Seq(S) /\ Len(d) = Len(s) - 1 /\ Len(s) \in Nat
          /\ \A j \in 1..(Len(s) - 1) : j < k => d[j] = s[j]
          /\ \A j \in 1..(Len(s) - 1) : j >= k => d[j] = s[j + 1]
      BY <1>2, ListDel
    <2>2. k \in 1..Len(s) /\ s[k] = x
      BY <1>2, PosExists
    <2> HIDE DEF d, k
    <2>3. ASSUME Has(d, y) PROVE Has(s, y)
      <3>1. PICK j \in 1..(Len(s) - 1) : d[j] = y
        BY <2>1, <2>3 DEF Has
      <3>2. j \in 1..Len(s) /\ j + 1 \in 1..Len(s)
        BY <2>1
      <3>3. CASE j < k BY <2>1, <3>1, <3>2, <3>3 DEF Has
      <3>4. CASE j >= k BY <2>1, <3>1, <3>2, <3>4 DEF Has
      <3>5. QED BY <2>2, <3>3, <3>4
    <2>4. ASSUME Has(s, y), y # x PROVE Has(d, y)
      <3>1. PICK j \in 1..Len(s) : s[j] = y
        BY <2>4 DEF Has
      <3>2. j # k
        BY <2>2, <2>4, <3>1
      <3>3. CASE j < k
        <4>1. j \in 1..(Len(s) - 1) BY <2>1, <2>2, <3>3
        <4>2. d[j] = y BY <2>1, <3>1, <3>3, <4>1
        <4>3. QED BY <2>1, <4>1, <4>2 DEF Has
      <3>4. CASE j > k
        <4>1. j - 1 \in 1..(Len(s) - 1) /\ j - 1 >= k BY <2>1, <2>2, <3>4
        <4>2. d[j - 1] = s[(j - 1) + 1] BY <2>1, <4>1
        <4>3. (j - 1) + 1 = j OBVIOUS
        <4>4. QED BY <2>1, <3>1, <4>1, <4>2, <4>3 DEF Has
      <3>5. QED BY <2>2, <3>2, <3>3, <3>4
    <2>5. QED BY <2>3, <2>4 DEF d
  <1>3. QED BY <1>1, <1>2

\* A list without repetitions stays so, and has lost x.
LEMMA ListDelInjective ==
    ASSUME NEW S, NEW s \in Seq(S), NEW x, Injective(s)
    PROVE  Injective(list_del(s, x)) /\ ~Has(list_del(s, x), x)
  <1>1. CASE ~Has(s, x)
    BY <1>1 DEF list_del
  <1>2. CASE Has(s, x)
    <2> DEFINE d == list_del(s, x)
               k == Pos(s, x)
               from(j) == IF j < k THEN j ELSE j + 1
    <2>1. /\ Len(d) = Len(s) - 1 /\ Len(s) \in Nat
          /\ \A j \in 1..(Len(s) - 1) : j < k => d[j] = s[j]
          /\ \A j \in 1..(Len(s) - 1) : j >= k => d[j] = s[j + 1]
      BY <1>2, ListDel
    <2>2. k \in 1..Len(s) /\ s[k] = x
      BY <1>2, PosExists
    <2> HIDE DEF d, k
    <2>3. \A j \in 1..(Len(s) - 1) : from(j) \in 1..Len(s) /\ from(j) # k
      BY <2>1, <2>2
    <2>4. \A j \in 1..(Len(s) - 1) : d[j] = s[from(j)]
      BY <2>1, <2>2
    <2>5. \A i, j \in 1..(Len(s) - 1) : i # j => from(i) # from(j)
      BY <2>1, <2>2
    <2> HIDE DEF from
    <2>6. Injective(d)
      BY <2>1, <2>3, <2>4, <2>5 DEF Injective
    <2>7. ~Has(d, x)
      BY <2>1, <2>2, <2>3, <2>4 DEF Injective, Has
    <2>8. QED BY <2>6, <2>7 DEF d
  <1>3. QED BY <1>1, <1>2

\* list_add puts one element in and leaves the others.
LEMMA ListAdd ==
    ASSUME NEW S, NEW s \in Seq(S), NEW new \in S, NEW after, Has(s, after)
    PROVE  /\ list_add(s, new, after) \in Seq(S)
           /\ \A y : Has(list_add(s, new, after), y) <=> (Has(s, y) \/ y = new)
           /\ Injective(s) /\ ~Has(s, new) => Injective(list_add(s, new, after))
  <1> DEFINE k == Pos(s, after)
             u == SubSeq(s, 1, k)
             v == SubSeq(s, k + 1, Len(s))
             a == list_add(s, new, after)
             n == Len(s)
  <1>1. k \in 1..n /\ n \in Nat
    BY PosExists
  <1>2. a = (u \o <<new>>) \o v
    BY DEF list_add
  <1> HIDE DEF k
  <1>3. u \in Seq(S) /\ Len(u) = k /\ \A j \in 1..k : u[j] = s[j]
    BY <1>1
  <1>4. v \in Seq(S) /\ Len(v) = n - k /\ \A j \in 1..(n - k) : v[j] = s[k + j]
    BY <1>1
  <1> HIDE DEF u, v, a, n
  <1>5. <<new>> \in Seq(S) /\ Len(<<new>>) = 1 /\ <<new>>[1] = new
    OBVIOUS
  <1> DEFINE w == u \o <<new>>
  <1>6. /\ w \in Seq(S) /\ Len(w) = Len(u) + 1
        /\ \A j \in 1..(Len(u) + 1) : w[j] = IF j <= Len(u) THEN u[j] ELSE <<new>>[j - Len(u)]
    BY <1>3, <1>5, ConcatProperties
  <1> HIDE DEF w
  <1>7. /\ a \in Seq(S) /\ Len(a) = Len(w) + Len(v)
        /\ \A j \in 1..(Len(w) + Len(v)) : a[j] = IF j <= Len(w) THEN w[j] ELSE v[j - Len(w)]
    BY <1>2, <1>4, <1>6, ConcatProperties DEF w
  <1>8. Len(w) = k + 1 /\ Len(a) = n + 1
    BY <1>1, <1>3, <1>4, <1>6, <1>7
  <1>9. \A j \in 1..k : a[j] = s[j]
    BY <1>1, <1>3, <1>4, <1>6, <1>7, <1>8
  <1>10. a[k + 1] = new
    <2>1. w[k + 1] = <<new>>[(k + 1) - k]
      BY <1>1, <1>3, <1>6
    <2>2. (k + 1) - k = 1
      BY <1>1
    <2>3. a[k + 1] = w[k + 1]
      BY <1>1, <1>4, <1>7, <1>8
    <2>4. QED BY <1>5, <2>1, <2>2, <2>3
  <1>11. ASSUME NEW j \in (k + 1)..n PROVE a[j + 1] = s[j]
    <2>1. a[j + 1] = v[(j + 1) - (k + 1)]
      BY <1>1, <1>4, <1>7, <1>8
    <2>2. (j + 1) - (k + 1) = j - k /\ j - k \in 1..(n - k) /\ k + (j - k) = j
      BY <1>1
    <2>3. QED BY <1>4, <2>1, <2>2
  <1>12. ASSUME NEW y PROVE Has(a, y) <=> (Has(s, y) \/ y = new)
    <2>1. ASSUME Has(a, y) PROVE Has(s, y) \/ y = new
      <3>1. PICK j \in 1..(n + 1) : a[j] = y
        BY <1>8, <2>1 DEF Has
      <3>2. CASE j <= k
        BY <1>1, <1>9, <3>1, <3>2 DEF Has, n
      <3>3. CASE j = k + 1
        BY <1>10, <3>1, <3>3
      <3>4. CASE j > k + 1
        <4>1. j - 1 \in (k + 1)..n /\ j - 1 \in 1..n /\ (j - 1) + 1 = j BY <1>1, <3>4
        <4>2. s[j - 1] = y BY <1>11, <3>1, <4>1
        <4>3. QED BY <4>1, <4>2 DEF Has, n
      <3>5. QED BY <1>1, <3>2, <3>3, <3>4
    <2>2. ASSUME Has(s, y) PROVE Has(a, y)
      <3>1. PICK j \in 1..n : s[j] = y
        BY <2>2 DEF Has, n
      <3>2. CASE j <= k
        BY <1>1, <1>8, <1>9, <3>1, <3>2 DEF Has
      <3>3. CASE j > k
        <4>1. j + 1 \in 1..(n + 1) /\ j \in (k + 1)..n BY <1>1, <3>3
        <4>2. a[j + 1] = y BY <1>11, <3>1, <4>1
        <4>3. QED BY <1>8, <4>1, <4>2 DEF Has
      <3>4. QED BY <1>1, <3>2, <3>3
    <2>3. Has(a, new)
      <3>1. k + 1 \in 1..(n + 1) BY <1>1
      <3>2. QED BY <1>8, <1>10, <3>1 DEF Has
    <2>4. QED BY <2>1, <2>2, <2>3
  <1>13. ASSUME Injective(s), ~Has(s, new) PROVE Injective(a)
    <2> DEFINE from(j) == IF j <= k THEN j ELSE j - 1
    <2>1. \A j \in 1..(n + 1) : j # k + 1 => from(j) \in 1..n /\ a[j] = s[from(j)]
      <3> SUFFICES ASSUME NEW j \in 1..(n + 1), j # k + 1
                   PROVE  from(j) \in 1..n /\ a[j] = s[from(j)]
        OBVIOUS
      <3>1. CASE j <= k BY <1>1, <1>9, <3>1
      <3>2. CASE j > k + 1
        <4>1. j - 1 \in (k + 1)..n /\ (j - 1) + 1 = j BY <1>1, <3>2
        <4>2. a[j] = s[j - 1] BY <1>11, <4>1
        <4>3. QED BY <1>1, <3>2, <4>1, <4>2
      <3>3. QED BY <1>1, <3>1, <3>2
    <2>2. \A i, j \in 1..(n + 1) : i # j /\ i # k + 1 /\ j # k + 1 => from(i) # from(j)
      BY <1>1
    <2> HIDE DEF from
    <2>3. \A i \in 1..n : s[i] # new
      BY <1>13 DEF Has, n
    <2>4. \A i, j \in 1..n : i # j => s[i] # s[j]
      BY <1>13 DEF Injective, n
    <2>5. ASSUME NEW i \in 1..(n + 1), NEW j \in 1..(n + 1), i # j PROVE a[i] # a[j]
      <3>1. CASE i = k + 1
        BY <1>10, <2>1, <2>3, <2>5, <3>1
      <3>2. CASE j = k + 1
        BY <1>10, <2>1, <2>3, <2>5, <3>2
      <3>3. CASE i # k + 1 /\ j # k + 1
        BY <2>1, <2>2, <2>4, <2>5, <3>3
      <3>4. QED BY <3>1, <3>2, <3>3
    <2>6. QED BY <1>8, <2>5 DEF Injective
  <1>14. QED BY <1>7, <1>12, <1>13 DEF a
=============================================================================
