----------------------------- MODULE HeapProofs -----------------------------
(***************************************************************************)
(* The heap for any size of page, memory and request.  BlockInv: the       *)
(* alloc_headers of an entry tile it through splits and merges, what       *)
(* callers hold are blocks of their own, and free blocks are merged.       *)
(* PageInv: every page of an entry has a physical page of its own, error   *)
(* paths give back no page twice, and none is lost unless a call fails.    *)
(* Together they show that the heap implements Allocator.                  *)
(***************************************************************************)
EXTENDS Heap, PagingProofs

Header == [size : Nat, free : BOOLEAN]
Entry == [v : VPages, n : 1..HEAP_PAGES, virtual : BOOLEAN,
          head : UNION {[D -> Header] : D \in SUBSET Nat}]

Follows(h, o) == o + HEADER + h[o].size

\* The headers h lead from the first one to the end E of the entry.
Tiled(h, E) ==
    /\ HEAP_LIST \in DOMAIN h /\ DOMAIN h \subseteq HEAP_LIST..(E - 1)
    /\ \A o \in DOMAIN h :
         /\ Follows(h, o) = E \/ Follows(h, o) \in DOMAIN h
         /\ \A x \in DOMAIN h : x > o => x >= Follows(h, o)

\* Of two neighbours below L one is in use.
Apart(h, L) ==
    \A o \in DOMAIN h :
        (o < L /\ h[o].free /\ Follows(h, o) \in DOMAIN h /\ Follows(h, o) < L)
            => ~h[Follows(h, o)].free

EntryOK(e) == e \in Entry /\ Tiled(e.head, End(e)) /\ Apart(e.head, page_size(e))

-----------------------------------------------------------------------------
(* Sizes *)

LEMMA Products ==
    ASSUME NEW a \in Nat, NEW b \in Nat, NEW u \in Nat \ {0}, a < b
    PROVE  /\ a * u \in Nat /\ b * u \in Nat
           /\ a * u + u <= b * u
  <1>1. PICK d \in Nat : b = a + 1 + d
    <2>1. b - a - 1 \in Nat /\ b = a + 1 + (b - a - 1) OBVIOUS
    <2>2. QED BY <2>1
  <1>2. b * u = a * u + u + d * u BY <1>1
  <1>3. d * u \in Nat /\ a * u \in Nat OBVIOUS
  <1>4. QED BY <1>2, <1>3

\* PAGE_ALIGN: the pages of a units hold them, and one page less does not.
LEMMA PagesHold ==
    ASSUME NEW a \in Nat \ {0}
    PROVE  /\ Pages(a) \in Nat \ {0}
           /\ a <= Pages(a) * UNITS
           /\ Pages(a) * UNITS < a + UNITS
  <1>1. UNITS \in Nat \ {0} /\ a + UNITS - 1 \in Nat
    BY HeapAssumption DEF HEAP_LIST, HEADER
  <1> DEFINE q == Pages(a)
  <1>2. q \in Nat /\ UNITS * q <= a + UNITS - 1 /\ a + UNITS - 1 < UNITS * q + UNITS
    BY <1>1, DivNat DEF Pages
  <1> HIDE DEF q
  <1>3. UNITS * q = q * UNITS /\ q * UNITS \in Nat
    BY <1>1, <1>2
  <1>4. q # 0
    <2>1. q = 0 => q * UNITS = 0 BY <1>1
    <2>2. QED BY <1>1, <1>2, <1>3, <2>1
  <1>5. QED BY <1>1, <1>2, <1>3, <1>4 DEF q

\* The error paths of kmalloc and vmalloc give back no more than was taken.
LEMMA GivesBackLess ==
    ASSUME NEW a \in Nat \ {0}
    PROVE  /\ GivenBack(a) \in Nat /\ EntryPages(a) \in Nat \ {0}
           /\ GivenBack(a) <= EntryPages(a)
           /\ EntryPages(a) * UNITS >= a + HEAP_LIST + HEADER
  <1>1. UNITS \in Nat \ {0} /\ a + HEAP_LIST + HEADER \in Nat \ {0} /\ a < a + HEAP_LIST + HEADER
    BY HeapAssumption DEF HEAP_LIST, HEADER
  <1> DEFINE p == Pages(a)
             q == Pages(a + HEAP_LIST + HEADER)
             b == a + HEAP_LIST + HEADER
  <1>2. p \in Nat \ {0} /\ a <= p * UNITS /\ p * UNITS < a + UNITS
    BY PagesHold
  <1>3. q \in Nat \ {0} /\ b <= q * UNITS
    BY <1>1, PagesHold
  <1>4. GivenBack(a) = p /\ EntryPages(a) = q BY DEF GivenBack, EntryPages
  <1> HIDE DEF p, q
  <1>5. ~(q < p)
    <2>1. SUFFICES ASSUME q < p PROVE FALSE OBVIOUS
    <2>2. q * UNITS \in Nat /\ p * UNITS \in Nat /\ q * UNITS + UNITS <= p * UNITS
      BY <1>1, <1>2, <1>3, <2>1, Products
    <2>3. QED BY <1>1, <1>2, <1>3, <2>2
  <1>6. QED BY <1>2, <1>3, <1>4, <1>5

\* The defrag functions: page_size of an entry, rounded up, is its pages.
LEMMA PagesOfEntry ==
    ASSUME NEW n \in Nat \ {0}
    PROVE  /\ n * UNITS \in Nat /\ n * UNITS >= UNITS
           /\ Pages(n * UNITS - HEAP_LIST) = n
  <1>1. UNITS \in Nat \ {0} /\ UNITS > 3
    BY HeapAssumption DEF HEAP_LIST, HEADER
  <1>2. n * UNITS \in Nat /\ n * UNITS >= UNITS
    <2>1. 0 * UNITS + UNITS <= n * UNITS /\ n * UNITS \in Nat /\ 0 * UNITS \in Nat
      BY <1>1, Products
    <2>2. QED BY <1>1, <2>1
  <1> DEFINE q == Pages(n * UNITS - HEAP_LIST)
  <1>3. q \in Nat \ {0} /\ n * UNITS - HEAP_LIST <= q * UNITS
        /\ q * UNITS < n * UNITS - HEAP_LIST + UNITS
    <2>1. n * UNITS - HEAP_LIST \in Nat \ {0} BY <1>1, <1>2 DEF HEAP_LIST
    <2>2. QED BY <2>1, PagesHold
  <1> HIDE DEF q
  <1>4. ~(q < n)
    <2>1. SUFFICES ASSUME q < n PROVE FALSE OBVIOUS
    <2>2. q * UNITS \in Nat /\ q * UNITS + UNITS <= n * UNITS BY <1>1, <1>3, <2>1, Products
    <2>3. QED BY <1>1, <1>2, <1>3, <2>2 DEF HEAP_LIST
  <1>5. ~(n < q)
    <2>1. SUFFICES ASSUME n < q PROVE FALSE OBVIOUS
    <2>2. q * UNITS \in Nat /\ n * UNITS + UNITS <= q * UNITS BY <1>1, <1>3, <2>1, Products
    <2>3. QED BY <1>1, <1>2, <1>3, <2>2 DEF HEAP_LIST
  <1>6. QED BY <1>2, <1>3, <1>4, <1>5 DEF q

-----------------------------------------------------------------------------
(* Splitting and merging *)

\* Field by field, an entry and its sizes.
LEMMA EntryFields ==
    ASSUME NEW e \in Entry
    PROVE  /\ e.v \in VPages /\ e.n \in 1..HEAP_PAGES /\ e.virtual \in BOOLEAN
           /\ DOMAIN e.head \subseteq Nat
           /\ e.head \in [DOMAIN e.head -> Header]
           /\ \A o \in DOMAIN e.head : e.head[o] \in Header
           /\ End(e) \in Nat /\ End(e) > HEAP_LIST + HEADER
           /\ page_size(e) \in Nat /\ page_size(e) = End(e) - HEAP_LIST
  <1>1. e.v \in VPages /\ e.n \in 1..HEAP_PAGES /\ e.virtual \in BOOLEAN
        /\ e.head \in UNION {[D -> Header] : D \in SUBSET Nat}
    BY DEF Entry
  <1>2. PICK D \in SUBSET Nat : e.head \in [D -> Header]
    BY <1>1
  <1>3. D = DOMAIN e.head BY <1>2
  <1>4. \A o \in DOMAIN e.head : e.head[o] \in Header
    BY <1>2, <1>3
  <1>5. e.n * UNITS \in Nat /\ e.n * UNITS >= UNITS /\ UNITS \in Nat /\ UNITS > 3
    <2>1. e.n \in Nat \ {0} BY <1>1, PagingAssumption
    <2>2. QED BY <2>1, PagesOfEntry, HeapAssumption DEF HEAP_LIST, HEADER
  <1>6. End(e) \in Nat /\ End(e) > HEAP_LIST + HEADER
        /\ page_size(e) \in Nat /\ page_size(e) = End(e) - HEAP_LIST
    BY <1>5 DEF End, page_size, HEAP_LIST, HEADER
  <1>7. QED BY <1>1, <1>2, <1>3, <1>4, <1>6

\* A header that is not the first has one right before it.
LEMMA Before ==
    ASSUME NEW h, NEW E \in Nat, Tiled(h, E), h \in [DOMAIN h -> Header],
           NEW x \in DOMAIN h, x # HEAP_LIST
    PROVE  \E p \in DOMAIN h : p < x /\ Follows(h, p) = x
  <1> DEFINE T == {d \in Nat : \E p \in DOMAIN h : p < x /\ d = x - p}
  <1>1. DOMAIN h \subseteq Nat /\ HEAP_LIST \in DOMAIN h /\ HEAP_LIST < x /\ x < E /\ x \in Nat
    BY DEF Tiled, HEAP_LIST
  <1>2. T \subseteq Nat /\ x - HEAP_LIST \in T
    BY <1>1
  <1>3. PICK d \in T : \A y \in T : d <= y
    BY <1>2, LeastNatural
  <1>4. PICK p \in DOMAIN h : p < x /\ d = x - p
    BY <1>3
  <1>5. h[p] \in Header /\ h[p].size \in Nat /\ p \in Nat
    BY <1>1 DEF Header
  <1>6. Follows(h, p) \in Nat /\ p < Follows(h, p)
    BY <1>5 DEF Follows, HEADER
  <1>7. Follows(h, p) <= x
    BY <1>4 DEF Tiled
  <1>8. Follows(h, p) # E
    BY <1>1, <1>6, <1>7
  <1>9. Follows(h, p) \in DOMAIN h
    BY <1>8 DEF Tiled
  <1>10. ~(Follows(h, p) < x)
    <2>1. SUFFICES ASSUME Follows(h, p) < x PROVE FALSE OBVIOUS
    <2>2. x - Follows(h, p) \in T BY <1>1, <1>6, <1>9, <2>1
    <2>3. QED BY <1>1, <1>3, <1>4, <1>5, <1>6, <2>1, <2>2
  <1>11. QED BY <1>1, <1>4, <1>6, <1>7, <1>10

\* No two headers lead to the same place.
LEMMA FollowsOnce ==
    ASSUME NEW h, NEW E \in Nat, Tiled(h, E), h \in [DOMAIN h -> Header],
           NEW o \in DOMAIN h, NEW p \in DOMAIN h, Follows(h, o) = Follows(h, p)
    PROVE  o = p
  <1>1. o \in Nat /\ p \in Nat /\ h[o].size \in Nat /\ h[p].size \in Nat
    BY DEF Tiled, Header, HEAP_LIST
  <1>2. o < Follows(h, o) /\ p < Follows(h, p) /\ Follows(h, o) \in Nat
    BY <1>1 DEF Follows, HEADER
  <1>3. (p > o => p >= Follows(h, o)) /\ (o > p => o >= Follows(h, p))
    BY DEF Tiled
  <1>4. QED BY <1>1, <1>2, <1>3

\* What try_allocate does to the headers h: the block o is taken for a units.
Taken(h, g, o, a) ==
    /\ o \in DOMAIN g /\ ~g[o].free /\ g[o].size >= a
    /\ \A x \in DOMAIN h : x # o => x \in DOMAIN g /\ g[x] = h[x]
    /\ \A x \in DOMAIN g : x \in DOMAIN h \/ g[x].free

\* The headers after the block o has been split behind a units.
SplitAt(h, o, a) ==
    [x \in DOMAIN h \cup {o + HEADER + a} |->
        CASE x = o -> [size |-> a, free |-> FALSE]
          [] x = o + HEADER + a -> [size |-> h[o].size - (HEADER + a), free |-> TRUE]
          [] OTHER -> h[x]]

\* try_allocate, the block is split.
LEMMA Split ==
    ASSUME NEW h, NEW E \in Nat, NEW L \in Nat, Tiled(h, E), Apart(h, L), h \in [DOMAIN h -> Header],
           NEW a \in Nat \ {0}, NEW o \in DOMAIN h, o < L, h[o].free, a < h[o].size,
           NEW g, g = SplitAt(h, o, a)
    PROVE  /\ Tiled(g, E) /\ Apart(g, L) /\ g \in [DOMAIN g -> Header]
           /\ Taken(h, g, o, a)
  <1> DEFINE next == o + HEADER + a
  <1>1. DOMAIN h \subseteq Nat /\ o \in Nat /\ h[o].size \in Nat
        /\ \A x \in DOMAIN h : h[x] \in Header /\ x < E
    BY DEF Tiled, HEAP_LIST, Header
  <1>2. o < next /\ next < Follows(h, o) /\ Follows(h, o) <= E /\ next \in Nat
        /\ Follows(h, o) \in Nat /\ next # o
    BY <1>1 DEF Follows, HEADER, Tiled
  <1>3. next \notin DOMAIN h /\ next # E
    BY <1>1, <1>2 DEF Tiled
  <1>4. DOMAIN g = DOMAIN h \cup {next} /\ g[o] = [size |-> a, free |-> FALSE]
        /\ g[next] = [size |-> h[o].size - (HEADER + a), free |-> TRUE]
    BY <1>2 DEF SplitAt
  <1>5. \A x \in DOMAIN h : x # o => g[x] = h[x]
    BY <1>3 DEF SplitAt
  <1>6. h[o].size - (HEADER + a) \in Nat
    BY <1>1 DEF HEADER
  <1>7. g[o] \in Header /\ g[o].size = a /\ ~g[o].free /\ g[next] \in Header
        /\ g[next].size = h[o].size - (HEADER + a) /\ g[next].free
    BY <1>4, <1>6 DEF Header
  <1>8. \A x \in DOMAIN g : g[x] \in Header
    BY <1>1, <1>4, <1>5, <1>7
  <1>9. g \in [DOMAIN g -> Header]
    BY <1>8 DEF SplitAt
  <1>10. Follows(g, o) = next /\ Follows(g, next) = Follows(h, o)
    BY <1>1, <1>7 DEF Follows, HEADER
  <1>11. \A x \in DOMAIN h : x # o => Follows(g, x) = Follows(h, x)
    BY <1>5 DEF Follows
  <1> HIDE DEF next
  <1>12. Tiled(g, E)
    <2>1. HEAP_LIST \in DOMAIN g /\ DOMAIN g \subseteq HEAP_LIST..(E - 1)
      BY <1>1, <1>2, <1>4 DEF Tiled, HEAP_LIST
    <2>2. ASSUME NEW x \in DOMAIN g
          PROVE  /\ Follows(g, x) = E \/ Follows(g, x) \in DOMAIN g
                 /\ \A y \in DOMAIN g : y > x => y >= Follows(g, x)
      <3> DEFINE F == Follows(h, o)
      <3>5. \A y \in DOMAIN h : y > o => y >= F
        BY DEF Tiled
      <3>6. F = E \/ F \in DOMAIN h
        BY DEF Tiled
      <3>7. F \in Nat /\ next < F /\ o < next
        BY <1>2
      <3> HIDE DEF F
      <3>1. CASE x = o
        <4>1. \A y \in DOMAIN g : y > o => y >= next
          BY <3>5, <3>7, <1>1, <1>2, <1>4
        <4>2. QED BY <3>1, <4>1, <1>4, <1>10
      <3>2. CASE x = next
        <4>1. \A y \in DOMAIN g : y > next => y >= F
          BY <3>5, <3>7, <1>1, <1>2, <1>4
        <4>2. Follows(g, x) = F BY <3>2, <1>10 DEF F
        <4>3. QED BY <3>2, <3>6, <4>1, <4>2, <1>4
      <3>3. CASE x # o /\ x # next
        <4>1. x \in DOMAIN h /\ x \in Nat BY <3>3, <1>1, <1>4
        <4>2. Follows(g, x) = Follows(h, x) BY <4>1, <3>3, <1>11
        <4>3. next > x => o > x
          BY <4>1, <3>3, <1>1, <1>2 DEF Tiled
        <4>4. \A y \in DOMAIN h : y > x => y >= Follows(h, x)
          BY <4>1 DEF Tiled
        <4>5. h[x].size \in Nat /\ Follows(h, x) \in Nat
          BY <4>1, <1>1 DEF Header, Follows, HEADER
        <4>6. next > x => next >= Follows(h, x)
          BY <4>3, <4>4, <4>5, <1>1, <1>2
        <4>7. Follows(h, x) = E \/ Follows(h, x) \in DOMAIN h
          BY <4>1 DEF Tiled
        <4>8. QED BY <4>2, <4>4, <4>6, <4>7, <1>4
      <3>4. QED BY <3>1, <3>2, <3>3
    <2>3. QED BY <2>1, <2>2 DEF Tiled
  <1>13. Apart(g, L)
    <2>1. SUFFICES ASSUME NEW x \in DOMAIN g, x < L, g[x].free,
                          Follows(g, x) \in DOMAIN g, Follows(g, x) < L
                   PROVE  ~g[Follows(g, x)].free
      BY DEF Apart
    <2>2. x # o BY <2>1, <1>7
    <2>3. CASE x = next
      <3>1. Follows(g, x) = Follows(h, o) /\ Follows(h, o) \in DOMAIN h /\ Follows(h, o) # o
        BY <2>1, <2>3, <1>1, <1>2, <1>4, <1>10
      <3>2. ~h[Follows(h, o)].free BY <3>1, <2>1 DEF Apart
      <3>3. QED BY <3>1, <3>2, <1>5
    <2>4. CASE x # next
      <3>1. x \in DOMAIN h /\ Follows(g, x) = Follows(h, x) /\ g[x] = h[x]
        BY <2>1, <2>2, <2>4, <1>4, <1>5, <1>11
      <3>2. Follows(h, x) = E \/ Follows(h, x) \in DOMAIN h
        BY <3>1 DEF Tiled
      <3>3. Follows(h, x) \in DOMAIN h
        BY <3>1, <3>2, <2>1, <1>1, <1>2, <1>3, <1>4
      <3>4. ~h[Follows(h, x)].free
        BY <3>1, <3>3, <2>1 DEF Apart
      <3>5. QED BY <3>1, <3>3, <3>4, <1>5, <1>7
    <2>5. QED BY <2>3, <2>4
  <1>14. Taken(h, g, o, a)
    BY <1>4, <1>5, <1>7 DEF Taken
  <1>15. QED BY <1>9, <1>12, <1>13, <1>14

\* try_allocate, a block too small to be split is taken whole.
LEMMA TakenWhole ==
    ASSUME NEW h, NEW E \in Nat, NEW L \in Nat, Tiled(h, E), Apart(h, L), h \in [DOMAIN h -> Header],
           NEW a \in Nat \ {0}, NEW o \in DOMAIN h, a < h[o].size,
           NEW g, g = [h EXCEPT ![o].free = FALSE]
    PROVE  /\ Tiled(g, E) /\ Apart(g, L) /\ g \in [DOMAIN g -> Header]
           /\ Taken(h, g, o, a)
  <1>1. DOMAIN g = DOMAIN h /\ \A x \in DOMAIN h : x # o => g[x] = h[x]
    OBVIOUS
  <1>2. g[o] \in Header /\ g[o].size = h[o].size /\ ~g[o].free
    BY DEF Header
  <1>3. \A x \in DOMAIN g : g[x].size = h[x].size /\ Follows(g, x) = Follows(h, x)
    BY <1>1, <1>2 DEF Follows
  <1>4. \A x \in DOMAIN g : g[x] \in Header
    BY <1>1, <1>2
  <1>5. g \in [DOMAIN g -> Header]
    BY <1>4
  <1>6. Tiled(g, E)
    BY <1>1, <1>3 DEF Tiled
  <1>7. Apart(g, L)
    <2>1. SUFFICES ASSUME NEW x \in DOMAIN g, x < L, g[x].free,
                          Follows(g, x) \in DOMAIN g, Follows(g, x) < L
                   PROVE  ~g[Follows(g, x)].free
      BY DEF Apart
    <2>2. x # o /\ h[x].free BY <2>1, <1>1, <1>2
    <2>3. ~h[Follows(h, x)].free BY <2>1, <2>2, <1>1, <1>3 DEF Apart
    <2>4. QED BY <2>1, <2>3, <1>1, <1>2, <1>3
  <1>8. Taken(h, g, o, a)
    <2>1. h[o].size \in Nat BY DEF Header
    <2>2. QED BY <2>1, <1>1, <1>2 DEF Taken
  <1>9. QED BY <1>5, <1>6, <1>7, <1>8

\* try_allocate: the entry stays in order, and the first block that fits is
\* taken.
LEMMA Allocates ==
    ASSUME NEW e, EntryOK(e), NEW a \in Nat \ {0}, Fitting(e, a) # {}
    PROVE  LET f == try_allocate(e, a)
               o == Min(Fitting(e, a))
           IN  /\ EntryOK(f)
               /\ f.v = e.v /\ f.n = e.n /\ f.virtual = e.virtual
               /\ o \in Visible(e) /\ e.head[o].free
               /\ Taken(e.head, f.head, o, a)
  <1> DEFINE h == e.head
             f == try_allocate(e, a)
             o == Min(Fitting(e, a))
             E == End(e)
             L == page_size(e)
  <1>1. e \in Entry /\ Tiled(h, E) /\ Apart(h, L)
    BY DEF EntryOK
  <1>2. h \in [DOMAIN h -> Header] /\ E \in Nat /\ L \in Nat /\ DOMAIN h \subseteq Nat
        /\ e.v \in VPages /\ e.n \in 1..HEAP_PAGES /\ e.virtual \in BOOLEAN
    BY <1>1, EntryFields
  <1>3. o \in Fitting(e, a)
    <2>1. Fitting(e, a) \subseteq Nat BY <1>2 DEF Fitting, Visible
    <2>2. QED BY <2>1, MinNat
  <1>4. o \in DOMAIN h /\ o < L /\ h[o].free /\ a < h[o].size /\ o \in Visible(e)
    BY <1>3 DEF Fitting, Visible
  <1> DEFINE g1 == SplitAt(h, o, a)
             g2 == [h EXCEPT ![o].free = FALSE]
  <1>5. f = IF h[o].size > HEADER + 1 THEN [e EXCEPT !.head = g1] ELSE [e EXCEPT !.head = g2]
    BY <1>1 DEF try_allocate, Entry, SplitAt
  <1> HIDE DEF f, o, E, L, h
  <1>6. /\ Tiled(g1, E) /\ Apart(g1, L) /\ g1 \in [DOMAIN g1 -> Header] /\ Taken(h, g1, o, a)
        /\ DOMAIN g1 \subseteq Nat
    <2>1. DOMAIN g1 \subseteq Nat BY <1>2, <1>4 DEF HEADER, SplitAt
    <2>3. /\ Tiled(g1, E) /\ Apart(g1, L) /\ g1 \in [DOMAIN g1 -> Header]
          /\ Taken(h, g1, o, a)
      BY <1>1, <1>2, <1>4, Split
    <2>4. QED BY <2>1, <2>3
  <1>7. /\ Tiled(g2, E) /\ Apart(g2, L) /\ g2 \in [DOMAIN g2 -> Header] /\ Taken(h, g2, o, a)
        /\ DOMAIN g2 \subseteq Nat
    <2>1. DOMAIN g2 \subseteq Nat BY <1>2
    <2> HIDE DEF g2
    <2>2. QED BY <1>1, <1>2, <1>4, <2>1, TakenWhole, ZenonT(60) DEF g2
  <1> HIDE DEF g1, g2
  <1>8. \E g : /\ f = [e EXCEPT !.head = g] /\ Tiled(g, E) /\ Apart(g, L)
               /\ g \in [DOMAIN g -> Header] /\ Taken(h, g, o, a) /\ DOMAIN g \subseteq Nat
    BY <1>5, <1>6, <1>7
  <1>9. PICK g : /\ f = [e EXCEPT !.head = g] /\ Tiled(g, E) /\ Apart(g, L)
                 /\ g \in [DOMAIN g -> Header] /\ Taken(h, g, o, a) /\ DOMAIN g \subseteq Nat
    BY <1>8
  <1>10. f \in Entry /\ f.v = e.v /\ f.n = e.n /\ f.virtual = e.virtual /\ f.head = g
    <2>1. g \in UNION {[D -> Header] : D \in SUBSET Nat} BY <1>9
    <2>2. QED BY <2>1, <1>1, <1>9 DEF Entry
  <1>11. End(f) = E /\ page_size(f) = L
    BY <1>10 DEF End, page_size, E, L
  <1>12. EntryOK(f)
    BY <1>9, <1>10, <1>11 DEF EntryOK
  <1>13. QED BY <1>4, <1>9, <1>10, <1>12 DEF f, o, h

\* The free headers below L, those that stay, and what becomes of them.
FreeBelow(h, L) == {o \in {o \in DOMAIN h : o < L} : h[o].free}
Kept(h, L) ==
    DOMAIN h \ {o \in FreeBelow(h, L) : \E p \in FreeBelow(h, L) : Follows(h, p) = o}
MergedHeads(h, E, L) ==
    [o \in Kept(h, L) |->
        [h[o] EXCEPT !.size = Min({x \in Kept(h, L) : x > o} \cup {E}) - o - HEADER]]

LEMMA MergedIs ==
    ASSUME NEW e
    PROVE  Merged(e) = [e EXCEPT !.head = MergedHeads(e.head, End(e), page_size(e))]
  BY DEF Merged, MergedHeads, Kept, FreeBelow, Follows, Visible

\* kdefrag, vdefrag, the first loop: the headers that stay, g, lead from one to
\* the next and to the end; the blocks in use are untouched and no two free
\* neighbours are left.
LEMMA Merges ==
    ASSUME NEW h, NEW E \in Nat, NEW L \in Nat, Tiled(h, E), h \in [DOMAIN h -> Header],
           NEW isfree, isfree = FreeBelow(h, L), NEW kept, kept = Kept(h, L),
           NEW g, g = MergedHeads(h, E, L)
    PROVE  /\ Tiled(g, E) /\ Apart(g, L) /\ g \in [DOMAIN g -> Header]
           /\ DOMAIN g \subseteq DOMAIN h
           /\ \A x \in DOMAIN g : g[x].free = h[x].free
           /\ \A x \in DOMAIN h : ~h[x].free => x \in DOMAIN g /\ g[x].size = h[x].size
  <1> DEFINE m(o) == Min({x \in kept : x > o} \cup {E})
  <1>a. isfree = {o \in DOMAIN h : o < L /\ h[o].free}
    BY DEF FreeBelow
  <1>b. kept = DOMAIN h \ {o \in isfree : \E p \in isfree : Follows(h, p) = o}
    BY DEF Kept
  <1>c. g = [o \in kept |->
               [h[o] EXCEPT !.size = Min({x \in kept : x > o} \cup {E}) - o - HEADER]]
    BY DEF MergedHeads
  <1> USE <1>a, <1>b, <1>c
  <1>1. DOMAIN h \subseteq Nat /\ kept \subseteq DOMAIN h /\ DOMAIN g = kept
        /\ \A x \in DOMAIN h : h[x] \in Header /\ x < E /\ h[x].size \in Nat /\ h[x].free \in BOOLEAN
    BY DEF Tiled, HEAP_LIST, Header
  <1>2. \A x \in DOMAIN h : Follows(h, x) \in Nat /\ x < Follows(h, x)
    BY <1>1 DEF Follows, HEADER
  <1>3. ASSUME NEW o \in kept
        PROVE  /\ m(o) \in Nat /\ o < m(o) /\ (m(o) = E \/ m(o) \in kept)
               /\ \A y \in kept : y > o => m(o) <= y
               /\ m(o) <= E
    <2> DEFINE T == {x \in kept : x > o} \cup {E}
    <2>1. T \subseteq Nat /\ T # {} BY <1>1
    <2>2. m(o) \in T /\ \A y \in T : m(o) <= y
      <3> HIDE DEF T
      <3>1. Min(T) \in T /\ \A y \in T : Min(T) <= y BY <2>1, MinNat
      <3>2. QED BY <3>1 DEF T
    <2> HIDE DEF m
    <2>3. QED BY <1>1, <2>1, <2>2
  <1>4. \A o \in kept : g[o] = [h[o] EXCEPT !.size = m(o) - o - HEADER]
    OBVIOUS
  <1> HIDE DEF m
  <1>5. ASSUME NEW o \in kept
        PROVE  /\ g[o] \in Header /\ g[o].free = h[o].free /\ g[o].size = m(o) - o - HEADER
               /\ Follows(g, o) = m(o)
    <2>1. h[o] \in Header /\ o \in Nat BY <1>1
    <2>2. m(o) - o - HEADER \in Nat BY <1>3, <2>1 DEF HEADER
    <2>3. g[o] \in Header /\ g[o].free = h[o].free /\ g[o].size = m(o) - o - HEADER
      BY <1>4, <2>1, <2>2 DEF Header
    <2>4. Follows(g, o) = m(o)
      BY <1>3, <2>1, <2>3 DEF Follows, HEADER
    <2>5. QED BY <2>3, <2>4
  <1>6. g \in [DOMAIN g -> Header]
    BY <1>1, <1>5
  <1>7. HEAP_LIST \in kept
    <2>1. HEAP_LIST \in DOMAIN h /\ \A p \in DOMAIN h : p >= HEAP_LIST BY DEF Tiled, HEAP_LIST
    <2>2. \A p \in DOMAIN h : Follows(h, p) # HEAP_LIST BY <1>1, <1>2, <2>1 DEF HEAP_LIST
    <2>3. QED BY <2>1, <2>2
  <1>8. Tiled(g, E)
    <2>1. kept \subseteq HEAP_LIST..(E - 1) BY <1>1 DEF Tiled
    <2>2. ASSUME NEW o \in kept
          PROVE  /\ Follows(g, o) = E \/ Follows(g, o) \in kept
                 /\ \A x \in kept : x > o => x >= Follows(g, o)
      <3>1. Follows(g, o) = m(o) BY <1>5
      <3>2. m(o) \in Nat /\ (m(o) = E \/ m(o) \in kept) /\ \A y \in kept : y > o => m(o) <= y
        BY <1>3
      <3>3. \A y \in kept : y \in Nat BY <1>1
      <3>4. QED BY <3>1, <3>2, <3>3
    <2>3. QED BY <1>1, <1>7, <2>1, <2>2 DEF Tiled
  <1>9. Apart(g, L)
    <2>a. SUFFICES ASSUME NEW o \in DOMAIN g, o < L, g[o].free, Follows(g, o) \in DOMAIN g,
                          Follows(g, o) < L, g[Follows(g, o)].free
                   PROVE  FALSE
      BY DEF Apart
    <2>1. o \in kept /\ o < L /\ g[o].free /\ m(o) \in kept /\ m(o) < L /\ g[m(o)].free
      <3>1. o \in kept BY <1>1
      <3>2. Follows(g, o) = m(o) BY <3>1, <1>5
      <3>3. QED BY <3>1, <3>2, <2>a, <1>1
    <2>2. m(o) \in DOMAIN h /\ m(o) # HEAP_LIST /\ o \in DOMAIN h /\ m(o) \in isfree
      BY <1>1, <1>3, <1>5, <2>1 DEF Tiled, HEAP_LIST
    <2>3. PICK p \in DOMAIN h : p < m(o) /\ Follows(h, p) = m(o)
      BY <2>2, Before
    <2>4. p < L BY <1>1, <1>3, <2>1, <2>3
    <2>5. p \in isfree
      <3>1. CASE p = o BY <3>1, <1>5, <2>1, <2>4
      <3>2. CASE p < o
        \* then o would lie behind what follows p
        <4>1. o >= Follows(h, p) BY <3>2, <2>2 DEF Tiled
        <4>2. QED BY <4>1, <1>1, <1>3, <2>2, <2>3
      <3>3. CASE p > o
        <4>1. p \notin kept BY <3>3, <1>1, <1>3, <2>3
        <4>2. QED BY <4>1, <2>3
      <3>4. QED BY <3>1, <3>2, <3>3, <1>1, <2>2, <2>3
    <2>6. m(o) \notin kept BY <2>2, <2>3, <2>5
    <2>7. QED BY <2>1, <2>6, SMTT(30)
  <1>10. ASSUME NEW x \in DOMAIN h, ~h[x].free
         PROVE  x \in kept /\ g[x].size = h[x].size
    <2>1. x \in kept BY <1>10
    <2>2. Follows(h, x) = E \/ Follows(h, x) \in DOMAIN h BY DEF Tiled
    <2>3. Follows(h, x) \in DOMAIN h => Follows(h, x) \in kept
      <3>1. SUFFICES ASSUME Follows(h, x) \in DOMAIN h, Follows(h, x) \notin kept PROVE FALSE
        OBVIOUS
      <3>2. PICK p \in isfree : Follows(h, p) = Follows(h, x)
        BY <3>1
      <3>3. p \in DOMAIN h /\ h[p].free BY <3>2
      <3>4. p = x BY <3>2, <3>3, FollowsOnce
      <3>5. QED BY <3>3, <3>4, <1>10
    <2>4. m(x) <= Follows(h, x)
      BY <1>1, <1>2, <1>3, <2>1, <2>2, <2>3
    <2>5. m(x) >= Follows(h, x)
      <3>1. Follows(h, x) <= E BY <1>1, <1>2, <2>2
      <3>2. \A y \in DOMAIN h : y > x => y >= Follows(h, x) BY DEF Tiled
      <3>3. QED BY <1>1, <1>3, <2>1, <3>1, <3>2
    <2>6. m(x) = Follows(h, x) BY <1>2, <1>3, <2>1, <2>4, <2>5
    <2>7. g[x].size = Follows(h, x) - x - HEADER BY <1>5, <2>1, <2>6
    <2>8. x \in Nat /\ h[x].size \in Nat BY <1>1
    <2>9. QED BY <2>1, <2>7, <2>8 DEF Follows, HEADER
  <1>11. QED BY <1>1, <1>5, <1>6, <1>8, <1>9, <1>10

\* An entry whose block o is freed.
Freed(e, o) == Merged([e EXCEPT !.head[o].free = TRUE])

\* What that does to the headers h.
Released(h, g, o) ==
    /\ DOMAIN g \subseteq DOMAIN h
    /\ \A x \in DOMAIN g : ~g[x].free => ~h[x].free /\ x # o
    /\ \A x \in DOMAIN h : ~h[x].free /\ x # o =>
          x \in DOMAIN g /\ ~g[x].free /\ g[x].size = h[x].size

\* _free and the first loop of the defrag functions: the block o is free, the
\* other blocks in use stay as they are.
LEMMA Frees ==
    ASSUME NEW e, EntryOK(e), NEW o \in DOMAIN e.head
    PROVE  /\ EntryOK(Freed(e, o))
           /\ Freed(e, o).v = e.v /\ Freed(e, o).n = e.n /\ Freed(e, o).virtual = e.virtual
           /\ Released(e.head, Freed(e, o).head, o)
  <1> DEFINE d == [e EXCEPT !.head[o].free = TRUE]
             h == [e.head EXCEPT ![o].free = TRUE]
             E == End(e)
             L == page_size(e)
  <1>1. e \in Entry /\ Tiled(e.head, E)
    BY DEF EntryOK
  <1>2. e.head \in [DOMAIN e.head -> Header] /\ E \in Nat /\ L \in Nat /\ DOMAIN e.head \subseteq Nat
    BY <1>1, EntryFields
  <1>3. /\ DOMAIN h = DOMAIN e.head
        /\ \A x \in DOMAIN h : x # o => h[x] = e.head[x]
        /\ h[o] \in Header /\ h[o].free /\ h[o].size = e.head[o].size
    BY <1>2 DEF Header
  <1>4. \A x \in DOMAIN h : h[x] \in Header /\ h[x].size = e.head[x].size
    BY <1>2, <1>3
  <1>5. h \in [DOMAIN h -> Header]
    BY <1>4
  <1>6. d = [e EXCEPT !.head = h] /\ d.head = h /\ d.n = e.n
    BY <1>1 DEF Entry
  <1>7. End(d) = E /\ page_size(d) = L
    BY <1>6 DEF End, page_size
  <1> HIDE DEF h, E, L
  <1>8. Tiled(h, E)
    <2>1. \A x \in DOMAIN h : Follows(h, x) = Follows(e.head, x) BY <1>4 DEF Follows
    <2>2. QED BY <1>1, <1>3, <2>1 DEF Tiled
  <1> DEFINE g == MergedHeads(h, E, L)
  <1>9. /\ Tiled(g, E) /\ Apart(g, L) /\ g \in [DOMAIN g -> Header]
        /\ DOMAIN g \subseteq DOMAIN h
        /\ \A x \in DOMAIN g : g[x].free = h[x].free
        /\ \A x \in DOMAIN h : ~h[x].free => x \in DOMAIN g /\ g[x].size = h[x].size
    BY <1>2, <1>5, <1>8, Merges
  <1> DEFINE f == Merged(d)
  <1>10. f = [e EXCEPT !.head = g]
    <2> HIDE DEF d
    <2>1. f = [d EXCEPT !.head = g]
      BY <1>6, <1>7, MergedIs
    <2> HIDE DEF g, f
    <2>2. QED BY <1>1, <1>6, <2>1 DEF Entry
  <1> HIDE DEF f, g, d
  <1>11. f \in Entry /\ f.v = e.v /\ f.n = e.n /\ f.virtual = e.virtual /\ f.head = g
    <2>1. g \in UNION {[D -> Header] : D \in SUBSET Nat} BY <1>2, <1>3, <1>9
    <2>2. QED BY <2>1, <1>1, <1>10 DEF Entry
  <1>12. End(f) = E /\ page_size(f) = L
    BY <1>11 DEF End, page_size, E, L
  <1>13. EntryOK(f)
    BY <1>9, <1>11, <1>12 DEF EntryOK
  <1>14. \A x \in DOMAIN g : ~g[x].free => ~e.head[x].free /\ x # o
    BY <1>3, <1>9
  <1>15. \A x \in DOMAIN e.head : ~e.head[x].free /\ x # o =>
                     x \in DOMAIN g /\ ~g[x].free /\ g[x].size = e.head[x].size
    BY <1>3, <1>9
  <1>16. Released(e.head, g, o) BY <1>3, <1>9, <1>14, <1>15 DEF Released
  <1>17. f = Freed(e, o) BY DEF f, d, Freed
  <1>18. QED BY <1>11, <1>13, <1>16, <1>17

\* The defrag functions take an entry for unused when it is one free block.
LEMMA UnusedIsOne ==
    ASSUME NEW e, EntryOK(e), Unused(e)
    PROVE  \A x \in DOMAIN e.head : x = HEAP_LIST /\ e.head[x].free
  <1>1. e \in Entry /\ Tiled(e.head, End(e)) BY DEF EntryOK
  <1>2. End(e) \in Nat /\ page_size(e) = End(e) - HEAP_LIST /\ DOMAIN e.head \subseteq Nat
        /\ \A o \in DOMAIN e.head : e.head[o] \in Header
    BY <1>1, EntryFields
  <1>3. HEAP_LIST \in DOMAIN e.head /\ e.head[HEAP_LIST].size \in Nat
    BY <1>1, <1>2 DEF Tiled, Header
  <1>4. Follows(e.head, HEAP_LIST) = End(e)
    BY <1>2, <1>3 DEF Unused, Follows, HEADER, HEAP_LIST
  <1>5. \A x \in DOMAIN e.head : /\ x >= HEAP_LIST /\ x < End(e)
                                 /\ x > HEAP_LIST => x >= Follows(e.head, HEAP_LIST)
    <2>1. \A x \in DOMAIN e.head : x \in HEAP_LIST..(End(e) - 1) BY <1>1 DEF Tiled
    <2>2. \A x \in DOMAIN e.head : x > HEAP_LIST => x >= Follows(e.head, HEAP_LIST)
      BY <1>1, <1>3 DEF Tiled
    <2>3. QED BY <1>2, <2>1, <2>2 DEF HEAP_LIST
  <1>6. \A x \in DOMAIN e.head : x = HEAP_LIST BY <1>2, <1>4, <1>5 DEF HEAP_LIST
  <1>7. QED BY <1>6 DEF Unused

\* A new entry is one free block.
LEMMA NewIsOK ==
    ASSUME NEW v \in VPages, NEW n \in 1..HEAP_PAGES, NEW virtual \in BOOLEAN
    PROVE  LET e == init_new_allocated_block(v, n, virtual)
           IN  /\ EntryOK(e) /\ e.v = v /\ e.n = n /\ e.virtual = virtual
               /\ \A o \in DOMAIN e.head : e.head[o].free
  <1> DEFINE e == init_new_allocated_block(v, n, virtual)
             h == [o \in {HEAP_LIST} |-> [size |-> n * UNITS - HEAP_LIST - HEADER, free |-> TRUE]]
  <1>1. e = [v |-> v, n |-> n, virtual |-> virtual, head |-> h]
    BY DEF init_new_allocated_block
  <1>2. n \in Nat \ {0} BY PagingAssumption
  <1>3. n * UNITS \in Nat /\ n * UNITS >= UNITS /\ UNITS \in Nat /\ UNITS > 3
    BY <1>2, PagesOfEntry, HeapAssumption DEF HEAP_LIST, HEADER
  <1>4. DOMAIN h = {HEAP_LIST} /\ h[HEAP_LIST] \in Header /\ h[HEAP_LIST].free
        /\ h[HEAP_LIST].size = n * UNITS - HEAP_LIST - HEADER
    BY <1>3 DEF Header, HEAP_LIST, HEADER
  <1>5. h \in [DOMAIN h -> Header] /\ DOMAIN h \subseteq Nat
    BY <1>4 DEF HEAP_LIST
  <1> HIDE DEF h, e
  <1>6. e \in Entry /\ e.v = v /\ e.n = n /\ e.virtual = virtual /\ e.head = h
    <2>1. h \in UNION {[D -> Header] : D \in SUBSET Nat} BY <1>5
    <2>2. QED BY <2>1, <1>1 DEF Entry
  <1>7. End(e) = n * UNITS BY <1>6 DEF End
  <1>8. Follows(h, HEAP_LIST) = End(e)
    BY <1>3, <1>4, <1>7 DEF Follows, HEAP_LIST, HEADER
  <1>9. Tiled(h, End(e))
    BY <1>3, <1>4, <1>7, <1>8 DEF Tiled, HEAP_LIST
  <1>10. Apart(h, page_size(e))
    <2>1. Follows(h, HEAP_LIST) \notin DOMAIN h BY <1>3, <1>4, <1>7, <1>8 DEF HEAP_LIST
    <2>2. QED BY <1>4, <2>1 DEF Apart
  <1>11. QED BY <1>4, <1>6, <1>9, <1>10 DEF EntryOK, e

-----------------------------------------------------------------------------
(* The list of entries and what callers hold *)

\* list_del of the entry at place i.
LEMMA TakenOff ==
    ASSUME NEW S, NEW s \in Seq(S), NEW i \in 1..Len(s)
    PROVE  /\ RemoveAt(s, i) \in Seq(S)
           /\ Len(RemoveAt(s, i)) = Len(s) - 1
           /\ \A j \in 1..(Len(s) - 1) : RemoveAt(s, i)[j] = s[IF j < i THEN j ELSE j + 1]
  <1> DEFINE u == SubSeq(s, 1, i - 1)
             v == SubSeq(s, i + 1, Len(s))
  <1>1. Len(s) \in Nat OBVIOUS
  <1>2. RemoveAt(s, i) = u \o v
    BY DEF RemoveAt
  <1>3. u \in Seq(S) /\ Len(u) = i - 1 /\ \A j \in 1..(i - 1) : u[j] = s[j]
    BY <1>1
  <1>4. v \in Seq(S) /\ Len(v) = Len(s) - i /\ \A j \in 1..(Len(s) - i) : v[j] = s[i + j]
    BY <1>1
  <1> HIDE DEF u, v
  <1>5. /\ u \o v \in Seq(S)
        /\ Len(u \o v) = Len(u) + Len(v)
        /\ \A j \in 1..(Len(u) + Len(v)) :
              (u \o v)[j] = IF j <= Len(u) THEN u[j] ELSE v[j - Len(u)]
    BY <1>3, <1>4, ConcatProperties
  <1>6. Len(u) + Len(v) = Len(s) - 1
    BY <1>1, <1>3, <1>4
  <1>7. ASSUME NEW j \in 1..(Len(s) - 1) PROVE (u \o v)[j] = s[IF j < i THEN j ELSE j + 1]
    <2>1. CASE j < i
      <3>1. (u \o v)[j] = u[j] BY <2>1, <1>1, <1>3, <1>5, <1>6
      <3>2. u[j] = s[j] BY <2>1, <1>1, <1>3
      <3>3. QED BY <2>1, <3>1, <3>2
    <2>2. CASE j >= i
      <3>1. (u \o v)[j] = v[j - (i - 1)] BY <2>2, <1>1, <1>3, <1>5, <1>6
      <3>2. j - (i - 1) \in 1..(Len(s) - i) BY <2>2, <1>1
      <3>3. v[j - (i - 1)] = s[i + (j - (i - 1))] BY <3>2, <1>4
      <3>4. i + (j - (i - 1)) = j + 1 BY <1>1
      <3>5. (IF j < i THEN j ELSE j + 1) = j + 1 BY <2>2, <1>1
      <3>6. QED BY <3>1, <3>3, <3>4, <3>5
    <2>3. j < i \/ j >= i BY <1>1
    <2>4. QED BY <2>1, <2>2, <2>3
  <1>8. QED BY <1>2, <1>5, <1>6, <1>7

\* The entries are in order and lie apart from each other and from the free
\* virtual pages.
ListOK(H, V) ==
    /\ H \in Seq(Entry) /\ V \subseteq VPages
    /\ \A i \in 1..Len(H) : /\ EntryOK(H[i])
                            /\ VRange(H[i]) \subseteq VPages \ V
    /\ \A i, j \in 1..Len(H) : i # j => VRange(H[i]) \cap VRange(H[j]) = {}

Ptr == [v : VPages, off : Nat, size : Sizes, virtual : BOOLEAN]

\* The pointer p is a block in use of the entry e.
Holds(p, e) ==
    /\ e.v = p.v /\ e.virtual = p.virtual /\ p.off \in Visible(e)
    /\ ~e.head[p.off].free /\ e.head[p.off].size >= p.size

Owned(H, P) ==
    /\ P \subseteq Ptr
    /\ \A p \in P : \E i \in 1..Len(H) : Holds(p, H[i])
    /\ \A p, q \in P : p.v = q.v /\ p.off = q.off => p = q
    /\ \A i \in 1..Len(H) : \A o \in DOMAIN H[i].head :
          ~H[i].head[o].free => \E p \in P : p.v = H[i].v /\ p.off = o

\* An entry begins with a virtual page of its own.
LEMMA FirstPage ==
    ASSUME NEW H, NEW V, ListOK(H, V), NEW i \in 1..Len(H), NEW j \in 1..Len(H), H[i].v = H[j].v
    PROVE  i = j
  <1>1. H[i] \in Entry /\ H[j] \in Entry
    BY DEF ListOK, EntryOK
  <1>2. H[i].v \in Nat /\ H[i].n \in Nat \ {0} /\ H[j].n \in Nat \ {0}
    BY <1>1, PagingAssumption DEF Entry, VPages
  <1>3. H[i].v \in VRange(H[i]) /\ H[i].v \in VRange(H[j])
    BY <1>2 DEF VRange
  <1>4. QED BY <1>3 DEF ListOK

\* A request is served from the entry i: try_allocate.
LEMMA Serves ==
    ASSUME NEW H, NEW V, NEW P, ListOK(H, V), Owned(H, P), NEW a \in Sizes,
           NEW i \in 1..Len(H), Fitting(H[i], a) # {}
    PROVE  LET G == [H EXCEPT ![i] = try_allocate(@, a)]
               p == Pointer(H[i], Min(Fitting(H[i], a)), a)
           IN  ListOK(G, V) /\ Owned(G, P \cup {p})
  <1> DEFINE e == H[i]
             f == try_allocate(e, a)
             o == Min(Fitting(e, a))
             G == [H EXCEPT ![i] = f]
             p == Pointer(e, o, a)
  <1>1. H \in Seq(Entry) /\ EntryOK(e) /\ e \in Entry /\ Len(H) \in Nat
    BY DEF ListOK, EntryOK
  <1>2. a \in Nat \ {0} BY HeapAssumption
  <1>3. /\ EntryOK(f) /\ f.v = e.v /\ f.n = e.n /\ f.virtual = e.virtual
        /\ o \in Visible(e) /\ e.head[o].free /\ Taken(e.head, f.head, o, a)
    BY <1>1, <1>2, Allocates
  <1>4. f \in Entry BY <1>3 DEF EntryOK
  <1>5. VRange(f) = VRange(e) /\ page_size(f) = page_size(e) BY <1>3 DEF VRange, page_size
  <1> HIDE DEF f, o
  <1>6. G \in Seq(Entry) /\ Len(G) = Len(H) /\ G[i] = f
        /\ \A j \in 1..Len(H) : j # i => G[j] = H[j]
    BY <1>1, <1>4
  <1> HIDE DEF G
  <1>7. ListOK(G, V)
    <2>1. \A j \in 1..Len(G) : VRange(G[j]) = VRange(H[j]) /\ EntryOK(G[j])
      BY <1>3, <1>5, <1>6 DEF ListOK
    <2>2. QED BY <1>6, <2>1 DEF ListOK
  <1>8. p \in Ptr /\ p.v = e.v /\ p.off = o /\ p.size = a /\ p.virtual = e.virtual
    <2>1. o \in Nat BY <1>1, <1>3, EntryFields DEF Visible
    <2>2. e.v \in VPages /\ e.virtual \in BOOLEAN BY <1>1, EntryFields
    <2>3. QED BY <2>1, <2>2 DEF Ptr, Pointer
  <1> HIDE DEF p
  <1>9. o \in DOMAIN e.head /\ o < page_size(e) BY <1>3 DEF Visible
  <1>10. \A q \in P : ~(q.v = e.v /\ q.off = o)
    <2>1. SUFFICES ASSUME NEW q \in P, q.v = e.v, q.off = o PROVE FALSE
      OBVIOUS
    <2>2. PICK j \in 1..Len(H) : Holds(q, H[j]) BY DEF Owned
    <2>3. j = i BY <2>1, <2>2, FirstPage DEF Holds
    <2>4. QED BY <1>3, <2>1, <2>2, <2>3 DEF Holds
  <1>11. Holds(p, G[i])
    BY <1>3, <1>5, <1>6, <1>8, <1>9 DEF Holds, Visible, Taken
  <1>12. ASSUME NEW q \in P PROVE \E j \in 1..Len(G) : Holds(q, G[j])
    <2>1. PICK j \in 1..Len(H) : Holds(q, H[j]) BY DEF Owned
    <2>2. CASE j # i BY <2>1, <2>2, <1>6
    <2>3. CASE j = i
      <3>1. q.off # o /\ q.off \in DOMAIN e.head
        BY <2>1, <2>3, <1>10 DEF Holds, Visible
      <3>2. q.off \in DOMAIN f.head /\ f.head[q.off] = e.head[q.off]
        BY <3>1, <1>3 DEF Taken
      <3>3. Holds(q, f) BY <2>1, <2>3, <3>2, <1>3, <1>5 DEF Holds, Visible
      <3>4. QED BY <3>3, <1>6
    <2>4. QED BY <2>2, <2>3
  <1>13. ASSUME NEW j \in 1..Len(G), NEW x \in DOMAIN G[j].head, ~G[j].head[x].free
         PROVE  \E q \in P \cup {p} : q.v = G[j].v /\ q.off = x
    <2>1. CASE j # i BY <2>1, <1>6, <1>13 DEF Owned
    <2>2. CASE j = i
      <3>1. CASE x = o BY <2>2, <3>1, <1>3, <1>6, <1>8
      <3>2. CASE x # o
        <4>1. x \in DOMAIN e.head /\ ~e.head[x].free
          BY <2>2, <3>2, <1>3, <1>6, <1>13 DEF Taken
        <4>2. PICK q \in P : q.v = e.v /\ q.off = x BY <4>1 DEF Owned
        <4>3. QED BY <2>2, <4>2, <1>3, <1>6
      <3>3. QED BY <3>1, <3>2
    <2>3. QED BY <2>1, <2>2
  <1>14. \A q, r \in P \cup {p} : q.v = r.v /\ q.off = r.off => q = r
    BY <1>8, <1>10 DEF Owned
  <1>15. P \cup {p} \subseteq Ptr BY <1>8 DEF Owned
  <1>16. Owned(G, P \cup {p})
    <2>1. \A q \in P \cup {p} : \E j \in 1..Len(G) : Holds(q, G[j])
      BY <1>6, <1>11, <1>12
    <2>2. QED BY <2>1, <1>13, <1>14, <1>15 DEF Owned
  <1>17. QED BY <1>7, <1>16 DEF G, p, f, o

\* A block is freed and the entry i is still in use.
LEMMA FreesBlock ==
    ASSUME NEW H, NEW V, NEW P, ListOK(H, V), Owned(H, P), NEW p \in P,
           NEW i \in 1..Len(H), H[i].v = p.v, p.off \in Visible(H[i])
    PROVE  LET G == [H EXCEPT ![i] = Freed(H[i], p.off)]
           IN  ListOK(G, V) /\ Owned(G, P \ {p})
  <1> DEFINE e == H[i]
             f == Freed(e, p.off)
             G == [H EXCEPT ![i] = f]
  <1>1. H \in Seq(Entry) /\ EntryOK(e) /\ e \in Entry /\ Len(H) \in Nat
    BY DEF ListOK, EntryOK
  <1>2. p.off \in DOMAIN e.head BY DEF Visible
  <1>3. /\ EntryOK(f) /\ f.v = e.v /\ f.n = e.n /\ f.virtual = e.virtual
        /\ \A x \in DOMAIN f.head : ~f.head[x].free =>
              x \in DOMAIN e.head /\ ~e.head[x].free /\ x # p.off
        /\ \A x \in DOMAIN e.head : ~e.head[x].free /\ x # p.off =>
              x \in DOMAIN f.head /\ ~f.head[x].free /\ f.head[x].size = e.head[x].size
    <2>1. /\ EntryOK(f) /\ f.v = e.v /\ f.n = e.n /\ f.virtual = e.virtual
          /\ Released(e.head, f.head, p.off)
      BY <1>1, <1>2, Frees
    <2> HIDE DEF f
    <2>2. QED BY <2>1 DEF Released
  <1>4. f \in Entry BY <1>3 DEF EntryOK
  <1>5. VRange(f) = VRange(e) /\ page_size(f) = page_size(e) BY <1>3 DEF VRange, page_size
  <1> HIDE DEF f
  <1>6. G \in Seq(Entry) /\ Len(G) = Len(H) /\ G[i] = f
        /\ \A j \in 1..Len(H) : j # i => G[j] = H[j]
    BY <1>1, <1>4
  <1> HIDE DEF G
  <1>7. ListOK(G, V)
    <2>1. \A j \in 1..Len(G) : VRange(G[j]) = VRange(H[j]) /\ EntryOK(G[j])
      BY <1>3, <1>5, <1>6 DEF ListOK
    <2>2. QED BY <1>6, <2>1 DEF ListOK
  <1>8. ASSUME NEW q \in P \ {p} PROVE \E j \in 1..Len(G) : Holds(q, G[j])
    <2>1. PICK j \in 1..Len(H) : Holds(q, H[j]) BY DEF Owned
    <2>2. CASE j # i BY <2>1, <2>2, <1>6
    <2>3. CASE j = i
      <3>1. q.v = p.v BY <2>1, <2>3 DEF Holds
      <3>2. q.off # p.off BY <3>1 DEF Owned
      <3>3. q.off \in DOMAIN e.head /\ ~e.head[q.off].free
        BY <2>1, <2>3 DEF Holds, Visible
      <3>4. q.off \in DOMAIN f.head /\ ~f.head[q.off].free /\ f.head[q.off].size = e.head[q.off].size
        BY <3>2, <3>3, <1>3
      <3>5. Holds(q, f) BY <2>1, <2>3, <3>4, <1>3, <1>5 DEF Holds, Visible
      <3>6. QED BY <3>5, <1>6
    <2>4. QED BY <2>2, <2>3
  <1>9. ASSUME NEW j \in 1..Len(G), NEW x \in DOMAIN G[j].head, ~G[j].head[x].free
        PROVE  \E q \in P \ {p} : q.v = G[j].v /\ q.off = x
    <2>1. CASE j # i
      <3>1. G[j] = H[j] /\ j \in 1..Len(H) BY <2>1, <1>6
      <3>2. PICK q \in P : q.v = H[j].v /\ q.off = x BY <3>1, <1>9 DEF Owned
      <3>3. q # p BY <2>1, <3>1, <3>2, FirstPage
      <3>4. QED BY <3>1, <3>2, <3>3
    <2>2. CASE j = i
      <3>1. x \in DOMAIN e.head /\ ~e.head[x].free /\ x # p.off
        BY <2>2, <1>3, <1>6, <1>9
      <3>2. PICK q \in P : q.v = e.v /\ q.off = x BY <3>1 DEF Owned
      <3>3. QED BY <2>2, <3>1, <3>2, <1>3, <1>6
    <2>3. QED BY <2>1, <2>2
  <1>10. Owned(G, P \ {p})
    BY <1>8, <1>9 DEF Owned
  <1>11. QED BY <1>7, <1>10 DEF G, f

\* The last block of the entry i is freed: it goes off the list, and its
\* virtual pages are free.
LEMMA FreesEntry ==
    ASSUME NEW H, NEW V, NEW P, ListOK(H, V), Owned(H, P), NEW p \in P,
           NEW i \in 1..Len(H), H[i].v = p.v, p.off \in Visible(H[i]),
           Unused(Freed(H[i], p.off))
    PROVE  /\ ListOK(RemoveAt(H, i), V \cup VRange(H[i]))
           /\ Owned(RemoveAt(H, i), P \ {p})
  <1> DEFINE e == H[i]
             f == Freed(e, p.off)
             G == RemoveAt(H, i)
             at(j) == IF j < i THEN j ELSE j + 1
  <1>1. H \in Seq(Entry) /\ EntryOK(e) /\ e \in Entry /\ Len(H) \in Nat
    BY DEF ListOK, EntryOK
  <1>2. p.off \in DOMAIN e.head BY DEF Visible
  <1>3. /\ EntryOK(f)
        /\ \A x \in DOMAIN e.head : ~e.head[x].free /\ x # p.off =>
              x \in DOMAIN f.head /\ ~f.head[x].free
    BY <1>1, <1>2, Frees DEF Released
  <1>4. \A x \in DOMAIN f.head : f.head[x].free
    BY <1>3, UnusedIsOne
  <1>5. \A x \in DOMAIN e.head : ~e.head[x].free => x = p.off
    BY <1>3, <1>4
  <1>6. G \in Seq(Entry) /\ Len(G) = Len(H) - 1 /\ \A j \in 1..(Len(H) - 1) : G[j] = H[at(j)]
    BY <1>1, TakenOff
  <1>7. \A j \in 1..Len(G) : at(j) \in 1..Len(H) /\ at(j) # i
    BY <1>1, <1>6
  <1>8. \A j, k \in 1..Len(G) : j # k => at(j) # at(k)
    BY <1>1, <1>6
  <1>9. \A k \in 1..Len(H) : k # i => \E j \in 1..Len(G) : at(j) = k
    <2>1. SUFFICES ASSUME NEW k \in 1..Len(H), k # i PROVE \E j \in 1..Len(G) : at(j) = k
      OBVIOUS
    <2>2. CASE k < i BY <2>2, <1>1, <1>6
    <2>3. CASE k > i
      <3>1. k - 1 \in 1..Len(G) /\ at(k - 1) = k BY <2>3, <1>1, <1>6
      <3>2. QED BY <3>1
    <2>4. QED BY <2>1, <2>2, <2>3
  <1> HIDE DEF G, at, f
  <1>10. ListOK(G, V \cup VRange(e))
    <2>1. \A j \in 1..Len(G) : G[j] = H[at(j)] BY <1>6
    <2>2. \A j \in 1..Len(G) : EntryOK(G[j]) /\ VRange(G[j]) \subseteq VPages \ V
                               /\ VRange(G[j]) \cap VRange(e) = {}
      BY <1>7, <2>1 DEF ListOK
    <2>3. \A j, k \in 1..Len(G) : j # k => VRange(G[j]) \cap VRange(G[k]) = {}
      BY <1>7, <1>8, <2>1 DEF ListOK
    <2>4. V \cup VRange(e) \subseteq VPages BY DEF ListOK
    <2>5. QED BY <1>6, <2>2, <2>3, <2>4 DEF ListOK
  <1>11. ASSUME NEW q \in P \ {p} PROVE \E j \in 1..Len(G) : Holds(q, G[j])
    <2>1. PICK k \in 1..Len(H) : Holds(q, H[k]) BY DEF Owned
    <2>2. k # i
      <3>1. SUFFICES ASSUME k = i PROVE FALSE OBVIOUS
      <3>2. q.v = p.v /\ q.off \in DOMAIN e.head /\ ~e.head[q.off].free
        BY <2>1, <3>1 DEF Holds, Visible
      <3>3. q.off = p.off BY <3>2, <1>5
      <3>4. QED BY <3>2, <3>3 DEF Owned
    <2>3. PICK j \in 1..Len(G) : at(j) = k BY <2>2, <1>9
    <2>4. G[j] = H[k] BY <2>3, <1>6
    <2>5. QED BY <2>1, <2>4
  <1>12. ASSUME NEW j \in 1..Len(G), NEW x \in DOMAIN G[j].head, ~G[j].head[x].free
         PROVE  \E q \in P \ {p} : q.v = G[j].v /\ q.off = x
    <2>1. G[j] = H[at(j)] /\ at(j) \in 1..Len(H) /\ at(j) # i BY <1>6, <1>7
    <2>2. PICK q \in P : q.v = G[j].v /\ q.off = x BY <2>1, <1>12 DEF Owned
    <2>3. q # p BY <2>1, <2>2, FirstPage
    <2>4. QED BY <2>2, <2>3
  <1>13. Owned(G, P \ {p})
    BY <1>11, <1>12 DEF Owned
  <1>14. QED BY <1>10, <1>13 DEF G

\* A new entry of n pages, free before, at the head of the list.
LEMMA AddsEntry ==
    ASSUME NEW H, NEW V, NEW P, ListOK(H, V), Owned(H, P),
           NEW v \in VPages, NEW n \in 1..HEAP_PAGES, NEW virtual \in BOOLEAN,
           v..(v + n - 1) \subseteq V
    PROVE  LET G == <<init_new_allocated_block(v, n, virtual)>> \o H
           IN  /\ ListOK(G, V \ (v..(v + n - 1))) /\ Owned(G, P)
               /\ Len(G) = Len(H) + 1 /\ G[1] = init_new_allocated_block(v, n, virtual)
  <1> DEFINE e == init_new_allocated_block(v, n, virtual)
             W == V \ (v..(v + n - 1))
             G == <<e>> \o H
  <1>1. H \in Seq(Entry) /\ Len(H) \in Nat
    BY DEF ListOK
  <1>2. EntryOK(e) /\ e.v = v /\ e.n = n /\ \A o \in DOMAIN e.head : e.head[o].free
    BY NewIsOK
  <1>3. e \in Entry /\ VRange(e) = v..(v + n - 1) BY <1>2 DEF EntryOK, VRange
  <1> HIDE DEF e
  <1>4. /\ G \in Seq(Entry) /\ Len(G) = Len(H) + 1 /\ G[1] = e
        /\ \A j \in 1..Len(H) : G[j + 1] = H[j]
    <2>1. <<e>> \in Seq(Entry) /\ Len(<<e>>) = 1 /\ <<e>>[1] = e BY <1>3
    <2> DEFINE u == <<e>>
    <2> HIDE DEF u
    <2>2. /\ u \o H \in Seq(Entry) /\ Len(u \o H) = Len(u) + Len(H)
          /\ \A j \in 1..(Len(u) + Len(H)) : (u \o H)[j] = IF j <= Len(u) THEN u[j] ELSE H[j - Len(u)]
      BY <1>1, <2>1, ConcatProperties DEF u
    <2>3. Len(u) = 1 /\ u[1] = e BY <2>1 DEF u
    <2>4. (u \o H)[1] = e BY <1>1, <2>2, <2>3
    <2>5. ASSUME NEW j \in 1..Len(H) PROVE (u \o H)[j + 1] = H[j]
      <3>1. j + 1 \in 1..(Len(u) + Len(H)) /\ ~(j + 1 <= Len(u)) /\ j + 1 - Len(u) = j
        BY <1>1, <2>3
      <3>2. QED BY <2>2, <3>1
    <2>6. Len(u \o H) = Len(H) + 1 BY <1>1, <2>2, <2>3
    <2>7. QED BY <2>2, <2>4, <2>5, <2>6 DEF u
  <1> HIDE DEF G
  <1>5. \A j \in 1..Len(G) : j # 1 => j - 1 \in 1..Len(H) /\ G[j] = H[j - 1]
    <2>1. SUFFICES ASSUME NEW j \in 1..Len(G), j # 1
                   PROVE  j - 1 \in 1..Len(H) /\ G[j] = H[j - 1]
      OBVIOUS
    <2>2. j - 1 \in 1..Len(H) /\ (j - 1) + 1 = j BY <1>1, <1>4, <2>1
    <2>3. QED BY <1>4, <2>2
  <1>6. ListOK(G, W)
    <2>1. \A j \in 1..Len(G) : EntryOK(G[j]) /\ VRange(G[j]) \subseteq VPages \ W
      BY <1>2, <1>3, <1>4, <1>5 DEF ListOK
    <2>2. \A j \in 1..Len(H) : VRange(H[j]) \cap VRange(e) = {}
      BY <1>3 DEF ListOK
    <2>3. ASSUME NEW j \in 1..Len(G), NEW k \in 1..Len(G), j # k
          PROVE  VRange(G[j]) \cap VRange(G[k]) = {}
      <3>1. CASE j = 1 BY <3>1, <2>2, <2>3, <1>4, <1>5
      <3>2. CASE k = 1 BY <3>2, <2>2, <2>3, <1>4, <1>5
      <3>3. CASE j # 1 /\ k # 1
        <4>1. j - 1 # k - 1 BY <2>3, <1>1, <1>4
        <4>2. QED BY <3>3, <4>1, <1>5 DEF ListOK
      <3>4. QED BY <3>1, <3>2, <3>3
    <2>4. QED BY <1>4, <2>1, <2>3 DEF ListOK
  <1>7. Owned(G, P)
    <2>1. ASSUME NEW p \in P PROVE \E j \in 1..Len(G) : Holds(p, G[j])
      <3>1. PICK k \in 1..Len(H) : Holds(p, H[k]) BY DEF Owned
      <3>2. k + 1 \in 1..Len(G) /\ G[k + 1] = H[k] BY <1>1, <1>4
      <3>3. QED BY <3>1, <3>2
    <2>2. ASSUME NEW j \in 1..Len(G), NEW x \in DOMAIN G[j].head, ~G[j].head[x].free
          PROVE  \E q \in P : q.v = G[j].v /\ q.off = x
      <3>1. j # 1 BY <2>2, <1>2, <1>4
      <3>2. G[j] = H[j - 1] /\ j - 1 \in 1..Len(H) BY <3>1, <1>5
      <3>3. QED BY <2>2, <3>2 DEF Owned
    <2>3. QED BY <2>1, <2>2 DEF Owned
  <1>8. QED BY <1>4, <1>6, <1>7 DEF G, e

-----------------------------------------------------------------------------
(* The calls, as far as the virtual pages and the list go *)

Mem(M, V, H) == [M |-> M, V |-> V, H |-> H]

\* The memory S after a call that looked for a new entry: nothing more is free
\* than before, and there is at most one new entry, on pages that were free.
Grown(S, V, H, virtual) ==
    /\ S = Mem(S.M, S.V, S.H) /\ S.V \subseteq V
    /\ \/ S.H = H
       \/ \E v \in VPages, n \in 1..HEAP_PAGES :
             /\ v..(v + n - 1) \subseteq V
             /\ S.V = V \ (v..(v + n - 1))
             /\ S.H = <<init_new_allocated_block(v, n, virtual)>> \o H

\* find_free_virt_addr: pages that are free, all below HEAP_PAGES.
LEMMA VirtFound ==
    ASSUME NEW M, NEW V, NEW H, NEW n \in Nat \ {0},
           find_free_virt_addr(Mem(M, V, H), n) # NULL
    PROVE  LET v == find_free_virt_addr(Mem(M, V, H), n)
           IN  v \in VPages /\ n \in 1..HEAP_PAGES /\ v..(v + n - 1) \subseteq V
  <1> DEFINE v == find_free_virt_addr(Mem(M, V, H), n)
  <1>1. v = FirstRun(V, 0, HEAP_PAGES, n) BY DEF find_free_virt_addr, Mem
  <1>2. HEAP_PAGES \in Nat BY PagingAssumption
  <1>3. v \in 0..(HEAP_PAGES - 1 - n) /\ v..(v + n - 1) \subseteq V
    BY <1>1, <1>2, RunFound
  <1> HIDE DEF v
  <1>4. v \in VPages /\ n \in 1..HEAP_PAGES BY <1>2, <1>3 DEF VPages
  <1>5. QED BY <1>3, <1>4 DEF v

\* Reading and writing the fields of the memory.
LEMMA MemFields ==
    ASSUME NEW M, NEW V, NEW H, NEW X
    PROVE  /\ Mem(M, V, H).M = M /\ Mem(M, V, H).V = V /\ Mem(M, V, H).H = H
           /\ [Mem(M, V, H) EXCEPT !.M = X] = Mem(X, V, H)
           /\ [Mem(M, V, H) EXCEPT !.V = X] = Mem(M, X, H)
           /\ [Mem(M, V, H) EXCEPT !.H = X] = Mem(M, V, X)
  <1>1. Mem(M, V, H).M = M /\ Mem(M, V, H).V = V /\ Mem(M, V, H).H = H BY DEF Mem
  <1>2. [Mem(M, V, H) EXCEPT !.M = X] = Mem(X, V, H) BY DEF Mem
  <1>3. [Mem(M, V, H) EXCEPT !.V = X] = Mem(M, X, H) BY DEF Mem
  <1>4. [Mem(M, V, H) EXCEPT !.H = X] = Mem(M, V, X) BY DEF Mem
  <1>5. QED BY <1>1, <1>2, <1>3, <1>4

LEMMA VirtAlloc ==
    ASSUME NEW M, NEW V, NEW H, NEW v, NEW n
    PROVE  alloc_virt_block(Mem(M, V, H), v, n) = Mem(M, V \ (v..(v + n - 1)), H)
  <1> DEFINE run == v..(v + n - 1)
  <1>1. alloc_virt_block(Mem(M, V, H), v, n) = [Mem(M, V, H) EXCEPT !.V = Mem(M, V, H).V \ run]
    BY DEF alloc_virt_block
  <1> DEFINE W == V \ run
  <1> HIDE DEF run
  <1>2. Mem(M, V, H).V \ run = W BY MemFields
  <1> HIDE DEF W
  <1>3. [Mem(M, V, H) EXCEPT !.V = W] = Mem(M, W, H) BY MemFields
  <1>4. QED BY <1>1, <1>2, <1>3 DEF run, W

\* The memory M after some pages that were free already have been freed.
Warned(M, pages) == [M EXCEPT !.warned = @ \/ pages # {}]

LEMMA VirtFree ==
    ASSUME NEW M, NEW V, NEW H, NEW v, NEW n
    PROVE  free_virt_block(Mem(M, V, H), v, n)
              = Mem(Warned(M, V \cap (v..(v + n - 1))), V \cup (v..(v + n - 1)), H)
  <1> DEFINE run == v..(v + n - 1)
             S == Mem(M, V, H)
             w == M.warned \/ V \cap run # {}
             X == [M EXCEPT !.warned = w]
  <1>1. S.M = M /\ S.V = V BY MemFields
  <1>2. free_virt_block(S, v, n) =
          [S EXCEPT !.V = S.V \cup run, !.M.warned = S.M.warned \/ S.V \cap run # {}]
    BY DEF free_virt_block
  <1>3. [S EXCEPT !.V = V \cup run, !.M.warned = w] = Mem(X, V \cup run, H)
    <2> DEFINE W == V \cup run
    <2> HIDE DEF run, w, W
    <2>1. [S EXCEPT !.V = W] = Mem(M, W, H) BY MemFields
    <2>2. [S EXCEPT !.V = W, !.M.warned = w]
            = [[S EXCEPT !.V = W] EXCEPT !.M = [[S EXCEPT !.V = W].M EXCEPT !.warned = w]]
      OBVIOUS
    <2>3. [S EXCEPT !.V = W].M = M BY <2>1, MemFields
    <2> HIDE DEF S
    <2>4. [S EXCEPT !.V = W, !.M.warned = w] = [Mem(M, W, H) EXCEPT !.M = X]
      BY <2>1, <2>2, <2>3
    <2> HIDE DEF X
    <2>5. [Mem(M, W, H) EXCEPT !.M = X] = Mem(X, W, H) BY MemFields
    <2>6. QED BY <2>4, <2>5 DEF W
  <1> HIDE DEF S, run
  <1>4. free_virt_block(S, v, n) = Mem(X, V \cup run, H) BY <1>1, <1>2, <1>3
  <1>5. QED BY <1>4 DEF S, run, Warned

LEMMA NewKmalloc ==
    ASSUME NEW M, NEW V, NEW H, NEW v, NEW n
    PROVE  NewEntry(Mem(M, V, H), v, n, FALSE)
              = Mem(M, V, <<init_new_allocated_block(v, n, FALSE)>> \o H)
  <1> DEFINE G == <<init_new_allocated_block(v, n, FALSE)>> \o H
             S == Mem(M, V, H)
  <1>1. NewEntry(S, v, n, FALSE) = [S EXCEPT !.H = <<init_new_allocated_block(v, n, FALSE)>> \o S.H]
    BY DEF NewEntry
  <1>2. S.H = H BY MemFields
  <1> HIDE DEF S
  <1>3. NewEntry(S, v, n, FALSE) = [S EXCEPT !.H = G] BY <1>1, <1>2
  <1> HIDE DEF G
  <1>4. [S EXCEPT !.H = G] = Mem(M, V, G) BY MemFields DEF S
  <1>5. QED BY <1>3, <1>4 DEF G, S

LEMMA NewVmalloc ==
    ASSUME NEW M, NEW V, NEW H, NEW v, NEW n
    PROVE  NewEntry(Mem(M, V, H), v, n, TRUE)
              = Mem(M, V, <<init_new_allocated_block(v, n, TRUE)>> \o H)
  <1> DEFINE G == <<init_new_allocated_block(v, n, TRUE)>> \o H
             S == Mem(M, V, H)
  <1>1. NewEntry(S, v, n, TRUE) = [S EXCEPT !.H = <<init_new_allocated_block(v, n, TRUE)>> \o S.H]
    BY DEF NewEntry
  <1>2. S.H = H BY MemFields
  <1> HIDE DEF S
  <1>3. NewEntry(S, v, n, TRUE) = [S EXCEPT !.H = G] BY <1>1, <1>2
  <1> HIDE DEF G
  <1>4. [S EXCEPT !.H = G] = Mem(M, V, G) BY MemFields DEF S
  <1>5. QED BY <1>3, <1>4 DEF G, S

\* The memory after b pages from v on have been freed; W is what was free.
GivesBack(M, W, H, v, b) == Mem(Warned(M, W \cap (v..(v + b - 1))), W \cup (v..(v + b - 1)), H)

\* kmalloc, when no entry has room.
KmallocResult(M, V, H, a, fill) ==
    LET n == EntryPages(a)
        b == GivenBack(a)
        v == find_free_virt_addr(Mem(M, V, H), n)
        f == get_phys_block(M, n)
        r == page_map_range(alloc_phys_block(M, f, n), f, v, n, fill)
        W == V \ (v..(v + n - 1))
    IN  IF v = NULL THEN Mem(M, V, H)
        ELSE IF f = NULL THEN GivesBack(M, W, H, v, b)
        ELSE IF ~r.ok THEN GivesBack(free_phys_block(r.M, f, b), W, H, v, b)
        ELSE Mem(r.M, W, <<init_new_allocated_block(v, n, FALSE)>> \o H)

LEMMA KmallocIs ==
    ASSUME NEW M, NEW V, NEW H, NEW a, NEW fill
    PROVE  kmalloc_entry(Mem(M, V, H), a, fill) = KmallocResult(M, V, H, a, fill)
  <1> DEFINE n == EntryPages(a)
             b == GivenBack(a)
             v == find_free_virt_addr(Mem(M, V, H), n)
             f == get_phys_block(M, n)
             r == page_map_range(alloc_phys_block(M, f, n), f, v, n, fill)
             W == V \ (v..(v + n - 1))
             S == Mem(M, V, H)
             M1 == free_phys_block(r.M, f, b)
             M2 == IF r.ok THEN r.M ELSE M1
             K == kmalloc_entry(S, a, fill)
  <1>1. S.M = M /\ S.H = H BY DEF Mem
  <1>2. K = IF v = NULL THEN S
            ELSE IF f = NULL THEN free_virt_block(Mem(M, W, H), v, b)
            ELSE IF ~r.ok THEN free_virt_block(Mem(M2, W, H), v, b)
            ELSE NewEntry(Mem(M2, W, H), v, n, FALSE)
    <2>1. alloc_virt_block(S, v, n) = Mem(M, W, H) BY VirtAlloc
    <2>2. [Mem(M, W, H) EXCEPT !.M = M2] = Mem(M2, W, H)
      <3> HIDE DEF M2, W
      <3>1. QED BY MemFields
    <2>3. QED BY <1>1, <2>1, <2>2 DEF kmalloc_entry
  <1>4. M2 = IF r.ok THEN r.M ELSE M1 OBVIOUS
  <1> HIDE DEF M1, M2, K, S, W, n, b, v, f, r
  <1>3. free_virt_block(Mem(M, W, H), v, b) = GivesBack(M, W, H, v, b) BY VirtFree DEF GivesBack
  <1>5. free_virt_block(Mem(M1, W, H), v, b) = GivesBack(M1, W, H, v, b) BY VirtFree DEF GivesBack
  <1>6. NewEntry(Mem(r.M, W, H), v, n, FALSE) = Mem(r.M, W, <<init_new_allocated_block(v, n, FALSE)>> \o H)
    BY NewKmalloc, ZenonT(40)
  <1>7. K = IF v = NULL THEN S
            ELSE IF f = NULL THEN GivesBack(M, W, H, v, b)
            ELSE IF ~r.ok THEN GivesBack(M1, W, H, v, b)
            ELSE Mem(r.M, W, <<init_new_allocated_block(v, n, FALSE)>> \o H)
    <2>1. CASE r.ok
      <3>1. M2 = r.M BY <1>4, <2>1
      <3>2. QED BY <1>2, <1>3, <1>6, <2>1, <3>1
    <2>2. CASE ~r.ok
      <3>1. M2 = M1 BY <1>4, <2>2
      <3>2. QED BY <1>2, <1>3, <1>5, <2>2, <3>1
    <2>3. QED BY <2>1, <2>2
  <1>8. QED BY <1>7 DEF KmallocResult, K, S, M1, W, n, b, v, f, r

\* vmalloc, when no entry has room.
VmallocResult(M, V, H, a, fill) ==
    LET n == EntryPages(a)
        b == GivenBack(a)
        v == find_free_virt_addr(Mem(M, V, H), n)
        r == vmalloc_pages(M, v, n, fill)
        k == IF r.n = 0 THEN 0 ELSE r.n - 1
        W == V \ (v..(v + n - 1))
    IN  IF v = NULL THEN Mem(M, V, H)
        ELSE IF r.ok THEN Mem(r.M, W, <<init_new_allocated_block(v, n, TRUE)>> \o H)
        ELSE GivesBack(free_each(r.M, v, k), W, H, v, b)

LEMMA VmallocIs ==
    ASSUME NEW M, NEW V, NEW H, NEW a, NEW fill
    PROVE  vmalloc_entry(Mem(M, V, H), a, fill) = VmallocResult(M, V, H, a, fill)
  <1> DEFINE n == EntryPages(a)
             b == GivenBack(a)
             v == find_free_virt_addr(Mem(M, V, H), n)
             r == vmalloc_pages(M, v, n, fill)
             k == IF r.n = 0 THEN 0 ELSE r.n - 1
             W == V \ (v..(v + n - 1))
             S == Mem(M, V, H)
             M2 == free_each(r.M, v, k)
             M3 == r.M
             K == vmalloc_entry(S, a, fill)
  <1>1. S.M = M /\ S.H = H BY DEF Mem
  <1>2. K = IF v = NULL THEN S
            ELSE IF r.ok THEN NewEntry(Mem(M3, W, H), v, n, TRUE)
            ELSE free_virt_block(Mem(M2, W, H), v, b)
    <2>1. alloc_virt_block(S, v, n) = Mem(M, W, H) BY VirtAlloc
    <2>2. [Mem(M, W, H) EXCEPT !.M = M2] = Mem(M2, W, H)
      <3> HIDE DEF M2, W
      <3>1. QED BY MemFields
    <2>3. [Mem(M, W, H) EXCEPT !.M = M3] = Mem(M3, W, H)
      <3> HIDE DEF M3, W
      <3>1. QED BY MemFields
    <2>4. QED BY <1>1, <2>1, <2>2, <2>3 DEF vmalloc_entry
  <1> HIDE DEF M2, M3, K, S, W, n, b, v, r, k
  <1>3. free_virt_block(Mem(M2, W, H), v, b) = GivesBack(M2, W, H, v, b) BY VirtFree DEF GivesBack
  <1>4. NewEntry(Mem(M3, W, H), v, n, TRUE) = Mem(M3, W, <<init_new_allocated_block(v, n, TRUE)>> \o H)
    BY NewVmalloc
  <1>5. K = IF v = NULL THEN S
            ELSE IF r.ok THEN Mem(M3, W, <<init_new_allocated_block(v, n, TRUE)>> \o H)
            ELSE GivesBack(M2, W, H, v, b)
    BY <1>2, <1>3, <1>4
  <1>6. QED BY <1>5 DEF VmallocResult, K, S, M2, M3, W, n, b, v, r, k

\* What was free and has been given back was free before.
LEMMA GaveBack ==
    ASSUME NEW M, NEW V, NEW H, NEW virtual, NEW v \in Nat, NEW n \in Nat, NEW b \in Nat, b <= n,
           v..(v + n - 1) \subseteq V, NEW W, W = V \ (v..(v + n - 1))
    PROVE  Grown(GivesBack(M, W, H, v, b), V, H, virtual)
  <1> DEFINE U == W \cup (v..(v + b - 1))
             N == Warned(M, W \cap (v..(v + b - 1)))
             K == GivesBack(M, W, H, v, b)
  <1>1. K = Mem(N, U, H) BY DEF GivesBack
  <1>2. v..(v + b - 1) \subseteq v..(v + n - 1) OBVIOUS
  <1>3. U \subseteq V BY <1>2
  <1> HIDE DEF U, N, K
  <1>4. K.M = N /\ K.V = U /\ K.H = H BY <1>1, MemFields
  <1>5. QED BY <1>1, <1>3, <1>4 DEF Grown, K

\* The virtual pages and the list, after a new entry has been looked for.
LEMMA KmallocGrows ==
    ASSUME NEW M, NEW V, NEW H, NEW a \in Nat \ {0}, NEW fill
    PROVE  Grown(kmalloc_entry(Mem(M, V, H), a, fill), V, H, FALSE)
  <1> DEFINE n == EntryPages(a)
             b == GivenBack(a)
             v == find_free_virt_addr(Mem(M, V, H), n)
             f == get_phys_block(M, n)
             r == page_map_range(alloc_phys_block(M, f, n), f, v, n, fill)
             W == V \ (v..(v + n - 1))
             K == kmalloc_entry(Mem(M, V, H), a, fill)
             G == <<init_new_allocated_block(v, n, FALSE)>> \o H
  <1>1. n \in Nat \ {0} /\ b \in Nat /\ b <= n
    BY GivesBackLess
  <1>2. K = IF v = NULL THEN Mem(M, V, H)
            ELSE IF f = NULL THEN GivesBack(M, W, H, v, b)
            ELSE IF ~r.ok THEN GivesBack(free_phys_block(r.M, f, b), W, H, v, b)
            ELSE Mem(r.M, W, G)
    <2>1. K = KmallocResult(M, V, H, a, fill) BY KmallocIs
    <2> HIDE DEF K
    <2>2. QED BY <2>1 DEF KmallocResult
  <1> HIDE DEF K, f, r, n, b, v, G
  <1>3. CASE v = NULL
    <2>1. K = Mem(M, V, H) BY <1>2, <1>3
    <2>2. K.M = M /\ K.V = V /\ K.H = H BY <2>1, MemFields
    <2>3. QED BY <2>1, <2>2 DEF Grown, K
  <1>4. CASE v # NULL
    <2>1. v \in VPages /\ n \in 1..HEAP_PAGES /\ v..(v + n - 1) \subseteq V
      BY <1>1, <1>4, VirtFound DEF v
    <2>2. v \in Nat BY <2>1 DEF VPages
    <2>3. CASE f # NULL /\ r.ok
      <3>1. K = Mem(r.M, W, G) BY <1>2, <1>4, <2>3
      <3>2. K.M = r.M /\ K.V = W /\ K.H = G
        <4> HIDE DEF W
        <4>1. QED BY <3>1, MemFields
      <3>3. QED BY <2>1, <3>1, <3>2 DEF Grown, K, G
    <2>4. CASE ~(f # NULL /\ r.ok)
      <3>1. PICK X : K = GivesBack(X, W, H, v, b)
        BY <1>2, <1>4, <2>4
      <3>2. Grown(GivesBack(X, W, H, v, b), V, H, FALSE) BY <1>1, <2>1, <2>2, GaveBack
      <3>3. QED BY <3>1, <3>2 DEF K
    <2>5. QED BY <2>3, <2>4
  <1>5. QED BY <1>3, <1>4

LEMMA VmallocGrows ==
    ASSUME NEW M, NEW V, NEW H, NEW a \in Nat \ {0}, NEW fill
    PROVE  Grown(vmalloc_entry(Mem(M, V, H), a, fill), V, H, TRUE)
  <1> DEFINE n == EntryPages(a)
             b == GivenBack(a)
             v == find_free_virt_addr(Mem(M, V, H), n)
             r == vmalloc_pages(M, v, n, fill)
             k == IF r.n = 0 THEN 0 ELSE r.n - 1
             W == V \ (v..(v + n - 1))
             K == vmalloc_entry(Mem(M, V, H), a, fill)
             G == <<init_new_allocated_block(v, n, TRUE)>> \o H
  <1>1. n \in Nat \ {0} /\ b \in Nat /\ b <= n
    BY GivesBackLess
  <1>2. K = IF v = NULL THEN Mem(M, V, H)
            ELSE IF r.ok THEN Mem(r.M, W, G)
            ELSE GivesBack(free_each(r.M, v, k), W, H, v, b)
    <2>1. K = VmallocResult(M, V, H, a, fill) BY VmallocIs
    <2> HIDE DEF K
    <2>2. QED BY <2>1 DEF VmallocResult
  <1> HIDE DEF K, r, n, b, v, G, k
  <1>3. CASE v = NULL
    <2>1. K = Mem(M, V, H) BY <1>2, <1>3
    <2>2. K.M = M /\ K.V = V /\ K.H = H BY <2>1, MemFields
    <2>3. QED BY <2>1, <2>2 DEF Grown, K
  <1>4. CASE v # NULL
    <2>1. v \in VPages /\ n \in 1..HEAP_PAGES /\ v..(v + n - 1) \subseteq V
      BY <1>1, <1>4, VirtFound DEF v
    <2>2. v \in Nat BY <2>1 DEF VPages
    <2>3. CASE r.ok
      <3>1. K = Mem(r.M, W, G) BY <1>2, <1>4, <2>3
      <3>2. K.M = r.M /\ K.V = W /\ K.H = G
        <4> HIDE DEF W
        <4>1. QED BY <3>1, MemFields
      <3>3. QED BY <2>1, <3>1, <3>2 DEF Grown, K, G
    <2>4. CASE ~r.ok
      <3>1. PICK X : K = GivesBack(X, W, H, v, b)
        BY <1>2, <1>4, <2>4
      <3>2. Grown(GivesBack(X, W, H, v, b), V, H, TRUE) BY <1>1, <2>1, <2>2, GaveBack
      <3>3. QED BY <3>1, <3>2 DEF K
    <2>5. QED BY <2>3, <2>4
  <1>5. QED BY <1>3, <1>4

-----------------------------------------------------------------------------
(* The invariant *)

BlockInv == ListOK(heap, mm_virt_heap) /\ Owned(heap, live)

\* heap_setup: no entry, nothing in use.
LEMMA InitBlocks == HeapInit => BlockInv
  <1> SUFFICES ASSUME HeapInit PROVE BlockInv OBVIOUS
  <1>1. heap = <<>> /\ mm_virt_heap = VPages /\ live = {} BY DEF HeapInit
  <1>2. heap \in Seq(Entry) /\ Len(heap) = 0 BY <1>1
  <1>3. 1..Len(heap) = {} BY <1>2
  <1>4. QED BY <1>1, <1>2, <1>3 DEF BlockInv, ListOK, Owned

\* Fewer free pages are a smaller claim.
LEMMA ListShrinks ==
    ASSUME NEW H, NEW V, NEW W, ListOK(H, V), W \subseteq V
    PROVE  ListOK(H, W)
  BY DEF ListOK

LEMMA NowIs == Now = Mem(mem, mm_virt_heap, heap)
  BY DEF Now, Mem

\* kmalloc and vmalloc, from an entry there is.
LEMMA ReuseBlocks ==
    ASSUME BlockInv, NEW a \in Sizes, NEW virtual \in BOOLEAN, malloc_reuse(a, virtual)
    PROVE  BlockInv'
  <1> DEFINE i == Min(Candidates(a, virtual))
  <1>1. i \in 1..Len(heap) /\ Fitting(heap[i], a) # {}
    <2>1. Candidates(a, virtual) \subseteq Nat /\ Candidates(a, virtual) # {}
      <3>1. Len(heap) \in Nat BY DEF BlockInv, ListOK
      <3>2. QED BY <3>1, SMTT(30) DEF Candidates, malloc_reuse
    <2>2. i \in Candidates(a, virtual) BY <2>1, MinNat
    <2> HIDE DEF i
    <2>3. QED BY <2>2 DEF Candidates
  <1>2. Serve(Now, i, a) BY DEF malloc_reuse
  <1>3. Now.M = mem /\ Now.V = mm_virt_heap /\ Now.H = heap BY DEF Now
  <1> HIDE DEF i
  <1>4. /\ mm_virt_heap' = mm_virt_heap
        /\ heap' = [heap EXCEPT ![i] = try_allocate(@, a)]
        /\ live' = live \cup {Pointer(heap[i], Min(Fitting(heap[i], a)), a)}
    BY <1>2, <1>3 DEF Serve
  <1>5. ListOK(heap', mm_virt_heap) /\ Owned(heap', live')
    BY <1>1, <1>4, Serves DEF BlockInv
  <1>6. QED BY <1>4, <1>5 DEF BlockInv

\* kmalloc and vmalloc, with a new entry or none.
LEMMA GrowBlocks ==
    ASSUME BlockInv, NEW a \in Sizes, NEW virtual \in BOOLEAN, NEW S,
           Grown(S, mm_virt_heap, heap, virtual), malloc_grow(a, virtual, S)
    PROVE  BlockInv'
  <1>1. ListOK(S.H, S.V) /\ Owned(S.H, live) /\ (S.H # heap => 1 \in 1..Len(S.H))
    <2>1. CASE S.H = heap
      <3>1. S.V \subseteq mm_virt_heap BY DEF Grown
      <3>2. QED BY <2>1, <3>1, ListShrinks DEF BlockInv
    <2>2. CASE S.H # heap
      <3>1. PICK v \in VPages, n \in 1..HEAP_PAGES :
               /\ v..(v + n - 1) \subseteq mm_virt_heap
               /\ S.V = mm_virt_heap \ (v..(v + n - 1))
               /\ S.H = <<init_new_allocated_block(v, n, virtual)>> \o heap
        BY <2>2 DEF Grown
      <3>2. ListOK(S.H, S.V) /\ Owned(S.H, live) /\ Len(S.H) = Len(heap) + 1
        BY <3>1, AddsEntry DEF BlockInv
      <3>3. Len(heap) \in Nat BY DEF BlockInv, ListOK
      <3>4. QED BY <3>2, <3>3
    <2>3. QED BY <2>1, <2>2
  <1>2. CASE S.H # heap /\ Fitting(S.H[1], a) # {}
    <2>1. Serve(S, 1, a) BY <1>2 DEF malloc_grow
    <2>2. /\ mm_virt_heap' = S.V
          /\ heap' = [S.H EXCEPT ![1] = try_allocate(@, a)]
          /\ live' = live \cup {Pointer(S.H[1], Min(Fitting(S.H[1], a)), a)}
      BY <2>1 DEF Serve
    <2> DEFINE G == S.H
    <2>3. ListOK(G, S.V) /\ Owned(G, live) /\ 1 \in 1..Len(G) /\ Fitting(G[1], a) # {}
      BY <1>1, <1>2
    <2> HIDE DEF G
    <2>4. LET D == [G EXCEPT ![1] = try_allocate(@, a)]
              p == Pointer(G[1], Min(Fitting(G[1], a)), a)
          IN  ListOK(D, S.V) /\ Owned(D, live \cup {p})
      BY <2>3, Serves
    <2>5. ListOK(heap', mm_virt_heap') /\ Owned(heap', live')
      BY <2>2, <2>4 DEF G
    <2>6. QED BY <2>5 DEF BlockInv
  <1>3. CASE ~(S.H # heap /\ Fitting(S.H[1], a) # {})
    <2>1. mm_virt_heap' = S.V /\ heap' = S.H /\ live' = live
      BY <1>3 DEF malloc_grow
    <2>2. QED BY <1>1, <2>1 DEF BlockInv
  <1>4. QED BY <1>2, <1>3

\* The memory after a block of the entry i has been freed, e is what is left.
AfterFree(i, e, virtual) ==
    LET S1 == [Now EXCEPT !.H = RemoveAt(@, i)]
    IN  IF ~Unused(e) THEN [Now EXCEPT !.H[i] = e]
        ELSE IF virtual THEN vdefrag_release(S1, e) ELSE kdefrag_release(S1, e)

\* The physical pages after those of the entry e have been freed.
GoneFrom(M, e, virtual) ==
    IF virtual THEN free_each(M, e.v, e.n) ELSE free_phys_block(M, page_get_phys(M, e.v), e.n)

\* The memory after a free: the entry is in use, or it is given back whole.
FreeResult(S, e, i, virtual) ==
    /\ ~Unused(e) => S = Mem(mem, mm_virt_heap, [heap EXCEPT ![i] = e])
    /\ Unused(e) => S = Mem(Warned(GoneFrom(mem, heap[i], virtual), mm_virt_heap \cap VRange(heap[i])),
                            mm_virt_heap \cup VRange(heap[i]), RemoveAt(heap, i))

LEMMA FreeIs ==
    ASSUME BlockInv, NEW p, NEW virtual \in BOOLEAN, NEW i \in 1..Len(heap),
           p.off \in Visible(heap[i]), NEW e, e = Freed(heap[i], p.off),
           NEW S, S = AfterFree(i, e, virtual)
    PROVE  FreeResult(S, e, i, virtual)
  <1> DEFINE S1 == [Now EXCEPT !.H = RemoveAt(@, i)]
  <1>a. S = IF ~Unused(e) THEN [Now EXCEPT !.H[i] = e]
            ELSE IF virtual THEN vdefrag_release(S1, e) ELSE kdefrag_release(S1, e)
    BY DEF AfterFree
  <1>1. EntryOK(heap[i]) /\ heap[i] \in Entry BY DEF BlockInv, ListOK, EntryOK
  <1>2. EntryOK(e) /\ e.v = heap[i].v /\ e.n = heap[i].n
    <2>1. p.off \in DOMAIN heap[i].head BY DEF Visible
    <2>2. QED BY <1>1, <2>1, Frees
  <1>3. CASE ~Unused(e)
    <2>1. S = [Now EXCEPT !.H = [heap EXCEPT ![i] = e]] BY <1>a, <1>3 DEF Now
    <2> DEFINE G == [heap EXCEPT ![i] = e]
    <2> HIDE DEF G
    <2>2. [Now EXCEPT !.H = G] = Mem(mem, mm_virt_heap, G) BY NowIs, MemFields
    <2>3. QED BY <1>3, <2>1, <2>2 DEF G, FreeResult
  <1>4. CASE Unused(e)
    <2> DEFINE R == RemoveAt(heap, i)
               n == Pages(page_size(e))
               run == e.v..(e.v + n - 1)
               V == mm_virt_heap \cup run
    <2>1. n = e.n
      <3>1. e.n \in Nat \ {0} BY <1>1, <1>2, EntryFields, PagingAssumption
      <3>2. QED BY <3>1, PagesOfEntry DEF page_size
    <2>2. run = VRange(heap[i]) BY <1>2, <2>1 DEF VRange
    <2>3. S1 = Mem(mem, mm_virt_heap, R)
      <3>1. S1 = [Now EXCEPT !.H = R] BY DEF Now
      <3> HIDE DEF R
      <3>2. QED BY <3>1, NowIs, MemFields
    <2> HIDE DEF R, n, S1
    <2> DEFINE N == GoneFrom(mem, heap[i], virtual)
    <2>4. S = free_virt_block(Mem(N, mm_virt_heap, R), e.v, n)
      <3>0. S1.M = mem BY <2>3, MemFields
      <3>1. CASE virtual
        <4>1. S = free_virt_block([S1 EXCEPT !.M = free_each(S1.M, e.v, n)], e.v, n)
          BY <1>a, <1>4, <3>1 DEF vdefrag_release, n
        <4>2. free_each(S1.M, e.v, n) = N BY <1>2, <2>1, <3>0, <3>1 DEF GoneFrom
        <4> HIDE DEF N
        <4>3. [Mem(mem, mm_virt_heap, R) EXCEPT !.M = N] = Mem(N, mm_virt_heap, R) BY MemFields
        <4>4. QED BY <2>3, <4>1, <4>2, <4>3
      <3>2. CASE ~virtual
        <4>1. S = free_virt_block([S1 EXCEPT !.M = free_phys_block(S1.M, page_get_phys(S1.M, e.v), n)], e.v, n)
          BY <1>a, <1>4, <3>2 DEF kdefrag_release, n
        <4>2. free_phys_block(S1.M, page_get_phys(S1.M, e.v), n) = N
          BY <1>2, <2>1, <3>0, <3>2 DEF GoneFrom
        <4> HIDE DEF N
        <4>3. [Mem(mem, mm_virt_heap, R) EXCEPT !.M = N] = Mem(N, mm_virt_heap, R) BY MemFields
        <4>4. QED BY <2>3, <4>1, <4>2, <4>3
      <3>3. QED BY <3>1, <3>2
    <2> HIDE DEF N
    <2>5. S = Mem(Warned(N, mm_virt_heap \cap run), V, R) BY <2>4, VirtFree
    <2>6. QED BY <1>4, <2>2, <2>5 DEF R, N, FreeResult
  <1>5. QED BY <1>3, <1>4

\* kfree and vfree.
LEMMA FreeBlocks ==
    ASSUME BlockInv, NEW p \in live, NEW virtual \in BOOLEAN, free_ptr(p, virtual)
    PROVE  BlockInv'
  <1>1. PICK i \in 1..Len(heap) :
          /\ heap[i].v = p.v /\ p.off \in Visible(heap[i])
          /\ LET e  == Merged([heap[i] EXCEPT !.head[p.off].free = TRUE])
                 S1 == [Now EXCEPT !.H = RemoveAt(@, i)]
                 S  == IF ~Unused(e) THEN [Now EXCEPT !.H[i] = e]
                       ELSE IF virtual THEN vdefrag_release(S1, e) ELSE kdefrag_release(S1, e)
             IN  mem' = S.M /\ mm_virt_heap' = S.V /\ heap' = S.H
          /\ live' = live \ {p}
    BY DEF free_ptr
  <1> DEFINE e == Freed(heap[i], p.off)
             S == AfterFree(i, e, virtual)
  <1>2. mm_virt_heap' = S.V /\ heap' = S.H /\ live' = live \ {p} BY <1>1 DEF Freed, AfterFree
  <1>3. /\ ~Unused(e) => S = Mem(mem, mm_virt_heap, [heap EXCEPT ![i] = e])
        /\ Unused(e) => \E X : S = Mem(X, mm_virt_heap \cup VRange(heap[i]), RemoveAt(heap, i))
    <2>1. e = Freed(heap[i], p.off) /\ p.off \in Visible(heap[i]) BY <1>1
    <2> HIDE DEF e
    <2>2. S = AfterFree(i, e, virtual) OBVIOUS
    <2> HIDE DEF S
    <2>3. FreeResult(S, e, i, virtual) BY <2>1, <2>2, FreeIs
    <2>4. QED BY <2>3 DEF FreeResult
  <1> HIDE DEF S
  <1>4. CASE ~Unused(e)
    <2> DEFINE G == [heap EXCEPT ![i] = e]
    <2>1. ListOK(G, mm_virt_heap) /\ Owned(G, live \ {p})
      BY <1>1, FreesBlock DEF BlockInv
    <2> HIDE DEF G, e
    <2>2. mm_virt_heap' = mm_virt_heap /\ heap' = G
      <3>1. S = Mem(mem, mm_virt_heap, G) BY <1>3, <1>4 DEF G
      <3>2. QED BY <3>1, <1>2, MemFields
    <2>3. QED BY <1>2, <2>1, <2>2 DEF BlockInv
  <1>5. CASE Unused(e)
    <2> DEFINE R == RemoveAt(heap, i)
               V == mm_virt_heap \cup VRange(heap[i])
    <2>1. ListOK(R, V) /\ Owned(R, live \ {p})
      BY <1>1, <1>5, FreesEntry DEF BlockInv
    <2> HIDE DEF R, V, e
    <2>2. mm_virt_heap' = V /\ heap' = R
      <3>1. PICK X : S = Mem(X, V, R) BY <1>3, <1>5 DEF R, V
      <3>2. QED BY <3>1, <1>2, MemFields
    <2>3. QED BY <1>2, <2>1, <2>2 DEF BlockInv
  <1>6. QED BY <1>4, <1>5

\* Every call keeps the blocks in order.
LEMMA NextBlocks == BlockInv /\ [HeapNext]_vars => BlockInv'
  <1> SUFFICES ASSUME BlockInv, [HeapNext]_vars PROVE BlockInv' OBVIOUS
  <1>0. TRUE \in BOOLEAN /\ FALSE \in BOOLEAN OBVIOUS
  <1>1. ASSUME NEW a \in Sizes, kmalloc(a) PROVE BlockInv'
    <2>1. CASE malloc_reuse(a, FALSE) BY <2>1, <1>0, ReuseBlocks
    <2>2. CASE \E fill \in Fills : malloc_grow(a, FALSE, kmalloc_entry(Now, a, fill))
      <3>1. PICK fill \in Fills : malloc_grow(a, FALSE, kmalloc_entry(Now, a, fill)) BY <2>2
      <3> DEFINE S == kmalloc_entry(Now, a, fill)
      <3>2. a \in Nat \ {0} BY HeapAssumption
      <3>3. Grown(S, mm_virt_heap, heap, FALSE) BY <3>2, NowIs, KmallocGrows
      <3> HIDE DEF S
      <3>4. QED BY <3>1, <3>3, <1>0, GrowBlocks DEF S
    <2>3. QED BY <1>1, <2>1, <2>2 DEF kmalloc
  <1>2. ASSUME NEW a \in Sizes, vmalloc(a) PROVE BlockInv'
    <2>1. CASE malloc_reuse(a, TRUE) BY <2>1, <1>0, ReuseBlocks
    <2>2. CASE \E fill \in Fills : malloc_grow(a, TRUE, vmalloc_entry(Now, a, fill))
      <3>1. PICK fill \in Fills : malloc_grow(a, TRUE, vmalloc_entry(Now, a, fill)) BY <2>2
      <3> DEFINE S == vmalloc_entry(Now, a, fill)
      <3>2. a \in Nat \ {0} BY HeapAssumption
      <3>3. Grown(S, mm_virt_heap, heap, TRUE) BY <3>2, NowIs, VmallocGrows
      <3> HIDE DEF S
      <3>4. QED BY <3>1, <3>3, <1>0, GrowBlocks DEF S
    <2>3. QED BY <1>2, <2>1, <2>2 DEF vmalloc
  <1>3. ASSUME NEW p \in live, kfree(p) PROVE BlockInv'
    BY <1>3, <1>0, FreeBlocks DEF kfree
  <1>4. ASSUME NEW p \in live, vfree(p) PROVE BlockInv'
    BY <1>4, <1>0, FreeBlocks DEF vfree
  <1>5. CASE UNCHANGED vars
    <2>1. heap' = heap /\ mm_virt_heap' = mm_virt_heap /\ live' = live BY <1>5 DEF vars
    <2>2. QED BY <2>1 DEF BlockInv
  <1>6. QED BY <1>1, <1>2, <1>3, <1>4, <1>5 DEF HeapNext

LEMMA BlocksInvariant == HeapSpec => []BlockInv
  BY InitBlocks, NextBlocks, PTL DEF HeapSpec

\* try_allocate and the defrag functions: for any size of page and request, the
\* headers of an entry lead from its start exactly to its end.
THEOREM HeadersAlwaysTile == HeapSpec => []HeadersTile
  <1>1. BlockInv => HeadersTile
    <2> SUFFICES ASSUME BlockInv, NEW e \in Entries
                 PROVE  /\ HEAP_LIST \in DOMAIN e.head
                        /\ \A o \in DOMAIN e.head :
                             LET next == o + HEADER + e.head[o].size
                             IN  /\ next = End(e) \/ next \in DOMAIN e.head
                                 /\ \A x \in DOMAIN e.head : x > o => x >= next
      BY DEF HeadersTile
    <2>1. Tiled(e.head, End(e)) BY DEF BlockInv, ListOK, Entries, EntryOK
    <2>2. QED BY <2>1 DEF Tiled, Follows
  <1>2. QED BY <1>1, BlocksInvariant, PTL

\* kmalloc, vmalloc, kfree and vfree: a block in use belongs to exactly one
\* caller and is as large as it asked for, whatever was split and merged.
THEOREM BlocksAreOwned == HeapSpec => []BlocksOwned
  <1>1. BlockInv => BlocksOwned
    <2> SUFFICES ASSUME BlockInv PROVE BlocksOwned OBVIOUS
    <2>1. Owned(heap, live) BY DEF BlockInv
    <2>2. ASSUME NEW p \in live
          PROVE  \E e \in Entries :
                    /\ e.v = p.v /\ e.virtual = p.virtual /\ p.off \in Visible(e)
                    /\ ~e.head[p.off].free /\ e.head[p.off].size >= p.size
      <3>1. PICK i \in 1..Len(heap) : Holds(p, heap[i]) BY <2>1 DEF Owned
      <3>2. heap[i] \in Entries BY DEF Entries
      <3>3. QED BY <3>1, <3>2 DEF Holds
    <2>3. \A p, q \in live : p.v = q.v /\ p.off = q.off => p = q BY <2>1 DEF Owned
    <2>4. ASSUME NEW e \in Entries, NEW o \in DOMAIN e.head, ~e.head[o].free
          PROVE  \E p \in live : p.v = e.v /\ p.off = o
      <3>1. PICK i \in 1..Len(heap) : e = heap[i] BY DEF Entries
      <3>2. QED BY <3>1, <2>1, <2>4 DEF Owned
    <2>5. QED BY <2>2, <2>3, <2>4 DEF BlocksOwned
  <1>2. QED BY <1>1, BlocksInvariant, PTL

\* kdefrag and vdefrag: no two free neighbours that a walk reaches are left,
\* whatever the order of calls.
THEOREM FreeBlocksMerged == HeapSpec => []Coalesced
  <1>1. BlockInv => Coalesced
    <2> SUFFICES ASSUME BlockInv, NEW e \in Entries, NEW o \in Visible(e), e.head[o].free,
                        o + HEADER + e.head[o].size \in Visible(e)
                 PROVE  ~e.head[o + HEADER + e.head[o].size].free
      BY DEF Coalesced
    <2>1. Apart(e.head, page_size(e)) BY DEF BlockInv, ListOK, Entries, EntryOK
    <2>2. QED BY <2>1 DEF Apart, Follows, Visible
  <1>2. QED BY <1>1, BlocksInvariant, PTL

-----------------------------------------------------------------------------
(* The physical pages: the loops of vmalloc and vdefrag                      *)

\* A round of vmalloc's loop, and the values of the loop.
VRound(q, i, v, fill) ==
    LET f == get_phys_block(q.M, 1)
        M == alloc_phys_block(q.M, f, 1)
    IN  IF ~q.ok \/ f = NULL THEN [q EXCEPT !.ok = FALSE]
        ELSE IF page_map_fails(M, v + i - 1)
        THEN [q EXCEPT !.ok = FALSE, !.M = free_phys_block(M, f, 1)]
        ELSE [M |-> page_map(M, f, v + i - 1, fill), ok |-> TRUE, n |-> i]

VRounds(g, M, v, n, fill) ==
    g = [i \in 0..n |-> IF i = 0 THEN [M |-> M, ok |-> TRUE, n |-> 0]
                        ELSE VRound(g[i - 1], i, v, fill)]

VLoop(M, v, n, fill) == CHOOSE h : VRounds(h, M, v, n, fill)

LEMMA VmallocLoop ==
    ASSUME NEW M, NEW v, NEW n, NEW fill
    PROVE  vmalloc_pages(M, v, n, fill) = VLoop(M, v, n, fill)[n]
  BY DEF vmalloc_pages, VLoop, VRounds, VRound

\* After i rounds the pages mapped so far are backed, as X was, and no page is lost.
VMapping(q, i, M, X, v, n) ==
    /\ q = [M |-> q.M, ok |-> q.ok, n |-> q.n] /\ q.ok \in BOOLEAN /\ q.n \in 0..n
    /\ q.ok => q.n = i
    /\ Backed(q.M, X \cup (v..(v + q.n - 1))) /\ SameEntries(M, q.M, X)
    /\ Pool(q.M, X \cup (v..(v + q.n - 1))) = Pool(M, X)

\* Two records of a loop, one with a field changed.
LEMMA LoopFields ==
    ASSUME NEW r, r = [M |-> r.M, ok |-> r.ok, n |-> r.n], NEW x
    PROVE  /\ [r EXCEPT !.ok = FALSE] = [M |-> r.M, ok |-> FALSE, n |-> r.n]
           /\ [r EXCEPT !.ok = FALSE, !.M = x] = [M |-> x, ok |-> FALSE, n |-> r.n]
  <1> DEFINE a == r.M
             b == r.ok
             c == r.n
  <1>1. r = [M |-> a, ok |-> b, n |-> c] OBVIOUS
  <1> HIDE DEF a, b, c
  <1>2. \A z : [r EXCEPT !.ok = z] = [M |-> a, ok |-> z, n |-> c] BY <1>1
  <1>3. \A z : [r EXCEPT !.ok = z, !.M = x] = [M |-> x, ok |-> z, n |-> c]
    <2> SUFFICES ASSUME NEW z PROVE [r EXCEPT !.ok = z, !.M = x] = [M |-> x, ok |-> z, n |-> c] OBVIOUS
    <2> DEFINE s == [r EXCEPT !.ok = z]
    <2>1. [r EXCEPT !.ok = z, !.M = x] = [s EXCEPT !.M = x] OBVIOUS
    <2>2. s = [M |-> a, ok |-> z, n |-> c] BY <1>2
    <2> HIDE DEF s
    <2>3. [s EXCEPT !.M = x] = [M |-> x, ok |-> z, n |-> c] BY <2>2
    <2>4. QED BY <2>1, <2>3
  <1>4. /\ [r EXCEPT !.ok = FALSE] = [M |-> a, ok |-> FALSE, n |-> c]
        /\ [r EXCEPT !.ok = FALSE, !.M = x] = [M |-> x, ok |-> FALSE, n |-> c]
    BY <1>2, <1>3, Zenon
  <1>5. QED BY <1>4 DEF a, b, c

\* A page taken and given back at once.
LEMMA TakeAndGive ==
    ASSUME NEW M, MemType(M), NEW f \in Frames, f \in M.mm
    PROVE  free_phys_block(Without(M, {f}), f, 1) = M
  <1> DEFINE m == M.mm \ {f}
             N == Without(M, {f})
  <1>1. N = [mm |-> m, dir |-> M.dir, pte |-> M.pte, warned |-> M.warned] BY MemSet DEF Without
  <1>2. MemType(N) BY <1>1 DEF MemType
  <1>3. N.mm = m /\ N.dir = M.dir /\ N.pte = M.pte /\ N.warned = M.warned /\ f \notin m BY <1>1
  <1> HIDE DEF N
  <1>4. free_phys_block(N, f, 1) = [N EXCEPT !.mm = N.mm \cup {f}] BY <1>2, <1>3, FreesPage
  <1>5. N.mm \cup {f} = M.mm BY <1>3
  <1>6. [N EXCEPT !.mm = M.mm] = [mm |-> M.mm, dir |-> M.dir, pte |-> M.pte, warned |-> M.warned]
    <2> DEFINE y == M.mm
    <2> HIDE DEF y
    <2>1. [N EXCEPT !.mm = y] = [mm |-> y, dir |-> N.dir, pte |-> N.pte, warned |-> N.warned]
      BY <1>2, MemSet
    <2>2. QED BY <1>3, <2>1 DEF y
  <1>7. M = [mm |-> M.mm, dir |-> M.dir, pte |-> M.pte, warned |-> M.warned] BY DEF MemType
  <1>8. QED BY <1>4, <1>5, <1>6, <1>7 DEF N

\* One page more.
LEMMA VMapsOneMore ==
    ASSUME NEW M, NEW X, NEW n \in Nat, NEW v \in Nat, v..(v + n - 1) \subseteq VPages \ X,
           NEW fill \in [Frames -> {NULL, JUNK}],
           NEW i \in 1..n, NEW q, VMapping(q, i - 1, M, X, v, n)
    PROVE  VMapping(VRound(q, i, v, fill), i, M, X, v, n)
  <1> DEFINE f == get_phys_block(q.M, 1)
             A == alloc_phys_block(q.M, f, 1)
             x == v + i - 1
             Y == X \cup (v..(v + q.n - 1))
             N == page_map(A, f, x, fill)
  <1>1. Backed(q.M, Y) /\ MemType(q.M) /\ q.n \in 0..n /\ q.ok \in BOOLEAN
        /\ q = [M |-> q.M, ok |-> q.ok, n |-> q.n]
    BY DEF VMapping, Backed, Sound
  <1>2. CASE ~q.ok \/ f = NULL
    <2>1. VRound(q, i, v, fill) = [q EXCEPT !.ok = FALSE] BY <1>2 DEF VRound
    <2>2. VRound(q, i, v, fill) = [M |-> q.M, ok |-> FALSE, n |-> q.n] BY <1>1, <2>1, LoopFields
    <2>3. QED BY <2>2 DEF VMapping
  <1>3. CASE q.ok /\ f # NULL
    <2>1. f \in q.M.mm /\ f \in Frames /\ A = Without(q.M, {f})
      BY <1>1, <1>3, TakesPage DEF Without
    <2>2. CASE page_map_fails(A, x)
      <3>1. VRound(q, i, v, fill) = [q EXCEPT !.ok = FALSE, !.M = free_phys_block(A, f, 1)]
        BY <1>3, <2>2 DEF VRound
      <3> HIDE DEF A, f
      <3>2. free_phys_block(A, f, 1) = q.M BY <1>1, <2>1, TakeAndGive
      <3>3. VRound(q, i, v, fill) = [M |-> q.M, ok |-> FALSE, n |-> q.n]
        BY <1>1, <3>1, <3>2, LoopFields
      <3>4. QED BY <3>3 DEF VMapping
    <2>3. CASE ~page_map_fails(A, x)
      <3>1. VRound(q, i, v, fill) = [M |-> N, ok |-> TRUE, n |-> i] BY <1>3, <2>3 DEF VRound
      <3>2. q.n = i - 1 BY <1>3 DEF VMapping
      <3>3. x \in v..(v + n - 1) OBVIOUS
      <3>4. x \in VPages /\ x \notin Y BY <3>2, <3>3
      <3>5. Y \cup {x} = X \cup (v..(v + i - 1)) BY <3>2
      <3> HIDE DEF f, A, x, Y
      <3>6. /\ Backed(A, Y) /\ SameEntries(q.M, A, Y) /\ Total(A) = Total(q.M) \ {f}
            /\ {f} \cap PagesOf(q.M, Y) = {}
        BY <1>1, <2>1, TakenFrom
      <3>7. PagesOf(A, Y) = PagesOf(q.M, Y) BY <3>6 DEF SameEntries, PagesOf
      <3>8. f \notin Total(A) /\ f \notin PagesOf(A, Y) BY <3>6, <3>7
      <3>a. N = page_map(A, f, x, fill) OBVIOUS
      <3> HIDE DEF N
      <3>9. /\ Backed(N, Y \cup {x}) /\ SameEntries(A, N, Y)
            /\ Pool(N, Y \cup {x}) = Pool(A, Y) \cup {f}
        <4>1. Backed(A, Y) /\ f \in Frames BY <2>1, <3>6
        <4>2. QED BY <2>3, <3>4, <3>8, <3>a, <4>1, MapsBacked
      <3>10. Pool(N, Y \cup {x}) = Pool(q.M, Y)
        <4>1. f \in Total(q.M) BY <2>1 DEF Total
        <4>2. QED BY <3>6, <3>7, <3>9, <4>1 DEF Pool
      <3>11. SameEntries(M, N, X)
        <4>1. X \subseteq Y BY DEF Y
        <4>2. SameEntries(M, q.M, X) BY DEF VMapping
        <4>3. QED BY <3>6, <3>9, <4>1, <4>2 DEF SameEntries
      <3>12. Pool(q.M, Y) = Pool(M, X) BY DEF VMapping, Y
      <3> DEFINE z == [M |-> N, ok |-> TRUE, n |-> i]
      <3>13. z.M = N /\ z.ok = TRUE /\ z.n = i OBVIOUS
      <3>14. VMapping(z, i, M, X, v, n)
        <4>1. z = [M |-> z.M, ok |-> z.ok, n |-> z.n] /\ i \in 0..n OBVIOUS
        <4> HIDE DEF z
        <4>2. QED BY <4>1, <3>13, <3>5, <3>9, <3>10, <3>11, <3>12 DEF VMapping
      <3>15. QED BY <3>1, <3>14
    <2>4. QED BY <2>2, <2>3
  <1>4. QED BY <1>1, <1>2, <1>3

\* vmalloc's loop: what it has mapped when it ends.
LEMMA VMaps ==
    ASSUME NEW M, NEW X, Backed(M, X), NEW n \in Nat, NEW v \in Nat,
           v..(v + n - 1) \subseteq VPages \ X,
           NEW fill \in [Frames -> {NULL, JUNK}],
           NEW q, q = vmalloc_pages(M, v, n, fill)
    PROVE  VMapping(q, n, M, X, v, n)
  <1> DEFINE g == VLoop(M, v, n, fill)
             Inv(r, i) == VMapping(r, i, M, X, v, n)
             Round(r, i) == VRound(r, i, v, fill)
             R == [M : Memories, ok : BOOLEAN, n : 0..n]
             Z == [i \in 0..n |-> {r \in R : Inv(r, i)}]
             S == [i \in 1..n |-> [r \in Z[i - 1] \cup {g[i - 1]} |-> Round(r, i)]]
             x0 == [M |-> M, ok |-> TRUE, n |-> 0]
  <1>1. ASSUME NEW r, NEW i \in 0..n, Inv(r, i) PROVE r \in Z[i]
    <2>1. MemType(r.M) BY <1>1 DEF VMapping, Backed, Sound
    <2>2. r.M \in Memories BY <2>1, MemIs
    <2>3. r \in R BY <1>1, <2>2 DEF VMapping
    <2>4. QED BY <1>1, <2>3
  <1>2. Inv(x0, 0)
    <2>1. X \cup (v..(v + 0 - 1)) = X OBVIOUS
    <2>2. 0 \in 0..n /\ SameEntries(M, M, X) BY DEF SameEntries
    <2>3. QED BY <2>1, <2>2 DEF VMapping
  <1>3. 0 \in 0..n /\ n \in 0..n OBVIOUS
  <1>4. x0 \in Z[0] BY <1>1, <1>2, <1>3
  <1>5. \A i \in 0..n : \A r \in Z[i] : Inv(r, i) OBVIOUS
  <1>6. \A i \in 1..n : \A r \in Z[i - 1] \cup {g[i - 1]} : S[i][r] = Round(r, i) OBVIOUS
  <1> HIDE DEF Z, S, R, x0, g
  <1>7. Loop(S, Z, n)
    <2> SUFFICES ASSUME NEW i \in 1..n, NEW r \in Z[i - 1] PROVE S[i][r] \in Z[i] BY DEF Loop
    <2>1. i \in 0..n /\ i - 1 \in 0..n OBVIOUS
    <2>2. Inv(r, i - 1) BY <1>5, <2>1
    <2>3. Inv(Round(r, i), i) BY <2>2, VMapsOneMore
    <2> HIDE DEF Inv, Round
    <2>4. QED BY <1>1, <1>6, <2>1, <2>3
  <1> HIDE DEF Inv
  <1>8. PICK w : Computed(w, S, Z, x0, n) BY <1>4, <1>7, LoopRuns
  <1>9. VRounds(w, M, v, n, fill)
    <2>1. \A i \in 0..n : w[i] = IF i = 0 THEN x0 ELSE Round(w[i - 1], i)
      <3> HIDE DEF Round
      <3> SUFFICES ASSUME NEW i \in 0..n, i # 0 PROVE w[i] = Round(w[i - 1], i) BY <1>8 DEF Computed
      <3>1. i \in 1..n /\ i - 1 \in 0..n OBVIOUS
      <3>2. QED BY <3>1, <1>6, <1>8 DEF Rounds, Computed
    <2>2. [i \in 0..n |-> w[i]] = [i \in 0..n |-> IF i = 0 THEN x0 ELSE Round(w[i - 1], i)]
      BY <2>1
    <2>3. QED BY <2>2, <1>8 DEF VRounds, Computed, x0
  <1>10. VRounds(g, M, v, n, fill) BY <1>9 DEF VLoop, g
  <1>11. g[0] = x0 /\ \A i \in 1..n : g[i] = Round(g[i - 1], i)
    <2>1. g = [i \in 0..n |-> IF i = 0 THEN x0 ELSE Round(g[i - 1], i)]
      BY <1>10 DEF VRounds, x0
    <2>2. \A i \in 0..n : g[i] = IF i = 0 THEN x0 ELSE Round(g[i - 1], i) BY <2>1
    <2>3. QED BY <1>3, <2>2
  <1> HIDE DEF Round
  <1>12. Rounds(g, S, n) BY <1>6, <1>11 DEF Rounds
  <1>13. \A i \in 0..n : g[i] \in Z[i] BY <1>4, <1>7, <1>11, <1>12, LoopKeeps
  <1>14. q = g[n] BY VmallocLoop DEF g
  <1>15. QED BY <1>3, <1>5, <1>13, <1>14 DEF Inv

\* A round of the loop that frees page by page, and the values of the loop.
FRound(N, i, v) == free_phys_block(N, page_get_phys(N, v + i - 1), 1)

FRounds(g, M, v, n) == g = [i \in 0..n |-> IF i = 0 THEN M ELSE FRound(g[i - 1], i, v)]

FLoop(M, v, n) == CHOOSE h : FRounds(h, M, v, n)

LEMMA FreeLoop ==
    ASSUME NEW M, NEW v, NEW n
    PROVE  free_each(M, v, n) = FLoop(M, v, n)[n]
  BY DEF free_each, FLoop, FRounds, FRound

\* After i rounds the pages behind the first i have gone to the bitmap.
FreeingAt(N, i, M, X, v, n) ==
    /\ Backed(N, X \cup ((v + i)..(v + n - 1))) /\ N.pte = M.pte /\ N.dir = M.dir
    /\ Pool(N, X \cup ((v + i)..(v + n - 1))) = Pool(M, X \cup (v..(v + n - 1)))

\* One page more.
LEMMA FreesOneMore ==
    ASSUME NEW M, NEW X, NEW n \in Nat, NEW v \in Nat, (v..(v + n - 1)) \cap X = {},
           NEW i \in 1..n, NEW N, FreeingAt(N, i - 1, M, X, v, n)
    PROVE  FreeingAt(FRound(N, i, v), i, M, X, v, n)
  <1> DEFINE x == v + i - 1
             Y == X \cup ((v + (i - 1))..(v + n - 1))
             Z == X \cup ((v + i)..(v + n - 1))
             f == N.pte[x]
  <1>1. Y = Z \cup {x} /\ x \notin Z
    <2>1. x \in v..(v + n - 1) OBVIOUS
    <2>2. QED BY <2>1
  <1>2. Backed(N, Y) /\ N.pte = M.pte /\ N.dir = M.dir /\ Pool(N, Y) = Pool(M, X \cup (v..(v + n - 1)))
    BY DEF FreeingAt
  <1> HIDE DEF Y, Z, x
  <1>3. x \in Y /\ Backed(N, Z) BY <1>1, <1>2, BackedSome
  <1>4. N.dir[Table(x)] # NULL /\ f \in Frames \ Total(N) /\ MemType(N) BY <1>2, <1>3 DEF Backed, Sound
  <1>5. page_get_phys(N, x) = f BY <1>4 DEF page_get_phys
  <1>6. f \notin PagesOf(N, Z) BY <1>1, <1>2, <1>3 DEF Backed, PagesOf
  <1>7. free_phys_block(N, f, 1) = With(N, {f})
    <2>1. f \notin N.mm BY <1>4 DEF Total
    <2> HIDE DEF f
    <2>2. QED BY <1>4, <2>1, FreesPage DEF With
  <1>8. FRound(N, i, v) = With(N, {f}) BY <1>5, <1>7 DEF FRound, x
  <1>9. PagesOf(N, Y) = PagesOf(N, Z) \cup {f} BY <1>1 DEF PagesOf
  <1> HIDE DEF f
  <1>10. /\ Backed(With(N, {f}), Z) /\ With(N, {f}).pte = N.pte /\ With(N, {f}).dir = N.dir
         /\ Total(With(N, {f})) = Total(N) \cup {f}
    BY <1>3, <1>4, <1>6, GivenTo
  <1> DEFINE K == With(N, {f})
  <1> HIDE DEF K
  <1>11. Pool(K, Z) = Pool(N, Y)
    <2>1. PagesOf(K, Z) = PagesOf(N, Z) BY <1>10 DEF PagesOf, K
    <2>2. QED BY <1>9, <1>10, <2>1 DEF Pool, K
  <1>12. QED BY <1>2, <1>8, <1>10, <1>11 DEF FreeingAt, K, Z

\* The loops of vdefrag and of vmalloc's error path: pages go back to the
\* bitmap, one by one, and X keeps its own.
FreedAll(N, M, X, v, n) ==
    /\ Backed(N, X) /\ N.pte = M.pte /\ N.dir = M.dir
    /\ Pool(N, X) = Pool(M, X \cup (v..(v + n - 1)))

LEMMA FreesEach ==
    ASSUME NEW M, NEW X, NEW n \in Nat, NEW v \in Nat, (v..(v + n - 1)) \cap X = {},
           Backed(M, X \cup (v..(v + n - 1)))
    PROVE  FreedAll(free_each(M, v, n), M, X, v, n)
  <1> DEFINE g == FLoop(M, v, n)
             Inv(K, i) == FreeingAt(K, i, M, X, v, n)
             Round(K, i) == FRound(K, i, v)
             Z == [i \in 0..n |-> {K \in Memories : Inv(K, i)}]
             S == [i \in 1..n |-> [K \in Z[i - 1] \cup {g[i - 1]} |-> Round(K, i)]]
  <1>1. ASSUME NEW K, NEW i \in 0..n, Inv(K, i) PROVE K \in Z[i]
    <2>1. MemType(K) BY <1>1 DEF FreeingAt, Backed, Sound
    <2>2. K \in Memories BY <2>1, MemIs
    <2>3. QED BY <1>1, <2>2
  <1>2. Inv(M, 0)
    <2>1. v + 0 = v OBVIOUS
    <2>2. QED BY <2>1 DEF FreeingAt
  <1>3. 0 \in 0..n /\ n \in 0..n OBVIOUS
  <1>4. M \in Z[0] BY <1>1, <1>2, <1>3
  <1>5. \A i \in 0..n : \A K \in Z[i] : Inv(K, i) OBVIOUS
  <1>6. \A i \in 1..n : \A K \in Z[i - 1] \cup {g[i - 1]} : S[i][K] = Round(K, i) OBVIOUS
  <1> HIDE DEF Z, S, g
  <1>7. Loop(S, Z, n)
    <2> SUFFICES ASSUME NEW i \in 1..n, NEW K \in Z[i - 1] PROVE S[i][K] \in Z[i] BY DEF Loop
    <2>1. i \in 0..n /\ i - 1 \in 0..n OBVIOUS
    <2>2. Inv(K, i - 1) BY <1>5, <2>1
    <2>3. Inv(Round(K, i), i) BY <2>2, FreesOneMore
    <2> HIDE DEF Inv, Round
    <2>4. QED BY <1>1, <1>6, <2>1, <2>3
  <1> HIDE DEF Inv
  <1>8. PICK w : Computed(w, S, Z, M, n) BY <1>4, <1>7, LoopRuns
  <1>9. FRounds(w, M, v, n)
    <2>1. \A i \in 0..n : w[i] = IF i = 0 THEN M ELSE Round(w[i - 1], i)
      <3> HIDE DEF Round
      <3> SUFFICES ASSUME NEW i \in 0..n, i # 0 PROVE w[i] = Round(w[i - 1], i) BY <1>8 DEF Computed
      <3>1. i \in 1..n /\ i - 1 \in 0..n OBVIOUS
      <3>2. QED BY <3>1, <1>6, <1>8 DEF Rounds, Computed
    <2>2. [i \in 0..n |-> w[i]] = [i \in 0..n |-> IF i = 0 THEN M ELSE Round(w[i - 1], i)]
      BY <2>1
    <2>3. QED BY <2>2, <1>8 DEF FRounds, Computed
  <1>10. FRounds(g, M, v, n) BY <1>9 DEF FLoop, g
  <1>11. g[0] = M /\ \A i \in 1..n : g[i] = Round(g[i - 1], i)
    <2>1. g = [i \in 0..n |-> IF i = 0 THEN M ELSE Round(g[i - 1], i)]
      BY <1>10 DEF FRounds
    <2>2. \A i \in 0..n : g[i] = IF i = 0 THEN M ELSE Round(g[i - 1], i) BY <2>1
    <2>3. QED BY <1>3, <2>2
  <1> HIDE DEF Round
  <1>12. Rounds(g, S, n) BY <1>6, <1>11 DEF Rounds
  <1>13. \A i \in 0..n : g[i] \in Z[i] BY <1>4, <1>7, <1>11, <1>12, LoopKeeps
  <1> DEFINE N == free_each(M, v, n)
  <1>14. N = g[n] BY FreeLoop DEF g
  <1> HIDE DEF N
  <1>15. FreeingAt(N, n, M, X, v, n) BY <1>3, <1>5, <1>13, <1>14 DEF Inv
  <1>16. X \cup ((v + n)..(v + n - 1)) = X OBVIOUS
  <1>17. QED BY <1>15, <1>16 DEF FreeingAt, FreedAll, N

-----------------------------------------------------------------------------
(* The physical pages: the calls                                             *)

\* S is M, V and H with a new entry of n pages from v on, X being the virtual
\* pages of the others.
NewPages(S, M, V, X, H, virtual, v, n) ==
    /\ v..(v + n - 1) \subseteq V /\ S.V = V \ (v..(v + n - 1))
    /\ S.H = <<init_new_allocated_block(v, n, virtual)>> \o H
    /\ Backed(S.M, X \cup (v..(v + n - 1)))
    /\ Pool(S.M, X \cup (v..(v + n - 1))) = Pool(M, X)
    /\ ~virtual => \A k \in 0..(n - 1) : S.M.pte[v + k] = S.M.pte[v] + k

\* The memory S after a call that looked for a new entry, X being the virtual
\* pages of the entries: they keep what is behind them, and so does a new one.
PagesGrown(S, M, V, X, H, virtual) ==
    /\ SameEntries(M, S.M, X)
    /\ \/ S.H = H /\ Backed(S.M, X)
       \/ \E v \in VPages, n \in 1..HEAP_PAGES : NewPages(S, M, V, X, H, virtual, v, n)

\* Freeing virtual pages that are not free reports nothing.
LEMMA NotWarned ==
    ASSUME NEW M, MemType(M), NEW pages, pages = {}
    PROVE  Warned(M, pages) = M
  <1>1. (M.warned \/ pages # {}) = M.warned BY DEF MemType
  <1>2. Warned(M, pages) = [M EXCEPT !.warned = M.warned] BY <1>1 DEF Warned
  <1>3. QED BY <1>2 DEF MemType

LEMMA GaveBackPages ==
    ASSUME NEW M, NEW N, NEW V, NEW H, NEW X, NEW virtual,
           NEW v \in Nat, NEW n \in Nat, NEW b \in Nat, b <= n,
           NEW W, W = V \ (v..(v + n - 1)), Backed(N, X), SameEntries(M, N, X)
    PROVE  PagesGrown(GivesBack(N, W, H, v, b), M, V, X, H, virtual)
  <1> DEFINE U == W \cup (v..(v + b - 1))
             c == W \cap (v..(v + b - 1))
             K == GivesBack(N, W, H, v, b)
  <1>1. c = {}
    <2>1. v..(v + b - 1) \subseteq v..(v + n - 1) OBVIOUS
    <2>2. QED BY <2>1
  <1>2. MemType(N) BY DEF Backed, Sound
  <1>3. K = Mem(Warned(N, c), U, H) BY DEF GivesBack
  <1> HIDE DEF c, U, K
  <1>4. Warned(N, c) = N BY <1>1, <1>2, NotWarned
  <1>5. K.M = N /\ K.H = H BY <1>3, <1>4, MemFields
  <1>6. QED BY <1>5 DEF PagesGrown, K

\* kmalloc, when no entry has room.
LEMMA KmallocPages ==
    ASSUME NEW M, NEW V, NEW H, NEW X, Backed(M, X), V \subseteq VPages \ X,
           NEW a \in Nat \ {0}, NEW fill \in [Frames -> {NULL, JUNK}]
    PROVE  PagesGrown(kmalloc_entry(Mem(M, V, H), a, fill), M, V, X, H, FALSE)
  <1> DEFINE n == EntryPages(a)
             b == GivenBack(a)
             v == find_free_virt_addr(Mem(M, V, H), n)
             f == get_phys_block(M, n)
             r == page_map_range(alloc_phys_block(M, f, n), f, v, n, fill)
             W == V \ (v..(v + n - 1))
             K == kmalloc_entry(Mem(M, V, H), a, fill)
             G == <<init_new_allocated_block(v, n, FALSE)>> \o H
             A == alloc_phys_block(M, f, n)
  <1>1. n \in Nat \ {0} /\ b \in Nat /\ b <= n
    BY GivesBackLess
  <1>2. K = IF v = NULL THEN Mem(M, V, H)
            ELSE IF f = NULL THEN GivesBack(M, W, H, v, b)
            ELSE IF ~r.ok THEN GivesBack(free_phys_block(r.M, f, b), W, H, v, b)
            ELSE Mem(r.M, W, G)
    <2>1. K = KmallocResult(M, V, H, a, fill) BY KmallocIs
    <2> HIDE DEF K
    <2>2. QED BY <2>1 DEF KmallocResult
  <1>3. SameEntries(M, M, X) BY DEF SameEntries
  <1>4. r = page_map_range(A, f, v, n, fill) OBVIOUS
  <1> HIDE DEF K, r, n, b, v, G
  <1>5. CASE v = NULL
    <2>1. K = Mem(M, V, H) BY <1>2, <1>5
    <2>2. K.M = M /\ K.H = H BY <2>1, MemFields
    <2>3. QED BY <1>3, <2>2 DEF PagesGrown, K
  <1>6. CASE v # NULL
    <2> DEFINE Y == v..(v + n - 1)
    <2>1. v \in VPages /\ n \in 1..HEAP_PAGES /\ Y \subseteq V
      BY <1>1, <1>6, VirtFound DEF v
    <2>2. v \in Nat /\ Y \subseteq VPages \ X BY <2>1 DEF VPages
    <2>3. CASE f = NULL
      <3>1. K = GivesBack(M, W, H, v, b) BY <1>2, <1>6, <2>3
      <3>2. PagesGrown(GivesBack(M, W, H, v, b), M, V, X, H, FALSE)
        BY <1>1, <1>3, <2>2, GaveBackPages
      <3>3. QED BY <3>1, <3>2 DEF K
    <2>4. CASE f # NULL
      <3> DEFINE F == f..(f + n - 1)
      <3>1. f \in Nat /\ F \subseteq M.mm
        <4>1. f = FirstRun(M.mm, LOW_PAGE, MAX_RAM_PAGE, n) BY DEF get_phys_block
        <4>2. f \in LOW_PAGE..(MAX_RAM_PAGE - 1 - n) /\ F \subseteq M.mm
          BY <1>1, <2>4, <4>1, FrameFacts, RunFound
        <4>3. QED BY <4>2, FrameFacts
      <3>2. A = Without(M, F) BY DEF alloc_phys_block, Without
      <3> HIDE DEF A, f
      <3>3. /\ Backed(A, X) /\ SameEntries(M, A, X) /\ Total(A) = Total(M) \ F
            /\ F \cap PagesOf(M, X) = {} /\ F \subseteq Frames
        <4> HIDE DEF F
        <4>1. QED BY <3>1, <3>2, TakenFrom
      <3>4. PagesOf(A, X) = PagesOf(M, X) BY <3>3 DEF SameEntries, PagesOf
      <3>5. F \subseteq Frames \ Total(A) /\ F \cap PagesOf(A, X) = {} BY <3>3, <3>4
      <3>6. /\ Backed(r.M, X) /\ SameEntries(A, r.M, X) /\ Total(r.M) = Total(A) /\ r.ok \in BOOLEAN
            /\ r.ok => /\ Backed(r.M, X \cup Y)
                       /\ Pool(r.M, X \cup Y) = Pool(A, X) \cup F
                       /\ \A k \in 0..(n - 1) : r.M.pte[v + k] = f + k
        <4>1. Backed(A, X) BY <3>3
        <4>2. RangeMapped(r, A, X, f, v, n) BY <1>1, <1>4, <2>2, <3>1, <3>5, <4>1, RangeBacked
        <4>3. QED BY <4>2 DEF RangeMapped
      <3>7. SameEntries(M, r.M, X) BY <3>3, <3>6 DEF SameEntries
      <3>8. CASE r.ok
        <4>1. K = Mem(r.M, W, G) BY <1>2, <1>6, <2>4, <3>8
        <4>2. K.M = r.M /\ K.V = W /\ K.H = G
          <5> HIDE DEF W
          <5>1. QED BY <4>1, MemFields
        <4>3. Pool(r.M, X \cup Y) = Pool(M, X)
          <5>1. F \subseteq Total(M) BY <3>1 DEF Total
          <5> HIDE DEF F, Y
          <5>2. QED BY <3>3, <3>4, <3>6, <3>8, <5>1 DEF Pool
        <4>4. \A k \in 0..(n - 1) : r.M.pte[v + k] = r.M.pte[v] + k
          <5>1. 0 \in 0..(n - 1) /\ v + 0 = v /\ f + 0 = f BY <1>1, <2>2, <3>1
          <5>2. r.M.pte[v] = f BY <3>6, <3>8, <5>1
          <5>3. QED BY <3>6, <3>8, <5>2
        <4>5. NewPages(K, M, V, X, H, FALSE, v, n)
          BY <2>1, <3>6, <3>8, <4>2, <4>3, <4>4 DEF NewPages, G
        <4>6. QED BY <2>1, <3>7, <4>2, <4>5 DEF PagesGrown, K
      <3>9. CASE ~r.ok
        <4> DEFINE E == f..(f + b - 1)
                   N == free_phys_block(r.M, f, b)
        <4>1. K = GivesBack(N, W, H, v, b) BY <1>2, <1>6, <2>4, <3>9
        <4>2. E \subseteq F BY <1>1, <3>1
        <4>3. PagesOf(r.M, X) = PagesOf(M, X) BY <3>7 DEF SameEntries, PagesOf
        <4>4. E \subseteq Frames \ Total(r.M) /\ E \cap PagesOf(r.M, X) = {}
          BY <3>3, <3>6, <4>2, <4>3
        <4>5. N = With(r.M, E)
          <5>1. MemType(r.M) BY <3>6 DEF Backed, Sound
          <5>2. E \subseteq Frames \ r.M.mm BY <4>4 DEF Total
          <5>3. QED BY <1>1, <3>1, <5>1, <5>2, FreesPages DEF With
        <4> HIDE DEF E, N
        <4>6. Backed(N, X) /\ N.pte = r.M.pte /\ N.dir = r.M.dir
          BY <3>6, <4>4, <4>5, GivenTo
        <4>7. SameEntries(M, N, X) BY <3>7, <4>6 DEF SameEntries
        <4>8. PagesGrown(GivesBack(N, W, H, v, b), M, V, X, H, FALSE)
          BY <1>1, <2>2, <4>6, <4>7, GaveBackPages
        <4>9. QED BY <4>1, <4>8 DEF K
      <3>10. QED BY <3>6, <3>8, <3>9
    <2>5. QED BY <2>3, <2>4
  <1>7. QED BY <1>5, <1>6

\* vmalloc, when no entry has room.
LEMMA VmallocPages ==
    ASSUME NEW M, NEW V, NEW H, NEW X, Backed(M, X), V \subseteq VPages \ X,
           NEW a \in Nat \ {0}, NEW fill \in [Frames -> {NULL, JUNK}]
    PROVE  PagesGrown(vmalloc_entry(Mem(M, V, H), a, fill), M, V, X, H, TRUE)
  <1> DEFINE n == EntryPages(a)
             b == GivenBack(a)
             v == find_free_virt_addr(Mem(M, V, H), n)
             r == vmalloc_pages(M, v, n, fill)
             k == IF r.n = 0 THEN 0 ELSE r.n - 1
             W == V \ (v..(v + n - 1))
             K == vmalloc_entry(Mem(M, V, H), a, fill)
             G == <<init_new_allocated_block(v, n, TRUE)>> \o H
  <1>1. n \in Nat \ {0} /\ b \in Nat /\ b <= n
    BY GivesBackLess
  <1>2. K = IF v = NULL THEN Mem(M, V, H)
            ELSE IF r.ok THEN Mem(r.M, W, G)
            ELSE GivesBack(free_each(r.M, v, k), W, H, v, b)
    <2>1. K = VmallocResult(M, V, H, a, fill) BY VmallocIs
    <2> HIDE DEF K
    <2>2. QED BY <2>1 DEF VmallocResult
  <1>3. SameEntries(M, M, X) BY DEF SameEntries
  <1>4. r = vmalloc_pages(M, v, n, fill) OBVIOUS
  <1>5. k = IF r.n = 0 THEN 0 ELSE r.n - 1 OBVIOUS
  <1> HIDE DEF K, r, n, b, v, G, k
  <1>6. CASE v = NULL
    <2>1. K = Mem(M, V, H) BY <1>2, <1>6
    <2>2. K.M = M /\ K.H = H BY <2>1, MemFields
    <2>3. QED BY <1>3, <2>2 DEF PagesGrown, K
  <1>7. CASE v # NULL
    <2> DEFINE Y == v..(v + n - 1)
    <2>1. v \in VPages /\ n \in 1..HEAP_PAGES /\ Y \subseteq V
      BY <1>1, <1>7, VirtFound DEF v
    <2>2. v \in Nat /\ Y \subseteq VPages \ X BY <2>1 DEF VPages
    <2>3. VMapping(r, n, M, X, v, n) BY <1>1, <1>4, <2>2, VMaps
    <2>4. r.ok \in BOOLEAN /\ SameEntries(M, r.M, X) BY <2>3 DEF VMapping
    <2>5. CASE r.ok
      <3>1. K = Mem(r.M, W, G) BY <1>2, <1>7, <2>5
      <3>2. K.M = r.M /\ K.V = W /\ K.H = G
        <4> HIDE DEF W
        <4>1. QED BY <3>1, MemFields
      <3>3. Backed(r.M, X \cup Y) /\ Pool(r.M, X \cup Y) = Pool(M, X) BY <2>3, <2>5 DEF VMapping
      <3>4. NewPages(K, M, V, X, H, TRUE, v, n) BY <2>1, <3>2, <3>3 DEF NewPages, G
      <3>5. QED BY <2>1, <2>4, <3>2, <3>4 DEF PagesGrown, K
    <2>6. CASE ~r.ok
      <3> DEFINE N == free_each(r.M, v, k)
                 Z == v..(v + k - 1)
      <3>1. K = GivesBack(N, W, H, v, b) BY <1>2, <1>7, <2>6
      <3>2. r.n \in 0..n /\ Backed(r.M, X \cup (v..(v + r.n - 1))) BY <2>3 DEF VMapping
      <3>3. k \in Nat /\ Z \subseteq v..(v + r.n - 1) /\ Z \subseteq Y BY <1>1, <1>5, <2>2, <3>2
      <3>4. Backed(r.M, X \cup Z)
        <4>1. X \cup Z \subseteq X \cup (v..(v + r.n - 1)) BY <3>3
        <4>2. QED BY <3>2, <4>1, BackedSome
      <3>5. Backed(N, X) /\ N.pte = r.M.pte /\ N.dir = r.M.dir
        <4>1. Z \cap X = {} BY <2>2, <3>3
        <4>2. N = free_each(r.M, v, k) OBVIOUS
        <4> DEFINE R == r.M
        <4>3. Backed(R, X \cup (v..(v + k - 1))) /\ N = free_each(R, v, k) /\ k \in Nat /\ v \in Nat
          BY <2>2, <3>3, <3>4, <4>2
        <4>4. (v..(v + k - 1)) \cap X = {} BY <4>1
        <4> HIDE DEF N, R
        <4>5. FreedAll(free_each(R, v, k), R, X, v, k) BY <4>3, <4>4, FreesEach
        <4>6. QED BY <4>3, <4>5 DEF FreedAll, R
      <3>6. SameEntries(M, N, X) BY <2>4, <3>5 DEF SameEntries
      <3> HIDE DEF N
      <3>7. PagesGrown(GivesBack(N, W, H, v, b), M, V, X, H, TRUE)
        BY <1>1, <2>2, <3>5, <3>6, GaveBackPages
      <3>8. QED BY <3>1, <3>7 DEF K
    <2>7. QED BY <2>4, <2>5, <2>6
  <1>8. QED BY <1>6, <1>7

-----------------------------------------------------------------------------
(* The invariant of the pages *)

\* The virtual pages of the entries.
Used(H) == UNION {VRange(H[i]) : i \in 1..Len(H)}

\* The entries kmalloc made have physical pages in a row: kdefrag counts on it.
Contiguous(M, H) ==
    \A i \in 1..Len(H) : ~H[i].virtual =>
        \A k \in 0..(H[i].n - 1) : M.pte[H[i].v + k] = M.pte[H[i].v] + k

\* Nothing is lost: some page that was free at the start is still accounted for.
Accounted(M, V, H) ==
    \E free \in InitialFree : Pool(M, Used(H)) = free /\ V \cup Used(H) = VPages

PageInv ==
    /\ Backed(mem, Used(heap)) /\ Contiguous(mem, heap)
    /\ failed \in BOOLEAN /\ (~failed => Accounted(mem, mm_virt_heap, heap))

HeapInv == BlockInv /\ PageInv

\* The same entries, with other headers.
SameShape(G, H) ==
    /\ Len(G) = Len(H)
    /\ \A i \in 1..Len(H) : G[i].v = H[i].v /\ G[i].n = H[i].n /\ G[i].virtual = H[i].virtual

LEMMA ShapeUsed ==
    ASSUME NEW G, NEW H, SameShape(G, H)
    PROVE  Used(G) = Used(H) /\ \A M : Contiguous(M, H) => Contiguous(M, G)
  <1>1. \A i \in 1..Len(H) : VRange(G[i]) = VRange(H[i]) BY DEF SameShape, VRange
  <1>2. Used(G) = Used(H) BY <1>1 DEF Used, SameShape
  <1>3. ASSUME NEW M, Contiguous(M, H) PROVE Contiguous(M, G) BY <1>3 DEF Contiguous, SameShape
  <1>4. QED BY <1>2, <1>3

\* try_allocate and Merged leave an entry where it is.
LEMMA ServesShape ==
    ASSUME NEW H, NEW V, ListOK(H, V), NEW a \in Sizes, NEW i \in 1..Len(H), Fitting(H[i], a) # {}
    PROVE  SameShape([H EXCEPT ![i] = try_allocate(@, a)], H)
  <1> DEFINE f == try_allocate(H[i], a)
             G == [H EXCEPT ![i] = f]
  <1>1. H \in Seq(Entry) /\ EntryOK(H[i]) BY DEF ListOK
  <1>2. a \in Nat \ {0} BY HeapAssumption
  <1>3. f.v = H[i].v /\ f.n = H[i].n /\ f.virtual = H[i].virtual BY <1>1, <1>2, Allocates
  <1> HIDE DEF f
  <1>4. Len(G) = Len(H) /\ \A j \in 1..Len(H) : G[j] = IF j = i THEN f ELSE H[j] BY <1>1
  <1>5. QED BY <1>3, <1>4 DEF SameShape, f

LEMMA FreesShape ==
    ASSUME NEW H, NEW V, ListOK(H, V), NEW i \in 1..Len(H), NEW o \in DOMAIN H[i].head
    PROVE  SameShape([H EXCEPT ![i] = Freed(H[i], o)], H)
  <1> DEFINE f == Freed(H[i], o)
             G == [H EXCEPT ![i] = f]
  <1>1. H \in Seq(Entry) /\ EntryOK(H[i]) BY DEF ListOK
  <1>2. f.v = H[i].v /\ f.n = H[i].n /\ f.virtual = H[i].virtual BY <1>1, Frees
  <1> HIDE DEF f
  <1>3. Len(G) = Len(H) /\ \A j \in 1..Len(H) : G[j] = IF j = i THEN f ELSE H[j] BY <1>1
  <1>4. QED BY <1>2, <1>3 DEF SameShape, f

\* The same pages, whatever is in the headers.
LEMMA ShapePages ==
    ASSUME PageInv, SameShape(heap', heap), mem' = mem, mm_virt_heap' = mm_virt_heap, failed' = failed
    PROVE  PageInv'
  <1>1. Used(heap') = Used(heap) /\ Contiguous(mem, heap') BY ShapeUsed DEF PageInv
  <1>2. Backed(mem', Used(heap')) /\ Contiguous(mem', heap') BY <1>1 DEF PageInv
  <1>3. ~failed' => Accounted(mem', mm_virt_heap', heap') BY <1>1 DEF PageInv, Accounted
  <1>4. failed' \in BOOLEAN BY DEF PageInv
  <1>5. QED BY <1>2, <1>3, <1>4 DEF PageInv

\* A new entry at the head of the list.
HasNew(G, H, v, n, virtual) ==
    /\ Used(G) = Used(H) \cup (v..(v + n - 1)) /\ Len(G) = Len(H) + 1
    /\ G[1].v = v /\ G[1].n = n /\ G[1].virtual = virtual
    /\ \A j \in 1..Len(H) : G[j + 1] = H[j]

LEMMA UsedNew ==
    ASSUME NEW H, NEW V, ListOK(H, V), NEW v \in VPages, NEW n \in 1..HEAP_PAGES,
           NEW virtual \in BOOLEAN, NEW G, G = <<init_new_allocated_block(v, n, virtual)>> \o H
    PROVE  HasNew(G, H, v, n, virtual)
  <1> DEFINE e == init_new_allocated_block(v, n, virtual)
             u == <<e>>
  <1>1. H \in Seq(Entry) /\ Len(H) \in Nat BY DEF ListOK
  <1>2. EntryOK(e) /\ e.v = v /\ e.n = n /\ e.virtual = virtual BY NewIsOK
  <1>3. e \in Entry /\ VRange(e) = v..(v + n - 1) BY <1>2 DEF EntryOK, VRange
  <1>4. G = u \o H OBVIOUS
  <1> HIDE DEF e
  <1>5. u \in Seq(Entry) /\ Len(u) = 1 /\ u[1] = e BY <1>3
  <1> HIDE DEF u
  <1>6. Len(G) = Len(u) + Len(H)
        /\ \A j \in 1..(Len(u) + Len(H)) : G[j] = IF j <= Len(u) THEN u[j] ELSE H[j - Len(u)]
    BY <1>1, <1>4, <1>5, ConcatProperties
  <1>7. Len(G) = Len(H) + 1 /\ G[1] = e BY <1>1, <1>5, <1>6
  <1>8. \A j \in 1..Len(H) : j + 1 \in 1..Len(G) /\ G[j + 1] = H[j]
    <2> SUFFICES ASSUME NEW j \in 1..Len(H) PROVE j + 1 \in 1..Len(G) /\ G[j + 1] = H[j] OBVIOUS
    <2>1. j + 1 \in 1..(Len(u) + Len(H)) /\ ~(j + 1 <= Len(u)) /\ j + 1 - Len(u) = j BY <1>1, <1>5
    <2>2. QED BY <1>6, <2>1
  <1>9. \A j \in 1..Len(G) : j = 1 \/ (j - 1 \in 1..Len(H) /\ G[j] = H[j - 1])
    <2> SUFFICES ASSUME NEW j \in 1..Len(G), j # 1 PROVE j - 1 \in 1..Len(H) /\ G[j] = H[j - 1] OBVIOUS
    <2>1. j - 1 \in 1..Len(H) /\ (j - 1) + 1 = j BY <1>1, <1>7
    <2>2. QED BY <1>8, <2>1
  <1>10. 1 \in 1..Len(G) BY <1>1, <1>7
  <1>11. Used(G) = Used(H) \cup VRange(e)
    <2>1. ASSUME NEW x \in Used(G) PROVE x \in Used(H) \cup VRange(e)
      <3>1. PICK j \in 1..Len(G) : x \in VRange(G[j]) BY DEF Used
      <3>2. QED BY <1>7, <1>9, <3>1 DEF Used
    <2>2. ASSUME NEW x \in Used(H) PROVE x \in Used(G)
      <3>1. PICK j \in 1..Len(H) : x \in VRange(H[j]) BY DEF Used
      <3>2. QED BY <1>8, <3>1 DEF Used
    <2>3. VRange(e) \subseteq Used(G) BY <1>7, <1>10 DEF Used
    <2>4. QED BY <2>1, <2>2, <2>3
  <1>12. QED BY <1>2, <1>3, <1>7, <1>8, <1>11 DEF HasNew

\* An entry is off the list.
LEMMA UsedOff ==
    ASSUME NEW H, NEW V, ListOK(H, V), NEW i \in 1..Len(H)
    PROVE  /\ Used(RemoveAt(H, i)) = Used(H) \ VRange(H[i])
           /\ VRange(H[i]) \subseteq Used(H)
           /\ \A M : Contiguous(M, H) => Contiguous(M, RemoveAt(H, i))
  <1> DEFINE G == RemoveAt(H, i)
             at(j) == IF j < i THEN j ELSE j + 1
  <1>1. H \in Seq(Entry) /\ Len(H) \in Nat BY DEF ListOK
  <1>2. Len(G) = Len(H) - 1 /\ \A j \in 1..(Len(H) - 1) : G[j] = H[at(j)] BY <1>1, TakenOff
  <1>3. \A j \in 1..Len(G) : at(j) \in 1..Len(H) /\ at(j) # i BY <1>1, <1>2
  <1>4. \A k \in 1..Len(H) : k # i => \E j \in 1..Len(G) : at(j) = k
    <2>1. SUFFICES ASSUME NEW k \in 1..Len(H), k # i PROVE \E j \in 1..Len(G) : at(j) = k
      OBVIOUS
    <2>2. CASE k < i BY <2>2, <1>1, <1>2
    <2>3. CASE k > i
      <3>1. k - 1 \in 1..Len(G) /\ at(k - 1) = k BY <2>3, <1>1, <1>2
      <3>2. QED BY <3>1
    <2>4. QED BY <2>1, <2>2, <2>3
  <1> HIDE DEF G, at
  <1>5. \A j \in 1..Len(G) : G[j] = H[at(j)] BY <1>2
  <1>6. \A k \in 1..Len(H) : k # i => VRange(H[k]) \cap VRange(H[i]) = {} BY DEF ListOK
  <1>7. Used(G) = Used(H) \ VRange(H[i])
    <2>1. ASSUME NEW x \in Used(G) PROVE x \in Used(H) \ VRange(H[i])
      <3>1. PICK j \in 1..Len(G) : x \in VRange(G[j]) BY DEF Used
      <3>2. QED BY <1>3, <1>5, <1>6, <3>1 DEF Used
    <2>2. ASSUME NEW x \in Used(H) \ VRange(H[i]) PROVE x \in Used(G)
      <3>1. PICK k \in 1..Len(H) : x \in VRange(H[k]) BY DEF Used
      <3>2. k # i BY <2>2, <3>1
      <3>3. PICK j \in 1..Len(G) : at(j) = k BY <1>4, <3>2
      <3>4. G[j] = H[k] BY <1>5, <3>3
      <3>5. QED BY <3>1, <3>4 DEF Used
    <2>3. QED BY <2>1, <2>2
  <1>8. ASSUME NEW M, Contiguous(M, H) PROVE Contiguous(M, G)
    BY <1>3, <1>5, <1>8 DEF Contiguous
  <1>9. VRange(H[i]) \subseteq Used(H) BY DEF Used
  <1>10. QED BY <1>7, <1>8, <1>9 DEF G

\* kdefrag and vdefrag give back exactly the pages behind the entry.
LEMMA Releases ==
    ASSUME NEW M, NEW H, NEW V, ListOK(H, V), Backed(M, Used(H)), Contiguous(M, H),
           NEW i \in 1..Len(H), NEW virtual \in BOOLEAN, H[i].virtual = virtual
    PROVE  FreedAll(GoneFrom(M, H[i], virtual), M, Used(H) \ VRange(H[i]), H[i].v, H[i].n)
  <1> DEFINE v == H[i].v
             n == H[i].n
             Y == v..(v + n - 1)
             X == Used(H) \ Y
             N == GoneFrom(M, H[i], virtual)
  <1>1. H[i] \in Entry BY DEF ListOK, EntryOK
  <1>2. v \in Nat /\ n \in Nat \ {0} BY <1>1, PagingAssumption DEF Entry, VPages
  <1>3. VRange(H[i]) = Y /\ Y \subseteq Used(H) BY UsedOff DEF VRange
  <1>4. X \cup Y = Used(H) /\ Y \cap X = {} BY <1>3
  <1>5. Backed(M, X \cup Y) BY <1>4
  <1>6. CASE virtual
    <2>1. N = free_each(M, v, n) BY <1>6 DEF GoneFrom
    <2> HIDE DEF N, v, n, X
    <2>2. FreedAll(free_each(M, v, n), M, X, v, n) BY <1>2, <1>4, <1>5, FreesEach
    <2>3. QED BY <1>3, <2>1, <2>2 DEF N, v, n, X
  <1>7. CASE ~virtual
    <2> DEFINE g == M.pte[v]
               F == g..(g + n - 1)
    <2>1. \A k \in 0..(n - 1) : M.pte[v + k] = g + k BY <1>7 DEF Contiguous
    <2>2. v \in Y BY <1>2
    <2>3. M.dir[Table(v)] # NULL /\ g \in Frames BY <1>5, <2>2 DEF Backed
    <2>4. g \in Nat BY <2>3, FrameFacts
    <2>5. N = free_phys_block(M, g, n) BY <1>7, <2>3 DEF GoneFrom, page_get_phys
    <2> HIDE DEF N, v, n, X, g
    <2>6. F = PagesOf(M, Y)
      <3>1. ASSUME NEW x \in F PROVE x \in PagesOf(M, Y)
        <4> DEFINE k == x - g
        <4>1. k \in 0..(n - 1) /\ g + k = x /\ v + k \in Y BY <1>2, <2>4
        <4> HIDE DEF k
        <4>2. M.pte[v + k] = x BY <2>1, <4>1
        <4>3. QED BY <4>1, <4>2 DEF PagesOf
      <3>2. ASSUME NEW y \in Y PROVE M.pte[y] \in F
        <4> DEFINE k == y - v
        <4>1. k \in 0..(n - 1) /\ v + k = y /\ g + k \in F BY <1>2, <2>4
        <4> HIDE DEF k
        <4>2. M.pte[y] = g + k BY <2>1, <4>1
        <4>3. QED BY <4>1, <4>2
      <3>3. QED BY <3>1, <3>2 DEF PagesOf
    <2> HIDE DEF F, Y
    <2>7. F \subseteq Frames \ Total(M) /\ F \cap PagesOf(M, X) = {}
      BY <1>4, <1>5, <2>6 DEF Backed, PagesOf
    <2>8. Backed(M, X) /\ MemType(M)
      <3>1. Backed(M, X) BY <1>5, BackedSome
      <3>2. QED BY <3>1 DEF Backed, Sound
    <2>9. N = With(M, F)
      <3>1. F \subseteq Frames \ M.mm BY <2>7 DEF Total
      <3>2. QED BY <1>2, <2>4, <2>5, <2>8, <3>1, FreesPages DEF F, With
    <2>10. /\ Backed(With(M, F), X) /\ With(M, F).pte = M.pte /\ With(M, F).dir = M.dir
           /\ Total(With(M, F)) = Total(M) \cup F
      BY <2>7, <2>8, GivenTo
    <2>11. Pool(N, X) = Pool(M, X \cup Y)
      <3>1. PagesOf(N, X) = PagesOf(M, X) BY <2>9, <2>10 DEF PagesOf
      <3>2. PagesOf(M, X \cup Y) = PagesOf(M, X) \cup F BY <2>6 DEF PagesOf
      <3>3. QED BY <2>9, <2>10, <3>1, <3>2 DEF Pool
    <2>12. FreedAll(N, M, X, v, n) BY <2>9, <2>10, <2>11 DEF FreedAll, Y
    <2>13. QED BY <1>3, <2>12 DEF N, v, n, X, Y
  <1>8. QED BY <1>6, <1>7

\* heap_setup: everything is free.
LEMMA InitPages == HeapInit => PageInv
  <1> SUFFICES ASSUME HeapInit PROVE PageInv OBVIOUS
  <1>1. PICK free \in InitialFree :
          mem = [mm |-> free, dir |-> [d \in Tables |-> NULL],
                 pte |-> [v \in VPages |-> NULL], warned |-> FALSE]
    BY DEF HeapInit
  <1>2. heap = <<>> /\ mm_virt_heap = VPages /\ failed = FALSE BY DEF HeapInit
  <1>3. Len(heap) = 0 /\ 1..Len(heap) = {} BY <1>2
  <1>4. Used(heap) = {} BY <1>3 DEF Used
  <1>5. free \subseteq Frames BY HeapAssumption
  <1>6. MemType(mem)
    <2> DEFINE c == [d \in Tables |-> NULL]
               p == [v \in VPages |-> NULL]
    <2>1. c \in [Tables -> Frames \cup {NULL}] /\ p \in [VPages -> Frames \cup {NULL, JUNK}] OBVIOUS
    <2>2. mem = [mm |-> free, dir |-> c, pte |-> p, warned |-> FALSE] BY <1>1
    <2> HIDE DEF c, p
    <2>3. mem.mm = free /\ mem.dir = c /\ mem.pte = p /\ mem.warned = FALSE BY <2>2
    <2>4. QED BY <1>5, <2>1, <2>2, <2>3 DEF MemType
  <1>7. mem.dir = [d \in Tables |-> NULL] /\ mem.mm = free /\ mem.warned = FALSE BY <1>1
  <1>8. TablesApart(mem) /\ TablesOf(mem) = {} BY <1>7 DEF TablesApart, TablesOf
  <1>9. Backed(mem, Used(heap)) BY <1>4, <1>6, <1>7, <1>8 DEF Backed, Sound
  <1>10. Contiguous(mem, heap) BY <1>3 DEF Contiguous
  <1>11. Pool(mem, Used(heap)) = free BY <1>4, <1>7, <1>8 DEF Pool, Total, PagesOf
  <1>12. Accounted(mem, mm_virt_heap, heap) BY <1>2, <1>4, <1>11 DEF Accounted
  <1>13. QED BY <1>2, <1>9, <1>10, <1>12 DEF PageInv

\* kmalloc and vmalloc, from an entry there is.
LEMMA ReusePages ==
    ASSUME HeapInv, NEW a \in Sizes, NEW virtual \in BOOLEAN, malloc_reuse(a, virtual)
    PROVE  PageInv'
  <1> DEFINE i == Min(Candidates(a, virtual))
  <1>0. BlockInv /\ PageInv BY DEF HeapInv
  <1>1. i \in 1..Len(heap) /\ Fitting(heap[i], a) # {}
    <2>1. Candidates(a, virtual) \subseteq Nat /\ Candidates(a, virtual) # {}
      <3>1. Len(heap) \in Nat BY <1>0 DEF BlockInv, ListOK
      <3>2. QED BY <3>1 DEF Candidates, malloc_reuse
    <2>2. i \in Candidates(a, virtual) BY <2>1, MinNat
    <2> HIDE DEF i
    <2>3. QED BY <2>2 DEF Candidates
  <1>2. Serve(Now, i, a) /\ failed' = failed BY DEF malloc_reuse
  <1>3. Now.M = mem /\ Now.V = mm_virt_heap /\ Now.H = heap BY DEF Now
  <1> HIDE DEF i
  <1>4. mem' = mem /\ mm_virt_heap' = mm_virt_heap /\ heap' = [heap EXCEPT ![i] = try_allocate(@, a)]
    BY <1>2, <1>3 DEF Serve
  <1>5. SameShape(heap', heap) BY <1>0, <1>1, <1>4, ServesShape DEF BlockInv
  <1>6. QED BY <1>0, <1>2, <1>4, <1>5, ShapePages

\* kmalloc and vmalloc, with a new entry or none.
LEMMA GrowPages ==
    ASSUME HeapInv, NEW a \in Sizes, NEW virtual \in BOOLEAN, NEW S,
           Grown(S, mm_virt_heap, heap, virtual),
           PagesGrown(S, mem, mm_virt_heap, Used(heap), heap, virtual),
           malloc_grow(a, virtual, S)
    PROVE  PageInv'
  <1>0. BlockInv /\ PageInv /\ Len(heap) \in Nat BY DEF HeapInv, BlockInv, ListOK
  <1>1. mem' = S.M /\ mm_virt_heap' = S.V /\ SameShape(heap', S.H)
    <2>1. CASE S.H # heap /\ Fitting(S.H[1], a) # {}
      <3>1. Serve(S, 1, a) BY <2>1 DEF malloc_grow
      <3>2. mem' = S.M /\ mm_virt_heap' = S.V /\ heap' = [S.H EXCEPT ![1] = try_allocate(@, a)]
        BY <3>1 DEF Serve
      <3>3. PICK v \in VPages, n \in 1..HEAP_PAGES :
               /\ v..(v + n - 1) \subseteq mm_virt_heap
               /\ S.V = mm_virt_heap \ (v..(v + n - 1))
               /\ S.H = <<init_new_allocated_block(v, n, virtual)>> \o heap
        BY <2>1 DEF Grown
      <3>4. ListOK(S.H, S.V) /\ Len(S.H) = Len(heap) + 1 BY <1>0, <3>3, AddsEntry DEF BlockInv
      <3> DEFINE G == S.H
      <3>5. 1 \in 1..Len(G) /\ ListOK(G, S.V) /\ Fitting(G[1], a) # {} BY <1>0, <2>1, <3>4
      <3> HIDE DEF G
      <3>6. SameShape([G EXCEPT ![1] = try_allocate(@, a)], G) BY <3>5, ServesShape
      <3>7. QED BY <3>2, <3>6 DEF G
    <2>2. CASE ~(S.H # heap /\ Fitting(S.H[1], a) # {})
      <3>1. mem' = S.M /\ mm_virt_heap' = S.V /\ heap' = S.H BY <2>2 DEF malloc_grow
      <3>2. QED BY <3>1 DEF SameShape
    <2>3. QED BY <2>1, <2>2
  <1>2. Used(heap') = Used(S.H) /\ (Contiguous(S.M, S.H) => Contiguous(S.M, heap'))
    BY <1>1, ShapeUsed
  <1>3. failed' = (failed \/ (S.H = heap /\ S # Now)) BY DEF malloc_grow
  <1>4. failed' \in BOOLEAN BY <1>0, <1>3 DEF PageInv
  <1>5. SUFFICES /\ Backed(S.M, Used(S.H)) /\ Contiguous(S.M, S.H)
                 /\ ~failed' => Accounted(S.M, S.V, S.H)
    <2>1. ~failed' => Accounted(mem', mm_virt_heap', heap') BY <1>1, <1>2, <1>5 DEF Accounted
    <2>2. Backed(mem', Used(heap')) /\ Contiguous(mem', heap') BY <1>1, <1>2, <1>5
    <2>3. QED BY <1>4, <2>1, <2>2 DEF PageInv
  <1>6. SameEntries(mem, S.M, Used(heap)) BY DEF PagesGrown
  <1>7. ASSUME NEW j \in 1..Len(heap), ~heap[j].virtual, NEW k \in 0..(heap[j].n - 1)
        PROVE  S.M.pte[heap[j].v + k] = S.M.pte[heap[j].v] + k
    <2> DEFINE v == heap[j].v
               n == heap[j].n
    <2>1. heap[j] \in Entry BY <1>0 DEF BlockInv, ListOK, EntryOK
    <2>2. v \in Nat /\ n \in Nat \ {0} BY <2>1, PagingAssumption DEF Entry, VPages
    <2>3. v \in VRange(heap[j]) /\ v + k \in VRange(heap[j]) BY <2>2 DEF VRange
    <2>4. v \in Used(heap) /\ v + k \in Used(heap) BY <2>3 DEF Used
    <2>5. mem.pte[v + k] = mem.pte[v] + k BY <1>0, <1>7 DEF PageInv, Contiguous
    <2>6. QED BY <1>6, <2>4, <2>5 DEF SameEntries
  <1>8. CASE S.H = heap /\ Backed(S.M, Used(heap))
    <2>1. Contiguous(S.M, S.H) BY <1>7, <1>8 DEF Contiguous
    <2>2. ASSUME ~failed' PROVE Accounted(S.M, S.V, S.H)
      <3>1. S = Now /\ ~failed BY <1>3, <1>8, <2>2
      <3>2. S.M = mem /\ S.V = mm_virt_heap BY <3>1 DEF Now
      <3>3. QED BY <1>0, <1>8, <3>1, <3>2 DEF PageInv
    <2>3. QED BY <1>8, <2>1, <2>2
  <1>9. CASE \E v \in VPages, n \in 1..HEAP_PAGES :
               NewPages(S, mem, mm_virt_heap, Used(heap), heap, virtual, v, n)
    <2>1. PICK v \in VPages, n \in 1..HEAP_PAGES :
               NewPages(S, mem, mm_virt_heap, Used(heap), heap, virtual, v, n)
      BY <1>9
    <2> DEFINE Y == v..(v + n - 1)
               G == S.H
    <2>2. /\ Y \subseteq mm_virt_heap /\ S.V = mm_virt_heap \ Y
          /\ G = <<init_new_allocated_block(v, n, virtual)>> \o heap
          /\ Backed(S.M, Used(heap) \cup Y) /\ Pool(S.M, Used(heap) \cup Y) = Pool(mem, Used(heap))
          /\ ~virtual => \A k \in 0..(n - 1) : S.M.pte[v + k] = S.M.pte[v] + k
      BY <2>1 DEF NewPages
    <2> HIDE DEF G
    <2>3. /\ Used(G) = Used(heap) \cup Y /\ Len(G) = Len(heap) + 1
          /\ G[1].v = v /\ G[1].n = n /\ G[1].virtual = virtual
          /\ \A j \in 1..Len(heap) : G[j + 1] = heap[j]
      <3>1. G = <<init_new_allocated_block(v, n, virtual)>> \o heap /\ ListOK(heap, mm_virt_heap)
        BY <1>0, <2>2 DEF BlockInv
      <3>2. HasNew(G, heap, v, n, virtual) BY <3>1, UsedNew
      <3>3. QED BY <3>2 DEF HasNew
    <2> HIDE DEF Y
    <2>4. Backed(S.M, Used(G)) BY <2>2, <2>3
    <2>5. Contiguous(S.M, G)
      <3> SUFFICES ASSUME NEW j \in 1..Len(G), ~G[j].virtual, NEW k \in 0..(G[j].n - 1)
                   PROVE  S.M.pte[G[j].v + k] = S.M.pte[G[j].v] + k
        BY DEF Contiguous
      <3>1. CASE j = 1 BY <2>2, <2>3, <3>1
      <3>2. CASE j # 1
        <4>1. j - 1 \in 1..Len(heap) /\ (j - 1) + 1 = j BY <1>0, <2>3, <3>2
        <4>2. G[j] = heap[j - 1] BY <2>3, <4>1
        <4>3. QED BY <1>7, <4>1, <4>2
      <3>3. QED BY <3>1, <3>2
    <2>6. ASSUME ~failed' PROVE Accounted(S.M, S.V, G)
      <3>1. ~failed BY <1>3, <2>6
      <3>2. PICK free \in InitialFree : Pool(mem, Used(heap)) = free /\ mm_virt_heap \cup Used(heap) = VPages
        BY <1>0, <3>1 DEF PageInv, Accounted
      <3>3. Pool(S.M, Used(G)) = free BY <2>2, <2>3, <3>2
      <3>4. S.V \cup Used(G) = VPages BY <2>2, <2>3, <3>2
      <3>5. QED BY <3>3, <3>4 DEF Accounted
    <2>7. QED BY <2>4, <2>5, <2>6 DEF G
  <1>10. QED BY <1>8, <1>9 DEF PagesGrown

\* kfree and vfree.
LEMMA FreePages ==
    ASSUME HeapInv, NEW p \in live, NEW virtual \in BOOLEAN, p.virtual = virtual, free_ptr(p, virtual)
    PROVE  PageInv'
  <1>0. BlockInv /\ PageInv /\ ListOK(heap, mm_virt_heap) BY DEF HeapInv, BlockInv
  <1>1. PICK i \in 1..Len(heap) :
          /\ heap[i].v = p.v /\ p.off \in Visible(heap[i])
          /\ LET e  == Merged([heap[i] EXCEPT !.head[p.off].free = TRUE])
                 S1 == [Now EXCEPT !.H = RemoveAt(@, i)]
                 S  == IF ~Unused(e) THEN [Now EXCEPT !.H[i] = e]
                       ELSE IF virtual THEN vdefrag_release(S1, e) ELSE kdefrag_release(S1, e)
             IN  mem' = S.M /\ mm_virt_heap' = S.V /\ heap' = S.H
          /\ failed' = failed
    BY DEF free_ptr
  <1> DEFINE e == Freed(heap[i], p.off)
             S == AfterFree(i, e, virtual)
             Y == VRange(heap[i])
             N == GoneFrom(mem, heap[i], virtual)
  <1>2. mem' = S.M /\ mm_virt_heap' = S.V /\ heap' = S.H BY <1>1 DEF Freed, AfterFree
  <1>3. /\ ~Unused(e) => S = Mem(mem, mm_virt_heap, [heap EXCEPT ![i] = e])
        /\ Unused(e) => S = Mem(Warned(N, mm_virt_heap \cap Y), mm_virt_heap \cup Y, RemoveAt(heap, i))
    <2>1. e = Freed(heap[i], p.off) /\ p.off \in Visible(heap[i]) BY <1>1
    <2> HIDE DEF e
    <2>2. S = AfterFree(i, e, virtual) OBVIOUS
    <2> HIDE DEF S
    <2>3. FreeResult(S, e, i, virtual) BY <1>0, <2>1, <2>2, FreeIs
    <2> HIDE DEF N, Y
    <2>4. QED BY <2>3 DEF FreeResult, N, Y
  <1> HIDE DEF S
  <1>4. CASE ~Unused(e)
    <2> DEFINE G == [heap EXCEPT ![i] = e]
    <2>1. p.off \in DOMAIN heap[i].head BY <1>1 DEF Visible
    <2>2. SameShape(G, heap) BY <1>0, <2>1, FreesShape
    <2>3. S = Mem(mem, mm_virt_heap, G) BY <1>3, <1>4
    <2> HIDE DEF G, e
    <2>4. mem' = mem /\ mm_virt_heap' = mm_virt_heap /\ heap' = G BY <1>2, <2>3, MemFields
    <2>5. QED BY <1>0, <1>1, <2>2, <2>4, ShapePages
  <1>5. CASE Unused(e)
    <2> DEFINE R == RemoveAt(heap, i)
               U == mm_virt_heap \cup Y
               X == Used(heap) \ Y
    <2>1. heap[i].virtual = virtual
      <3>1. PICK j \in 1..Len(heap) : Holds(p, heap[j]) BY <1>0 DEF BlockInv, Owned
      <3>2. j = i BY <1>0, <1>1, <3>1, FirstPage DEF Holds
      <3>3. QED BY <3>1, <3>2 DEF Holds
    <2>2. FreedAll(N, mem, X, heap[i].v, heap[i].n)
      BY <1>0, <2>1, Releases DEF PageInv
    <2>3. /\ Used(R) = X /\ Y \subseteq Used(heap) /\ Contiguous(mem, R)
      BY <1>0, UsedOff DEF PageInv
    <2>4. X \cup Y = Used(heap) /\ heap[i].v..(heap[i].v + heap[i].n - 1) = Y BY <2>3 DEF VRange
    <2> HIDE DEF N, R, X, e
    <2>5. Backed(N, X) /\ N.pte = mem.pte /\ Pool(N, X) = Pool(mem, Used(heap))
      BY <2>2, <2>4 DEF FreedAll
    <2>6. Y \subseteq VPages \ mm_virt_heap BY <1>0 DEF ListOK
    <2>7. Warned(N, mm_virt_heap \cap Y) = N
      <3> DEFINE c == mm_virt_heap \cap Y
      <3>1. c = {} /\ MemType(N) BY <2>5, <2>6 DEF Backed, Sound
      <3> HIDE DEF c
      <3>2. Warned(N, c) = N BY <3>1, NotWarned
      <3>3. QED BY <3>2 DEF c
    <2>8. S = Mem(N, U, R) BY <1>3, <1>5, <2>7 DEF R
    <2> HIDE DEF U
    <2>9. mem' = N /\ mm_virt_heap' = U /\ heap' = R BY <1>2, <2>8, MemFields
    <2>10. Contiguous(N, R) BY <2>3, <2>5 DEF Contiguous
    <2>11. ASSUME ~failed PROVE Accounted(N, U, R)
      <3>1. PICK free \in InitialFree : Pool(mem, Used(heap)) = free /\ mm_virt_heap \cup Used(heap) = VPages
        BY <1>0, <2>11 DEF PageInv, Accounted
      <3>2. U \cup Used(R) = VPages BY <2>3, <2>4, <3>1 DEF U
      <3>3. Pool(N, Used(R)) = free BY <2>3, <2>5, <3>1
      <3>4. QED BY <3>2, <3>3 DEF Accounted
    <2>12. failed \in BOOLEAN BY <1>0 DEF PageInv
    <2>13. QED BY <1>1, <2>3, <2>5, <2>9, <2>10, <2>11, <2>12 DEF PageInv
  <1>6. QED BY <1>4, <1>5

\* Every call keeps the pages in order.
LEMMA NextPages == HeapInv /\ [HeapNext]_vars => PageInv'
  <1> SUFFICES ASSUME HeapInv, [HeapNext]_vars PROVE PageInv' OBVIOUS
  <1>0. TRUE \in BOOLEAN /\ FALSE \in BOOLEAN OBVIOUS
  <1>1. Backed(mem, Used(heap)) /\ mm_virt_heap \subseteq VPages \ Used(heap)
    <2>1. \A i \in 1..Len(heap) : VRange(heap[i]) \subseteq VPages \ mm_virt_heap
          BY DEF HeapInv, BlockInv, ListOK
    <2>2. mm_virt_heap \subseteq VPages /\ mm_virt_heap \cap Used(heap) = {}
      BY <2>1 DEF HeapInv, BlockInv, ListOK, Used
    <2>3. QED BY <2>2 DEF HeapInv, PageInv
  <1>2. \A fill \in Fills : fill \in [Frames -> {NULL, JUNK}] BY DEF Fills
  <1>3. ASSUME NEW a \in Sizes, kmalloc(a) PROVE PageInv'
    <2>1. CASE malloc_reuse(a, FALSE) BY <2>1, <1>0, ReusePages
    <2>2. CASE \E fill \in Fills : malloc_grow(a, FALSE, kmalloc_entry(Now, a, fill))
      <3>1. PICK fill \in Fills : malloc_grow(a, FALSE, kmalloc_entry(Now, a, fill)) BY <2>2
      <3> DEFINE S == kmalloc_entry(Now, a, fill)
      <3>2. a \in Nat \ {0} BY HeapAssumption
      <3>3. Grown(S, mm_virt_heap, heap, FALSE) BY <3>2, NowIs, KmallocGrows
      <3>4. PagesGrown(S, mem, mm_virt_heap, Used(heap), heap, FALSE)
        BY <1>1, <1>2, <3>2, NowIs, KmallocPages
      <3> HIDE DEF S
      <3>5. QED BY <3>1, <3>3, <3>4, <1>0, GrowPages DEF S
    <2>3. QED BY <1>3, <2>1, <2>2 DEF kmalloc
  <1>4. ASSUME NEW a \in Sizes, vmalloc(a) PROVE PageInv'
    <2>1. CASE malloc_reuse(a, TRUE) BY <2>1, <1>0, ReusePages
    <2>2. CASE \E fill \in Fills : malloc_grow(a, TRUE, vmalloc_entry(Now, a, fill))
      <3>1. PICK fill \in Fills : malloc_grow(a, TRUE, vmalloc_entry(Now, a, fill)) BY <2>2
      <3> DEFINE S == vmalloc_entry(Now, a, fill)
      <3>2. a \in Nat \ {0} BY HeapAssumption
      <3>3. Grown(S, mm_virt_heap, heap, TRUE) BY <3>2, NowIs, VmallocGrows
      <3>4. PagesGrown(S, mem, mm_virt_heap, Used(heap), heap, TRUE)
        BY <1>1, <1>2, <3>2, NowIs, VmallocPages
      <3> HIDE DEF S
      <3>5. QED BY <3>1, <3>3, <3>4, <1>0, GrowPages DEF S
    <2>3. QED BY <1>4, <2>1, <2>2 DEF vmalloc
  <1>5. live \subseteq Ptr BY DEF HeapInv, BlockInv, Owned
  <1>6. ASSUME NEW p \in live, kfree(p) PROVE PageInv'
    <2>1. free_ptr(p, FALSE) /\ p.virtual = FALSE BY <1>5, <1>6 DEF kfree, Ptr
    <2>2. QED BY <1>0, <2>1, FreePages
  <1>7. ASSUME NEW p \in live, vfree(p) PROVE PageInv'
    <2>1. free_ptr(p, TRUE) /\ p.virtual = TRUE BY <1>5, <1>7 DEF vfree, Ptr
    <2>2. QED BY <1>0, <2>1, FreePages
  <1>8. CASE UNCHANGED vars
    <2>1. heap' = heap /\ mm_virt_heap' = mm_virt_heap /\ mem' = mem /\ failed' = failed BY <1>8 DEF vars
    <2>2. QED BY <2>1 DEF HeapInv, PageInv
  <1>9. QED BY <1>3, <1>4, <1>6, <1>7, <1>8 DEF HeapNext

LEMMA HeapInvariant == HeapSpec => []HeapInv
  <1>1. HeapInit => HeapInv BY InitBlocks, InitPages DEF HeapInv
  <1>2. HeapInv /\ [HeapNext]_vars => HeapInv' BY NextBlocks, NextPages DEF HeapInv
  <1>3. QED BY <1>1, <1>2, PTL DEF HeapSpec

\* heap_setup.c: as long as no call has failed half way, the pages that are not
\* free are behind entries or hold tables, physical and virtual ones.
THEOREM NoPageLeaks == HeapSpec => []NothingLeaks
  <1>1. HeapInv => NothingLeaks
    <2> SUFFICES ASSUME HeapInv, ~failed
                 PROVE  \E free \in InitialFree :
                          /\ free \ mem.mm = TablePages \cup UNION {Behind(e) : e \in Entries}
                          /\ VPages \ mm_virt_heap = UNION {VRange(e) : e \in Entries}
      BY DEF NothingLeaks
    <2>1. PICK free \in InitialFree :
             Pool(mem, Used(heap)) = free /\ mm_virt_heap \cup Used(heap) = VPages
      BY DEF HeapInv, PageInv, Accounted
    <2>2. UNION {VRange(e) : e \in Entries} = Used(heap) BY DEF Entries, Used
    <2>3. UNION {Behind(e) : e \in Entries} = PagesOf(mem, Used(heap))
      BY <2>2 DEF Behind, PagesOf
    <2>4. TablePages = TablesOf(mem) BY DEF TablePages, TablesOf
    <2>5. TablesOf(mem) \cap mem.mm = {} BY DEF HeapInv, PageInv, Backed, Sound, TablesApart, TablesOf
    <2>6. PagesOf(mem, Used(heap)) \cap mem.mm = {} BY DEF HeapInv, PageInv, Backed, PagesOf, Total
    <2>7. Used(heap) \cap mm_virt_heap = {} BY DEF HeapInv, BlockInv, ListOK, Used
    <2>8. free \ mem.mm = TablePages \cup UNION {Behind(e) : e \in Entries}
      BY <2>1, <2>3, <2>4, <2>5, <2>6 DEF Pool, Total
    <2>9. VPages \ mm_virt_heap = UNION {VRange(e) : e \in Entries} BY <2>1, <2>2, <2>7
    <2>10. QED BY <2>8, <2>9
  <1>2. QED BY <1>1, HeapInvariant, PTL

\* heap_setup.c: the types of the heap, and that the size of a block is never
\* the result of a subtraction below zero or larger than its entry.
THEOREM HeapTypesOK == HeapSpec => []HeapTypeOK
  <1>1. HeapInv => HeapTypeOK
    <2> SUFFICES ASSUME HeapInv PROVE HeapTypeOK OBVIOUS
    <2>1. MemType(mem) /\ failed \in BOOLEAN /\ mm_virt_heap \subseteq VPages /\ live \subseteq Ptr
      BY DEF HeapInv, PageInv, BlockInv, ListOK, Owned, Backed, Sound
    <2>2. ASSUME NEW e \in Entries
          PROVE  /\ e.v \in VPages /\ e.n \in 1..HEAP_PAGES /\ e.virtual \in BOOLEAN
                 /\ DOMAIN e.head \subseteq HEAP_LIST..(End(e) - 1)
                 /\ \A o \in DOMAIN e.head : e.head[o].size \in 0..End(e) /\ e.head[o].free \in BOOLEAN
      <3>1. e \in Entry /\ Tiled(e.head, End(e)) BY DEF HeapInv, BlockInv, ListOK, Entries, EntryOK
      <3>2. /\ e.v \in VPages /\ e.n \in 1..HEAP_PAGES /\ e.virtual \in BOOLEAN
            /\ End(e) \in Nat /\ \A o \in DOMAIN e.head : e.head[o] \in Header
        BY <3>1, EntryFields
      <3>3. ASSUME NEW o \in DOMAIN e.head
            PROVE  e.head[o].size \in 0..End(e) /\ e.head[o].free \in BOOLEAN
        <4>1. e.head[o].size \in Nat /\ e.head[o].free \in BOOLEAN BY <3>2, <3>3 DEF Header
        <4>2. o \in HEAP_LIST..(End(e) - 1) BY <3>1, <3>3 DEF Tiled
        <4>3. o + HEADER + e.head[o].size <= End(e) BY <3>1, <3>2, <3>3, <4>1, <4>2 DEF Tiled, Follows, HEAP_LIST, HEADER
        <4>4. QED BY <3>2, <4>1, <4>2, <4>3 DEF HEADER, HEAP_LIST
      <3>4. QED BY <3>1, <3>2, <3>3 DEF Tiled
    <2>3. \A p \in live : p.v \in VPages /\ p.size \in Sizes /\ p.virtual \in BOOLEAN
      BY <2>1 DEF Ptr
    <2>4. QED BY <2>1, <2>2, <2>3 DEF HeapTypeOK, MemType
  <1>2. QED BY <1>1, HeapInvariant, PTL

\* As many physical pages as virtual ones.
LEMMA BehindAsMany ==
    ASSUME NEW M, NEW v \in VPages, NEW n \in 1..HEAP_PAGES, Backed(M, v..(v + n - 1))
    PROVE  Cardinality(PagesOf(M, v..(v + n - 1))) = n
  <1> DEFINE Y == v..(v + n - 1)
             f == [y \in Y |-> M.pte[y]]
  <1>1. v \in Int /\ n \in Nat /\ n >= 1 BY PagingAssumption DEF VPages
  <1>2. IsFiniteSet(Y) /\ Cardinality(Y) = n
    BY <1>1, FS_Interval
  <1>3. f \in Bijection(Y, PagesOf(M, Y))
    <2>1. \A x, y \in Y : M.pte[x] = M.pte[y] => x = y BY DEF Backed
    <2> HIDE DEF Y
    <2>2. f \in [Y -> PagesOf(M, Y)] BY DEF PagesOf
    <2>3. IsInjective(f) BY <2>1 DEF IsInjective
    <2>4. \A t \in PagesOf(M, Y) : \E s \in Y : f[s] = t BY DEF PagesOf
    <2>5. QED BY <2>2, <2>3, <2>4 DEF Bijection, Injection, Surjection
  <1>4. ExistsBijection(Y, PagesOf(M, Y)) BY <1>3 DEF ExistsBijection
  <1> HIDE DEF Y, f
  <1>5. Cardinality(PagesOf(M, Y)) = n BY <1>2, <1>4, FS_Bijection
  <1>6. QED BY <1>5 DEF Y

\* kmalloc, vmalloc, kfree and vfree: the pages of two entries are apart, and
\* apart from those that are free and from the page tables; no call, on no path,
\* gives a page back that is free already (free_phys_block, free_virt_block).
THEOREM PagesAreApart == HeapSpec => []PagesApart
  <1>1. HeapInv => PagesApart
    <2> SUFFICES ASSUME HeapInv PROVE PagesApart OBVIOUS
    <2>1. ListOK(heap, mm_virt_heap) /\ Backed(mem, Used(heap))
      BY DEF HeapInv, BlockInv, PageInv
    <2>2. TablePages = TablesOf(mem) BY DEF TablePages, TablesOf
    <2>3. \A i \in 1..Len(heap) : VRange(heap[i]) \subseteq Used(heap) BY DEF Used
    <2>4. ASSUME NEW e \in Entries
          PROVE  /\ VRange(e) \subseteq VPages \ mm_virt_heap
                 /\ Behind(e) \subseteq Frames \ (mem.mm \cup TablePages)
                 /\ Cardinality(Behind(e)) = e.n
      <3>1. PICK i \in 1..Len(heap) : e = heap[i] BY DEF Entries
      <3>2. VRange(e) \subseteq VPages \ mm_virt_heap /\ e \in Entry BY <2>1, <3>1 DEF ListOK, EntryOK
      <3>3. VRange(e) \subseteq Used(heap) BY <2>3, <3>1
      <3>4. Backed(mem, VRange(e)) BY <2>1, <3>3, BackedSome
      <3>5. Behind(e) \subseteq Frames \ (mem.mm \cup TablePages)
        BY <2>2, <3>4 DEF Backed, Behind, Total
      <3>6. e.v \in VPages /\ e.n \in 1..HEAP_PAGES BY <3>2, EntryFields
      <3>7. Cardinality(PagesOf(mem, VRange(e))) = e.n BY <3>4, <3>6, BehindAsMany DEF VRange
      <3>8. QED BY <3>2, <3>5, <3>7 DEF PagesOf, Behind
    <2>5. ASSUME NEW i \in 1..Len(heap), NEW j \in 1..Len(heap), i # j
          PROVE  /\ VRange(heap[i]) \cap VRange(heap[j]) = {}
                 /\ Behind(heap[i]) \cap Behind(heap[j]) = {}
      <3>1. VRange(heap[i]) \cap VRange(heap[j]) = {} BY <2>1, <2>5 DEF ListOK
      <3>2. VRange(heap[i]) \subseteq Used(heap) /\ VRange(heap[j]) \subseteq Used(heap) BY <2>3
      <3>3. QED BY <2>1, <3>1, <3>2 DEF Backed, Behind
    <2>6. TablePages \cap mem.mm = {} BY <2>1, <2>2 DEF Backed, Sound, TablesApart, TablesOf
    <2>7. ~mem.warned BY <2>1 DEF Backed
    <2>8. QED BY <2>4, <2>5, <2>6, <2>7 DEF PagesApart
  <1>2. QED BY <1>1, HeapInvariant, PTL

-----------------------------------------------------------------------------
(* The heap is an allocator.  Places in physical memory, M being the memory.  *)

PlaceIn(M, v, o) == M.pte[v + o \div UNITS] * UNITS + (o % UNITS)
BlockIn(M, p) == [k \in 0..(p.size - 1) |-> PlaceIn(M, p.v, p.off + HEADER + k)]

\* A unit of an entry of n pages lies in one of them.
LEMMA UnitInPage ==
    ASSUME NEW n \in Nat, NEW o \in Nat, o < n * UNITS
    PROVE  /\ o \div UNITS \in 0..(n - 1)
           /\ o % UNITS \in 0..(UNITS - 1)
           /\ o = (o \div UNITS) * UNITS + (o % UNITS)
  <1>1. UNITS \in Nat \ {0} BY HeapAssumption DEF HEAP_LIST, HEADER
  <1> DEFINE q == o \div UNITS
             r == o % UNITS
  <1>2. q \in Nat /\ UNITS * q <= o /\ r \in 0..(UNITS - 1) /\ o = UNITS * q + r
    BY <1>1
  <1> HIDE DEF q, r
  <1>3. UNITS * q = q * UNITS /\ q * UNITS \in Nat /\ n * UNITS \in Nat BY <1>1, <1>2
  <1>4. ~(n <= q)
    <2>1. SUFFICES ASSUME n <= q PROVE FALSE OBVIOUS
    <2>2. CASE n = q BY <2>2, <1>1, <1>2, <1>3
    <2>3. CASE n < q
      <3>1. n * UNITS + UNITS <= q * UNITS BY <2>3, <1>1, <1>2, Products
      <3>2. QED BY <3>1, <1>1, <1>2, <1>3
    <2>4. QED BY <2>1, <2>2, <2>3, <1>2
  <1>5. QED BY <1>2, <1>3, <1>4 DEF q, r

\* Places are the same only if page and unit are.
LEMMA SamePlace ==
    ASSUME NEW f \in Nat, NEW g \in Nat, NEW j \in 0..(UNITS - 1), NEW k \in 0..(UNITS - 1),
           f * UNITS + j = g * UNITS + k
    PROVE  f = g /\ j = k
  <1>1. UNITS \in Nat \ {0} BY HeapAssumption DEF HEAP_LIST, HEADER
  <1>2. f * UNITS \in Nat /\ g * UNITS \in Nat BY <1>1
  <1>3. ~(f < g)
    <2>1. SUFFICES ASSUME f < g PROVE FALSE OBVIOUS
    <2>2. f * UNITS + UNITS <= g * UNITS BY <1>1, <2>1, Products
    <2>3. QED BY <1>1, <1>2, <2>2
  <1>4. ~(g < f)
    <2>1. SUFFICES ASSUME g < f PROVE FALSE OBVIOUS
    <2>2. g * UNITS + UNITS <= f * UNITS BY <1>1, <2>1, Products
    <2>3. QED BY <1>1, <1>2, <2>2
  <1>5. f = g BY <1>3, <1>4
  <1>6. QED BY <1>2, <1>5

\* A unit of an entry is in a page of its own, which is neither free nor a table.
LEMMA PlaceFound ==
    ASSUME NEW M, NEW V, NEW H, ListOK(H, V), Backed(M, Used(H)),
           NEW i \in 1..Len(H), NEW o \in Nat, o < End(H[i])
    PROVE  LET x == H[i].v + o \div UNITS
           IN  /\ x \in VRange(H[i]) /\ x \in Used(H)
               /\ M.pte[x] \in Nat /\ M.pte[x] \notin Total(M)
  <1> DEFINE q == o \div UNITS
             x == H[i].v + q
  <1>1. H[i] \in Entry BY DEF ListOK, EntryOK
  <1>2. H[i].v \in Nat /\ H[i].n \in Nat BY <1>1, PagingAssumption DEF Entry, VPages
  <1>3. q \in 0..(H[i].n - 1) BY <1>2, UnitInPage DEF End
  <1> HIDE DEF q
  <1>4. x \in VRange(H[i]) BY <1>2, <1>3 DEF VRange
  <1>5. x \in Used(H) BY <1>4 DEF Used
  <1> HIDE DEF x
  <1>6. M.pte[x] \in Frames \ Total(M) BY <1>5 DEF Backed
  <1>7. M.pte[x] \in Nat BY <1>6, FrameFacts
  <1>8. QED BY <1>4, <1>5, <1>6, <1>7 DEF x, q

\* Two units of the heap are two places.
LEMMA PlacesDiffer ==
    ASSUME NEW M, NEW V, NEW H, ListOK(H, V), Backed(M, Used(H)),
           NEW i \in 1..Len(H), NEW j \in 1..Len(H),
           NEW o \in Nat, o < End(H[i]), NEW x \in Nat, x < End(H[j]),
           PlaceIn(M, H[i].v, o) = PlaceIn(M, H[j].v, x)
    PROVE  i = j /\ o = x
  <1> DEFINE q == o \div UNITS
             r == o % UNITS
             s == x \div UNITS
             t == x % UNITS
             y == H[i].v + q
             z == H[j].v + s
             f == M.pte[y]
             g == M.pte[z]
  <1>1. H[i] \in Entry /\ H[j] \in Entry BY DEF ListOK, EntryOK
  <1>2. /\ H[i].v \in Nat /\ H[i].n \in Nat /\ H[j].v \in Nat /\ H[j].n \in Nat
    BY <1>1, PagingAssumption DEF Entry, VPages
  <1>3. /\ r \in 0..(UNITS - 1) /\ t \in 0..(UNITS - 1) /\ q \in Nat /\ s \in Nat
        /\ o = q * UNITS + r /\ x = s * UNITS + t
    <2>1. o < H[i].n * UNITS /\ x < H[j].n * UNITS BY DEF End
    <2>2. q \in 0..(H[i].n - 1) /\ r \in 0..(UNITS - 1) /\ o = q * UNITS + r
      BY <1>2, <2>1, UnitInPage
    <2>3. s \in 0..(H[j].n - 1) /\ t \in 0..(UNITS - 1) /\ x = s * UNITS + t
      BY <1>2, <2>1, UnitInPage
    <2> HIDE DEF q, r, s, t
    <2>4. QED BY <2>2, <2>3
  <1>4. y \in VRange(H[i]) /\ y \in Used(H) /\ f \in Nat BY PlaceFound
  <1>5. z \in VRange(H[j]) /\ z \in Used(H) /\ g \in Nat BY PlaceFound
  <1>6. f * UNITS + r = g * UNITS + t BY DEF PlaceIn
  <1> HIDE DEF f, g, r, t
  <1>7. f = g /\ r = t BY <1>3, <1>4, <1>5, <1>6, SamePlace
  <1>8. y = z BY <1>4, <1>5, <1>7 DEF Backed, f, g
  <1>9. i = j BY <1>4, <1>5, <1>8 DEF ListOK
  <1> HIDE DEF q, s
  <1>10. q = s BY <1>2, <1>3, <1>8, <1>9
  <1>11. QED BY <1>3, <1>7, <1>9, <1>10

\* The units behind a pointer are in its entry, past the header and before the
\* next one.
LEMMA BlockInEntry ==
    ASSUME NEW e, EntryOK(e), NEW p \in Ptr, Holds(p, e), NEW k \in 0..(p.size - 1)
    PROVE  LET o == p.off + HEADER + k
           IN  /\ o \in Nat /\ o < End(e)
               /\ o \notin DOMAIN e.head /\ o \notin 0..(HEAP_LIST - 1)
               /\ \A x \in DOMAIN e.head : x > p.off => x > o
  <1>1. e \in Entry /\ Tiled(e.head, End(e)) BY DEF EntryOK
  <1>2. End(e) \in Nat /\ DOMAIN e.head \subseteq Nat /\ \A x \in DOMAIN e.head : e.head[x] \in Header
    BY <1>1, EntryFields
  <1>3. p.off \in DOMAIN e.head /\ e.head[p.off].size >= p.size BY DEF Holds, Visible
  <1>4. p.size \in Nat \ {0} /\ k \in Nat /\ k < p.size
    <2>1. p.size \in Nat \ {0} BY HeapAssumption DEF Ptr
    <2>2. QED BY <2>1
  <1>5. p.off \in Nat /\ e.head[p.off].size \in Nat BY <1>2, <1>3 DEF Header
  <1>6. \A x \in DOMAIN e.head : x \in Nat /\ x >= HEAP_LIST /\ x < End(e)
    <2>1. DOMAIN e.head \subseteq HEAP_LIST..(End(e) - 1) BY <1>1 DEF Tiled
    <2>2. QED BY <1>2, <2>1 DEF HEAP_LIST
  <1> DEFINE f == Follows(e.head, p.off)
             o == p.off + HEADER + k
  <1>7. f = p.off + HEADER + e.head[p.off].size BY DEF Follows
  <1>8. f = End(e) \/ f \in DOMAIN e.head BY <1>1, <1>3 DEF Tiled
  <1>9. \A x \in DOMAIN e.head : x > p.off => x >= f BY <1>1, <1>3 DEF Tiled
  <1> HIDE DEF f
  <1>10. o \in Nat /\ o < f /\ o > p.off /\ f \in Nat BY <1>3, <1>4, <1>5, <1>7 DEF HEADER
  <1> HIDE DEF o
  <1>11. o < End(e) BY <1>2, <1>6, <1>8, <1>10
  <1>12. \A x \in DOMAIN e.head : x > p.off => x > o BY <1>6, <1>9, <1>10
  <1>13. o \notin DOMAIN e.head BY <1>10, <1>12
  <1>14. o \notin 0..(HEAP_LIST - 1) BY <1>3, <1>5, <1>6, <1>10 DEF HEAP_LIST
  <1>15. QED BY <1>10, <1>11, <1>12, <1>13, <1>14 DEF o

\* Two callers' units, or two units of one caller, are two places.
LEMMA BlocksDiffer ==
    ASSUME NEW M, NEW V, NEW H, NEW P, ListOK(H, V), Owned(H, P), Backed(M, Used(H)),
           NEW p \in P, NEW q \in P, NEW j \in 0..(p.size - 1), NEW k \in 0..(q.size - 1),
           BlockIn(M, p)[j] = BlockIn(M, q)[k]
    PROVE  p = q /\ j = k
  <1>1. p \in Ptr /\ q \in Ptr BY DEF Owned
  <1>2. PICK i \in 1..Len(H) : Holds(p, H[i]) BY DEF Owned
  <1>3. PICK h \in 1..Len(H) : Holds(q, H[h]) BY DEF Owned
  <1>4. EntryOK(H[i]) /\ EntryOK(H[h]) /\ H[i].v = p.v /\ H[h].v = q.v
    BY <1>2, <1>3 DEF ListOK, Holds
  <1> DEFINE o == p.off + HEADER + j
             x == q.off + HEADER + k
  <1>5. o \in Nat /\ o < End(H[i]) /\ \A y \in DOMAIN H[i].head : y > p.off => y > o
    BY <1>1, <1>2, <1>4, BlockInEntry
  <1>6. x \in Nat /\ x < End(H[h]) /\ \A y \in DOMAIN H[h].head : y > q.off => y > x
    BY <1>1, <1>3, <1>4, BlockInEntry
  <1>7. PlaceIn(M, H[i].v, o) = PlaceIn(M, H[h].v, x)
    BY <1>4 DEF BlockIn
  <1> HIDE DEF o, x
  <1>8. i = h /\ o = x BY <1>5, <1>6, <1>7, PlacesDiffer
  <1>9. p.off \in DOMAIN H[i].head /\ q.off \in DOMAIN H[i].head
    BY <1>2, <1>3, <1>8 DEF Holds, Visible
  <1>10. p.off \in Nat /\ q.off \in Nat /\ p.size \in Nat /\ q.size \in Nat
    BY <1>1, HeapAssumption DEF Ptr
  <1>11. p.off < o /\ q.off < x
    <2>1. j \in Nat /\ k \in Nat BY <1>10
    <2>2. \A a, b \in Nat : a < a + HEADER + b BY DEF HEADER
    <2>3. p.off < o BY <1>10, <2>1, <2>2 DEF o
    <2>4. q.off < x BY <1>10, <2>1, <2>2 DEF x
    <2>5. QED BY <2>3, <2>4
  <1>12. ~(p.off < q.off) /\ ~(q.off < p.off)
    BY <1>5, <1>6, <1>8, <1>9, <1>10, <1>11
  <1>13. p.off = q.off BY <1>10, <1>12
  <1>14. p = q BY <1>4, <1>8, <1>13 DEF Owned
  <1>15. j = k BY <1>8, <1>10, <1>13 DEF o, x, HEADER
  <1>16. QED BY <1>14, <1>15

\* What kmalloc gave out lies in one piece.
LEMMA BlockInRow ==
    ASSUME NEW M, NEW V, NEW H, ListOK(H, V), Backed(M, Used(H)), Contiguous(M, H),
           NEW p \in Ptr, NEW i \in 1..Len(H), Holds(p, H[i]), ~p.virtual,
           NEW k \in 0..(p.size - 1)
    PROVE  BlockIn(M, p)[k] = BlockIn(M, p)[0] + k
  <1> DEFINE g == M.pte[p.v]
  <1>1. EntryOK(H[i]) /\ H[i] \in Entry /\ H[i].v = p.v /\ ~H[i].virtual
    BY DEF ListOK, EntryOK, Holds
  <1>2. p.size \in Nat \ {0} /\ p.off \in Nat /\ p.v \in Nat /\ H[i].n \in Nat \ {0} /\ UNITS \in Nat \ {0}
    <2>1. p.size \in Nat \ {0} /\ p.off \in Nat BY HeapAssumption DEF Ptr
    <2>2. p.v \in Nat /\ H[i].n \in Nat \ {0} BY <1>1, PagingAssumption DEF Entry, VPages
    <2>3. QED BY <2>1, <2>2, HeapAssumption DEF HEAP_LIST, HEADER
  <1>3. g \in Nat
    <2>1. p.v \in VRange(H[i]) BY <1>1, <1>2 DEF VRange
    <2>2. p.v \in Used(H) BY <2>1 DEF Used
    <2>3. g \in Frames BY <2>2 DEF Backed
    <2>4. QED BY <2>3, FrameFacts
  <1>4. ASSUME NEW j \in 0..(p.size - 1)
        PROVE  BlockIn(M, p)[j] = g * UNITS + (p.off + HEADER + j)
    <2> DEFINE o == p.off + HEADER + j
               q == o \div UNITS
               r == o % UNITS
    <2>1. o \in Nat /\ o < End(H[i]) BY <1>1, BlockInEntry
    <2>2. BlockIn(M, p)[j] = M.pte[p.v + q] * UNITS + r BY DEF BlockIn, PlaceIn
    <2> HIDE DEF o
    <2>3. q \in 0..(H[i].n - 1) /\ r \in Nat /\ o = q * UNITS + r
      <3>1. o < H[i].n * UNITS BY <2>1 DEF End
      <3>2. q \in 0..(H[i].n - 1) /\ r \in 0..(UNITS - 1) /\ o = q * UNITS + r
        BY <1>2, <2>1, <3>1, UnitInPage
      <3>3. QED BY <3>2, <1>2
    <2> HIDE DEF q, r
    <2>4. M.pte[p.v + q] = g + q BY <1>1, <2>3 DEF Contiguous
    <2>5. (g + q) * UNITS = g * UNITS + q * UNITS BY <1>2, <1>3, <2>3
    <2>6. g * UNITS \in Nat /\ q * UNITS \in Nat
      <3>1. q \in Nat BY <1>2, <2>3
      <3>2. QED BY <1>2, <1>3, <3>1
    <2>7. BlockIn(M, p)[j] = g * UNITS + o BY <2>2, <2>3, <2>4, <2>5, <2>6
    <2>8. QED BY <2>7 DEF o
  <1>5. 0 \in 0..(p.size - 1) BY <1>2
  <1> HIDE DEF g
  <1>6. BlockIn(M, p)[0] = g * UNITS + (p.off + HEADER + 0) BY <1>4, <1>5
  <1>7. g * UNITS \in Nat BY <1>2, <1>3
  <1>8. BlockIn(M, p)[k] = g * UNITS + (p.off + HEADER + k) BY <1>4
  <1>9. QED BY <1>2, <1>6, <1>7, <1>8 DEF HEADER

\* The places the kernel writes to, M and H being the memory and the list.
HeadersIn(M, e) == {PlaceIn(M, e.v, o) : o \in 0..(HEAP_LIST - 1) \cup DOMAIN e.head}
KernelIn(M, H) ==
    {f * UNITS + k : f \in Total(M), k \in 0..(UNITS - 1)}
        \cup UNION {HeadersIn(M, H[i]) : i \in 1..Len(H)}

\* They are not the callers'.
LEMMA KernelElsewhere ==
    ASSUME NEW M, NEW V, NEW H, NEW P, ListOK(H, V), Owned(H, P), Backed(M, Used(H)),
           NEW p \in P, NEW k \in 0..(p.size - 1)
    PROVE  BlockIn(M, p)[k] \notin KernelIn(M, H)
  <1>1. p \in Ptr BY DEF Owned
  <1>2. PICK i \in 1..Len(H) : Holds(p, H[i]) BY DEF Owned
  <1>3. EntryOK(H[i]) /\ H[i].v = p.v BY <1>2 DEF ListOK, Holds
  <1> DEFINE o == p.off + HEADER + k
  <1>4. o \in Nat /\ o < End(H[i]) /\ o \notin DOMAIN H[i].head /\ o \notin 0..(HEAP_LIST - 1)
    BY <1>1, <1>2, <1>3, BlockInEntry
  <1>5. BlockIn(M, p)[k] = PlaceIn(M, H[i].v, o) BY <1>3 DEF BlockIn
  <1> HIDE DEF o
  <1>6. ASSUME NEW f \in Total(M), NEW j \in 0..(UNITS - 1), PlaceIn(M, H[i].v, o) = f * UNITS + j
        PROVE  FALSE
    <2> DEFINE x == H[i].v + o \div UNITS
               g == M.pte[x]
               r == o % UNITS
    <2>1. x \in Used(H) /\ g \in Nat /\ g \notin Total(M) BY <1>4, PlaceFound
    <2>2. PlaceIn(M, H[i].v, o) = g * UNITS + r BY DEF PlaceIn
    <2>3. r \in 0..(UNITS - 1)
      <3>1. UNITS \in Nat \ {0} BY HeapAssumption DEF HEAP_LIST, HEADER
      <3>2. QED BY <1>4, <3>1
    <2>4. f \in Nat
      <3>1. Total(M) \subseteq Frames BY DEF Backed, Sound, MemType, Total, TablesOf
      <3>2. QED BY <3>1, FrameFacts
    <2> HIDE DEF g, r
    <2>5. f = g BY <1>6, <2>1, <2>2, <2>3, <2>4, SamePlace
    <2>6. QED BY <2>1, <2>5
  <1>7. ASSUME NEW j \in 1..Len(H), NEW x \in 0..(HEAP_LIST - 1) \cup DOMAIN H[j].head,
               PlaceIn(M, H[i].v, o) = PlaceIn(M, H[j].v, x)
        PROVE  FALSE
    <2>1. H[j] \in Entry /\ Tiled(H[j].head, End(H[j])) BY DEF ListOK, EntryOK
    <2>2. End(H[j]) \in Nat /\ End(H[j]) > HEAP_LIST + HEADER BY <2>1, EntryFields
    <2>3. DOMAIN H[j].head \subseteq HEAP_LIST..(End(H[j]) - 1) BY <2>1 DEF Tiled
    <2>4. x \in Nat /\ x < End(H[j]) BY <1>7, <2>2, <2>3 DEF HEAP_LIST, HEADER
    <2>5. i = j /\ o = x
      <3>1. PlaceIn(M, H[i].v, o) = PlaceIn(M, H[j].v, x) BY <1>7
      <3>2. o \in Nat /\ o < End(H[i]) BY <1>4
      <3>3. QED BY <2>4, <3>1, <3>2, PlacesDiffer
    <2>6. QED BY <1>4, <1>7, <2>5
  <1>8. ASSUME NEW j \in 1..Len(H) PROVE PlaceIn(M, H[i].v, o) \notin HeadersIn(M, H[j])
    BY <1>7 DEF HeadersIn
  <1>9. PlaceIn(M, H[i].v, o) \notin {f * UNITS + j : f \in Total(M), j \in 0..(UNITS - 1)}
    BY <1>6
  <1>10. PlaceIn(M, H[i].v, o) \notin KernelIn(M, H) BY <1>8, <1>9 DEF KernelIn
  <1>11. QED BY <1>5, <1>10

\* In the variables of Heap.
PlacesAre ==
    /\ \A p : Block(p) = BlockIn(mem, p)
    /\ KernelPlaces = KernelIn(mem, heap)

LEMMA PlacesNow == PlacesAre
  <1>1. \A v, o : Place(v, o) = PlaceIn(mem, v, o) BY DEF Place, PlaceIn
  <1>2. \A p : Block(p) = BlockIn(mem, p)
    <2>1. TAKE p
    <2>2. QED BY <1>1, Zenon DEF Block, BlockIn
  <1>3. mem.mm \cup TablePages = Total(mem) BY DEF TablePages, Total, TablesOf
  <1>4. \A e : HeaderPlaces(e) = HeadersIn(mem, e) BY <1>1 DEF HeaderPlaces, HeadersIn
  <1>5. UNION {HeaderPlaces(e) : e \in Entries} = UNION {HeadersIn(mem, heap[i]) : i \in 1..Len(heap)}
    BY <1>4 DEF Entries
  <1>6. KernelPlaces = KernelIn(mem, heap) BY <1>3, <1>5 DEF KernelPlaces, KernelIn
  <1>7. QED BY <1>2, <1>6 DEF PlacesAre

\* No call of anybody touches the pages behind the entries there are.
PagesStay == \A x \in Used(heap) : mem'.pte[x] = mem.pte[x]

\* What a call may do to the pointers in use.
LiveStep ==
    \/ live' = live
    \/ \E p \in live : live' = live \ {p}
    \/ \E a \in Sizes, p \in Ptr : p \notin live /\ p.size = a /\ live' = live \cup {p}

\* The pointer for a request is a new one.
LEMMA NewPointer ==
    ASSUME NEW H, NEW V, NEW P, ListOK(H, V), Owned(H, P), NEW a \in Sizes,
           NEW i \in 1..Len(H), Fitting(H[i], a) # {},
           NEW p, p = Pointer(H[i], Min(Fitting(H[i], a)), a)
    PROVE  p \in Ptr /\ p \notin P /\ p.size = a
  <1> DEFINE e == H[i]
             o == Min(Fitting(e, a))
  <1>1. EntryOK(e) /\ e \in Entry BY DEF ListOK, EntryOK
  <1>2. a \in Nat \ {0} BY HeapAssumption
  <1>3. o \in Visible(e) /\ e.head[o].free BY <1>1, <1>2, Allocates
  <1> HIDE DEF o
  <1>4. p.v = e.v /\ p.off = o /\ p.size = a /\ p.virtual = e.virtual BY DEF Pointer, o
  <1>5. p \in Ptr
    <2>1. o \in Nat BY <1>1, <1>3, EntryFields DEF Visible
    <2>2. e.v \in VPages /\ e.virtual \in BOOLEAN BY <1>1, EntryFields
    <2>3. QED BY <2>1, <2>2 DEF Ptr, Pointer, o
  <1>6. ASSUME p \in P PROVE FALSE
    <2>1. PICK j \in 1..Len(H) : Holds(p, H[j]) BY <1>6 DEF Owned
    <2>2. j = i BY <1>4, <2>1, FirstPage DEF Holds
    <2>3. QED BY <1>3, <1>4, <2>1, <2>2 DEF Holds
  <1>7. QED BY <1>4, <1>5, <1>6

\* kmalloc and vmalloc, from an entry there is.
LEMMA ReuseStays ==
    ASSUME HeapInv, NEW a \in Sizes, NEW virtual \in BOOLEAN, malloc_reuse(a, virtual)
    PROVE  PagesStay /\ LiveStep
  <1> DEFINE i == Min(Candidates(a, virtual))
             p == Pointer(heap[i], Min(Fitting(heap[i], a)), a)
  <1>0. BlockInv BY DEF HeapInv
  <1>1. i \in 1..Len(heap) /\ Fitting(heap[i], a) # {}
    <2>1. Candidates(a, virtual) \subseteq Nat /\ Candidates(a, virtual) # {}
      <3>1. Len(heap) \in Nat BY <1>0 DEF BlockInv, ListOK
      <3>2. QED BY <3>1 DEF Candidates, malloc_reuse
    <2>2. i \in Candidates(a, virtual) BY <2>1, MinNat
    <2> HIDE DEF i
    <2>3. QED BY <2>2 DEF Candidates
  <1>2. Serve(Now, i, a) BY DEF malloc_reuse
  <1>3. Now.M = mem /\ Now.H = heap BY DEF Now
  <1> HIDE DEF i
  <1>4. mem' = mem /\ live' = live \cup {p} BY <1>2, <1>3 DEF Serve
  <1>5. p \in Ptr /\ p \notin live /\ p.size = a
    <2>1. ListOK(heap, mm_virt_heap) /\ Owned(heap, live) BY <1>0 DEF BlockInv
    <2>2. p = Pointer(heap[i], Min(Fitting(heap[i], a)), a) OBVIOUS
    <2>3. Fitting(heap[i], a) # {} BY <1>1
    <2> HIDE DEF p
    <2>4. QED BY <1>1, <2>1, <2>2, <2>3, NewPointer
  <1> HIDE DEF p
  <1>6. QED BY <1>4, <1>5 DEF PagesStay, LiveStep

\* The list with a new entry is as good as before.
LEMMA GrownList ==
    ASSUME BlockInv, NEW virtual \in BOOLEAN, NEW S,
           Grown(S, mm_virt_heap, heap, virtual), S.H # heap
    PROVE  ListOK(S.H, S.V) /\ Owned(S.H, live) /\ 1 \in 1..Len(S.H)
  <1>1. PICK v \in VPages, n \in 1..HEAP_PAGES :
           /\ v..(v + n - 1) \subseteq mm_virt_heap
           /\ S.V = mm_virt_heap \ (v..(v + n - 1))
           /\ S.H = <<init_new_allocated_block(v, n, virtual)>> \o heap
    BY DEF Grown
  <1>2. ListOK(S.H, S.V) /\ Owned(S.H, live) /\ Len(S.H) = Len(heap) + 1
    BY <1>1, AddsEntry DEF BlockInv
  <1>3. Len(heap) \in Nat BY DEF BlockInv, ListOK
  <1>4. QED BY <1>2, <1>3

\* kmalloc and vmalloc, with a new entry or none.
LEMMA GrowStays ==
    ASSUME HeapInv, NEW a \in Sizes, NEW virtual \in BOOLEAN, NEW S,
           Grown(S, mm_virt_heap, heap, virtual), SameEntries(mem, S.M, Used(heap)),
           malloc_grow(a, virtual, S)
    PROVE  PagesStay /\ LiveStep
  <1>0. BlockInv BY DEF HeapInv
  <1>1. CASE S.H # heap /\ Fitting(S.H[1], a) # {}
    <2>1. Serve(S, 1, a) BY <1>1 DEF malloc_grow
    <2>2. ListOK(S.H, S.V) /\ Owned(S.H, live) /\ 1 \in 1..Len(S.H) BY <1>0, <1>1, GrownList
    <2> DEFINE G == S.H
               W == S.V
               p == Pointer(G[1], Min(Fitting(G[1], a)), a)
    <2>3. mem' = S.M /\ live' = live \cup {p} BY <2>1 DEF Serve
    <2>4. 1 \in 1..Len(G) /\ ListOK(G, W) /\ Owned(G, live) BY <2>2
    <2>5. p = Pointer(G[1], Min(Fitting(G[1], a)), a) /\ Fitting(G[1], a) # {} BY <1>1
    <2> HIDE DEF p, G, W
    <2>6. p \in Ptr /\ p \notin live /\ p.size = a BY <2>4, <2>5, NewPointer
    <2>7. QED BY <2>3, <2>6 DEF PagesStay, LiveStep, SameEntries
  <1>2. CASE ~(S.H # heap /\ Fitting(S.H[1], a) # {})
    <2>1. mem' = S.M /\ live' = live BY <1>2 DEF malloc_grow
    <2>2. QED BY <2>1 DEF PagesStay, LiveStep, SameEntries
  <1>3. QED BY <1>1, <1>2

\* kfree and vfree.
LEMMA FreeStays ==
    ASSUME HeapInv, NEW p \in live, NEW virtual \in BOOLEAN, p.virtual = virtual, free_ptr(p, virtual)
    PROVE  PagesStay /\ LiveStep
  <1>0. BlockInv /\ PageInv /\ ListOK(heap, mm_virt_heap) BY DEF HeapInv, BlockInv
  <1>1. PICK i \in 1..Len(heap) :
          /\ heap[i].v = p.v /\ p.off \in Visible(heap[i])
          /\ LET e  == Merged([heap[i] EXCEPT !.head[p.off].free = TRUE])
                 S1 == [Now EXCEPT !.H = RemoveAt(@, i)]
                 S  == IF ~Unused(e) THEN [Now EXCEPT !.H[i] = e]
                       ELSE IF virtual THEN vdefrag_release(S1, e) ELSE kdefrag_release(S1, e)
             IN  mem' = S.M /\ mm_virt_heap' = S.V /\ heap' = S.H
          /\ live' = live \ {p}
    BY DEF free_ptr
  <1> DEFINE e == Freed(heap[i], p.off)
             S == AfterFree(i, e, virtual)
             Y == VRange(heap[i])
             N == GoneFrom(mem, heap[i], virtual)
             c == mm_virt_heap \cap Y
  <1>2. mem' = S.M BY <1>1 DEF Freed, AfterFree
  <1>3. /\ ~Unused(e) => S = Mem(mem, mm_virt_heap, [heap EXCEPT ![i] = e])
        /\ Unused(e) => S = Mem(Warned(N, c), mm_virt_heap \cup Y, RemoveAt(heap, i))
    <2>1. e = Freed(heap[i], p.off) /\ p.off \in Visible(heap[i]) BY <1>1
    <2> HIDE DEF e
    <2>2. S = AfterFree(i, e, virtual) OBVIOUS
    <2> HIDE DEF S
    <2>3. FreeResult(S, e, i, virtual) BY <1>0, <2>1, <2>2, FreeIs
    <2> HIDE DEF N, Y
    <2>4. QED BY <2>3 DEF FreeResult, N, Y
  <1> HIDE DEF S, e
  <1>4. CASE ~Unused(e)
    <2> DEFINE G == [heap EXCEPT ![i] = e]
    <2> HIDE DEF G
    <2>1. S = Mem(mem, mm_virt_heap, G) BY <1>3, <1>4 DEF G
    <2>2. mem' = mem BY <1>2, <2>1, MemFields
    <2>3. QED BY <1>1, <2>2 DEF PagesStay, LiveStep
  <1>5. CASE Unused(e)
    <2>1. heap[i].virtual = virtual
      <3>1. PICK j \in 1..Len(heap) : Holds(p, heap[j]) BY <1>0 DEF BlockInv, Owned
      <3>2. j = i BY <1>0, <1>1, <3>1, FirstPage DEF Holds
      <3>3. QED BY <3>1, <3>2 DEF Holds
    <2> DEFINE X == Used(heap) \ Y
    <2>2. FreedAll(N, mem, X, heap[i].v, heap[i].n)
      BY <1>0, <2>1, Releases DEF PageInv
    <2> HIDE DEF N, X, c
    <2>3. N.pte = mem.pte BY <2>2 DEF FreedAll
    <2> DEFINE U == mm_virt_heap \cup Y
               R == RemoveAt(heap, i)
               K == Warned(N, c)
    <2>4. S = Mem(K, U, R) BY <1>3, <1>5
    <2>5. K.pte = N.pte BY DEF Warned
    <2> HIDE DEF U, R, K
    <2>6. mem' = K BY <1>2, <2>4, MemFields
    <2>7. QED BY <1>1, <2>3, <2>5, <2>6 DEF PagesStay, LiveStep
  <1>6. QED BY <1>4, <1>5

\* No call moves, unmaps or hands out twice what is behind an entry.
LEMMA StepStays == HeapInv /\ [HeapNext]_vars => PagesStay /\ LiveStep
  <1> SUFFICES ASSUME HeapInv, [HeapNext]_vars PROVE PagesStay /\ LiveStep OBVIOUS
  <1>0. TRUE \in BOOLEAN /\ FALSE \in BOOLEAN OBVIOUS
  <1>1. Backed(mem, Used(heap)) /\ mm_virt_heap \subseteq VPages \ Used(heap)
    <2>1. \A i \in 1..Len(heap) : VRange(heap[i]) \subseteq VPages \ mm_virt_heap
          BY DEF HeapInv, BlockInv, ListOK
    <2>2. mm_virt_heap \subseteq VPages /\ mm_virt_heap \cap Used(heap) = {}
      BY <2>1 DEF HeapInv, BlockInv, ListOK, Used
    <2>3. QED BY <2>2 DEF HeapInv, PageInv
  <1>2. \A fill \in Fills : fill \in [Frames -> {NULL, JUNK}] BY DEF Fills
  <1>3. ASSUME NEW a \in Sizes, kmalloc(a) PROVE PagesStay /\ LiveStep
    <2>1. CASE malloc_reuse(a, FALSE) BY <2>1, <1>0, ReuseStays
    <2>2. CASE \E fill \in Fills : malloc_grow(a, FALSE, kmalloc_entry(Now, a, fill))
      <3>1. PICK fill \in Fills : malloc_grow(a, FALSE, kmalloc_entry(Now, a, fill)) BY <2>2
      <3> DEFINE S == kmalloc_entry(Now, a, fill)
      <3>2. a \in Nat \ {0} BY HeapAssumption
      <3>3. Grown(S, mm_virt_heap, heap, FALSE) BY <3>2, NowIs, KmallocGrows
      <3>4. PagesGrown(S, mem, mm_virt_heap, Used(heap), heap, FALSE)
        BY <1>1, <1>2, <3>2, NowIs, KmallocPages
      <3> HIDE DEF S
      <3>5. SameEntries(mem, S.M, Used(heap)) BY <3>4 DEF PagesGrown
      <3>6. QED BY <3>1, <3>3, <3>5, <1>0, GrowStays DEF S
    <2>3. QED BY <1>3, <2>1, <2>2 DEF kmalloc
  <1>4. ASSUME NEW a \in Sizes, vmalloc(a) PROVE PagesStay /\ LiveStep
    <2>1. CASE malloc_reuse(a, TRUE) BY <2>1, <1>0, ReuseStays
    <2>2. CASE \E fill \in Fills : malloc_grow(a, TRUE, vmalloc_entry(Now, a, fill))
      <3>1. PICK fill \in Fills : malloc_grow(a, TRUE, vmalloc_entry(Now, a, fill)) BY <2>2
      <3> DEFINE S == vmalloc_entry(Now, a, fill)
      <3>2. a \in Nat \ {0} BY HeapAssumption
      <3>3. Grown(S, mm_virt_heap, heap, TRUE) BY <3>2, NowIs, VmallocGrows
      <3>4. PagesGrown(S, mem, mm_virt_heap, Used(heap), heap, TRUE)
        BY <1>1, <1>2, <3>2, NowIs, VmallocPages
      <3> HIDE DEF S
      <3>5. SameEntries(mem, S.M, Used(heap)) BY <3>4 DEF PagesGrown
      <3>6. QED BY <3>1, <3>3, <3>5, <1>0, GrowStays DEF S
    <2>3. QED BY <1>4, <2>1, <2>2 DEF vmalloc
  <1>5. live \subseteq Ptr BY DEF HeapInv, BlockInv, Owned
  <1>6. ASSUME NEW p \in live, kfree(p) PROVE PagesStay /\ LiveStep
    <2>1. free_ptr(p, FALSE) /\ p.virtual = FALSE BY <1>5, <1>6 DEF kfree, Ptr
    <2>2. QED BY <1>0, <2>1, FreeStays
  <1>7. ASSUME NEW p \in live, vfree(p) PROVE PagesStay /\ LiveStep
    <2>1. free_ptr(p, TRUE) /\ p.virtual = TRUE BY <1>5, <1>7 DEF vfree, Ptr
    <2>2. QED BY <1>0, <2>1, FreeStays
  <1>8. CASE UNCHANGED vars
    BY <1>8 DEF vars, PagesStay, LiveStep
  <1>9. QED BY <1>3, <1>4, <1>6, <1>7, <1>8 DEF HeapNext

\* A block is where it was as long as its caller holds it.
LEMMA BlockStays ==
    ASSUME HeapInv, PagesStay, NEW p \in live
    PROVE  BlockIn(mem', p) = BlockIn(mem, p)
  <1>1. ListOK(heap, mm_virt_heap) /\ Owned(heap, live) /\ Backed(mem, Used(heap))
    BY DEF HeapInv, BlockInv, PageInv
  <1>2. p \in Ptr BY <1>1 DEF Owned
  <1>3. PICK i \in 1..Len(heap) : Holds(p, heap[i]) BY <1>1 DEF Owned
  <1>4. EntryOK(heap[i]) /\ heap[i].v = p.v BY <1>1, <1>3 DEF ListOK, Holds
  <1>5. ASSUME NEW k \in 0..(p.size - 1)
        PROVE  PlaceIn(mem', p.v, p.off + HEADER + k) = PlaceIn(mem, p.v, p.off + HEADER + k)
    <2> DEFINE o == p.off + HEADER + k
    <2>1. o \in Nat /\ o < End(heap[i]) BY <1>2, <1>3, <1>4, BlockInEntry
    <2> HIDE DEF o
    <2>2. heap[i].v + o \div UNITS \in Used(heap) BY <1>1, <2>1, PlaceFound
    <2>3. mem'.pte[p.v + o \div UNITS] = mem.pte[p.v + o \div UNITS]
      BY <1>4, <2>2 DEF PagesStay
    <2>4. PlaceIn(mem', p.v, o) = PlaceIn(mem, p.v, o) BY <2>3 DEF PlaceIn
    <2>5. QED BY <2>4 DEF o
  <1>6. QED BY <1>5, Zenon DEF BlockIn

\* The state of the allocator, field by field.
LEMMA HeldIs ==
    /\ DOMAIN Held = live /\ DOMAIN Held' = live'
    /\ \A p \in live : Held[p] = BlockIn(mem, p)
    /\ \A p \in live' : Held'[p] = BlockIn(mem', p)
    /\ KernelPlaces' = KernelIn(mem', heap')
  <1>1. DOMAIN Held = live /\ \A p \in live : Held[p] = BlockIn(mem, p)
    BY PlacesNow DEF Held, PlacesAre
  <1>2. PlacesAre' BY PlacesNow, PTL
  <1>3. \A p : Block(p)' = BlockIn(mem', p) BY <1>2 DEF PlacesAre
  <1>4. DOMAIN Held' = live' /\ \A p \in live' : Held'[p] = BlockIn(mem', p)
    BY <1>3 DEF Held
  <1>5. KernelPlaces' = KernelIn(mem', heap') BY <1>2 DEF PlacesAre
  <1>6. QED BY <1>1, <1>4, <1>5

\* The facts of the invariant, before and after a step.
LEMMA InvFacts == HeapInv => ListOK(heap, mm_virt_heap) /\ Owned(heap, live)
                             /\ Backed(mem, Used(heap)) /\ Contiguous(mem, heap)
  BY DEF HeapInv, BlockInv, PageInv

\* Whatever has been done, nobody else writes to a block.
LEMMA HeldApart ==
    ASSUME HeapInv'
    PROVE  Promise!HeldPlaces' \cap KernelPlaces' = {}
  <1> DEFINE t == Held'
             K == KernelPlaces'
  <1>1. ListOK(heap', mm_virt_heap') /\ Owned(heap', live') /\ Backed(mem', Used(heap'))
    <2>1. (ListOK(heap, mm_virt_heap) /\ Owned(heap, live)
            /\ Backed(mem, Used(heap)) /\ Contiguous(mem, heap))'
      BY InvFacts, PTL
    <2>2. Used(heap)' = Used(heap') BY DEF Used, VRange
    <2>3. QED BY <2>1, <2>2
  <1>2. DOMAIN t = live' /\ K = KernelIn(mem', heap')
        /\ \A p \in live' : t[p] = BlockIn(mem', p)
    BY HeldIs
  <1> HIDE DEF t, K
  <1>3. ASSUME NEW p \in DOMAIN t, NEW k \in DOMAIN t[p] PROVE t[p][k] \notin K
    <2>1. p \in live' /\ t[p] = BlockIn(mem', p) BY <1>2
    <2>2. k \in 0..(p.size - 1) BY <2>1 DEF BlockIn
    <2>3. BlockIn(mem', p)[k] \notin KernelIn(mem', heap') BY <1>1, <2>1, <2>2, KernelElsewhere
    <2>4. QED BY <1>2, <2>1, <2>3
  <1> DEFINE Z == UNION {{t[p][k] : k \in DOMAIN t[p]} : p \in DOMAIN t}
  <1>4. Z \cap K = {} BY <1>3
  <1>5. Promise!HeldPlaces' = Z BY Zenon DEF Promise!HeldPlaces, Promise!PlacesOf, t
  <1> HIDE DEF Z
  <1>6. QED BY <1>4, <1>5 DEF K

\* A request that is met: the block is new, in order and nobody else's.
LEMMA HeapAllocs ==
    ASSUME HeapInv, HeapInv', PagesStay, Promise!Stay, NEW a \in Sizes, NEW p \in Ptr,
           p \notin live, p.size = a, live' = live \cup {p}
    PROVE  Promise!Alloc(a)
  <1> DEFINE s == Held
             t == Held'
  <1>1. ListOK(heap', mm_virt_heap') /\ Owned(heap', live') /\ Backed(mem', Used(heap'))
        /\ Contiguous(mem', heap')
    <2>1. (ListOK(heap, mm_virt_heap) /\ Owned(heap, live)
            /\ Backed(mem, Used(heap)) /\ Contiguous(mem, heap))'
      BY InvFacts, PTL
    <2>2. Used(heap)' = Used(heap') BY DEF Used, VRange
    <2>3. QED BY <2>1, <2>2
  <1>2. DOMAIN s = live /\ DOMAIN t = live' /\ \A q \in live' : t[q] = BlockIn(mem', q)
    BY HeldIs
  <1>3. \A q \in live : s[q] = BlockIn(mem', q) BY HeldIs, BlockStays
  <1> HIDE DEF s, t
  <1> DEFINE b == BlockIn(mem', p)
  <1>4. p \in DOMAIN t \ DOMAIN s /\ DOMAIN t = DOMAIN s \cup {p} /\ t[p] = b BY <1>2
  <1>5. DOMAIN b = 0..(a - 1) BY DEF BlockIn
  <1>6. \A j, k \in 0..(a - 1) : j # k => b[j] # b[k]
    <2> SUFFICES ASSUME NEW j \in 0..(a - 1), NEW k \in 0..(a - 1), b[j] = b[k] PROVE j = k
      OBVIOUS
    <2>1. p \in live' OBVIOUS
    <2>2. QED BY <1>1, <2>1, BlocksDiffer
  <1>7. ASSUME NEW q \in DOMAIN s, NEW j \in 0..(a - 1), NEW k \in DOMAIN s[q] PROVE b[j] # s[q][k]
    <2>1. q \in live' /\ p \in live' /\ q # p /\ s[q] = BlockIn(mem', q) BY <1>2, <1>3
    <2>2. k \in 0..(q.size - 1) /\ j \in 0..(p.size - 1) BY <1>7, <2>1 DEF BlockIn
    <2>3. SUFFICES ASSUME BlockIn(mem', p)[j] = BlockIn(mem', q)[k] PROVE FALSE BY <2>1
    <2>4. p = q BY <1>1, <2>1, <2>2, <2>3, BlocksDiffer
    <2>5. QED BY <2>1, <2>4
  <1>8. ~p.virtual => \A k \in 0..(a - 1) : b[k] = b[0] + k
    <2> SUFFICES ASSUME ~p.virtual, NEW k \in 0..(a - 1) PROVE b[k] = b[0] + k OBVIOUS
    <2>1. PICK i \in 1..Len(heap') : Holds(p, heap'[i]) BY <1>1 DEF Owned
    <2>2. k \in 0..(p.size - 1) OBVIOUS
    <2>3. QED BY <1>1, <2>1, <2>2, BlockInRow
  <1> HIDE DEF b
  <1> DEFINE Z == UNION {{s[q][k] : k \in DOMAIN s[q]} : q \in DOMAIN s}
             B == {t[p][k] : k \in DOMAIN t[p]}
  <1>9. B \cap Z = {} BY <1>4, <1>5, <1>7
  <1>10. Promise!HeldPlaces = Z BY Zenon DEF Promise!HeldPlaces, Promise!PlacesOf, s
  <1>11. Promise!PlacesOf(t[p]) = B BY DEF Promise!PlacesOf
  <1> HIDE DEF Z, B
  <1>12. \E q \in DOMAIN t \ DOMAIN s :
            /\ DOMAIN t = DOMAIN s \cup {q}
            /\ DOMAIN t[q] = 0..(a - 1)
            /\ \A j, k \in 0..(a - 1) : j # k => t[q][j] # t[q][k]
            /\ Promise!PlacesOf(t[q]) \cap Promise!HeldPlaces = {}
            /\ ~q.virtual => \A k \in 0..(a - 1) : t[q][k] = t[q][0] + k
    <2>1. Promise!PlacesOf(t[p]) \cap Promise!HeldPlaces = {} BY <1>9, <1>10, <1>11
    <2>2. \A j, k \in 0..(a - 1) : j # k => t[p][j] # t[p][k] BY <1>4, <1>6
    <2>3. ~p.virtual => \A k \in 0..(a - 1) : t[p][k] = t[p][0] + k BY <1>4, <1>8
    <2>4. DOMAIN t[p] = 0..(a - 1) BY <1>4, <1>5
    <2>5. QED BY <1>4, <2>1, <2>2, <2>3, <2>4, Zenon
  <1>13. QED BY <1>12, Zenon DEF Promise!Alloc, s, t

\* Every step of the heap is a step of the allocator.
LEMMA StepPromise == HeapInv /\ HeapInv' /\ [HeapNext]_vars => Promise!Next
  <1> SUFFICES ASSUME HeapInv, HeapInv', [HeapNext]_vars PROVE Promise!Next OBVIOUS
  <1>1. PagesStay /\ LiveStep BY StepStays
  <1> DEFINE s == Held
             t == Held'
  <1>2. DOMAIN s = live /\ DOMAIN t = live' BY HeldIs
  <1>3. \A p \in live \cap live' : t[p] = s[p] BY <1>1, HeldIs, BlockStays
  <1> HIDE DEF s, t
  <1>4. \A p \in DOMAIN s \cap DOMAIN t : t[p] = s[p] BY <1>2, <1>3
  <1>5. Promise!Stay BY <1>4, Zenon DEF Promise!Stay, s, t
  <1>6. Promise!HeldPlaces' \cap KernelPlaces' = {} BY HeldApart
  <1>7. (\E a \in Sizes : Promise!Alloc(a)) \/ Promise!Free \/ Promise!Fail
    <2>1. CASE live' = live
      <3>1. DOMAIN t = DOMAIN s BY <1>2, <2>1
      <3>2. Promise!Fail BY <1>5, <3>1, Zenon DEF Promise!Fail, s, t
      <3>3. QED BY <3>2
    <2>2. CASE \E p \in live : live' = live \ {p}
      <3>1. \E p \in DOMAIN s : DOMAIN t = DOMAIN s \ {p} BY <1>2, <2>2
      <3>2. Promise!Free BY <1>5, <3>1, Zenon DEF Promise!Free, s, t
      <3>3. QED BY <3>2
    <2>3. CASE \E a \in Sizes, p \in Ptr : p \notin live /\ p.size = a /\ live' = live \cup {p}
      <3>1. PICK a \in Sizes, p \in Ptr : p \notin live /\ p.size = a /\ live' = live \cup {p} BY <2>3
      <3>2. Promise!Alloc(a) BY <1>1, <1>5, <3>1, HeapAllocs
      <3>3. QED BY <3>2
    <2>4. QED BY <1>1, <2>1, <2>2, <2>3 DEF LiveStep
  <1>8. QED BY <1>6, <1>7, Zenon DEF Promise!Next

LEMMA InitPromise == HeapInit => Promise!Init
  <1> SUFFICES ASSUME HeapInit PROVE Promise!Init OBVIOUS
  <1>1. live = {} BY DEF HeapInit
  <1>2. [p \in live |-> Block(p)] = [p \in {} |-> {}] BY <1>1
  <1>3. QED BY <1>2, Zenon DEF Promise!Init, Promise!NothingHeld, Held

\* kmalloc, vmalloc, kfree and vfree implement Allocator, for any size of page,
\* memory and request: a caller's block is physical memory of its own, in one
\* piece if kmalloc gave it out, which no later call of anybody moves, unmaps,
\* frees or gives to another until the caller frees it.
THEOREM HeapIsAllocator == HeapSpec => IsAllocator
  <1>1. HeapInv /\ HeapInv' /\ [HeapNext]_vars => [Promise!Next]_<<Held, KernelPlaces>>
    BY StepPromise
  <1>2. QED BY <1>1, HeapInvariant, InitPromise, PTL DEF HeapSpec, IsAllocator, Promise!AllocatorSpec
=============================================================================
