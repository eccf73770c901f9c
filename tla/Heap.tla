-------------------------------- MODULE Heap --------------------------------
(***************************************************************************)
(* The kernel heap, kernel/mem/heap_setup.c: kmalloc, vmalloc, kfree,      *)
(* vfree.                                                                  *)
(*                                                                         *)
(* Sizes and offsets are in units of 16 bytes, which is exact: requests    *)
(* are rounded up to it, struct alloc_header takes one unit and struct     *)
(* heap_list two.  An entry of the heap is a run of virtual pages with a   *)
(* struct heap_list at its start and alloc_headers behind it; each header  *)
(* leads to the next, and HeadersTile says that a walk visits, in order,   *)
(* the offsets in DOMAIN head.  The calls run with interrupts off.         *)
(***************************************************************************)
EXTENDS Paging, Sequences, SequencesExt

CONSTANTS
    UNITS,          \* units in a page, 256
    Sizes,          \* what is asked for
    InitialFree,    \* the sets of pages free at the start
    MaxLive         \* bound on the pointers in use

HEAP_LIST == 2
HEADER == 1

ASSUME HeapAssumption ==
    /\ UNITS \in Nat /\ UNITS > HEAP_LIST + HEADER
    /\ Sizes \subseteq Nat \ {0}
    /\ \A S \in InitialFree : S \subseteq Frames
    /\ MaxLive \in Nat

VARIABLES
    mem,            \* physical pages and page tables, see Paging
    mm_virt_heap,   \* the virtual pages that are free
    heap,           \* the entries, from the head of heap_start.list
    live,           \* the pointers the callers have and have not freed
    failed          \* history: has a call come to nothing after it took pages?

vars == <<mem, mm_virt_heap, heap, live, failed>>

\* PAGE_ALIGN(size) >> 12, and the pages of an entry for a request of a units.
Pages(a) == (a + UNITS - 1) \div UNITS
EntryPages(a) == Pages(a + HEAP_LIST + HEADER)

\* The pages a call gives back on its error path, counted from the size alone,
\* and the same with the headers but rounded up once too often.
GivenBack_rounded(a) == (a + HEAP_LIST + HEADER) \div UNITS + 1
GivenBack(a) == Pages(a)

\* Fields of an entry: its first virtual page v, its pages n, which of
\* kmalloc and vmalloc made it, and head, from offsets to alloc_headers.
page_size(e) == e.n * UNITS - HEAP_LIST
End(e) == e.n * UNITS
VRange(e) == e.v .. (e.v + e.n - 1)

\* The headers a walk of the entry e reaches.
Visible(e) == {o \in DOMAIN e.head : o < page_size(e)}

-----------------------------------------------------------------------------
(* A call works on the whole memory: S.M, S.V and S.H.                       *)

Now == [M |-> mem, V |-> mm_virt_heap, H |-> heap]

find_free_virt_addr(S, n) == FirstRun(S.V, 0, HEAP_PAGES, n)

alloc_virt_block(S, v, n) == [S EXCEPT !.V = @ \ (v..(v + n - 1))]

\* Like free_phys_block it reports a page that is free already.
free_virt_block(S, v, n) ==
    [S EXCEPT !.V = @ \cup (v..(v + n - 1)),
              !.M.warned = @ \/ S.V \cap (v..(v + n - 1)) # {}]

-----------------------------------------------------------------------------
(* Headers *)

init_new_allocated_block(v, n, virtual) ==
    [v |-> v, n |-> n, virtual |-> virtual,
     head |-> [o \in {HEAP_LIST} |-> [size |-> n * UNITS - HEAP_LIST - HEADER, free |-> TRUE]]]

\* The headers of e with room for a units: the block must be larger than that.
Fitting_equal(e, a) == {o \in Visible(e) : e.head[o].free /\ a <= e.head[o].size}
Fitting_used_too(e, a) == {o \in Visible(e) : a < e.head[o].size}
Fitting(e, a) == {o \in Visible(e) : e.head[o].free /\ a < e.head[o].size}

\* As try_allocate, but the rest of a split block is one header too large.
try_allocate_no_header(e, a) ==
    LET o    == Min(Fitting(e, a))
        rest == [size |-> e.head[o].size - a, free |-> TRUE]
    IN  [e EXCEPT !.head = [x \in DOMAIN @ \cup {o + HEADER + a} |->
            CASE x = o              -> [size |-> a, free |-> FALSE]
              [] x = o + HEADER + a -> rest
              [] OTHER              -> @[x]]]

\* try_allocate, when a header fits: the first one is taken, and split unless
\* its block is no larger than two units.
try_allocate(e, a) ==
    LET o    == Min(Fitting(e, a))
        size == e.head[o].size
        next == o + HEADER + a
    IN  IF size > HEADER + 1
        THEN [e EXCEPT !.head = [x \in DOMAIN @ \cup {next} |->
                CASE x = o    -> [size |-> a, free |-> FALSE]
                  [] x = next -> [size |-> size - (HEADER + a), free |-> TRUE]
                  [] OTHER    -> @[x]]]
        ELSE [e EXCEPT !.head[o].free = FALSE]

\* As Merged, but a free block only takes in the one behind it.
Merged_one(e) ==
    LET next(o)  == o + HEADER + e.head[o].size
        isfree   == {o \in Visible(e) : e.head[o].free}
        absorbed == {o \in isfree : \E p \in isfree : next(p) = o /\ p = Min(isfree)}
        kept     == DOMAIN e.head \ absorbed
    IN  [e EXCEPT !.head = [o \in kept |->
            [@[o] EXCEPT !.size = Min({x \in kept : x > o} \cup {End(e)}) - o - HEADER]]]

\* The first loop of kdefrag and vdefrag: every run of free blocks becomes one.
Merged(e) ==
    LET next(o)  == o + HEADER + e.head[o].size
        isfree   == {o \in Visible(e) : e.head[o].free}
        absorbed == {o \in isfree : \E p \in isfree : next(p) = o}
        kept     == DOMAIN e.head \ absorbed
    IN  [e EXCEPT !.head = [o \in kept |->
            [@[o] EXCEPT !.size = Min({x \in kept : x > o} \cup {End(e)}) - o - HEADER]]]

\* Is the entry, its blocks merged, one free block?
Unused(e) == e.head[HEAP_LIST].free /\ e.head[HEAP_LIST].size + HEADER = page_size(e)

-----------------------------------------------------------------------------
(* Entries *)

\* A new entry of n pages at the head of the list.
NewEntry(S, v, n, virtual) ==
    [S EXCEPT !.H = <<init_new_allocated_block(v, n, virtual)>> \o @]

\* kmalloc, when no entry has room.
kmalloc_entry(S, a, fill) ==
    LET n  == EntryPages(a)
        v  == find_free_virt_addr(S, n)
        S1 == alloc_virt_block(S, v, n)
        f  == get_phys_block(S.M, n)
        r  == page_map_range(alloc_phys_block(S.M, f, n), f, v, n, fill)
        S2 == [S1 EXCEPT !.M = IF r.ok THEN r.M ELSE free_phys_block(r.M, f, GivenBack(a))]
    IN  IF v = NULL THEN S
        ELSE IF f = NULL THEN free_virt_block(S1, v, GivenBack(a))
        ELSE IF ~r.ok THEN free_virt_block(S2, v, GivenBack(a))
        ELSE NewEntry(S2, v, n, FALSE)

\* The loop of vmalloc over the pages of an entry: the memory after it, the
\* number of pages mapped, and whether that is all of them.
vmalloc_pages(M0, v, n, fill) ==
    LET r[i \in 0..n] ==
            IF i = 0 THEN [M |-> M0, ok |-> TRUE, n |-> 0]
            ELSE LET q == r[i - 1]
                     f == get_phys_block(q.M, 1)
                     M == alloc_phys_block(q.M, f, 1)
                 IN  IF ~q.ok \/ f = NULL THEN [q EXCEPT !.ok = FALSE]
                     ELSE IF page_map_fails(M, v + i - 1)
                     THEN [q EXCEPT !.ok = FALSE, !.M = free_phys_block(M, f, 1)]
                     ELSE [M |-> page_map(M, f, v + i - 1, fill), ok |-> TRUE, n |-> i]
    IN  r[n]

\* The memory after the physical pages behind n virtual ones have been freed.
free_each(M0, v, n) ==
    LET M[i \in 0..n] ==
            IF i = 0 THEN M0
            ELSE free_phys_block(M[i - 1], page_get_phys(M[i - 1], v + i - 1), 1)
    IN  M[n]

\* vmalloc, when no entry has room.  Its error path frees the pages below the
\* last one that was mapped.
vmalloc_entry(S, a, fill) ==
    LET n  == EntryPages(a)
        v  == find_free_virt_addr(S, n)
        S1 == alloc_virt_block(S, v, n)
        r  == vmalloc_pages(S.M, v, n, fill)
    IN  IF v = NULL THEN S
        ELSE IF r.ok THEN NewEntry([S1 EXCEPT !.M = r.M], v, n, TRUE)
        ELSE free_virt_block([S1 EXCEPT !.M = free_each(r.M, v, IF r.n = 0 THEN 0 ELSE r.n - 1)],
                             v, GivenBack(a))

\* As kdefrag_release, but page_size is not rounded up to whole pages.
kdefrag_release_rounded_down(S, e) ==
    LET n == page_size(e) \div UNITS
    IN  free_virt_block([S EXCEPT !.M = free_phys_block(@, page_get_phys(@, e.v), n)], e.v, n)

\* The end of kdefrag and of vdefrag for an entry that is off the list.
kdefrag_release(S, e) ==
    LET n == Pages(page_size(e))
    IN  free_virt_block([S EXCEPT !.M = free_phys_block(@, page_get_phys(@, e.v), n)], e.v, n)

vdefrag_release(S, e) ==
    LET n == Pages(page_size(e))
    IN  free_virt_block([S EXCEPT !.M = free_each(@, e.v, n)], e.v, n)

-----------------------------------------------------------------------------
(* Calls.  A pointer is the entry's first page and the offset of the header  *)
(* right before it, with what was asked for.                                 *)

Pointer(e, o, a) == [v |-> e.v, off |-> o, size |-> a, virtual |-> e.virtual]

\* Serve a request from entry i of S.H, which has room for it.
Serve(S, i, a) ==
    /\ mem' = S.M /\ mm_virt_heap' = S.V
    /\ heap' = [S.H EXCEPT ![i] = try_allocate(@, a)]
    /\ live' = live \cup {Pointer(S.H[i], Min(Fitting(S.H[i], a)), a)}

Candidates(a, virtual) ==
    {i \in 1..Len(heap) : heap[i].virtual = virtual /\ Fitting(heap[i], a) # {}}

malloc_reuse(a, virtual) ==
    /\ Cardinality(live) < MaxLive
    /\ Candidates(a, virtual) # {}
    /\ Serve(Now, Min(Candidates(a, virtual)), a)
    /\ UNCHANGED failed

\* No entry has room: S is the memory with a new entry, or without one.
malloc_grow(a, virtual, S) ==
    /\ Cardinality(live) < MaxLive
    /\ Candidates(a, virtual) = {}
    /\ IF S.H # heap /\ Fitting(S.H[1], a) # {}
       THEN Serve(S, 1, a)
       ELSE mem' = S.M /\ mm_virt_heap' = S.V /\ heap' = S.H /\ UNCHANGED live
    /\ failed' = (failed \/ (S.H = heap /\ S # Now))

\* What the free pages hold: all junk, or all zeros.
Fills == {[t \in Frames |-> x] : x \in {NULL, JUNK}}

kmalloc(a) == \/ malloc_reuse(a, FALSE)
              \/ \E fill \in Fills : malloc_grow(a, FALSE, kmalloc_entry(Now, a, fill))

vmalloc(a) == \/ malloc_reuse(a, TRUE)
              \/ \E fill \in Fills : malloc_grow(a, TRUE, vmalloc_entry(Now, a, fill))

\* _free of the pointer p, with kdefrag or vdefrag.
free_ptr(p, virtual) ==
    \E i \in 1..Len(heap) :
        /\ heap[i].v = p.v /\ p.off \in Visible(heap[i])
        /\ LET e  == Merged([heap[i] EXCEPT !.head[p.off].free = TRUE])
               S1 == [Now EXCEPT !.H = RemoveAt(@, i)]
               S  == IF ~Unused(e) THEN [Now EXCEPT !.H[i] = e]
                     ELSE IF virtual THEN vdefrag_release(S1, e) ELSE kdefrag_release(S1, e)
           IN  mem' = S.M /\ mm_virt_heap' = S.V /\ heap' = S.H
        /\ live' = live \ {p}
        /\ UNCHANGED failed

\* Callers free with the function that goes with the one they allocated with.
kfree(p) == ~p.virtual /\ free_ptr(p, FALSE)
vfree(p) == p.virtual /\ free_ptr(p, TRUE)

-----------------------------------------------------------------------------

\* heap_setup, with memory_init and page_setup behind it.
HeapInit ==
    /\ \E free \in InitialFree :
         mem = [mm |-> free, dir |-> [d \in Tables |-> NULL],
                pte |-> [v \in VPages |-> NULL], warned |-> FALSE]
    /\ mm_virt_heap = VPages
    /\ heap = <<>>
    /\ live = {}
    /\ failed = FALSE

HeapNext == \/ \E a \in Sizes : kmalloc(a) \/ vmalloc(a)
            \/ \E p \in live : kfree(p) \/ vfree(p)

HeapSpec == HeapInit /\ [][HeapNext]_vars

-----------------------------------------------------------------------------
(* Properties *)

Entries == {heap[i] : i \in 1..Len(heap)}

\* heap_setup.c: types; in particular no size, a bit field of 31 bits without a
\* sign, is ever the result of a subtraction below zero.
HeapTypeOK ==
    /\ mem.mm \subseteq Frames
    /\ mem.dir \in [Tables -> Frames \cup {NULL}]
    /\ mem.pte \in [VPages -> Frames \cup {NULL, JUNK}]
    /\ mem.warned \in BOOLEAN /\ failed \in BOOLEAN
    /\ mm_virt_heap \subseteq VPages
    /\ \A e \in Entries :
         /\ e.v \in VPages /\ e.n \in 1..HEAP_PAGES /\ e.virtual \in BOOLEAN
         /\ DOMAIN e.head \subseteq HEAP_LIST..(End(e) - 1)
         /\ \A o \in DOMAIN e.head : e.head[o].size \in 0..End(e) /\ e.head[o].free \in BOOLEAN
    /\ \A p \in live : p.v \in VPages /\ p.size \in Sizes /\ p.virtual \in BOOLEAN

\* try_allocate and the defrag functions: the headers of an entry lead from its
\* start exactly to its end, so that no walk leaves it or ends inside a block.
HeadersTile ==
    \A e \in Entries :
        /\ HEAP_LIST \in DOMAIN e.head
        /\ \A o \in DOMAIN e.head :
             LET next == o + HEADER + e.head[o].size
             IN  /\ next = End(e) \/ next \in DOMAIN e.head
                 /\ \A x \in DOMAIN e.head : x > o => x >= next

\* kmalloc, vmalloc, kfree and vfree: what callers hold are blocks that are in
\* use, each for one caller and at least as large as asked for, and no block is
\* in use that nobody holds.
BlocksOwned ==
    /\ \A p \in live : \E e \in Entries :
          /\ e.v = p.v /\ e.virtual = p.virtual /\ p.off \in Visible(e)
          /\ ~e.head[p.off].free /\ e.head[p.off].size >= p.size
    /\ \A p, q \in live : p.v = q.v /\ p.off = q.off => p = q
    /\ \A e \in Entries : \A o \in DOMAIN e.head :
          ~e.head[o].free => \E p \in live : p.v = e.v /\ p.off = o

\* The physical pages behind the entry e.
Behind(e) == {mem.pte[v] : v \in VRange(e)}
TablePages == {mem.dir[d] : d \in Tables} \ {NULL}

\* get_phys_block, page_map_range, kdefrag, vdefrag and the error paths: two
\* entries share no page, virtual or physical, none of their pages is free or
\* a page table, and two virtual pages of an entry are two physical ones.  "try to
\* free already freed block" (phys_mem_management.c:27) and "try to free already
\* unallocated block" (heap_setup.c:27) are never printed: no page is given back
\* twice, on an error path or after one.
PagesApart ==
    /\ \A e \in Entries :
         /\ VRange(e) \subseteq VPages \ mm_virt_heap
         /\ Behind(e) \subseteq Frames \ (mem.mm \cup TablePages)
         /\ Cardinality(Behind(e)) = e.n
    /\ \A i, j \in 1..Len(heap) : i # j => /\ VRange(heap[i]) \cap VRange(heap[j]) = {}
                                           /\ Behind(heap[i]) \cap Behind(heap[j]) = {}
    /\ TablePages \cap mem.mm = {}
    /\ ~mem.warned

\* kdefrag and vdefrag: two blocks that lie next to each other and that the
\* walk reaches are never both free: the heap does not crumble.
Coalesced ==
    \A e \in Entries : \A o \in Visible(e) :
        LET next == o + HEADER + e.head[o].size
        IN  e.head[o].free /\ next \in Visible(e) => ~e.head[next].free

\* kdefrag, vdefrag: as long as no call has failed half way, a page that is not
\* free is behind an entry or holds a page table: nothing leaks.
NothingLeaks ==
    ~failed => \E free \in InitialFree :
        /\ free \ mem.mm = TablePages \cup UNION {Behind(e) : e \in Entries}
        /\ VPages \ mm_virt_heap = UNION {VRange(e) : e \in Entries}

-----------------------------------------------------------------------------
(* The abstract specification                                                *)

\* The unit of physical memory behind unit o of the virtual pages from v on.
Place(v, o) == mem.pte[v + o \div UNITS] * UNITS + (o % UNITS)

\* What the caller that holds p may use.
Block(p) == [k \in 0..(p.size - 1) |-> Place(p.v, p.off + HEADER + k)]

\* What is written without asking the callers: pages that may be given out or
\* hold a page table, the heap_list of an entry and its alloc_headers.
HeaderPlaces(e) == {Place(e.v, o) : o \in 0..(HEAP_LIST - 1) \cup DOMAIN e.head}
KernelPlaces ==
    {f * UNITS + k : f \in mem.mm \cup TablePages, k \in 0..(UNITS - 1)}
        \cup UNION {HeaderPlaces(e) : e \in Entries}

Held == [p \in live |-> Block(p)]

Promise == INSTANCE Allocator WITH held <- Held, others <- KernelPlaces

\* kmalloc, vmalloc, kfree, vfree: the heap keeps the promise of Allocator.  What
\* a caller holds is its own memory, down to the physical pages, and is not
\* moved, unmapped or handed to another by any call of anybody.
IsAllocator == Promise!AllocatorSpec
=============================================================================
