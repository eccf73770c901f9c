------------------------------- MODULE Paging -------------------------------
(***************************************************************************)
(* Physical pages and the page tables: kernel/mem/phys_mem_management.c    *)
(* and the mapping functions of kernel/x86/page.c, as operators on a       *)
(* record M of the memory:                                                 *)
(*    M.mm     the pages whose bit in mm_bitmap is set, which are free     *)
(*    M.dir    page directory: the page a page table lies in, or NULL      *)
(*    M.pte    page tables: the physical page behind a virtual one, NULL   *)
(*             if the entry is not present, JUNK if nobody ever wrote it   *)
(*    M.warned has a free been reported as "already freed"?                *)
(***************************************************************************)
EXTENDS Integers, FiniteSetsExt

CONSTANTS
    NULL, JUNK,
    LOW_PAGE,       \* the first page get_phys_block looks at
    MAX_RAM_PAGE,   \* inc/phys_mem_management.h
    HEAP_PAGES,     \* HEAP_SIZE in pages: the virtual pages of the model
    TABLE_ENTRIES   \* entries of a page table, 1024

ASSUME PagingAssumption ==
    /\ LOW_PAGE \in Nat \ {0} /\ MAX_RAM_PAGE \in Nat /\ LOW_PAGE < MAX_RAM_PAGE
    /\ HEAP_PAGES \in Nat \ {0} /\ TABLE_ENTRIES \in Nat \ {0}
    /\ NULL \notin Int /\ JUNK \notin Int /\ NULL # JUNK

Frames == LOW_PAGE .. (MAX_RAM_PAGE - 1)
VPages == 0 .. (HEAP_PAGES - 1)
\* The page table of v.  The heap of the model starts where a table does; that
\* of the kernel may start anywhere in one.
Table(v) == v \div TABLE_ENTRIES
Tables == {Table(v) : v \in VPages}

-----------------------------------------------------------------------------
(* mm_bitmap *)

\* As FirstRun, but the count goes on where it should start again.
FirstRun_no_reset(free, from, to, n) ==
    LET seen(p) == Cardinality({i \in from..(p - 1) : i \in free})
        ends == {p \in from..(to - 1) : seen(p) = n}
    IN  IF ends = {} THEN NULL ELSE Min(ends) - n

\* The search of get_phys_block and find_free_virt_addr: the first run of n
\* bits that are set, between bit from and bit to.  The count is compared
\* before a bit is looked at, so a run that ends with the last bit is not seen.
FirstRun(free, from, to, n) ==
    LET runs == {k \in from..(to - 1 - n) : \A i \in k..(k + n - 1) : i \in free}
    IN  IF runs = {} THEN NULL ELSE Min(runs)

get_phys_block(M, n) == FirstRun(M.mm, LOW_PAGE, MAX_RAM_PAGE, n)

alloc_phys_block(M, f, n) == [M EXCEPT !.mm = @ \ (f..(f + n - 1))]

free_phys_block(M, f, n) ==
    LET run == {k \in f..(f + n - 1) : k < MAX_RAM_PAGE}
    IN  [M EXCEPT !.mm = @ \cup run, !.warned = @ \/ run \cap M.mm # {}]

-----------------------------------------------------------------------------
(* page tables *)

page_get_phys(M, v) == IF M.dir[Table(v)] = NULL THEN NULL ELSE M.pte[v]

\* page_unmap clears the entry, and frees the table if nothing in it is present.
page_unmap(M, v) ==
    LET d  == Table(v)
        M1 == [M EXCEPT !.pte[v] = NULL]
    IN  IF M.dir[d] = NULL THEN M
        ELSE IF \E x \in VPages : Table(x) = d /\ M1.pte[x] # NULL THEN M1
        ELSE free_phys_block([M1 EXCEPT !.dir[d] = NULL], M.dir[d], 1)

\* A page table taken from the bitmap is not cleared: its entries are what
\* the page held before, fill[t], which is junk or zeros.
new_table(M, d, fill) ==
    LET t == get_phys_block(M, 1)
    IN  [alloc_phys_block(M, t, 1) EXCEPT
            !.dir[d] = t,
            !.pte = [x \in VPages |-> IF Table(x) = d THEN fill[t] ELSE @[x]]]

\* page_map, and whether it fails: for want of a page for the table.
page_map_fails(M, v) == M.dir[Table(v)] = NULL /\ get_phys_block(M, 1) = NULL

page_map(M, f, v, fill) ==
    LET d == Table(v)
    IN  IF page_map_fails(M, v) THEN M
        ELSE [IF M.dir[d] = NULL THEN new_table(M, d, fill) ELSE M EXCEPT !.pte[v] = f]

\* page_map_range, n pages from v on: ok, and the memory after it; what has
\* been mapped when a page fails is unmapped again, the last page first.
page_map_range(M, f, v, n, fill) ==
    LET mapped[i \in 0..n] ==
            IF i = 0 THEN [M |-> M, ok |-> TRUE, n |-> 0]
            ELSE LET r == mapped[i - 1]
                 IN  IF ~r.ok \/ page_map_fails(r.M, v + i - 1) THEN [r EXCEPT !.ok = FALSE]
                     ELSE [M |-> page_map(r.M, f + i - 1, v + i - 1, fill), ok |-> TRUE, n |-> i]
        r == mapped[n]
        undone[i \in 0..n] == IF i >= r.n THEN r.M ELSE page_unmap(undone[i + 1], v + i)
    IN  [ok |-> r.ok, M |-> IF r.ok THEN r.M ELSE undone[0]]
=============================================================================
