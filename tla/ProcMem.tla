------------------------------ MODULE ProcMem ------------------------------
(***************************************************************************)
(* The memory of processes: process_memory_switch, process_memory_add,     *)
(* mmap, munmap and process_ini_kern of kernel/process/process.c, the      *)
(* copies of copy_process.c, process_free_all_memory of process_die.c and  *)
(* the switch of address spaces in kernel/x86/interrupt_process.c.         *)
(*                                                                         *)
(* All processes share one page directory: a switch takes the pages of the *)
(* old process out of the tables and puts those of the new one in.  mem is *)
(* the record of Paging; its virtual pages are the user pages, page 0 is   *)
(* NULL and page TOP, the last one below the kernel, is the stack.  Of the *)
(* contents of a page the model knows whether it is all zeros.  A call     *)
(* runs with interrupts off; kmalloc may fail wherever it is called.       *)
(***************************************************************************)
EXTENDS Paging, Sequences, SequencesExt

CONSTANTS
    Procs,          \* slots for struct process
    Images,         \* [processes made at boot -> their programs: [v, n] ]
    Sizes,          \* the sizes of mmap, in pages
    MaxCalls        \* bound on the calls of programs and on the pages they store into

TOP == HEAP_PAGES - 1
User == 1..TOP
Data == {0, 1}

ASSUME ProcMemAssumption ==
    /\ DOMAIN Images \subseteq Procs /\ NULL \notin Procs /\ TOP > 0
    /\ \A p \in DOMAIN Images : Images[p].v \in Nat /\ Images[p].n \in Nat \ {0}
    /\ \A p \in DOMAIN Images : Images[p].v..(Images[p].v + Images[p].n - 1) \subseteq User \ {TOP}
    /\ Sizes \subseteq Nat \ {0} /\ MaxCalls \in Nat

VARIABLES
    mem,            \* see Paging
    data,           \* what each physical page holds
    proc,           \* [state, mm_heap, mm_stack, mm_code]; a map_memory is [v, p, n]
    current,        \* NULL before the first switch and while process_hlt runs
    phase,          \* "boot", "run", or the kern_panic: "unmap", "map"
    tried,          \* processes kmain has tried to make
    calls,          \* the calls so far
    lost, stale     \* history: pages no one can free; pages a dying process left mapped

vars == <<mem, data, proc, current, phase, tried, calls, lost, stale>>

NoBlock == [v |-> 0, p |-> LOW_PAGE, n |-> 0]
NoProc == [state |-> "none", mm_heap |-> <<>>, mm_stack |-> <<>>, mm_code |-> NoBlock]

\* A list walked from its head, an accumulator in hand.
Walk(step(_, _), start, list) ==
    LET acc[k \in 0..Len(list)] == IF k = 0 THEN start ELSE step(acc[k - 1], list[k])
    IN  acc[Len(list)]

\* The blocks of a process, in the order its lists are walked.
Blocks(pr) == pr.mm_heap \o pr.mm_stack \o <<pr.mm_code>>
VRange(b) == b.v..(b.v + b.n - 1)
PRange(b) == b.p..(b.p + b.n - 1)
Mapped(pr) == UNION {VRange(b) : b \in Range(Blocks(pr))}
Live == {p \in Procs : proc[p].state = "live"}

TablePages(M) == {M.dir[d] : d \in Tables} \ {NULL}

\* What the tables taken from the free pages start with.
Fill == [t \in Frames |-> IF data[t] = 0 THEN NULL ELSE JUNK]

\* A page that holds a table is all zeros when it is given back.
Contents(M, D) == [f \in Frames |-> IF f \in TablePages(M) THEN 0 ELSE D[f]]

Init ==
    /\ mem = [mm |-> Frames, dir |-> [d \in Tables |-> NULL],
              pte |-> [v \in VPages |-> NULL], warned |-> FALSE]
    /\ data = [f \in Frames |-> 0]
    /\ proc = [p \in Procs |-> NoProc]
    /\ current = NULL /\ phase = "boot" /\ tried = {} /\ calls = 0
    /\ lost = {} /\ stale = {}

-----------------------------------------------------------------------------
(* Putting blocks into the tables and taking them out *)

\* page_map_range without PAGE_PRESENT: page_unmap of every page, which fails
\* where there is no table.
page_unmap_range(M, v, n) ==
    LET unmapped[i \in 0..n] ==
            IF i = 0 THEN [M |-> M, ok |-> TRUE]
            ELSE LET r == unmapped[i - 1]
                 IN  IF ~r.ok \/ r.M.dir[Table(v + i - 1)] = NULL THEN [r EXCEPT !.ok = FALSE]
                     ELSE [r EXCEPT !.M = page_unmap(r.M, v + i - 1)]
    IN  unmapped[n]

\* The pages of the old process stay in the tables.
process_memory_switch_add_only(M, pr, add) ==
    LET step(r, b) == IF ~r.ok THEN r ELSE page_map_range(r.M, b.p, b.v, b.n, Fill)
    IN  IF add THEN Walk(step, [M |-> M, ok |-> TRUE], Blocks(pr)) ELSE [M |-> M, ok |-> TRUE]

process_memory_switch(M, pr, add) ==
    LET step(r, b) == IF ~r.ok THEN r
                      ELSE IF add THEN page_map_range(r.M, b.p, b.v, b.n, Fill)
                      ELSE page_unmap_range(r.M, b.v, b.n)
    IN  Walk(step, [M |-> M, ok |-> TRUE], Blocks(pr))

\* The new process is put in before the old one is taken out.
proc_switch_in_first(M, P, old, new) ==
    LET in  == IF new = NULL THEN [M |-> M, ok |-> TRUE] ELSE process_memory_switch(M, P[new], TRUE)
        out == IF old = NULL THEN in ELSE process_memory_switch(in.M, P[old], FALSE)
    IN  /\ proc' = P /\ current' = new
        /\ phase' = CASE ~out.ok -> "unmap" [] out.ok /\ ~in.ok -> "map" [] OTHER -> phase
        /\ mem' = out.M /\ data' = Contents(out.M, data)
        /\ UNCHANGED stale

\* proc_switch_p: out with the old process, in with the new one; both errors
\* are a kern_panic.  NULL as old is no process, as new process_hlt, which has
\* no memory of its own.
proc_switch(M, P, old, new) ==
    LET out == IF old = NULL THEN [M |-> M, ok |-> TRUE] ELSE process_memory_switch(M, P[old], FALSE)
        in  == IF new = NULL THEN out ELSE process_memory_switch(out.M, P[new], TRUE)
    IN  /\ proc' = P
        /\ current' = new
        /\ phase' = CASE ~out.ok -> "unmap" [] out.ok /\ ~in.ok -> "map" [] OTHER -> phase
        /\ mem' = in.M
        /\ data' = Contents(in.M, data)
        /\ stale' = (stale \cup (IF old = NULL /\ current # NULL THEN Mapped(proc[current]) ELSE {}))
                      \ UNION {Mapped(P[p]) : p \in {old, new} \ {NULL}}

\* What switch_process may choose: a process that runs, an ended one that still
\* has a signal, or process_hlt.
Schedulable(P) == {p \in Procs : P[p].state # "none"} \cup {NULL}

switch_process ==
    /\ phase = "run"
    /\ \E new \in Schedulable(proc) :
          /\ current # NULL /\ proc[current].state = "zombie" => new # current
          /\ proc_switch(mem, proc, current, new)
    /\ UNCHANGED <<tried, calls, lost>>

-----------------------------------------------------------------------------
(* New blocks *)

\* process_memory_add of n pages at v, to be mapped at once: whether it
\* succeeds, the memory after it, and the block, whose pages phys_bzero has
\* cleared by the time the mapping fails.
process_memory_add(M, v, n) ==
    LET f == get_phys_block(M, n)
        r == page_map_range(alloc_phys_block(M, f, n), f, v, n, Fill)
    IN  IF page_get_phys(M, v) # NULL \/ f = NULL
        THEN [ok |-> FALSE, M |-> M, b |-> NoBlock]
        ELSE [ok |-> r.ok, M |-> IF r.ok THEN r.M ELSE free_phys_block(r.M, f, n),
              b |-> [v |-> v, p |-> f, n |-> n]]

Holding(D, b, x) == [f \in Frames |-> IF f \in PRange(b) THEN x ELSE D[f]]

\* Every kmalloc of a call succeeds, or one of them fails.
KmallocFails == BOOLEAN

\* process_ini_kern and the process_memory_switch(p, 0) behind it: code, then
\* stack.  free_process after a failure gives no memory back and unmaps nothing.
process_ini_kern(p) ==
    /\ phase = "boot" /\ p \in DOMAIN Images \ tried
    /\ tried' = tried \cup {p}
    /\ LET code  == process_memory_add(mem, Images[p].v, Images[p].n)
           stack == process_memory_add(code.M, TOP, 1)
           new   == [state |-> "live", mm_heap |-> <<>>, mm_stack |-> <<stack.b>>, mm_code |-> code.b]
           out   == process_memory_switch(stack.M, new, FALSE)
       IN  \/ /\ code.ok /\ stack.ok
              /\ proc' = [proc EXCEPT ![p] = new]
              /\ mem' = out.M
              /\ data' = Contents(out.M, Holding(Holding(data, code.b, 1), stack.b, 0))
              /\ UNCHANGED <<lost, stale>>
           \/ /\ code.ok
              /\ \E kmalloc_fails \in KmallocFails :
                    /\ kmalloc_fails \/ ~stack.ok
                    /\ mem' = IF kmalloc_fails THEN code.M ELSE stack.M
                    /\ data' = Contents(mem', Holding(Holding(data, code.b, 1),
                                                 IF kmalloc_fails THEN NoBlock ELSE stack.b, 0))
              /\ lost' = lost \cup PRange(code.b)
              /\ stale' = stale \cup VRange(code.b)
              /\ UNCHANGED proc
           \/ /\ UNCHANGED <<proc, lost, stale>>
              /\ \E kmalloc_fails \in KmallocFails :
                    /\ kmalloc_fails \/ ~code.ok
                    /\ mem' = IF kmalloc_fails THEN mem ELSE code.M
                    /\ data' = Contents(mem', Holding(data, IF kmalloc_fails THEN NoBlock ELSE code.b, 0))
    /\ UNCHANGED <<current, phase, calls>>

\* kmain: sti.
Start == phase = "boot" /\ tried = DOMAIN Images /\ phase' = "run"
         /\ UNCHANGED <<mem, data, proc, current, tried, calls, lost, stale>>

Runs == phase = "run" /\ current \in Live
Call == Runs /\ calls < MaxCalls /\ calls' = calls + 1

mmap_is_free(v) == v \notin Mapped(proc[current])

\* A run of free pages that starts at v.
Fits(v, n) == \A w \in v..(v + n - 1) : w \in VPages /\ mmap_is_free(w)

\* The search of mmap without MAP_FIXED: downward from addr, then once more
\* from the top; a run may not go through either end.
mmap_search(addr, n) ==
    LET from  == IF addr = 0 \/ addr >= TOP THEN TOP ELSE addr
        below == {v \in 1..from : v + n - 1 <= from /\ Fits(v, n)}
        above == {v \in (from + 1)..TOP : Fits(v, n)}
    IN  IF below # {} THEN Max(below) ELSE IF above # {} THEN Max(above) ELSE NULL

\* MAP_FIXED at NULL is not refused.
mmap_target_null(addr, n, fixed) ==
    IF ~fixed THEN mmap_search(addr, n) ELSE IF Fits(addr, n) THEN addr ELSE NULL

mmap_target(addr, n, fixed) ==
    IF ~fixed THEN mmap_search(addr, n)
    ELSE IF addr # 0 /\ Fits(addr, n) THEN addr ELSE NULL

\* The addresses a call of mmap with the size n can end up with, whatever it
\* is asked for; a call that finds none changes nothing.  MAP_KERNEL_SPACE, which
\* no caller passes and which would map the kernel's addresses, is left out.
Targets(n) == {mmap_target(addr, n, fixed) : addr \in VPages, fixed \in BOOLEAN} \ {NULL}

mmap(n) ==
    /\ Call
    /\ \E v \in Targets(n) :
          LET r == process_memory_add(mem, v, n)
          IN  \/ /\ r.ok
                 /\ proc' = [proc EXCEPT ![current].mm_heap = <<r.b>> \o @]
                 /\ mem' = r.M
                 /\ data' = Contents(r.M, Holding(data, r.b, 0))
                 /\ stale' = stale \ VRange(r.b)
              \/ /\ ~r.ok
                 /\ mem' = r.M
                 /\ data' = Contents(r.M, Holding(data, r.b, 0))
                 /\ UNCHANGED <<proc, stale>>
    /\ UNCHANGED <<current, phase, tried, lost>>

\* The block stays on the list.
munmap_parts_kept(b, v, n) == [v |-> b.v, p |-> b.p, n |-> b.n, rest |-> <<b>>]

\* munmap of n pages at v.  The pages behind the part that goes make a new
\* block; the part itself is looked for size_after pages into the block.
munmap_parts(b, v, n) ==
    LET before == v - b.v
        size   == IF b.n - before <= n THEN b.n - before ELSE n
        after  == b.n - size - before
    IN  [v |-> b.v + after, p |-> b.p + after, n |-> size,
         rest |-> (IF before = 0 THEN <<>> ELSE <<[b EXCEPT !.n = before]>>)
                    \o (IF after = 0 THEN <<>>
                        ELSE <<[v |-> b.v + size + before, p |-> b.p + size + before, n |-> after]>>)]

\* Every caller unmaps a whole block of the heap (testmmap in user2.c).
munmap(i) ==
    /\ Call /\ i \in DOMAIN proc[current].mm_heap
    /\ LET heap == proc[current].mm_heap
           part == munmap_parts(heap[i], heap[i].v, heap[i].n)
           M1   == page_unmap_range(mem, part.v, part.n).M
           M2   == free_phys_block(M1, part.p, part.n)
       IN  /\ proc' = [proc EXCEPT ![current].mm_heap =
                          SubSeq(heap, 1, i - 1) \o part.rest \o SubSeq(heap, i + 1, Len(heap))]
           /\ mem' = M2
           /\ data' = Contents(M2, data)
           /\ stale' = stale \ (part.v..(part.v + part.n - 1))
    /\ UNCHANGED <<current, phase, tried, lost>>

\* A program stores something into one of its pages that is still all zeros;
\* the page tables decide where, and a page that is not there faults.
store(v) ==
    /\ Call /\ v \in Mapped(proc[current])
    /\ page_get_phys(mem, v) \in Frames /\ data[mem.pte[v]] = 0
    /\ data' = [data EXCEPT ![mem.pte[v]] = 1]
    /\ UNCHANGED <<mem, proc, current, phase, tried, lost, stale>>

-----------------------------------------------------------------------------
(* Fork and death *)

\* The child gets the father's pages themselves.
process_copy_mem_block_shares(S, b) == [S EXCEPT !.new = Append(@, b)]

\* process_copy_mem_block: as many pages, but the loop copies the first page
\* into the first page again and again.
process_copy_mem_block(S, b) ==
    LET f == get_phys_block(S.M, b.n)
    IN  IF ~S.ok \/ f = NULL THEN [S EXCEPT !.ok = FALSE]
        ELSE [S EXCEPT !.M = alloc_phys_block(@, f, b.n), !.D[f] = S.D[b.p],
                       !.new = Append(@, [b EXCEPT !.p = f])]

\* The first k blocks of current are copied; then all is well or a page or a
\* kmalloc is missing.
copy_blocks(k) ==
    Walk(process_copy_mem_block, [M |-> mem, D |-> data, new |-> <<>>, ok |-> TRUE],
             SubSeq(Blocks(proc[current]), 1, k))

\* list_add puts each copy in front: the lists of the child are reversed.  With all
\* the blocks copied, the kmalloc of the entry of the children's list may still fail.
process_dup(child) ==
    /\ Call /\ proc[child].state = "none"
    /\ LET n == Len(Blocks(proc[current]))
           S == copy_blocks(n)
           h == Len(proc[current].mm_heap)
       IN  \/ /\ S.ok
              /\ proc' = [proc EXCEPT ![child] =
                    [state |-> "live", mm_heap |-> Reverse(SubSeq(S.new, 1, h)),
                     mm_stack |-> Reverse(SubSeq(S.new, h + 1, n - 1)), mm_code |-> S.new[n]]]
              /\ mem' = S.M /\ data' = S.D
              /\ UNCHANGED lost
           \/ /\ \E k \in 0..n :
                    LET F == copy_blocks(k)
                    IN  /\ F.ok
                        /\ mem' = F.M /\ data' = F.D
                        /\ lost' = lost \cup UNION {PRange(b) : b \in Range(F.new)}
              /\ UNCHANGED proc
    /\ UNCHANGED <<current, phase, tried, stale>>

\* The blocks are taken off the lists, their pages are not given back.
process_free_all_memory_keeps(M, pr) == M

\* process_free_all_memory; page_unmap_at refuses the flags of a mapped block
\* (they have PAGE_PRESENT), so the tables keep the pages.
process_free_all_memory(M, pr) ==
    LET step(m, b) == free_phys_block(m, b.p, b.n)
    IN  Walk(step, M, Blocks(pr))

\* Ended: a zombie until it is waited for, or gone at once.
Ended(p, zombie) ==
    [proc EXCEPT ![p] = IF zombie THEN [@ EXCEPT !.state = "zombie", !.mm_heap = <<>>, !.mm_stack = <<>>]
                        ELSE NoProc]

\* process_die_safe of another process, and of the one that runs, which ends
\* in a switch from no process.
process_die(p) ==
    /\ Call /\ p \in Live
    /\ \E zombie \in BOOLEAN :
          LET M == process_free_all_memory(mem, proc[p])
              P == Ended(p, zombie)
          IN  \/ /\ p # current
                 /\ proc' = P /\ mem' = M
                 /\ UNCHANGED <<data, current, phase, stale>>
              \/ /\ p = current
                 /\ \E new \in Schedulable(P) \ {p} : proc_switch(M, P, NULL, new)
    /\ UNCHANGED <<tried, lost>>

\* waitpid of the running process: free_process.
reap(p) ==
    /\ Runs /\ proc[p].state = "zombie"
    /\ proc' = [proc EXCEPT ![p] = NoProc]
    /\ UNCHANGED <<mem, data, current, phase, tried, calls, lost, stale>>

\* After a kern_panic nothing runs.
Panicked == phase \in {"unmap", "map"} /\ UNCHANGED vars

Next ==
    \/ \E p \in Procs : process_ini_kern(p) \/ process_dup(p) \/ process_die(p) \/ reap(p)
    \/ Start \/ switch_process
    \/ \E n \in Sizes : mmap(n)
    \/ \E i \in 1..TOP : munmap(i)
    \/ \E v \in User : store(v)
    \/ Panicked

ProcMemSpec == Init /\ [][Next]_vars

-----------------------------------------------------------------------------
(* Properties *)

MemTypeOK ==
    /\ mem.mm \subseteq Frames /\ data \in [Frames -> Data]
    /\ \A v \in VPages : mem.pte[v] \in Frames \cup {NULL, JUNK}
    /\ current \in Procs \cup {NULL} /\ phase \in {"boot", "run", "unmap", "map"}
    /\ lost \subseteq Frames /\ stale \subseteq User
    /\ \A p \in Procs : Mapped(proc[p]) \subseteq User

\* While a process runs, every page of it is behind its address: fork, mmap,
\* munmap and switches in any order leave the tables right for the process
\* that runs (process_memory_switch, process_memory_add).
RunsOnItsOwn ==
    Runs => \A b \in Range(Blocks(proc[current])) : \A i \in 0..(b.n - 1) :
                page_get_phys(mem, b.v + i) = b.p + i

\* No physical page has two uses: the blocks of the processes that live, within
\* one and among all, the page tables, and the pages marked free in mm_bitmap;
\* and every page has one, but for those a failed fork or a failed boot lost
\* (get_phys_block, free_phys_block, copy_process, process_die).  No page is freed
\* twice: phys_mem_management.c never says "try to free already freed block".
FramesAccounted ==
    LET blocks == UNION {{<<p, i>> : i \in DOMAIN Blocks(proc[p])} : p \in Live}
        pages(u) == PRange(Blocks(proc[u[1]])[u[2]])
        owned == UNION {pages(u) : u \in blocks}
        parts == {mem.mm, TablePages(mem), owned, lost}
    IN  /\ \A u \in blocks, w \in blocks : u # w => pages(u) \cap pages(w) = {}
        /\ \A d, e \in Tables : d # e /\ mem.dir[d] # NULL => mem.dir[d] # mem.dir[e]
        /\ \A A, B \in parts : A # B => A \cap B = {}
        /\ UNION parts = Frames
        /\ ~mem.warned

\* A switch never fails while it takes the old process out, and it fails to put
\* the new one in only for want of pages for tables (interrupt_process.c).
PanicsOnlyWhenFull ==
    /\ phase # "unmap"
    /\ phase = "map" => Cardinality(mem.mm) <= Cardinality(Tables)

\* What is in the tables and is not the running process's was left there by a
\* process that died while it ran, or by a boot that failed (process_die.c).
OnlyTheDeadStay ==
    phase \in {"boot", "run"} =>
        \A v \in User : page_get_phys(mem, v) \in Frames =>
            v \in stale \/ (current # NULL /\ v \in Mapped(proc[current]))

\* The abstract memory: the contents of the blocks of every live process.
Areas(p) == IF p \in Live THEN Range(Blocks(proc[p])) ELSE {}

Space ==
    [p \in Procs |-> [v \in {b.v : b \in Areas(p)} |->
        LET b == CHOOSE b \in Areas(p) : b.v = v IN [i \in 1..b.n |-> data[b.p + i - 1]]]]

Private == INSTANCE PrivateMemory WITH Owner <- Procs, First <- DOMAIN Images, space <- Space

\* Every process has its memory to itself: no operation of one, and no switch,
\* table or allocation behind it, changes what another one has stored
\* (the whole of process.c, copy_process.c, process_die.c).
IsPrivate == Private!PrivateSpec
=============================================================================
