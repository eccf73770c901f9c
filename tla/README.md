# Kernel-From-Scratch: a verification project

TLA+ models of the parts of this kernel that keep state and are hard to test,
TLC configurations that check them on small instances, and TLAPS proofs of
their main invariants for every value of the constants. `PROJECT.json` lists
the components, the runs, the lines of source each definition stands for, the
mutations each property is known to catch, and the hazards the properties are
for. Paths below are relative to the root of the repository.

## 1. The system

A 32-bit x86 kernel for one processor. `boot/x86/boot.asm` and `kmain`
(`kernel/kernel.c`) set up memory, descriptor tables and the interrupt
controller, create two processes and wait for the clock. Programs are functions
linked into the kernel (`kernel/x86/user2.c`, `user1.asm`); they call the
kernel's C functions directly, between `cli` and `sti`.

| Component | State it keeps | Operations | Makes it correct |
|---|---|---|---|
| Process table (`kernel/process/`) | `process_list`, `struct process`, `last_pid`, `current` | fork, exit, death, freeing, pid allocation | pids unique; fathers and children agree; nothing read after it is freed |
| Signals (`signal.c`) | per process: queue, mask, handlers | `add_signal`, `send_signal`, `kill`, `signal` | a signal is delivered once or merged with a pending one, never lost; the dead get none |
| Waiting (`process_wait.c`) | `waiting_pid`, `waiting_return`, state | `process_waitpid`, `process_wait`, `child_ended` | no lost wakeup; only the father reaps |
| Scheduler (`idt.c`, `interrupt_process.c`) | `current`, saved registers | `switch_process`, `irq_clock`, `irq_general`, `proc_switch` | every process that can run is run; only such are run |
| Byte streams (`stream.c`) | ring, `pos`, `end` | `stream_read`, `stream_write` | a bounded FIFO without a lock |
| Physical pages (`phys_mem_management.c`, `memory_init.c`) | `mm_bitmap` | `get_phys_block`, `free_phys_block` | a page has one owner |
| Paging (`page.c`) | directory, page tables | `page_map`, `page_unmap`, ranges | tables live as long as they are used; a failed range leaves nothing |
| Heap (`heap_setup.c`) | entries, headers, `mm_virt_heap` | `kmalloc`, `vmalloc`, `kfree`, `vfree` | blocks are whole and apart, pages are given back |
| Memory of processes (`process.c`, `copy_process.c`, `process_die.c`) | lists of mappings, the shared directory | `mmap`, `munmap`, switch, fork, death | what is mapped is the running process's own; no process changes another's memory |
| Console (`kernel/tty`, `kernel/vga`, `getc.c`, `printk.c`) | per terminal: cursor, screen, line, stream | `tty_putchar`, `tty_input_char`, `switch_tty` | stores stay inside the screen; the card shows the terminal in front |
| Keyboard (`key_layout.c`, `irq_keybord`) | live tables, shift | `key_layout`, `set_layout` | a line typed is the line sent |
| Shell (`kernel/minishell`) | the command line | `launchshell`, `exec_cmd`, the commands | runs what was typed, serves every line |
| Power off (`power_off.c`) | registers found at boot | `initAcpi`, `acpiEnable`, `acpiPowerOff` | armed only by sound tables; gives its blocks back; comes back if the hardware does not answer |
| Boot memory map (`memory_init.c`) | `mm_bitmap` | `memory_init` | offers no page the loader has not, nor the kernel's |
| printk and C library (`lib/`) | none | | each function is what its name says |
| GDT, IDT, PIC, boot assembly | hardware tables | | written once, in a fixed order |

How they interact: the clock interrupt calls `switch_process`, which calls
`proc_switch`, which delivers one signal (`send_signal`) of the process it is
about to resume; the routine of that signal may kill the process, stop it, or
reap a child, and `switch_process` is then entered again. Death sends `SIGCHLD`
to the father; `child_ended`, the routine of `SIGCHLD`, is what wakes a waiting
father. `fork` takes its struct from the heap and copies pending signals with
`add_signal`, which allocates again. The keyboard interrupt edits a line, echoes
it to the terminal in front and writes it to a stream that the shell reads with
interrupts on; the shell, a program (`user_shell` in `user2.c` calls
`launchshell`), prints to the same terminal. All processes share one page
directory: a switch takes the pages of one out and puts those of the next in.
The heap takes virtual pages from its own bitmap, physical ones from `mm_bitmap`,
and `page_map` takes page tables from `mm_bitmap` too.

What is hard: death, signals and waiting meet in the same structs in any order;
a call that waits returns first and stops later; a stream and a screen are shared
with an interrupt without a lock; one set of page tables serves every process;
every allocation can fail half way through a longer operation; the power
controller answers late or never. There is no
persistence, so no crash recovery, and only one processor. The list, line by
line, is `"hazards"` in `PROJECT.json`.

## 2. Modules

| Module | Models | |
|---|---|---|
| `Lists` | `inc/list.h` | operators on sequences |
| `PidTable` | what fork, exit and wait promise programs | abstract specification |
| `Process` | process table, signals, waiting, scheduler | implements `PidTable` |
| `Fifo` | what a stream promises | abstract specification |
| `Stream` | `stream.c`, one load or store per step | implements `Fifo` |
| `Paging` | physical pages and page tables | operators on a record of the memory |
| `Allocator` | what the heap promises its callers | abstract specification |
| `Heap` | `heap_setup.c`, on top of `Paging` | implements `Allocator` |
| `PrivateMemory` | what the memory of a process promises | abstract specification |
| `ProcMem` | `process.c`, `copy_process.c`, `process_die.c`, the switch, on top of `Paging` | implements `PrivateMemory` |
| `Acpi` | `initAcpi` | operators |
| `Console` | terminals, keyboard interrupt, shell, power off, on top of `Acpi` | specification and properties |
| `CLib`, `Printk`, `BootMap` | `lib/`, `lib/printk`, `memory_init.c` | operators |
| `Library` | calls of `CLib`, `Printk`, `BootMap` and `Acpi` | reference definitions |
| `ListProofs`, `PagingProofs` | | lemmas on sequences, bitmaps and page tables |
| `ProcessProofs`, `FamilyProofs`, `StreamProofs`, `HeapProofs`, `ProcMemProofs`, `ConsoleProofs` | | theorems |
| `MCProcess`, `MCStream`, `MCHeap`, `MCProcMem`, `MCConsole`, `MCLibrary` | | constants for TLC |

How the modules fit together: `Heap` and `ProcMem` are two users of the same
`Paging`, `Console` starts from what `Acpi` finds and treats the stream of a
terminal as a queue that a line enters in one step and a character leaves in
one, which is what `Stream` is shown to implement (`IsFifo`). `Process` sees the
heap as calls that may fail (`KmallocOutcomes`) and the memory of processes as
copies that may fail; `ProcMem` sees processes as live, zombie or free, scheduled
in any order, which is more than the scheduler does.

### Process and PidTable

Memory is a set of slots `Procs`; a struct is valid while it is on
`process_list`. A kernel call is one step, because programs and handlers enter
the kernel with interrupts off; the clock preempts programs between calls.
Kernel functions are operators from process table to process table
(`free_process`, `process_die_safe`, `child_ended`, ...), composed by the actions
the way the C functions call each other, so that an action is a whole handler.
`mode` says what the processor does: run a program, load a process (between
`switch_process` and the return to the program, where signals are delivered),
copy signals in `fork`, or one of three ends: the panic "No more task", an
endless loop in `switch_process`, and "undefined" once freed memory has been read.
Reading freed memory is not given an outcome: what follows it is not claimed.
Failures of `kmalloc` are a choice (`KmallocOutcomes`). Left out: registers,
stacks, and the memory a process maps, except whether copying it succeeds.

Faithful peculiarities, each from the source: the table of default routines is
shifted from `SIGCHLD` on; `SIGUSR2` masks `SIGHUP`; `waitpid` marks the caller
stopped and returns; children of a freed process move to pid 1 but keep their
father pointer; `signal` with `SIG_DFL` stores the address of the routine, so
that `SIGCHLD` then counts as handled; a pid search that fails leaves `last_pid`
past its end; the search for the next process starts behind the current one, but
at the head of the list after a death.

`PidTable` knows no structs, lists, signals or scheduler: pids in use, and for each
whose child it is, whether it has ended and with what, and whether its children
are kept when they end. A step adds, ends or takes away one process: the running
process forks, ends itself (and stays for its father, or goes), reaps an ended child
of its own, or stops minding its children. `Process` implements it with the table
read off the structs on `process_list` (`Table`) and `lost <- orphaned`. So a pid given
away twice, a zombie reaped by another process or before it has ended, an exit status
that changes later, or a process that ends while another one runs
is a step `PidTable` does not have. What it promises ends where the code's does: when
a process that has children is taken away, they keep a pointer to it (`lost`).
`PidTable` leaves open which value a wait returns and which status a process ends
with: a program or a signal chooses it.

### Stream and Fifo

A step of `Stream` makes at most one access to a field the other side writes, since the
kernel is compiled without optimisation. A stream is chosen at the start to have a
program (`user_pipewrite`) or the keyboard interrupt as writer (`wirq`); the reader
(`user_piperead`, `getc`) can be stopped anywhere. `Fifo` is the queue users see;
`Stream` implements it with `queue <- Contents`, the bytes between `pos` and `end`.

### Paging, Heap and Allocator

Sizes and offsets are in units of 16 bytes, which loses nothing: requests are
rounded up to 16, and the two headers take 16 and 32 bytes. `head` maps the
offsets of an entry to the alloc_headers there; `HeadersTile` is what makes this
the same as following sizes from one header to the next. `FirstRun` is the search
both bitmaps use, with its blind spot at the last bit. A page table comes out of
the bitmap uncleared, so its other entries are zeros or junk (`fill`). Pages stay
mapped after a release, as in the code. `failed` and `warned` are history: whether
a call has come to nothing after taking pages, and whether a bitmap function has
reported a page freed twice.

`Allocator` knows neither headers nor pages. A block is a function from the units
asked for to places in physical memory; it is given out whole, apart from all
others and, by `kmalloc`, in one piece; it stays where it is until it is freed, and
it is apart from all places the kernel writes to as it likes. `Heap` implements it
with `held <- Held`, the blocks of the callers looked up through the page tables,
and `others <- KernelPlaces`: the pages that may be given out, the page tables, and
the `heap_list` and alloc_headers of every entry. So a table entry overwritten or
unmapped too early, a header laid over data, or a page given back too soon is a step
`Allocator` does not have. `Heap` has no action for what callers store: that nobody
else may write to their places says as much.

### ProcMem and PrivateMemory

`mem` is the record of `Paging`: bitmap, directory and tables; `proc` holds the
blocks (`struct map_memory`) of each process. An action is a whole call:
`process_memory_add` takes pages, maps them and takes both back if a table is
missing; `proc_switch` unmaps the old process and maps the new one, and either
error is a `kern_panic`, at which the model stops (`phase`). Of the contents of a
page the model knows whether it is all zeros, which is enough to tell a page
written through a wrong entry, and decides what a new page table begins with.
`PrivateMemory` knows nothing of pages: every process has areas with contents,
and a step changes the areas of one process; the mapping is `Space`.

From the source, and visible in the model: a process that dies while it runs stays in
the tables, because `page_unmap_at` refuses flags with `PAGE_PRESENT` (`page.c:184`),
and its freed pages stay reachable until another process is mapped over them (`stale`);
`fork` copies the first page of a block only (`copy_process.c:21` does not use its loop
variable); a fork or a boot that fails half way loses the pages it took (`lost`), a fork
also when every block and the code are copied and the node for the list of children is
not to be had (`copy_process.c:72`); a block whose mapping fails has been cleared
already (`process.c:69`); a run of pages for `mmap` is looked for downwards and then
once more from the top. Not modelled: `process_copy_mem_block` also maps the two pages
of its buffers on the kernel stack to one physical page (`copy_process.c:25`), which
concerns the kernel's own stack; flags of entries; `MAP_KERNEL_SPACE` of `mmap`, which
no caller asks for. `munmap` is called on whole blocks only, as every caller does: for a
part of a block the offset it computes (`process.c:303`) is not that of the part.

### Console and Acpi

A terminal is a cursor, a screen and a line; `vga_buffer` and `cursor` are what the
card shows. Characters are atoms: a letter, newline, backspace, NUL, carriage return,
a byte that is stored and never printed (`silent`), or a whole word the shell knows,
typed by one key. Scan codes of 90 and more read behind the tables
(`key_layout.c:160`): a byte of any kind (`Beyond`) may come out.

The shell runs with interrupts on, so the keyboard interrupt, itself one step, may
come anywhere in what the shell does. `half` is where the shell is in the middle of a
character, a switch or a copy, together with what it has read and not yet written:

| `half` | Between |
|---|---|
| `step` | reading and writing `++column` (`tty_putchar.c:8`) |
| `wrap` | writing it and comparing it with `VGA_WIDTH` |
| `scroll`, `up` | `++row`, the scroll with what it renders, and `--row` |
| `cursor` | taking the cursor's place and telling the card (`vga_move_cursor`) |
| `render` | two cells of the loop of `switch_tty` (`tty_render_vga.c`) |
| `shift`, `plain` | the two `memcpy` of `set_layout`; the table being copied gives either layout's characters |

Coarser than the code are: storing a cell with the reads of the cursor before and
behind it, `++row` and `--row`, and `tty_scrollup` with its render, each one step. A key
inside one of these is a key in the middle of a character, for which the properties
say no more than they say for one right behind it.

`tty_putentryat` does not check its index. In `struct s_tty` (`inc/tty.h`) `input_raw`
follows `screen`, so a store behind the screen overwrites two characters of the line
being typed (`overwritten`: the character and its colour); past the end of that buffer,
or before the screen, it falls on counters, indices and the cursor, and the model stops
there (`machine = "lost"`, `Overruns`). History says what has happened: `wild` (a store
left the screen), `raced` (a key was echoed while the shell was between two accesses to
the row and column for one character), `silent` (a byte without a cell was put in a
line), `torn` (since the last switch a key was echoed while the shell wrote a character,
the card or the cursor, or a carriage return moved the column alone).

`acpiEnable` is one step per poll, so that keys arrive and controllers answer in
between; both loops share their counter, and `acpiPowerOff` goes on whatever they find.
`acpiGetRSDPtr` goes on behind a valid root pointer that holds 0, as for none.
`init_tty` runs before `init_vga` (`kernel.c:36`), so the first clearing of the screen
goes to address 0 and not to the card; the card keeps what the loader left.
Names longer than the line are left out, since a word is one character.

### Library

`CLib`, `Printk`, `BootMap` and `Acpi` are operators written as the code computes:
by scanning, recursion or loops. `Library` calls them with every small input and
compares the result with a definition that does not loop (an order on
sequences, a minimum of a set of places, a sum of digits). `BYTE`, `LONG`, `PAGE`
and `BITS` are the widths of the code; the instance makes them small, so that
signed characters, the least int and bytes of the bitmap are within reach.

## 3. Runs

| Run | Checks | Shows |
|---|---|---|
| `process_family` | `TypeOK PidsUnique FamilyOK NoLostWakeup ReapedByFather IsPidTable` | four slots, four pids: forks, exits and waits by init, shell and children in every order, with pids wrapping; refinement of `PidTable` |
| `process_signals` | `ZombieQuiet NoSignalLost` | queues of two, six signals, exceptions, a handler for `SIGCHLD`, failing `kmalloc` |
| `process_live` | `RoundRobin KillIsFatal WaitEnds` | liveness, under `FairSpec`, with `SIGKILL` at the head of a queue or behind another signal |
| `process_job_control` | `ContResumes` (violated) | `SIGCONT` resumes nothing |
| `process_idle` | `SwitchEnds` (violated) | with all processes stopped, the next tick never ends |
| `stream` | `StreamTypeOK WriteReturns RingSafe IsFifo` | both kinds of writer; refinement of `Fifo` |
| `stream_overrun` | `WriteBounded` (violated) | a write may take more bytes than it was given |
| `heap` | `HeapTypeOK HeadersTile BlocksOwned PagesApart Coalesced NothingLeaks IsAllocator` | heap, pages and tables running out anywhere; refinement of `Allocator` |
| `memory` | `MemTypeOK RunsOnItsOwn FramesAccounted PanicsOnlyWhenFull OnlyTheDeadStay IsPrivate` | init, shell and a child that map, store, fork, die and are switched; refinement of `PrivateMemory` |
| `console` | `ConsoleTypeOK StaysInScreen EchoBacked VgaShows WholeLine RunsWhatWasTyped LineServed` | keys at any moment, bytes from behind the key tables among them, of a shell that prints, scrolls and runs every command, with power controllers that answer late or never |
| `console_race` | `InScreen` (violated) | keys inside `tty_printchar` move the cursor past the end of the line, and a store leaves the screen |
| `library` | `TextOK CopyOK PrintOK BitmapSound AcpiOK` | functions that only compute, against reference definitions |

The violated ones are disagreements between the code and what a comment, a
header or a caller says of it; `"findings"` quotes both sides.

**Bounds.** Processes: four slots (`process_family`) are init, the shell and two more,
which may be siblings, or child and grandchild; pids 1 to 4 with three candidates make
the counter wrap after the first fork. Signals run with three slots: two processes and
one that comes and goes; a queue of two (`MaxQueued`) is the least in which a signal
waits behind another, in `process_live` `SIGKILL` behind one that stops the process or
tells it of a child. Signals not in `Sigs` behave like one that is: each kind of default
routine and of mask row has a representative. `MaxChildren` bounds the child nodes, of
which the orphans that pile up on pid 1 would otherwise make any number. Streams: rings
of 3 and 4 bytes with requests of up to 4 and 3 wrap, fill, and exceed the ring; two
byte values tell any misplaced byte from the right one; `Word` stands for 2^32 and must
only exceed what honest sums reach, so that wrapped ones are seen. Heap: a page of 8
units, five physical and five virtual pages and tables of two entries; requests of 1, 4,
5 and 6 units are a small one, one that leaves a header no walk reaches, one that fits
its page exactly, and one that needs a second page only for its headers; three blocks
are what a free in the middle merges. Memory: nine physical pages, six virtual ones and
tables of two entries are enough for init, a shell of two pages and one child, and few
enough that pages and tables run out; page 0 shares its table with the first program,
the stack has one of its own at first; four calls (`MaxCalls`) are a fork, two mappings
and a death, or a store before and after a fork. Switches and waits are not counted.
Console: a screen of 2 by 2 scrolls at every other character and its line ends are two
characters apart; two terminals; lines of at most two words and a ring of four make
every line limit bind; four keys (`MaxKeys`) type a command with its argument and one
key more while it runs, a shutdown and a line while it waits, or two lines, or put an
echo in each of the places a character has until a store falls behind the screen; halt,
reboot, memdebug and shutdown are typed with shift. Two polls (`MAX_POLL`) make each
loop end both ways and the second begin with the counter of the first. Library: strings
of up to three and arrays of four bytes, of which one has its sign bit set; ints of six
bits; pages of two bytes, four to a byte of the bitmap; two regions, two entries of the
root table.

**Fairness** (`FairSpec`). The clock interrupt stays pending in the interrupt
controller while interrupts are off and is taken as soon as they are on, so a
program that keeps entering the kernel cannot put it off for ever: strong
fairness of `irq_clock`. A kernel step that has begun runs to its end: weak
fairness of loading and of fork. Nothing is assumed of programs: they need
never exit, wait or call anything. The liveness properties except behaviours in
which processes die infinitely often, because after a death the search restarts
at the head of the list and the code does let later processes starve.
`ConsoleSpec` has weak fairness of the shell's steps: it is a program that never
stops itself, and by `RoundRobin` such a program is run again and again. Keys and
the power controller are free to stay silent for ever; that is what `LineServed`
is about.

**Where the properties stop.** `FamilyOK`, `NoLostWakeup` and `ReapedByFather` hold
until a process that has children is freed (`orphaned`): from then on a father pointer
dangles, and the code reads through it. `NothingLeaks` holds until a call fails half
way; its error paths do lose pages. `ksize`, the return value of `process_waitpid` and
double frees by callers are not modelled. `FramesAccounted` counts the pages a failed
fork or boot lost apart. `WholeLine` is about a line that finds the stream empty, and
`RunsWhatWasTyped` holds until a line was cut (a stream partly full drops the end of a
line, its newline with it: `tty_input.c` ignores what `stream_write` returns) or a store
fell outside a screen, behind which the line being typed lies: then the shell runs what
nobody typed. `StaysInScreen` and `EchoBacked` hold until a key is echoed in the middle
of one of the shell's characters (`raced`), or a byte that takes no cell is typed
(`silent`: a backspace then erases a cell the line did not print), and `VgaShows` from
one switch of terminals to the first key that tears the screen (`torn`): the code does
no better, as `console_race` shows of the first. `LineServed` is about the terminal in
front: lines of another wait until it is switched to. `TextOK` leaves out what `strchr`
and `strrchr` do with characters of 128 and more (`s[i]`, a `char`, is signed and is
compared with `(unsigned char)c`, so that they are never found: `strchr.c:10`,
`strrchr.c:10`), with places past 127 (`strchr` casts the offset to `char`) and past 255
(`strrchr` casts it to `unsigned char`), and `strnstr` for an empty string in an empty
one, which it does not find. `BitmapSound` allows what the code does with a region that
begins inside a byte of the bitmap (`memory_init.c:28`: its neighbours are marked), and
knows no region above 4 GB, which would be folded into low memory (`memory_init.c:60`).
`AcpiOK` allows a read through NULL only in a full heap.

**Known and not a run.** The row of `SIGUSR2` in `blocked_sig` masks `SIGHUP`
(`signal.c:20`). A request 48 bytes short of whole pages gets an entry of exactly
its size, which `try_allocate` refuses (`heap_setup.c:80`), so that `kmalloc` returns
NULL with memory to spare. Both are in the models as they are in the code.

## 4. Proofs

All by TLAPS, for any number of processes, pids, signals, bytes, pages, terminals and
any size of block, line and screen, under the named assumptions of the modules
(`ProcsAssumption`, `PidAssumption`, `SigAssumption`, `StreamAssumption`,
`PagingAssumption`, `HeapAssumption`, `ProcMemAssumption`, `ConsoleAssumption`), which
TLC evaluates in the runs. A theorem with a hypothesis of its own says so below.

* `ProcessProofs`: `ProcessTypes`, `PidsAreUnique`, `ZombiesAreQuiet`, `NoSignalIsLost`,
  each `Spec => []P` or `Spec => [][A]_vars`. None is inductive alone. `TypeOK` says of
  structs not in use that they are clear, so that a write through a pointer left behind
  would show. The invariant `IInv` adds to it: every struct, on the list or not, is
  quiet if a zombie and otherwise has a mask covered by its queue, and is not its own
  father (`StructInv`; structs off the list matter since fork fills one before it is
  linked); the list has no struct twice and its pids are distinct and in range
  (`ListInv`); `current` is on the list and no zombie while it runs (`CurrentInv`); the
  struct fork fills is off the list, and its pid is no one's (`ForkInv`). The argument
  follows the code: each kernel function is shown to preserve `MachineInv` of the table
  it is given, then each action from the functions it composes. `not its own father` is
  what lets death write to the father and to the dying struct separately. `ListProofs`
  has what list_add, list_del and the search by position do to a list without
  repetitions.
* `FamilyProofs`: `FamilyIsOK`, `ZombiesReaped`, `ProcessIsPidTable` (the
  refinement) and, if `add_signal` can always
  allocate (`KmallocOutcomes = {TRUE}`), `NoWakeupLost`. `FInv` adds to `IInv`, as
  long as no process with children was freed: father pointers and children lists
  agree, the struct fork fills has no children, and `Wake`: a process that is served
  by the default routine of SIGCHLD and has none queued, stopped or not, has no
  zombie child it waits for or waited for last. Stopped alone would not be
  inductive: a process may stop at any time for another reason.
  That no call reads freed memory (`mode # "undefined"`) is part of the same
  invariant, since a dangling father is the only way there. `NoWakeupLost`
  needs its hypothesis: with a failing `kmalloc` the death of a child sends nothing
  and its father stays stopped.
  For the refinement every kernel function is shown, along with the family, to have
  one of six effects on what programs see (`Effect`): none (`Stays`), the end of the
  running process that stays (`Ends`) or goes (`Goes`) as its father minds (`Minded`), the
  reaping of an ended child, a new child (`Comes`), or a handler set (`Ignores`). A step
  composes a call with the scheduler and the delivery of a signal, of which only one
  has an effect (`EffectAfter`); `Visible` states it of the variables. The second half
  is about tables only: `StaysTable`, `ChangeTable`, `GoesTable`, `ComesTable` say what
  each effect makes of `TableOf`, given that pids are distinct and father pointers lead
  to processes on the list (`InOrder`), and `HasChildren` that the list of children is
  empty when no father pointer leads here, which decides `lost`.
* `StreamProofs`: `StreamTypes`, `RingIsSafe`, `StreamIsFifo` (the refinement),
  and `InterruptWriteReturns`. The invariant is types and `RingSafe`: each side's
  test stays true because the other only moves its own index, away. The
  refinement shows that advancing `end` appends the byte just stored, advancing
  `pos` takes the head, and every other step leaves `Contents` alone. The last
  theorem adds how many bytes fit when nobody reads meanwhile.
* `PagingProofs`: what `FirstRun` finds, and what `page_map`, `page_unmap`,
  `page_map_range` and its rollback do. The relation `Keeps(M, N, W)` says of all of
  them: pages only go between the bitmap and the tables, nothing is freed twice,
  and entries outside `W` that were present stay as they were. Loops of the code
  are recursive functions of the model; the lemmas `LoopRuns` and `LoopKeeps` show
  that they exist and keep an invariant round by round.
* `HeapProofs`: all six invariants of the run `heap` and its refinement. `BlockInv` says
  of every entry that its headers tile it and that of two free neighbours one is out of
  the reach of the walk, that entries are apart on virtual pages (so that a pointer has
  one entry), and that pointers and headers in use correspond. Splitting and merging are
  shown to keep it header by header. `PageInv` says that every page of an entry has a
  physical page that is neither free, nor a table, nor behind another page (`Backed`),
  that the pages of a `kmalloc` entry are in a row (`Contiguous`; `kdefrag` frees them
  as a run), and that until a failure all pages are accounted for. That `kdefrag` counts
  fewer pages than it mapped when the headers cross a page (`heap_setup.c:163`) is where
  the proof of `PagesAreApart` needs an inequality (`GivesBackLess`) and not an
  equation. `HeapIsAllocator` is the refinement of `Allocator`. Two units of one place
  are the same page and the same offset (`SamePlace`); since pages of entries are
  `Backed`, the page is one virtual page, of one entry, and since headers tile the
  entry, one block and its `k`-th unit (`BlocksDiffer`, `KernelElsewhere`). A block of
  `kmalloc` is in one piece because its entry is `Contiguous` (`BlockInRow`). For the
  steps it is enough that no call changes a table entry of a page that belonged to an
  entry before it and still does (`ReuseStays`, `GrowStays`, `FreeStays`), which for the
  release of an entry needs entries to be apart; so blocks stay (`BlockStays`), a new
  one is where its header is (`NewPointer`), and that it is apart from the others is the
  invariant behind the step (`HeldApart`). A call that comes to nothing, error paths
  included, is a `Fail`.
* `ProcMemProofs`: all five invariants of the run `memory` and its refinement. `MemInv`
  has four parts. `Typed`: the blocks of every process, ended ones too, lie in user
  pages and are apart from each other, virtually and physically, and those of a live one
  are not empty (`Slot`). `PagesHeld`: the page tables are sound, nothing was freed
  twice, and each page is in one of the bitmap and the tables, the blocks of one live
  process, and `lost` (`Accounts`). `Running`: the process that runs is mapped, all of
  it; none runs during boot, and after a panic pages are as many as tables at most
  (`Full`). `Left`: what else leads to a page is in `stale`. Each function is shown once
  for any memory: `Added` (`process_memory_add`, with its rollback), `SwitchedIn` and
  `SwitchedOut` (the two halves of a switch; the second cannot fail for a process that
  is mapped), `Gave` (`process_free_all_memory`) and `Copying` (`copy_blocks`: copies as
  large, at the same addresses, in pages that were free). The steps then regroup who has
  which pages (`Regroup`). That every address of `mmap` is free for the process
  (`TargetsFree`) is what keeps its blocks apart, and that zombies keep their code block
  in `mm_code`, freed as it is, is why `Accounts` counts live processes only.
  `MemoryIsPrivate` is the refinement of `PrivateMemory`, from `MemInv` before and
  behind a step. The contents of a process are those of its blocks, found by the page
  they begin at (`Shows`; no two begin at the same one, `Unique`). A page that a call
  changes belongs to the process that stores, was free (a new block, the copies of a
  fork), or has become a page table (`StaysStored`), and by `Accounts` none of the last
  two is another process's (`OthersKeep`). Then each action is one step of the abstract
  memory: `store` a `Write`, `mmap` a `Map`, `munmap` an `Unmap`, fork a `Fork`, death a
  `Free`, boot a `Load`; switches, reaping and every call that fails stutter.
* `ConsoleProofs`: the six safety properties of the run `console`, without a hypothesis:
  keys may come at any moment. The invariant has three parts (`ScreensInvariant`).
  `LineInv` says that what the shell has of a line followed by what is in the stream
  spells the lines typed and not run: there are offsets, one for each line, at which the
  line stands with its newline behind it. A character read moves the boundary, a newline
  takes the first line away, and a switch of terminals only happens with an empty line
  before it. A store behind the screen changes characters of the line being typed and
  not how many they are (`LinesArriveWhole`), and is the end of what
  `ShellRunsWhatWasTyped` claims. `CardInv` (`CardShowsTerminal`) says, as long as
  nothing is torn, what the card shows at each stage of a character or a switch: the
  cells before the one that is rendered next, all but the cursor, or everything. A
  switch starts over, whatever was there before. `CursorInv` (`StoresStayInScreen`,
  `EchoStands`), until a key races a character or a byte without a cell is typed, says
  where the cursor is at each of the stages (`Midway`), that the column the shell has
  read is still the column, and that at least the line being typed stands before it
  (`Behind`). An echo at rest may wrap, scroll or erase (`Echoes`), and one while the
  shell writes the card or copies tables is as at rest (`Resting`). Scrolling moves the
  cursor back by a row, and that the echo is still before it needs the longest line to
  fit on the rows above the last one: `STREAM_BUFF - 2 <= (VGA_HEIGHT - 1) * VGA_WIDTH`,
  which 128 and 25 by 80 do with room to spare (`ConsoleAssumption`). `InScreen` without
  `raced` is false; that is the run `console_race`.

What the proofs corrected in the models: `ReapedByFather` forgot that a father with pid
1 inherits the children of the zombie it reaps; two cases of `child_ended` overlapped;
the branch of `send_signal` for ignored signals was also open to signals that cannot be
ignored. The runs had passed with all three: the obligations did not go through.

Only model-checked: liveness (out of this prover's reach); and what `Library` checks,
results of loops and recursion over data, which need induction the prover cannot do
(`CLib` and `Printk` declare RECURSIVE operators).

## 5. Not modelled

* Descriptor tables, the interrupt controller, boot code and assembly stubs:
  port and table I/O in a fixed order, without a state that can go wrong later.
* Saved registers and stacks of processes, the kernel's stack, the TLB, flags of
  page table entries, `page_map_at`.
* `syscall.asm`, which no program reaches; `multiboot2.h`, which is third-party.
* `atof` (floating point), `striter`, `striteri`, `sstrlen`; `tty_setcolor`,
  `tty_putstr`, `tty_write`, `backtrace` and the testers, which keep no state or
  are not called.
* One model of everything at once: `Process` and `ProcMem` together, or `Process`
  with the entries of the heap, are beyond TLC at sizes where anything happens;
  section 2 says why the parts can be read side by side.

## 6. Plan

What a next step could add: the value `process_waitpid` returns, as part of its
outcome, so that `PidTable` could promise that a wait reports the status of the child
it reaps; and, with a prover that has them, the liveness properties of `process_live`.
