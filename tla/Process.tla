------------------------------ MODULE Process ------------------------------
(***************************************************************************)
(* Processes, signals and the scheduler of the kernel: kernel/process/*.c, *)
(* switch_process, irq_clock and irq_general of boot/x86/IDT/idt.c, and    *)
(* the context switch of kernel/x86/interrupt_process.c.                   *)
(*                                                                         *)
(* The machine has one processor.  Everything below runs with interrupts   *)
(* off: handlers enter through interrupt gates, and programs bracket their *)
(* kernel calls by cli and sti (kernel/x86/user2.c:53-55), so a kernel     *)
(* call is one step.  The clock preempts a program between two calls.      *)
(*                                                                         *)
(* Memory is a set of slots, Procs, in which kmalloc places structs        *)
(* process.  A slot holds a struct as long as it is on process_list (or is *)
(* being filled by fork); a pointer to any other slot dangles, and reading *)
(* through it makes the machine's behaviour "undefined".  A freed slot may *)
(* be handed out again, and then a stale pointer reads the new struct.     *)
(***************************************************************************)
EXTENDS Lists

CONSTANTS
    Procs,          \* slots kmalloc can place a struct process in
    NULL,           \* the null pointer
    InitProc,       \* the slot of the process that runs init()
    ShellProc,      \* the slot of the process kmain creates after it
    PROC_MIN_PID,   \* inc/process.h
    PROC_MAX_PID,
    Sigs,           \* signal numbers in use
    KillSigs,       \* the ones kill is called with (0 included or not)
    KillPids,       \* the pids kill is called with
    WaitPids,       \* the pids process_waitpid is called with
    HandledSigs,    \* the signals signal is called with
    Statuses,       \* exit statuses
    Uids,           \* user ids the shell may have
    Faults,         \* the exceptions a program raises, part of signal_info
    UserCs,         \* do processes run outside GDT_SEG_KCODE?
    KmallocOutcomes,\* {TRUE}, or BOOLEAN when kmalloc may fail
    MaxQueued,      \* bound on the signals pending for a process
    MaxChildren     \* bound on the child nodes a process holds

SIGHUP  == 1
SIGTRAP == 5
SIGKILL == 9
SIGUSR2 == 12
SIGCHLD == 17
SIGCONT == 18
SIGSTOP == 19
SIGTSTP == 20
MaxSig  == 33       \* last index of struct signal.sig_handler and of sig_handler[]

RUN     == "RUN"
STOPPED == "STOPPED"
ZOMBIE  == "ZOMBIE"

\* signal_info, by what irq_general does with an entry: the signal it raises
\* (-1: none can be raised, 0: ignored) and whether the exception is an error.
signal_info ==
    {[signal |-> s, error |-> TRUE] : s \in {8, 4, 7, 11, -1}}
        \cup {[signal |-> SIGTRAP, error |-> FALSE], [signal |-> 0, error |-> FALSE]}

Pids == PROC_MIN_PID .. PROC_MAX_PID

ASSUME ProcsAssumption ==
    /\ InitProc \in Procs /\ ShellProc \in Procs /\ InitProc # ShellProc
    /\ NULL \notin Procs

ASSUME PidAssumption ==
    /\ PROC_MIN_PID = 1
    /\ PROC_MAX_PID \in Nat /\ PROC_MAX_PID > PROC_MIN_PID + 2

ASSUME SigAssumption ==
    /\ Sigs \subseteq 1..MaxSig /\ SIGCHLD \in Sigs
    /\ KillSigs \subseteq Sigs \cup {0}
    /\ HandledSigs \subseteq Sigs
    /\ KillPids \subseteq Pids \cup {-1} /\ WaitPids \subseteq Pids \cup {-1}
    /\ Faults \subseteq signal_info
    /\ \A f \in Faults : f.signal > 0 => f.signal \in Sigs
    /\ UserCs \in BOOLEAN
    /\ KmallocOutcomes \subseteq BOOLEAN /\ TRUE \in KmallocOutcomes
    /\ MaxQueued \in Nat /\ MaxChildren \in Nat
    /\ Statuses \subseteq 0..255 /\ Uids \subseteq Nat

VARIABLES
    proc,           \* slot -> struct process
    process_list,   \* the structs on process_list, from its head
    last_pid,       \* static of process_alloc_pid
    current,        \* NULL while process_hlt runs
    mode,           \* what the processor is doing, see Modes
    fork_new,       \* the struct fork is filling
    fork_todo,      \* the father's signals copy_process has still to copy
    orphaned        \* history: has a struct been freed that had children?

vars == <<proc, process_list, last_pid, current, mode, fork_new, fork_todo, orphaned>>

\* "run": a program; "load": proc_switch_p is about to resume current;
\* "fork": copy_process is copying signals; the rest are the ends of the world.
Modes == {"run", "load", "fork", "panic", "hang", "undefined"}

-----------------------------------------------------------------------------
(* struct process *)

Entry == [sig : Sigs, hard : BOOLEAN]      \* struct sig_queue

Handlers == {"NULL", "dfl", "ign", "user"} \* dfl and ign are kernel routines

Struct ==
    [state : {RUN, STOPPED, ZOMBIE}, pid : Pids \cup {0}, uid : Nat,
     father : Procs \cup {NULL}, children : Seq(Procs),
     waiting_pid : Int, waiting_return : Int, end_value : Int,
     sig_queue : Seq(Entry), sig_avalaible : SUBSET (1..32),
     sig_handler : [Sigs -> Handlers]]

\* process_new: the struct is zeroed and its lists made empty.
process_new ==
    [state |-> RUN, pid |-> 0, uid |-> 0, father |-> NULL, children |-> <<>>,
     waiting_pid |-> 0, waiting_return |-> 0, end_value |-> 0,
     sig_queue |-> <<>>, sig_avalaible |-> {},
     sig_handler |-> [s \in Sigs |-> "NULL"]]

-----------------------------------------------------------------------------
(* A kernel call works on the process table: M.proc, M.list, and M.bad once *)
(* it has read through a dangling pointer.                                  *)

Machine == [proc |-> proc, list |-> process_list, bad |-> FALSE]

Live(M) == {p \in Procs : Has(M.list, p)}

process_get_with_pid(M, pid) ==
    LET first == {i \in 1..Len(M.list) : /\ M.proc[M.list[i]].pid = pid
                                         /\ \A j \in 1..(i - 1) : M.proc[M.list[j]].pid # pid}
    IN  IF first = {} THEN NULL ELSE M.list[CHOOSE i \in first : TRUE]

-----------------------------------------------------------------------------
(* process_alloc_pid.  The k-th candidate, from k = 0, is last_pid and then *)
(* runs round PROC_MIN_PID .. PROC_MAX_PID - 1.                             *)

PidRing == PROC_MAX_PID - PROC_MIN_PID
PidAfter_no_wrap(pid) == pid + 1
PidAfter(pid) == IF pid + 1 >= PROC_MAX_PID THEN PROC_MIN_PID ELSE pid + 1
PidCandidate(last, k) ==
    IF k = 0 THEN last
    ELSE PROC_MIN_PID + ((PidAfter(last) - PROC_MIN_PID + k - 1) % PidRing)

FreeTries_unchecked(M, last) == {0}
FreeTries(M, last) ==
    {k \in 0..PidRing : /\ \A p \in Live(M) : M.proc[p].pid # PidCandidate(last, k)
                        /\ \A j \in 0..(k - 1) :
                              \E p \in Live(M) : M.proc[p].pid = PidCandidate(last, j)}

\* pid is 0 when the call fails; last_pid is then left one past the last
\* candidate, without the wrap.
process_alloc_pid(M, last) ==
    LET tries == FreeTries(M, last)
        k == CHOOSE t \in tries : TRUE
    IN  IF tries = {}
        THEN [pid |-> 0, last |-> PidCandidate(last, PidRing + 1) + 1]
        ELSE [pid |-> PidCandidate(last, k), last |-> PidAfter(PidCandidate(last, k))]

-----------------------------------------------------------------------------
(* Signals *)

\* blocked_sig: what a pending signal masks.  Bit n stands for 1 << (n - 1).
blocked_sig(sig) ==
    CASE sig \in {SIGKILL, SIGSTOP} -> {}
      [] sig = SIGUSR2              -> {SIGHUP}
      [] sig \in 32..MaxSig         -> {}
      [] OTHER                      -> {sig}

\* A shift by 32 is a shift by 0 on this processor.
SIG_UNAVAILABLE(mask, sig) == (((sig - 1) % 32) + 1) \in mask

\* The default routines, in the order of the C array, whose first index is 0.
sig_handler ==
    << "sig_term", "sig_term", "sig_core", "sig_core", "sig_core", "sig_core",
       "sig_core", "sig_core", "sig_core", "sig_term", "sig_term", "sig_core",
       "sig_term", "sig_term", "sig_term", "sig_term", "sig_term", "child_ended",
       "sig_ign",  "sig_cont", "sig_stop", "sig_stop", "sig_stop", "sig_stop",
       "sig_ign",  "sig_core", "sig_core", "sig_term", "sig_term", "sig_ign",
       "sig_term", "sig_core", "sig_term", "sig_core" >>

\* add_signal on the struct P; ok tells whether its kmalloc succeeds.
add_signal(P, sig, hard, ok) ==
    IF \/ sig = 0 \/ P.state = ZOMBIE \/ ~ok
       \/ ~hard /\ SIG_UNAVAILABLE(P.sig_avalaible, sig)
    THEN P
    ELSE LET e == [sig |-> sig, hard |-> hard]
         IN  [P EXCEPT !.sig_queue = IF hard THEN <<e>> \o @ ELSE Append(@, e),
                       !.sig_avalaible = @ \cup blocked_sig(sig)]

\* Does add_signal on the struct P return an error?
add_signal_fails(P, sig, hard, ok) ==
    /\ sig # 0
    /\ \/ P.state = ZOMBIE
       \/ ~ok /\ (hard \/ ~SIG_UNAVAILABLE(P.sig_avalaible, sig))

\* The routine send_signal calls for the entry e of the struct P.  A user
\* handler is only marked as executing; nothing is called.
routine(P, e) ==
    CASE P.sig_handler[e.sig] \in {"NULL", "dfl"} \/ e.hard -> sig_handler[e.sig + 1]
      [] P.sig_handler[e.sig] = "ign" /\ ~e.hard            -> "sig_ign"
      [] OTHER                                              -> "user"

-----------------------------------------------------------------------------
(* Death *)

\* As free_process, but the father keeps the child's node.
free_process_keep_node(M, p) ==
    IF M.proc[p].father # NULL /\ M.proc[p].father \notin Live(M)
    THEN [M EXCEPT !.bad = TRUE]
    ELSE [M EXCEPT !.proc[p] = process_new, !.list = list_del(M.list, p)]

\* free_process: off the list, off the father's children, and its own child
\* nodes one by one to the head of the children of pid 1, if there is one.
free_process(M, p) ==
    LET father == M.proc[p].father
        list   == list_del(M.list, p)
        T1     == IF father = NULL THEN M.proc
                  ELSE [M.proc EXCEPT ![father].children = list_del(@, p)]
        one    == process_get_with_pid([M EXCEPT !.list = list], PROC_MIN_PID)
        T2     == IF one = NULL THEN T1
                  ELSE [T1 EXCEPT ![one].children = Reverse(T1[p].children) \o @]
    IN  IF father # NULL /\ father \notin Live(M)
        THEN [M EXCEPT !.bad = TRUE]
        ELSE [M EXCEPT !.proc = [T2 EXCEPT ![p] = process_new], !.list = list]

\* As process_die_safe, but the queue is left as it is.
process_die_safe_keep_queue(M, p, ok) ==
    LET father == M.proc[p].father
        T      == [M.proc EXCEPT ![father] = add_signal(@, SIGCHLD, FALSE, ok),
                                 ![p].state = ZOMBIE]
    IN  CASE father = NULL -> free_process([M EXCEPT !.proc[p].state = ZOMBIE], p)
          [] father # NULL /\ father \notin Live(M) -> [M EXCEPT !.bad = TRUE]
          [] OTHER -> IF T[father].sig_handler[SIGCHLD] # "NULL"
                      THEN free_process([M EXCEPT !.proc = T], p)
                      ELSE [M EXCEPT !.proc = T]

\* process_die_safe, up to the choice of the next process.
process_die_safe(M, p, ok) ==
    LET father == M.proc[p].father
        T1     == [M.proc EXCEPT ![p].sig_queue = <<>>]
        T2     == [T1 EXCEPT ![father] = add_signal(@, SIGCHLD, FALSE, ok)]
    IN  IF father = NULL
        THEN free_process([M EXCEPT !.proc = [T1 EXCEPT ![p].state = ZOMBIE]], p)
        ELSE IF father \notin Live(M)
        THEN [M EXCEPT !.bad = TRUE]
        ELSE IF T2[father].sig_handler[SIGCHLD] # "NULL"
        THEN free_process([M EXCEPT !.proc = [T2 EXCEPT ![p].state = ZOMBIE]], p)
        ELSE [M EXCEPT !.proc = [T2 EXCEPT ![p].state = ZOMBIE]]

-----------------------------------------------------------------------------
(* Waiting *)

\* As end_of_child, but the father is not set running.
end_of_child_no_run(M, child, father) ==
    free_process([M EXCEPT !.proc[father].waiting_return = M.proc[child].end_value,
                           !.proc[father].waiting_pid = M.proc[child].pid], child)

end_of_child(M, child, father) ==
    LET C  == M.proc[child]
        M1 == free_process([M EXCEPT !.proc[father].waiting_return = C.end_value,
                                     !.proc[father].waiting_pid = C.pid], child)
    IN  IF M1.bad THEN M1 ELSE [M1 EXCEPT !.proc[father].state = RUN]

\* The walk along the children of f, up to the first one in the set wanted:
\* NULL if there is none; it reads every struct it passes.
Walk(M, f, wanted) ==
    LET ch    == M.proc[f].children
        stop  == {i \in 1..Len(ch) : /\ ch[i] \notin Live(M) \/ ch[i] \in wanted
                                     /\ \A j \in 1..(i - 1) : /\ ch[j] \in Live(M)
                                                              /\ ch[j] \notin wanted}
    IN  IF stop = {} THEN NULL ELSE ch[CHOOSE i \in stop : TRUE]

\* As child_ended, but only for a process that waits for any child.
child_ended_any(M, f) ==
    LET wanted == {c \in Live(M) : M.proc[c].state = ZOMBIE /\ M.proc[f].waiting_pid = -1}
        c      == Walk(M, f, wanted)
    IN  IF c = NULL THEN M
        ELSE IF c \notin Live(M) THEN [M EXCEPT !.bad = TRUE] ELSE end_of_child(M, c, f)

\* As child_ended, but it does not look at the state of the child.
child_ended_living(M, f) ==
    LET w      == M.proc[f].waiting_pid
        wanted == {c \in Live(M) : w = -1 \/ M.proc[c].pid = w}
        c      == Walk(M, f, wanted)
    IN  IF c = NULL THEN M
        ELSE IF c \notin Live(M) THEN [M EXCEPT !.bad = TRUE] ELSE end_of_child(M, c, f)

child_ended(M, f) ==
    LET w      == M.proc[f].waiting_pid
        wanted == {c \in Live(M) : /\ M.proc[c].state = ZOMBIE
                                   /\ w = -1 \/ M.proc[c].pid = w}
        c      == Walk(M, f, wanted)
    IN  IF c = NULL THEN M
        ELSE IF c \notin Live(M) THEN [M EXCEPT !.bad = TRUE] ELSE end_of_child(M, c, f)

\* As process_waitpid, but it blocks without looking for a zombie.
process_waitpid_blind(M, f, w, nohang) ==
    IF nohang \/ M.proc[f].children = <<>> THEN M
    ELSE [M EXCEPT !.proc[f].state = STOPPED, !.proc[f].waiting_pid = w]

\* process_waitpid, its effect on the process table.  The call that has to
\* wait marks the caller STOPPED and returns: it runs on until the next tick.
process_waitpid(M, f, w, nohang) ==
    LET P      == M.proc[f]
        wanted == {c \in Live(M) : \/ w = -1 /\ M.proc[c].state = ZOMBIE
                                   \/ M.proc[c].pid = w}
        c      == Walk(M, f, wanted)
        block  == IF nohang THEN M
                  ELSE [M EXCEPT !.proc[f].state = STOPPED, !.proc[f].waiting_pid = w]
    IN  IF P.waiting_return # 0 /\ (P.waiting_pid = w \/ w = -1)
        THEN [M EXCEPT !.proc[f].waiting_return = 0]
        ELSE CASE c = NULL -> IF w = -1 /\ P.children # <<>> THEN block ELSE M
               [] c # NULL /\ c \notin Live(M) -> [M EXCEPT !.bad = TRUE]
               [] OTHER -> IF M.proc[c].state # ZOMBIE THEN block
                           ELSE LET M1 == end_of_child(M, c, f)
                                IN  IF M1.bad THEN M1
                                    ELSE [M1 EXCEPT !.proc[f].waiting_return = 0]

-----------------------------------------------------------------------------
(* The scheduler *)

runnable_no_signals(P) == P.state = RUN
runnable(P) == P.state = RUN \/ P.sig_queue # <<>>

\* As switch_process, but the walk always starts at the head of the list.
switch_process_from_head(M, cur) ==
    LET first == {i \in 1..Len(M.list) : /\ runnable(M.proc[M.list[i]])
                                         /\ \A j \in 1..(i - 1) : ~runnable(M.proc[M.list[j]])}
    IN  IF M.bad \/ first = {} THEN [cur |-> NULL, mode |-> "panic"]
        ELSE [cur |-> M.list[CHOOSE k \in first : TRUE], mode |-> "load"]

\* switch_process: the ring is walked from the one after cur and ends with
\* cur itself.  Without a cur it starts at the head of the list and, as
\* no element of it is the null pointer, has no end.
switch_process(M, cur) ==
    LET n     == Len(M.list)
        start == IF cur = NULL THEN 0 ELSE Pos(M.list, cur)
        at(k) == M.list[((start + k - 1) % n) + 1]
        first == {k \in 1..n : /\ runnable(M.proc[at(k)])
                               /\ \A j \in 1..(k - 1) : ~runnable(M.proc[at(j)])}
    IN  CASE M.bad -> [cur |-> cur, mode |-> "undefined"]
          [] ~M.bad /\ first # {} -> [cur |-> at(CHOOSE k \in first : TRUE), mode |-> "load"]
          [] ~M.bad /\ first = {} /\ n = 0 -> [cur |-> NULL, mode |-> "panic"]
          [] ~M.bad /\ first = {} /\ n # 0 /\ cur = NULL -> [cur |-> NULL, mode |-> "hang"]
          [] OTHER -> IF \E i \in 1..n : M.proc[M.list[i]].state # ZOMBIE
                      THEN [cur |-> NULL, mode |-> "run"]     \* process_hlt
                      ELSE [cur |-> NULL, mode |-> "panic"]   \* "No more task"

\* The table becomes M and the processor goes on as next says.
Install(M, next) ==
    /\ proc' = M.proc
    /\ process_list' = M.list
    /\ current' = next.cur
    /\ mode' = next.mode
    /\ orphaned' = (orphaned \/ \E p \in Procs : /\ Has(process_list, p) /\ ~Has(M.list, p)
                                                 /\ proc[p].children # <<>>)
    /\ UNCHANGED <<last_pid, fork_new, fork_todo>>

\* Back to the program, or to nowhere.
Resume(M, cur) == [cur |-> cur, mode |-> IF M.bad THEN "undefined" ELSE "run"]

irq_clock == mode = "run" /\ Install(Machine, switch_process(Machine, current))

-----------------------------------------------------------------------------
(* proc_switch_p: load current, deliver one of its signals, and go on with  *)
(* it only if that left it in state RUN.                                    *)

\* The signal sent stays masked.
sent_still_masked(M, p) ==
    IF M.bad \/ M.proc[p].state = ZOMBIE THEN M ELSE [M EXCEPT !.proc[p].sig_queue = Tail(@)]

\* What is left to do when the routine has returned: unmask the signal and
\* take the entry off the queue.  Nothing for a process that has died.
sent(M, p) ==
    IF M.bad \/ M.proc[p].state = ZOMBIE THEN M
    ELSE [M EXCEPT !.proc[p].sig_avalaible = @ \ blocked_sig(Head(M.proc[p].sig_queue).sig),
                   !.proc[p].sig_queue = Tail(@)]

Loaded(M) ==
    Install(M, IF ~M.bad /\ M.proc[current].state = RUN THEN Resume(M, current)
               ELSE switch_process(M, current))

\* Nothing to send; a signal found queued for a zombie would be dropped.
send_nothing ==
    /\ mode = "load" /\ (proc[current].sig_queue = <<>> \/ proc[current].state = ZOMBIE)
    /\ Loaded([Machine EXCEPT !.proc[current].sig_queue = IF @ = <<>> THEN @ ELSE Tail(@)])

Sending(r) == /\ mode = "load" /\ proc[current].sig_queue # <<>>
              /\ proc[current].state # ZOMBIE
              /\ routine(proc[current], Head(proc[current].sig_queue)) = r

signum == Head(proc[current].sig_queue).sig

\* process_die never returns: it ends in switch_process with current = NULL.
Die(end_value, ok) ==
    LET M == process_die_safe([Machine EXCEPT !.proc[current].end_value = end_value],
                              current, ok)
    IN  Install(M, switch_process(M, NULL))

sig_term == Sending("sig_term") /\ \E ok \in KmallocOutcomes : Die(signum, ok)

\* signum & WAIT_COREFLAG
sig_core == /\ Sending("sig_core")
            /\ \E ok \in KmallocOutcomes : Die(128 * ((signum \div 128) % 2), ok)

sig_ign == Sending("sig_ign") /\ Loaded(sent(Machine, current))

send_user == Sending("user") /\ Loaded(sent(Machine, current))

sig_stop ==
    /\ Sending("sig_stop")
    /\ Loaded(sent([Machine EXCEPT !.proc[current].end_value = signum * 256 + 127,
                                   !.proc[current].state = STOPPED], current))

sig_cont ==
    /\ Sending("sig_cont")
    /\ Loaded(sent([Machine EXCEPT !.proc[current].end_value = 65535,
                                   !.proc[current].state = RUN], current))

send_child_ended == /\ Sending("child_ended")
                    /\ Loaded(sent(child_ended(Machine, current), current))

-----------------------------------------------------------------------------
(* Kernel calls of the running program.  init() only ever waits.            *)

IsInit(p) == proc[p].pid = PROC_MIN_PID /\ proc[p].father = NULL
Calls == mode = "run" /\ current # NULL
UserCalls == Calls /\ ~IsInit(current)

exit(status) ==
    UserCalls /\ \E ok \in KmallocOutcomes : Die(status * 256, ok)

call_waitpid(w, nohang) ==
    /\ Calls /\ (IsInit(current) => w = -1 /\ nohang)
    /\ LET M == process_waitpid(Machine, current, w, nohang)
       IN  Install(M, Resume(M, current))

\* kill, to one process or, with pid = -1, to all.
kill(pid, sig) ==
    LET target(p) == /\ Has(process_list, p) /\ proc[p].state # ZOMBIE
                     /\ pid = -1 \/ proc[p].pid = pid
                     /\ proc[current].uid = 0 \/ proc[current].uid = proc[p].uid
    IN  /\ UserCalls
        /\ \A p \in Procs : target(p) => Len(proc[p].sig_queue) < MaxQueued
        /\ \E ok \in [Procs -> KmallocOutcomes] :
              proc' = [p \in Procs |-> IF target(p) THEN add_signal(proc[p], sig, FALSE, ok[p])
                                       ELSE proc[p]]
        /\ UNCHANGED <<process_list, last_pid, current, mode, fork_new, fork_todo, orphaned>>

\* signal: SIG_DFL stores the default kernel routine itself, not NULL.
signal(sig, handler) ==
    /\ UserCalls /\ sig \notin {SIGKILL, SIGSTOP}
    /\ proc' = [proc EXCEPT ![current].sig_handler[sig] = handler]
    /\ UNCHANGED <<process_list, last_pid, current, mode, fork_new, fork_todo, orphaned>>

\* irq_general for an exception of the running program.
irq_general(info) ==
    /\ UserCalls
    /\ \E ok \in KmallocOutcomes :
         LET raise == info.signal >= 0 /\ UserCs
             fails == add_signal_fails(proc[current], info.signal, TRUE, ok)
             M     == [Machine EXCEPT !.proc[current] = add_signal(@, info.signal, TRUE, ok)]
         IN  \/ /\ raise /\ ~fails
                /\ Len(proc[current].sig_queue) < MaxQueued
                /\ Install(M, switch_process(M, current))
             \/ /\ (raise /\ fails) \/ (~raise /\ info.error)
                /\ Die(proc[current].end_value, ok)
             \/ /\ ~raise /\ ~info.error
                /\ Install(Machine, Resume(Machine, current))

-----------------------------------------------------------------------------
(* fork *)

\* process_new, process_alloc_pid and the copy of the memory, which may fail.
fork_start(new) ==
    LET alloc == process_alloc_pid(Machine, last_pid)
    IN  /\ UserCalls /\ ~Has(process_list, new)
        /\ \A p \in Procs : Len(proc[p].children) < MaxChildren
        /\ last_pid' = alloc.last
        /\ \/ /\ alloc.pid # 0
              /\ proc' = [proc EXCEPT ![new] = [process_new EXCEPT !.pid = alloc.pid]]
              /\ mode' = "fork" /\ fork_new' = new
              /\ fork_todo' = proc[current].sig_queue
           \/ /\ alloc.pid = 0 \/ FALSE \in KmallocOutcomes
              /\ UNCHANGED <<proc, mode, fork_new, fork_todo>>
        /\ UNCHANGED <<process_list, current, orphaned>>

\* One turn of the loop over the father's pending signals.
fork_signal ==
    /\ mode = "fork" /\ fork_todo # <<>>
    /\ \E ok \in KmallocOutcomes :
          proc' = [proc EXCEPT ![fork_new] =
                      add_signal(@, Head(fork_todo).sig, Head(fork_todo).hard, ok)]
    /\ fork_todo' = Tail(fork_todo)
    /\ UNCHANGED <<process_list, last_pid, current, mode, fork_new, orphaned>>

\* The rest of copy_process, and its failure path.
fork_end(ok) ==
    /\ mode = "fork" /\ fork_todo = <<>>
    /\ IF ok
       THEN /\ proc' = [proc EXCEPT
                 ![fork_new].state = proc[current].state,
                 ![fork_new].uid = proc[current].uid,
                 ![fork_new].father = current,
                 ![current].children = <<fork_new>> \o @]
            /\ process_list' = list_add(process_list, fork_new, current)
       ELSE /\ proc' = [proc EXCEPT ![fork_new] = process_new]
            /\ process_list' = process_list
    /\ mode' = "run" /\ fork_new' = NULL
    /\ UNCHANGED <<last_pid, current, fork_todo, orphaned>>

-----------------------------------------------------------------------------

\* init_process and kmain: init has pid 1, the shell is added in front of it,
\* and kmain's hlt loop runs as no process.
Init ==
    /\ \E uid \in Uids :
         proc = [p \in Procs |->
                   CASE p = InitProc  -> [process_new EXCEPT !.pid = PROC_MIN_PID]
                     [] p = ShellProc -> [process_new EXCEPT !.pid = PROC_MIN_PID + 1, !.uid = uid]
                     [] OTHER         -> process_new]
    /\ process_list = <<ShellProc, InitProc>>
    /\ last_pid = PROC_MIN_PID + 2
    /\ current = NULL
    /\ mode = "run"
    /\ fork_new = NULL
    /\ fork_todo = <<>>
    /\ orphaned = FALSE

Deliver == \/ send_nothing \/ sig_term \/ sig_core \/ sig_ign \/ send_user
           \/ sig_stop \/ sig_cont \/ send_child_ended

Fork == (\E new \in Procs : fork_start(new)) \/ fork_signal \/ (\E ok \in KmallocOutcomes : fork_end(ok))

Call == \/ \E status \in Statuses : exit(status)
        \/ \E w \in WaitPids \cup {-1}, nohang \in BOOLEAN : call_waitpid(w, nohang)
        \/ \E pid \in KillPids, sig \in KillSigs : kill(pid, sig)
        \/ \E sig \in HandledSigs, h \in Handlers \ {"NULL"} : signal(sig, h)
        \/ \E info \in Faults : irq_general(info)

\* A machine that has panicked, hangs, or does anything whatever, stays so.
Halted == mode \in {"panic", "hang", "undefined"} /\ UNCHANGED vars

Next == irq_clock \/ Deliver \/ Call \/ Fork \/ Halted

Spec == Init /\ [][Next]_vars

(* The clock interrupt is latched by the PIC while interrupts are off and is *)
(* taken as soon as they are on again: however often the program enters the  *)
(* kernel it cannot put the tick off for ever, SF_vars(irq_clock).  A kernel *)
(* step once begun runs to its end, WF_vars(Deliver) and WF_vars(Fork).      *)
(* The mode tells when these are enabled, and is used in place of ENABLED.   *)
(* Nothing is assumed of the programs.                                       *)
Fairness == /\ []<>(mode = "run") => []<><<irq_clock>>_vars
            /\ []<>(mode # "load")
            /\ []<>(mode # "fork")

FairSpec == Spec /\ Fairness

-----------------------------------------------------------------------------
(* Properties *)

Alive(p) == Has(process_list, p)
Queued(p, sig) == \E i \in 1..Len(proc[p].sig_queue) : proc[p].sig_queue[i].sig = sig

\* The variables hold what their C declarations say, and the processor is in a
\* mode that fits the other variables.
Typed ==
    /\ proc \in [Procs -> Struct]
    /\ process_list \in Seq(Procs)
    /\ last_pid \in Pids
    /\ current \in Procs \cup {NULL}
    /\ mode \in Modes
    /\ fork_new \in Procs \cup {NULL}
    /\ fork_todo \in Seq(Entry)
    /\ orphaned \in BOOLEAN
    /\ mode = "load" => current # NULL
    /\ mode = "fork" => current # NULL /\ fork_new # NULL

\* A struct that is neither on process_list nor being filled by fork is clear.
Clear == \A p \in Procs : ~Alive(p) /\ p # fork_new => proc[p] = process_new

\* process_new, free_process: the variables are of their types, and no kernel
\* call writes to a struct that is not in use, whatever pointers to it are left.
TypeOK == Typed /\ Clear

\* process_alloc_pid (process_new.c:4-25): whatever processes have come and
\* gone and however often the counter has wrapped, no two structs on
\* process_list have the same pid, no struct is on it twice, and the running
\* process is on it.
PidsUnique ==
    /\ \A i, j \in 1..Len(process_list) :
          i # j => /\ process_list[i] # process_list[j]
                   /\ proc[process_list[i]].pid # proc[process_list[j]].pid
    /\ \A i \in 1..Len(process_list) : proc[process_list[i]].pid \in Pids
    /\ current # NULL => Alive(current)

\* process_die_safe (process_die.c:36-63) with add_signal (signal.c:168): a
\* zombie has no pending signal and gets none, so that the scheduler, which
\* takes any process with a pending signal, never resumes a dead program.
ZombieQuiet ==
    \A p \in Procs : Alive(p) /\ proc[p].state = ZOMBIE =>
        /\ proc[p].sig_queue = <<>>
        /\ mode \in {"run", "load", "fork"} => current # p

\* add_signal and send_signal (signal.c:122-191): a bit of the mask is set
\* only as long as a signal that sets it waits in the queue.  A bit left behind
\* would make add_signal drop that signal for the rest of the process's life.
NoSignalLost ==
    \A p \in Procs : Alive(p) /\ proc[p].state # ZOMBIE =>
        \A b \in proc[p].sig_avalaible :
            \E s \in Sigs : Queued(p, s) /\ b \in blocked_sig(s)

\* free_process, copy_process (free_process.c, copy_process.c:69-87): until a
\* process is freed that still has children, the father pointers and the
\* children lists agree, nothing on them dangles, and so no call of this code
\* reads freed memory.
FamilyOK ==
    ~orphaned =>
        /\ mode # "undefined"
        /\ \A p \in Procs : Alive(p) =>
             /\ proc[p].father # NULL => /\ Alive(proc[p].father)
                                         /\ Has(proc[proc[p].father].children, p)
             /\ \A i, j \in 1..Len(proc[p].children) :
                  /\ Alive(proc[p].children[i]) /\ proc[proc[p].children[i]].father = p
                  /\ i # j => proc[p].children[i] # proc[p].children[j]

\* f waits for a child that is a zombie, and did not give SIGCHLD a handler.
Woken(f) ==
    /\ ~orphaned /\ Alive(f) /\ proc[f].state = STOPPED
    /\ proc[f].sig_handler[SIGCHLD] = "NULL"
    /\ \E i \in 1..Len(proc[f].children) :
         LET c == proc[f].children[i]
         IN  /\ proc[c].state = ZOMBIE
             /\ proc[f].waiting_pid = -1 \/ proc[f].waiting_pid = proc[c].pid

\* process_waitpid and child_ended (process_wait.c): a process that waits for
\* a child that is a zombie has the SIGCHLD pending that will wake it.  The
\* call marks the caller STOPPED long before it stops running, and SIGCHLDs of
\* several children are merged into one.
NoLostWakeup == \A f \in Procs : Woken(f) => Queued(f, SIGCHLD)

\* end_of_child (process_wait.c:7-14): a zombie is freed by nobody but its
\* father, in a step of the father, which is told the zombie's pid, runs again,
\* and keeps its other children; it gets no new ones but, if it has pid 1, those
\* of the zombie.
ReapedByFather ==
    [][\A p \in Procs :
         (~orphaned /\ Alive(p) /\ proc[p].state = ZOMBIE /\ ~Alive(p)') =>
            LET f == proc[p].father
            IN  /\ f = current
                /\ proc'[f].waiting_pid = proc[p].pid
                /\ proc'[f].state = RUN
                /\ \A c \in Procs : c # p =>
                     (Has(proc'[f].children, c) <=>
                         \/ Has(proc[f].children, c)
                         \/ proc[f].pid = PROC_MIN_PID /\ Has(proc[p].children, c))
      ]_vars

Stopped == mode \in {"panic", "hang", "undefined"}
Death == \E p \in Procs : Alive(p) /\ proc[p].state # ZOMBIE /\ (~Alive(p)' \/ proc'[p].state = ZOMBIE)
Deaths == []<><<Death>>_vars

\* switch_process (idt.c:72-106): a process that can run gets the processor in
\* the end, unless the machine stops or processes keep dying: after each death
\* the walk starts again at the head of the list and may never get further.
RoundRobin ==
    Deaths \/ \A p \in Procs :
        (Alive(p) /\ proc[p].state = RUN) ~> (current = p \/ ~Alive(p) \/ proc[p].state # RUN \/ Stopped)

\* send_signal (signal.c:122-157), "Kill, unblockable" (signal.h:16): a process
\* with a SIGKILL pending dies, stopped or not and whatever else is queued
\* before it, under the same condition on the scheduler.
KillIsFatal ==
    Deaths \/ \A p \in Procs :
        (Alive(p) /\ Queued(p, SIGKILL)) ~> (~Alive(p) \/ proc[p].state = ZOMBIE \/ Stopped)

\* child_ended (process_wait.c:16-34): a process that waits for a child that is
\* a zombie is set running in the end, whatever else it is sent meanwhile.
WaitEnds ==
    Deaths \/ \A f \in Procs : Woken(f) ~> (~Woken(f) \/ Stopped)

\* signal.c:105 and signal.h:26 "Continue (POSIX)": SIGCONT, with no handler
\* installed, sets a stopped process running.
ContResumes ==
    [][\A p \in Procs :
         (/\ mode = "load" /\ current = p /\ proc[p].sig_queue # <<>>
          /\ Head(proc[p].sig_queue).sig = SIGCONT
          /\ proc[p].sig_handler[SIGCONT] = "NULL")
         => proc'[p].state = RUN]_vars

\* exit.c:9 "WE MUST SWITCH PROSESS ON process_die", interrupt_process.c:118: the
\* search for a process to run comes to an end, if need be with process_hlt.
SwitchEnds == mode # "hang"

-----------------------------------------------------------------------------
(* What programs see of the process table *)

\* The end_value of a process that has not ended, which stopping it also sets,
\* is shown to nobody.
Seen(T, P) ==
    [father |-> IF P.father = NULL THEN 0 ELSE T[P.father].pid,
     ended  |-> P.state = ZOMBIE,
     status |-> IF P.state = ZOMBIE THEN P.end_value ELSE 0,
     keeps  |-> P.sig_handler[SIGCHLD] = "NULL"]

PidsInUse(T, l) == {T[p].pid : p \in {q \in Procs : Has(l, q)}}

Owner(T, l, n) == CHOOSE p \in Procs : Has(l, p) /\ T[p].pid = n

TableOf(T, l) == [n \in PidsInUse(T, l) |-> Seen(T, T[Owner(T, l, n)])]

Table   == TableOf(proc, process_list)
Running == IF current = NULL THEN 0 ELSE proc[current].pid

Promise == INSTANCE PidTable WITH table <- Table, running <- Running, lost <- orphaned

\* fork, exit, process_die_safe, process_waitpid, child_ended, free_process: the
\* process table keeps the promise of PidTable.  A pid is given to nobody as
\* long as the process is there, ended or not; only the running process ends,
\* by itself; an ended one and its status stay as they are until its father
\* reaps it, and it is kept for its father unless that has set a handler.
IsPidTable == Promise!PidTableSpec
=============================================================================
