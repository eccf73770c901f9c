----------------------------- MODULE MCProcess -----------------------------
(***************************************************************************)
(* Process for TLC: the slots, signals and exceptions of the runs.         *)
(***************************************************************************)
EXTENDS Process, TLC

CONSTANTS i, s, a, b

ThreeSlots == {i, s, a}
FourSlots == {i, s, a, b}
Sym == Permutations(FourSlots \ {i, s})

NoSigs == {}
ChldOnly == {SIGCHLD}
JobSigs == {SIGCHLD, SIGCONT, SIGTSTP}
JobKill == {SIGCONT, SIGTSTP}
LiveSigs == {SIGCHLD, SIGKILL, SIGTSTP, SIGSTOP}
LiveKill == {SIGKILL, SIGTSTP, SIGSTOP}
TrapSigs == {SIGCHLD, SIGHUP, SIGUSR2, SIGTRAP, SIGSTOP, SIGTSTP}
TrapKill == {SIGHUP, SIGUSR2, SIGSTOP, SIGTSTP}
Traps == {[signal |-> SIGTRAP, error |-> FALSE], [signal |-> -1, error |-> TRUE], [signal |-> 0, error |-> FALSE]}

NoFaults == {}

ToChild == {3}
ToChildOrAll == {-1, 3}
ToAll == {-1}
EveryPid == Pids \cup {-1}
=============================================================================
