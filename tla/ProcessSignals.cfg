SPECIFICATION Spec
CONSTANTS
  i = i
  s = s
  a = a
  b = b
  NULL = NULL
  Procs <- ThreeSlots
  InitProc = i
  ShellProc = s
  PROC_MIN_PID = 1
  PROC_MAX_PID = 4
  Sigs <- TrapSigs
  KillSigs <- TrapKill
  KillPids <- ToChild
  WaitPids <- ToChildOrAll
  HandledSigs <- ChldOnly
  Statuses = {1}
  Uids = {1000}
  Faults <- Traps
  UserCs = TRUE
  KmallocOutcomes = {TRUE, FALSE}
  MaxQueued = 2
  MaxChildren = 2
INVARIANTS ZombieQuiet NoSignalLost
