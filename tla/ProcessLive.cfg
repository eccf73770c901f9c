SPECIFICATION FairSpec
CONSTANTS
  i = i
  s = s
  a = a
  b = b
  NULL = NULL
  Procs <- ThreeSlots
  InitProc = i
  ShellProc = s
  PROC_MIN_PID = 1
  PROC_MAX_PID = 4
  Sigs <- LiveSigs
  KillSigs <- LiveKill
  KillPids <- ToChildOrAll
  WaitPids <- ToChildOrAll
  HandledSigs <- NoSigs
  Statuses = {1}
  Uids = {0, 1000}
  Faults <- NoFaults
  UserCs = FALSE
  KmallocOutcomes = {TRUE}
  MaxQueued = 2
  MaxChildren = 2
PROPERTIES RoundRobin KillIsFatal WaitEnds
