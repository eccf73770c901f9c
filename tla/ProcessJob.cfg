SPECIFICATION Spec
CONSTANTS
  i = i
  s = s
  a = a
  b = b
  NULL = NULL
  Procs <- ThreeSlots
  InitProc = i
  ShellProc = s
  PROC_MIN_PID = 1
  PROC_MAX_PID = 4
  Sigs <- JobSigs
  KillSigs <- JobKill
  KillPids <- ToChild
  WaitPids <- EveryPid
  HandledSigs <- NoSigs
  Statuses = {1}
  Uids = {0}
  Faults <- NoFaults
  UserCs = FALSE
  KmallocOutcomes = {TRUE}
  MaxQueued = 1
  MaxChildren = 2
PROPERTY ContResumes
