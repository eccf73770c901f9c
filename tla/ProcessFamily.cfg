SPECIFICATION Spec
CONSTANTS
  i = i
  s = s
  a = a
  b = b
  NULL = NULL
  Procs <- FourSlots
  InitProc = i
  ShellProc = s
  PROC_MIN_PID = 1
  PROC_MAX_PID = 4
  Sigs <- ChldOnly
  KillSigs <- NoSigs
  KillPids <- ToAll
  WaitPids <- EveryPid
  HandledSigs <- NoSigs
  Statuses = {0, 1}
  Uids = {0}
  Faults <- NoFaults
  UserCs = FALSE
  KmallocOutcomes = {TRUE}
  MaxQueued = 1
  MaxChildren = 2
SYMMETRY Sym
INVARIANTS TypeOK PidsUnique FamilyOK NoLostWakeup
PROPERTIES ReapedByFather IsPidTable
