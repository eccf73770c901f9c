SPECIFICATION ProcMemSpec
CONSTANTS
  i = i
  s = s
  a = a
  NULL = NULL
  JUNK = JUNK
  LOW_PAGE = 1
  MAX_RAM_PAGE = 10
  HEAP_PAGES = 6
  TABLE_ENTRIES = 2
  Procs = {i, s, a}
  Images <- MCImages
  Sizes = {1, 2}
  MaxCalls = 4
INVARIANTS MemTypeOK RunsOnItsOwn FramesAccounted PanicsOnlyWhenFull OnlyTheDeadStay
PROPERTY IsPrivate
