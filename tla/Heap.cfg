SPECIFICATION HeapSpec
CONSTANTS
  NULL = NULL
  JUNK = JUNK
  LOW_PAGE = 1
  MAX_RAM_PAGE = 6
  HEAP_PAGES = 5
  TABLE_ENTRIES = 2
  UNITS = 8
  Sizes = {1, 4, 5, 6}
  InitialFree <- WholeOrHoled
  MaxLive = 3
PROPERTY IsAllocator
INVARIANTS HeapTypeOK HeadersTile BlocksOwned PagesApart Coalesced NothingLeaks
