SPECIFICATION Spec
CONSTANTS
  MAX_SHM_REGIONS = 2
  MaxRegionPages = 2
  TOTAL_PAGES = 5
  PAGE_DIRECTORY_SIZE = 2
  KernelEndPage = 1
  UserStart = 2
  HighPages = {0}
  MaxMaps = 2
  B1 = B1
  B2 = B2
  B3 = B3
  Block <- MCBlock
  FirstTable = FirstTable
  KernelDirectory = KernelDirectory
  NULL = NULL
SYMMETRY MCSymmetry
INVARIANT UserPagesEverywhere
PROPERTY IdentifiersKeepTheirMemory
CHECK_DEADLOCK FALSE
