SPECIFICATION Spec
CONSTANTS
  WORD = 4096
  MINIMUM_BLOCK_ALLOC = 64
  MAX_FIRST_POOL_SIZE = 360
  MAX_POOL_SIZE = 4096
  PAGE_SIZE = 360
  Requests = {64, 300}
  ReallocRequests = {64, 300}
  MAX_POOLS = 2
  CHUNK_OVERFLOW = 1000
  MAP_MAY_FAIL = TRUE
  STALE_CALLS = TRUE
  COLS = 1
  GENERATIONS = 3
  MAX_GENERATION = 1
  NoHeader = NoHeader
  Users = {u1, u2}
SYMMETRY UserSymmetry
VIEW Living
INVARIANTS
  Layout
  FreeListsSound
PROPERTIES
  FrozenIsPinned
