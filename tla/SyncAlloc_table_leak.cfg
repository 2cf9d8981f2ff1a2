SPECIFICATION Spec
CONSTANTS
  WORD = 4096
  MINIMUM_BLOCK_ALLOC = 64
  MAX_FIRST_POOL_SIZE = 480
  MAX_POOL_SIZE = 4096
  PAGE_SIZE = 480
  Requests = {64}
  ReallocRequests = {}
  MAX_POOLS = 1
  CHUNK_OVERFLOW = 1000
  MAP_MAY_FAIL = FALSE
  STALE_CALLS = FALSE
  COLS = 1
  GENERATIONS = 16
  MAX_GENERATION = 2
  NoHeader = NoHeader
  Users = {u1, u2, u3}
SYMMETRY UserSymmetry
INVARIANTS
  DestroyUnmapsTables
