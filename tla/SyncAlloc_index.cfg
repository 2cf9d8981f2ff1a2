SPECIFICATION Spec
CONSTANTS
  WORD = 4096
  MINIMUM_BLOCK_ALLOC = 64
  MAX_FIRST_POOL_SIZE = 384
  MAX_POOL_SIZE = 4096
  PAGE_SIZE = 384
  Requests = {64}
  ReallocRequests = {64}
  MAX_POOLS = 2
  CHUNK_OVERFLOW = 1000
  MAP_MAY_FAIL = FALSE
  STALE_CALLS = FALSE
  COLS = 2
  GENERATIONS = 16
  MAX_GENERATION = 2
  NoHeader = NoHeader
  Users = {u1, u2, u3}
SYMMETRY UserSymmetry
INVARIANTS
  IndexLeadsToHandle
