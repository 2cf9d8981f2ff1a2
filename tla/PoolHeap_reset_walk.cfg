SPECIFICATION HeapSpec
CONSTANTS
  WORD = 4096
  MINIMUM_BLOCK_ALLOC = 64
  MAX_FIRST_POOL_SIZE = 400
  MAX_POOL_SIZE = 4096
  PAGE_SIZE = 400
  Requests = {64, 80}
  ReallocRequests = {}
  MAX_POOLS = 2
  CHUNK_OVERFLOW = 1000
  MAP_MAY_FAIL = FALSE
  STALE_CALLS = FALSE
INVARIANTS
  ResetKeepsPoolsWalkable
