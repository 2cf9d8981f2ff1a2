SPECIFICATION HeapSpec
CONSTANTS
  WORD = 4096
  MINIMUM_BLOCK_ALLOC = 64
  MAX_FIRST_POOL_SIZE = 384
  MAX_POOL_SIZE = 4096
  PAGE_SIZE = 384
  Requests = {64, 300}
  ReallocRequests = {64, 80, 300}
  MAX_POOLS = 2
  CHUNK_OVERFLOW = 1000
  MAP_MAY_FAIL = TRUE
  STALE_CALLS = FALSE
INVARIANTS
  Layout
  ChunksTile
  FreeListsSound
PROPERTIES
  FrozenIsPinned
