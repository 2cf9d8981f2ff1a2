SPECIFICATION Spec
CONSTANTS
  WORD = 4096
  MINIMUM_BLOCK_ALLOC = 64
  MAX_FIRST_POOL_SIZE = 352
  MAX_POOL_SIZE = 4096
  PAGE_SIZE = 352
  Requests = {64, 144}
  ReallocRequests = {}
  MAX_POOLS = 2
  CHUNK_OVERFLOW = 1000
  MAP_MAY_FAIL = FALSE
  STALE_CALLS = FALSE
  COLS = 2
  GENERATIONS = 3
  MAX_GENERATION = 3
  NoHeader = NoHeader
  Users = {u1, u2, u3}
SYMMETRY UserSymmetry
INVARIANTS
  HandleTypeOK
  HeldHandlesResolve
  BlocksHaveOneHolder
  SlotsMatchBlocks
PROPERTIES
  TablesGrowForHandles
  FrozenHandleKept
  HeapRefinement
  ClientView
VIEW WithoutFreed
