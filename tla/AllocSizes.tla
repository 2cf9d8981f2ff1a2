----------------------------- MODULE AllocSizes -----------------------------
(***************************************************************************)
(* Size arithmetic of the allocator: alignment padding, chunk sizes, the   *)
(* space checks and the sizes of pools.  Struct sizes are those of the     *)
(* x86-64 build.  A u32 computation is taken modulo WORD (2^32 in the      *)
(* build); a usize computation is exact.                                   *)
(***************************************************************************)
EXTENDS Integers, Sequences

CONSTANTS
  WORD,                 \* number of values of a u32
  MINIMUM_BLOCK_ALLOC,  \* smallest payload syn_alloc hands out
  MAX_FIRST_POOL_SIZE,  \* bytes mapped for the first pool of an arena
  MAX_POOL_SIZE,        \* bytes a pool may have at most
  PAGE_SIZE             \* granularity of mmap and munmap

ALIGNMENT             == 16
STRUCT_SIZE_HEADER    == 16
STRUCT_SIZE_ARENA     == 64
STRUCT_SIZE_POOL      == 64
DEADZONE_SIZE         == 16
DEADZONE_PADDING      == 8

ASSUME SizesAssumption ==
  /\ WORD \in Nat /\ WORD > 0 /\ WORD % ALIGNMENT = 0
  /\ MINIMUM_BLOCK_ALLOC \in Nat
  /\ MAX_FIRST_POOL_SIZE \in 192 .. (WORD - 1)
  /\ MAX_POOL_SIZE \in Nat
  /\ PAGE_SIZE \in Nat \ {0}

U32(x) == x % WORD

\* ADD_ALIGNMENT_PADDING on a usize operand, and on a u32 operand.
AddAlignmentPadding(x)    == ((x + (ALIGNMENT - 1)) \div ALIGNMENT) * ALIGNMENT
AddAlignmentPadding32(x)  == (U32(x + (ALIGNMENT - 1)) \div ALIGNMENT) * ALIGNMENT

\* ALIGN_PTR(base + x, 64) - base, for a page-aligned base.
CacheAligned(x) == ((x + 63) \div 64) * 64

(***************************************************************************)
(* What a request becomes.  syn_alloc pads the usize size and stores it in *)
(* a u32; syn_realloc passes the padded size to a u32 parameter and has no *)
(* minimum.                                                                *)
(***************************************************************************)
PaddedSize(size) ==
  IF size < MINIMUM_BLOCK_ALLOC THEN AddAlignmentPadding32(MINIMUM_BLOCK_ALLOC)
                                ELSE U32(AddAlignmentPadding(size))

ReallocSize(size) == U32(AddAlignmentPadding(size))

(***************************************************************************)
(* A chunk is the header, the payload and the deadzone behind it.  The     *)
(* headers are 16-aligned, so relative_alignment_offset is 0.              *)
(***************************************************************************)
ChunkSize(n) ==
  AddAlignmentPadding32(U32(n + STRUCT_SIZE_HEADER + DEADZONE_PADDING))

\* Right-hand side of pool_has_no_space_left.
SpaceNeeded(n) ==
  U32(AddAlignmentPadding32(n) + STRUCT_SIZE_HEADER + 2 * DEADZONE_PADDING)

\* Left-hand side of pool_out_of_space.
LinearEnd(offset, n) == U32(offset + n + STRUCT_SIZE_HEADER + DEADZONE_SIZE)

(***************************************************************************)
(* Pools.  `mem' starts behind the structures at the base of the mapping.  *)
(***************************************************************************)
FirstPoolReserved ==
  CacheAligned(AddAlignmentPadding(STRUCT_SIZE_ARENA + STRUCT_SIZE_POOL) + DEADZONE_SIZE)

PoolReserved == CacheAligned(STRUCT_SIZE_POOL + 2 * DEADZONE_PADDING)

FirstPool == [size |-> MAX_FIRST_POOL_SIZE - FirstPoolReserved, offset |-> 0, free |-> <<>>]

\* pool_init(requested): the pool behind its mapping of padded_size bytes.
PoolInit(requested) ==
  [size |-> U32(AddAlignmentPadding32(requested) - PoolReserved), offset |-> 0, free |-> <<>>]

(***************************************************************************)
(* pool_constructor doubles a candidate size until the request fits and    *)
(* gives up when the next doubling would reach MAX_POOL_SIZE.              *)
(***************************************************************************)
GrowthRefused(lastSize, size) ==
  LET refused[s \in Nat] ==
        /\ s < AddAlignmentPadding(size)
        /\ \/ 2 * s >= MAX_POOL_SIZE
           \/ refused[2 * s]
  IN  refused[U32(2 * lastSize)]

\* The pool it then maps has twice the last pool's size, whatever the candidate.
NextPool(lastSize) == PoolInit(U32(2 * lastSize))
=============================================================================
