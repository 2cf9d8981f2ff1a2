------------------------------ MODULE PoolHeap ------------------------------
(***************************************************************************)
(* The memory of one arena: the linked pools, the chunks carved out of     *)
(* them, the deadzone behind each chunk and the free list of each pool.    *)
(*                                                                         *)
(* An address is <<p, o>>: byte o of the `mem' of pool p.  A chunk is      *)
(* known by the address of its pool_header_t; its deadzone by the address  *)
(* just behind it, where the next header starts.  The sentinel header at   *)
(* pool->offset is implied: it exists iff 16 bytes are left there.         *)
(* A free list is the sequence of nodes that the walk along next_node      *)
(* visits; its length is free_count.                                       *)
(***************************************************************************)
EXTENDS AllocSizes

CONSTANTS
  Requests,        \* usize sizes the callers ask for
  ReallocRequests, \* usize sizes passed to syn_realloc
  MAX_POOLS,       \* bound: no call may need more pools than this
  CHUNK_OVERFLOW,  \* chunk_overflow of update_sentinel_and_free_flags
  MAP_MAY_FAIL,    \* whether mmap may report MAP_FAILED
  STALE_CALLS      \* whether callers may also pass blocks they have freed

ASSUME RequestsAssumption ==
  /\ Requests \subseteq Nat \ {0} /\ ReallocRequests \subseteq Nat
  /\ MAX_POOLS \in Nat /\ CHUNK_OVERFLOW \in Nat /\ MAP_MAY_FAIL \in BOOLEAN
  /\ STALE_CALLS \in BOOLEAN

VARIABLES
  pools,        \* the pools linked from first_mempool, in next_pool order
  pool_count,   \* arena_thread->pool_count
  chunk_size,   \* header address -> chunk_size
  bitflags,     \* header address -> the set of its Header_Flags
  deadzone,     \* address behind a chunk -> its head_deadzone_t
  mapped_pools, \* pool mappings the process holds
  fate          \* "ok", or how memory safety was lost

heapVars == <<pools, pool_count, chunk_size, bitflags, deadzone, mapped_pools, fate>>

Flags == {"FREE", "ALLOCATED", "FROZEN", "FIRST_HEAD", "SENTINEL", "PREV_FREE", "NEXT_FREE"}

(***************************************************************************)
(* "fault": a wild read or write hit unmapped memory.                      *)
(* "overrun": a write landed outside the chunk or pool it was meant for.   *)
(* "self_loop": a node was appended to the free list behind itself.        *)
(* Nothing is modelled after any of them.                                  *)
(***************************************************************************)
Fates == {"ok", "fault", "overrun", "self_loop"}

Pool    == [size : Nat, offset : Nat, free : Seq(Nat \X Nat)]
Tag     == [prev_chunk_size : Nat, pool_ptr : Nat]

heads == DOMAIN chunk_size
Behind(a) == <<a[1], a[2] + chunk_size[a]>>

With(f, x, v) == [y \in DOMAIN f \cup {x} |-> IF y = x THEN v ELSE f[y]]
\* Faulty Without: the list is cut at the node instead of linked around it.
CutList(s, i) == [j \in 1 .. (i - 1) |-> s[j]]

Without(s, i) == [j \in 1 .. (Len(s) - 1) |-> IF j < i THEN s[j] ELSE s[j + 1]]

-----------------------------------------------------------------------------
(***************************************************************************)
(* update_sentinel_and_free_flags(head).  f: the flags before, s: chunk    *)
(* sizes, P: the pools.  PrevHead is found through the deadzone in front   *)
(* of the header, which only a header marked FIRST_HEAD does not consult.  *)
(***************************************************************************)
BelowPool(f, a) == "FIRST_HEAD" \notin f[a] /\ a[2] = 0

HasPrev(f, a) ==
  /\ "FIRST_HEAD" \notin f[a] /\ a \in DOMAIN deadzone
  /\ deadzone[a].prev_chunk_size < CHUNK_OVERFLOW

PrevHead(a) == <<a[1], a[2] - deadzone[a].prev_chunk_size>>

MarkPrev(f, a, q) ==
  [f EXCEPT
    ![q] = (@ \ {"SENTINEL"}) \cup (IF "FREE" \in f[a] THEN {"NEXT_FREE"} ELSE {}),
    ![a] = @ \cup (f[q] \cap {"SENTINEL"}) \cup (IF "FREE" \in f[q] THEN {"PREV_FREE"} ELSE {})]

\* Faulty MarkNext: only the walking header is marked.
MarkNextOneSided(f, a, r) ==
  [f EXCEPT ![a] = @ \cup (IF "FREE" \in f[r] THEN {"NEXT_FREE"} ELSE {})]

MarkNext(f, a, r) ==
  [f EXCEPT
    ![a] = @ \cup (IF "FREE" \in f[r] THEN {"NEXT_FREE"} ELSE {}),
    ![r] = @ \cup (IF "FREE" \in f[a] THEN {"PREV_FREE"} ELSE {})]

PrevMarked(f, a) == IF HasPrev(f, a) THEN MarkPrev(f, a, PrevHead(a)) ELSE f

\* The header walks on to the next one unless it is the sentinel or oversized.
LooksNext(f, s, a) == "SENTINEL" \notin f[a] /\ s[a] <= CHUNK_OVERFLOW

NextHead(s, a) == <<a[1], a[2] + s[a]>>

\* Bytes between the end of a pool and the end of its mapping; they stay 0.
MappedBehind(P, p) ==
  LET used == P[p].size + (IF p = 1 THEN FirstPoolReserved ELSE PoolReserved)
  IN  (PAGE_SIZE - (used % PAGE_SIZE)) % PAGE_SIZE

\* No header and no room for the sentinel: the next header is read past the pool,
\* and past its mapping if that ends there.
BeyondPool(f, s, P, a) ==
  /\ LooksNext(f, s, a) /\ NextHead(s, a) \notin DOMAIN s
  /\ NextHead(s, a)[2] + STRUCT_SIZE_HEADER > P[a[1]].size
  /\ MappedBehind(P, a[1]) < STRUCT_SIZE_HEADER

(***************************************************************************)
(* What the word read past the mapping turns out to be: unmapped, one the  *)
(* function ignores (0, or with F_SENTINEL), or another without or with    *)
(* F_FREE.                                                                 *)
(***************************************************************************)
Wild == {"unmapped", "ignored", "busy", "free"}

UpdatedFlags(f, s, P, a, wild) ==
  LET g == PrevMarked(f, a)
      r == NextHead(s, a)
  IN  CASE LooksNext(g, s, a) /\ r \in DOMAIN s /\ "SENTINEL" \notin g[r] -> MarkNext(g, a, r)
        [] BeyondPool(g, s, P, a) /\ wild = "free" -> [g EXCEPT ![a] = @ \cup {"NEXT_FREE"}]
        [] OTHER -> g

\* The fate of that walk.  A head that is F_FREE writes to both its neighbours; the
\* first head of a pool lacks FIRST_HEAD only when it is freed after a realloc.
WalkFate(f, s, P, a, wild) ==
  LET below == BelowPool(f, a)
      above == BeyondPool(PrevMarked(f, a), s, P, a)
  IN  CASE (below \/ above) /\ wild = "unmapped" -> "fault"
        [] "FREE" \in f[a] /\ (below \/ (above /\ wild # "ignored")) -> "overrun"
        [] OTHER -> "ok"

-----------------------------------------------------------------------------
(***************************************************************************)
(* find_new_header.  P is the list of pools at the time of the search.     *)
(***************************************************************************)
HasSpace(pool, n) == pool.size - pool.offset >= SpaceNeeded(n)

FitsZero(pool, n) == pool.offset = 0 /\ HasSpace(pool, n)

FitsLinear(pool, n) ==
  /\ pool.offset # 0
  /\ LinearEnd(pool.offset, n) <= pool.size
  /\ HasSpace(pool, n)

\* Faulty NodeHasEqualSize: smaller nodes are accepted too.
NodeHasSmallerSize(a, n) == chunk_size[a] <= ChunkSize(n)

NodeHasEqualSize(a, n) == chunk_size[a] = ChunkSize(n)

FitsFree(pool, n) == \E i \in DOMAIN pool.free : NodeHasEqualSize(pool.free[i], n)

Fits(pool, n) == n # 0 /\ (FitsZero(pool, n) \/ FitsFree(pool, n) \/ FitsLinear(pool, n))

CanServe(P, n) == \E p \in DOMAIN P : Fits(P[p], n)

FirstFit(P, n, p) == Fits(P[p], n) /\ \A q \in 1 .. (p - 1) : ~Fits(P[q], n)

\* Faulty Reuses: the linear entry of the jump table comes before the free list.
ReusesLast(pool, n) == ~FitsZero(pool, n) /\ ~FitsLinear(pool, n) /\ FitsFree(pool, n)

\* The jump table tries zero offset first, then the free list, then linear.
Reuses(pool, n) == ~FitsZero(pool, n) /\ FitsFree(pool, n)

(***************************************************************************)
(* Request n is served by pool p: from node i of its free list, the first  *)
(* of the right size (index_free_list_size), or at its offset (i = 0).     *)
(***************************************************************************)
Serves(P, n, p, i) ==
  /\ FirstFit(P, n, p)
  /\ IF Reuses(P[p], n)
       THEN /\ i \in DOMAIN P[p].free
            /\ NodeHasEqualSize(P[p].free[i], n)
            /\ \A j \in 1 .. (i - 1) : ~NodeHasEqualSize(P[p].free[j], n)
       ELSE i = 0

Spot(P, p, i) == IF i = 0 THEN <<p, P[p].offset>> ELSE P[p].free[i]

-----------------------------------------------------------------------------
\* Faulty MadePools: the offset advances by the payload alone, and a node is handed
\* out but stays on the list.
MadePoolsOffsetPayload(P, n, p, i) ==
  IF i = 0 THEN [P EXCEPT ![p].offset = @ + n]
           ELSE [P EXCEPT ![p].free = Without(@, i)]

MadePoolsKeepNode(P, n, p, i) ==
  IF i = 0 THEN [P EXCEPT ![p].offset = @ + ChunkSize(n)] ELSE P

(***************************************************************************)
(* create_header for request n at Spot(P, p, i): the pools, chunk sizes    *)
(* and deadzones after it.                                                 *)
(***************************************************************************)
MadePools(P, n, p, i) ==
  IF i = 0 THEN [P EXCEPT ![p].offset = @ + ChunkSize(n)]
           ELSE [P EXCEPT ![p].free = Without(@, i)]

MadeSizes(P, n, p, i) == With(chunk_size, Spot(P, p, i), ChunkSize(n))

\* Faulty MadeTags: the payload size in place of the chunk size, and the first pool
\* in place of the one that serves.
MadeTagsPayload(P, n, p, i) ==
  With(deadzone, NextHead(MadeSizes(P, n, p, i), Spot(P, p, i)),
       [prev_chunk_size |-> n, pool_ptr |-> p])

MadeTagsFirstPool(P, n, p, i) ==
  With(deadzone, NextHead(MadeSizes(P, n, p, i), Spot(P, p, i)),
       [prev_chunk_size |-> ChunkSize(n), pool_ptr |-> 1])

MadeTags(P, n, p, i) ==
  With(deadzone, NextHead(MadeSizes(P, n, p, i), Spot(P, p, i)),
       [prev_chunk_size |-> ChunkSize(n), pool_ptr |-> p])

\* Faulty CreatedFlags: a reused chunk is marked SENTINEL as well, and no chunk is
\* marked FIRST_HEAD.
CreatedFlagsOnReuse(P, n, p, i) ==
  {"ALLOCATED"}
    \cup (IF Spot(P, p, i) = <<p, 0>> THEN {"FIRST_HEAD"} ELSE {})
    \cup (IF P[p].offset + STRUCT_SIZE_HEADER > P[p].size THEN {"SENTINEL"} ELSE {})

CreatedFlagsNoFirst(P, n, p, i) ==
  {"ALLOCATED"}
    \cup (IF i = 0 /\ P[p].offset + ChunkSize(n) + STRUCT_SIZE_HEADER > P[p].size
            THEN {"SENTINEL"} ELSE {})

\* The flags the header starts with: a chunk that leaves no room for the
\* sentinel behind it becomes the sentinel itself.
CreatedFlags(P, n, p, i) ==
  {"ALLOCATED"}
    \cup (IF Spot(P, p, i) = <<p, 0>> THEN {"FIRST_HEAD"} ELSE {})
    \cup (IF i = 0 /\ P[p].offset + ChunkSize(n) + STRUCT_SIZE_HEADER > P[p].size
            THEN {"SENTINEL"} ELSE {})

\* Flags and fate once update_sentinel_and_free_flags has run on the header.
MadeFlags(P, n, p, i, wild) ==
  UpdatedFlags(With(bitflags, Spot(P, p, i), CreatedFlags(P, n, p, i)),
               MadeSizes(P, n, p, i), MadePools(P, n, p, i), Spot(P, p, i), wild)

\* A payload so large that the u32 chunk size wraps puts the deadzone over the header.
MadeFate(P, n, p, i, wild) ==
  IF ChunkSize(n) < n + STRUCT_SIZE_HEADER + DEADZONE_SIZE
    THEN "overrun"
    ELSE WalkFate(With(bitflags, Spot(P, p, i), CreatedFlags(P, n, p, i)),
                  MadeSizes(P, n, p, i), MadePools(P, n, p, i), Spot(P, p, i), wild)

-----------------------------------------------------------------------------
(***************************************************************************)
(* The pools a call works on: those of the arena (arena_init makes the     *)
(* first), plus one more if none of them can serve the request and         *)
(* pool_constructor agrees to grow.                                        *)
(***************************************************************************)
ArenaPools == IF pools = <<>> THEN <<FirstPool>> ELSE pools

Grown(P, size) ==
  IF GrowthRefused(P[Len(P)].size, size) THEN P ELSE Append(P, NextPool(P[Len(P)].size))

Supply(size, n) == IF CanServe(ArenaPools, n) THEN ArenaPools ELSE Grown(ArenaPools, size)

\* return_pool_array follows pool_count links; it must find that many pools.
PoolArrayIntact == pool_count = Len(pools)

Alive == fate = "ok" /\ PoolArrayIntact

PoolsSupplied(P) ==
  /\ Len(P) <= MAX_POOLS
  /\ pool_count' = Len(P)
  /\ mapped_pools' = mapped_pools + (Len(P) - Len(pools))

\* syn_alloc up to the handle: a is the header it found or made.
HeapAlloc(size, a) ==
  LET P == Supply(size, PaddedSize(size))
      n == PaddedSize(size)
  IN  /\ Alive
      /\ PoolsSupplied(P)
      /\ \E p \in DOMAIN P : \E i \in 0 .. Len(P[p].free) :
           /\ Serves(P, n, p, i)
           /\ a = Spot(P, p, i)
           /\ pools' = MadePools(P, n, p, i)
           /\ chunk_size' = MadeSizes(P, n, p, i)
           /\ deadzone' = MadeTags(P, n, p, i)
           /\ \E wild \in Wild :
                /\ bitflags' = MadeFlags(P, n, p, i, wild)
                /\ fate' = MadeFate(P, n, p, i, wild)

\* The second search fails as well: syn_alloc and syn_realloc give up, the pool stays.
HeapGiveUp(size, n) ==
  LET P == Supply(size, n)
  IN  /\ Alive
      /\ ~CanServe(P, n)
      /\ PoolsSupplied(P)
      /\ pools' = P
      /\ UNCHANGED <<chunk_size, bitflags, deadzone, fate>>

\* mmap fails in pool_init: MAP_FAILED is not null, the pool is written through it.
HeapMapFails(size, n) ==
  /\ MAP_MAY_FAIL /\ Alive
  /\ Supply(size, n) # ArenaPools
  /\ fate' = "fault"
  /\ UNCHANGED <<pools, pool_count, chunk_size, bitflags, deadzone, mapped_pools>>

\* pool_count outlived the pools it counts: the walk dereferences a null next_pool.
PoolArrayFault ==
  /\ fate = "ok" /\ ~PoolArrayIntact
  /\ fate' = "fault"
  /\ UNCHANGED <<pools, pool_count, chunk_size, bitflags, deadzone, mapped_pools>>

-----------------------------------------------------------------------------
(***************************************************************************)
(* The part of syn_free behind bad_alloc_check.  return_pool reads the     *)
(* pool from the deadzone.  Adding a node that is already listed cuts the  *)
(* list behind it: the tail is looked up past a null pointer, or is the    *)
(* node itself.                                                            *)
(***************************************************************************)
\* Faulty Unfrozen: the F_FROZEN check of bad_alloc_check is missing.
AnyHeader(a) == a \in heads

Unfrozen(a) == a \in heads /\ "FROZEN" \notin bitflags[a]

ReturnPool(a) == deadzone[Behind(a)].pool_ptr

Freed(flags) == (flags \ {"ALLOCATED"}) \cup {"FREE"}

HeapFree(a) ==
  LET p == ReturnPool(a)
      f == [bitflags EXCEPT ![a] = Freed(@)]
      L == pools[p].free
  IN  /\ fate = "ok" /\ Unfrozen(a)
      /\ IF \E i \in DOMAIN L : L[i] = a
           THEN /\ fate' = IF L[Len(L)] = a THEN "self_loop" ELSE "fault"
                /\ UNCHANGED <<pools, bitflags>>
           ELSE /\ pools' = [pools EXCEPT ![p].free = Append(@, a)]
                /\ \E wild \in Wild :
                     /\ bitflags' = UpdatedFlags(f, chunk_size, pools, a, wild)
                     /\ fate' = WalkFate(f, chunk_size, pools, a, wild)
      /\ UNCHANGED <<pool_count, chunk_size, deadzone, mapped_pools>>

(***************************************************************************)
(* The part of syn_realloc behind bad_alloc_check: a new header b, a copy  *)
(* of everything behind the old header, deadzone included, and the old     *)
(* flags.  The old header turns F_FREE but joins no free list.             *)
(***************************************************************************)
Copied(tags, a, b, n) ==
  IF ChunkSize(n) = chunk_size[a]
    THEN [tags EXCEPT ![<<b[1], b[2] + ChunkSize(n)>>] = deadzone[Behind(a)]]
    ELSE tags

HeapRealloc(a, size, b) ==
  LET n == ReallocSize(size)
      P == Supply(size, n)
  IN  /\ Alive /\ Unfrozen(a)
      /\ PoolsSupplied(P)
      /\ \E p \in DOMAIN P : \E i \in 0 .. Len(P[p].free) :
           /\ Serves(P, n, p, i)
           /\ b = Spot(P, p, i)
           /\ pools' = MadePools(P, n, p, i)
           /\ chunk_size' = MadeSizes(P, n, p, i)
           /\ deadzone' = Copied(MadeTags(P, n, p, i), a, b, n)
           /\ \E wild \in Wild :
                LET f == MadeFlags(P, n, p, i, wild)
                IN  /\ bitflags' = [f EXCEPT ![b] = f[a], ![a] = Freed(f[a])]
                    /\ fate' = IF chunk_size[a] > ChunkSize(n)
                                 THEN "overrun"
                                 ELSE MadeFate(P, n, p, i, wild)

\* syn_freeze and syn_thaw touch only the flag.
HeapFreeze(a) ==
  /\ fate = "ok" /\ Unfrozen(a)
  /\ bitflags' = [bitflags EXCEPT ![a] = @ \cup {"FROZEN"}]
  /\ UNCHANGED <<pools, pool_count, chunk_size, deadzone, mapped_pools, fate>>

HeapThaw(a) ==
  /\ fate = "ok" /\ a \in heads
  /\ bitflags' = [bitflags EXCEPT ![a] = @ \ {"FROZEN"}]
  /\ UNCHANGED <<pools, pool_count, chunk_size, deadzone, mapped_pools, fate>>

-----------------------------------------------------------------------------
NoHeaders == chunk_size' = <<>> /\ bitflags' = <<>> /\ deadzone' = <<>>

(***************************************************************************)
(* syn_reset keeps the first pool and unlinks the rest, but leaves         *)
(* pool_count alone.  It unmaps at pool->mem, PoolReserved bytes into the  *)
(* mapping, and munmap refuses an address off a page boundary.             *)
(***************************************************************************)
\* Faulty Unmapped: the loop goes on to one pool more.
UnmappedOneMore(offset, n) == n + 1

Unmapped(offset, n) == IF offset % PAGE_SIZE = 0 THEN n ELSE 0

HeapReset ==
  /\ Alive /\ pools # <<>>
  /\ pools' = <<[pools[1] EXCEPT !.offset = 0, !.free = <<>>]>>
  /\ mapped_pools' = mapped_pools - Unmapped(PoolReserved, Len(pools) - 1)
  /\ NoHeaders
  /\ UNCHANGED <<pool_count, fate>>

\* pool_destructor unmaps every linked pool at its heap_base; the arena goes with it.
HeapDestroy ==
  /\ Alive /\ pools # <<>>
  /\ pools' = <<>> /\ pool_count' = 0
  /\ mapped_pools' = mapped_pools - Unmapped(0, Len(pools))
  /\ NoHeaders
  /\ UNCHANGED fate

-----------------------------------------------------------------------------
HeapInit ==
  /\ pools = <<>> /\ pool_count = 0 /\ mapped_pools = 0
  /\ chunk_size = <<>> /\ bitflags = <<>> /\ deadzone = <<>>
  /\ fate = "ok"

\* The headers a call may return: those there are, and the ends of the pools.
Targets ==
  heads \cup {<<p, IF p \in DOMAIN pools THEN pools[p].offset ELSE 0>> : p \in 1 .. (Len(pools) + 1)}

\* The process died, or its memory is no longer what the model says.
Stopped == fate # "ok" /\ UNCHANGED heapVars

\* The blocks callers pass: those they hold, or any with STALE_CALLS.
Passed == {a \in heads : STALE_CALLS \/ "ALLOCATED" \in bitflags[a]}

HeapNext ==
  \/ \E size \in Requests, a \in Targets : HeapAlloc(size, a)
  \/ \E size \in Requests :
       HeapGiveUp(size, PaddedSize(size)) \/ HeapMapFails(size, PaddedSize(size))
  \/ \E a \in Passed : HeapFree(a) \/ HeapFreeze(a) \/ HeapThaw(a)
  \/ \E a \in Passed, size \in ReallocRequests :
       \/ \E b \in Targets : HeapRealloc(a, size, b)
       \/ /\ Unfrozen(a)
          /\ HeapGiveUp(size, ReallocSize(size)) \/ HeapMapFails(size, ReallocSize(size))
  \/ HeapReset \/ HeapDestroy \/ PoolArrayFault
  \/ Stopped

HeapSpec == HeapInit /\ [][HeapNext]_heapVars
-----------------------------------------------------------------------------
Addresses == (1 .. Len(pools)) \X Nat

\* The types of the variables.
TypeOK ==
  /\ pools \in Seq(Pool)
  /\ pool_count \in Nat /\ mapped_pools \in Nat
  /\ heads \subseteq Addresses
  /\ \A a \in heads : chunk_size[a] \in Nat
  /\ DOMAIN bitflags = heads /\ \A a \in heads : bitflags[a] \subseteq Flags
  /\ DOMAIN deadzone \subseteq Addresses /\ \A d \in DOMAIN deadzone : deadzone[d] \in Tag
  /\ fate \in Fates

Safe == fate = "ok"

InsidePool ==
  /\ \A p \in DOMAIN pools : pools[p].offset <= pools[p].size
  /\ \A a \in heads : Behind(a)[2] <= pools[a[1]].offset

NoOverlap == \A a, b \in heads :
  a[1] = b[1] /\ a[2] < b[2] => Behind(a)[2] <= b[2]

(***************************************************************************)
(* Chunks stay inside the used part of their pool and no two share a byte, *)
(* through any sequence of allocations, frees, reuses and reallocations    *)
(* (create_header, index_free_list_size).                                  *)
(***************************************************************************)
Layout == Safe => InsidePool /\ NoOverlap

(***************************************************************************)
(* The headers of a pool can be walked both ways.  Behind every chunk is a *)
(* deadzone with its size, followed by another header or the end of the    *)
(* used space, and every header but the first is reached backwards from    *)
(* the deadzone in front of it (create_head_deadzone,                      *)
(* return_prev_block_size, update_sentinel_and_free_flags).                *)
(***************************************************************************)
ChunksTile == Safe => \A a \in heads :
  /\ Behind(a) \in DOMAIN deadzone
  /\ deadzone[Behind(a)].prev_chunk_size = chunk_size[a]
  /\ Behind(a) \in heads \/ Behind(a)[2] = pools[a[1]].offset
  /\ a[2] # 0 => a \in DOMAIN deadzone /\ PrevHead(a) \in heads

\* The deadzone behind a block names the block's own pool, which return_pool
\* relies on: frees go to the pool the memory came from.
TagsNameOwnPool == Safe => \A a \in heads : ReturnPool(a) = a[1]

Listed(p) == {pools[p].free[i] : i \in DOMAIN pools[p].free}

(***************************************************************************)
(* No header is listed twice in the free lists, and every listed header is *)
(* a free one: free_node_remove never hands out a block that is in use.    *)
(***************************************************************************)
FreeListsSound == Safe => \A p, q \in DOMAIN pools :
  /\ \A a \in Listed(p) : a \in heads /\ bitflags[a] \cap {"FREE", "ALLOCATED"} = {"FREE"}
  /\ \A i \in DOMAIN pools[p].free, j \in DOMAIN pools[q].free :
       pools[p].free[i] = pools[q].free[j] => p = q /\ i = j

\* Every freed header can be found again: it is on the free list of its pool.
FreeListsComplete == Safe => \A a \in heads :
  "FREE" \in bitflags[a] => a \in Listed(a[1])

(***************************************************************************)
(* A header next to a free one is marked, so that coalescing would find    *)
(* it.  Two exceptions: the walk from the header in front stops at a       *)
(* SENTINEL header, and no walk crosses a chunk of CHUNK_OVERFLOW bytes or *)
(* more (update_sentinel_and_free_flags).                                  *)
(***************************************************************************)
NeighboursMarked == Safe => \A a \in heads :
  Behind(a) \in heads /\ chunk_size[a] < CHUNK_OVERFLOW =>
  LET b == Behind(a)
  IN  "SENTINEL" \notin bitflags[b] =>
        /\ "FREE" \in bitflags[a] => "PREV_FREE" \in bitflags[b]
        /\ "FREE" \in bitflags[b] => "NEXT_FREE" \in bitflags[a]

\* Nothing lies behind a header marked SENTINEL, so the forward walk may stop there.
SentinelEndsPool == Safe => \A a \in heads :
  "SENTINEL" \in bitflags[a] => Behind(a)[2] = pools[a[1]].offset

\* While an allocated block is frozen its header keeps its size and stays allocated
\* and frozen until it is thawed or the arena is reset or destroyed: no free, no
\* reallocation and no reuse gets at it.
FrozenIsPinned ==
  [][\A a \in heads : {"ALLOCATED", "FROZEN"} \subseteq bitflags[a] /\ Safe' /\ heads' # {} =>
       /\ a \in heads' /\ chunk_size'[a] = chunk_size[a]
       /\ "ALLOCATED" \in bitflags'[a]
       /\ "FROZEN" \in bitflags'[a] \/ HeapThaw(a)]_heapVars

\* Fresh memory is used only when no pool up to that one has a free block of the
\* right size: the free list comes before linear allocation and before growth.
FreshIsLastResort ==
  [][\A a \in heads' \ heads : Safe' =>
       \A q \in 1 .. a[1] : q \in DOMAIN pools =>
         \A f \in Listed(q) : chunk_size[f] # chunk_size'[a]]_heapVars

Full(pool) == pool.offset + STRUCT_SIZE_HEADER > pool.size

(***************************************************************************)
(* For callers that pass only blocks they hold, memory safety is lost in   *)
(* one place only, besides the walk of the pools after a reset: behind the *)
(* last chunk of a pool without room for another header, once it has lost  *)
(* its SENTINEL mark, which create_header gives to fresh chunks and not to *)
(* reused ones.                                                            *)
(***************************************************************************)
UnmarkedEnd(a) ==
  Full(pools[a[1]]) /\ Behind(a)[2] = pools[a[1]].offset /\ "SENTINEL" \notin bitflags[a]

LostOnlyAtFullPool ==
  [][Safe /\ ~Safe' =>
       pool_count # Len(pools) \/ \E a \in heads' : UnmarkedEnd(a)']_heapVars

-----------------------------------------------------------------------------
(***************************************************************************)
(* What comments of the code say and the code does not do.                 *)
(***************************************************************************)

\* internal_alloc.h: no header is found only if "all pools cannot fit the
\* allocation AND mmap fails"; with a working mmap no request is given up.
GrowthServesRequest ==
  [][\A size \in Requests : ~HeapGiveUp(size, PaddedSize(size))]_heapVars

\* sync_alloc.h: after syn_reset "The first memory pool and handle table are kept,
\* but reset to their original no-allocations state"; the walk of the pools must
\* still work.
ResetKeepsPoolsWalkable == PoolArrayIntact

\* sync_alloc.h: syn_alloc gets "How many bytes the user requests", "rounded up".
BlockCoversRequest ==
  [][\A size \in Requests, a \in heads' : HeapAlloc(size, a) /\ Safe' =>
       chunk_size'[a] >= size + STRUCT_SIZE_HEADER + DEADZONE_SIZE]_heapVars
=============================================================================
