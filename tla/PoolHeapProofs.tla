--------------------------- MODULE PoolHeapProofs ---------------------------
(***************************************************************************)
(* Theorems about PoolHeap, for all values of its constants.               *)
(***************************************************************************)
EXTENDS PoolHeap, TLAPS

-----------------------------------------------------------------------------
(***************************************************************************)
(* Size arithmetic.                                                        *)
(***************************************************************************)

\* A residue below the modulus is itself.
LEMMA ModBelow == ASSUME NEW w \in Nat, w > 0, NEW x \in Nat, x < w PROVE x % w = x
  OBVIOUS

\* A u32 holds less than WORD, and never more than the value it was given.
LEMMA U32Range == ASSUME NEW x \in Int
                  PROVE  /\ U32(x) \in Nat /\ U32(x) < WORD
                         /\ x >= 0 => U32(x) <= x
                         /\ 0 <= x /\ x < WORD => U32(x) = x
  BY SizesAssumption DEF U32, ALIGNMENT

\* Padding rounds to a multiple of ALIGNMENT and cannot leave the u32 range.
LEMMA Pad32Range == ASSUME NEW x \in Nat
                    PROVE  /\ AddAlignmentPadding32(x) \in Nat
                           /\ AddAlignmentPadding32(x) < WORD
                           /\ AddAlignmentPadding32(x) <= x + 15
                           /\ AddAlignmentPadding32(x) % 16 = 0
<1>1. /\ U32(x + 15) \in Nat /\ U32(x + 15) < WORD /\ U32(x + 15) <= x + 15
  BY U32Range
<1>2. AddAlignmentPadding32(x) = (U32(x + 15) \div 16) * 16
  BY DEF AddAlignmentPadding32, ALIGNMENT
<1> QED
  BY <1>1, <1>2, SizesAssumption

\* Below the wrap-around, padding an aligned size leaves it alone.
LEMMA Pad32Exact == ASSUME NEW n \in Nat, NEW d \in 0 .. 15, n % 16 = 0, n + d + 15 < WORD
                    PROVE  AddAlignmentPadding32(n + d) = IF d = 0 THEN n ELSE n + 16
<1>1. U32(n + d + 15) = n + d + 15
  BY U32Range
<1>2. AddAlignmentPadding32(n + d) = ((n + d + 15) \div 16) * 16
  BY <1>1 DEF AddAlignmentPadding32, ALIGNMENT
<1> QED
  BY <1>2

\* WORD is a multiple of ALIGNMENT, so wrapping around keeps a size aligned.
LEMMA U32Aligned == ASSUME NEW k \in Nat PROVE U32(16 * k) % 16 = 0
<1> DEFINE q == (16 * k) \div WORD
           w == WORD \div 16
<1>1. WORD \in Nat /\ WORD > 0 /\ WORD = 16 * w /\ w \in Nat
  BY SizesAssumption DEF ALIGNMENT
<1>2. q \in Nat /\ 16 * k = WORD * q + U32(16 * k) /\ U32(16 * k) \in Nat
  BY <1>1, SizesAssumption DEF U32
<1>3. w * q \in Nat /\ WORD * q = 16 * (w * q)
  <2> HIDE DEF q, w
  <2> QED BY <1>1, <1>2
<1> HIDE DEF q, w
<1>4. PICK m \in Nat : m = w * q
  BY <1>3
<1>5. U32(16 * k) = 16 * k - 16 * m
  BY <1>2, <1>3, <1>4
<1> QED
  BY <1>2, <1>5

\* The sizes that syn_alloc and syn_realloc search with are aligned u32 values.
LEMMA RequestAligned ==
  ASSUME NEW size \in Nat
  PROVE  /\ PaddedSize(size) \in Nat /\ PaddedSize(size) < WORD /\ PaddedSize(size) % 16 = 0
         /\ ReallocSize(size) \in Nat /\ ReallocSize(size) < WORD /\ ReallocSize(size) % 16 = 0
<1>1. PICK k \in Nat : AddAlignmentPadding(size) = 16 * k
  BY DEF AddAlignmentPadding, ALIGNMENT
<1>2. U32(16 * k) \in Nat /\ U32(16 * k) < WORD /\ U32(16 * k) % 16 = 0
  BY U32Range, U32Aligned
<1> QED
  BY <1>1, <1>2, Pad32Range, SizesAssumption DEF PaddedSize, ReallocSize

(***************************************************************************)
(* A chunk size that did not wrap around is the payload, the header and    *)
(* the deadzone, and it is what pool_has_no_space_left asks for.           *)
(***************************************************************************)
LEMMA ChunkExact ==
  ASSUME NEW n \in Nat, n < WORD, n % 16 = 0
  PROVE  /\ ChunkSize(n) \in Nat
         /\ ChunkSize(n) >= n + 32 => ChunkSize(n) = n + 32 /\ SpaceNeeded(n) = n + 32
<1>1. ChunkSize(n) = AddAlignmentPadding32(U32(n + 24))
  BY DEF ChunkSize, STRUCT_SIZE_HEADER, DEADZONE_PADDING
<1>2. U32(n + 24) \in Nat /\ U32(n + 24) <= n + 24 /\ U32(n + 24) < WORD
  BY U32Range
<1>3. ChunkSize(n) \in Nat
  BY <1>1, <1>2, Pad32Range
<1>4. ASSUME n + 39 < WORD
      PROVE  ChunkSize(n) = n + 32 /\ SpaceNeeded(n) = n + 32
  <2>1. U32(n + 24) = (n + 16) + 8 /\ (n + 16) % 16 = 0 /\ (n + 16) + 8 + 15 < WORD
    BY <1>4, U32Range, SizesAssumption
  <2>2. ChunkSize(n) = n + 32
    BY <1>1, <2>1, Pad32Exact
  <2>3. AddAlignmentPadding32(n + 0) = n
    BY <1>4, Pad32Exact, SizesAssumption
  <2>4. U32(n + 32) = n + 32
    BY <1>4, U32Range, SizesAssumption
  <2> QED
    BY <2>2, <2>3, <2>4 DEF SpaceNeeded, STRUCT_SIZE_HEADER, DEADZONE_PADDING
<1>5. ASSUME n + 39 >= WORD
      PROVE  ChunkSize(n) < n + 32
  <2>1. WORD \in Nat /\ WORD > 192
    BY SizesAssumption
  <2>2. CASE n + 24 < WORD
    <3>1. U32(n + 24) = n + 24
      BY <2>2, U32Range
    <3>2. (n + 39) % WORD = n + 39 - WORD
      BY <1>5, <2>1, <2>2
    <3> QED
      BY <1>1, <3>1, <3>2, <2>1, <2>2 DEF AddAlignmentPadding32, U32, ALIGNMENT
  <2>3. CASE n + 24 >= WORD
    <3>1. U32(n + 24) = n + 24 - WORD
      BY <2>1, <2>3, SizesAssumption DEF U32
    <3> QED
      BY <1>1, <3>1, <1>2, <2>1, Pad32Range
  <2> QED
    BY <2>1, <2>2, <2>3
<1> QED
  BY <1>3, <1>4, <1>5, SizesAssumption

-----------------------------------------------------------------------------
(***************************************************************************)
(* The inductive invariant.  TypeOK is not inductive alone: syn_free reads *)
(* the pool from the deadzone behind the header, which has to be there and *)
(* to name a pool, and free_node_remove takes a header from a list, which  *)
(* has to hold headers.  Nor is Layout: a reused header must be one whose  *)
(* bytes are already set aside.                                            *)
(***************************************************************************)
Shape(P, s, f, d) ==
  /\ P \in Seq(Pool)
  /\ DOMAIN s \subseteq (1 .. Len(P)) \X Nat
  /\ \A a \in DOMAIN s : s[a] \in Nat
  /\ DOMAIN f = DOMAIN s /\ \A a \in DOMAIN s : f[a] \subseteq Flags
  /\ DOMAIN d \subseteq (1 .. Len(P)) \X Nat /\ \A x \in DOMAIN d : d[x] \in Tag

OffsetsInside(P) == \A p \in DOMAIN P : P[p].offset <= P[p].size

ChunksInside(P, s) == \A a \in DOMAIN s : a[2] + s[a] <= P[a[1]].offset

ChunksApart(s) == \A a, b \in DOMAIN s :
  a[1] = b[1] /\ a[2] < b[2] => a[2] + s[a] <= b[2]

TagsNamePools(P, s, d) == \A a \in DOMAIN s :
  NextHead(s, a) \in DOMAIN d /\ d[NextHead(s, a)].pool_ptr \in DOMAIN P

ListsHoldHeads(P, s) == \A p \in DOMAIN P : \A i \in DOMAIN P[p].free :
  P[p].free[i] \in DOMAIN s

Placed(P, s, d) ==
  /\ OffsetsInside(P) /\ ChunksInside(P, s) /\ ChunksApart(s)
  /\ TagsNamePools(P, s, d) /\ ListsHoldHeads(P, s)

HeapInv ==
  /\ TypeOK
  /\ Len(pools) <= mapped_pools
  /\ Safe => Placed(pools, chunk_size, deadzone)

\* P is the pools of the arena with fresh ones behind them.
Grows(P) ==
  /\ P \in Seq(Pool) /\ Len(P) > 0 /\ Len(P) >= Len(pools)
  /\ \A q \in 1 .. Len(pools) : P[q] = pools[q]
  /\ \A q \in (Len(pools) + 1) .. Len(P) : P[q].offset = 0 /\ P[q].free = <<>>

\* The types of the variables, as a predicate on their values.
LEMMA TypeIsShape ==
  TypeOK <=> /\ Shape(pools, chunk_size, bitflags, deadzone)
             /\ pool_count \in Nat /\ mapped_pools \in Nat /\ fate \in Fates
  BY DEF TypeOK, Shape, heads, Addresses

\* The invariant contains what the runs check as Layout.
LEMMA PlacedIsLayout ==
  ASSUME TypeOK, Placed(pools, chunk_size, deadzone) PROVE InsidePool /\ NoOverlap
  BY DEF Placed, OffsetsInside, ChunksInside, ChunksApart, InsidePool, NoOverlap,
         Behind, heads, TypeOK, Addresses

-----------------------------------------------------------------------------
(***************************************************************************)
(* Pools.                                                                  *)
(***************************************************************************)

\* A new pool is a pool, whatever the size it was asked for.
LEMMA NewPools ==
  /\ FirstPool \in Pool
  /\ \A lastSize \in Nat : NextPool(lastSize) \in Pool
<1>1. FirstPoolReserved = 192
  BY DEF FirstPoolReserved, CacheAligned, AddAlignmentPadding, STRUCT_SIZE_ARENA,
         STRUCT_SIZE_POOL, DEADZONE_SIZE, ALIGNMENT
<1>2. PoolReserved = 128
  BY DEF PoolReserved, CacheAligned, STRUCT_SIZE_POOL, DEADZONE_PADDING
<1>3. <<>> \in Seq(Nat \X Nat)
  OBVIOUS
<1>4. FirstPool \in Pool
  BY <1>1, <1>3, SizesAssumption DEF FirstPool, Pool
<1>5. ASSUME NEW lastSize \in Nat
      PROVE  NextPool(lastSize) \in Pool
  <2>1. U32(2 * lastSize) \in Nat
    BY U32Range
  <2>2. AddAlignmentPadding32(U32(2 * lastSize)) - PoolReserved \in Int
    BY <2>1, <1>2, Pad32Range
  <2>3. U32(AddAlignmentPadding32(U32(2 * lastSize)) - PoolReserved) \in Nat
    BY <2>2, U32Range
  <2> QED
    BY <2>3, <1>3 DEF NextPool, PoolInit, Pool
<1> QED
  BY <1>4, <1>5

\* arena_init and pool_constructor leave the linked pools alone and add empty ones.
LEMMA SupplyGrows ==
  ASSUME TypeOK, NEW size, NEW n
  PROVE  Grows(Supply(size, n))
<1>1. pools \in Seq(Pool)
  BY DEF TypeOK
<1>2. Grows(ArenaPools)
  <2>1. CASE pools = <<>>
    BY <2>1, NewPools DEF Grows, ArenaPools, FirstPool
  <2>2. CASE pools # <<>>
    BY <2>2, <1>1 DEF Grows, ArenaPools
  <2> QED
    BY <2>1, <2>2
<1>3. ASSUME NEW P, Grows(P)
      PROVE  Grows(Grown(P, size))
  <2>1. P \in Seq(Pool) /\ Len(P) \in Nat /\ P[Len(P)] \in Pool /\ P[Len(P)].size \in Nat
    <3>1. P \in Seq(Pool) /\ Len(P) \in Nat /\ Len(P) \in 1 .. Len(P)
      BY <1>3 DEF Grows
    <3>2. P[Len(P)] \in Pool
      BY <3>1
    <3> QED
      BY <3>1, <3>2 DEF Pool
  <2> DEFINE N == NextPool(P[Len(P)].size)
             Q == Append(P, N)
  <2>2. N \in Pool /\ N.offset = 0 /\ N.free = <<>>
    BY <2>1, NewPools DEF NextPool, PoolInit
  <2> HIDE DEF N
  <2>3. /\ Q \in Seq(Pool) /\ Len(Q) = Len(P) + 1 /\ Q[Len(P) + 1] = N
        /\ \A q \in 1 .. Len(P) : Q[q] = P[q]
    BY <2>1, <2>2
  <2> HIDE DEF Q
  <2>4. Grows(Q)
    <3>1. /\ Len(pools) \in Nat /\ Len(P) \in Nat /\ Len(P) >= Len(pools)
          /\ \A q \in 1 .. Len(pools) : P[q] = pools[q]
          /\ \A q \in (Len(pools) + 1) .. Len(P) : P[q].offset = 0 /\ P[q].free = <<>>
      BY <1>1, <1>3 DEF Grows
    <3>2. \A q \in 1 .. Len(pools) : Q[q] = pools[q]
      BY <3>1, <2>3
    <3>3. ASSUME NEW q \in (Len(pools) + 1) .. Len(Q)
          PROVE  Q[q].offset = 0 /\ Q[q].free = <<>>
      <4>1. CASE q = Len(P) + 1
        BY <4>1, <2>2, <2>3
      <4>2. CASE q # Len(P) + 1
        BY <4>2, <3>1, <2>3
      <4> QED
        BY <4>1, <4>2
    <3> QED
      BY <3>1, <3>2, <3>3, <2>3 DEF Grows
  <2> QED
    BY <1>3, <2>4 DEF Grown, Q, N
<1> QED
  BY <1>2, <1>3 DEF Supply

\* free_node_remove keeps the other nodes, and nothing else, on the list.
LEMMA WithoutNode ==
  ASSUME NEW S, NEW s \in Seq(S), NEW i \in 1 .. Len(s)
  PROVE  /\ Without(s, i) \in Seq(S)
         /\ \A j \in DOMAIN Without(s, i) : \E k \in DOMAIN s : Without(s, i)[j] = s[k]
<1>1. DOMAIN Without(s, i) = 1 .. (Len(s) - 1)
  BY DEF Without
<1>2. \A j \in 1 .. (Len(s) - 1) :
        Without(s, i)[j] = IF j < i THEN s[j] ELSE s[j + 1]
  BY DEF Without
<1>3. \A j \in 1 .. (Len(s) - 1) : Without(s, i)[j] \in S
  BY <1>2
<1>4. Without(s, i) \in Seq(S)
  <2>1. Len(s) - 1 \in Nat
    OBVIOUS
  <2>2. Without(s, i) \in [1 .. (Len(s) - 1) -> S]
    BY <1>3 DEF Without
  <2> QED
    BY <2>1, <2>2
<1> QED
  BY <1>1, <1>2, <1>4

-----------------------------------------------------------------------------
(***************************************************************************)
(* Headers.                                                                *)
(***************************************************************************)

\* update_sentinel_and_free_flags sets and clears flags of headers there are.
LEMMA FlagsKept ==
  ASSUME NEW D, NEW f, DOMAIN f = D, \A x \in D : f[x] \subseteq Flags,
         NEW s, NEW P, NEW a \in D, NEW wild
  PROVE  /\ DOMAIN UpdatedFlags(f, s, P, a, wild) = D
         /\ \A x \in D : UpdatedFlags(f, s, P, a, wild)[x] \subseteq Flags
<1> DEFINE Fine(g) == DOMAIN g = D /\ \A x \in D : g[x] \subseteq Flags
<1>1. ASSUME NEW g, Fine(g), NEW q PROVE Fine(MarkPrev(g, a, q))
  <2>1. DOMAIN MarkPrev(g, a, q) = D
    BY <1>1 DEF MarkPrev
  <2>2. ASSUME NEW x \in D PROVE MarkPrev(g, a, q)[x] \subseteq Flags
    BY <1>1 DEF MarkPrev, Flags
  <2> QED
    BY <2>1, <2>2
<1>2. ASSUME NEW g, Fine(g), NEW r PROVE Fine(MarkNext(g, a, r))
  <2>1. DOMAIN MarkNext(g, a, r) = D
    BY <1>2 DEF MarkNext
  <2>2. ASSUME NEW x \in D PROVE MarkNext(g, a, r)[x] \subseteq Flags
    BY <1>2 DEF MarkNext, Flags
  <2> QED
    BY <2>1, <2>2
<1>3. ASSUME NEW g, Fine(g) PROVE Fine([g EXCEPT ![a] = @ \cup {"NEXT_FREE"}])
  BY <1>3 DEF Flags
<1>4. Fine(f)
  OBVIOUS
<1> HIDE DEF Fine
<1>5. Fine(PrevMarked(f, a))
  BY <1>1, <1>4 DEF PrevMarked
<1>6. Fine(UpdatedFlags(f, s, P, a, wild))
  BY <1>2, <1>3, <1>5 DEF UpdatedFlags
<1> QED
  BY <1>6 DEF Fine

\* The fate of the walk is one of the fates.
LEMMA WalkFates ==
  ASSUME NEW f, NEW s, NEW P, NEW a, NEW wild
  PROVE  WalkFate(f, s, P, a, wild) \in Fates
  BY DEF WalkFate, Fates

\* A request served at the offset of a pool has passed pool_has_no_space_left; one
\* served from the free list gets a listed header of the right size.
LEMMA ServedSpot ==
  ASSUME NEW P \in Seq(Pool), NEW n, NEW p \in DOMAIN P, NEW i \in Nat, Serves(P, n, p, i)
  PROVE  /\ i = 0 => HasSpace(P[p], n)
         /\ i # 0 => i \in DOMAIN P[p].free /\ chunk_size[P[p].free[i]] = ChunkSize(n)
<1>1. CASE Reuses(P[p], n)
  <2>1. i \in DOMAIN P[p].free /\ NodeHasEqualSize(P[p].free[i], n)
    BY <1>1 DEF Serves
  <2>2. P[p] \in Pool
    OBVIOUS
  <2>3. P[p].free \in Seq(Nat \X Nat)
    BY <2>2 DEF Pool
  <2> QED
    BY <2>1, <2>3 DEF NodeHasEqualSize
<1>2. CASE ~Reuses(P[p], n)
  BY <1>2 DEF Serves, FirstFit, Fits, Reuses, FitsZero, FitsLinear
<1> QED
  BY <1>1, <1>2

(***************************************************************************)
(* create_header on pools P that the arena has, or gets for this request.  *)
(***************************************************************************)
LEMMA HeaderMade ==
  ASSUME TypeOK, Placed(pools, chunk_size, deadzone),
         NEW P, Grows(P),
         NEW n \in Nat, n < WORD, n % 16 = 0,
         NEW p \in DOMAIN P, NEW i \in 0 .. Len(P[p].free), Serves(P, n, p, i),
         NEW wild
  PROVE  /\ Spot(P, p, i) \in DOMAIN MadeSizes(P, n, p, i)
         /\ heads \subseteq DOMAIN MadeSizes(P, n, p, i)
         /\ Len(MadePools(P, n, p, i)) = Len(P)
         /\ Shape(MadePools(P, n, p, i), MadeSizes(P, n, p, i),
                  MadeFlags(P, n, p, i, wild), MadeTags(P, n, p, i))
         /\ MadeFate(P, n, p, i, wild) \in Fates
         /\ ChunkSize(n) >= n + 32 =>
              Placed(MadePools(P, n, p, i), MadeSizes(P, n, p, i), MadeTags(P, n, p, i))
<1> DEFINE c == ChunkSize(n)
           b == Spot(P, p, i)
           Q == MadePools(P, n, p, i)
           s == MadeSizes(P, n, p, i)
           d == MadeTags(P, n, p, i)
           e == NextHead(s, b)
<1>1. c \in Nat /\ (c >= n + 32 => SpaceNeeded(n) = c)
  BY ChunkExact
<1>2. /\ P \in Seq(Pool) /\ pools \in Seq(Pool)
      /\ DOMAIN P = 1 .. Len(P) /\ DOMAIN pools = 1 .. Len(pools)
      /\ Len(P) \in Nat /\ Len(pools) \in Nat /\ Len(pools) <= Len(P)
      /\ \A q \in DOMAIN pools : q \in DOMAIN P /\ P[q] = pools[q]
      /\ \A q \in DOMAIN P : q \notin DOMAIN pools => P[q].offset = 0 /\ P[q].free = <<>>
  <2>1. /\ P \in Seq(Pool) /\ pools \in Seq(Pool) /\ Len(P) >= Len(pools)
        /\ \A q \in 1 .. Len(pools) : P[q] = pools[q]
        /\ \A q \in (Len(pools) + 1) .. Len(P) : P[q].offset = 0 /\ P[q].free = <<>>
    BY DEF Grows, TypeOK
  <2>2. /\ DOMAIN P = 1 .. Len(P) /\ DOMAIN pools = 1 .. Len(pools)
        /\ Len(P) \in Nat /\ Len(pools) \in Nat
    BY <2>1
  <2> QED
    BY <2>1, <2>2
<1>3. \A q \in DOMAIN P :
        P[q] \in Pool /\ P[q].size \in Nat /\ P[q].offset \in Nat /\ P[q].free \in Seq(Nat \X Nat)
  <2> TAKE q \in DOMAIN P
  <2>1. P[q] \in Pool
    BY <1>2
  <2> QED
    BY <2>1 DEF Pool
<1>4. /\ i = 0 => HasSpace(P[p], n)
      /\ i # 0 => i \in DOMAIN P[p].free /\ chunk_size[P[p].free[i]] = c
  <2>1. P \in Seq(Pool) /\ i \in Nat
    BY <1>2
  <2>2. /\ i = 0 => HasSpace(P[p], n)
        /\ i # 0 => i \in DOMAIN P[p].free /\ chunk_size[P[p].free[i]] = ChunkSize(n)
    <3> HIDE DEF c, b, Q, s, d, e
    <3>1. Serves(P, n, p, i) /\ p \in DOMAIN P
      OBVIOUS
    <3>2. i = 0 => HasSpace(P[p], n)
      BY <2>1, <3>1, ServedSpot
    <3>3. i # 0 => i \in DOMAIN P[p].free /\ chunk_size[P[p].free[i]] = ChunkSize(n)
      BY <2>1, <3>1, ServedSpot
    <3> QED BY <3>2, <3>3
  <2> QED
    BY <2>2
<1>5. /\ heads \subseteq (1 .. Len(P)) \X Nat
      /\ \A a \in heads : a[1] \in DOMAIN pools /\ a[1] \in DOMAIN P /\ a[2] \in Nat
                          /\ chunk_size[a] \in Nat
      /\ \A a \in heads : a[2] + chunk_size[a] <= P[a[1]].offset
  BY <1>2 DEF TypeOK, Addresses, Placed, ChunksInside, heads
<1>6. i # 0 => b \in heads /\ b = P[p].free[i] /\ chunk_size[b] = c /\ p \in DOMAIN pools
  <2> SUFFICES ASSUME i # 0 PROVE b \in heads /\ b = P[p].free[i] /\ chunk_size[b] = c
                                  /\ p \in DOMAIN pools
    OBVIOUS
  <2>1. b = P[p].free[i] /\ chunk_size[b] = c /\ i \in DOMAIN P[p].free
    BY <1>4 DEF Spot
  <2>2. p \in DOMAIN pools
    BY <1>2, <2>1
  <2> QED
    BY <1>2, <2>1, <2>2 DEF Placed, ListsHoldHeads, heads
<1>7. i = 0 => b = <<p, P[p].offset>>
  BY DEF Spot
<1>8. b \in (1 .. Len(P)) \X Nat /\ b[1] \in DOMAIN P /\ b[2] \in Nat
  BY <1>2, <1>3, <1>5, <1>6, <1>7
<1>9. /\ DOMAIN s = heads \cup {b}
      /\ \A a \in DOMAIN s : s[a] = IF a = b THEN c ELSE chunk_size[a]
  BY DEF MadeSizes, With, heads
<1>10. e = <<b[1], b[2] + c>>
  BY <1>9 DEF NextHead
<1>11. /\ DOMAIN d = DOMAIN deadzone \cup {e}
       /\ \A x \in DOMAIN d :
            d[x] = IF x = e THEN [prev_chunk_size |-> c, pool_ptr |-> p] ELSE deadzone[x]
  BY DEF MadeTags, With
<1>12. /\ Q \in Seq(Pool) /\ Len(Q) = Len(P) /\ DOMAIN Q = DOMAIN P
       /\ \A q \in DOMAIN P : Q[q].size = P[q].size
       /\ \A q \in DOMAIN P :
            Q[q].offset = IF q = p /\ i = 0 THEN P[q].offset + c ELSE P[q].offset
       /\ \A q \in DOMAIN P : \A j \in DOMAIN Q[q].free :
            \E k \in DOMAIN P[q].free : Q[q].free[j] = P[q].free[k]
  <2>1. CASE i = 0
    <3>1. Q = [P EXCEPT ![p] = [P[p] EXCEPT !.offset = P[p].offset + c]]
      BY <2>1 DEF MadePools
    <3>2. [P[p] EXCEPT !.offset = P[p].offset + c] \in Pool
      <4>1. P[p] \in Pool /\ P[p].offset + c \in Nat
        BY <1>1, <1>3
      <4> HIDE DEF c
      <4> QED
        BY <4>1 DEF Pool
    <3>3. Q \in Seq(Pool) /\ Len(Q) = Len(P) /\ DOMAIN Q = DOMAIN P
      BY <1>2, <3>1, <3>2
    <3>4. \A q \in DOMAIN P : Q[q] = IF q = p THEN [P[p] EXCEPT !.offset = P[p].offset + c] ELSE P[q]
      BY <3>1
    <3>5. /\ [P[p] EXCEPT !.offset = P[p].offset + c].offset = P[p].offset + c
          /\ [P[p] EXCEPT !.offset = P[p].offset + c].size = P[p].size
          /\ [P[p] EXCEPT !.offset = P[p].offset + c].free = P[p].free
      BY <1>3 DEF Pool
    <3> HIDE DEF Q
    <3> QED
      BY <2>1, <3>3, <3>4, <3>5
  <2>2. CASE i # 0
    <3> DEFINE w == Without(P[p].free, i)
    <3>1. i \in 1 .. Len(P[p].free)
      BY <2>2
    <3>2. /\ w \in Seq(Nat \X Nat)
          /\ \A j \in DOMAIN w : \E k \in DOMAIN P[p].free : w[j] = P[p].free[k]
      BY <1>3, <3>1, WithoutNode
    <3>3. Q = [P EXCEPT ![p] = [P[p] EXCEPT !.free = w]]
      BY <2>2 DEF MadePools
    <3> HIDE DEF w
    <3>4. [P[p] EXCEPT !.free = w] \in Pool
      BY <1>3, <3>2 DEF Pool
    <3>5. Q \in Seq(Pool) /\ Len(Q) = Len(P) /\ DOMAIN Q = DOMAIN P
      BY <1>2, <3>3, <3>4
    <3>6. \A q \in DOMAIN P : Q[q] = IF q = p THEN [P[p] EXCEPT !.free = w] ELSE P[q]
      BY <3>3
    <3>7. /\ [P[p] EXCEPT !.free = w].offset = P[p].offset
          /\ [P[p] EXCEPT !.free = w].size = P[p].size
          /\ [P[p] EXCEPT !.free = w].free = w
      BY <1>3 DEF Pool
    <3> HIDE DEF Q
    <3> QED
      <4>1. \A q \in DOMAIN P : Q[q].size = P[q].size /\ Q[q].offset = P[q].offset
        BY <3>6, <3>7
      <4>2. ASSUME NEW q \in DOMAIN P, NEW j \in DOMAIN Q[q].free
            PROVE  \E k \in DOMAIN P[q].free : Q[q].free[j] = P[q].free[k]
        <5>1. CASE q = p
          <6>1. Q[q].free = w
            BY <5>1, <3>6, <3>7
          <6> QED
            BY <6>1, <5>1, <3>2
        <5>2. CASE q # p
          BY <5>2, <3>6
        <5> QED
          BY <5>1, <5>2
      <4> QED
        BY <2>2, <3>5, <4>1, <4>2
  <2> QED
    BY <2>1, <2>2
<1>13. /\ DOMAIN MadeFlags(P, n, p, i, wild) = DOMAIN s
       /\ \A a \in DOMAIN s : MadeFlags(P, n, p, i, wild)[a] \subseteq Flags
  <2> DEFINE f == With(bitflags, b, CreatedFlags(P, n, p, i))
  <2>1. CreatedFlags(P, n, p, i) \subseteq Flags
    BY DEF CreatedFlags, Flags
  <2>2. DOMAIN f = DOMAIN s /\ \A a \in DOMAIN s : f[a] \subseteq Flags
    BY <1>9, <2>1 DEF With, TypeOK
  <2>3. b \in DOMAIN s
    BY <1>9
  <2> HIDE DEF f
  <2>4. /\ DOMAIN UpdatedFlags(f, s, Q, b, wild) = DOMAIN s
        /\ \A a \in DOMAIN s : UpdatedFlags(f, s, Q, b, wild)[a] \subseteq Flags
    <3> HIDE DEF b, s, Q
    <3> QED BY <2>2, <2>3, FlagsKept
  <2> QED
    BY <2>4 DEF MadeFlags, f
<1> HIDE DEF b, Q, s, d, e, c
<1>14. Shape(Q, s, MadeFlags(P, n, p, i, wild), d)
  <2>1. DOMAIN s \subseteq (1 .. Len(Q)) \X Nat /\ \A a \in DOMAIN s : s[a] \in Nat
    BY <1>1, <1>5, <1>8, <1>9, <1>12
  <2>2. DOMAIN d \subseteq (1 .. Len(Q)) \X Nat
    <3>1. DOMAIN deadzone \subseteq (1 .. Len(Q)) \X Nat
      BY <1>2, <1>12 DEF TypeOK, Addresses
    <3>2. e \in (1 .. Len(Q)) \X Nat
      BY <1>1, <1>8, <1>10, <1>12
    <3> QED
      BY <3>1, <3>2, <1>11
  <2>3. \A x \in DOMAIN d : d[x] \in Tag
    <3>1. [prev_chunk_size |-> c, pool_ptr |-> p] \in Tag
      BY <1>1, <1>2 DEF Tag
    <3> QED
      BY <3>1, <1>11 DEF TypeOK
  <2> QED
    BY <1>12, <1>13, <2>1, <2>2, <2>3 DEF Shape
<1>15. ASSUME c >= n + 32 PROVE Placed(Q, s, d)
  <2>1. i = 0 => P[p].offset + c <= P[p].size
    BY <1>1, <1>3, <1>4, <1>15 DEF HasSpace
  <2>2. OffsetsInside(Q)
    <3>1. \A q \in DOMAIN P : P[q].offset <= P[q].size
      BY <1>2, <1>3 DEF Placed, OffsetsInside
    <3> QED
      BY <3>1, <2>1, <1>12 DEF OffsetsInside
  <2>3. ChunksInside(Q, s)
    <3> SUFFICES ASSUME NEW a \in DOMAIN s PROVE a[2] + s[a] <= Q[a[1]].offset
      BY DEF ChunksInside
    <3>1. CASE i = 0 /\ a = b
      BY <3>1, <1>7, <1>9, <1>12, <1>3, <1>1
    <3>2. CASE ~(i = 0 /\ a = b)
      <4>1. a \in heads /\ s[a] = chunk_size[a]
        BY <3>2, <1>6, <1>9
      <4>2. a[1] \in DOMAIN P /\ a[2] + chunk_size[a] <= P[a[1]].offset
            /\ a[2] \in Nat /\ chunk_size[a] \in Nat
        BY <4>1, <1>5
      <4>3. Q[a[1]].offset \in Nat /\ Q[a[1]].offset >= P[a[1]].offset
        <5>1. Q[a[1]].offset = P[a[1]].offset + c \/ Q[a[1]].offset = P[a[1]].offset
          BY <4>2, <1>12
        <5>2. P[a[1]].offset \in Nat
          BY <4>2, <1>3
        <5> QED
          BY <5>1, <5>2, <1>1
      <4> QED
        BY <4>1, <4>2, <4>3, <1>3
    <3> QED
      BY <3>1, <3>2
  <2>4. ChunksApart(s)
    <3> SUFFICES ASSUME NEW a \in DOMAIN s, NEW x \in DOMAIN s, a[1] = x[1], a[2] < x[2]
                 PROVE  a[2] + s[a] <= x[2]
      BY DEF ChunksApart
    <3>1. CASE a \in heads /\ x \in heads /\ s[a] = chunk_size[a]
      BY <3>1 DEF Placed, ChunksApart, heads
    <3>2. CASE i = 0 /\ x = b /\ a # b
      <4>1. x[2] = P[a[1]].offset
        BY <3>2, <1>7
      <4>2. a \in heads /\ s[a] = chunk_size[a]
        BY <3>2, <1>9
      <4> QED
        BY <4>1, <4>2, <1>5
    <3>3. CASE i = 0 /\ a = b
      <4>1. x # b /\ a[2] = P[x[1]].offset /\ a[2] \in Nat
        BY <3>3, <1>7, <1>3, <1>8
      <4>2. x \in heads /\ x[2] + chunk_size[x] <= a[2] /\ x[2] \in Nat /\ chunk_size[x] \in Nat
        BY <4>1, <1>5, <1>9
      <4> QED
        BY <4>1, <4>2
    <3> QED
      BY <3>1, <3>2, <3>3, <1>6, <1>9
  <2>5. TagsNamePools(Q, s, d)
    <3> SUFFICES ASSUME NEW a \in DOMAIN s
                 PROVE  NextHead(s, a) \in DOMAIN d /\ d[NextHead(s, a)].pool_ptr \in DOMAIN P
      BY <1>12 DEF TagsNamePools
    <3>1. CASE a = b
      BY <3>1, <1>11 DEF e
    <3>2. CASE a # b
      <4>1. a \in heads /\ NextHead(s, a) = NextHead(chunk_size, a)
        BY <3>2, <1>9 DEF NextHead
      <4>2. NextHead(chunk_size, a) \in DOMAIN deadzone
            /\ deadzone[NextHead(chunk_size, a)].pool_ptr \in DOMAIN P
        BY <4>1, <1>2 DEF Placed, TagsNamePools, heads
      <4> QED
        BY <4>1, <4>2, <1>11
    <3> QED
      BY <3>1, <3>2
  <2>6. ListsHoldHeads(Q, s)
    <3>1. \A q \in DOMAIN P : \A k \in DOMAIN P[q].free : P[q].free[k] \in heads
      BY <1>2 DEF Placed, ListsHoldHeads, heads
    <3> QED
      BY <3>1, <1>9, <1>12 DEF ListsHoldHeads
  <2> QED
    BY <2>2, <2>3, <2>4, <2>5, <2>6 DEF Placed
<1>16. MadeFate(P, n, p, i, wild) \in Fates
  BY WalkFates DEF MadeFate, Fates
<1> QED
  BY <1>9, <1>12, <1>14, <1>15, <1>16 DEF b, Q, s, d, c
\* A header that was made in safety is as large as its payload needs.
LEMMA MadeSafely ==
  ASSUME NEW P, NEW n \in Nat, n < WORD, n % 16 = 0, NEW p, NEW i, NEW wild,
         MadeFate(P, n, p, i, wild) = "ok"
  PROVE  ChunkSize(n) >= n + 32
<1>1. ChunkSize(n) \in Nat
  BY ChunkExact
<1> QED
  BY <1>1 DEF MadeFate, STRUCT_SIZE_HEADER, DEADZONE_SIZE

\* The copy in syn_realloc replaces at most one tag, by one that was there.
LEMMA CopiedTags ==
  ASSUME NEW tags, NEW a, NEW b, NEW n
  PROVE  /\ DOMAIN Copied(tags, a, b, n) = DOMAIN tags
         /\ \A x \in DOMAIN tags :
              \/ Copied(tags, a, b, n)[x] = tags[x]
              \/ Copied(tags, a, b, n)[x] = deadzone[Behind(a)]
  BY DEF Copied

\* The pool a header is freed to exists.
LEMMA ReturnedPool ==
  ASSUME TypeOK, Placed(pools, chunk_size, deadzone), NEW a \in heads
  PROVE  /\ Behind(a) \in DOMAIN deadzone /\ deadzone[Behind(a)] \in Tag
         /\ ReturnPool(a) \in DOMAIN pools
  BY DEF TypeOK, Placed, TagsNamePools, NextHead, Behind, ReturnPool, heads

-----------------------------------------------------------------------------
(***************************************************************************)
(* Every action keeps the invariant.                                       *)
(***************************************************************************)

\* The invariant holds before the first call.
LEMMA InitHolds == HeapInit => HeapInv
  BY DEF HeapInit, HeapInv, TypeOK, heads, Addresses, Fates, Placed, OffsetsInside,
         ChunksInside, ChunksApart, TagsNamePools, ListsHoldHeads

\* A call that ends with the pools it worked on, headers untouched.
LEMMA PoolsOnly ==
  ASSUME TypeOK, Placed(pools, chunk_size, deadzone), NEW P, Grows(P)
  PROVE  /\ Shape(P, chunk_size, bitflags, deadzone)
         /\ Placed(P, chunk_size, deadzone)
<1>1. /\ P \in Seq(Pool) /\ pools \in Seq(Pool) /\ Len(P) >= Len(pools)
      /\ \A q \in 1 .. Len(pools) : P[q] = pools[q]
      /\ \A q \in (Len(pools) + 1) .. Len(P) : P[q].offset = 0 /\ P[q].free = <<>>
  BY DEF Grows, TypeOK
<1>2. /\ DOMAIN P = 1 .. Len(P) /\ DOMAIN pools = 1 .. Len(pools)
      /\ Len(P) \in Nat /\ Len(pools) \in Nat
  BY <1>1
<1>3. \A q \in DOMAIN pools : q \in DOMAIN P /\ P[q] = pools[q]
  BY <1>1, <1>2
<1>4. \A q \in DOMAIN P : q \notin DOMAIN pools => P[q].offset = 0 /\ P[q].free = <<>>
  BY <1>1, <1>2
<1>5. \A q \in DOMAIN P : P[q].size \in Nat
  <2> TAKE q \in DOMAIN P
  <2>1. P[q] \in Pool
    BY <1>1
  <2> QED
    BY <2>1 DEF Pool
<1>6. heads \subseteq (1 .. Len(P)) \X Nat /\ DOMAIN deadzone \subseteq (1 .. Len(P)) \X Nat
  BY <1>1, <1>2 DEF TypeOK, Addresses
<1>7. \A a \in heads : a[1] \in DOMAIN pools
  BY <1>2 DEF TypeOK, Addresses
<1>8. Shape(P, chunk_size, bitflags, deadzone)
  BY <1>1, <1>6 DEF Shape, TypeOK, heads
<1>9. OffsetsInside(P)
  BY <1>3, <1>4, <1>5 DEF Placed, OffsetsInside
<1>10. ChunksInside(P, chunk_size)
  BY <1>3, <1>7 DEF Placed, ChunksInside, heads
<1>11. TagsNamePools(P, chunk_size, deadzone)
  BY <1>3 DEF Placed, TagsNamePools
<1>12. ListsHoldHeads(P, chunk_size)
  BY <1>3, <1>4 DEF Placed, ListsHoldHeads
<1> QED
  BY <1>8, <1>9, <1>10, <1>11, <1>12 DEF Placed

\* syn_alloc.
LEMMA AllocKeeps ==
  ASSUME HeapInv, NEW size \in Requests, NEW a, HeapAlloc(size, a)
  PROVE  HeapInv'
<1> DEFINE n == PaddedSize(size)
           P == Supply(size, n)
<1>1. TypeOK /\ Placed(pools, chunk_size, deadzone) /\ Len(pools) <= mapped_pools
  BY DEF HeapInv, HeapAlloc, Alive, Safe
<1>2. size \in Nat
  BY RequestsAssumption
<1>3. n \in Nat /\ n < WORD /\ n % 16 = 0
  BY <1>2, RequestAligned
<1>4. Grows(P)
  BY <1>1, SupplyGrows
<1> HIDE DEF n
<1>5. PICK p \in DOMAIN P, i \in Int, wild \in Wild :
        /\ i \in 0 .. Len(P[p].free)
        /\ Serves(P, n, p, i)
        /\ pools' = MadePools(P, n, p, i)
        /\ chunk_size' = MadeSizes(P, n, p, i)
        /\ deadzone' = MadeTags(P, n, p, i)
        /\ bitflags' = MadeFlags(P, n, p, i, wild)
        /\ fate' = MadeFate(P, n, p, i, wild)
        /\ PoolsSupplied(P)
  BY DEF HeapAlloc, n
<1> HIDE DEF P
<1>6. /\ Len(pools') = Len(P)
      /\ Shape(pools', chunk_size', bitflags', deadzone')
      /\ fate' \in Fates
      /\ ChunkSize(n) >= n + 32 => Placed(pools', chunk_size', deadzone')
  BY <1>1, <1>3, <1>4, <1>5, HeaderMade
<1>7. Safe' => Placed(pools', chunk_size', deadzone')
  BY <1>3, <1>5, <1>6, MadeSafely DEF Safe
<1>8. /\ pool_count' \in Nat /\ mapped_pools' \in Nat /\ Len(pools') <= mapped_pools'
  BY <1>1, <1>4, <1>5, <1>6 DEF PoolsSupplied, TypeOK, Grows
<1>9. TypeOK'
  BY <1>6, <1>8 DEF TypeOK, Shape, heads, Addresses
<1> QED
  BY <1>7, <1>8, <1>9 DEF HeapInv

\* syn_realloc: as for syn_alloc, and the copied deadzone still names a pool.
LEMMA ReallocKeeps ==
  ASSUME HeapInv, NEW a, NEW size \in ReallocRequests, NEW b, HeapRealloc(a, size, b)
  PROVE  HeapInv'
<1> DEFINE n == ReallocSize(size)
           P == Supply(size, n)
<1>1. TypeOK /\ Placed(pools, chunk_size, deadzone) /\ Len(pools) <= mapped_pools
      /\ a \in heads
  BY DEF HeapInv, HeapRealloc, Alive, Safe, Unfrozen
<1>2. size \in Nat
  BY RequestsAssumption
<1>3. n \in Nat /\ n < WORD /\ n % 16 = 0
  BY <1>2, RequestAligned
<1>4. Grows(P)
  BY <1>1, SupplyGrows
<1> HIDE DEF n
<1>p. PICK p \in DOMAIN P : \E i \in 0 .. Len(P[p].free) :
        /\ Serves(P, n, p, i)
        /\ b = Spot(P, p, i)
        /\ pools' = MadePools(P, n, p, i)
        /\ chunk_size' = MadeSizes(P, n, p, i)
        /\ deadzone' = Copied(MadeTags(P, n, p, i), a, b, n)
        /\ \E wild \in Wild :
             LET f == MadeFlags(P, n, p, i, wild)
             IN  /\ bitflags' = [f EXCEPT ![b] = f[a], ![a] = Freed(f[a])]
                 /\ fate' = IF chunk_size[a] > ChunkSize(n)
                              THEN "overrun" ELSE MadeFate(P, n, p, i, wild)
  BY Zenon DEF HeapRealloc, n
<1>i. PICK i \in 0 .. Len(P[p].free) :
        /\ Serves(P, n, p, i)
        /\ b = Spot(P, p, i)
        /\ pools' = MadePools(P, n, p, i)
        /\ chunk_size' = MadeSizes(P, n, p, i)
        /\ deadzone' = Copied(MadeTags(P, n, p, i), a, b, n)
        /\ \E wild \in Wild :
             LET f == MadeFlags(P, n, p, i, wild)
             IN  /\ bitflags' = [f EXCEPT ![b] = f[a], ![a] = Freed(f[a])]
                 /\ fate' = IF chunk_size[a] > ChunkSize(n)
                              THEN "overrun" ELSE MadeFate(P, n, p, i, wild)
  BY <1>p, Zenon
<1>w. PICK wild \in Wild :
        /\ bitflags' = [MadeFlags(P, n, p, i, wild) EXCEPT
                          ![b] = MadeFlags(P, n, p, i, wild)[a],
                          ![a] = Freed(MadeFlags(P, n, p, i, wild)[a])]
        /\ fate' = IF chunk_size[a] > ChunkSize(n)
                     THEN "overrun" ELSE MadeFate(P, n, p, i, wild)
  BY <1>i
<1>s. PoolsSupplied(P)
  BY DEF HeapRealloc, n
<1> HIDE DEF P
<1> DEFINE d == MadeTags(P, n, p, i)
           f == MadeFlags(P, n, p, i, wild)
<1>6. /\ Len(pools') = Len(P)
      /\ heads \subseteq DOMAIN chunk_size' /\ b \in DOMAIN chunk_size'
      /\ Shape(pools', chunk_size', f, d)
      /\ MadeFate(P, n, p, i, wild) \in Fates
      /\ ChunkSize(n) >= n + 32 => Placed(pools', chunk_size', d)
  BY <1>1, <1>3, <1>4, <1>i, HeaderMade
<1>7. /\ deadzone[Behind(a)] \in Tag /\ ReturnPool(a) \in DOMAIN pools
  BY <1>1, ReturnedPool
<1>8. /\ DOMAIN deadzone' = DOMAIN d
      /\ \A x \in DOMAIN d : deadzone'[x] = d[x] \/ deadzone'[x] = deadzone[Behind(a)]
  BY <1>i, CopiedTags
<1>9. /\ DOMAIN bitflags' = DOMAIN f
      /\ \A x \in DOMAIN f : bitflags'[x] = f[x] \/ bitflags'[x] = f[a] \/ bitflags'[x] = Freed(f[a])
  BY <1>w
<1>10. fate' = "ok" => MadeFate(P, n, p, i, wild) = "ok"
  BY <1>w
<1> HIDE DEF d, f
<1>11. Shape(pools', chunk_size', bitflags', deadzone')
  <2>1. f[a] \subseteq Flags /\ Freed(f[a]) \subseteq Flags
    BY <1>1, <1>6 DEF Shape, Freed, Flags
  <2>2. DOMAIN bitflags' = DOMAIN chunk_size'
        /\ \A x \in DOMAIN chunk_size' : bitflags'[x] \subseteq Flags
    BY <1>6, <1>9, <2>1 DEF Shape
  <2>3. DOMAIN deadzone' \subseteq (1 .. Len(pools')) \X Nat
        /\ \A x \in DOMAIN deadzone' : deadzone'[x] \in Tag
    BY <1>6, <1>7, <1>8 DEF Shape
  <2> QED
    BY <1>6, <2>2, <2>3 DEF Shape
<1>12. ASSUME Placed(pools', chunk_size', d)
       PROVE  Placed(pools', chunk_size', deadzone')
  <2>1. DOMAIN pools \subseteq DOMAIN pools'
    <3>1. pools \in Seq(Pool) /\ pools' \in Seq(Pool) /\ Len(pools) <= Len(pools')
      BY <1>1, <1>4, <1>6 DEF TypeOK, Shape, Grows
    <3> QED
      BY <3>1
  <2>2. TagsNamePools(pools', chunk_size', deadzone')
    <3> SUFFICES ASSUME NEW x \in DOMAIN chunk_size'
                 PROVE  /\ NextHead(chunk_size', x) \in DOMAIN deadzone'
                        /\ deadzone'[NextHead(chunk_size', x)].pool_ptr \in DOMAIN pools'
      BY DEF TagsNamePools
    <3>1. NextHead(chunk_size', x) \in DOMAIN d
          /\ d[NextHead(chunk_size', x)].pool_ptr \in DOMAIN pools'
      BY <1>12 DEF Placed, TagsNamePools
    <3>2. deadzone[Behind(a)].pool_ptr \in DOMAIN pools'
      BY <1>7, <2>1 DEF ReturnPool
    <3> QED
      BY <3>1, <3>2, <1>8
  <2> QED
    BY <1>12, <2>2 DEF Placed
<1>13. Safe' => Placed(pools', chunk_size', deadzone')
  BY <1>3, <1>6, <1>10, <1>12, MadeSafely DEF Safe
<1>14. /\ pool_count' \in Nat /\ mapped_pools' \in Nat /\ Len(pools') <= mapped_pools'
  BY <1>1, <1>4, <1>s, <1>6 DEF PoolsSupplied, TypeOK, Grows
<1>15. fate' \in Fates
  BY <1>w, <1>6 DEF Fates
<1>16. TypeOK'
  BY <1>11, <1>14, <1>15 DEF TypeOK, Shape, heads, Addresses
<1> QED
  BY <1>13, <1>14, <1>16 DEF HeapInv

\* syn_alloc or syn_realloc when no pool can serve the request.
LEMMA GiveUpKeeps ==
  ASSUME HeapInv, NEW size, NEW n, HeapGiveUp(size, n)
  PROVE  HeapInv'
<1> DEFINE P == Supply(size, n)
<1>1. TypeOK /\ Placed(pools, chunk_size, deadzone) /\ Len(pools) <= mapped_pools
  BY DEF HeapInv, HeapGiveUp, Alive, Safe
<1>2. Grows(P)
  BY <1>1, SupplyGrows
<1>3. /\ pools' = P /\ PoolsSupplied(P)
      /\ UNCHANGED <<chunk_size, bitflags, deadzone, fate>>
  BY DEF HeapGiveUp
<1> HIDE DEF P
<1>4. /\ Shape(P, chunk_size, bitflags, deadzone)
      /\ Placed(P, chunk_size, deadzone)
  BY <1>1, <1>2, PoolsOnly
<1>5. pool_count' \in Nat /\ mapped_pools' \in Nat /\ Len(pools') <= mapped_pools'
  BY <1>1, <1>2, <1>3 DEF PoolsSupplied, TypeOK, Grows
<1>6. TypeOK'
  BY <1>1, <1>3, <1>4, <1>5 DEF TypeOK, Shape, heads, Addresses
<1> QED
  BY <1>3, <1>4, <1>5, <1>6 DEF HeapInv

\* syn_free: the freed header joins the list of the pool its deadzone names.
LEMMA FreeKeeps ==
  ASSUME HeapInv, NEW a, HeapFree(a)
  PROVE  HeapInv'
<1> DEFINE p == ReturnPool(a)
           f == [bitflags EXCEPT ![a] = Freed(@)]
<1>1. /\ TypeOK /\ Placed(pools, chunk_size, deadzone) /\ Len(pools) <= mapped_pools
      /\ a \in heads
      /\ UNCHANGED <<pool_count, chunk_size, deadzone, mapped_pools>>
  BY DEF HeapInv, HeapFree, Safe, Unfrozen
<1>2. p \in DOMAIN pools
  BY <1>1, ReturnedPool
<1>3. CASE \E i \in DOMAIN pools[p].free : pools[p].free[i] = a
  <2>1. fate' \in {"self_loop", "fault"} /\ UNCHANGED <<pools, bitflags>>
    BY <1>3 DEF HeapFree
  <2> QED
    BY <1>1, <2>1 DEF HeapInv, TypeOK, heads, Addresses, Fates, Safe
<1>4. CASE ~ \E i \in DOMAIN pools[p].free : pools[p].free[i] = a
  <2>1. PICK wild \in Wild :
          /\ pools' = [pools EXCEPT ![p].free = Append(@, a)]
          /\ bitflags' = UpdatedFlags(f, chunk_size, pools, a, wild)
          /\ fate' = WalkFate(f, chunk_size, pools, a, wild)
    BY <1>4 DEF HeapFree
  <2>2. DOMAIN f = heads /\ \A x \in heads : f[x] \subseteq Flags
    BY <1>1 DEF TypeOK, Freed, Flags
  <2> HIDE DEF f, p
  <2>3. DOMAIN bitflags' = heads /\ \A x \in heads : bitflags'[x] \subseteq Flags
    BY <1>1, <2>1, <2>2, FlagsKept
  <2>4. fate' \in Fates
    BY <2>1, WalkFates
  <2> DEFINE N == [pools[p] EXCEPT !.free = Append(pools[p].free, a)]
  <2>5. pools' = [pools EXCEPT ![p] = N]
    BY <2>1
  <2>6. pools[p] \in Pool /\ a \in Nat \X Nat /\ pools \in Seq(Pool)
    BY <1>1, <1>2 DEF TypeOK, Addresses
  <2>7. /\ pools[p].free \in Seq(Nat \X Nat)
        /\ Append(pools[p].free, a) \in Seq(Nat \X Nat)
        /\ \A i \in DOMAIN Append(pools[p].free, a) :
             Append(pools[p].free, a)[i] = a \/ (i \in DOMAIN pools[p].free
               /\ Append(pools[p].free, a)[i] = pools[p].free[i])
    <3>1. pools[p].free \in Seq(Nat \X Nat)
      BY <2>6 DEF Pool
    <3> QED
      BY <3>1, <2>6
  <2>8. /\ N \in Pool /\ N.offset = pools[p].offset /\ N.size = pools[p].size
        /\ N.free = Append(pools[p].free, a)
    BY <2>6, <2>7 DEF Pool
  <2> HIDE DEF N
  <2>9. /\ pools' \in Seq(Pool) /\ Len(pools') = Len(pools) /\ DOMAIN pools' = DOMAIN pools
        /\ \A q \in DOMAIN pools : pools'[q] = IF q = p THEN N ELSE pools[q]
    BY <1>2, <2>5, <2>6, <2>8
  <2>10. \A q \in DOMAIN pools :
           pools'[q].offset = pools[q].offset /\ pools'[q].size = pools[q].size
    BY <2>8, <2>9
  <2>11. ListsHoldHeads(pools', chunk_size)
    <3> SUFFICES ASSUME NEW q \in DOMAIN pools, NEW i \in DOMAIN pools'[q].free
                 PROVE  pools'[q].free[i] \in heads
      BY <2>9 DEF ListsHoldHeads, heads
    <3>1. \A k \in DOMAIN pools[q].free : pools[q].free[k] \in heads
      BY <1>1 DEF Placed, ListsHoldHeads, heads
    <3>2. CASE q = p
      BY <3>1, <3>2, <1>1, <2>7, <2>8, <2>9
    <3>3. CASE q # p
      BY <3>1, <3>3, <2>9
    <3> QED
      BY <3>2, <3>3
  <2>12. Placed(pools', chunk_size, deadzone)
    <3>1. \A x \in heads : x[1] \in DOMAIN pools
      BY <1>1 DEF TypeOK, Addresses
    <3>2. OffsetsInside(pools') /\ TagsNamePools(pools', chunk_size, deadzone)
      BY <1>1, <2>9, <2>10 DEF Placed, OffsetsInside, TagsNamePools
    <3>3. ChunksInside(pools', chunk_size)
      BY <1>1, <2>10, <3>1 DEF Placed, ChunksInside, heads
    <3> QED
      BY <1>1, <2>11, <3>2, <3>3 DEF Placed
  <2>13. TypeOK'
    BY <1>1, <2>3, <2>4, <2>9 DEF TypeOK, heads, Addresses
  <2> QED
    BY <1>1, <2>9, <2>12, <2>13 DEF HeapInv
<1> QED
  BY <1>3, <1>4

\* syn_freeze and syn_thaw change flags of one header.
LEMMA FreezeThawKeeps ==
  ASSUME HeapInv, NEW a, HeapFreeze(a) \/ HeapThaw(a)
  PROVE  HeapInv'
<1>1. /\ a \in heads
      /\ bitflags' = [bitflags EXCEPT ![a] = @ \cup {"FROZEN"}] \/
         bitflags' = [bitflags EXCEPT ![a] = @ \ {"FROZEN"}]
      /\ UNCHANGED <<pools, pool_count, chunk_size, deadzone, mapped_pools, fate>>
  BY DEF HeapFreeze, HeapThaw, Unfrozen
<1>2. DOMAIN bitflags' = heads /\ \A x \in heads : bitflags'[x] \subseteq Flags
  BY <1>1 DEF HeapInv, TypeOK, Flags
<1>3. TypeOK'
  BY <1>1, <1>2 DEF HeapInv, TypeOK, heads, Addresses
<1> QED
  BY <1>1, <1>3 DEF HeapInv, Safe

\* No header is left after syn_reset and syn_destroy, whatever pools stay.
LEMMA NothingPlaced ==
  ASSUME NEW P \in Seq(Pool), OffsetsInside(P), \A q \in DOMAIN P : P[q].free = <<>>
  PROVE  Shape(P, <<>>, <<>>, <<>>) /\ Placed(P, <<>>, <<>>)
<1>1. DOMAIN <<>> = {}
  OBVIOUS
<1> QED
  BY <1>1 DEF Shape, Placed, ChunksInside, ChunksApart, TagsNamePools, ListsHoldHeads

\* syn_reset keeps the first pool and its mapping.
LEMMA ResetKeeps == ASSUME HeapInv, HeapReset PROVE HeapInv'
<1> DEFINE N == [pools[1] EXCEPT !.offset = 0, !.free = <<>>]
<1>1. /\ TypeOK /\ Len(pools) <= mapped_pools
      /\ pools # <<>> /\ pools' = <<N>>
      /\ mapped_pools' = mapped_pools - Unmapped(PoolReserved, Len(pools) - 1)
      /\ chunk_size' = <<>> /\ bitflags' = <<>> /\ deadzone' = <<>>
      /\ pool_count' = pool_count /\ fate' = fate
  BY DEF HeapInv, HeapReset, NoHeaders
<1>2. pools \in Seq(Pool) /\ pools[1] \in Pool /\ Len(pools) \in Nat /\ Len(pools) >= 1
  BY <1>1 DEF TypeOK
<1>3. N \in Pool /\ N.offset = 0 /\ N.free = <<>>
  <2>1. <<>> \in Seq(Nat \X Nat)
    OBVIOUS
  <2> QED
    BY <1>2, <2>1 DEF Pool
<1> HIDE DEF N
<1>4. /\ pools' \in Seq(Pool) /\ Len(pools') = 1 /\ DOMAIN pools' = {1} /\ pools'[1] = N
  BY <1>1, <1>3
<1>5. OffsetsInside(pools')
  BY <1>3, <1>4 DEF OffsetsInside, Pool
<1>6. Shape(pools', <<>>, <<>>, <<>>) /\ Placed(pools', <<>>, <<>>)
  BY <1>3, <1>4, <1>5, NothingPlaced
<1>7. Unmapped(PoolReserved, Len(pools) - 1) \in 0 .. (Len(pools) - 1)
  BY <1>2 DEF Unmapped
<1>8. mapped_pools' \in Nat /\ Len(pools') <= mapped_pools'
  BY <1>1, <1>2, <1>4, <1>7 DEF TypeOK
<1>9. TypeOK'
  BY <1>1, <1>6, <1>8 DEF TypeOK, Shape, heads, Addresses
<1> QED
  BY <1>1, <1>6, <1>8, <1>9 DEF HeapInv

\* syn_destroy leaves no pool.
LEMMA DestroyKeeps == ASSUME HeapInv, HeapDestroy PROVE HeapInv'
<1>1. /\ TypeOK /\ Len(pools) <= mapped_pools
      /\ pools' = <<>> /\ pool_count' = 0
      /\ mapped_pools' = mapped_pools - Unmapped(0, Len(pools))
      /\ chunk_size' = <<>> /\ bitflags' = <<>> /\ deadzone' = <<>> /\ fate' = fate
  BY DEF HeapInv, HeapDestroy, NoHeaders
<1>2. Len(pools) \in Nat /\ mapped_pools \in Nat
  BY <1>1 DEF TypeOK
<1>3. Unmapped(0, Len(pools)) \in 0 .. Len(pools)
  BY <1>2 DEF Unmapped
<1>4. pools' \in Seq(Pool) /\ Len(pools') = 0 /\ DOMAIN pools' = {}
  BY <1>1
<1>5. Shape(pools', <<>>, <<>>, <<>>) /\ Placed(pools', <<>>, <<>>)
  BY <1>4, NothingPlaced DEF OffsetsInside
<1>6. mapped_pools' \in Nat /\ Len(pools') <= mapped_pools'
  BY <1>1, <1>2, <1>3, <1>4
<1>7. TypeOK'
  BY <1>1, <1>5, <1>6 DEF TypeOK, Shape, heads, Addresses
<1> QED
  BY <1>1, <1>5, <1>6, <1>7 DEF HeapInv

\* mmap fails, the walk of the pools fails, or nothing happens any more.
LEMMA FaultKeeps ==
  ASSUME HeapInv,
         \/ \E size, n : HeapMapFails(size, n)
         \/ PoolArrayFault
         \/ UNCHANGED heapVars
  PROVE  HeapInv'
<1>1. CASE UNCHANGED heapVars
  BY <1>1 DEF heapVars, HeapInv, TypeOK, heads, Addresses, Safe
<1>2. CASE (\E size, n : HeapMapFails(size, n)) \/ PoolArrayFault
  <2>1. /\ fate' = "fault"
        /\ UNCHANGED <<pools, pool_count, chunk_size, bitflags, deadzone, mapped_pools>>
    BY <1>2 DEF HeapMapFails, PoolArrayFault
  <2> QED
    BY <2>1 DEF HeapInv, TypeOK, heads, Addresses, Safe, Fates
<1> QED
  BY <1>1, <1>2

\* The invariant is inductive.
LEMMA NextKeeps == HeapInv /\ [HeapNext]_heapVars => HeapInv'
<1> SUFFICES ASSUME HeapInv, [HeapNext]_heapVars PROVE HeapInv'
  OBVIOUS
<1>1. ASSUME NEW size \in Requests, NEW a \in Targets, HeapAlloc(size, a) PROVE HeapInv'
  BY <1>1, AllocKeeps
<1>2. ASSUME NEW size, NEW n, HeapGiveUp(size, n) PROVE HeapInv'
  BY <1>2, GiveUpKeeps
<1>3. ASSUME NEW size, NEW n, HeapMapFails(size, n) PROVE HeapInv'
  BY <1>3, FaultKeeps
<1>4. ASSUME NEW a \in Passed, HeapFree(a) PROVE HeapInv'
  BY <1>4, FreeKeeps
<1>5. ASSUME NEW a \in Passed, HeapFreeze(a) \/ HeapThaw(a) PROVE HeapInv'
  BY <1>5, FreezeThawKeeps
<1>6. ASSUME NEW a \in Passed, NEW size \in ReallocRequests, NEW b \in Targets,
             HeapRealloc(a, size, b)
      PROVE  HeapInv'
  BY <1>6, ReallocKeeps
<1>7. ASSUME HeapReset PROVE HeapInv'
  BY <1>7, ResetKeeps
<1>8. ASSUME HeapDestroy PROVE HeapInv'
  BY <1>8, DestroyKeeps
<1>9. ASSUME PoolArrayFault \/ Stopped \/ UNCHANGED heapVars PROVE HeapInv'
  BY <1>9, FaultKeeps DEF Stopped
<1> QED
  BY <1>1, <1>2, <1>3, <1>4, <1>5, <1>6, <1>7, <1>8, <1>9 DEF HeapNext

-----------------------------------------------------------------------------
(***************************************************************************)
(* The theorems.                                                           *)
(***************************************************************************)

\* The invariant holds in every state of the arena's memory.
THEOREM InvariantHolds == HeapSpec => []HeapInv
  BY InitHolds, NextKeeps, PTL DEF HeapSpec

\* Every variable keeps its type, also in the step that loses memory safety.
THEOREM TypeCorrect == HeapSpec => []TypeOK
<1>1. HeapInv => TypeOK
  BY DEF HeapInv
<1> QED
  BY <1>1, InvariantHolds, PTL

\* Chunks stay inside the used part of their pool and no two share a byte, for
\* every set of request sizes, pool sizes, pool number and u32 width.
THEOREM LayoutHolds == HeapSpec => []Layout
<1>1. HeapInv => Layout
  BY PlacedIsLayout DEF HeapInv, Layout
<1> QED
  BY <1>1, InvariantHolds, PTL
=============================================================================
