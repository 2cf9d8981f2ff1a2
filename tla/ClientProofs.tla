---------------------------- MODULE ClientProofs ----------------------------
(***************************************************************************)
(* What a caller of the library sees: the blocks behind its handles are    *)
(* aligned, large enough, apart from each other, and stay where they are   *)
(* (AllocSpec).  The theorems are for callers that pass only handles they  *)
(* hold, do not reallocate, and ask for sizes that fit a u32.              *)
(***************************************************************************)
EXTENDS HandleProofs

-----------------------------------------------------------------------------
(***************************************************************************)
(* Alignment.  Chunk sizes are multiples of 16, so the offsets of the      *)
(* pools and the addresses of the headers are.                             *)
(***************************************************************************)
Aligned(P, s) ==
  /\ \A q \in DOMAIN P : P[q].offset % 16 = 0
  /\ \A a \in DOMAIN s : a[2] % 16 = 0

AlignInv == Safe => Aligned(pools, chunk_size)

\* Chunk sizes are aligned whether they wrap around or not.
LEMMA ChunkAligned ==
  ASSUME NEW n \in Nat PROVE ChunkSize(n) \in Nat /\ ChunkSize(n) % 16 = 0
<1>1. n + STRUCT_SIZE_HEADER + DEADZONE_PADDING \in Nat
  BY DEF STRUCT_SIZE_HEADER, DEADZONE_PADDING
<1>2. U32(n + STRUCT_SIZE_HEADER + DEADZONE_PADDING) \in Nat
  BY <1>1, U32Range
<1> QED
  BY <1>2, Pad32Range DEF ChunkSize

\* create_header puts an aligned header and leaves an aligned offset.
LEMMA MadeAligned ==
  ASSUME TypeOK, Placed(pools, chunk_size, deadzone),
         Linked(pools, chunk_size, bitflags, deadzone), Aligned(pools, chunk_size),
         NEW P, Grows(P),
         NEW n \in Nat, n < WORD, n % 16 = 0,
         NEW p \in DOMAIN P, NEW i \in 0 .. Len(P[p].free), Serves(P, n, p, i)
  PROVE  Aligned(MadePools(P, n, p, i), MadeSizes(P, n, p, i))
<1> DEFINE b == Spot(P, p, i)
           Q == MadePools(P, n, p, i)
           s == MadeSizes(P, n, p, i)
           c == ChunkSize(n)
<1>1. Built(P, n, p, i)
  BY HeaderBuilt
<1>2. /\ IF i = 0 THEN b = <<p, P[p].offset>> ELSE b \in heads
      /\ DOMAIN s = heads \cup {b} /\ Advanced(P, Q, p, i, c)
  BY <1>1, Zenon DEF Built
<1>3. \A q \in DOMAIN P : P[q].offset \in Nat /\ P[q].offset % 16 = 0
  <2>1. /\ \A q \in DOMAIN pools : q \in DOMAIN P /\ P[q] = pools[q]
        /\ \A q \in DOMAIN P : q \notin DOMAIN pools => P[q].offset = 0
        /\ \A q \in DOMAIN P : P[q].offset \in Nat
    BY GrownPools
  <2> QED
    BY <2>1 DEF Aligned
<1>4. c \in Nat /\ c % 16 = 0
  BY ChunkAligned
<1> HIDE DEF b, Q, s, c
<1>5. \A a \in DOMAIN s : a[2] % 16 = 0
  BY <1>2, <1>3 DEF Aligned, heads
<1>6. \A q \in DOMAIN Q : Q[q].offset % 16 = 0
  <2> SUFFICES ASSUME NEW q \in DOMAIN P PROVE Q[q].offset % 16 = 0
    BY <1>2 DEF Advanced
  <2>1. Q[q].offset = P[q].offset \/ Q[q].offset = P[q].offset + c
    BY <1>2 DEF Advanced
  <2>2. P[q].offset \in Nat /\ P[q].offset % 16 = 0
    BY <1>3
  <2> QED
    BY <1>4, <2>1, <2>2
<1>7. Aligned(Q, s)
  BY <1>5, <1>6 DEF Aligned
<1> QED
  BY <1>7 DEF Q, s

\* The other actions move no offset, or set it to 0.
LEMMA OthersAligned ==
  ASSUME HeapInv, AlignInv,
         \/ \E a : HeapFree(a) \/ HeapFreeze(a) \/ HeapThaw(a)
         \/ \E size, n : HeapGiveUp(size, n) \/ HeapMapFails(size, n)
         \/ HeapReset \/ HeapDestroy \/ PoolArrayFault \/ UNCHANGED heapVars
  PROVE  AlignInv'
<1> SUFFICES ASSUME Safe' PROVE Aligned(pools', chunk_size')
  BY DEF AlignInv
<1>t. TypeOK
  BY DEF HeapInv
<1>1. CASE \E a : HeapFree(a)
  <2>1. PICK a : HeapFree(a)
    BY <1>1
  <2>2. Safe
    BY <2>1 DEF HeapFree, Safe
  <2> QED
    BY <1>t, <2>1, <2>2, FreeOffsets DEF AlignInv, Aligned
<1>2. CASE \E a : HeapFreeze(a) \/ HeapThaw(a)
  BY <1>2 DEF HeapFreeze, HeapThaw, AlignInv, Safe
<1>3. CASE \E size, n : HeapGiveUp(size, n)
  <2>1. PICK size, n : HeapGiveUp(size, n)
    BY <1>3
  <2> DEFINE P == Supply(size, n)
  <2>2. Safe /\ pools' = P /\ UNCHANGED chunk_size
    BY <2>1 DEF HeapGiveUp, Alive, Safe
  <2>3. Grows(P)
    BY <1>t, SupplyGrows
  <2> HIDE DEF P
  <2>4. /\ \A q \in DOMAIN pools : q \in DOMAIN P /\ P[q] = pools[q]
        /\ \A q \in DOMAIN P : q \notin DOMAIN pools => P[q].offset = 0
    BY <1>t, <2>3, GrownPools
  <2> QED
    BY <2>2, <2>4 DEF AlignInv, Aligned
<1>4. CASE (\E size, n : HeapMapFails(size, n)) \/ PoolArrayFault
  BY <1>4 DEF HeapMapFails, PoolArrayFault, Safe
<1>5. CASE HeapReset \/ HeapDestroy
  <2>1. DOMAIN <<>> = {}
    OBVIOUS
  <2>2. chunk_size' = <<>> /\ \A q \in DOMAIN pools' : pools'[q].offset = 0
    <3>1. CASE HeapReset
      <4> DEFINE N == [pools[1] EXCEPT !.offset = 0, !.free = <<>>]
      <4>1. pools' = <<N>> /\ chunk_size' = <<>> /\ pools # <<>> /\ pools \in Seq(Pool)
        BY <3>1, <1>t DEF HeapReset, NoHeaders, TypeOK
      <4>2. pools[1] \in Pool
        BY <4>1
      <4>3. N.offset = 0
        BY <4>2 DEF Pool
      <4> HIDE DEF N
      <4> QED
        BY <4>1, <4>3
    <3>2. CASE HeapDestroy
      BY <3>2, <2>1 DEF HeapDestroy, NoHeaders
    <3> QED
      BY <1>5, <3>1, <3>2
  <2> QED
    BY <2>1, <2>2 DEF Aligned
<1>6. CASE UNCHANGED heapVars
  BY <1>6 DEF heapVars, AlignInv, Safe
<1> QED
  BY <1>1, <1>2, <1>3, <1>4, <1>5, <1>6

\* The invariant is inductive, given those of the pools.
LEMMA StepAligned == HeapInv /\ FreeInv /\ AlignInv /\ HeapStep => AlignInv'
<1> SUFFICES ASSUME HeapInv, FreeInv, AlignInv, HeapStep PROVE AlignInv'
  OBVIOUS
<1>1. ASSUME NEW size \in Requests, NEW a \in Targets, HeapAlloc(size, a) PROVE AlignInv'
  <2>1. Safe
    BY <1>1 DEF HeapAlloc, Alive, Safe
  <2>2. PICK n, P, p, i, wild : n \in Nat /\ Allocated(a, n, P, p, i, wild)
    BY <1>1, AllocMade
  <2>3. Aligned(MadePools(P, n, p, i), MadeSizes(P, n, p, i))
    BY <2>1, <2>2, InvariantParts, MadeAligned DEF Allocated, AlignInv
  <2> QED
    BY <2>2, <2>3 DEF Allocated, AlignInv
<1>2. ASSUME NEW a \in heads, NEW size \in ReallocRequests, NEW b \in Targets,
             HeapRealloc(a, size, b)
      PROVE  AlignInv'
  <2>1. Safe
    BY <1>2 DEF HeapRealloc, Alive, Safe
  <2>2. PICK n, P, p, i, wild : n \in Nat /\ Reallocated(a, b, n, P, p, i, wild)
    BY <1>2, ReallocMade
  <2>3. Aligned(MadePools(P, n, p, i), MadeSizes(P, n, p, i))
    BY <2>1, <2>2, InvariantParts, MadeAligned DEF Reallocated, AlignInv
  <2> QED
    BY <2>2, <2>3 DEF Reallocated, AlignInv
<1>3. ASSUME \/ \E size, n : HeapGiveUp(size, n) \/ HeapMapFails(size, n)
             \/ \E a : HeapFree(a) \/ HeapFreeze(a) \/ HeapThaw(a)
             \/ HeapReset \/ HeapDestroy \/ PoolArrayFault \/ UNCHANGED heapVars
      PROVE  AlignInv'
  BY <1>3, OthersAligned
<1> QED
  BY <1>1, <1>2, <1>3 DEF HeapStep

\* Headers and pool offsets are 16-aligned, whatever is called and asked for.
THEOREM HeadersAligned == Spec => []AlignInv
<1>1. Init => AlignInv
  <2>1. DOMAIN <<>> = {}
    OBVIOUS
  <2> QED
    BY <2>1 DEF Init, HeapInit, AlignInv, Aligned
<1>2. PoolsInv /\ AlignInv /\ [Next]_vars => AlignInv'
  BY CallsAreHeapSteps, StepAligned DEF PoolsInv
<1> QED
  BY <1>1, <1>2, PoolsStayIntact, PTL DEF Spec

-----------------------------------------------------------------------------
(***************************************************************************)
(* The blocks of the caller.                                               *)
(***************************************************************************)

\* What a request that fits is padded to is no less than what was asked for.
LEMMA PaddingCovers ==
  ASSUME RequestsFit, NEW size \in Requests
  PROVE  size \in Nat /\ PaddedSize(size) \in Nat /\ PaddedSize(size) >= size
<1>1. /\ size \in Nat /\ size + 64 <= WORD
      /\ MINIMUM_BLOCK_ALLOC \in Nat /\ MINIMUM_BLOCK_ALLOC + 64 <= WORD
      /\ WORD \in Nat
  BY RequestsAssumption, SizesAssumption DEF RequestsFit
<1>2. PaddedSize(size) \in Nat
  BY <1>1, RequestAligned
<1>3. CASE size < MINIMUM_BLOCK_ALLOC
  <2>1. U32(MINIMUM_BLOCK_ALLOC + 15) = MINIMUM_BLOCK_ALLOC + 15
    BY <1>1, U32Range
  <2>2. AddAlignmentPadding32(MINIMUM_BLOCK_ALLOC) >= MINIMUM_BLOCK_ALLOC
    BY <1>1, <2>1 DEF AddAlignmentPadding32, ALIGNMENT
  <2> QED
    BY <1>1, <1>2, <1>3, <2>2 DEF PaddedSize
<1>4. CASE ~(size < MINIMUM_BLOCK_ALLOC)
  <2> DEFINE k == AddAlignmentPadding(size)
  <2>1. k \in Nat /\ size <= k /\ k <= size + 15
    BY <1>1 DEF AddAlignmentPadding, ALIGNMENT
  <2>2. PaddedSize(size) = U32(k)
    BY <1>4 DEF PaddedSize
  <2> HIDE DEF k
  <2>3. U32(k) = k
    BY <1>1, <2>1, U32Range
  <2> QED
    BY <1>1, <1>2, <2>1, <2>2, <2>3
<1> QED
  BY <1>3, <1>4

\* The chunk that syn_alloc hands out is the request with its padding, header and
\* deadzone.
LEMMA AllocSize ==
  ASSUME HeapInv, RequestsFit, NEW size \in Requests, NEW a, HeapAlloc(size, a)
  PROVE  /\ a \in heads' /\ chunk_size'[a] \in Nat
         /\ chunk_size'[a] >= size + STRUCT_SIZE_HEADER + DEADZONE_SIZE
<1> DEFINE n == PaddedSize(size)
<1>1. PICK P, p, i, wild : n \in Nat /\ Allocated(a, n, P, p, i, wild)
  BY AllocMade
<1>2. chunk_size' = With(chunk_size, a, ChunkSize(n))
  BY <1>1 DEF Allocated, MadeSizes
<1>3. a \in heads' /\ chunk_size'[a] = ChunkSize(n)
  BY <1>2 DEF With, heads
<1>4. ChunkSize(n) \in Nat /\ ChunkSize(n) >= n + 32
  BY <1>1, ChunkAligned, RequestCovered
<1>5. size \in Nat /\ n >= size
  BY PaddingCovers
<1> HIDE DEF n
<1> QED
  BY <1>1, <1>3, <1>4, <1>5 DEF STRUCT_SIZE_HEADER, DEADZONE_SIZE

\* The block of a handle, and none for one that is not held.
ClientBlock ==
  [v \in Users |-> IF v \in Holders THEN Payload(hdl[v].header, asked[v])
                                    ELSE [pool |-> 0, from |-> 0, to |-> 0, size |-> 0]]

\* The size asked for is kept for every user.
AskedInv == DOMAIN asked = Users

\* A step on one handle that leaves the other handles and their chunks alone.
OthersKept(u) ==
  /\ \A w \in Users : w # u => hdl'[w] = hdl[w] /\ asked'[w] = asked[w]
  /\ \A w \in Holders : w # u => chunk_size'[hdl[w].header] = chunk_size[hdl[w].header]

\* Where the block of a header is.
LEMMA PayloadOf ==
  ASSUME NEW a, NEW size, a[2] \in Nat, chunk_size[a] \in Nat
  PROVE  /\ Payload(a, size).pool = a[1] /\ Payload(a, size).from = a[2] + 16
         /\ Payload(a, size).to = a[2] + chunk_size[a] - 16
<1>1. Behind(a)[2] = a[2] + chunk_size[a]
  BY DEF Behind
<1> QED
  BY <1>1 DEF Payload, STRUCT_SIZE_HEADER, DEADZONE_SIZE

\* What the other users see then stays the same.
LEMMA OthersUnseen ==
  ASSUME NEW u \in Users, OthersKept(u)
  PROVE  /\ ClientState' = [ClientState EXCEPT ![u] = ClientState'[u]]
         /\ ClientBlock' = [ClientBlock EXCEPT ![u] = ClientBlock'[u]]
<1>1. \A w \in Users : w # u => (w \in Holders' <=> w \in Holders) /\ hdl'[w] = hdl[w]
                                  /\ asked'[w] = asked[w]
  BY DEF OthersKept, Holders
<1>2. ASSUME NEW w \in Users, w # u PROVE ClientState'[w] = ClientState[w]
  BY <1>1, <1>2 DEF ClientState
<1>3. ASSUME NEW w \in Users, w # u PROVE ClientBlock'[w] = ClientBlock[w]
  <2>1. CASE w \in Holders
    <3>1. /\ chunk_size'[hdl[w].header] = chunk_size[hdl[w].header]
          /\ hdl'[w] = hdl[w] /\ asked'[w] = asked[w]
      BY <1>1, <1>3, <2>1 DEF OthersKept
    <3>2. Payload(hdl[w].header, asked[w])' = Payload(hdl[w].header, asked[w])
      BY <3>1 DEF Payload, Behind
    <3> QED
      BY <1>1, <1>3, <2>1, <3>2 DEF ClientBlock
  <2>2. CASE w \notin Holders
    BY <1>1, <1>3, <2>2 DEF ClientBlock
  <2> QED
    BY <2>1, <2>2
<1>4. /\ ClientState = [v \in Users |-> ClientState[v]] /\ DOMAIN ClientState' = Users
      /\ ClientBlock = [v \in Users |-> ClientBlock[v]] /\ DOMAIN ClientBlock' = Users
      /\ ClientState' = [v \in Users |-> ClientState'[v]]
      /\ ClientBlock' = [v \in Users |-> ClientBlock'[v]]
  BY DEF ClientState, ClientBlock
<1> QED
  BY <1>2, <1>3, <1>4

\* A step that leaves all handles and their chunks alone is none for the caller.
LEMMA NothingSeen ==
  ASSUME UNCHANGED <<hdl, asked, chunk_size>>
  PROVE  UNCHANGED <<ClientState, ClientBlock>>
  BY DEF ClientState, ClientBlock, Holders, Payload, Behind

\* sync_alloc.h's promise that a request is rounded up holds for every request
\* that stays 64 bytes below the range of a u32.
THEOREM BlocksCoverRequests == ASSUME RequestsFit PROVE HeapSpec => BlockCoversRequest
<1> DEFINE Covered == \A size \in Requests, a \in heads' : HeapAlloc(size, a) /\ Safe' =>
                        chunk_size'[a] >= size + STRUCT_SIZE_HEADER + DEADZONE_SIZE
<1>1. HeapInv => Covered
  BY AllocSize
<1> HIDE DEF Covered
<1>2. HeapInv /\ [HeapNext]_heapVars => [Covered]_heapVars
  BY <1>1
<1> QED
  BY <1>2, InvariantHolds, PTL DEF HeapSpec, BlockCoversRequest, Covered

-----------------------------------------------------------------------------
(***************************************************************************)
(* The refinement.  Each call is a step of AllocSpec on the blocks that    *)
(* ClientBlock has, Halt if it loses the memory, or a stutter.             *)
(***************************************************************************)
ClientInv ==
  /\ HeapInv /\ FreeInv /\ TablesInv /\ OwnerInv /\ AlignInv /\ AskedInv

\* A call after which nothing is promised.
LEMMA CallHalts == ASSUME ~Running' PROVE Client!ClientNext
  BY DEF Client!ClientNext, Client!Halt

\* syn_alloc: an aligned block of the size asked for, apart from the others.
LEMMA AllocSeen ==
  ASSUME RequestsFit, ClientInv, ClientInv',
         NEW u \in Users, NEW size \in Requests, Alloc(u, size), Running'
  PROVE  Client!Allocate(u, size)
<1>1. PICK a : /\ HeapAlloc(size, a)
               /\ hdl' = [hdl EXCEPT ![u] = [header |-> a, generation |-> 1, state |-> "held"]]
               /\ asked' = [asked EXCEPT ![u] = size]
  BY DEF Alloc
<1>2. Running /\ u \notin Holders
  BY DEF Alloc, Holders
<1>3. /\ HeapInv /\ FreeInv /\ TablesInv /\ Owned
      /\ HeapInv' /\ Owned' /\ Aligned(pools, chunk_size)'
      /\ Placed(pools, chunk_size, deadzone)' /\ AskedInv
  BY <1>2 DEF ClientInv, OwnerInv, AlignInv, HeapInv, Running
<1>4. /\ hdl'[u].header = a /\ hdl'[u].state = "held" /\ asked'[u] = size
      /\ \A w \in Users : w # u => hdl'[w] = hdl[w] /\ asked'[w] = asked[w]
  BY <1>1, <1>3 DEF TablesInv, AskedInv
<1>5. u \in Holders' /\ \A w \in Holders : w \in Users /\ w # u /\ w \in Holders'
  BY <1>2, <1>4 DEF Holders
<1>6. \A w \in Holders : hdl[w].header \in heads' /\ hdl[w].header # a
  BY <1>3, <1>4, <1>5 DEF Owned, Owns
<1>7. OthersKept(u)
  <2>1. ASSUME NEW w \in Holders
        PROVE  chunk_size'[hdl[w].header] = chunk_size[hdl[w].header]
    <3>1. hdl[w].header \in heads
      BY <1>3 DEF Owned, Owns
    <3> QED
      BY <1>1, <1>3, <1>6, <3>1, AllocMarks
  <2> QED
    BY <1>4, <2>1 DEF OthersKept
<1>8. /\ ClientState' = [ClientState EXCEPT ![u] = ClientState'[u]]
      /\ ClientBlock' = [ClientBlock EXCEPT ![u] = ClientBlock'[u]]
  BY <1>7, OthersUnseen
<1>9. ClientState'[u] = "held" /\ ClientState[u] = "none"
  BY <1>2, <1>4, <1>5 DEF ClientState
<1>10. /\ a \in heads' /\ chunk_size'[a] \in Nat
       /\ chunk_size'[a] >= size + 32 /\ size \in Nat
  BY <1>1, <1>3, AllocSize, PaddingCovers DEF STRUCT_SIZE_HEADER, DEADZONE_SIZE
<1>11. \A x \in heads' : /\ x = <<x[1], x[2]>> /\ x[2] \in Nat /\ x[2] % 16 = 0
                         /\ chunk_size'[x] \in Nat
  BY <1>3 DEF HeapInv, TypeOK, Addresses, Aligned, heads
<1>12. /\ ClientBlock'[u].pool = a[1] /\ ClientBlock'[u].from = a[2] + 16
       /\ ClientBlock'[u].to = a[2] + chunk_size'[a] - 16
       /\ ClientBlock'[u].size = size
  <2>1. ClientBlock'[u] = Payload(a, asked[u])'
    BY <1>4, <1>5 DEF ClientBlock
  <2>2. Behind(a)'[2] = a[2] + chunk_size'[a] /\ a[2] \in Nat /\ chunk_size'[a] \in Nat
    BY <1>10, <1>11 DEF Behind
  <2>3. /\ Payload(a, asked[u])'.pool = a[1] /\ Payload(a, asked[u])'.from = a[2] + 16
        /\ Payload(a, asked[u])'.to = a[2] + chunk_size'[a] - 16
        /\ Payload(a, asked[u])'.size = size
    BY <1>4, <2>2 DEF Payload, STRUCT_SIZE_HEADER, DEADZONE_SIZE
  <2> QED
    BY <2>1, <2>3
<1>13. ClientBlock'[u].from % 16 = 0 /\ ClientBlock'[u].to - ClientBlock'[u].from >= size
  <2>1. PICK o \in Nat, c \in Nat : o = a[2] /\ c = chunk_size'[a] /\ o % 16 = 0 /\ c >= size + 32
    BY <1>10, <1>11
  <2>2. (o + 16) % 16 = 0 /\ (o + c - 16) - (o + 16) >= size
    BY <1>10, <2>1
  <2> QED
    BY <1>12, <2>1, <2>2
<1>14. ASSUME NEW w \in Holders
       PROVE  Client!Apart(ClientBlock'[u], ClientBlock[w])
  <2> DEFINE x == hdl[w].header
  <2>1. /\ x \in heads' /\ x # a /\ chunk_size'[x] = chunk_size[x]
    BY <1>5, <1>6, <1>7 DEF OthersKept
  <2>2. /\ ClientBlock[w].pool = x[1] /\ ClientBlock[w].from = x[2] + 16
        /\ ClientBlock[w].to = x[2] + chunk_size'[x] - 16
    <3>1. ClientBlock[w] = Payload(x, asked[w])
      BY <1>5 DEF ClientBlock
    <3>2. x[2] \in Nat /\ chunk_size[x] \in Nat
      BY <1>11, <2>1
    <3> QED
      BY <2>1, <3>1, <3>2, PayloadOf
  <2> HIDE DEF x
  <2>3. \A y, z \in heads' : y[1] = z[1] /\ y[2] < z[2] => y[2] + chunk_size'[y] <= z[2]
    BY <1>3 DEF Placed, ChunksApart, heads
  <2>4. a[1] # x[1] \/ a[2] < x[2] \/ x[2] < a[2]
    BY <1>10, <1>11, <2>1
  <2>5. /\ a[2] \in Nat /\ x[2] \in Nat /\ chunk_size'[a] \in Nat /\ chunk_size'[x] \in Nat
    BY <1>10, <1>11, <2>1
  <2>6. \/ a[1] # x[1]
        \/ a[2] + chunk_size'[a] - 16 <= x[2] + 16
        \/ x[2] + chunk_size'[x] - 16 <= a[2] + 16
    BY <1>10, <2>1, <2>3, <2>4, <2>5
  <2> QED
    BY <1>12, <2>2, <2>6 DEF Client!Apart
<1>15. Client!Live = Holders
  BY DEF Client!Live, ClientState, Holders
<1>16. ALIGNMENT = 16
  BY DEF ALIGNMENT
<1> QED
  BY <1>2, <1>5, <1>8, <1>9, <1>12, <1>13, <1>14, <1>15, <1>16 DEF Client!Allocate, ClientBlock

\* syn_free.
LEMMA FreeSeen ==
  ASSUME ~STALE_CALLS, ClientInv, NEW u \in Users, Free(u), Running'
  PROVE  Client!Release(u)
<1>1. /\ Running /\ HeapFree(hdl[u].header) /\ u \in Holders /\ Unfrozen(hdl[u].header)
      /\ hdl' = [hdl EXCEPT ![u].generation = Next32(@), ![u].state = "freed"]
      /\ asked' = [asked EXCEPT ![u] = 0]
  BY DEF Free, Passable, Holders, Accepted
<1>2. /\ TablesInv /\ Owned /\ chunk_size' = chunk_size
  BY <1>1 DEF ClientInv, OwnerInv, HeapFree
<1>3. hdl[u].state = "held"
  BY <1>1, <1>2 DEF Owned, Owns, Unfrozen, Holders
<1>4. /\ hdl'[u].state = "freed"
      /\ \A w \in Users : w # u => hdl'[w] = hdl[w] /\ asked'[w] = asked[w]
  <2>1. hdl \in [Users -> Handle] /\ hdl[u] \in Handle /\ DOMAIN asked = Users
    BY <1>2 DEF TablesInv, ClientInv, AskedInv
  <2> QED
    BY <1>1, <2>1 DEF Handle
<1>5. OthersKept(u)
  BY <1>2, <1>4 DEF OthersKept
<1>6. /\ ClientState' = [ClientState EXCEPT ![u] = ClientState'[u]]
      /\ ClientBlock' = [ClientBlock EXCEPT ![u] = ClientBlock'[u]]
  BY <1>5, OthersUnseen
<1>7. /\ ClientState[u] = "held" /\ ClientState'[u] = "none"
      /\ ClientBlock'[u] = [pool |-> 0, from |-> 0, to |-> 0, size |-> 0]
  <2>1. u \notin Holders'
    BY <1>4 DEF Holders
  <2> QED
    BY <1>1, <1>3, <2>1 DEF ClientState, ClientBlock
<1> QED
  BY <1>1, <1>6, <1>7 DEF Client!Release, Client!NoBlock, ClientBlock

\* syn_freeze and syn_thaw, after which the handle stands for the same block.
LEMMA FreezeThawSeen ==
  ASSUME ~STALE_CALLS, ClientInv, NEW u \in Users, Freeze(u) \/ Thaw(u)
  PROVE  IF hdl[u].state = "frozen" THEN Client!Thaw(u) ELSE Client!Freeze(u)
<1>1. /\ Running /\ Running' /\ u \in Holders /\ chunk_size' = chunk_size /\ asked' = asked
  BY DEF Freeze, Thaw, Passable, Holders, HeapFreeze, HeapThaw, Running, Safe
<1>2. HeapInv /\ FreeInv /\ TablesInv /\ Owned
  BY <1>1 DEF ClientInv, OwnerInv
<1>3. hdl \in [Users -> Handle] /\ hdl[u] \in Handle
  BY <1>2 DEF TablesInv
<1>4. /\ hdl'[u].header = hdl[u].header
      /\ IF hdl[u].state = "frozen" THEN hdl'[u].state = "held" ELSE hdl'[u].state = "frozen"
      /\ \A w \in Users : w # u => hdl'[w] = hdl[w]
  <2>1. CASE Freeze(u)
    <3>1. hdl[u].state # "frozen"
      BY <1>2, <2>1 DEF Freeze, Accepted, Unfrozen, Owned, Owns, Holders
    <3>2. hdl' = [hdl EXCEPT ![u].state = "frozen"]
      BY <2>1 DEF Freeze
    <3> QED
      BY <1>3, <3>1, <3>2 DEF Handle
  <2>2. CASE Thaw(u)
    <3>1. hdl'[u].header = hdl[u].header
      BY <1>2, <2>2, ThawOwned
    <3> QED
      BY <1>3, <2>2, <3>1 DEF Thaw
  <2> QED
    BY <2>1, <2>2
<1>5. /\ ClientState' = [ClientState EXCEPT ![u] = ClientState'[u]]
      /\ ClientBlock' = [ClientBlock EXCEPT ![u] = ClientBlock'[u]]
  BY <1>1, <1>4, OthersUnseen DEF OthersKept
<1>6. u \in Holders'
  BY <1>4 DEF Holders
<1>7. ClientBlock'[u] = ClientBlock[u]
  <2>1. Payload(hdl[u].header, asked[u])' = Payload(hdl[u].header, asked[u])
    BY <1>1, <1>4 DEF Payload, Behind
  <2> QED
    BY <1>1, <1>6, <2>1 DEF ClientBlock
<1>8. ClientBlock' = ClientBlock
  <2>1. ClientBlock = [v \in Users |-> ClientBlock[v]]
    BY DEF ClientBlock
  <2> QED
    BY <1>5, <1>7, <2>1
<1>9. /\ ClientState[u] = hdl[u].state /\ ClientState'[u] = hdl'[u].state
      /\ hdl[u].state \in {"held", "frozen"}
  BY <1>1, <1>6 DEF ClientState, Holders
<1> QED
  BY <1>1, <1>4, <1>5, <1>8, <1>9 DEF Client!Freeze, Client!Thaw, ClientBlock

\* syn_reset and syn_destroy.
LEMMA ClearSeen == ASSUME ClientInv, Reset \/ Destroy PROVE Client!DropAll
<1>1. hdl' = NoHandles
  BY DEF Reset, Destroy
<1>2. Running /\ Running'
  BY DEF Reset, Destroy, HeapReset, HeapDestroy, TableDestructor, Running, Safe
<1>3. Holders' = {}
  BY <1>1 DEF Holders, NoHandles, NoHandle
<1>4. /\ ClientState' = [v \in Users |-> "none"]
      /\ ClientBlock' = [v \in Users |-> [pool |-> 0, from |-> 0, to |-> 0, size |-> 0]]
  BY <1>3 DEF ClientState, ClientBlock
<1> QED
  BY <1>2, <1>4 DEF Client!DropAll, Client!NoBlock, ClientBlock

\* Every step of the library is one that AllocSpec allows, or none.
LEMMA NextSeen ==
  ASSUME GoodCallers, RequestsFit, ClientInv, ClientInv', [Next]_vars
  PROVE  [Client!ClientNext]_(Client!clientVars)
<1>1. CASE ~Running'
  BY <1>1, CallHalts
<1> SUFFICES ASSUME Running' PROVE [Client!ClientNext]_(Client!clientVars)
  BY <1>1
<1>2. ASSUME NEW v \in Users, NEW size \in Requests, Alloc(v, size)
      PROVE  Client!ClientNext
  BY <1>2, AllocSeen DEF Client!ClientNext
<1>3. ASSUME NEW v \in Users, Free(v) PROVE Client!ClientNext
  BY <1>3, FreeSeen DEF Client!ClientNext, GoodCallers
<1>4. ASSUME NEW v \in Users, Freeze(v) \/ Thaw(v) PROVE Client!ClientNext
  BY <1>4, FreezeThawSeen DEF Client!ClientNext, GoodCallers
<1>5. ASSUME Reset \/ Destroy PROVE Client!ClientNext
  BY <1>5, ClearSeen DEF Client!ClientNext
<1>6. ASSUME UNCHANGED <<hdl, asked, chunk_size, fate, table_fate>>
      PROVE  UNCHANGED Client!clientVars
  BY <1>6, NothingSeen DEF Client!clientVars, ClientBlock, Running, Safe
<1>7. ASSUME NEW size, AllocGivesUp(size) PROVE UNCHANGED Client!clientVars
  BY <1>6, <1>7 DEF AllocGivesUp, HeapGiveUp, callerVars
<1>8. ASSUME \/ \E size : AllocMapFails(size)
             \/ AllocTableMapFails \/ (\E v : LookupFails(v))
             \/ PoolWalkFaults
      PROVE  FALSE
  BY <1>8 DEF AllocMapFails, HeapMapFails, AllocTableMapFails, TableMapFails, LookupFails,
              LookupFaults, PoolWalkFaults, PoolArrayFault, Running, Safe
<1>9. ASSUME Dead \/ UNCHANGED vars PROVE UNCHANGED Client!clientVars
  BY <1>6, <1>9 DEF Dead, vars, heapVars, tableVars, callerVars
<1> QED
  BY <1>2, <1>3, <1>4, <1>5, <1>7, <1>8, <1>9 DEF Next, GoodCallers

\* Before the first call nobody holds a block.
LEMMA InitSeen == Init => Client!ClientInit
<1> SUFFICES ASSUME Init PROVE Client!ClientInit
  OBVIOUS
<1>1. hdl = NoHandles /\ Running
  BY DEF Init, HeapInit, TableInit, Running, Safe
<1>2. Holders = {}
  BY <1>1 DEF Holders, NoHandles, NoHandle
<1> QED
  BY <1>1, <1>2 DEF Client!ClientInit, Client!NoBlock, ClientState

\* Every call keeps track of what was asked for.
LEMMA AskedKept == Spec => []AskedInv
<1>1. Init => AskedInv
  BY DEF Init, NothingAsked, AskedInv
<1>2. ASSUME AskedInv, [Next]_vars PROVE AskedInv'
  <2>1. ASSUME NEW v \in Users, NEW size, Alloc(v, size) \/ Free(v) \/ Realloc(v, size)
        PROVE  AskedInv'
    BY <1>2, <2>1 DEF Alloc, Free, Realloc, AskedInv
  <2>2. ASSUME Reset \/ Destroy PROVE AskedInv'
    BY <2>2 DEF Reset, Destroy, NothingAsked, AskedInv
  <2>3. ASSUME UNCHANGED asked PROVE AskedInv'
    BY <1>2, <2>3 DEF AskedInv
  <2>4. ASSUME NEW v, NEW size,
               AllocGivesUp(size) \/ AllocMapFails(size) \/ ReallocGivesUp(v, size)
        PROVE  UNCHANGED asked
    BY <2>4 DEF AllocGivesUp, AllocMapFails, ReallocGivesUp, callerVars
  <2>5. ASSUME NEW v, Freeze(v) \/ Thaw(v) \/ LookupFails(v) PROVE UNCHANGED asked
    BY <2>5 DEF Freeze, Thaw, LookupFails, callerVars
  <2>6. ASSUME AllocTableMapFails \/ PoolWalkFaults \/ Dead \/ UNCHANGED vars
        PROVE  UNCHANGED asked
    BY <2>6 DEF AllocTableMapFails, PoolWalkFaults, Dead, vars, callerVars
  <2> QED
    BY <1>2, <2>1, <2>2, <2>3, <2>4, <2>5, <2>6 DEF Next
<1> QED
  BY <1>1, <1>2, PTL DEF Spec

\* The library implements AllocSpec for callers that pass only handles they hold, do
\* not reallocate, and ask for sizes that fit a u32, whatever mmap does.
THEOREM ClientIsServed == ASSUME GoodCallers, RequestsFit PROVE Spec => ClientView
<1>1. PoolsInv /\ TablesInv /\ OwnerInv /\ AlignInv /\ AskedInv => ClientInv
  BY DEF PoolsInv, ClientInv
<1>2. ClientInv /\ ClientInv' /\ [Next]_vars => [Client!ClientNext]_(Client!clientVars)
  BY NextSeen
<1> QED
  BY <1>1, <1>2, InitSeen, PoolsStayIntact, TablesInvariantHolds, OwnersHold, HeadersAligned,
     AskedKept, PTL
     DEF Spec, ClientView, Client!ClientSpec
=============================================================================
