----------------------------- MODULE ChunkProofs -----------------------------
(***************************************************************************)
(* Theorems about how the chunks of a pool lie behind each other, what the *)
(* deadzones between them say, and which free headers can be found again,  *)
(* for all values of the constants.                                        *)
(***************************************************************************)
EXTENDS FreeListProofs

-----------------------------------------------------------------------------
(***************************************************************************)
(* The invariant.  That every header but the first is reached backwards    *)
(* from its deadzone is not inductive alone: create_header puts a header   *)
(* at the offset of a pool, so the deadzone in front of that place must    *)
(* already lead back to the last chunk.                                    *)
(***************************************************************************)
Front(d, x) == <<x[1], x[2] - d[x].prev_chunk_size>>

Reached(s, d, x) ==
  x \in DOMAIN d /\ Front(d, x) \in DOMAIN s /\ s[Front(d, x)] = d[x].prev_chunk_size

TagsTellSizes(s, d) == \A a \in DOMAIN s :
  NextHead(s, a) \in DOMAIN d /\ d[NextHead(s, a)].prev_chunk_size = s[a]

NoGaps(P, s) == \A a \in DOMAIN s :
  NextHead(s, a) \in DOMAIN s \/ NextHead(s, a)[2] = P[a[1]].offset

HeadsReached(s, d) == \A a \in DOMAIN s : a[2] # 0 => Reached(s, d, a)

EndsReached(P, s, d) == \A p \in DOMAIN P :
  P[p].offset # 0 => Reached(s, d, <<p, P[p].offset>>)

Tiled(P, s, d) ==
  /\ TagsTellSizes(s, d) /\ NoGaps(P, s)
  /\ HeadsReached(s, d) /\ EndsReached(P, s, d)

TileInv == Safe => Tiled(pools, chunk_size, deadzone)

\* The invariant contains what the runs check as ChunksTile.
LEMMA TiledIsTile == TileInv => ChunksTile
<1> SUFFICES ASSUME Tiled(pools, chunk_size, deadzone), NEW a \in heads
             PROVE  /\ Behind(a) \in DOMAIN deadzone
                    /\ deadzone[Behind(a)].prev_chunk_size = chunk_size[a]
                    /\ Behind(a) \in heads \/ Behind(a)[2] = pools[a[1]].offset
                    /\ a[2] # 0 => a \in DOMAIN deadzone /\ PrevHead(a) \in heads
  BY DEF TileInv, ChunksTile
<1>1. Behind(a) = NextHead(chunk_size, a)
  BY DEF Behind, NextHead
<1>2. PrevHead(a) = Front(deadzone, a)
  BY DEF PrevHead, Front
<1> QED
  BY <1>1, <1>2 DEF Tiled, TagsTellSizes, NoGaps, HeadsReached, Reached, heads

-----------------------------------------------------------------------------
\* Q has the pools P, but pool p may have c more bytes in use.
Advanced(P, Q, p, i, c) ==
  /\ DOMAIN Q = DOMAIN P
  /\ \A q \in DOMAIN P :
       /\ Q[q].size = P[q].size
       /\ Q[q].offset = IF q = p /\ i = 0 THEN P[q].offset + c ELSE P[q].offset

(***************************************************************************)
(* What create_header writes, in terms of the pools P it works on: the     *)
(* header is behind all others of its pool or was on a list, and only the  *)
(* deadzone at its end and the offset of its pool change.                  *)
(***************************************************************************)
Built(P, n, p, i) ==
  LET b == Spot(P, p, i)
      Q == MadePools(P, n, p, i)
      s == MadeSizes(P, n, p, i)
      d == MadeTags(P, n, p, i)
      c == ChunkSize(n)
      e == <<b[1], b[2] + c>>
  IN  /\ b = <<b[1], b[2]>> /\ b[1] \in DOMAIN P /\ b[2] \in Nat
      /\ IF i = 0 THEN b = <<p, P[p].offset>> /\ b \notin heads
                  ELSE b \in heads /\ chunk_size[b] = c /\ i \in DOMAIN P[p].free
      /\ DOMAIN s = heads \cup {b} /\ s[b] = c
      /\ \A x \in heads : s[x] = chunk_size[x]
      /\ DOMAIN d = DOMAIN deadzone \cup {e}
      /\ d[e] = [prev_chunk_size |-> c, pool_ptr |-> p]
      /\ \A x \in DOMAIN deadzone : x # e => d[x] = deadzone[x]
      /\ Advanced(P, Q, p, i, c)

\* So do the pools that create_header leaves.
LEMMA MadeAdvanced ==
  ASSUME NEW P \in Seq(Pool), NEW n, NEW p \in DOMAIN P, NEW i
  PROVE  Advanced(P, MadePools(P, n, p, i), p, i, ChunkSize(n))
<1> DEFINE Q == MadePools(P, n, p, i)
           c == ChunkSize(n)
<1>1. P[p] \in Pool
  OBVIOUS
<1>2. CASE i = 0
  <2> DEFINE N == [P[p] EXCEPT !.offset = P[p].offset + c]
  <2>1. Q = [P EXCEPT ![p] = N]
    BY <1>2 DEF MadePools
  <2>2. N.offset = P[p].offset + c /\ N.size = P[p].size
    BY <1>1 DEF Pool
  <2> HIDE DEF N, c, Q
  <2>3. Advanced(P, Q, p, i, c)
    BY <1>2, <2>1, <2>2 DEF Advanced
  <2> QED
    BY <2>3 DEF c, Q
<1>3. CASE i # 0
  <2> DEFINE N == [P[p] EXCEPT !.free = Without(P[p].free, i)]
  <2>1. Q = [P EXCEPT ![p] = N]
    BY <1>3 DEF MadePools
  <2>2. N.offset = P[p].offset /\ N.size = P[p].size
    BY <1>1 DEF Pool
  <2> HIDE DEF N, Q, c
  <2>3. Advanced(P, Q, p, i, c)
    BY <1>3, <2>1, <2>2 DEF Advanced
  <2> QED
    BY <2>3 DEF c, Q
<1> QED
  BY <1>2, <1>3

\* The pools that a call works on are those of the arena, with empty ones behind.
LEMMA GrownPools ==
  ASSUME TypeOK, NEW P, Grows(P)
  PROVE  /\ P \in Seq(Pool) /\ DOMAIN P = 1 .. Len(P) /\ Len(P) \in Nat
         /\ \A q \in DOMAIN pools : q \in DOMAIN P /\ P[q] = pools[q]
         /\ \A q \in DOMAIN P : q \notin DOMAIN pools => P[q].offset = 0 /\ P[q].free = <<>>
         /\ \A q \in DOMAIN P :
              /\ P[q] \in Pool /\ P[q].size \in Nat /\ P[q].offset \in Nat
              /\ P[q].free \in Seq(Nat \X Nat)
         /\ \A a \in heads : /\ a = <<a[1], a[2]>> /\ a[2] \in Nat /\ chunk_size[a] \in Nat
                             /\ a[1] \in DOMAIN pools /\ P[a[1]] = pools[a[1]]
<1>1. /\ P \in Seq(Pool) /\ pools \in Seq(Pool) /\ Len(P) >= Len(pools)
      /\ \A q \in 1 .. Len(pools) : P[q] = pools[q]
      /\ \A q \in (Len(pools) + 1) .. Len(P) : P[q].offset = 0 /\ P[q].free = <<>>
  BY DEF Grows, TypeOK
<1>2. /\ DOMAIN P = 1 .. Len(P) /\ DOMAIN pools = 1 .. Len(pools)
      /\ Len(P) \in Nat /\ Len(pools) \in Nat
  BY <1>1
<1>3. \A q \in DOMAIN P :
        /\ P[q] \in Pool /\ P[q].size \in Nat /\ P[q].offset \in Nat
        /\ P[q].free \in Seq(Nat \X Nat)
  <2> TAKE q \in DOMAIN P
  <2>1. P[q] \in Pool
    BY <1>1
  <2> QED
    BY <2>1 DEF Pool
<1>4. \A q \in DOMAIN pools : q \in DOMAIN P /\ P[q] = pools[q]
  BY <1>1, <1>2
<1>5. \A q \in DOMAIN P : q \notin DOMAIN pools => P[q].offset = 0 /\ P[q].free = <<>>
  BY <1>1, <1>2
<1>6. \A a \in heads : /\ a = <<a[1], a[2]>> /\ a[2] \in Nat /\ chunk_size[a] \in Nat
                       /\ a[1] \in DOMAIN pools /\ P[a[1]] = pools[a[1]]
  BY <1>2, <1>4 DEF TypeOK, Addresses
<1> QED
  BY <1>1, <1>2, <1>3, <1>4, <1>5, <1>6

\* What Built says of every header that create_header makes.
LEMMA HeaderBuilt ==
  ASSUME TypeOK, Placed(pools, chunk_size, deadzone),
         Linked(pools, chunk_size, bitflags, deadzone),
         NEW P, Grows(P),
         NEW n \in Nat, n < WORD, n % 16 = 0,
         NEW p \in DOMAIN P, NEW i \in 0 .. Len(P[p].free), Serves(P, n, p, i)
  PROVE  Built(P, n, p, i)
<1> DEFINE b == Spot(P, p, i)
           Q == MadePools(P, n, p, i)
           s == MadeSizes(P, n, p, i)
           d == MadeTags(P, n, p, i)
           c == ChunkSize(n)
           e == <<b[1], b[2] + c>>
<1>1. /\ P \in Seq(Pool) /\ DOMAIN P = 1 .. Len(P) /\ Len(P) \in Nat
      /\ \A q \in DOMAIN pools : q \in DOMAIN P /\ P[q] = pools[q]
      /\ \A q \in DOMAIN P : P[q].offset \in Nat /\ P[q].free \in Seq(Nat \X Nat)
      /\ \A a \in heads : /\ a = <<a[1], a[2]>> /\ a[2] \in Nat /\ chunk_size[a] \in Nat
                          /\ a[1] \in DOMAIN pools /\ P[a[1]] = pools[a[1]]
  BY GrownPools
<1>2. Linked(P, chunk_size, bitflags, deadzone)
  BY GrownLists
<1>3. i # 0 => i \in DOMAIN P[p].free /\ chunk_size[P[p].free[i]] = c
  <2>1. i # 0 => i \in DOMAIN P[p].free /\ chunk_size[P[p].free[i]] = ChunkSize(n)
    <3> HIDE DEF b, Q, s, d, c, e
    <3>1. P \in Seq(Pool) /\ i \in Nat
      BY <1>1
    <3> QED
      BY <3>1, ServedSpot
  <2> QED
    BY <2>1
<1>4. i # 0 => b \in heads /\ chunk_size[b] = c /\ i \in DOMAIN P[p].free
  BY <1>2, <1>3 DEF Spot, Linked, NodesFree, heads
<1>5. i = 0 => b = <<p, P[p].offset>> /\ b \notin heads
  <2> SUFFICES ASSUME i = 0 PROVE b = <<p, P[p].offset>> /\ b \notin heads
    OBVIOUS
  <2>1. b = <<p, P[p].offset>>
    BY DEF Spot
  <2>2. ASSUME b \in heads PROVE FALSE
    <3>1. b[2] + chunk_size[b] <= P[p].offset /\ chunk_size[b] > 0
      BY <2>1, <2>2, <1>1 DEF Placed, ChunksInside, Linked, SizesPositive, heads
    <3> QED
      BY <3>1, <2>1, <2>2, <1>1
  <2> QED
    BY <2>1, <2>2
<1>6. b = <<b[1], b[2]>> /\ b[1] \in DOMAIN P /\ b[2] \in Nat
  BY <1>1, <1>4, <1>5
<1>7. /\ DOMAIN s = heads \cup {b} /\ s[b] = c
      /\ \A x \in heads : s[x] = chunk_size[x]
  <2>1. \A x \in heads \cup {b} : s[x] = IF x = b THEN c ELSE chunk_size[x]
    BY DEF MadeSizes, With, heads
  <2> QED
    BY <2>1, <1>4, <1>5 DEF MadeSizes, With, heads
<1>8. /\ DOMAIN d = DOMAIN deadzone \cup {e}
      /\ d[e] = [prev_chunk_size |-> c, pool_ptr |-> p]
      /\ \A x \in DOMAIN deadzone : x # e => d[x] = deadzone[x]
  <2>1. e = NextHead(s, b)
    BY <1>7 DEF NextHead
  <2> QED
    BY <2>1 DEF MadeTags, With
<1>9. Advanced(P, Q, p, i, c)
  <2>1. Advanced(P, MadePools(P, n, p, i), p, i, ChunkSize(n))
    <3> HIDE DEF b, Q, s, d, c, e
    <3> QED
      BY <1>1, MadeAdvanced
  <2> QED
    BY <2>1
<1> HIDE DEF b, Q, s, d, c, e
<1>10. /\ b = <<b[1], b[2]>> /\ b[1] \in DOMAIN P /\ b[2] \in Nat
       /\ IF i = 0 THEN b = <<p, P[p].offset>> /\ b \notin heads
                   ELSE b \in heads /\ chunk_size[b] = c /\ i \in DOMAIN P[p].free
       /\ DOMAIN s = heads \cup {b} /\ s[b] = c
       /\ \A x \in heads : s[x] = chunk_size[x]
       /\ DOMAIN d = DOMAIN deadzone \cup {e}
       /\ d[e] = [prev_chunk_size |-> c, pool_ptr |-> p]
       /\ \A x \in DOMAIN deadzone : x # e => d[x] = deadzone[x]
       /\ Advanced(P, Q, p, i, c)
  BY <1>4, <1>5, <1>6, <1>7, <1>8, <1>9
<1> QED
  BY <1>10, Zenon DEF Built, b, Q, s, d, c, e

-----------------------------------------------------------------------------
(***************************************************************************)
(* Tiling.                                                                 *)
(***************************************************************************)

\* Pools that a call adds are empty.
LEMMA GrownTiled ==
  ASSUME TypeOK, Tiled(pools, chunk_size, deadzone), NEW P, Grows(P)
  PROVE  Tiled(P, chunk_size, deadzone)
<1>1. /\ \A q \in DOMAIN pools : q \in DOMAIN P /\ P[q] = pools[q]
      /\ \A q \in DOMAIN P : q \notin DOMAIN pools => P[q].offset = 0 /\ P[q].free = <<>>
      /\ \A a \in heads : a[1] \in DOMAIN pools /\ P[a[1]] = pools[a[1]]
  BY GrownPools
<1>2. NoGaps(P, chunk_size)
  BY <1>1 DEF Tiled, NoGaps, heads
<1>3. EndsReached(P, chunk_size, deadzone)
  BY <1>1 DEF Tiled, EndsReached
<1> QED
  BY <1>2, <1>3 DEF Tiled

\* What is reached backwards stays so: the only deadzone that changes is the one
\* behind the new header, and it leads to that header.
LEMMA ReachedStays ==
  ASSUME NEW b, NEW c \in Nat, b = <<b[1], b[2]>>, b[2] \in Nat, NEW s, NEW d, NEW p,
         DOMAIN s = heads \cup {b}, s[b] = c, \A x \in heads : s[x] = chunk_size[x],
         DOMAIN d = DOMAIN deadzone \cup {<<b[1], b[2] + c>>},
         d[<<b[1], b[2] + c>>] = [prev_chunk_size |-> c, pool_ptr |-> p],
         \A x \in DOMAIN deadzone : x # <<b[1], b[2] + c>> => d[x] = deadzone[x]
  PROVE  /\ Reached(s, d, <<b[1], b[2] + c>>)
         /\ \A x : Reached(chunk_size, deadzone, x) => Reached(s, d, x)
<1> DEFINE e == <<b[1], b[2] + c>>
<1>1. Reached(s, d, e)
  <2>1. d[e].prev_chunk_size = c /\ e[1] = b[1] /\ e[2] = b[2] + c
    OBVIOUS
  <2>2. Front(d, e) = <<b[1], b[2]>>
    BY <2>1 DEF Front
  <2> QED
    BY <2>1, <2>2 DEF Reached
<1>2. ASSUME NEW x, Reached(chunk_size, deadzone, x), x # e PROVE Reached(s, d, x)
  <2>1. d[x] = deadzone[x] /\ x \in DOMAIN d
    BY <1>2 DEF Reached
  <2>2. Front(d, x) = Front(deadzone, x)
    BY <2>1 DEF Front
  <2> QED
    BY <1>2, <2>1, <2>2 DEF Reached, heads
<1> QED
  BY <1>1, <1>2

\* A header made in safety leaves the chunks tiled.
LEMMA MadeTiled ==
  ASSUME TypeOK, Placed(pools, chunk_size, deadzone),
         Linked(pools, chunk_size, bitflags, deadzone),
         Tiled(pools, chunk_size, deadzone),
         NEW P, Grows(P),
         NEW n \in Nat, n < WORD, n % 16 = 0, ChunkSize(n) >= n + 32,
         NEW p \in DOMAIN P, NEW i \in 0 .. Len(P[p].free), Serves(P, n, p, i)
  PROVE  Tiled(MadePools(P, n, p, i), MadeSizes(P, n, p, i), MadeTags(P, n, p, i))
<1> DEFINE b == Spot(P, p, i)
           Q == MadePools(P, n, p, i)
           s == MadeSizes(P, n, p, i)
           d == MadeTags(P, n, p, i)
           c == ChunkSize(n)
           e == <<b[1], b[2] + c>>
<1>1. Built(P, n, p, i)
  BY HeaderBuilt
<1>2. Tiled(P, chunk_size, deadzone)
  BY GrownTiled
<1>3. c \in Nat /\ c > 0
  BY ChunkExact
<1>4. Shape(Q, s, MadeFlags(P, n, p, i, 0), d) /\ Placed(Q, s, d)
  BY HeaderMade, Zenon
<1>5. SizesPositive(s)
  <2>1. SizesPositive(chunk_size)
    BY DEF Linked
  <2> QED
    BY <1>1, <1>3, <2>1 DEF Built, SizesPositive, heads
<1>6. /\ b = <<b[1], b[2]>> /\ b[1] \in DOMAIN P /\ b[2] \in Nat
      /\ IF i = 0 THEN b = <<p, P[p].offset>> /\ b \notin heads
                  ELSE b \in heads /\ chunk_size[b] = c /\ i \in DOMAIN P[p].free
      /\ DOMAIN s = heads \cup {b} /\ s[b] = c
      /\ \A x \in heads : s[x] = chunk_size[x]
      /\ DOMAIN d = DOMAIN deadzone \cup {e}
      /\ d[e] = [prev_chunk_size |-> c, pool_ptr |-> p]
      /\ \A x \in DOMAIN deadzone : x # e => d[x] = deadzone[x]
      /\ Advanced(P, Q, p, i, c)
  BY <1>1, Zenon DEF Built
<1>7. \A a \in heads : a = <<a[1], a[2]>> /\ a[1] \in DOMAIN P
  BY GrownPools
<1>8. \A q \in DOMAIN P : P[q].offset \in Nat
  BY GrownPools
<1> HIDE DEF b, Q, s, d, c
<1>9. /\ Reached(s, d, e)
      /\ \A x : Reached(chunk_size, deadzone, x) => Reached(s, d, x)
  BY <1>3, <1>6, ReachedStays
<1>10. \A x \in heads : NextHead(s, x) = NextHead(chunk_size, x)
  BY <1>6 DEF NextHead
<1>11. NextHead(s, b) = e
  BY <1>6 DEF NextHead
<1>12. DOMAIN Q = DOMAIN P /\ \A q \in DOMAIN P :
         Q[q].offset = IF q = p /\ i = 0 THEN P[q].offset + c ELSE P[q].offset
  BY <1>6 DEF Advanced
<1>13. TagsTellSizes(s, d)
  <2> SUFFICES ASSUME NEW x \in DOMAIN s
               PROVE  NextHead(s, x) \in DOMAIN d /\ d[NextHead(s, x)].prev_chunk_size = s[x]
    BY DEF TagsTellSizes
  <2>1. CASE x = b
    BY <2>1, <1>6, <1>11
  <2>2. CASE x # b
    <3>1. x \in heads /\ s[x] = chunk_size[x] /\ b \in DOMAIN s
      BY <2>2, <1>6
    <3>2. NextHead(s, x) \in DOMAIN deadzone /\ deadzone[NextHead(s, x)].prev_chunk_size = s[x]
      BY <3>1, <1>2, <1>10 DEF Tiled, TagsTellSizes, heads
    <3>3. NextHead(s, x) # NextHead(s, b)
      <4>1. DOMAIN s \subseteq (1 .. Len(Q)) \X Nat /\ \A a \in DOMAIN s : s[a] \in Nat
        BY <1>4 DEF Shape
      <4>2. ChunksApart(s)
        BY <1>4 DEF Placed
      <4> QED
        BY <4>1, <4>2, <2>2, <3>1, <1>5, EndsDiffer
    <3> QED
      BY <3>2, <3>3, <1>6, <1>11
  <2> QED
    BY <2>1, <2>2
<1>14. NoGaps(Q, s)
  <2> SUFFICES ASSUME NEW x \in DOMAIN s, NextHead(s, x) \notin DOMAIN s
               PROVE  NextHead(s, x)[2] = Q[x[1]].offset
    BY DEF NoGaps
  <2>1. CASE x = b /\ i = 0
    BY <2>1, <1>6, <1>11, <1>12
  <2>2. CASE ~(x = b /\ i = 0)
    <3>1. x \in heads /\ x[1] \in DOMAIN P
      BY <2>2, <1>6, <1>7
    <3>2. NextHead(s, x)[2] = P[x[1]].offset
      BY <3>1, <1>2, <1>6, <1>10 DEF Tiled, NoGaps, heads
    <3>3. ~(x[1] = p /\ i = 0)
      <4>1. NextHead(s, x) = <<x[1], P[x[1]].offset>>
        BY <3>2 DEF NextHead
      <4> QED
        BY <4>1, <1>6
    <3> QED
      BY <3>1, <3>2, <3>3, <1>12
  <2> QED
    BY <2>1, <2>2
<1>15. HeadsReached(s, d)
  <2> SUFFICES ASSUME NEW x \in DOMAIN s, x[2] # 0 PROVE Reached(s, d, x)
    BY DEF HeadsReached
  <2>1. CASE x \in heads
    BY <2>1, <1>2, <1>9 DEF Tiled, HeadsReached, heads
  <2>2. CASE x \notin heads
    <3>1. x = <<p, P[p].offset>> /\ P[p].offset # 0
      BY <2>2, <1>6
    <3> QED
      BY <3>1, <1>2, <1>9 DEF Tiled, EndsReached
  <2> QED
    BY <2>1, <2>2
<1>16. EndsReached(Q, s, d)
  <2> SUFFICES ASSUME NEW q \in DOMAIN P, Q[q].offset # 0
               PROVE  Reached(s, d, <<q, Q[q].offset>>)
    BY <1>12 DEF EndsReached
  <2>1. CASE q = p /\ i = 0
    <3>1. <<q, Q[q].offset>> = e
      BY <2>1, <1>6, <1>12
    <3> QED
      BY <3>1, <1>9
  <2>2. CASE ~(q = p /\ i = 0)
    <3>1. Q[q].offset = P[q].offset
      BY <2>2, <1>12
    <3> QED
      BY <3>1, <1>2, <1>9 DEF Tiled, EndsReached
  <2> QED
    BY <2>1, <2>2
<1> QED
  BY <1>13, <1>14, <1>15, <1>16 DEF Tiled, Q, s, d

\* Only the sizes in the deadzones matter.
LEMMA TiledBySizes ==
  ASSUME NEW P, NEW s, NEW d, NEW t, Tiled(P, s, d), DOMAIN t = DOMAIN d,
         \A x \in DOMAIN d : t[x].prev_chunk_size = d[x].prev_chunk_size
  PROVE  Tiled(P, s, t)
<1>1. \A x : Reached(s, d, x) => Reached(s, t, x)
  BY DEF Reached, Front
<1> QED
  BY <1>1 DEF Tiled, TagsTellSizes, HeadsReached, EndsReached

-----------------------------------------------------------------------------
(***************************************************************************)
(* Every action keeps the chunks tiled.                                    *)
(***************************************************************************)

\* The outcome of syn_alloc of n bytes at a, served by spot i of pool p.
Allocated(a, n, P, p, i, wild) ==
  /\ n < WORD /\ n % 16 = 0 /\ Grows(P)
  /\ p \in DOMAIN P /\ i \in 0 .. Len(P[p].free) /\ Serves(P, n, p, i)
  /\ a = Spot(P, p, i)
  /\ pools' = MadePools(P, n, p, i)
  /\ chunk_size' = MadeSizes(P, n, p, i)
  /\ deadzone' = MadeTags(P, n, p, i)
  /\ bitflags' = MadeFlags(P, n, p, i, wild)
  /\ fate' = MadeFate(P, n, p, i, wild)
  /\ fate' = "ok" => ChunkSize(n) >= n + 32

\* Every step of syn_alloc has such an outcome.
LEMMA AllocMade ==
  ASSUME HeapInv, NEW size \in Requests, NEW a, HeapAlloc(size, a)
  PROVE  /\ PaddedSize(size) \in Nat
         /\ \E P, p, i, wild : Allocated(a, PaddedSize(size), P, p, i, wild)
<1> DEFINE n == PaddedSize(size)
           P == Supply(size, n)
<1>1. n \in Nat /\ n < WORD /\ n % 16 = 0
  BY RequestsAssumption, RequestAligned
<1>2. Grows(P)
  BY SupplyGrows DEF HeapInv
<1> HIDE DEF n
<1>3. PICK p \in DOMAIN P, i \in Int, wild \in Wild :
        /\ i \in 0 .. Len(P[p].free)
        /\ Serves(P, n, p, i)
        /\ a = Spot(P, p, i)
        /\ pools' = MadePools(P, n, p, i)
        /\ chunk_size' = MadeSizes(P, n, p, i)
        /\ deadzone' = MadeTags(P, n, p, i)
        /\ bitflags' = MadeFlags(P, n, p, i, wild)
        /\ fate' = MadeFate(P, n, p, i, wild)
  BY DEF HeapAlloc, n
<1> HIDE DEF P
<1>4. fate' = "ok" => ChunkSize(n) >= n + 32
  BY <1>1, <1>3, MadeSafely
<1>5. Allocated(a, n, P, p, i, wild)
  BY <1>1, <1>2, <1>3, <1>4 DEF Allocated
<1> QED
  BY <1>1, <1>5 DEF n

\* What the lemmas about made headers start from.
LEMMA InvariantParts ==
  ASSUME HeapInv, FreeInv, Safe
  PROVE  /\ TypeOK /\ Placed(pools, chunk_size, deadzone)
         /\ Linked(pools, chunk_size, bitflags, deadzone)
  BY DEF HeapInv, FreeInv

\* syn_alloc.
LEMMA AllocTiled ==
  ASSUME HeapInv, FreeInv, TileInv, NEW size \in Requests, NEW a, HeapAlloc(size, a)
  PROVE  TileInv'
<1>1. Safe
  BY DEF HeapAlloc, Alive, Safe
<1>2. PICK n, P, p, i, wild : n \in Nat /\ Allocated(a, n, P, p, i, wild)
  BY AllocMade
<1>3. ASSUME Safe' PROVE Tiled(pools', chunk_size', deadzone')
  <2>1. ChunkSize(n) >= n + 32
    BY <1>2, <1>3 DEF Allocated, Safe
  <2>2. Tiled(MadePools(P, n, p, i), MadeSizes(P, n, p, i), MadeTags(P, n, p, i))
    BY <1>1, <1>2, <2>1, InvariantParts, MadeTiled DEF Allocated, TileInv
  <2> QED
    BY <1>2, <2>2 DEF Allocated
<1> QED
  BY <1>3 DEF TileInv

\* syn_realloc: the deadzone it copies has the size of the new header, because it
\* copies one only if both chunks are of one size.
LEMMA ReallocTiled ==
  ASSUME HeapInv, FreeInv, TileInv, NEW a, NEW size \in ReallocRequests, NEW b,
         HeapRealloc(a, size, b)
  PROVE  TileInv'
<1>1. Safe /\ a \in heads
  BY DEF HeapRealloc, Alive, Safe, Unfrozen
<1>2. PICK n, P, p, i, wild : n \in Nat /\ Reallocated(a, b, n, P, p, i, wild)
  BY ReallocMade
<1> DEFINE d == MadeTags(P, n, p, i)
           e == <<b[1], b[2] + ChunkSize(n)>>
<1>3. /\ TypeOK /\ Placed(pools, chunk_size, deadzone)
      /\ Linked(pools, chunk_size, bitflags, deadzone)
      /\ Tiled(pools, chunk_size, deadzone)
  BY <1>1, InvariantParts DEF TileInv
<1>4. /\ n < WORD /\ n % 16 = 0 /\ Grows(P)
      /\ p \in DOMAIN P /\ i \in 0 .. Len(P[p].free) /\ Serves(P, n, p, i)
      /\ b = Spot(P, p, i)
      /\ pools' = MadePools(P, n, p, i) /\ chunk_size' = MadeSizes(P, n, p, i)
      /\ deadzone' = Copied(d, a, b, n)
      /\ fate' = "ok" => ChunkSize(n) >= n + 32
  BY <1>2 DEF Reallocated
<1>5. Built(P, n, p, i)
  BY <1>2, <1>3, <1>4, HeaderBuilt
<1>6. e \in DOMAIN d /\ d[e].prev_chunk_size = ChunkSize(n)
  BY <1>4, <1>5 DEF Built
<1>7. deadzone[Behind(a)].prev_chunk_size = chunk_size[a]
  BY <1>1, <1>3 DEF Tiled, TagsTellSizes, Behind, NextHead, heads
<1> HIDE DEF d
<1>8. /\ DOMAIN deadzone' = DOMAIN d
      /\ \A x \in DOMAIN d : deadzone'[x].prev_chunk_size = d[x].prev_chunk_size
  <2>1. CASE ChunkSize(n) = chunk_size[a]
    <3>1. deadzone' = [d EXCEPT ![e] = deadzone[Behind(a)]]
      BY <2>1, <1>4 DEF Copied
    <3> QED
      BY <3>1, <2>1, <1>6, <1>7
  <2>2. CASE ChunkSize(n) # chunk_size[a]
    BY <2>2, <1>4 DEF Copied
  <2> QED
    BY <2>1, <2>2
<1>9. ASSUME Safe' PROVE Tiled(pools', chunk_size', deadzone')
  <2>1. ChunkSize(n) >= n + 32
    BY <1>4, <1>9 DEF Safe
  <2>2. Tiled(pools', chunk_size', d)
    BY <1>2, <1>3, <1>4, <2>1, MadeTiled DEF d
  <2> QED
    BY <1>8, <2>2, TiledBySizes
<1> QED
  BY <1>9 DEF TileInv

\* Pools with the same bytes in use.
LEMMA SameOffsetsTiled ==
  ASSUME TypeOK, Tiled(pools, chunk_size, deadzone), NEW Q,
         DOMAIN Q = DOMAIN pools, \A q \in DOMAIN Q : Q[q].offset = pools[q].offset
  PROVE  Tiled(Q, chunk_size, deadzone)
<1>1. \A a \in heads : a[1] \in DOMAIN pools
  BY DEF TypeOK, Addresses
<1> QED
  BY <1>1 DEF Tiled, NoGaps, EndsReached, heads

\* syn_free changes the list of one pool.
LEMMA FreeOffsets ==
  ASSUME TypeOK, NEW a, HeapFree(a)
  PROVE  /\ DOMAIN pools' = DOMAIN pools
         /\ \A q \in DOMAIN pools : pools'[q].offset = pools[q].offset /\ pools'[q].size = pools[q].size
         /\ UNCHANGED <<chunk_size, deadzone>>
<1> DEFINE p == ReturnPool(a)
           N == [pools[p] EXCEPT !.free = Append(pools[p].free, a)]
<1>1. UNCHANGED <<chunk_size, deadzone>> /\ (UNCHANGED pools \/ pools' = [pools EXCEPT ![p] = N])
  BY DEF HeapFree
<1>2. \A q \in DOMAIN pools : pools[q] \in Pool
  BY DEF TypeOK
<1>3. p \in DOMAIN pools => N.offset = pools[p].offset /\ N.size = pools[p].size
  BY <1>2 DEF Pool
<1> HIDE DEF p, N
<1> QED
  BY <1>1, <1>3

\* The other actions leave the offsets as they are, or drop all headers.
LEMMA OthersTiled ==
  ASSUME HeapInv, TileInv,
         \/ \E a : HeapFree(a) \/ HeapFreeze(a) \/ HeapThaw(a)
         \/ \E size, n : HeapGiveUp(size, n) \/ HeapMapFails(size, n)
         \/ HeapReset \/ HeapDestroy \/ PoolArrayFault \/ UNCHANGED heapVars
  PROVE  TileInv'
<1> SUFFICES ASSUME Safe' PROVE Tiled(pools', chunk_size', deadzone')
  BY DEF TileInv
<1>t. TypeOK
  BY DEF HeapInv
<1>1. CASE \E a : HeapFree(a)
  <2>1. PICK a : HeapFree(a)
    BY <1>1
  <2>2. Safe
    BY <2>1 DEF HeapFree, Safe
  <2> QED
    BY <1>t, <2>1, <2>2, FreeOffsets, SameOffsetsTiled DEF TileInv
<1>2. CASE \E a : HeapFreeze(a) \/ HeapThaw(a)
  BY <1>2 DEF HeapFreeze, HeapThaw, TileInv, Safe
<1>3. CASE \E size, n : HeapGiveUp(size, n)
  <2>1. PICK size, n : HeapGiveUp(size, n)
    BY <1>3
  <2> DEFINE P == Supply(size, n)
  <2>2. Safe /\ pools' = P /\ UNCHANGED <<chunk_size, deadzone>>
    BY <2>1 DEF HeapGiveUp, Alive, Safe
  <2>3. Grows(P)
    BY <1>t, SupplyGrows
  <2> HIDE DEF P
  <2> QED
    BY <1>t, <2>2, <2>3, GrownTiled DEF TileInv
<1>4. CASE (\E size, n : HeapMapFails(size, n)) \/ PoolArrayFault
  BY <1>4 DEF HeapMapFails, PoolArrayFault, Safe
<1>5. CASE HeapReset \/ HeapDestroy
  <2>1. DOMAIN <<>> = {}
    OBVIOUS
  <2>2. chunk_size' = <<>> /\ \A q \in DOMAIN pools' : pools'[q].offset = 0
    <3>1. CASE HeapReset
      <4> DEFINE N == [pools[1] EXCEPT !.offset = 0, !.free = <<>>]
      <4>1. pools' = <<N>> /\ chunk_size' = <<>> /\ pools # <<>> /\ pools \in Seq(Pool)
        BY <3>1, <1>t DEF HeapReset, NoHeaders, TypeOK
      <4>2. pools[1] \in Pool
        BY <4>1
      <4>3. N.offset = 0
        BY <4>2 DEF Pool
      <4> HIDE DEF N
      <4> QED
        BY <4>1, <4>3
    <3>2. CASE HeapDestroy
      BY <3>2, <2>1 DEF HeapDestroy, NoHeaders
    <3> QED
      BY <1>5, <3>1, <3>2
  <2> QED
    BY <2>1, <2>2 DEF Tiled, TagsTellSizes, NoGaps, HeadsReached, EndsReached
<1>6. CASE UNCHANGED heapVars
  BY <1>6 DEF heapVars, TileInv, Safe
<1> QED
  BY <1>1, <1>2, <1>3, <1>4, <1>5, <1>6

\* The invariant is inductive, given those of PoolHeapProofs and FreeListProofs.
LEMMA NextTiled == HeapInv /\ FreeInv /\ TileInv /\ [HeapNext]_heapVars => TileInv'
<1> SUFFICES ASSUME HeapInv, FreeInv, TileInv, [HeapNext]_heapVars PROVE TileInv'
  OBVIOUS
<1>1. ASSUME NEW size \in Requests, NEW a \in Targets, HeapAlloc(size, a) PROVE TileInv'
  BY <1>1, AllocTiled
<1>2. ASSUME NEW a \in Passed, NEW size \in ReallocRequests, NEW b \in Targets,
             HeapRealloc(a, size, b)
      PROVE  TileInv'
  BY <1>2, ReallocTiled
<1>3. ASSUME NEW size, NEW n, HeapGiveUp(size, n) \/ HeapMapFails(size, n) PROVE TileInv'
  BY <1>3, OthersTiled
<1>4. ASSUME NEW a \in Passed, HeapFree(a) \/ HeapFreeze(a) \/ HeapThaw(a) PROVE TileInv'
  BY <1>4, OthersTiled
<1>5. ASSUME HeapReset \/ HeapDestroy \/ PoolArrayFault \/ Stopped \/ UNCHANGED heapVars
      PROVE  TileInv'
  BY <1>5, OthersTiled DEF Stopped
<1> QED
  BY <1>1, <1>2, <1>3, <1>4, <1>5 DEF HeapNext

\* No chunk is there before the first call.
LEMMA InitTiled == HeapInit => TileInv
<1>1. DOMAIN <<>> = {}
  OBVIOUS
<1> QED
  BY <1>1 DEF HeapInit, TileInv, Tiled, TagsTellSizes, NoGaps, HeadsReached, EndsReached

\* The invariant holds in every state of the arena's memory.
THEOREM TileInvariantHolds == HeapSpec => []TileInv
  BY InitTiled, NextTiled, InvariantHolds, FreeInvariantHolds, PTL DEF HeapSpec

\* The headers of a pool can be walked both ways, with syn_realloc, with stale
\* callers, and for every set of sizes and pools.
THEOREM ChunksTileHolds == HeapSpec => []ChunksTile
  BY TiledIsTile, TileInvariantHolds, PTL

-----------------------------------------------------------------------------
(***************************************************************************)
(* Free blocks come before fresh memory.  The jump table serves a pool     *)
(* whose offset is 0 without a look at its free list, so the list of an    *)
(* unused pool has to be empty: what is listed there has a deadzone that   *)
(* names the pool, and deadzones name used pools only.                     *)
(***************************************************************************)
TagsNameUsed(P, s, d) == \A a \in DOMAIN s :
  /\ NextHead(s, a) \in DOMAIN d
  /\ d[NextHead(s, a)].pool_ptr \in DOMAIN P
  /\ P[d[NextHead(s, a)].pool_ptr].offset # 0

UsedInv == Safe => TagsNameUsed(pools, chunk_size, deadzone)

\* Of the deadzones behind chunks, create_header changes that of the new header.
TagsStay(P, n, p, i) ==
  LET b == Spot(P, p, i)
      s == MadeSizes(P, n, p, i)
      d == MadeTags(P, n, p, i)
  IN  /\ NextHead(s, b) \in DOMAIN d
      /\ d[NextHead(s, b)] = [prev_chunk_size |-> ChunkSize(n), pool_ptr |-> p]
      /\ \A x \in heads : x # b =>
           /\ NextHead(s, x) = NextHead(chunk_size, x)
           /\ NextHead(s, x) # NextHead(s, b)
           /\ NextHead(s, x) \in DOMAIN d
           /\ d[NextHead(s, x)] = deadzone[NextHead(chunk_size, x)]

\* What TagsStay says of every header made in safety.
LEMMA MadeTagsStay ==
  ASSUME TypeOK, Placed(pools, chunk_size, deadzone),
         Linked(pools, chunk_size, bitflags, deadzone),
         NEW P, Grows(P),
         NEW n \in Nat, n < WORD, n % 16 = 0, ChunkSize(n) >= n + 32,
         NEW p \in DOMAIN P, NEW i \in 0 .. Len(P[p].free), Serves(P, n, p, i)
  PROVE  TagsStay(P, n, p, i)
<1> DEFINE b == Spot(P, p, i)
           Q == MadePools(P, n, p, i)
           s == MadeSizes(P, n, p, i)
           d == MadeTags(P, n, p, i)
           c == ChunkSize(n)
           e == <<b[1], b[2] + c>>
<1>1. Built(P, n, p, i)
  BY HeaderBuilt
<1>2. c \in Nat /\ c > 0
  BY ChunkExact
<1>3. Shape(Q, s, MadeFlags(P, n, p, i, 0), d) /\ Placed(Q, s, d)
  BY HeaderMade, Zenon
<1>4. SizesPositive(s)
  <2>1. SizesPositive(chunk_size)
    BY DEF Linked
  <2> QED
    BY <1>1, <1>2, <2>1 DEF Built, SizesPositive, heads
<1>5. /\ DOMAIN s = heads \cup {b} /\ s[b] = c
      /\ \A x \in heads : s[x] = chunk_size[x]
      /\ DOMAIN d = DOMAIN deadzone \cup {e}
      /\ d[e] = [prev_chunk_size |-> c, pool_ptr |-> p]
      /\ \A x \in DOMAIN deadzone : x # e => d[x] = deadzone[x]
  BY <1>1, Zenon DEF Built
<1> HIDE DEF b, Q, s, d, c
<1>6. NextHead(s, b) = e
  BY <1>5 DEF NextHead
<1>7. ASSUME NEW x \in heads, x # b
      PROVE  /\ NextHead(s, x) = NextHead(chunk_size, x)
             /\ NextHead(s, x) # NextHead(s, b)
             /\ NextHead(s, x) \in DOMAIN d
             /\ d[NextHead(s, x)] = deadzone[NextHead(chunk_size, x)]
  <2>1. NextHead(s, x) = NextHead(chunk_size, x)
    BY <1>5 DEF NextHead
  <2>2. NextHead(chunk_size, x) \in DOMAIN deadzone
    BY DEF Placed, TagsNamePools, heads
  <2>3. NextHead(s, x) # NextHead(s, b)
    <3>1. DOMAIN s \subseteq (1 .. Len(Q)) \X Nat /\ \A a \in DOMAIN s : s[a] \in Nat
      BY <1>3 DEF Shape
    <3>2. ChunksApart(s) /\ x \in DOMAIN s /\ b \in DOMAIN s
      BY <1>3, <1>5 DEF Placed
    <3> QED
      BY <3>1, <3>2, <1>4, <1>7, EndsDiffer
  <2> QED
    BY <2>1, <2>2, <2>3, <1>5, <1>6
<1>8. /\ NextHead(s, b) \in DOMAIN d
      /\ d[NextHead(s, b)] = [prev_chunk_size |-> c, pool_ptr |-> p]
  BY <1>5, <1>6
<1> QED
  BY <1>7, <1>8, Zenon DEF TagsStay, b, s, d, c

\* A header made in safety names a pool that it uses, or that is in use already.
LEMMA MadeNamesUsed ==
  ASSUME TypeOK, Placed(pools, chunk_size, deadzone),
         Linked(pools, chunk_size, bitflags, deadzone),
         TagsNameUsed(pools, chunk_size, deadzone),
         NEW P, Grows(P),
         NEW n \in Nat, n < WORD, n % 16 = 0, ChunkSize(n) >= n + 32,
         NEW p \in DOMAIN P, NEW i \in 0 .. Len(P[p].free), Serves(P, n, p, i)
  PROVE  TagsNameUsed(MadePools(P, n, p, i), MadeSizes(P, n, p, i), MadeTags(P, n, p, i))
<1> DEFINE b == Spot(P, p, i)
           Q == MadePools(P, n, p, i)
           s == MadeSizes(P, n, p, i)
           d == MadeTags(P, n, p, i)
           c == ChunkSize(n)
<1>1. Built(P, n, p, i) /\ TagsStay(P, n, p, i)
  BY HeaderBuilt, MadeTagsStay
<1>2. c \in Nat /\ c > 0
  BY ChunkExact
<1>3. /\ IF i = 0 THEN b = <<p, P[p].offset>> /\ b \notin heads
                  ELSE b \in heads /\ chunk_size[b] = c /\ i \in DOMAIN P[p].free
      /\ DOMAIN s = heads \cup {b}
      /\ Advanced(P, Q, p, i, c)
  BY <1>1, Zenon DEF Built
<1>4. /\ NextHead(s, b) \in DOMAIN d
      /\ d[NextHead(s, b)] = [prev_chunk_size |-> c, pool_ptr |-> p]
      /\ \A x \in heads : x # b =>
           /\ NextHead(s, x) \in DOMAIN d
           /\ d[NextHead(s, x)] = deadzone[NextHead(chunk_size, x)]
  BY <1>1, Zenon DEF TagsStay
<1>5. /\ \A q \in DOMAIN pools : q \in DOMAIN P /\ P[q] = pools[q]
      /\ \A q \in DOMAIN P : P[q].offset \in Nat
  BY GrownPools
<1>6. Linked(P, chunk_size, bitflags, deadzone)
  BY GrownLists
<1>7. i # 0 => b = P[p].free[i]
  BY DEF Spot
<1> HIDE DEF b, Q, s, d, c
<1>8. DOMAIN Q = DOMAIN P /\ \A q \in DOMAIN P :
        Q[q].offset = IF q = p /\ i = 0 THEN P[q].offset + c ELSE P[q].offset
  BY <1>3 DEF Advanced
<1>9. \A q \in DOMAIN P : P[q].offset # 0 => Q[q].offset # 0
  BY <1>2, <1>5, <1>8
<1>10. Q[p].offset # 0
  <2>1. CASE i = 0
    BY <2>1, <1>2, <1>5, <1>8
  <2>2. CASE i # 0
    <3>1. deadzone[NextHead(chunk_size, b)].pool_ptr = p /\ b \in heads
      BY <2>2, <1>3, <1>6, <1>7 DEF Linked, ListsMatchTags
    <3>2. p \in DOMAIN pools /\ pools[p].offset # 0
      BY <3>1 DEF TagsNameUsed, heads
    <3> QED
      BY <3>2, <1>5, <1>9
  <2> QED
    BY <2>1, <2>2
<1>11. ASSUME NEW x \in DOMAIN s
       PROVE  /\ NextHead(s, x) \in DOMAIN d
              /\ d[NextHead(s, x)].pool_ptr \in DOMAIN Q
              /\ Q[d[NextHead(s, x)].pool_ptr].offset # 0
  <2>1. CASE x = b
    BY <2>1, <1>4, <1>8, <1>10
  <2>2. CASE x # b
    <3>1. x \in heads
      BY <2>2, <1>3
    <3> DEFINE q == deadzone[NextHead(chunk_size, x)].pool_ptr
    <3>2. q \in DOMAIN pools /\ pools[q].offset # 0
      BY <3>1 DEF TagsNameUsed, heads
    <3>3. NextHead(s, x) \in DOMAIN d /\ d[NextHead(s, x)].pool_ptr = q
      BY <2>2, <3>1, <1>4
    <3> HIDE DEF q
    <3> QED
      BY <3>2, <3>3, <1>5, <1>8, <1>9
  <2> QED
    BY <2>1, <2>2
<1>12. TagsNameUsed(Q, s, d)
  BY <1>11 DEF TagsNameUsed
<1> QED
  BY <1>12 DEF Q, s, d

\* syn_alloc.
LEMMA AllocUsed ==
  ASSUME HeapInv, FreeInv, UsedInv, NEW size \in Requests, NEW a, HeapAlloc(size, a)
  PROVE  UsedInv'
<1>1. Safe
  BY DEF HeapAlloc, Alive, Safe
<1>2. PICK n, P, p, i, wild : n \in Nat /\ Allocated(a, n, P, p, i, wild)
  BY AllocMade
<1>3. ASSUME Safe' PROVE TagsNameUsed(pools', chunk_size', deadzone')
  <2>1. ChunkSize(n) >= n + 32
    BY <1>2, <1>3 DEF Allocated, Safe
  <2>2. TagsNameUsed(MadePools(P, n, p, i), MadeSizes(P, n, p, i), MadeTags(P, n, p, i))
    BY <1>1, <1>2, <2>1, InvariantParts, MadeNamesUsed DEF Allocated, UsedInv
  <2> QED
    BY <1>2, <2>2 DEF Allocated
<1> QED
  BY <1>3 DEF UsedInv

\* syn_realloc: the deadzone it copies named a used pool already.
LEMMA ReallocUsed ==
  ASSUME HeapInv, FreeInv, UsedInv, NEW a, NEW size \in ReallocRequests, NEW b,
         HeapRealloc(a, size, b)
  PROVE  UsedInv'
<1>1. Safe /\ a \in heads
  BY DEF HeapRealloc, Alive, Safe, Unfrozen
<1>2. PICK n, P, p, i, wild : n \in Nat /\ Reallocated(a, b, n, P, p, i, wild)
  BY ReallocMade
<1> DEFINE t == MadeTags(P, n, p, i)
           Q == MadePools(P, n, p, i)
           s == MadeSizes(P, n, p, i)
<1>3. /\ n < WORD /\ n % 16 = 0 /\ Grows(P)
      /\ p \in DOMAIN P /\ i \in 0 .. Len(P[p].free) /\ Serves(P, n, p, i)
      /\ pools' = Q /\ chunk_size' = s /\ deadzone' = Copied(t, a, b, n)
      /\ fate' = "ok" => ChunkSize(n) >= n + 32
  BY <1>2 DEF Reallocated
<1>4. /\ TypeOK /\ Placed(pools, chunk_size, deadzone)
      /\ Linked(pools, chunk_size, bitflags, deadzone)
      /\ TagsNameUsed(pools, chunk_size, deadzone)
  BY <1>1, InvariantParts DEF UsedInv
<1> SUFFICES ASSUME Safe' PROVE TagsNameUsed(pools', chunk_size', deadzone')
  BY DEF UsedInv
<1>5. ChunkSize(n) >= n + 32
  BY <1>3 DEF Safe
<1>6. TagsNameUsed(Q, s, t)
  BY <1>2, <1>3, <1>4, <1>5, MadeNamesUsed
<1>7. a \in DOMAIN s /\ (a # Spot(P, p, i) => t[NextHead(s, a)] = deadzone[Behind(a)])
  <2>1. Built(P, n, p, i) /\ TagsStay(P, n, p, i)
    BY <1>2, <1>3, <1>4, <1>5, HeaderBuilt, MadeTagsStay
  <2>2. DOMAIN s = heads \cup {Spot(P, p, i)}
    BY <2>1, Zenon DEF Built
  <2>3. a # Spot(P, p, i) => t[NextHead(s, a)] = deadzone[NextHead(chunk_size, a)]
    BY <1>1, <2>1, Zenon DEF TagsStay
  <2> QED
    BY <1>1, <2>2, <2>3 DEF Behind, NextHead
<1>8. deadzone[Behind(a)].pool_ptr \in DOMAIN Q /\ Q[deadzone[Behind(a)].pool_ptr].offset # 0
  <2>1. CASE a # Spot(P, p, i)
    BY <2>1, <1>6, <1>7 DEF TagsNameUsed
  <2>2. CASE a = Spot(P, p, i)
    <3> DEFINE q == deadzone[Behind(a)].pool_ptr
    <3>1. q \in DOMAIN pools /\ pools[q].offset # 0
      BY <1>1, <1>4 DEF TagsNameUsed, Behind, NextHead, heads
    <3>2. q \in DOMAIN P /\ P[q] = pools[q]
      BY <3>1, <1>3, <1>4, GrownPools
    <3>3. Advanced(P, Q, p, i, ChunkSize(n)) /\ i # 0
      <4>1. Built(P, n, p, i)
        BY <1>2, <1>3, <1>4, HeaderBuilt
      <4>2. Advanced(P, Q, p, i, ChunkSize(n))
        BY <4>1, Zenon DEF Built
      <4>3. i = 0 => Spot(P, p, i) \notin heads
        BY <4>1, Zenon DEF Built
      <4> QED
        BY <2>2, <4>2, <4>3, <1>1
    <3> HIDE DEF Q, q
    <3>4. q \in DOMAIN Q /\ Q[q].offset # 0
      BY <3>1, <3>2, <3>3 DEF Advanced
    <3> QED
      BY <3>4 DEF q
  <2> QED
    BY <2>1, <2>2
<1> HIDE DEF Q, s, t
<1>9. /\ DOMAIN deadzone' = DOMAIN t
      /\ \A x \in DOMAIN t : deadzone'[x] = t[x] \/ deadzone'[x] = deadzone[Behind(a)]
  BY <1>3, CopiedTags
<1> QED
  BY <1>3, <1>6, <1>8, <1>9 DEF TagsNameUsed

\* The other actions keep the deadzones and the offsets, or drop all headers.
LEMMA OthersUsed ==
  ASSUME HeapInv, UsedInv,
         \/ \E a : HeapFree(a) \/ HeapFreeze(a) \/ HeapThaw(a)
         \/ \E size, n : HeapGiveUp(size, n) \/ HeapMapFails(size, n)
         \/ HeapReset \/ HeapDestroy \/ PoolArrayFault \/ UNCHANGED heapVars
  PROVE  UsedInv'
<1> SUFFICES ASSUME Safe' PROVE TagsNameUsed(pools', chunk_size', deadzone')
  BY DEF UsedInv
<1>t. TypeOK
  BY DEF HeapInv
<1>1. CASE \E a : HeapFree(a)
  <2>1. PICK a : HeapFree(a)
    BY <1>1
  <2>2. Safe
    BY <2>1 DEF HeapFree, Safe
  <2> QED
    BY <1>t, <2>1, <2>2, FreeOffsets DEF UsedInv, TagsNameUsed
<1>2. CASE \E a : HeapFreeze(a) \/ HeapThaw(a)
  BY <1>2 DEF HeapFreeze, HeapThaw, UsedInv, Safe
<1>3. CASE \E size, n : HeapGiveUp(size, n)
  <2>1. PICK size, n : HeapGiveUp(size, n)
    BY <1>3
  <2> DEFINE P == Supply(size, n)
  <2>2. Safe /\ pools' = P /\ UNCHANGED <<chunk_size, deadzone>>
    BY <2>1 DEF HeapGiveUp, Alive, Safe
  <2>3. Grows(P)
    BY <1>t, SupplyGrows
  <2> HIDE DEF P
  <2>4. \A q \in DOMAIN pools : q \in DOMAIN P /\ P[q] = pools[q]
    BY <1>t, <2>3, GrownPools
  <2> QED
    BY <2>2, <2>4 DEF UsedInv, TagsNameUsed
<1>4. CASE (\E size, n : HeapMapFails(size, n)) \/ PoolArrayFault
  BY <1>4 DEF HeapMapFails, PoolArrayFault, Safe
<1>5. CASE HeapReset \/ HeapDestroy
  <2>1. DOMAIN <<>> = {}
    OBVIOUS
  <2> QED
    BY <1>5, <2>1 DEF HeapReset, HeapDestroy, NoHeaders, TagsNameUsed
<1>6. CASE UNCHANGED heapVars
  BY <1>6 DEF heapVars, UsedInv, Safe
<1> QED
  BY <1>1, <1>2, <1>3, <1>4, <1>5, <1>6

\* The invariant is inductive, given those of PoolHeapProofs and FreeListProofs.
LEMMA NextUsed == HeapInv /\ FreeInv /\ UsedInv /\ [HeapNext]_heapVars => UsedInv'
<1> SUFFICES ASSUME HeapInv, FreeInv, UsedInv, [HeapNext]_heapVars PROVE UsedInv'
  OBVIOUS
<1>1. ASSUME NEW size \in Requests, NEW a \in Targets, HeapAlloc(size, a) PROVE UsedInv'
  BY <1>1, AllocUsed
<1>2. ASSUME NEW a \in Passed, NEW size \in ReallocRequests, NEW b \in Targets,
             HeapRealloc(a, size, b)
      PROVE  UsedInv'
  BY <1>2, ReallocUsed
<1>3. ASSUME NEW size, NEW n, HeapGiveUp(size, n) \/ HeapMapFails(size, n) PROVE UsedInv'
  BY <1>3, OthersUsed
<1>4. ASSUME NEW a \in Passed, HeapFree(a) \/ HeapFreeze(a) \/ HeapThaw(a) PROVE UsedInv'
  BY <1>4, OthersUsed
<1>5. ASSUME HeapReset \/ HeapDestroy \/ PoolArrayFault \/ Stopped \/ UNCHANGED heapVars
      PROVE  UsedInv'
  BY <1>5, OthersUsed DEF Stopped
<1> QED
  BY <1>1, <1>2, <1>3, <1>4, <1>5 DEF HeapNext

\* No deadzone is there before the first call.
LEMMA InitUsed == HeapInit => UsedInv
<1>1. DOMAIN <<>> = {}
  OBVIOUS
<1> QED
  BY <1>1 DEF HeapInit, UsedInv, TagsNameUsed

\* The invariant holds in every state of the arena's memory.
THEOREM UsedInvariantHolds == HeapSpec => []UsedInv
  BY InitUsed, NextUsed, InvariantHolds, FreeInvariantHolds, PTL DEF HeapSpec

\* A header at fresh memory of pool p means that no pool up to p lists a header of
\* the size searched for.
LEMMA FreshLast ==
  ASSUME HeapInv, FreeInv, UsedInv, Safe, NEW P, Grows(P),
         NEW n \in Nat, n < WORD, n % 16 = 0,
         NEW p \in DOMAIN P, NEW i \in 0 .. Len(P[p].free), Serves(P, n, p, i),
         Spot(P, p, i) \notin heads,
         NEW q \in 1 .. p, q \in DOMAIN pools, NEW h \in Listed(q)
  PROVE  chunk_size[h] # ChunkSize(n)
<1>1. /\ TypeOK /\ Placed(pools, chunk_size, deadzone)
      /\ Linked(pools, chunk_size, bitflags, deadzone)
      /\ TagsNameUsed(pools, chunk_size, deadzone)
  BY InvariantParts DEF UsedInv
<1>2. Built(P, n, p, i)
  BY <1>1, HeaderBuilt
<1>3. i = 0
  BY <1>2, Zenon DEF Built
<1>4. /\ DOMAIN P = 1 .. Len(P) /\ Len(P) \in Nat
      /\ q \in DOMAIN P /\ P[q] = pools[q]
  BY <1>1, GrownPools
<1>5. PICK j \in DOMAIN pools[q].free : h = pools[q].free[j]
  BY DEF Listed
<1>6. h \in heads /\ pools[q].offset # 0
  BY <1>1, <1>5 DEF Linked, NodesFree, ListsMatchTags, TagsNameUsed, heads
<1>7. n # 0 /\ Fits(P[p], n)
  BY DEF Serves, FirstFit, Fits
<1>8. ~FitsFree(P[q], n)
  <2>1. CASE q = p
    <3>1. ~Reuses(P[p], n)
      <4>1. ASSUME Reuses(P[p], n) PROVE FALSE
        <5>1. 0 \in DOMAIN P[p].free
          BY <4>1, <1>3 DEF Serves
        <5>2. P[p].free \in Seq(Nat \X Nat)
          BY <1>1, GrownPools
        <5> QED
          BY <5>1, <5>2
      <4> QED
        BY <4>1
    <3> QED
      BY <2>1, <3>1, <1>4, <1>6 DEF Reuses, FitsZero
  <2>2. CASE q # p
    <3>1. q \in 1 .. (p - 1)
      BY <2>2, <1>4
    <3>2. ~Fits(P[q], n)
      BY <3>1 DEF Serves, FirstFit
    <3> QED
      BY <3>2, <1>7 DEF Fits
  <2> QED
    BY <2>1, <2>2
<1> QED
  BY <1>4, <1>5, <1>8 DEF FitsFree, NodeHasEqualSize

\* A step that makes a header at fresh memory finds no free one that would do.
LEMMA StepFreshLast ==
  ASSUME HeapInv, FreeInv, UsedInv, HeapNext, Safe',
         NEW a \in heads' \ heads, NEW q \in 1 .. a[1], q \in DOMAIN pools,
         NEW h \in Listed(q)
  PROVE  chunk_size[h] # chunk_size'[a]
<1> DEFINE Made(b) == \E n, P, p, i :
             /\ n \in Nat /\ n < WORD /\ n % 16 = 0 /\ Grows(P)
             /\ p \in DOMAIN P /\ i \in 0 .. Len(P[p].free) /\ Serves(P, n, p, i)
             /\ chunk_size' = MadeSizes(P, n, p, i)
<1>1. ASSUME Safe, NEW b, Made(b) PROVE chunk_size[h] # chunk_size'[a]
  <2>1. PICK n, P, p, i :
          /\ n \in Nat /\ n < WORD /\ n % 16 = 0 /\ Grows(P)
          /\ p \in DOMAIN P /\ i \in 0 .. Len(P[p].free) /\ Serves(P, n, p, i)
          /\ chunk_size' = MadeSizes(P, n, p, i)
    BY <1>1
  <2>2. Built(P, n, p, i)
    BY <1>1, <2>1, InvariantParts, HeaderBuilt
  <2>3. /\ DOMAIN chunk_size' = heads \cup {Spot(P, p, i)}
        /\ chunk_size'[Spot(P, p, i)] = ChunkSize(n)
        /\ i = 0 => Spot(P, p, i) = <<p, P[p].offset>>
        /\ i # 0 => Spot(P, p, i) \in heads
    BY <2>1, <2>2, Zenon DEF Built
  <2>4. a = Spot(P, p, i) /\ a[1] = p
    BY <2>3 DEF heads
  <2> QED
    BY <1>1, <2>1, <2>3, <2>4, FreshLast
<1>2. ASSUME NEW size \in Requests, NEW b, HeapAlloc(size, b) PROVE Made(b) /\ Safe
  <2>1. PICK n, P, p, i, wild : n \in Nat /\ Allocated(b, n, P, p, i, wild)
    BY <1>2, AllocMade
  <2> QED
    BY <1>2, <2>1 DEF Allocated, HeapAlloc, Alive, Safe
<1>3. ASSUME NEW c, NEW size \in ReallocRequests, NEW b, HeapRealloc(c, size, b)
      PROVE  Made(b) /\ Safe
  <2>1. PICK n, P, p, i, wild : n \in Nat /\ Reallocated(c, b, n, P, p, i, wild)
    BY <1>3, ReallocMade
  <2> QED
    BY <1>3, <2>1 DEF Reallocated, HeapRealloc, Alive, Safe
<1> HIDE DEF Made
<1>4. ASSUME heads' = heads \/ heads' = {} PROVE FALSE
  BY <1>4
<1>5. DOMAIN <<>> = {}
  OBVIOUS
<1>6. ASSUME \/ \E size, n : HeapGiveUp(size, n) \/ HeapMapFails(size, n)
             \/ \E b : HeapFree(b) \/ HeapFreeze(b) \/ HeapThaw(b)
             \/ HeapReset \/ HeapDestroy \/ PoolArrayFault \/ Stopped
      PROVE  FALSE
  BY <1>4, <1>5, <1>6 DEF HeapGiveUp, HeapMapFails, HeapFree, HeapFreeze, HeapThaw, HeapReset,
     HeapDestroy, NoHeaders, PoolArrayFault, Stopped, heapVars, heads
<1> QED
  BY <1>1, <1>2, <1>3, <1>6 DEF HeapNext

\* Fresh memory is the last resort, with syn_realloc and with stale callers.
THEOREM FreshComesLast == HeapSpec => FreshIsLastResort
<1>1. ASSUME HeapInv, FreeInv, UsedInv, [HeapNext]_heapVars
      PROVE  [\A a \in heads' \ heads : Safe' =>
                \A q \in 1 .. a[1] : q \in DOMAIN pools =>
                  \A f \in Listed(q) : chunk_size[f] # chunk_size'[a]]_heapVars
  BY <1>1, StepFreshLast
<1> QED
  BY <1>1, InvariantHolds, FreeInvariantHolds, UsedInvariantHolds, PTL
     DEF HeapSpec, FreshIsLastResort

-----------------------------------------------------------------------------
(***************************************************************************)
(* Without syn_realloc, the deadzone behind a header names the header's    *)
(* own pool, so a freed header goes on the list of that pool and every     *)
(* free header is on it.  syn_realloc breaks both: it copies the deadzone  *)
(* of the old block, and the old header joins no list.                     *)
(***************************************************************************)
\* L lists x.
Lists(L, x) == \E i \in DOMAIN L : L[i] = x

OwnTags(s, d) == \A a \in DOMAIN s : d[NextHead(s, a)].pool_ptr = a[1]

FreeListed(P, s, f) == \A a \in DOMAIN s : "FREE" \in f[a] => Lists(P[a[1]].free, a)

OwnInv == Safe =>
  OwnTags(chunk_size, deadzone) /\ FreeListed(pools, chunk_size, bitflags)

\* free_node_remove keeps every other node on the list.
LEMMA OtherNodesStay ==
  ASSUME NEW S, NEW s \in Seq(S), NEW i \in 1 .. Len(s), NEW k \in DOMAIN s, k # i
  PROVE  \E j \in DOMAIN Without(s, i) : Without(s, i)[j] = s[k]
<1>1. DOMAIN Without(s, i) = 1 .. (Len(s) - 1) /\ k \in 1 .. Len(s) /\ Len(s) \in Nat
  BY DEF Without
<1>2. \A j \in 1 .. (Len(s) - 1) : Without(s, i)[j] = IF j < i THEN s[j] ELSE s[j + 1]
  BY DEF Without
<1>3. CASE k < i
  <2>1. k \in DOMAIN Without(s, i) /\ Without(s, i)[k] = s[k]
    BY <1>1, <1>2, <1>3
  <2> QED
    BY <2>1
<1>4. CASE k > i
  <2>1. /\ k - 1 \in DOMAIN Without(s, i) /\ Without(s, i)[k - 1] = s[(k - 1) + 1]
        /\ (k - 1) + 1 = k
    BY <1>1, <1>2, <1>4
  <2> QED
    BY <2>1
<1> QED
  BY <1>1, <1>3, <1>4

\* The lists that create_header leaves: all nodes but the header.
LEMMA ListsKeepOthers ==
  ASSUME NEW P \in Seq(Pool), NEW n, NEW p \in DOMAIN P, NEW i \in 0 .. Len(P[p].free),
         NEW q \in DOMAIN P, NEW k \in DOMAIN P[q].free, P[q].free[k] # Spot(P, p, i)
  PROVE  Lists(MadePools(P, n, p, i)[q].free, P[q].free[k])
<1>1. P[p] \in Pool /\ P[q] \in Pool
  OBVIOUS
<1>2. P[p].free \in Seq(Nat \X Nat) /\ Len(P[p].free) \in Nat
  BY <1>1 DEF Pool
<1> DEFINE Q == MadePools(P, n, p, i)
<1>3. CASE i = 0
  <2> DEFINE N == [P[p] EXCEPT !.offset = P[p].offset + ChunkSize(n)]
  <2>1. Q = [P EXCEPT ![p] = N]
    BY <1>3 DEF MadePools
  <2>2. N.free = P[p].free
    BY <1>1 DEF Pool
  <2> HIDE DEF N, Q
  <2>3. Q[q].free = P[q].free
    BY <2>1, <2>2
  <2>4. \E j \in DOMAIN Q[q].free : Q[q].free[j] = P[q].free[k]
    BY <2>3
  <2> QED
    BY <2>4 DEF Q, Lists
<1>4. CASE i # 0
  <2> DEFINE N == [P[p] EXCEPT !.free = Without(P[p].free, i)]
  <2>1. Q = [P EXCEPT ![p] = N]
    BY <1>4 DEF MadePools
  <2>2. N.free = Without(P[p].free, i)
    BY <1>1 DEF Pool
  <2> HIDE DEF N, Q
  <2>3. Q[q].free = IF q = p THEN Without(P[p].free, i) ELSE P[q].free
    BY <2>1, <2>2
  <2>4. i \in 1 .. Len(P[p].free)
    BY <1>2, <1>4
  <2>5. q = p => k # i
    BY <1>4 DEF Spot
  <2>6. \E j \in DOMAIN Q[q].free : Q[q].free[j] = P[q].free[k]
    BY <1>2, <2>3, <2>4, <2>5, OtherNodesStay
  <2> QED
    BY <2>6 DEF Q, Lists
<1> QED
  BY <1>3, <1>4

\* The header that create_header leaves is allocated and neither free nor frozen.
LEMMA MadeBusy ==
  ASSUME TypeOK, NEW P, NEW n, NEW p, NEW i, NEW wild
  PROVE  LET b == Spot(P, p, i)
             f == MadeFlags(P, n, p, i, wild)
         IN  "FREE" \notin f[b] /\ "ALLOCATED" \in f[b] /\ "FROZEN" \notin f[b]
<1> DEFINE b == Spot(P, p, i)
           g == With(bitflags, b, CreatedFlags(P, n, p, i))
<1>1. DOMAIN g = heads \cup {b} /\ b \in DOMAIN g /\ g[b] = CreatedFlags(P, n, p, i)
  BY DEF With, TypeOK
<1>2. "FREE" \notin g[b] /\ "ALLOCATED" \in g[b] /\ "FROZEN" \notin g[b]
  BY <1>1 DEF CreatedFlags
<1>3. MadeFlags(P, n, p, i, wild) =
        UpdatedFlags(g, MadeSizes(P, n, p, i), MadePools(P, n, p, i), b, wild)
  BY DEF MadeFlags
<1> HIDE DEF b, g
<1>4. \A z \in UseFlags : z \in MadeFlags(P, n, p, i, wild)[b] <=> z \in g[b]
  BY <1>1, <1>3, UseFlagsStay
<1>5. "FREE" \notin MadeFlags(P, n, p, i, wild)[b] /\ "ALLOCATED" \in MadeFlags(P, n, p, i, wild)[b]
      /\ "FROZEN" \notin MadeFlags(P, n, p, i, wild)[b]
  BY <1>2, <1>4 DEF UseFlags
<1> QED
  BY <1>5 DEF b

\* A header made in safety is tagged with its own pool.
LEMMA MadeOwnTags ==
  ASSUME TypeOK, Placed(pools, chunk_size, deadzone),
         Linked(pools, chunk_size, bitflags, deadzone), OwnTags(chunk_size, deadzone),
         NEW P, Grows(P),
         NEW n \in Nat, n < WORD, n % 16 = 0, ChunkSize(n) >= n + 32,
         NEW p \in DOMAIN P, NEW i \in 0 .. Len(P[p].free), Serves(P, n, p, i)
  PROVE  OwnTags(MadeSizes(P, n, p, i), MadeTags(P, n, p, i)) /\ Spot(P, p, i)[1] = p
<1> DEFINE b == Spot(P, p, i)
           s == MadeSizes(P, n, p, i)
           d == MadeTags(P, n, p, i)
<1>1. Built(P, n, p, i) /\ TagsStay(P, n, p, i)
  BY HeaderBuilt, MadeTagsStay
<1>2. /\ IF i = 0 THEN b = <<p, P[p].offset>> /\ b \notin heads
                  ELSE b \in heads /\ chunk_size[b] = ChunkSize(n) /\ i \in DOMAIN P[p].free
      /\ DOMAIN s = heads \cup {b}
  BY <1>1, Zenon DEF Built
<1>3. /\ d[NextHead(s, b)] = [prev_chunk_size |-> ChunkSize(n), pool_ptr |-> p]
      /\ \A x \in heads : x # b => d[NextHead(s, x)] = deadzone[NextHead(chunk_size, x)]
  BY <1>1, Zenon DEF TagsStay
<1>4. Linked(P, chunk_size, bitflags, deadzone)
  BY GrownLists
<1>5. i # 0 => b = P[p].free[i]
  BY DEF Spot
<1> HIDE DEF b, s, d
<1>6. b[1] = p
  <2>1. CASE i = 0
    BY <2>1, <1>2
  <2>2. CASE i # 0
    <3>1. deadzone[NextHead(chunk_size, b)].pool_ptr = p
      BY <2>2, <1>2, <1>4, <1>5 DEF Linked, ListsMatchTags
    <3> QED
      BY <2>2, <3>1, <1>2 DEF OwnTags, heads
  <2> QED
    BY <2>1, <2>2
<1>7. OwnTags(s, d)
  <2> SUFFICES ASSUME NEW x \in DOMAIN s PROVE d[NextHead(s, x)].pool_ptr = x[1]
    BY DEF OwnTags
  <2>1. CASE x = b
    BY <2>1, <1>3, <1>6
  <2>2. CASE x # b
    BY <2>2, <1>2, <1>3 DEF OwnTags, heads
  <2> QED
    BY <2>1, <2>2
<1> QED
  BY <1>6, <1>7 DEF b, s, d

\* syn_alloc.
LEMMA AllocOwn ==
  ASSUME HeapInv, FreeInv, OwnInv, NEW size \in Requests, NEW a, HeapAlloc(size, a)
  PROVE  OwnInv'
<1>1. Safe
  BY DEF HeapAlloc, Alive, Safe
<1>2. PICK n, P, p, i, wild : n \in Nat /\ Allocated(a, n, P, p, i, wild)
  BY AllocMade
<1> DEFINE Q == MadePools(P, n, p, i)
           f == MadeFlags(P, n, p, i, wild)
<1>3. /\ n < WORD /\ n % 16 = 0 /\ Grows(P)
      /\ p \in DOMAIN P /\ i \in 0 .. Len(P[p].free) /\ Serves(P, n, p, i)
      /\ a = Spot(P, p, i)
      /\ pools' = Q /\ chunk_size' = MadeSizes(P, n, p, i)
      /\ deadzone' = MadeTags(P, n, p, i) /\ bitflags' = f
      /\ fate' = "ok" => ChunkSize(n) >= n + 32
  BY <1>2 DEF Allocated
<1>4. /\ TypeOK /\ Placed(pools, chunk_size, deadzone)
      /\ Linked(pools, chunk_size, bitflags, deadzone)
      /\ OwnTags(chunk_size, deadzone) /\ FreeListed(pools, chunk_size, bitflags)
  BY <1>1, InvariantParts DEF OwnInv
<1> SUFFICES ASSUME Safe'
             PROVE  OwnTags(chunk_size', deadzone') /\ FreeListed(pools', chunk_size', bitflags')
  BY DEF OwnInv
<1>5. ChunkSize(n) >= n + 32
  BY <1>3 DEF Safe
<1>6. OwnTags(chunk_size', deadzone')
  BY <1>2, <1>3, <1>4, <1>5, MadeOwnTags
<1>7. /\ P \in Seq(Pool)
      /\ \A q \in DOMAIN pools : q \in DOMAIN P /\ P[q] = pools[q]
      /\ \A x \in heads : x[1] \in DOMAIN pools
  BY <1>3, <1>4, GrownPools
<1>8. /\ DOMAIN chunk_size' = heads \cup {a}
      /\ \A x \in heads : x # a => \A z \in UseFlags : z \in f[x] <=> z \in bitflags[x]
  <2>1. Taken(P, n, p, i, wild)
    BY <1>2, <1>3, <1>4, HeaderTaken
  <2> QED
    BY <1>3, <2>1, Zenon DEF Taken
<1>9. "FREE" \notin f[a]
  BY <1>3, <1>4, MadeBusy
<1>10. ASSUME NEW x \in DOMAIN chunk_size', "FREE" \in bitflags'[x]
       PROVE  \E j \in DOMAIN pools'[x[1]].free : pools'[x[1]].free[j] = x
  <2>1. bitflags' = f
    BY <1>3
  <2> HIDE DEF f
  <2>2. x # a /\ x \in heads
    BY <1>8, <1>9, <1>10, <2>1
  <2>3. "FREE" \in bitflags[x]
    BY <1>8, <1>10, <2>1, <2>2 DEF UseFlags
  <2>4. PICK k \in DOMAIN pools[x[1]].free : pools[x[1]].free[k] = x
    BY <1>4, <2>2, <2>3 DEF FreeListed, Lists, heads
  <2> DEFINE q == x[1]
  <2>5. q \in DOMAIN P /\ k \in DOMAIN P[q].free /\ P[q].free[k] = x
    BY <1>7, <2>2, <2>4
  <2>6. P[q].free[k] # Spot(P, p, i)
    BY <1>3, <2>2, <2>5
  <2> HIDE DEF q
  <2>7. \E j \in DOMAIN Q[q].free : Q[q].free[j] = P[q].free[k]
    <3> HIDE DEF Q
    <3>1. p \in DOMAIN P /\ i \in 0 .. Len(P[p].free)
      BY <1>3
    <3>2. Lists(MadePools(P, n, p, i)[q].free, P[q].free[k])
      BY <1>7, <2>5, <2>6, <3>1, ListsKeepOthers
    <3> QED
      BY <3>2 DEF Q, Lists
  <2> HIDE DEF Q
  <2>8. \E j \in DOMAIN pools'[q].free : pools'[q].free[j] = x
    BY <1>3, <2>5, <2>7
  <2> QED
    BY <2>8 DEF q
<1>11. FreeListed(pools', chunk_size', bitflags')
  BY <1>10 DEF FreeListed, Lists
<1> QED
  BY <1>6, <1>11

\* syn_free: the header joins the list of its own pool.
LEMMA FreeOwn ==
  ASSUME HeapInv, FreeInv, OwnInv, NEW a, HeapFree(a)
  PROVE  OwnInv'
<1> DEFINE p == ReturnPool(a)
           g == [bitflags EXCEPT ![a] = Freed(@)]
           N == [pools[p] EXCEPT !.free = Append(pools[p].free, a)]
<1>1. /\ TypeOK /\ Placed(pools, chunk_size, deadzone)
      /\ OwnTags(chunk_size, deadzone) /\ FreeListed(pools, chunk_size, bitflags)
      /\ a \in heads /\ UNCHANGED <<chunk_size, deadzone>>
  BY InvariantParts DEF HeapFree, OwnInv, Safe, Unfrozen
<1> SUFFICES ASSUME Safe'
             PROVE  OwnTags(chunk_size', deadzone') /\ FreeListed(pools', chunk_size', bitflags')
  BY DEF OwnInv
<1>2. /\ pools' = [pools EXCEPT ![p] = N]
      /\ \E wild \in Wild : bitflags' = UpdatedFlags(g, chunk_size, pools, a, wild)
  BY DEF HeapFree, Safe
<1>3. PICK wild \in Wild : bitflags' = UpdatedFlags(g, chunk_size, pools, a, wild)
  BY <1>2
<1>4. p \in DOMAIN pools /\ p = a[1]
  BY <1>1, ReturnedPool DEF OwnTags, ReturnPool, Behind, NextHead, heads
<1>5. DOMAIN g = heads /\ \A x \in heads : x # a => g[x] = bitflags[x]
  BY <1>1 DEF TypeOK
<1> HIDE DEF g
<1>6. \A x \in heads : "FREE" \in bitflags'[x] <=> "FREE" \in g[x]
  BY <1>1, <1>3, <1>5, UseFlagsStay DEF UseFlags
<1>7. pools[p] \in Pool
  BY <1>1, <1>4 DEF TypeOK
<1>8. pools[p].free \in Seq(Nat \X Nat) /\ N.free = Append(pools[p].free, a)
  <2> HIDE DEF p
  <2> QED BY <1>7 DEF Pool
<1> HIDE DEF N, p
<1>9. /\ DOMAIN pools' = DOMAIN pools
      /\ \A q \in DOMAIN pools :
           pools'[q].free = IF q = p THEN Append(pools[p].free, a) ELSE pools[q].free
  BY <1>2, <1>8
<1>10. ASSUME NEW x \in heads, "FREE" \in bitflags'[x]
       PROVE  \E j \in DOMAIN pools'[x[1]].free : pools'[x[1]].free[j] = x
  <2> DEFINE L == pools[p].free
  <2>1. L \in Seq(Nat \X Nat) /\ Len(L) \in Nat /\ DOMAIN L = 1 .. Len(L)
    BY <1>8
  <2> HIDE DEF L
  <2>2. /\ Append(L, a)[Len(L) + 1] = a /\ Len(L) + 1 \in DOMAIN Append(L, a)
        /\ \A k \in DOMAIN L : k \in DOMAIN Append(L, a) /\ Append(L, a)[k] = L[k]
    BY <2>1
  <2>3. CASE x = a
    <3>1. pools'[a[1]].free = Append(L, a)
      BY <1>4, <1>9 DEF L
    <3> QED
      BY <2>2, <2>3, <3>1
  <2>4. CASE x # a
    <3>1. "FREE" \in bitflags[x] /\ x[1] \in DOMAIN pools
      BY <2>4, <1>1, <1>5, <1>6, <1>10 DEF TypeOK, Addresses
    <3>2. PICK k \in DOMAIN pools[x[1]].free : pools[x[1]].free[k] = x
      BY <3>1, <1>1 DEF FreeListed, Lists, heads
    <3>3. CASE x[1] = p
      <4>1. k \in DOMAIN L /\ L[k] = x /\ pools'[x[1]].free = Append(L, a)
        BY <3>1, <3>2, <3>3, <1>9 DEF L
      <4> QED
        BY <4>1, <2>2
    <3>4. CASE x[1] # p
      BY <3>1, <3>2, <3>4, <1>9
    <3> QED
      BY <3>3, <3>4
  <2> QED
    BY <2>3, <2>4
<1> QED
  BY <1>1, <1>10 DEF FreeListed, Lists, heads

\* The other actions keep what the deadzones and the lists say, or drop all headers.
LEMMA OthersOwn ==
  ASSUME HeapInv, OwnInv,
         \/ \E a : HeapFreeze(a) \/ HeapThaw(a)
         \/ \E size, n : HeapGiveUp(size, n) \/ HeapMapFails(size, n)
         \/ HeapReset \/ HeapDestroy \/ PoolArrayFault \/ UNCHANGED heapVars
  PROVE  OwnInv'
<1> SUFFICES ASSUME Safe'
             PROVE  OwnTags(chunk_size', deadzone') /\ FreeListed(pools', chunk_size', bitflags')
  BY DEF OwnInv
<1>t. TypeOK
  BY DEF HeapInv
<1>1. CASE \E a : HeapFreeze(a) \/ HeapThaw(a)
  <2>1. PICK a : HeapFreeze(a) \/ HeapThaw(a)
    BY <1>1
  <2>2. /\ Safe /\ a \in DOMAIN bitflags /\ UNCHANGED <<pools, chunk_size, deadzone>>
        /\ \/ bitflags' = [bitflags EXCEPT ![a] = @ \cup {"FROZEN"}]
           \/ bitflags' = [bitflags EXCEPT ![a] = @ \ {"FROZEN"}]
    BY <1>t, <2>1 DEF HeapFreeze, HeapThaw, Unfrozen, Safe, TypeOK
  <2>3. \A x \in DOMAIN bitflags : "FREE" \in bitflags'[x] => "FREE" \in bitflags[x]
    BY <2>2
  <2> QED
    BY <1>t, <2>2, <2>3 DEF OwnInv, FreeListed, TypeOK, heads
<1>2. CASE \E size, n : HeapGiveUp(size, n)
  <2>1. PICK size, n : HeapGiveUp(size, n)
    BY <1>2
  <2> DEFINE P == Supply(size, n)
  <2>2. Safe /\ pools' = P /\ UNCHANGED <<chunk_size, deadzone, bitflags>>
    BY <2>1 DEF HeapGiveUp, Alive, Safe
  <2>3. Grows(P)
    BY <1>t, SupplyGrows
  <2> HIDE DEF P
  <2>4. \A a \in heads : P[a[1]] = pools[a[1]]
    BY <1>t, <2>3, GrownPools
  <2> QED
    BY <2>2, <2>4 DEF OwnInv, FreeListed, heads
<1>3. CASE (\E size, n : HeapMapFails(size, n)) \/ PoolArrayFault
  BY <1>3 DEF HeapMapFails, PoolArrayFault, Safe
<1>4. CASE HeapReset \/ HeapDestroy
  <2>1. DOMAIN <<>> = {}
    OBVIOUS
  <2> QED
    BY <1>4, <2>1 DEF HeapReset, HeapDestroy, NoHeaders, OwnTags, FreeListed
<1>5. CASE UNCHANGED heapVars
  BY <1>5 DEF heapVars, OwnInv, Safe
<1> QED
  BY <1>1, <1>2, <1>3, <1>4, <1>5

\* The invariant is inductive for callers that do not reallocate.
LEMMA NextOwn ==
  ASSUME ReallocRequests = {}, HeapInv, FreeInv, OwnInv, [HeapNext]_heapVars
  PROVE  OwnInv'
<1>1. ASSUME NEW size \in Requests, NEW a \in Targets, HeapAlloc(size, a) PROVE OwnInv'
  BY <1>1, AllocOwn
<1>2. ASSUME NEW size, NEW n, HeapGiveUp(size, n) \/ HeapMapFails(size, n) PROVE OwnInv'
  BY <1>2, OthersOwn
<1>3. ASSUME NEW a \in Passed, HeapFree(a) PROVE OwnInv'
  BY <1>3, FreeOwn
<1>4. ASSUME NEW a \in Passed, HeapFreeze(a) \/ HeapThaw(a) PROVE OwnInv'
  BY <1>4, OthersOwn
<1>5. ASSUME HeapReset \/ HeapDestroy \/ PoolArrayFault \/ Stopped \/ UNCHANGED heapVars
      PROVE  OwnInv'
  BY <1>5, OthersOwn DEF Stopped
<1> QED
  BY <1>1, <1>2, <1>3, <1>4, <1>5 DEF HeapNext

\* No header is there before the first call.
LEMMA InitOwn == HeapInit => OwnInv
<1>1. DOMAIN <<>> = {}
  OBVIOUS
<1> QED
  BY <1>1 DEF HeapInit, OwnInv, OwnTags, FreeListed

\* Without syn_realloc the invariant holds in every state of the arena's memory.
THEOREM OwnInvariantHolds == ASSUME ReallocRequests = {} PROVE HeapSpec => []OwnInv
<1>1. HeapInv /\ FreeInv /\ OwnInv /\ [HeapNext]_heapVars => OwnInv'
  BY NextOwn
<1> QED
  BY <1>1, InitOwn, InvariantHolds, FreeInvariantHolds, PTL DEF HeapSpec

\* A free returns memory to the pool it came from.
THEOREM TagsOwnHolds == ASSUME ReallocRequests = {} PROVE HeapSpec => []TagsNameOwnPool
<1>1. OwnInv => TagsNameOwnPool
  BY DEF OwnInv, TagsNameOwnPool, OwnTags, ReturnPool, Behind, NextHead, heads
<1> QED
  BY <1>1, OwnInvariantHolds, PTL

\* No free block is lost: every freed header is on the list of its pool, also with
\* callers that free what they have freed.
THEOREM FreeListsAreComplete == ASSUME ReallocRequests = {} PROVE HeapSpec => []FreeListsComplete
<1>1. OwnInv => FreeListsComplete
  BY DEF OwnInv, FreeListsComplete, FreeListed, Lists, Listed, heads
<1> QED
  BY <1>1, OwnInvariantHolds, PTL
=============================================================================
