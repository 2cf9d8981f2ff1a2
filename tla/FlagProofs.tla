----------------------------- MODULE FlagProofs -----------------------------
(***************************************************************************)
(* Theorems about the flags of the headers, for callers that do not use    *)
(* syn_realloc and all other values of the constants: which header ends a  *)
(* pool, which neighbours of free headers are marked, and what a walk over *)
(* the neighbours can run into.                                            *)
(***************************************************************************)
EXTENDS ChunkProofs

-----------------------------------------------------------------------------
(***************************************************************************)
(* The invariant.  NeighboursMarked is not inductive alone: the walk of    *)
(* update_sentinel_and_free_flags steps back from a header only if it is   *)
(* not marked FIRST_HEAD, takes F_SENTINEL from the header in front, and   *)
(* steps forward only if it is not F_SENTINEL itself.  So the first header *)
(* of a pool, and no other, has to be marked FIRST_HEAD, and a SENTINEL    *)
(* header has to lie at the end of a pool that is used up.                 *)
(***************************************************************************)
FirstMarked(f) == \A x \in DOMAIN f : "FIRST_HEAD" \in f[x] <=> x[2] = 0

LastMarked(P, s, f) == \A x \in DOMAIN s : "SENTINEL" \in f[x] =>
  NextHead(s, x)[2] = P[x[1]].offset /\ Full(P[x[1]])

\* Header x and the header y behind it are marked if the other one is free.
PairMarked(f, x, y) == "SENTINEL" \notin f[y] =>
  /\ "FREE" \in f[x] => "PREV_FREE" \in f[y]
  /\ "FREE" \in f[y] => "NEXT_FREE" \in f[x]

PairsMarked(s, f, W) == \A x \in DOMAIN s :
  /\ NextHead(s, x) \in DOMAIN s /\ s[x] < CHUNK_OVERFLOW
  /\ x \notin W /\ NextHead(s, x) \notin W
  => PairMarked(f, x, NextHead(s, x))

Flagged(P, s, f) ==
  FirstMarked(f) /\ LastMarked(P, s, f) /\ PairsMarked(s, f, {})

FlagInv == Safe => Flagged(pools, chunk_size, bitflags)

\* The invariant contains what the runs check as NeighboursMarked and SentinelEndsPool.
LEMMA FlaggedIsMarked == FlagInv => NeighboursMarked /\ SentinelEndsPool
<1> SUFFICES ASSUME Flagged(pools, chunk_size, bitflags)
             PROVE  NeighboursMarked /\ SentinelEndsPool
  BY DEF FlagInv, NeighboursMarked, SentinelEndsPool
<1>1. \A a \in heads : Behind(a) = NextHead(chunk_size, a)
  BY DEF Behind, NextHead
<1> QED
  BY <1>1 DEF Flagged, LastMarked, PairsMarked, PairMarked, NeighboursMarked,
     SentinelEndsPool, heads

-----------------------------------------------------------------------------
(***************************************************************************)
(* The walk over the neighbours of header a, from flags f to flags h.      *)
(***************************************************************************)
Marks == {"PREV_FREE", "NEXT_FREE"}

\* Flags are added, and only those that mark a neighbour.
OnlyMarks(f, h) ==
  /\ DOMAIN h = DOMAIN f
  /\ \A x \in DOMAIN f : f[x] \subseteq h[x] /\ h[x] \subseteq f[x] \cup Marks

Walked(f, s, a, h) ==
  /\ OnlyMarks(f, h)
  /\ HasPrev(f, a) =>
       /\ "FREE" \in f[a] => "NEXT_FREE" \in h[PrevHead(a)]
       /\ "FREE" \in f[PrevHead(a)] => "PREV_FREE" \in h[a]
  /\ LooksNext(f, s, a) /\ NextHead(s, a) \in DOMAIN s /\ "SENTINEL" \notin f[NextHead(s, a)] =>
       /\ "FREE" \in f[NextHead(s, a)] => "NEXT_FREE" \in h[a]
       /\ "FREE" \in f[a] => "PREV_FREE" \in h[NextHead(s, a)]

\* What a walk does whose backward step meets no SENTINEL header.
LEMMA WalkMarks ==
  ASSUME NEW s, NEW f, DOMAIN f = DOMAIN s, NEW P, NEW a \in DOMAIN s, NEW wild,
         NextHead(s, a) # a,
         HasPrev(f, a) =>
           PrevHead(a) \in DOMAIN s /\ PrevHead(a) # a /\ "SENTINEL" \notin f[PrevHead(a)]
  PROVE  Walked(f, s, a, UpdatedFlags(f, s, P, a, wild))
<1> DEFINE g == PrevMarked(f, a)
           h == UpdatedFlags(f, s, P, a, wild)
           q == PrevHead(a)
           r == NextHead(s, a)
<1>1. /\ OnlyMarks(f, g)
      /\ HasPrev(f, a) => /\ "FREE" \in f[a] => "NEXT_FREE" \in g[q]
                          /\ "FREE" \in f[q] => "PREV_FREE" \in g[a]
  <2>1. CASE HasPrev(f, a)
    <3> HIDE DEF q
    <3>1. g = MarkPrev(f, a, q) /\ q \in DOMAIN f /\ a \in DOMAIN f /\ q # a
      BY <2>1 DEF PrevMarked, q
    <3>2. /\ DOMAIN g = DOMAIN f
          /\ g[q] = f[q] \cup (IF "FREE" \in f[a] THEN {"NEXT_FREE"} ELSE {})
          /\ g[a] = f[a] \cup (IF "FREE" \in f[q] THEN {"PREV_FREE"} ELSE {})
          /\ \A x \in DOMAIN f : x # q /\ x # a => g[x] = f[x]
      <4>1. f[q] \ {"SENTINEL"} = f[q] /\ f[q] \cap {"SENTINEL"} = {}
        BY <2>1 DEF q
      <4>2. MarkPrev(f, a, q) =
              [f EXCEPT ![q] = f[q] \cup (IF "FREE" \in f[a] THEN {"NEXT_FREE"} ELSE {}),
                        ![a] = f[a] \cup {} \cup (IF "FREE" \in f[q] THEN {"PREV_FREE"} ELSE {})]
        BY <3>1, <4>1 DEF MarkPrev
      <4> HIDE DEF g
      <4> QED
        BY <3>1, <4>2
    <3> HIDE DEF g
    <3> QED
      BY <3>2 DEF OnlyMarks, Marks
  <2>2. CASE ~HasPrev(f, a)
    BY <2>2 DEF PrevMarked, OnlyMarks
  <2> QED
    BY <2>1, <2>2
<1>2. ASSUME NEW w, OnlyMarks(f, w), NEW v, OnlyMarks(w, v) PROVE OnlyMarks(f, v)
  BY <1>2 DEF OnlyMarks
<1>3. /\ OnlyMarks(g, h)
      /\ LooksNext(g, s, a) /\ r \in DOMAIN s /\ "SENTINEL" \notin g[r] =>
           /\ "FREE" \in g[r] => "NEXT_FREE" \in h[a]
           /\ "FREE" \in g[a] => "PREV_FREE" \in h[r]
  <2>d. DOMAIN g = DOMAIN s
    BY <1>1 DEF OnlyMarks
  <2>1. CASE LooksNext(g, s, a) /\ r \in DOMAIN s /\ "SENTINEL" \notin g[r]
    <3>1. h = MarkNext(g, a, r)
      BY <2>1 DEF UpdatedFlags, BeyondPool
    <3> HIDE DEF g, h, r
    <3>2. r # a
      BY DEF r
    <3> QED
      BY <2>d, <2>1, <3>1, <3>2 DEF MarkNext, OnlyMarks, Marks
  <2>2. CASE ~(LooksNext(g, s, a) /\ r \in DOMAIN s /\ "SENTINEL" \notin g[r])
    <3>1. h = g \/ h = [g EXCEPT ![a] = @ \cup {"NEXT_FREE"}]
      BY <2>2 DEF UpdatedFlags
    <3> HIDE DEF g, h, r
    <3> QED
      BY <2>d, <2>2, <3>1 DEF OnlyMarks, Marks
  <2> QED
    BY <2>1, <2>2
<1>4. OnlyMarks(f, h)
  BY <1>1, <1>2, <1>3
<1> HIDE DEF g, h, q, r
<1>5. HasPrev(f, a) => /\ "FREE" \in f[a] => "NEXT_FREE" \in h[q]
                       /\ "FREE" \in f[q] => "PREV_FREE" \in h[a]
  <2>1. HasPrev(f, a) => q \in DOMAIN g /\ a \in DOMAIN g
    BY <1>1 DEF q, OnlyMarks
  <2> QED
    BY <1>1, <1>3, <2>1 DEF OnlyMarks
<1>6. LooksNext(f, s, a) /\ r \in DOMAIN s /\ "SENTINEL" \notin f[r] =>
        /\ "FREE" \in f[r] => "NEXT_FREE" \in h[a]
        /\ "FREE" \in f[a] => "PREV_FREE" \in h[r]
  <2> SUFFICES ASSUME LooksNext(f, s, a), r \in DOMAIN s, "SENTINEL" \notin f[r]
               PROVE  /\ "FREE" \in f[r] => "NEXT_FREE" \in h[a]
                      /\ "FREE" \in f[a] => "PREV_FREE" \in h[r]
    OBVIOUS
  <2>1. \A x \in DOMAIN s : f[x] \subseteq g[x] /\ ("SENTINEL" \in g[x] => "SENTINEL" \in f[x])
    BY <1>1 DEF OnlyMarks, Marks
  <2>2. LooksNext(g, s, a) /\ "SENTINEL" \notin g[r]
    BY <2>1 DEF LooksNext
  <2> QED
    BY <1>3, <2>1, <2>2
<1>7. Walked(f, s, a, h)
  BY <1>4, <1>5, <1>6 DEF Walked, q, r
<1> QED
  BY <1>7 DEF h

\* The walk from a header leaves all flags right if those of the other pairs were.
LEMMA WalkFlagged ==
  ASSUME NEW N, NEW s, DOMAIN s \subseteq (1 .. N) \X Nat, \A x \in DOMAIN s : s[x] \in Nat,
         ChunksApart(s), SizesPositive(s),
         NEW R, \A p \in 1 .. N : R[p].offset \in Nat, ChunksInside(R, s),
         NEW f, DOMAIN f = DOMAIN s, NEW P, NEW a \in DOMAIN s, NEW wild,
         a[2] # 0 => Reached(s, deadzone, a),
         FirstMarked(f), LastMarked(R, s, f), PairsMarked(s, f, {a})
  PROVE  Flagged(R, s, UpdatedFlags(f, s, P, a, wild))
<1> DEFINE h == UpdatedFlags(f, s, P, a, wild)
           q == PrevHead(a)
<1>1. \A x \in DOMAIN s :
        /\ x = <<x[1], x[2]>> /\ x[1] \in 1 .. N /\ x[2] \in Nat
        /\ s[x] \in Nat /\ s[x] > 0 /\ R[x[1]].offset \in Nat
        /\ NextHead(s, x) = <<x[1], x[2] + s[x]>> /\ NextHead(s, x) # x
  BY DEF SizesPositive, NextHead
<1>2. ASSUME NEW x \in DOMAIN s, NextHead(s, x) \in DOMAIN s PROVE "SENTINEL" \notin f[x]
  <2> DEFINE y == NextHead(s, x)
  <2>1. y[1] = x[1] /\ y[2] = x[2] + s[x] /\ y \in DOMAIN s
    BY <1>1, <1>2
  <2>2. y[2] + s[y] <= R[x[1]].offset /\ s[y] > 0 /\ y[2] \in Nat /\ s[y] \in Nat
    BY <1>1, <2>1 DEF ChunksInside
  <2> HIDE DEF y
  <2>3. y[2] # R[x[1]].offset
    BY <1>1, <2>2
  <2> QED
    BY <2>3 DEF LastMarked, y
<1>3. a[2] # 0 => /\ q \in DOMAIN s /\ NextHead(s, q) = a /\ s[q] = deadzone[a].prev_chunk_size
                  /\ a \in DOMAIN deadzone /\ q # a /\ "SENTINEL" \notin f[q]
  <2> SUFFICES ASSUME a[2] # 0
               PROVE  /\ q \in DOMAIN s /\ NextHead(s, q) = a
                      /\ s[q] = deadzone[a].prev_chunk_size
                      /\ a \in DOMAIN deadzone /\ q # a /\ "SENTINEL" \notin f[q]
    OBVIOUS
  <2>1. /\ q \in DOMAIN s /\ s[q] = deadzone[a].prev_chunk_size /\ a \in DOMAIN deadzone
        /\ q = <<a[1], a[2] - deadzone[a].prev_chunk_size>>
    BY DEF Reached, Front, PrevHead
  <2> HIDE DEF q
  <2>2. q[1] = a[1] /\ q[2] = a[2] - s[q] /\ s[q] \in Nat /\ s[q] > 0
    BY <1>1, <2>1
  <2>3. NextHead(s, q) = a /\ q # a
    BY <1>1, <2>1, <2>2
  <2> QED
    BY <1>2, <2>1, <2>3
<1>4. HasPrev(f, a) => a[2] # 0
  BY DEF HasPrev, FirstMarked
<1>5. Walked(f, s, a, h)
  <2> HIDE DEF h
  <2>1. Walked(f, s, a, UpdatedFlags(f, s, P, a, wild))
    <3>1. NextHead(s, a) # a
      BY <1>1
    <3>2. HasPrev(f, a) =>
            PrevHead(a) \in DOMAIN s /\ PrevHead(a) # a /\ "SENTINEL" \notin f[PrevHead(a)]
      BY <1>3, <1>4
    <3> HIDE DEF q
    <3> QED
      BY <3>1, <3>2, WalkMarks
  <2> QED
    BY <2>1 DEF h
<1> HIDE DEF h
<1>6. /\ DOMAIN h = DOMAIN s
      /\ \A x \in DOMAIN s :
           /\ f[x] \subseteq h[x]
           /\ "FIRST_HEAD" \in h[x] <=> "FIRST_HEAD" \in f[x]
           /\ "SENTINEL" \in h[x] <=> "SENTINEL" \in f[x]
           /\ "FREE" \in h[x] <=> "FREE" \in f[x]
  BY <1>5 DEF Walked, OnlyMarks, Marks
<1>7. FirstMarked(h) /\ LastMarked(R, s, h)
  BY <1>6 DEF FirstMarked, LastMarked
<1>8. ASSUME NEW x \in DOMAIN s, NextHead(s, x) \in DOMAIN s, s[x] < CHUNK_OVERFLOW
      PROVE  PairMarked(h, x, NextHead(s, x))
  <2> DEFINE y == NextHead(s, x)
  <2>1. CASE x = a
    <3>1. LooksNext(f, s, a)
      BY <1>1, <1>2, <1>8, <2>1, RequestsAssumption DEF LooksNext
    <3> QED
      BY <1>5, <1>6, <1>8, <2>1, <3>1 DEF PairMarked, Walked
  <2>2. CASE y = a
    <3>1. a[2] # 0
      BY <1>1, <2>2
    <3>2. x = q
      BY <1>3, <2>2, <3>1, EndsDiffer
    <3>3. HasPrev(f, a)
      BY <1>3, <1>8, <3>1, <3>2 DEF HasPrev, FirstMarked
    <3> QED
      BY <1>5, <1>6, <1>8, <2>2, <3>2, <3>3 DEF PairMarked, Walked
  <2>3. CASE x # a /\ y # a
    <3>1. PairMarked(f, x, y)
      BY <1>8, <2>3 DEF PairsMarked
    <3> QED
      BY <1>6, <1>8, <3>1 DEF PairMarked
  <2> QED
    BY <2>1, <2>2, <2>3
<1>9. PairsMarked(s, h, {})
  BY <1>8 DEF PairsMarked
<1>10. Flagged(R, s, h)
  BY <1>7, <1>9 DEF Flagged
<1> QED
  BY <1>10 DEF h

-----------------------------------------------------------------------------
(***************************************************************************)
(* Every action keeps the flags right.                                     *)
(***************************************************************************)

\* Two lists of pools with the same bytes in use.
LEMMA SameOffsetsFlagged ==
  ASSUME NEW P, NEW Q, NEW s, NEW f, Flagged(P, s, f),
         \A x \in DOMAIN s : Q[x[1]].offset = P[x[1]].offset /\ Q[x[1]].size = P[x[1]].size
  PROVE  Flagged(Q, s, f)
  BY DEF Flagged, LastMarked, Full

\* The flags that create_header starts with are right, except for the neighbours of
\* the header: it has room in its pool, so no SENTINEL header is there yet.
LEMMA CreatedRight ==
  ASSUME HeapInv, FreeInv, OwnInv, Safe, Flagged(pools, chunk_size, bitflags),
         NEW P, Grows(P),
         NEW n \in Nat, n < WORD, n % 16 = 0, ChunkSize(n) >= n + 32,
         NEW p \in DOMAIN P, NEW i \in 0 .. Len(P[p].free), Serves(P, n, p, i)
  PROVE  LET b == Spot(P, p, i)
             f == With(bitflags, b, CreatedFlags(P, n, p, i))
             s == MadeSizes(P, n, p, i)
         IN  /\ FirstMarked(f) /\ LastMarked(MadePools(P, n, p, i), s, f)
             /\ PairsMarked(s, f, {b}) /\ DOMAIN f = DOMAIN s
<1> DEFINE b == Spot(P, p, i)
           f == With(bitflags, b, CreatedFlags(P, n, p, i))
           s == MadeSizes(P, n, p, i)
           Q == MadePools(P, n, p, i)
           c == ChunkSize(n)
<1>1. /\ TypeOK /\ Placed(pools, chunk_size, deadzone)
      /\ Linked(pools, chunk_size, bitflags, deadzone) /\ OwnTags(chunk_size, deadzone)
  BY InvariantParts DEF OwnInv
<1>2. Built(P, n, p, i) /\ b[1] = p
  BY <1>1, HeaderBuilt, MadeOwnTags
<1>3. /\ b = <<b[1], b[2]>> /\ b[2] \in Nat
      /\ IF i = 0 THEN b = <<p, P[p].offset>> /\ b \notin heads
                  ELSE b \in heads /\ chunk_size[b] = c /\ i \in DOMAIN P[p].free
      /\ DOMAIN s = heads \cup {b} /\ s[b] = c
      /\ \A x \in heads : s[x] = chunk_size[x]
      /\ Advanced(P, Q, p, i, c)
  BY <1>2, Zenon DEF Built
<1>4. /\ P \in Seq(Pool) /\ P[p] \in Pool /\ P[p].size \in Nat /\ P[p].offset \in Nat
      /\ \A x \in heads : x[1] \in DOMAIN P /\ P[x[1]] = pools[x[1]]
  BY <1>1, GrownPools
<1>5. c \in Nat /\ SpaceNeeded(n) = n + 32
  BY ChunkExact
<1>6. i = 0 => ~Full(P[p])
  <2>1. i = 0 => HasSpace(P[p], n)
    BY <1>4, ServedSpot
  <2> QED
    BY <1>4, <1>5, <2>1 DEF HasSpace, Full, STRUCT_SIZE_HEADER
<1>7. /\ DOMAIN f = heads \cup {b}
      /\ f[b] = CreatedFlags(P, n, p, i)
      /\ \A x \in heads : x # b => f[x] = bitflags[x]
  BY <1>1 DEF With, TypeOK
<1>8. /\ "FIRST_HEAD" \in CreatedFlags(P, n, p, i) <=> b = <<p, 0>>
      /\ "SENTINEL" \in CreatedFlags(P, n, p, i) <=>
           i = 0 /\ P[p].offset + c + STRUCT_SIZE_HEADER > P[p].size
  BY DEF CreatedFlags
<1> HIDE DEF b, f, s, Q, c
<1>9. \A x \in heads : NextHead(s, x) = NextHead(chunk_size, x)
  BY <1>3 DEF NextHead
<1>10. DOMAIN bitflags = heads
  BY <1>1 DEF TypeOK
<1>11. FirstMarked(f)
  <2> SUFFICES ASSUME NEW x \in heads \cup {b} PROVE "FIRST_HEAD" \in f[x] <=> x[2] = 0
    BY <1>7 DEF FirstMarked
  <2>1. CASE x = b
    BY <2>1, <1>2, <1>3, <1>7, <1>8
  <2>2. CASE x # b
    BY <2>2, <1>7, <1>10 DEF Flagged, FirstMarked
  <2> QED
    BY <2>1, <2>2
<1>12. LastMarked(Q, s, f)
  <2> SUFFICES ASSUME NEW x \in heads \cup {b}, "SENTINEL" \in f[x]
               PROVE  NextHead(s, x)[2] = Q[x[1]].offset /\ Full(Q[x[1]])
    BY <1>3 DEF LastMarked
  <2>1. CASE x = b
    <3>1. i = 0 /\ P[p].offset + c + STRUCT_SIZE_HEADER > P[p].size
      BY <2>1, <1>7, <1>8
    <3>2. b[2] = P[p].offset /\ Q[p].offset = P[p].offset + c /\ Q[p].size = P[p].size
      BY <3>1, <1>3 DEF Advanced
    <3> QED
      BY <2>1, <3>1, <3>2, <1>2, <1>3 DEF NextHead, Full
  <2>2. CASE x # b
    <3> DEFINE r == x[1]
    <3>1. x \in heads /\ "SENTINEL" \in bitflags[x]
      BY <2>2, <1>7
    <3>2. /\ NextHead(s, x)[2] = P[r].offset /\ Full(P[r]) /\ r \in DOMAIN P
      BY <3>1, <1>4, <1>9 DEF Flagged, LastMarked, heads
    <3> HIDE DEF r
    <3>3. Q[r].offset = P[r].offset /\ Q[r].size = P[r].size
      BY <3>2, <1>3, <1>6 DEF Advanced
    <3>4. NextHead(s, x)[2] = Q[r].offset /\ Full(Q[r])
      BY <3>2, <3>3 DEF Full
    <3> QED
      BY <3>4 DEF r
  <2> QED
    BY <2>1, <2>2
<1>13. PairsMarked(s, f, {b})
  <2> SUFFICES ASSUME NEW x \in DOMAIN s, NextHead(s, x) \in DOMAIN s,
                      s[x] < CHUNK_OVERFLOW, x # b, NextHead(s, x) # b
               PROVE  PairMarked(f, x, NextHead(s, x))
    BY DEF PairsMarked
  <2>1. x \in heads /\ NextHead(s, x) \in heads /\ s[x] = chunk_size[x]
    BY <1>3
  <2>2. PairMarked(bitflags, x, NextHead(s, x))
    BY <2>1, <1>9 DEF Flagged, PairsMarked, heads
  <2> QED
    BY <2>1, <2>2, <1>7 DEF PairMarked
<1>14. FirstMarked(f) /\ LastMarked(Q, s, f) /\ PairsMarked(s, f, {b}) /\ DOMAIN f = DOMAIN s
  BY <1>3, <1>7, <1>11, <1>12, <1>13
<1> QED
  BY <1>14 DEF b, f, s, Q

\* A header made in safety is reached backwards from the deadzone in front of it.
LEMMA SpotReached ==
  ASSUME TypeOK, Placed(pools, chunk_size, deadzone),
         Linked(pools, chunk_size, bitflags, deadzone),
         Tiled(pools, chunk_size, deadzone),
         NEW P, Grows(P), NEW n \in Nat, n < WORD, n % 16 = 0,
         NEW p \in DOMAIN P, NEW i \in 0 .. Len(P[p].free), Serves(P, n, p, i)
  PROVE  Spot(P, p, i)[2] # 0 => Reached(MadeSizes(P, n, p, i), deadzone, Spot(P, p, i))
<1> DEFINE b == Spot(P, p, i)
           s == MadeSizes(P, n, p, i)
<1>1. Built(P, n, p, i)
  BY HeaderBuilt
<1>2. /\ IF i = 0 THEN b = <<p, P[p].offset>> /\ b \notin heads
                  ELSE b \in heads /\ chunk_size[b] = ChunkSize(n) /\ i \in DOMAIN P[p].free
      /\ DOMAIN s = heads \cup {b}
      /\ \A x \in heads : s[x] = chunk_size[x]
  BY <1>1, Zenon DEF Built
<1>3. Tiled(P, chunk_size, deadzone)
  BY GrownTiled
<1> HIDE DEF b, s
<1>4. b[2] # 0 => Reached(chunk_size, deadzone, b)
  <2>1. CASE i = 0
    BY <2>1, <1>2, <1>3 DEF Tiled, EndsReached
  <2>2. CASE i # 0
    BY <2>2, <1>2, <1>3 DEF Tiled, HeadsReached, heads
  <2> QED
    BY <2>1, <2>2
<1>5. b[2] # 0 => Reached(s, deadzone, b)
  BY <1>2, <1>4 DEF Reached, heads
<1> QED
  BY <1>5 DEF b, s

\* What the walk lemmas need to know of the chunks.
Chunks(N, P, s) ==
  /\ DOMAIN s \subseteq (1 .. N) \X Nat /\ \A x \in DOMAIN s : s[x] \in Nat
  /\ ChunksApart(s) /\ SizesPositive(s)
  /\ \A p \in 1 .. N : P[p].offset \in Nat
  /\ ChunksInside(P, s)

\* A header made in safety leaves such chunks.
LEMMA MadeChunks ==
  ASSUME TypeOK, Placed(pools, chunk_size, deadzone),
         Linked(pools, chunk_size, bitflags, deadzone),
         NEW P, Grows(P),
         NEW n \in Nat, n < WORD, n % 16 = 0, ChunkSize(n) >= n + 32,
         NEW p \in DOMAIN P, NEW i \in 0 .. Len(P[p].free), Serves(P, n, p, i)
  PROVE  Chunks(Len(P), MadePools(P, n, p, i), MadeSizes(P, n, p, i))
<1> DEFINE Q == MadePools(P, n, p, i)
           s == MadeSizes(P, n, p, i)
           d == MadeTags(P, n, p, i)
           b == Spot(P, p, i)
<1>1. /\ Shape(Q, s, MadeFlags(P, n, p, i, 0), d) /\ Placed(Q, s, d) /\ Len(Q) = Len(P)
  BY HeaderMade, Zenon
<1>2. Built(P, n, p, i)
  BY HeaderBuilt
<1>3. /\ DOMAIN s = heads \cup {b} /\ s[b] = ChunkSize(n)
      /\ \A x \in heads : s[x] = chunk_size[x]
  BY <1>2, Zenon DEF Built
<1>4. ChunkSize(n) \in Nat /\ ChunkSize(n) > 0
  BY ChunkExact
<1> HIDE DEF Q, s, d, b
<1>5. SizesPositive(s)
  BY <1>3, <1>4 DEF Linked, SizesPositive, heads
<1>6. \A q \in 1 .. Len(P) : Q[q].offset \in Nat
  <2> SUFFICES ASSUME NEW q \in 1 .. Len(P) PROVE Q[q].offset \in Nat
    OBVIOUS
  <2>1. Q[q] \in Pool
    BY <1>1 DEF Shape
  <2> QED
    BY <2>1 DEF Pool
<1>7. Chunks(Len(P), Q, s)
  BY <1>1, <1>5, <1>6 DEF Chunks, Shape, Placed
<1> QED
  BY <1>7 DEF Q, s

\* A header made in safety leaves the flags right.
LEMMA MadeFlagged ==
  ASSUME HeapInv, FreeInv, TileInv, OwnInv, Safe, Flagged(pools, chunk_size, bitflags),
         NEW P, Grows(P),
         NEW n \in Nat, n < WORD, n % 16 = 0, ChunkSize(n) >= n + 32,
         NEW p \in DOMAIN P, NEW i \in 0 .. Len(P[p].free), Serves(P, n, p, i),
         NEW wild
  PROVE  Flagged(MadePools(P, n, p, i), MadeSizes(P, n, p, i), MadeFlags(P, n, p, i, wild))
<1> DEFINE b == Spot(P, p, i)
           f == With(bitflags, b, CreatedFlags(P, n, p, i))
           s == MadeSizes(P, n, p, i)
           Q == MadePools(P, n, p, i)
<1>1. /\ TypeOK /\ Placed(pools, chunk_size, deadzone)
      /\ Linked(pools, chunk_size, bitflags, deadzone)
      /\ Tiled(pools, chunk_size, deadzone)
  BY InvariantParts DEF TileInv
<1>2. /\ FirstMarked(f) /\ LastMarked(Q, s, f) /\ PairsMarked(s, f, {b}) /\ DOMAIN f = DOMAIN s
  BY CreatedRight
<1>3. Chunks(Len(P), Q, s)
  BY <1>1, MadeChunks
<1>4. b[2] # 0 => Reached(s, deadzone, b)
  BY <1>1, SpotReached
<1>5. b \in DOMAIN s
  BY DEF MadeSizes, With
<1>6. MadeFlags(P, n, p, i, wild) = UpdatedFlags(f, s, Q, b, wild)
  BY DEF MadeFlags
<1> HIDE DEF b, f, s, Q
<1>7. Flagged(Q, s, UpdatedFlags(f, s, Q, b, wild))
  BY <1>2, <1>3, <1>4, <1>5, WalkFlagged DEF Chunks
<1> QED
  BY <1>6, <1>7 DEF s, Q

\* syn_alloc.
LEMMA AllocFlagged ==
  ASSUME HeapInv, FreeInv, TileInv, OwnInv, FlagInv,
         NEW size \in Requests, NEW a, HeapAlloc(size, a)
  PROVE  FlagInv'
<1>1. Safe
  BY DEF HeapAlloc, Alive, Safe
<1>2. PICK n, P, p, i, wild : n \in Nat /\ Allocated(a, n, P, p, i, wild)
  BY AllocMade
<1>3. ASSUME Safe' PROVE Flagged(pools', chunk_size', bitflags')
  <2>1. ChunkSize(n) >= n + 32
    BY <1>2, <1>3 DEF Allocated, Safe
  <2>2. Flagged(MadePools(P, n, p, i), MadeSizes(P, n, p, i), MadeFlags(P, n, p, i, wild))
    BY <1>1, <1>2, <2>1, MadeFlagged DEF Allocated, FlagInv
  <2> QED
    BY <1>2, <2>2 DEF Allocated
<1> QED
  BY <1>3 DEF FlagInv

\* The flags syn_free starts its walk with are right, except for the neighbours of
\* the freed header.
LEMMA FreedRight ==
  ASSUME TypeOK, Flagged(pools, chunk_size, bitflags), NEW a \in heads
  PROVE  LET f == [bitflags EXCEPT ![a] = Freed(@)]
         IN  /\ FirstMarked(f) /\ LastMarked(pools, chunk_size, f)
             /\ PairsMarked(chunk_size, f, {a}) /\ DOMAIN f = DOMAIN chunk_size
<1> DEFINE f == [bitflags EXCEPT ![a] = Freed(@)]
<1>1. DOMAIN bitflags = heads /\ DOMAIN f = heads /\ DOMAIN chunk_size = heads
  BY DEF TypeOK, heads
<1>2. f[a] = Freed(bitflags[a]) /\ \A x \in heads : x # a => f[x] = bitflags[x]
  BY <1>1
<1> HIDE DEF f
<1>3. \A x \in heads : /\ "FIRST_HEAD" \in f[x] <=> "FIRST_HEAD" \in bitflags[x]
                       /\ "SENTINEL" \in f[x] <=> "SENTINEL" \in bitflags[x]
  BY <1>2 DEF Freed
<1>4. FirstMarked(f)
  BY <1>1, <1>3 DEF Flagged, FirstMarked
<1>5. LastMarked(pools, chunk_size, f)
  BY <1>1, <1>3 DEF Flagged, LastMarked
<1>6. PairsMarked(chunk_size, f, {a})
  BY <1>1, <1>2 DEF Flagged, PairsMarked, PairMarked
<1> QED
  BY <1>1, <1>4, <1>5, <1>6 DEF f

\* The chunks of a safe arena.
LEMMA SafeChunks ==
  ASSUME HeapInv, FreeInv, Safe PROVE Chunks(Len(pools), pools, chunk_size)
<1>1. /\ TypeOK /\ Placed(pools, chunk_size, deadzone)
      /\ Linked(pools, chunk_size, bitflags, deadzone)
  BY InvariantParts
<1>2. \A q \in 1 .. Len(pools) : pools[q].offset \in Nat
  <2> SUFFICES ASSUME NEW q \in 1 .. Len(pools) PROVE pools[q].offset \in Nat
    OBVIOUS
  <2>1. pools[q] \in Pool
    BY <1>1 DEF TypeOK
  <2> QED
    BY <2>1 DEF Pool
<1> QED
  BY <1>1, <1>2 DEF Chunks, TypeOK, Placed, Linked, heads, Addresses

\* syn_free.
LEMMA FreeFlagged ==
  ASSUME HeapInv, FreeInv, TileInv, FlagInv, NEW a, HeapFree(a)
  PROVE  FlagInv'
<1> DEFINE f == [bitflags EXCEPT ![a] = Freed(@)]
<1>1. Safe /\ TypeOK /\ a \in heads /\ UNCHANGED chunk_size
      /\ Tiled(pools, chunk_size, deadzone) /\ Flagged(pools, chunk_size, bitflags)
  BY InvariantParts DEF HeapFree, Safe, Unfrozen, TileInv, FlagInv
<1> SUFFICES ASSUME Safe' PROVE Flagged(pools', chunk_size, bitflags')
  BY <1>1 DEF FlagInv
<1>2. \E wild \in Wild : bitflags' = UpdatedFlags(f, chunk_size, pools, a, wild)
  BY DEF HeapFree, Safe
<1>3. PICK wild \in Wild : bitflags' = UpdatedFlags(f, chunk_size, pools, a, wild)
  BY <1>2
<1>4. /\ FirstMarked(f) /\ LastMarked(pools, chunk_size, f)
      /\ PairsMarked(chunk_size, f, {a}) /\ DOMAIN f = DOMAIN chunk_size
  BY <1>1, FreedRight
<1>5. Chunks(Len(pools), pools, chunk_size)
  BY <1>1, SafeChunks
<1>6. a[2] # 0 => Reached(chunk_size, deadzone, a)
  BY <1>1 DEF Tiled, HeadsReached, heads
<1> HIDE DEF f
<1>7. Flagged(pools, chunk_size, UpdatedFlags(f, chunk_size, pools, a, wild))
  BY <1>1, <1>4, <1>5, <1>6, WalkFlagged DEF Chunks, heads
<1>8. \A x \in DOMAIN chunk_size :
        pools'[x[1]].offset = pools[x[1]].offset /\ pools'[x[1]].size = pools[x[1]].size
  BY <1>1, FreeOffsets DEF TypeOK, heads, Addresses
<1> QED
  BY <1>3, <1>7, <1>8, SameOffsetsFlagged

\* The other actions keep these flags, or drop all headers.
LEMMA OthersFlagged ==
  ASSUME HeapInv, FlagInv,
         \/ \E a : HeapFreeze(a) \/ HeapThaw(a)
         \/ \E size, n : HeapGiveUp(size, n) \/ HeapMapFails(size, n)
         \/ HeapReset \/ HeapDestroy \/ PoolArrayFault \/ UNCHANGED heapVars
  PROVE  FlagInv'
<1> SUFFICES ASSUME Safe' PROVE Flagged(pools', chunk_size', bitflags')
  BY DEF FlagInv
<1>t. TypeOK
  BY DEF HeapInv
<1>1. CASE \E a : HeapFreeze(a) \/ HeapThaw(a)
  <2>1. PICK a : HeapFreeze(a) \/ HeapThaw(a)
    BY <1>1
  <2>2. /\ Safe /\ a \in DOMAIN bitflags /\ UNCHANGED <<pools, chunk_size>>
        /\ \/ bitflags' = [bitflags EXCEPT ![a] = @ \cup {"FROZEN"}]
           \/ bitflags' = [bitflags EXCEPT ![a] = @ \ {"FROZEN"}]
    BY <1>t, <2>1 DEF HeapFreeze, HeapThaw, Unfrozen, Safe, TypeOK
  <2>3. /\ DOMAIN bitflags' = DOMAIN bitflags /\ DOMAIN bitflags = DOMAIN chunk_size
        /\ \A x \in DOMAIN bitflags : \A z \in Flags \ {"FROZEN"} :
             z \in bitflags'[x] <=> z \in bitflags[x]
    BY <1>t, <2>2 DEF TypeOK, heads
  <2>4. {"FIRST_HEAD", "SENTINEL", "FREE", "PREV_FREE", "NEXT_FREE"} \subseteq Flags \ {"FROZEN"}
    BY DEF Flags
  <2>5. Flagged(pools, chunk_size, bitflags)
    BY <2>2 DEF FlagInv
  <2>6. FirstMarked(bitflags')
    BY <2>3, <2>4, <2>5 DEF Flagged, FirstMarked
  <2>7. LastMarked(pools, chunk_size, bitflags')
    BY <2>3, <2>4, <2>5 DEF Flagged, LastMarked
  <2>8. PairsMarked(chunk_size, bitflags', {})
    BY <2>3, <2>4, <2>5 DEF Flagged, PairsMarked, PairMarked
  <2> QED
    BY <2>2, <2>6, <2>7, <2>8 DEF Flagged
<1>2. CASE \E size, n : HeapGiveUp(size, n)
  <2>1. PICK size, n : HeapGiveUp(size, n)
    BY <1>2
  <2> DEFINE P == Supply(size, n)
  <2>2. Safe /\ pools' = P /\ UNCHANGED <<chunk_size, bitflags>>
    BY <2>1 DEF HeapGiveUp, Alive, Safe
  <2>3. Grows(P)
    BY <1>t, SupplyGrows
  <2> HIDE DEF P
  <2>4. \A a \in DOMAIN chunk_size : P[a[1]] = pools[a[1]]
    BY <1>t, <2>3, GrownPools DEF heads
  <2> QED
    BY <2>2, <2>4, SameOffsetsFlagged DEF FlagInv
<1>3. CASE (\E size, n : HeapMapFails(size, n)) \/ PoolArrayFault
  BY <1>3 DEF HeapMapFails, PoolArrayFault, Safe
<1>4. CASE HeapReset \/ HeapDestroy
  <2>1. DOMAIN <<>> = {}
    OBVIOUS
  <2> QED
    BY <1>4, <2>1 DEF HeapReset, HeapDestroy, NoHeaders, Flagged, FirstMarked, LastMarked,
       PairsMarked
<1>5. CASE UNCHANGED heapVars
  BY <1>5 DEF heapVars, FlagInv, Safe
<1> QED
  BY <1>1, <1>2, <1>3, <1>4, <1>5

\* The invariant is inductive, given the others, for callers that do not reallocate.
LEMMA NextFlagged ==
  ASSUME ReallocRequests = {}, HeapInv, FreeInv, TileInv, OwnInv, FlagInv, [HeapNext]_heapVars
  PROVE  FlagInv'
<1>1. ASSUME NEW size \in Requests, NEW a \in Targets, HeapAlloc(size, a) PROVE FlagInv'
  BY <1>1, AllocFlagged
<1>2. ASSUME NEW size, NEW n, HeapGiveUp(size, n) \/ HeapMapFails(size, n) PROVE FlagInv'
  BY <1>2, OthersFlagged
<1>3. ASSUME NEW a \in Passed, HeapFree(a) PROVE FlagInv'
  BY <1>3, FreeFlagged
<1>4. ASSUME NEW a \in Passed, HeapFreeze(a) \/ HeapThaw(a) PROVE FlagInv'
  BY <1>4, OthersFlagged
<1>5. ASSUME HeapReset \/ HeapDestroy \/ PoolArrayFault \/ Stopped \/ UNCHANGED heapVars
      PROVE  FlagInv'
  BY <1>5, OthersFlagged DEF Stopped
<1> QED
  BY <1>1, <1>2, <1>3, <1>4, <1>5 DEF HeapNext

\* No header is there before the first call.
LEMMA InitFlagged == HeapInit => FlagInv
<1>1. DOMAIN <<>> = {}
  OBVIOUS
<1> QED
  BY <1>1 DEF HeapInit, FlagInv, Flagged, FirstMarked, LastMarked, PairsMarked

\* Without syn_realloc the invariant holds in every state of the arena's memory.
THEOREM FlagInvariantHolds == ASSUME ReallocRequests = {} PROVE HeapSpec => []FlagInv
<1>1. HeapInv /\ FreeInv /\ TileInv /\ OwnInv /\ FlagInv /\ [HeapNext]_heapVars => FlagInv'
  BY NextFlagged
<1> QED
  BY <1>1, InitFlagged, InvariantHolds, FreeInvariantHolds, TileInvariantHolds,
     OwnInvariantHolds, PTL DEF HeapSpec

\* A header next to a free one is marked.
THEOREM NeighboursAreMarked == ASSUME ReallocRequests = {} PROVE HeapSpec => []NeighboursMarked
  BY FlaggedIsMarked, FlagInvariantHolds, PTL

\* Nothing lies behind a SENTINEL header.
THEOREM SentinelIsLast == ASSUME ReallocRequests = {} PROVE HeapSpec => []SentinelEndsPool
  BY FlaggedIsMarked, FlagInvariantHolds, PTL

-----------------------------------------------------------------------------
(***************************************************************************)
(* How memory safety is lost.                                              *)
(***************************************************************************)

\* Requests stay far enough below the range of a u32 for no size to wrap around.
RequestsFit == \A size \in Requests \cup {MINIMUM_BLOCK_ALLOC} : size + 64 <= WORD

\* Such a request gets a chunk with room for its payload, header and deadzone.
LEMMA RequestCovered ==
  ASSUME RequestsFit, NEW size \in Requests
  PROVE  ChunkSize(PaddedSize(size)) >= PaddedSize(size) + 32
<1> DEFINE n == PaddedSize(size)
<1>1. n \in Nat /\ n % 16 = 0 /\ n + 39 < WORD
  <2>1. n \in Nat /\ n % 16 = 0
    BY RequestsAssumption, RequestAligned
  <2>2. /\ size \in Nat /\ size + 64 <= WORD
        /\ MINIMUM_BLOCK_ALLOC \in Nat /\ MINIMUM_BLOCK_ALLOC + 64 <= WORD
    BY RequestsAssumption, SizesAssumption DEF RequestsFit
  <2>3. CASE size < MINIMUM_BLOCK_ALLOC
    <3>1. n <= MINIMUM_BLOCK_ALLOC + 15
      BY <2>2, <2>3, Pad32Range DEF PaddedSize
    <3> QED
      BY <2>1, <2>2, <3>1, SizesAssumption
  <2>4. CASE ~(size < MINIMUM_BLOCK_ALLOC)
    <3>1. AddAlignmentPadding(size) \in Nat /\ AddAlignmentPadding(size) <= size + 15
      BY <2>2 DEF AddAlignmentPadding, ALIGNMENT
    <3>2. n = U32(AddAlignmentPadding(size))
      BY <2>4 DEF PaddedSize
    <3>3. U32(AddAlignmentPadding(size)) <= AddAlignmentPadding(size)
      BY <3>1, U32Range
    <3> QED
      <4> HIDE DEF n
      <4> QED
        BY <2>1, <2>2, <3>1, <3>2, <3>3, SizesAssumption
  <2> QED
    BY <2>3, <2>4
<1> HIDE DEF n
<1> DEFINE m == n + 16
<1>2. m \in Nat /\ m % 16 = 0 /\ m + 8 + 15 < WORD /\ U32(n + 24) = m + 8
  BY <1>1, U32Range, SizesAssumption
<1>3. n + 16 + 8 = n + 24 /\ m + 16 = n + 32
  BY <1>1
<1> HIDE DEF m
<1>4. ChunkSize(n) = n + 32
  <2>1. \A d \in 0 .. 15 : m + d + 15 < WORD =>
          AddAlignmentPadding32(m + d) = IF d = 0 THEN m ELSE m + 16
    BY <1>2, Pad32Exact
  <2>2. AddAlignmentPadding32(m + 8) = m + 16
    BY <1>2, <2>1
  <2> QED
    BY <1>2, <1>3, <2>2 DEF ChunkSize, STRUCT_SIZE_HEADER, DEADZONE_PADDING
<1> QED
  BY <1>1, <1>4 DEF n

\* A walk from a header runs into memory that is none of its pool's only if it is the
\* last one of a pool that is used up, and is not marked SENTINEL when it is over.
LEMMA WalkLeavesFull ==
  ASSUME NEW N, NEW R, NEW s, Chunks(N, R, s), NoGaps(R, s),
         NEW f, DOMAIN f = DOMAIN s, FirstMarked(f), NEW a \in DOMAIN s, NEW wild,
         WalkFate(f, s, R, a, wild) # "ok"
  PROVE  /\ a[1] \in 1 .. N /\ Full(R[a[1]]) /\ a[2] + s[a] = R[a[1]].offset
         /\ "SENTINEL" \notin UpdatedFlags(f, s, R, a, wild)[a]
<1>1. ~BelowPool(f, a)
  BY DEF BelowPool, FirstMarked
<1>2. BeyondPool(PrevMarked(f, a), s, R, a)
  BY <1>1 DEF WalkFate
<1>3. /\ NextHead(s, a) \notin DOMAIN s
      /\ NextHead(s, a)[2] + STRUCT_SIZE_HEADER > R[a[1]].size
  BY <1>2 DEF BeyondPool
<1>4. NextHead(s, a)[2] = R[a[1]].offset
  BY <1>3 DEF NoGaps
<1>5. "SENTINEL" \notin UpdatedFlags(f, s, R, a, wild)[a]
  <2> DEFINE g == PrevMarked(f, a)
  <2>1. DOMAIN g = DOMAIN f
    BY DEF PrevMarked, MarkPrev
  <2>2. "SENTINEL" \notin g[a]
    BY <1>2 DEF BeyondPool, LooksNext
  <2>3. \/ UpdatedFlags(f, s, R, a, wild) = g
        \/ UpdatedFlags(f, s, R, a, wild) = [g EXCEPT ![a] = @ \cup {"NEXT_FREE"}]
    BY <1>3 DEF UpdatedFlags
  <2> HIDE DEF g
  <2> QED
    BY <2>1, <2>2, <2>3
<1> QED
  BY <1>3, <1>4, <1>5 DEF Full, Chunks, NextHead

\* A step by which callers that do not reallocate and pass only blocks they hold
\* lose memory safety: it walks from such a header, or finds pool_count wrong.
LEMMA StepLosesAtFullPool ==
  ASSUME ReallocRequests = {}, ~STALE_CALLS, ~MAP_MAY_FAIL, RequestsFit,
         HeapInv, FreeInv, TileInv, OwnInv, FlagInv, HeapNext, Safe, ~Safe'
  PROVE  pool_count # Len(pools) \/ \E a \in heads' : UnmarkedEnd(a)'
<1>1. /\ TypeOK /\ Placed(pools, chunk_size, deadzone)
      /\ Linked(pools, chunk_size, bitflags, deadzone)
      /\ Tiled(pools, chunk_size, deadzone) /\ Flagged(pools, chunk_size, bitflags)
  BY InvariantParts DEF TileInv, FlagInv
<1>2. ASSUME NEW size \in Requests, NEW a, HeapAlloc(size, a)
      PROVE  \E x \in heads' : UnmarkedEnd(x)'
  <2> DEFINE n == PaddedSize(size)
  <2>1. n \in Nat /\ \E P, p, i, wild : Allocated(a, n, P, p, i, wild)
    BY <1>2, AllocMade
  <2>2. ChunkSize(n) >= n + 32 /\ ~(ChunkSize(n) < n + 32)
    BY <2>1, RequestCovered, ChunkExact, RequestsAssumption, RequestAligned
  <2> HIDE DEF n
  <2>3. PICK P, p, i, wild : Allocated(a, n, P, p, i, wild)
    BY <2>1
  <2> DEFINE Q == MadePools(P, n, p, i)
             s == MadeSizes(P, n, p, i)
             f == With(bitflags, a, CreatedFlags(P, n, p, i))
  <2>4. /\ n < WORD /\ n % 16 = 0 /\ Grows(P)
        /\ p \in DOMAIN P /\ i \in 0 .. Len(P[p].free) /\ Serves(P, n, p, i)
        /\ a = Spot(P, p, i) /\ pools' = Q /\ chunk_size' = s
        /\ bitflags' = MadeFlags(P, n, p, i, wild) /\ fate' = MadeFate(P, n, p, i, wild)
    BY <2>3 DEF Allocated
  <2>5. WalkFate(f, s, Q, a, wild) # "ok"
    <3>1. n + STRUCT_SIZE_HEADER + DEADZONE_SIZE = n + 32
      BY <2>1 DEF STRUCT_SIZE_HEADER, DEADZONE_SIZE
    <3>2. MadeFate(P, n, p, i, wild) = WalkFate(f, s, Q, a, wild)
      BY <2>2, <2>4, <3>1, Zenon DEF MadeFate
    <3> HIDE DEF f, s, Q
    <3> QED
      BY <2>4, <3>2 DEF Safe
  <2>6. FirstMarked(f) /\ DOMAIN f = DOMAIN s
    BY <1>1, <2>1, <2>2, <2>4, CreatedRight
  <2>7. Chunks(Len(P), Q, s)
    BY <1>1, <2>1, <2>2, <2>4, MadeChunks
  <2>8. NoGaps(Q, s)
    BY <1>1, <2>1, <2>2, <2>4, MadeTiled DEF Tiled
  <2>9. a \in DOMAIN s
    BY <2>4 DEF MadeSizes, With
  <2>10. bitflags' = UpdatedFlags(f, s, Q, a, wild)
    BY <2>4, Zenon DEF MadeFlags
  <2> HIDE DEF Q, s, f
  <2>11. /\ Full(Q[a[1]]) /\ a[2] + s[a] = Q[a[1]].offset
         /\ "SENTINEL" \notin UpdatedFlags(f, s, Q, a, wild)[a]
    BY <2>5, <2>6, <2>7, <2>8, <2>9, WalkLeavesFull
  <2>12. UnmarkedEnd(a)'
    BY <2>4, <2>10, <2>11 DEF UnmarkedEnd, Full, Behind
  <2> QED
    BY <2>4, <2>9, <2>12 DEF heads
<1>3. ASSUME NEW a \in Passed, HeapFree(a)
      PROVE  \E x \in heads' : UnmarkedEnd(x)'
  <2> DEFINE f == [bitflags EXCEPT ![a] = Freed(@)]
             L == pools[ReturnPool(a)].free
  <2>1. a \in heads /\ "ALLOCATED" \in bitflags[a]
    BY <1>3 DEF Passed
  <2>2. ~ \E i \in DOMAIN L : L[i] = a
    BY <1>1, <2>1, ReturnedPool DEF Linked, NodesFree
  <2>3. \E wild \in Wild : /\ fate' = WalkFate(f, chunk_size, pools, a, wild)
                           /\ bitflags' = UpdatedFlags(f, chunk_size, pools, a, wild)
    BY <1>3, <2>2 DEF HeapFree
  <2>4. PICK wild \in Wild : /\ WalkFate(f, chunk_size, pools, a, wild) # "ok"
                            /\ bitflags' = UpdatedFlags(f, chunk_size, pools, a, wild)
    BY <2>3 DEF Safe
  <2>5. FirstMarked(f) /\ DOMAIN f = DOMAIN chunk_size
    BY <1>1, <2>1, FreedRight
  <2>6. Chunks(Len(pools), pools, chunk_size)
    BY SafeChunks
  <2>7. NoGaps(pools, chunk_size)
    BY <1>1 DEF Tiled
  <2> HIDE DEF f, L
  <2>8. /\ a[1] \in 1 .. Len(pools) /\ Full(pools[a[1]])
        /\ a[2] + chunk_size[a] = pools[a[1]].offset
        /\ "SENTINEL" \notin UpdatedFlags(f, chunk_size, pools, a, wild)[a]
    BY <2>1, <2>4, <2>5, <2>6, <2>7, WalkLeavesFull DEF heads
  <2>9. a[1] \in DOMAIN pools' /\ Full(pools'[a[1]]) /\ pools'[a[1]].offset = pools[a[1]].offset
    BY <1>1, <1>3, <2>8, FreeOffsets DEF TypeOK, Full
  <2>10. chunk_size' = chunk_size
    BY <1>3 DEF HeapFree
  <2>11. UnmarkedEnd(a)'
    BY <2>4, <2>8, <2>9, <2>10 DEF UnmarkedEnd, Behind
  <2> QED
    BY <2>1, <2>10, <2>11 DEF heads
<1>4. ASSUME \/ \E size, n : HeapGiveUp(size, n) \/ HeapMapFails(size, n)
             \/ \E a : HeapFreeze(a) \/ HeapThaw(a)
             \/ HeapReset \/ HeapDestroy \/ Stopped
      PROVE  FALSE
  BY <1>4 DEF HeapGiveUp, HeapMapFails, HeapFreeze, HeapThaw, HeapReset, HeapDestroy,
     Stopped, Safe, heapVars
<1>5. ASSUME PoolArrayFault PROVE pool_count # Len(pools)
  BY <1>5 DEF PoolArrayFault, PoolArrayIntact
<1> QED
  BY <1>2, <1>3, <1>4, <1>5 DEF HeapNext

\* Callers that do not reallocate, pass only blocks they hold and ask for sizes well
\* below 4 GiB lose memory safety only behind the unmarked last chunk of a pool without
\* room for another header, or in the walk of the pools after a reset, as long as mmap works.
THEOREM LostOnlyThere ==
  ASSUME ReallocRequests = {}, ~STALE_CALLS, ~MAP_MAY_FAIL, RequestsFit
  PROVE  HeapSpec => LostOnlyAtFullPool
<1>1. HeapInv /\ FreeInv /\ TileInv /\ OwnInv /\ FlagInv /\ [HeapNext]_heapVars =>
        [Safe /\ ~Safe' =>
           pool_count # Len(pools) \/ \E a \in heads' : UnmarkedEnd(a)']_heapVars
  BY StepLosesAtFullPool
<1> QED
  BY <1>1, InvariantHolds, FreeInvariantHolds, TileInvariantHolds, OwnInvariantHolds,
     FlagInvariantHolds, PTL DEF HeapSpec, LostOnlyAtFullPool
=============================================================================
