--------------------------- MODULE FreeListProofs ---------------------------
(***************************************************************************)
(* Theorems about the free lists of PoolHeap and about frozen blocks, for  *)
(* all values of the constants, with syn_realloc and with callers that     *)
(* pass blocks they have freed.                                            *)
(***************************************************************************)
EXTENDS PoolHeapProofs

-----------------------------------------------------------------------------
(***************************************************************************)
(* The invariant.  That no header is listed twice is not inductive alone:  *)
(* free_node_add appends to the list of the pool that the deadzone names,  *)
(* and only that list is known not to hold the header.  After syn_realloc  *)
(* the deadzone may name another pool than the header's own, but a listed  *)
(* header stays on the list of the pool its deadzone names.                *)
(***************************************************************************)
NodesFree(P, f, D) == \A p \in DOMAIN P : \A i \in DOMAIN P[p].free :
  /\ P[p].free[i] \in D
  /\ "FREE" \in f[P[p].free[i]] /\ "ALLOCATED" \notin f[P[p].free[i]]

NodesDistinct(P) == \A p, q \in DOMAIN P :
  \A i \in DOMAIN P[p].free, j \in DOMAIN P[q].free :
    P[p].free[i] = P[q].free[j] => p = q /\ i = j

ListsMatchTags(P, s, d) == \A p \in DOMAIN P : \A i \in DOMAIN P[p].free :
  d[NextHead(s, P[p].free[i])].pool_ptr = p

SizesPositive(s) == \A a \in DOMAIN s : s[a] > 0

Linked(P, s, f, d) ==
  /\ NodesFree(P, f, DOMAIN s) /\ NodesDistinct(P)
  /\ ListsMatchTags(P, s, d) /\ SizesPositive(s)

FreeInv == Safe => Linked(pools, chunk_size, bitflags, deadzone)

\* The invariant contains what the runs check as FreeListsSound.
LEMMA LinkedIsSound == FreeInv => FreeListsSound
<1> SUFFICES ASSUME Linked(pools, chunk_size, bitflags, deadzone)
             PROVE  FreeListsSound
  BY DEF FreeInv, FreeListsSound
<1>1. \A p \in DOMAIN pools : \A a \in Listed(p) :
        a \in heads /\ bitflags[a] \cap {"FREE", "ALLOCATED"} = {"FREE"}
  BY DEF Linked, NodesFree, Listed, heads
<1>2. NodesDistinct(pools)
  BY DEF Linked
<1> QED
  BY <1>1, <1>2 DEF FreeListsSound, NodesDistinct

-----------------------------------------------------------------------------
\* The flags that say what a header is used for.
UseFlags == {"FREE", "ALLOCATED", "FROZEN"}

\* The walk over the neighbours leaves them as they are.
LEMMA UseFlagsStay ==
  ASSUME NEW D, NEW f, DOMAIN f = D, NEW s, NEW P, NEW a \in D, NEW wild,
         NEW x \in D, NEW z \in UseFlags
  PROVE  z \in UpdatedFlags(f, s, P, a, wild)[x] <=> z \in f[x]
<1> DEFINE Same(g) == DOMAIN g = D /\ (z \in g[x] <=> z \in f[x])
<1>1. z \notin {"SENTINEL", "NEXT_FREE", "PREV_FREE"}
  BY DEF UseFlags
<1>2. ASSUME NEW g, Same(g), NEW q PROVE Same(MarkPrev(g, a, q))
  <2>1. DOMAIN MarkPrev(g, a, q) = D
    BY <1>2 DEF MarkPrev
  <2>2. z \in MarkPrev(g, a, q)[x] <=> z \in g[x]
    BY <1>1, <1>2 DEF MarkPrev
  <2> QED
    BY <1>2, <2>1, <2>2
<1>3. ASSUME NEW g, Same(g), NEW r PROVE Same(MarkNext(g, a, r))
  <2>1. DOMAIN MarkNext(g, a, r) = D
    BY <1>3 DEF MarkNext
  <2>2. z \in MarkNext(g, a, r)[x] <=> z \in g[x]
    BY <1>1, <1>3 DEF MarkNext
  <2> QED
    BY <1>3, <2>1, <2>2
<1>4. ASSUME NEW g, Same(g) PROVE Same([g EXCEPT ![a] = @ \cup {"NEXT_FREE"}])
  BY <1>1, <1>4
<1>5. Same(f)
  OBVIOUS
<1> HIDE DEF Same
<1>6. Same(PrevMarked(f, a))
  BY <1>2, <1>5 DEF PrevMarked
<1>7. Same(UpdatedFlags(f, s, P, a, wild))
  BY <1>3, <1>4, <1>6 DEF UpdatedFlags
<1> QED
  BY <1>7 DEF Same

\* Two chunks never end at the same address.
LEMMA EndsDiffer ==
  ASSUME NEW N, NEW s, DOMAIN s \subseteq (1 .. N) \X Nat, \A a \in DOMAIN s : s[a] \in Nat,
         ChunksApart(s), SizesPositive(s),
         NEW x \in DOMAIN s, NEW b \in DOMAIN s, x # b
  PROVE  NextHead(s, x) # NextHead(s, b)
<1> SUFFICES ASSUME NextHead(s, x) = NextHead(s, b) PROVE FALSE
  OBVIOUS
<1>1. /\ x = <<x[1], x[2]>> /\ b = <<b[1], b[2]>>
      /\ x[2] \in Nat /\ b[2] \in Nat /\ s[x] \in Nat /\ s[b] \in Nat
  OBVIOUS
<1>2. x[1] = b[1] /\ x[2] + s[x] = b[2] + s[b]
  BY DEF NextHead
<1>3. x[2] # b[2]
  BY <1>1, <1>2
<1>4. s[x] > 0 /\ s[b] > 0
  BY DEF SizesPositive
<1>5. x[2] < b[2] => x[2] + s[x] <= b[2]
  BY <1>2 DEF ChunksApart
<1>6. b[2] < x[2] => b[2] + s[b] <= x[2]
  BY <1>2 DEF ChunksApart
<1> QED
  BY <1>1, <1>2, <1>3, <1>4, <1>5, <1>6

\* Pools that a call adds have no nodes.
LEMMA GrownLists ==
  ASSUME TypeOK, Linked(pools, chunk_size, bitflags, deadzone), NEW P, Grows(P)
  PROVE  Linked(P, chunk_size, bitflags, deadzone)
<1>1. /\ P \in Seq(Pool) /\ pools \in Seq(Pool) /\ Len(P) >= Len(pools)
      /\ \A q \in 1 .. Len(pools) : P[q] = pools[q]
      /\ \A q \in (Len(pools) + 1) .. Len(P) : P[q].offset = 0 /\ P[q].free = <<>>
  BY DEF Grows, TypeOK
<1>2. /\ DOMAIN P = 1 .. Len(P) /\ DOMAIN pools = 1 .. Len(pools)
      /\ Len(P) \in Nat /\ Len(pools) \in Nat
  BY <1>1
<1>3. \A q \in DOMAIN P : \A i \in DOMAIN P[q].free : q \in DOMAIN pools /\ P[q] = pools[q]
  <2> SUFFICES ASSUME NEW q \in DOMAIN P, NEW i \in DOMAIN P[q].free
               PROVE  q \in DOMAIN pools /\ P[q] = pools[q]
    OBVIOUS
  <2>1. CASE q \in DOMAIN pools
    BY <2>1, <1>1, <1>2
  <2>2. CASE q \notin DOMAIN pools
    <3>1. P[q].free = <<>>
      BY <2>2, <1>1, <1>2
    <3> QED
      BY <3>1
  <2> QED
    BY <2>1, <2>2
<1>4. NodesFree(P, bitflags, DOMAIN chunk_size)
  BY <1>3 DEF Linked, NodesFree
<1>5. NodesDistinct(P)
  BY <1>3 DEF Linked, NodesDistinct
<1>6. ListsMatchTags(P, chunk_size, deadzone)
  BY <1>3 DEF Linked, ListsMatchTags
<1> QED
  BY <1>4, <1>5, <1>6 DEF Linked

-----------------------------------------------------------------------------
(***************************************************************************)
(* create_header: the header is new or comes from a list, and is on no     *)
(* list afterwards; the other headers keep their size and use.             *)
(***************************************************************************)
Taken(P, n, p, i, wild) ==
  LET b == Spot(P, p, i)
      Q == MadePools(P, n, p, i)
      s == MadeSizes(P, n, p, i)
      f == MadeFlags(P, n, p, i, wild)
  IN  /\ NodesDistinct(Q)
      /\ \A q \in DOMAIN Q : \A j \in DOMAIN Q[q].free :
           /\ q \in DOMAIN P /\ Q[q].free[j] \in heads /\ Q[q].free[j] # b
           /\ \E k \in DOMAIN P[q].free : Q[q].free[j] = P[q].free[k]
      /\ b \in heads => "FREE" \in bitflags[b] /\ "ALLOCATED" \notin bitflags[b]
      /\ DOMAIN s = heads \cup {b} /\ DOMAIN f = DOMAIN s
      /\ s[b] = ChunkSize(n)
      /\ \A x \in heads : s[x] = chunk_size[x]
      /\ \A x \in heads : x # b =>
           \A z \in UseFlags : z \in f[x] <=> z \in bitflags[x]

\* What Taken says of every header that create_header makes.
LEMMA HeaderTaken ==
  ASSUME TypeOK, Placed(pools, chunk_size, deadzone),
         Linked(pools, chunk_size, bitflags, deadzone),
         NEW P, Grows(P),
         NEW n \in Nat, n < WORD, n % 16 = 0,
         NEW p \in DOMAIN P, NEW i \in 0 .. Len(P[p].free), Serves(P, n, p, i),
         NEW wild
  PROVE  Taken(P, n, p, i, wild)
<1> DEFINE b == Spot(P, p, i)
           Q == MadePools(P, n, p, i)
           s == MadeSizes(P, n, p, i)
           f == MadeFlags(P, n, p, i, wild)
<1>1. Linked(P, chunk_size, bitflags, deadzone)
  BY GrownLists
<1>2. /\ P \in Seq(Pool) /\ pools \in Seq(Pool) /\ DOMAIN P = 1 .. Len(P)
      /\ \A q \in DOMAIN pools : q \in DOMAIN P /\ P[q] = pools[q]
      /\ DOMAIN pools = 1 .. Len(pools)
  <2>1. P \in Seq(Pool) /\ pools \in Seq(Pool) /\ Len(P) >= Len(pools)
        /\ \A q \in 1 .. Len(pools) : P[q] = pools[q]
    BY DEF Grows, TypeOK
  <2> QED
    BY <2>1
<1>3. \A q \in DOMAIN P :
        P[q] \in Pool /\ P[q].offset \in Nat /\ P[q].free \in Seq(Nat \X Nat)
  <2> TAKE q \in DOMAIN P
  <2>1. P[q] \in Pool
    BY <1>2
  <2> QED
    BY <2>1 DEF Pool
<1>4. i # 0 => i \in DOMAIN P[p].free /\ chunk_size[P[p].free[i]] = ChunkSize(n)
  <2> HIDE DEF b, Q, s, f
  <2>1. P \in Seq(Pool) /\ i \in Nat
    BY <1>2
  <2> QED
    BY <2>1, ServedSpot
<1>5. \A q \in DOMAIN P : \A k \in DOMAIN P[q].free :
        /\ P[q].free[k] \in heads
        /\ "FREE" \in bitflags[P[q].free[k]] /\ "ALLOCATED" \notin bitflags[P[q].free[k]]
  BY <1>1 DEF Linked, NodesFree, heads
<1>6. i = 0 => b = <<p, P[p].offset>> /\ b \notin heads
  <2> SUFFICES ASSUME i = 0 PROVE b = <<p, P[p].offset>> /\ b \notin heads
    OBVIOUS
  <2>1. b = <<p, P[p].offset>>
    BY DEF Spot
  <2>2. ASSUME b \in heads PROVE FALSE
    <3>1. b[1] \in DOMAIN pools /\ chunk_size[b] \in Nat /\ b[2] + chunk_size[b] <= pools[b[1]].offset
      BY <2>2, <1>2 DEF TypeOK, Addresses, Placed, ChunksInside, heads
    <3>2. b[1] = p /\ b[2] = P[p].offset /\ P[p].offset \in Nat
      BY <2>1, <1>3
    <3>3. pools[b[1]].offset = P[p].offset
      BY <3>1, <3>2, <1>2
    <3>4. chunk_size[b] > 0
      BY <2>2 DEF Linked, SizesPositive, heads
    <3> QED
      BY <3>1, <3>2, <3>3, <3>4
  <2> QED
    BY <2>1, <2>2
<1>7. i # 0 => b = P[p].free[i] /\ b \in heads
  BY <1>4, <1>5 DEF Spot
<1>8. b \in heads => "FREE" \in bitflags[b] /\ "ALLOCATED" \notin bitflags[b]
  BY <1>4, <1>5, <1>6, <1>7
<1>9. /\ DOMAIN s = heads \cup {b} /\ s[b] = ChunkSize(n)
      /\ \A x \in heads : s[x] = chunk_size[x]
  <2>1. /\ DOMAIN s = heads \cup {b}
        /\ \A x \in DOMAIN s : s[x] = IF x = b THEN ChunkSize(n) ELSE chunk_size[x]
    BY DEF MadeSizes, With, heads
  <2>2. b \in heads => chunk_size[b] = ChunkSize(n)
    BY <1>4, <1>6, <1>7
  <2> QED
    BY <2>1, <2>2
<1> DEFINE Shift(q, j) == IF q = p /\ i # 0 /\ j >= i THEN j + 1 ELSE j
<1>10. /\ DOMAIN Q = DOMAIN P
       /\ \A q \in DOMAIN P : \A j \in DOMAIN Q[q].free :
            /\ j \in Nat /\ Shift(q, j) \in DOMAIN P[q].free
            /\ Q[q].free[j] = P[q].free[Shift(q, j)]
            /\ ~(q = p /\ i # 0 /\ Shift(q, j) = i)
  <2>1. CASE i = 0
    <3>1. Q = [P EXCEPT ![p] = [P[p] EXCEPT !.offset = P[p].offset + ChunkSize(n)]]
      BY <2>1 DEF MadePools
    <3>2. [P[p] EXCEPT !.offset = P[p].offset + ChunkSize(n)].free = P[p].free
      BY <1>3 DEF Pool
    <3>3. DOMAIN Q = DOMAIN P /\ \A q \in DOMAIN P : Q[q].free = P[q].free
      BY <3>1, <3>2
    <3>4. \A q \in DOMAIN P : \A j \in DOMAIN P[q].free : j \in Nat
      BY <1>3
    <3> HIDE DEF Q
    <3> QED
      BY <2>1, <3>3, <3>4
  <2>2. CASE i # 0
    <3> DEFINE w == Without(P[p].free, i)
    <3>1. Q = [P EXCEPT ![p] = [P[p] EXCEPT !.free = w]]
      BY <2>2 DEF MadePools
    <3>2. /\ DOMAIN w = 1 .. (Len(P[p].free) - 1)
          /\ \A j \in 1 .. (Len(P[p].free) - 1) :
               w[j] = IF j < i THEN P[p].free[j] ELSE P[p].free[j + 1]
      BY DEF Without
    <3> HIDE DEF w
    <3>3. [P[p] EXCEPT !.free = w].free = w
      BY <1>3 DEF Pool
    <3>4. DOMAIN Q = DOMAIN P /\ Q[p].free = w /\ \A q \in DOMAIN P : q # p => Q[q] = P[q]
      BY <3>1, <3>3
    <3> HIDE DEF Q
    <3>5. P[p].free \in Seq(Nat \X Nat) /\ Len(P[p].free) \in Nat
          /\ DOMAIN P[p].free = 1 .. Len(P[p].free) /\ i \in 1 .. Len(P[p].free)
      BY <1>3, <2>2
    <3>6. ASSUME NEW q \in DOMAIN P, NEW j \in DOMAIN Q[q].free
          PROVE  /\ j \in Nat /\ Shift(q, j) \in DOMAIN P[q].free
                 /\ Q[q].free[j] = P[q].free[Shift(q, j)]
                 /\ ~(q = p /\ i # 0 /\ Shift(q, j) = i)
      <4>1. CASE q = p
        <5>1. j \in 1 .. (Len(P[p].free) - 1) /\ Q[q].free[j] = w[j]
          BY <4>1, <3>2, <3>4
        <5>4. /\ j \in Nat /\ i \in Nat /\ Len(P[p].free) \in Nat
              /\ 1 <= j /\ j + 1 <= Len(P[p].free)
          <6> HIDE DEF Shift
          <6> QED BY <5>1, <3>5
        <5>2. CASE j < i
          <6>1. Shift(q, j) = j /\ j \in 1 .. Len(P[p].free) /\ j # i /\ j \in Nat
            BY <5>2, <5>4
          <6>2. w[j] = P[p].free[j]
            BY <5>1, <5>2, <3>2
          <6> HIDE DEF Shift
          <6> QED
            BY <6>1, <6>2, <5>1, <4>1, <3>5
        <5>3. CASE j >= i
          <6>1. Shift(q, j) = j + 1 /\ j + 1 \in 1 .. Len(P[p].free) /\ j + 1 # i /\ j \in Nat
            BY <5>3, <5>4, <4>1, <2>2
          <6>2. w[j] = P[p].free[j + 1]
            BY <5>1, <5>3, <5>4, <3>2
          <6> HIDE DEF Shift
          <6> QED
            BY <6>1, <6>2, <5>1, <4>1, <3>5
        <5> QED
          BY <5>2, <5>3, <5>4
      <4>2. CASE q # p
        <5>1. Q[q] = P[q] /\ j \in Nat
          BY <4>2, <3>4, <1>3
        <5> QED
          BY <5>1, <4>2
      <4> QED
        BY <4>1, <4>2
    <3> QED
      BY <3>4, <3>6
  <2> QED
    BY <2>1, <2>2
<1>11. NodesDistinct(Q)
  <2> SUFFICES ASSUME NEW q \in DOMAIN P, NEW r \in DOMAIN P,
                      NEW j \in DOMAIN Q[q].free, NEW k \in DOMAIN Q[r].free,
                      Q[q].free[j] = Q[r].free[k]
               PROVE  q = r /\ j = k
    BY <1>10 DEF NodesDistinct
  <2>1. q = r /\ Shift(q, j) = Shift(r, k)
    <3>1. P[q].free[Shift(q, j)] = P[r].free[Shift(r, k)]
      BY <1>10
    <3>2. Shift(q, j) \in DOMAIN P[q].free /\ Shift(r, k) \in DOMAIN P[r].free
      BY <1>10
    <3> HIDE DEF Shift, Q
    <3> QED
      BY <3>1, <3>2, <1>1 DEF Linked, NodesDistinct
  <2>2. j \in Nat /\ k \in Nat /\ i \in Int
    BY <1>10
  <2> HIDE DEF Q
  <2> QED
    BY <2>1, <2>2
<1>12. ASSUME NEW q \in DOMAIN Q, NEW j \in DOMAIN Q[q].free
       PROVE  /\ q \in DOMAIN P /\ Q[q].free[j] \in heads /\ Q[q].free[j] # b
              /\ \E k \in DOMAIN P[q].free : Q[q].free[j] = P[q].free[k]
  <2>1. /\ q \in DOMAIN P /\ Shift(q, j) \in DOMAIN P[q].free
        /\ Q[q].free[j] = P[q].free[Shift(q, j)]
        /\ ~(q = p /\ i # 0 /\ Shift(q, j) = i)
    BY <1>10
  <2> HIDE DEF Shift, Q
  <2>2. Q[q].free[j] \in heads
    BY <2>1, <1>5
  <2>3. CASE i = 0
    BY <2>1, <2>2, <2>3, <1>6
  <2>4. CASE i # 0
    <3>1. b = P[p].free[i] /\ i \in DOMAIN P[p].free
      BY <2>4, <1>4, <1>7
    <3>2. ASSUME Q[q].free[j] = b PROVE FALSE
      <4>1. P[q].free[Shift(q, j)] = P[p].free[i]
        BY <3>1, <3>2, <2>1
      <4>2. NodesDistinct(P)
        BY <1>1 DEF Linked
      <4>3. q = p /\ Shift(q, j) = i
        BY <4>1, <4>2, <3>1, <2>1 DEF NodesDistinct
      <4> QED
        BY <4>3, <2>1, <2>4
    <3> QED
      BY <3>2, <2>1, <2>2
  <2> QED
    BY <2>3, <2>4
<1>13. /\ DOMAIN f = DOMAIN s
       /\ \A x \in heads : x # b =>
            \A z \in UseFlags : z \in f[x] <=> z \in bitflags[x]
  <2> DEFINE g == With(bitflags, b, CreatedFlags(P, n, p, i))
  <2>1. DOMAIN g = DOMAIN s /\ \A x \in heads : x # b => g[x] = bitflags[x]
    BY <1>9 DEF With, TypeOK
  <2>2. b \in DOMAIN s /\ heads \subseteq DOMAIN s
    BY <1>9
  <2>3. f = UpdatedFlags(g, s, Q, b, wild)
    BY DEF MadeFlags
  <2>4. DOMAIN f = DOMAIN s
    <3>1. CreatedFlags(P, n, p, i) \subseteq Flags
      BY DEF CreatedFlags, Flags
    <3>2. \A x \in DOMAIN s : g[x] \subseteq Flags
      BY <1>9, <2>1, <3>1 DEF TypeOK, With
    <3> HIDE DEF g, s, b, Q, f
    <3> QED BY <2>1, <2>2, <2>3, <3>2, FlagsKept
  <2>5. ASSUME NEW x \in heads, x # b, NEW z \in UseFlags
        PROVE  z \in f[x] <=> z \in bitflags[x]
    <3>1. x \in DOMAIN s /\ g[x] = bitflags[x]
      BY <2>1, <2>2, <2>5
    <3> HIDE DEF g, s, b, Q, f
    <3>2. z \in UpdatedFlags(g, s, Q, b, wild)[x] <=> z \in g[x]
      BY <2>1, <2>2, <3>1, UseFlagsStay
    <3> QED
      BY <2>3, <3>1, <3>2
  <2> QED
    BY <2>4, <2>5
<1> HIDE DEF b, Q, s, f
<1>14. /\ NodesDistinct(Q)
       /\ \A q \in DOMAIN Q : \A j \in DOMAIN Q[q].free :
            /\ q \in DOMAIN P /\ Q[q].free[j] \in heads /\ Q[q].free[j] # b
            /\ \E k \in DOMAIN P[q].free : Q[q].free[j] = P[q].free[k]
       /\ b \in heads => "FREE" \in bitflags[b] /\ "ALLOCATED" \notin bitflags[b]
       /\ DOMAIN s = heads \cup {b} /\ DOMAIN f = DOMAIN s
       /\ s[b] = ChunkSize(n)
       /\ \A x \in heads : s[x] = chunk_size[x]
       /\ \A x \in heads : x # b => \A z \in UseFlags : z \in f[x] <=> z \in bitflags[x]
  BY <1>8, <1>9, <1>11, <1>12, <1>13
<1> QED
  BY <1>14, Zenon DEF Taken, b, Q, s, f

(***************************************************************************)
(* A header made in safety leaves the lists linked.  g and d stand for the *)
(* flags and deadzones after the call, which syn_realloc changes further.  *)
(***************************************************************************)
LEMMA MadeLinked ==
  ASSUME TypeOK, Placed(pools, chunk_size, deadzone),
         Linked(pools, chunk_size, bitflags, deadzone),
         NEW P, Grows(P),
         NEW n \in Nat, n < WORD, n % 16 = 0,
         NEW p \in DOMAIN P, NEW i \in 0 .. Len(P[p].free), Serves(P, n, p, i),
         NEW wild, ChunkSize(n) >= n + 32,
         NEW g,
         \A x \in heads : x # Spot(P, p, i) =>
           \/ g[x] = MadeFlags(P, n, p, i, wild)[x]
           \/ "FREE" \in g[x] /\ "ALLOCATED" \notin g[x],
         NEW d,
         \A x \in DOMAIN MadeTags(P, n, p, i) :
           x # NextHead(MadeSizes(P, n, p, i), Spot(P, p, i)) =>
             d[x] = MadeTags(P, n, p, i)[x]
  PROVE  Linked(MadePools(P, n, p, i), MadeSizes(P, n, p, i), g, d)
<1> DEFINE b == Spot(P, p, i)
           Q == MadePools(P, n, p, i)
           s == MadeSizes(P, n, p, i)
           f == MadeFlags(P, n, p, i, wild)
           t == MadeTags(P, n, p, i)
<1>1. /\ NodesDistinct(Q)
      /\ \A q \in DOMAIN Q : \A j \in DOMAIN Q[q].free :
           /\ q \in DOMAIN P /\ Q[q].free[j] \in heads /\ Q[q].free[j] # b
           /\ \E k \in DOMAIN P[q].free : Q[q].free[j] = P[q].free[k]
      /\ DOMAIN s = heads \cup {b}
      /\ s[b] = ChunkSize(n)
      /\ \A x \in heads : s[x] = chunk_size[x]
      /\ \A x \in heads : x # b => \A z \in UseFlags : z \in f[x] <=> z \in bitflags[x]
  <2>1. Taken(P, n, p, i, wild)
    <3> HIDE DEF b, Q, s, f, t
    <3> QED BY HeaderTaken
  <2> QED
    BY <2>1, Zenon DEF Taken
<1>2. /\ Shape(Q, s, f, t) /\ Placed(Q, s, t)
  BY HeaderMade, Zenon
<1>3. /\ \A x \in heads : x # b => g[x] = f[x] \/ ("FREE" \in g[x] /\ "ALLOCATED" \notin g[x])
      /\ \A x \in DOMAIN t : x # NextHead(s, b) => d[x] = t[x]
  OBVIOUS
<1>4. \A x \in DOMAIN t : x # NextHead(s, b) => t[x] = deadzone[x]
  BY DEF MadeTags, With
<1>5. Linked(P, chunk_size, bitflags, deadzone)
  BY GrownLists
<1>6. ChunkSize(n) \in Nat /\ ChunkSize(n) > 0
  BY ChunkExact
<1> HIDE DEF b, Q, s, f, t
<1>7. NodesFree(Q, g, DOMAIN s)
  <2> SUFFICES ASSUME NEW q \in DOMAIN Q, NEW j \in DOMAIN Q[q].free
               PROVE  /\ Q[q].free[j] \in DOMAIN s
                      /\ "FREE" \in g[Q[q].free[j]] /\ "ALLOCATED" \notin g[Q[q].free[j]]
    BY DEF NodesFree
  <2>1. PICK k \in DOMAIN P[q].free : Q[q].free[j] = P[q].free[k]
    BY <1>1
  <2>2. q \in DOMAIN P /\ Q[q].free[j] \in heads /\ Q[q].free[j] # b
    BY <1>1
  <2>3. "FREE" \in bitflags[Q[q].free[j]] /\ "ALLOCATED" \notin bitflags[Q[q].free[j]]
    BY <2>1, <2>2, <1>5 DEF Linked, NodesFree
  <2>4. "FREE" \in f[Q[q].free[j]] /\ "ALLOCATED" \notin f[Q[q].free[j]]
    BY <2>2, <2>3, <1>1 DEF UseFlags
  <2> QED
    BY <2>2, <2>4, <1>1, <1>3
<1>8. SizesPositive(s)
  <2>1. \A x \in heads : chunk_size[x] > 0
    BY DEF Linked, SizesPositive, heads
  <2> QED
    BY <2>1, <1>1, <1>6 DEF SizesPositive
<1>9. ListsMatchTags(Q, s, d)
  <2> SUFFICES ASSUME NEW q \in DOMAIN Q, NEW j \in DOMAIN Q[q].free
               PROVE  d[NextHead(s, Q[q].free[j])].pool_ptr = q
    BY DEF ListsMatchTags
  <2> DEFINE x == Q[q].free[j]
  <2>1. PICK k \in DOMAIN P[q].free : x = P[q].free[k]
    BY <1>1
  <2>2. q \in DOMAIN P /\ x \in heads /\ x # b
    BY <1>1
  <2> HIDE DEF x
  <2>3. x \in DOMAIN s /\ b \in DOMAIN s /\ s[x] = chunk_size[x]
    BY <2>2, <1>1
  <2>4. NextHead(s, x) = NextHead(chunk_size, x)
    BY <2>3 DEF NextHead
  <2>5. deadzone[NextHead(chunk_size, x)].pool_ptr = q
    BY <2>1, <2>2, <1>5 DEF Linked, ListsMatchTags
  <2>6. NextHead(s, x) # NextHead(s, b)
    <3>1. DOMAIN s \subseteq (1 .. Len(Q)) \X Nat /\ \A a \in DOMAIN s : s[a] \in Nat
      BY <1>2 DEF Shape
    <3>2. ChunksApart(s)
      BY <1>2 DEF Placed
    <3> QED
      BY <3>1, <3>2, <2>2, <2>3, <1>8, EndsDiffer
  <2>7. NextHead(s, x) \in DOMAIN t
    BY <2>3, <1>2 DEF Placed, TagsNamePools
  <2>8. d[NextHead(s, x)] = deadzone[NextHead(s, x)]
    BY <2>6, <2>7, <1>3, <1>4
  <2> QED
    BY <2>4, <2>5, <2>8 DEF x
<1> QED
  BY <1>1, <1>7, <1>8, <1>9 DEF Linked, b, Q, s

-----------------------------------------------------------------------------
(***************************************************************************)
(* Every action keeps the invariant.                                       *)
(***************************************************************************)

\* syn_alloc.
LEMMA AllocLinked ==
  ASSUME HeapInv, FreeInv, NEW size \in Requests, NEW a, HeapAlloc(size, a)
  PROVE  FreeInv'
<1> DEFINE n == PaddedSize(size)
           P == Supply(size, n)
<1>1. /\ TypeOK /\ Placed(pools, chunk_size, deadzone)
      /\ Linked(pools, chunk_size, bitflags, deadzone)
  BY DEF HeapInv, FreeInv, HeapAlloc, Alive, Safe
<1>2. n \in Nat /\ n < WORD /\ n % 16 = 0
  BY RequestsAssumption, RequestAligned
<1>3. Grows(P)
  BY <1>1, SupplyGrows
<1> HIDE DEF n
<1>4. PICK p \in DOMAIN P, i \in Int, wild \in Wild :
        /\ i \in 0 .. Len(P[p].free)
        /\ Serves(P, n, p, i)
        /\ pools' = MadePools(P, n, p, i)
        /\ chunk_size' = MadeSizes(P, n, p, i)
        /\ deadzone' = MadeTags(P, n, p, i)
        /\ bitflags' = MadeFlags(P, n, p, i, wild)
        /\ fate' = MadeFate(P, n, p, i, wild)
  BY DEF HeapAlloc, n
<1> HIDE DEF P
<1>5. ASSUME Safe' PROVE Linked(pools', chunk_size', bitflags', deadzone')
  <2>1. ChunkSize(n) >= n + 32
    BY <1>2, <1>4, <1>5, MadeSafely DEF Safe
  <2>2. Linked(MadePools(P, n, p, i), MadeSizes(P, n, p, i),
               MadeFlags(P, n, p, i, wild), MadeTags(P, n, p, i))
    BY <1>1, <1>2, <1>3, <1>4, <2>1, MadeLinked
  <2> QED
    BY <1>4, <2>2
<1> QED
  BY <1>5 DEF FreeInv

\* The outcome of syn_realloc of a to b, served by spot i of pool p.
Reallocated(a, b, n, P, p, i, wild) ==
  /\ n < WORD /\ n % 16 = 0 /\ Grows(P)
  /\ p \in DOMAIN P /\ i \in 0 .. Len(P[p].free) /\ Serves(P, n, p, i)
  /\ b = Spot(P, p, i)
  /\ pools' = MadePools(P, n, p, i)
  /\ chunk_size' = MadeSizes(P, n, p, i)
  /\ deadzone' = Copied(MadeTags(P, n, p, i), a, b, n)
  /\ bitflags' = [MadeFlags(P, n, p, i, wild) EXCEPT
                    ![b] = MadeFlags(P, n, p, i, wild)[a],
                    ![a] = Freed(MadeFlags(P, n, p, i, wild)[a])]
  /\ fate' = "ok" => ChunkSize(n) >= n + 32

\* Every step of syn_realloc has such an outcome.
LEMMA ReallocMade ==
  ASSUME HeapInv, NEW a, NEW size \in ReallocRequests, NEW b, HeapRealloc(a, size, b)
  PROVE  \E n, P, p, i, wild : n \in Nat /\ Reallocated(a, b, n, P, p, i, wild)
<1> DEFINE n == ReallocSize(size)
           P == Supply(size, n)
<1>1. TypeOK
  BY DEF HeapInv
<1>2. n \in Nat /\ n < WORD /\ n % 16 = 0
  BY RequestsAssumption, RequestAligned
<1>3. Grows(P)
  BY <1>1, SupplyGrows
<1> HIDE DEF n
<1>4. PICK p \in DOMAIN P : \E i \in 0 .. Len(P[p].free) :
        /\ Serves(P, n, p, i)
        /\ b = Spot(P, p, i)
        /\ pools' = MadePools(P, n, p, i)
        /\ chunk_size' = MadeSizes(P, n, p, i)
        /\ deadzone' = Copied(MadeTags(P, n, p, i), a, b, n)
        /\ \E wild \in Wild :
             LET f == MadeFlags(P, n, p, i, wild)
             IN  /\ bitflags' = [f EXCEPT ![b] = f[a], ![a] = Freed(f[a])]
                 /\ fate' = IF chunk_size[a] > ChunkSize(n)
                              THEN "overrun" ELSE MadeFate(P, n, p, i, wild)
  BY Zenon DEF HeapRealloc, n
<1>5. PICK i \in 0 .. Len(P[p].free) :
        /\ Serves(P, n, p, i)
        /\ b = Spot(P, p, i)
        /\ pools' = MadePools(P, n, p, i)
        /\ chunk_size' = MadeSizes(P, n, p, i)
        /\ deadzone' = Copied(MadeTags(P, n, p, i), a, b, n)
        /\ \E wild \in Wild :
             LET f == MadeFlags(P, n, p, i, wild)
             IN  /\ bitflags' = [f EXCEPT ![b] = f[a], ![a] = Freed(f[a])]
                 /\ fate' = IF chunk_size[a] > ChunkSize(n)
                              THEN "overrun" ELSE MadeFate(P, n, p, i, wild)
  BY <1>4, Zenon
<1>6. PICK wild \in Wild :
        /\ bitflags' = [MadeFlags(P, n, p, i, wild) EXCEPT
                          ![b] = MadeFlags(P, n, p, i, wild)[a],
                          ![a] = Freed(MadeFlags(P, n, p, i, wild)[a])]
        /\ fate' = IF chunk_size[a] > ChunkSize(n)
                     THEN "overrun" ELSE MadeFate(P, n, p, i, wild)
  BY <1>5
<1>7. fate' = "ok" => ChunkSize(n) >= n + 32
  <2>1. fate' = "ok" => MadeFate(P, n, p, i, wild) = "ok"
    BY <1>6
  <2> QED
    BY <1>2, <2>1, MadeSafely
<1> HIDE DEF P
<1>8. Reallocated(a, b, n, P, p, i, wild)
  BY <1>2, <1>3, <1>5, <1>6, <1>7 DEF Reallocated
<1> QED
  BY <1>2, <1>8

\* syn_realloc: the copy touches only the deadzone behind the new header, which is
\* on no list.
LEMMA ReallocLinked ==
  ASSUME HeapInv, FreeInv, NEW a, NEW size \in ReallocRequests, NEW b, HeapRealloc(a, size, b)
  PROVE  FreeInv'
<1>1. /\ TypeOK /\ Placed(pools, chunk_size, deadzone) /\ a \in heads
      /\ Linked(pools, chunk_size, bitflags, deadzone)
  BY DEF HeapInv, FreeInv, HeapRealloc, Alive, Safe, Unfrozen
<1>p. PICK n, P, p, i, wild : n \in Nat /\ Reallocated(a, b, n, P, p, i, wild)
  BY ReallocMade
<1>2. /\ n \in Nat /\ n < WORD /\ n % 16 = 0 /\ Grows(P)
      /\ p \in DOMAIN P /\ i \in 0 .. Len(P[p].free) /\ Serves(P, n, p, i)
      /\ b = Spot(P, p, i)
      /\ pools' = MadePools(P, n, p, i)
      /\ chunk_size' = MadeSizes(P, n, p, i)
      /\ deadzone' = Copied(MadeTags(P, n, p, i), a, b, n)
      /\ bitflags' = [MadeFlags(P, n, p, i, wild) EXCEPT
                        ![b] = MadeFlags(P, n, p, i, wild)[a],
                        ![a] = Freed(MadeFlags(P, n, p, i, wild)[a])]
      /\ fate' = "ok" => ChunkSize(n) >= n + 32
  BY <1>p DEF Reallocated
<1> DEFINE f == MadeFlags(P, n, p, i, wild)
           s == MadeSizes(P, n, p, i)
           t == MadeTags(P, n, p, i)
<1>3. DOMAIN s = heads \cup {b} /\ DOMAIN f = DOMAIN s /\ s[b] = ChunkSize(n)
  <2>1. Taken(P, n, p, i, wild)
    <3> HIDE DEF f, s, t
    <3> QED BY <1>1, <1>2, HeaderTaken
  <2> QED
    BY <1>2, <2>1 DEF Taken
<1>4. ASSUME NEW x \in heads, x # b
      PROVE  bitflags'[x] = f[x] \/ ("FREE" \in bitflags'[x] /\ "ALLOCATED" \notin bitflags'[x])
  <2>1. bitflags' = [f EXCEPT ![b] = f[a], ![a] = Freed(f[a])]
    BY <1>2
  <2>2. x \in DOMAIN f
    BY <1>3
  <2> HIDE DEF f
  <2>3. bitflags'[x] = IF x = a THEN Freed(f[a]) ELSE f[x]
    BY <1>4, <2>1, <2>2
  <2> QED
    BY <2>3 DEF Freed
<1>5. ASSUME NEW x \in DOMAIN t, x # NextHead(s, b)
      PROVE  deadzone'[x] = t[x]
  <2>1. NextHead(s, b) = <<b[1], b[2] + ChunkSize(n)>>
    BY <1>3 DEF NextHead
  <2>2. deadzone' = Copied(t, a, b, n)
    BY <1>2
  <2> HIDE DEF s, t
  <2> QED
    BY <1>5, <2>1, <2>2 DEF Copied
<1>6. ASSUME Safe' PROVE Linked(pools', chunk_size', bitflags', deadzone')
  <2>1. ChunkSize(n) >= n + 32
    BY <1>2, <1>6 DEF Safe
  <2>2. Linked(MadePools(P, n, p, i), s, bitflags', deadzone')
    <3>1. \A x \in heads : x # Spot(P, p, i) =>
            \/ bitflags'[x] = MadeFlags(P, n, p, i, wild)[x]
            \/ "FREE" \in bitflags'[x] /\ "ALLOCATED" \notin bitflags'[x]
      BY <1>2, <1>4
    <3>2. \A x \in DOMAIN MadeTags(P, n, p, i) :
            x # NextHead(MadeSizes(P, n, p, i), Spot(P, p, i)) =>
              deadzone'[x] = MadeTags(P, n, p, i)[x]
      BY <1>2, <1>5
    <3> QED
      BY <1>1, <1>2, <2>1, <3>1, <3>2, MadeLinked
  <2> QED
    BY <1>2, <2>2
<1> QED
  BY <1>6 DEF FreeInv

\* syn_alloc or syn_realloc when no pool can serve the request.
LEMMA GiveUpLinked ==
  ASSUME HeapInv, FreeInv, NEW size, NEW n, HeapGiveUp(size, n)
  PROVE  FreeInv'
<1> DEFINE P == Supply(size, n)
<1>1. TypeOK /\ Linked(pools, chunk_size, bitflags, deadzone)
  BY DEF HeapInv, FreeInv, HeapGiveUp, Alive, Safe
<1>2. Grows(P)
  BY <1>1, SupplyGrows
<1>3. pools' = P /\ UNCHANGED <<chunk_size, bitflags, deadzone, fate>>
  BY DEF HeapGiveUp
<1> HIDE DEF P
<1>4. Linked(P, chunk_size, bitflags, deadzone)
  BY <1>1, <1>2, GrownLists
<1> QED
  BY <1>3, <1>4 DEF FreeInv

\* syn_free: a header that is not on the list its deadzone names is on no list.
LEMMA FreeLinked ==
  ASSUME HeapInv, FreeInv, NEW a, HeapFree(a)
  PROVE  FreeInv'
<1> DEFINE p == ReturnPool(a)
           g == [bitflags EXCEPT ![a] = Freed(@)]
           L == pools[p].free
<1>1. /\ TypeOK /\ Placed(pools, chunk_size, deadzone)
      /\ Linked(pools, chunk_size, bitflags, deadzone)
      /\ a \in heads /\ UNCHANGED <<chunk_size, deadzone>>
  BY DEF HeapInv, FreeInv, HeapFree, Safe, Unfrozen
<1>2. p \in DOMAIN pools
  BY <1>1, ReturnedPool
<1> SUFFICES ASSUME Safe' PROVE Linked(pools', chunk_size', bitflags', deadzone')
  BY DEF FreeInv
<1>3. /\ ~ \E i \in DOMAIN L : L[i] = a
      /\ pools' = [pools EXCEPT ![p].free = Append(@, a)]
      /\ \E wild \in Wild : bitflags' = UpdatedFlags(g, chunk_size, pools, a, wild)
  BY DEF HeapFree, Safe
<1>4. PICK wild \in Wild : bitflags' = UpdatedFlags(g, chunk_size, pools, a, wild)
  BY <1>3
<1>5. /\ DOMAIN g = heads /\ "FREE" \in g[a] /\ "ALLOCATED" \notin g[a]
      /\ \A x \in heads : x # a => g[x] = bitflags[x]
  BY <1>1 DEF TypeOK, Freed
<1> HIDE DEF g
<1>6. \A x \in heads : \A z \in UseFlags : z \in bitflags'[x] <=> z \in g[x]
  BY <1>1, <1>4, <1>5, UseFlagsStay
<1>7. a = <<a[1], a[2]>> /\ pools[p] \in Pool /\ pools \in Seq(Pool) /\ a \in Nat \X Nat
  BY <1>1, <1>2 DEF TypeOK, Addresses
<1>8. L \in Seq(Nat \X Nat)
  <2> HIDE DEF p
  <2> QED BY <1>7 DEF Pool
<1> DEFINE N == [pools[p] EXCEPT !.free = Append(L, a)]
<1>9. pools' = [pools EXCEPT ![p] = N]
  BY <1>3
<1>10. N.free = Append(L, a)
  <2> HIDE DEF p, L
  <2> QED BY <1>7 DEF Pool
<1> HIDE DEF p, N
<1>11. /\ DOMAIN pools' = DOMAIN pools
       /\ \A q \in DOMAIN pools : pools'[q].free = IF q = p THEN Append(L, a) ELSE pools[q].free
  BY <1>9, <1>10
<1>12. /\ Len(L) \in Nat /\ DOMAIN L = 1 .. Len(L)
       /\ DOMAIN Append(L, a) = 1 .. (Len(L) + 1)
       /\ \A i \in 1 .. Len(L) : Append(L, a)[i] = L[i]
       /\ Append(L, a)[Len(L) + 1] = a
  <2> HIDE DEF L
  <2> QED BY <1>7, <1>8
<1> HIDE DEF L
<1> DEFINE New(q, i) == q = p /\ i = Len(L) + 1
<1>13. \A q \in DOMAIN pools : \A i \in DOMAIN pools'[q].free :
         IF New(q, i) THEN pools'[q].free[i] = a
                      ELSE i \in DOMAIN pools[q].free /\ pools'[q].free[i] = pools[q].free[i]
  <2> SUFFICES ASSUME NEW q \in DOMAIN pools, NEW i \in DOMAIN pools'[q].free
               PROVE  IF New(q, i) THEN pools'[q].free[i] = a
                      ELSE i \in DOMAIN pools[q].free /\ pools'[q].free[i] = pools[q].free[i]
    OBVIOUS
  <2>1. CASE q = p
    <3>1. pools'[q].free = Append(L, a) /\ pools[q].free = L
      BY <2>1, <1>11 DEF L
    <3>2. i \in 1 .. (Len(L) + 1)
      BY <3>1, <1>12
    <3> QED
      BY <2>1, <3>1, <3>2, <1>12
  <2>2. CASE q # p
    BY <2>2, <1>11
  <2> QED
    BY <2>1, <2>2
<1>14. \A q \in DOMAIN pools : \A i \in DOMAIN pools[q].free : pools[q].free[i] # a
  <2> SUFFICES ASSUME NEW q \in DOMAIN pools, NEW i \in DOMAIN pools[q].free,
                      pools[q].free[i] = a
               PROVE  FALSE
    OBVIOUS
  <2>1. deadzone[NextHead(chunk_size, a)].pool_ptr = q
    BY <1>1 DEF Linked, ListsMatchTags
  <2>2. q = p
    BY <2>1 DEF p, ReturnPool, Behind, NextHead
  <2> QED
    BY <2>2, <1>3 DEF L
<1>15. NodesFree(pools', bitflags', heads)
  <2> SUFFICES ASSUME NEW q \in DOMAIN pools, NEW i \in DOMAIN pools'[q].free
               PROVE  /\ pools'[q].free[i] \in heads
                      /\ "FREE" \in bitflags'[pools'[q].free[i]]
                      /\ "ALLOCATED" \notin bitflags'[pools'[q].free[i]]
    BY <1>11 DEF NodesFree
  <2>1. CASE New(q, i)
    <3>1. pools'[q].free[i] = a
      BY <2>1, <1>13
    <3> QED
      BY <3>1, <1>1, <1>5, <1>6 DEF UseFlags
  <2>2. CASE ~New(q, i)
    <3> DEFINE x == pools[q].free[i]
    <3>1. i \in DOMAIN pools[q].free /\ pools'[q].free[i] = x
      BY <2>2, <1>13
    <3>2. x \in heads /\ "FREE" \in bitflags[x] /\ "ALLOCATED" \notin bitflags[x] /\ x # a
      BY <3>1, <1>1, <1>14 DEF Linked, NodesFree, heads
    <3> HIDE DEF x
    <3>3. "FREE" \in bitflags'[x] /\ "ALLOCATED" \notin bitflags'[x]
      BY <3>2, <1>5, <1>6 DEF UseFlags
    <3> QED
      BY <3>1, <3>2, <3>3
  <2> QED
    BY <2>1, <2>2
<1>16. NodesDistinct(pools')
  <2> SUFFICES ASSUME NEW q \in DOMAIN pools, NEW r \in DOMAIN pools,
                      NEW i \in DOMAIN pools'[q].free, NEW j \in DOMAIN pools'[r].free,
                      pools'[q].free[i] = pools'[r].free[j]
               PROVE  q = r /\ i = j
    BY <1>11 DEF NodesDistinct
  <2>1. CASE New(q, i) /\ New(r, j)
    BY <2>1
  <2>2. CASE New(q, i) /\ ~New(r, j)
    BY <2>2, <1>13, <1>14
  <2>3. CASE ~New(q, i) /\ New(r, j)
    BY <2>3, <1>13, <1>14
  <2>4. CASE ~New(q, i) /\ ~New(r, j)
    <3>1. i \in DOMAIN pools[q].free /\ j \in DOMAIN pools[r].free
          /\ pools[q].free[i] = pools[r].free[j]
      BY <2>4, <1>13
    <3> QED
      BY <3>1, <1>1 DEF Linked, NodesDistinct
  <2> QED
    BY <2>1, <2>2, <2>3, <2>4
<1>17. ListsMatchTags(pools', chunk_size, deadzone)
  <2> SUFFICES ASSUME NEW q \in DOMAIN pools, NEW i \in DOMAIN pools'[q].free
               PROVE  deadzone[NextHead(chunk_size, pools'[q].free[i])].pool_ptr = q
    BY <1>11 DEF ListsMatchTags
  <2>1. CASE New(q, i)
    <3>1. pools'[q].free[i] = a /\ q = p
      BY <2>1, <1>13
    <3> QED
      BY <3>1 DEF p, ReturnPool, Behind, NextHead
  <2>2. CASE ~New(q, i)
    <3>1. i \in DOMAIN pools[q].free /\ pools'[q].free[i] = pools[q].free[i]
      BY <2>2, <1>13
    <3> QED
      BY <3>1, <1>1 DEF Linked, ListsMatchTags
  <2> QED
    BY <2>1, <2>2
<1> QED
  BY <1>1, <1>15, <1>16, <1>17 DEF Linked, heads

\* syn_freeze and syn_thaw change no flag that the lists depend on.
LEMMA FreezeThawLinked ==
  ASSUME HeapInv, FreeInv, NEW a, HeapFreeze(a) \/ HeapThaw(a)
  PROVE  FreeInv'
<1>1. /\ TypeOK /\ Linked(pools, chunk_size, bitflags, deadzone) /\ a \in heads
      /\ bitflags' = [bitflags EXCEPT ![a] = @ \cup {"FROZEN"}] \/
         bitflags' = [bitflags EXCEPT ![a] = @ \ {"FROZEN"}]
      /\ UNCHANGED <<pools, chunk_size, deadzone, fate>>
  BY DEF HeapInv, FreeInv, Safe, HeapFreeze, HeapThaw, Unfrozen
<1>2. \A x \in heads : \A z \in {"FREE", "ALLOCATED"} : z \in bitflags'[x] <=> z \in bitflags[x]
  BY <1>1 DEF TypeOK
<1>3. NodesFree(pools, bitflags', heads)
  BY <1>1, <1>2 DEF Linked, NodesFree, heads
<1> QED
  BY <1>1, <1>3 DEF FreeInv, Linked, heads

\* syn_reset and syn_destroy leave empty lists.
LEMMA ClearedLinked == ASSUME HeapInv, HeapReset \/ HeapDestroy PROVE FreeInv'
<1>1. DOMAIN <<>> = {}
  OBVIOUS
<1>2. chunk_size' = <<>> /\ \A q \in DOMAIN pools' : pools'[q].free = <<>>
  <2>1. CASE HeapReset
    <3> DEFINE N == [pools[1] EXCEPT !.offset = 0, !.free = <<>>]
    <3>1. pools' = <<N>> /\ chunk_size' = <<>> /\ pools # <<>> /\ pools \in Seq(Pool)
      BY <2>1 DEF HeapReset, NoHeaders, HeapInv, TypeOK
    <3>2. pools[1] \in Pool
      BY <3>1
    <3>3. N.free = <<>>
      BY <3>2 DEF Pool
    <3> HIDE DEF N
    <3> QED
      BY <3>1, <3>3
  <2>2. CASE HeapDestroy
    BY <2>2, <1>1 DEF HeapDestroy, NoHeaders
  <2> QED
    BY <2>1, <2>2
<1> QED
  BY <1>1, <1>2 DEF FreeInv, Linked, NodesFree, NodesDistinct, ListsMatchTags, SizesPositive

\* mmap fails, the walk of the pools fails, or nothing happens any more.
LEMMA FaultLinked ==
  ASSUME FreeInv,
         \/ \E size, n : HeapMapFails(size, n)
         \/ PoolArrayFault
         \/ UNCHANGED heapVars
  PROVE  FreeInv'
<1>1. CASE UNCHANGED heapVars
  BY <1>1 DEF heapVars, FreeInv, Safe
<1>2. CASE (\E size, n : HeapMapFails(size, n)) \/ PoolArrayFault
  BY <1>2 DEF HeapMapFails, PoolArrayFault, FreeInv, Safe
<1> QED
  BY <1>1, <1>2

\* No list holds anything before the first call.
LEMMA InitLinked == HeapInit => FreeInv
<1>1. DOMAIN <<>> = {}
  OBVIOUS
<1> QED
  BY <1>1 DEF HeapInit, FreeInv, Linked, NodesFree, NodesDistinct, ListsMatchTags, SizesPositive

\* The invariant is inductive, given the one of PoolHeapProofs.
LEMMA NextLinked == HeapInv /\ FreeInv /\ [HeapNext]_heapVars => FreeInv'
<1> SUFFICES ASSUME HeapInv, FreeInv, [HeapNext]_heapVars PROVE FreeInv'
  OBVIOUS
<1>1. ASSUME NEW size \in Requests, NEW a \in Targets, HeapAlloc(size, a) PROVE FreeInv'
  BY <1>1, AllocLinked
<1>2. ASSUME NEW size, NEW n, HeapGiveUp(size, n) PROVE FreeInv'
  BY <1>2, GiveUpLinked
<1>3. ASSUME NEW size, NEW n, HeapMapFails(size, n) PROVE FreeInv'
  BY <1>3, FaultLinked
<1>4. ASSUME NEW a \in Passed, HeapFree(a) PROVE FreeInv'
  BY <1>4, FreeLinked
<1>5. ASSUME NEW a \in Passed, HeapFreeze(a) \/ HeapThaw(a) PROVE FreeInv'
  BY <1>5, FreezeThawLinked
<1>6. ASSUME NEW a \in Passed, NEW size \in ReallocRequests, NEW b \in Targets,
             HeapRealloc(a, size, b)
      PROVE  FreeInv'
  BY <1>6, ReallocLinked
<1>7. ASSUME HeapReset \/ HeapDestroy PROVE FreeInv'
  BY <1>7, ClearedLinked
<1>8. ASSUME PoolArrayFault \/ Stopped \/ UNCHANGED heapVars PROVE FreeInv'
  BY <1>8, FaultLinked DEF Stopped
<1> QED
  BY <1>1, <1>2, <1>3, <1>4, <1>5, <1>6, <1>7, <1>8 DEF HeapNext

-----------------------------------------------------------------------------
(***************************************************************************)
(* The theorems.                                                           *)
(***************************************************************************)

\* The invariant holds in every state of the arena's memory.
THEOREM FreeInvariantHolds == HeapSpec => []FreeInv
<1>1. HeapInv /\ FreeInv /\ [HeapNext]_heapVars => FreeInv'
  BY NextLinked
<1> QED
  BY <1>1, InitLinked, InvariantHolds, PTL DEF HeapSpec

\* No header is listed twice and none that is in use is listed, with syn_realloc
\* and with callers that free what they have freed: no block is handed out twice.
THEOREM FreeListsHold == HeapSpec => []FreeListsSound
  BY LinkedIsSound, FreeInvariantHolds, PTL

-----------------------------------------------------------------------------
(***************************************************************************)
(* Frozen blocks.  A step keeps a header in use if it leaves it where it   *)
(* is, with its size, allocated and frozen.                                *)
(***************************************************************************)
Pinned(a) == {"ALLOCATED", "FROZEN"} \subseteq bitflags[a]

Kept(a) ==
  /\ a \in heads' /\ chunk_size'[a] = chunk_size[a]
  /\ "ALLOCATED" \in bitflags'[a] /\ "FROZEN" \in bitflags'[a]

\* syn_alloc takes new memory or a listed header, and a pinned one is not listed.
LEMMA AllocKeepsPinned ==
  ASSUME HeapInv, FreeInv, NEW size \in Requests, NEW b, HeapAlloc(size, b),
         NEW a \in heads, Pinned(a)
  PROVE  Kept(a)
<1> DEFINE n == PaddedSize(size)
           P == Supply(size, n)
<1>1. /\ TypeOK /\ Placed(pools, chunk_size, deadzone)
      /\ Linked(pools, chunk_size, bitflags, deadzone)
  BY DEF HeapInv, FreeInv, HeapAlloc, Alive, Safe
<1>2. n \in Nat /\ n < WORD /\ n % 16 = 0
  BY RequestsAssumption, RequestAligned
<1>3. Grows(P)
  BY <1>1, SupplyGrows
<1> HIDE DEF n
<1>4. PICK p \in DOMAIN P, i \in Int, wild \in Wild :
        /\ i \in 0 .. Len(P[p].free)
        /\ Serves(P, n, p, i)
        /\ chunk_size' = MadeSizes(P, n, p, i)
        /\ bitflags' = MadeFlags(P, n, p, i, wild)
  BY DEF HeapAlloc, n
<1> HIDE DEF P
<1>5. Taken(P, n, p, i, wild)
  BY <1>1, <1>2, <1>3, <1>4, HeaderTaken
<1>6. a # Spot(P, p, i)
  BY <1>5 DEF Taken, Pinned
<1> QED
  BY <1>4, <1>5, <1>6 DEF Taken, Pinned, Kept, UseFlags, heads

\* syn_realloc does so too, and refuses to move a frozen block.
LEMMA ReallocKeepsPinned ==
  ASSUME HeapInv, FreeInv, NEW c, NEW size \in ReallocRequests, NEW b,
         HeapRealloc(c, size, b), NEW a \in heads, Pinned(a)
  PROVE  Kept(a)
<1>1. /\ TypeOK /\ Placed(pools, chunk_size, deadzone)
      /\ Linked(pools, chunk_size, bitflags, deadzone)
      /\ c # a
  BY DEF HeapInv, FreeInv, HeapRealloc, Alive, Safe, Unfrozen, Pinned
<1>2. PICK n, P, p, i, wild : n \in Nat /\ Reallocated(c, b, n, P, p, i, wild)
  BY ReallocMade
<1>3. /\ n \in Nat /\ n < WORD /\ n % 16 = 0 /\ Grows(P)
      /\ p \in DOMAIN P /\ i \in 0 .. Len(P[p].free) /\ Serves(P, n, p, i)
      /\ b = Spot(P, p, i)
      /\ chunk_size' = MadeSizes(P, n, p, i)
      /\ bitflags' = [MadeFlags(P, n, p, i, wild) EXCEPT
                        ![b] = MadeFlags(P, n, p, i, wild)[c],
                        ![c] = Freed(MadeFlags(P, n, p, i, wild)[c])]
  BY <1>2 DEF Reallocated
<1>4. Taken(P, n, p, i, wild)
  BY <1>1, <1>3, HeaderTaken
<1>5. a # b
  BY <1>3, <1>4 DEF Taken, Pinned
<1> DEFINE f == MadeFlags(P, n, p, i, wild)
<1>6. /\ a \in DOMAIN f /\ a \in DOMAIN chunk_size' /\ chunk_size'[a] = chunk_size[a]
      /\ "ALLOCATED" \in f[a] /\ "FROZEN" \in f[a]
  BY <1>3, <1>4, <1>5 DEF Taken, Pinned, UseFlags
<1>7. bitflags'[a] = f[a]
  <2>1. bitflags' = [f EXCEPT ![b] = f[c], ![c] = Freed(f[c])]
    BY <1>3
  <2> HIDE DEF f
  <2> QED
    BY <1>1, <1>5, <1>6, <2>1
<1> QED
  BY <1>6, <1>7 DEF Kept, heads

\* syn_free refuses a frozen block, and the walk over the neighbours of another one
\* changes no flag of use.
LEMMA FreeKeepsPinned ==
  ASSUME HeapInv, FreeInv, NEW c, HeapFree(c), NEW a \in heads, Pinned(a)
  PROVE  Kept(a)
<1> DEFINE g == [bitflags EXCEPT ![c] = Freed(@)]
<1>1. TypeOK /\ c \in heads /\ c # a /\ chunk_size' = chunk_size
  BY DEF HeapInv, HeapFree, Unfrozen, Pinned
<1>2. DOMAIN g = heads /\ g[a] = bitflags[a]
  BY <1>1 DEF TypeOK
<1>3. \/ bitflags' = bitflags
      \/ \E wild \in Wild : bitflags' = UpdatedFlags(g, chunk_size, pools, c, wild)
  BY DEF HeapFree
<1> HIDE DEF g
<1>4. \A z \in UseFlags : z \in bitflags'[a] <=> z \in bitflags[a]
  BY <1>1, <1>2, <1>3, UseFlagsStay
<1> QED
  BY <1>1, <1>4 DEF Kept, Pinned, UseFlags, heads

\* One step of any kind: what FrozenIsPinned says of it.
LEMMA StepKeepsPinned ==
  ASSUME HeapInv, FreeInv, [HeapNext]_heapVars,
         NEW a \in heads, Pinned(a), Safe', heads' # {}
  PROVE  /\ a \in heads' /\ chunk_size'[a] = chunk_size[a]
         /\ "ALLOCATED" \in bitflags'[a]
         /\ "FROZEN" \in bitflags'[a] \/ HeapThaw(a)
<1> DEFINE Goal == /\ a \in heads' /\ chunk_size'[a] = chunk_size[a]
                   /\ "ALLOCATED" \in bitflags'[a]
                   /\ "FROZEN" \in bitflags'[a] \/ HeapThaw(a)
<1>1. ASSUME Kept(a) PROVE Goal
  BY <1>1 DEF Kept
<1>2. ASSUME UNCHANGED <<chunk_size, bitflags>> PROVE Goal
  BY <1>2 DEF heads, Pinned
<1> HIDE DEF Goal
<1>3. ASSUME NEW size \in Requests, NEW b \in Targets, HeapAlloc(size, b) PROVE Goal
  BY <1>1, <1>3, AllocKeepsPinned
<1>4. ASSUME NEW c \in Passed, NEW size \in ReallocRequests, NEW b \in Targets,
             HeapRealloc(c, size, b)
      PROVE  Goal
  BY <1>1, <1>4, ReallocKeepsPinned
<1>5. ASSUME NEW c \in Passed, HeapFree(c) PROVE Goal
  BY <1>1, <1>5, FreeKeepsPinned
<1>6. ASSUME NEW size, NEW n, HeapGiveUp(size, n) \/ HeapMapFails(size, n) PROVE Goal
  BY <1>2, <1>6 DEF HeapGiveUp, HeapMapFails
<1>7. ASSUME NEW c \in Passed, HeapFreeze(c) \/ HeapThaw(c) PROVE Goal
  <2>1. /\ TypeOK /\ chunk_size' = chunk_size
        /\ bitflags' = [bitflags EXCEPT ![c] = @ \cup {"FROZEN"}] \/
           (HeapThaw(c) /\ bitflags' = [bitflags EXCEPT ![c] = @ \ {"FROZEN"}])
    BY <1>7 DEF HeapFreeze, HeapThaw, HeapInv
  <2>2. a \in heads' /\ "ALLOCATED" \in bitflags'[a]
    BY <2>1 DEF Pinned, TypeOK, heads
  <2>3. "FROZEN" \in bitflags'[a] \/ HeapThaw(a)
    <3>1. CASE c = a
      BY <2>1, <3>1 DEF Pinned, TypeOK
    <3>2. CASE c # a
      BY <2>1, <3>2 DEF Pinned, TypeOK
    <3> QED
      BY <3>1, <3>2
  <2> QED
    BY <2>1, <2>2, <2>3 DEF Goal
<1>8. ASSUME HeapReset \/ HeapDestroy PROVE Goal
  <2>1. DOMAIN <<>> = {}
    OBVIOUS
  <2>2. heads' = {}
    BY <1>8, <2>1 DEF HeapReset, HeapDestroy, NoHeaders, heads
  <2> QED
    BY <2>2
<1>9. ASSUME PoolArrayFault \/ Stopped \/ UNCHANGED heapVars PROVE Goal
  BY <1>2, <1>9 DEF PoolArrayFault, Stopped, heapVars
<1>10. Goal
  BY <1>3, <1>4, <1>5, <1>6, <1>7, <1>8, <1>9 DEF HeapNext
<1> QED
  BY <1>10 DEF Goal

\* While an allocated block is frozen no call frees it, moves it, hands it out again
\* or changes its size, until it is thawed or the arena is reset or destroyed.
THEOREM FrozenStaysPinned == HeapSpec => FrozenIsPinned
<1>1. ASSUME HeapInv, FreeInv, [HeapNext]_heapVars
      PROVE  [\A a \in heads : {"ALLOCATED", "FROZEN"} \subseteq bitflags[a] /\ Safe' /\ heads' # {} =>
                /\ a \in heads' /\ chunk_size'[a] = chunk_size[a]
                /\ "ALLOCATED" \in bitflags'[a]
                /\ "FROZEN" \in bitflags'[a] \/ HeapThaw(a)]_heapVars
  BY <1>1, StepKeepsPinned DEF Pinned
<1> QED
  BY <1>1, InvariantHolds, FreeInvariantHolds, PTL DEF HeapSpec, FrozenIsPinned
=============================================================================
