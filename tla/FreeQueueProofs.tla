--------------------------- MODULE FreeQueueProofs ---------------------------
(***************************************************************************)
(* The pointers of free_node.c are a queue, for every set of headers: the  *)
(* inductive invariant ties every loop variable to a position of the queue *)
(* until a header has been freed twice, and each step is then a step of    *)
(* FreeQueue or leaves it alone.                                           *)
(***************************************************************************)
EXTENDS FreeList, FiniteSetTheorems, TLAPS

Distinct(s) == \A i, j \in DOMAIN s : s[i] = s[j] => i = j

PrevOf(i) == IF i = 0 THEN NULL ELSE queue[i]

NoneBefore(i) == \A j \in 1 .. i : NodeSize(queue[j]) # arg

\* The list between two calls: ListIsQueue, with the types it needs.
Represents ==
  /\ queue \in Seq(Nodes) /\ Distinct(queue)
  /\ made \subseteq Nodes /\ next_node \in [Nodes -> Nodes \cup {NULL, HandleBytes}]
  /\ owned \subseteq made
  /\ free_count = Len(queue)
  /\ first_free = IF queue = <<>> THEN NULL ELSE queue[1]
  /\ \A i \in DOMAIN queue :
       /\ queue[i] \in made \ owned
       /\ next_node[queue[i]] = IF i = Len(queue) THEN NULL ELSE queue[i + 1]

\* A loop stands at position idx + 1 of the queue.
AtPosition == idx \in 0 .. (Len(queue) - 1) /\ node = queue[idx + 1]

EndWalkInv == pc = "end_walk" =>
  /\ AtPosition
  /\ arg \in made \ owned /\ next_node[arg] = NULL
  /\ \A i \in DOMAIN queue : queue[i] # arg

SizeWalkInv == pc = "size_walk" =>
  /\ AtPosition
  /\ arg \in Sizes /\ NoneBefore(idx)
  /\ prev = PrevOf(idx)
  /\ next = IF idx = 0 THEN NULL ELSE node

FoundInv == pc = "found" =>
  /\ AtPosition
  /\ NodeSize(node) = arg /\ NoneBefore(idx)
  /\ prev = PrevOf(idx)
  /\ IF idx + 1 = Len(queue) THEN next \in {NULL, node} ELSE next = queue[idx + 2]

OnQueue ==
  /\ Represents
  /\ pc \in {"idle", "end_walk", "size_walk", "found"}
  /\ EndWalkInv /\ SizeWalkInv /\ FoundInv

QueueInv == misused \in BOOLEAN /\ (misused = FALSE => OnQueue)

\* A step of the queue, or none.
QueueStep == Q!QueueNext \/ UNCHANGED Q!queueVars

-----------------------------------------------------------------------------
\* A list of different headers is shorter than a u32 can count.
LEMMA CountFits ==
  ASSUME NEW s \in Seq(Nodes), Distinct(s)
  PROVE  Len(s) + 1 < WORD
<1>1. s \in Injection(1 .. Len(s), Nodes)
  BY DEF Injection, IsInjective, Distinct
<1>2. Len(s) \in Nat /\ IsFiniteSet(Nodes)
  BY FreeListAssumption
<1>3. Cardinality(1 .. Len(s)) <= Cardinality(Nodes)
  BY <1>1, <1>2, FS_Injection
<1>4. Cardinality(1 .. Len(s)) = Len(s)
  BY <1>2, FS_Interval
<1>5. Cardinality(Nodes) \in Nat
  BY <1>2, FS_CardinalityType
<1> QED  BY <1>2, <1>3, <1>4, <1>5, FreeListAssumption

\* The loops stop at the last position of the queue.
LEMMA LastPosition ==
  ASSUME Represents, queue # <<>>
  PROVE  Last = Len(queue) - 1 /\ Len(queue) \in Nat \ {0} /\ Len(queue) + 1 < WORD
<1>1. Len(queue) + 1 < WORD
  BY CountFits DEF Represents
<1> QED  BY <1>1 DEF Represents, Last

\* A number below a u32's limit survives the width.
LEMMA ModSmall ==
  ASSUME NEW n \in Nat, NEW w \in Nat, n < w
  PROVE  n % w = n
OBVIOUS

\* Whatever is null or a handle index is no header.
LEMMA NotNodes == NULL \notin Nodes /\ HandleBytes \notin Nodes /\ HandleBytes # NULL
BY FreeListAssumption

\* An empty list is an empty queue.
LEMMA QueueInvInit == Init => QueueInv
<1> SUFFICES ASSUME Init PROVE QueueInv
  OBVIOUS
<1>1. Represents
  BY DEF Init, Represents, Distinct
<1>2. pc = "idle" /\ misused \in BOOLEAN
  BY DEF Init
<1> QED  BY <1>1, <1>2 DEF QueueInv, OnQueue, EndWalkInv, SizeWalkInv, FoundInv

-----------------------------------------------------------------------------
\* A header nobody holds goes to the end of the list; the old last node points to it.
LEMMA LinkedBehind ==
  ASSUME Represents, NEW a \in made \ owned, \A i \in DOMAIN queue : queue[i] # a,
         next_node[a] = NULL, queue' = Append(queue, a),
         free_count' = (free_count + 1) % WORD,
         UNCHANGED <<made, owned, first_free>>, queue # <<>>,
         next_node' = [next_node EXCEPT ![queue[Len(queue)]] = a]
  PROVE  Represents'
<1>1. /\ queue' \in Seq(Nodes) /\ Len(queue') = Len(queue) + 1
      /\ \A i \in DOMAIN queue : queue'[i] = queue[i]
      /\ queue'[Len(queue) + 1] = a
      /\ DOMAIN queue' = 1 .. (Len(queue) + 1) /\ DOMAIN queue = 1 .. Len(queue)
      /\ Len(queue) \in Nat
  BY DEF Represents
<1>2. Distinct(queue')
  BY <1>1 DEF Represents, Distinct
<1>3. free_count' = Len(queue')
  <2>1. Len(queue) + 1 < WORD /\ WORD \in Nat
    BY CountFits, FreeListAssumption DEF Represents
  <2>2. (Len(queue) + 1) % WORD = Len(queue) + 1
    BY <1>1, <2>1, ModSmall
  <2> QED  BY <1>1, <2>2 DEF Represents
<1>4. next_node' \in [Nodes -> Nodes \cup {NULL, HandleBytes}]
  BY <1>1 DEF Represents
<1>5. first_free' = IF queue' = <<>> THEN NULL ELSE queue'[1]
  BY <1>1 DEF Represents
<1>6. ASSUME NEW i \in DOMAIN queue'
      PROVE  /\ queue'[i] \in made' \ owned'
             /\ next_node'[queue'[i]] = IF i = Len(queue') THEN NULL ELSE queue'[i + 1]
  <2>1. CASE i = Len(queue) + 1
    BY <1>1, <2>1 DEF Represents
  <2>2. CASE i \in DOMAIN queue /\ i = Len(queue)
    BY <1>1, <2>2 DEF Represents
  <2>3. CASE i \in DOMAIN queue /\ i # Len(queue)
    <3>1. Len(queue) \in DOMAIN queue /\ i + 1 \in DOMAIN queue
      BY <1>1, <2>3
    <3>2. queue[i] # queue[Len(queue)]
      BY <3>1, <2>3 DEF Represents, Distinct
    <3> QED  BY <1>1, <2>3, <3>1, <3>2 DEF Represents
  <2> QED  BY <1>1, <2>1, <2>2, <2>3
<1> QED  BY <1>1, <1>2, <1>3, <1>4, <1>5, <1>6 DEF Represents

\* The sequence without one of its elements.
LEMMA WithoutOne ==
  ASSUME NEW s \in Seq(Nodes), NEW k \in DOMAIN s
  PROVE  LET t == Q!WithoutAt(s, k)
         IN  /\ t \in Seq(Nodes) /\ Len(t) = Len(s) - 1 /\ DOMAIN t = 1 .. (Len(s) - 1)
             /\ \A j \in 1 .. (Len(s) - 1) : t[j] = IF j < k THEN s[j] ELSE s[j + 1]
             /\ Distinct(s) => Distinct(t) /\ \A j \in DOMAIN t : t[j] # s[k]
<1> DEFINE t == [j \in 1 .. (Len(s) - 1) |-> IF j < k THEN s[j] ELSE s[j + 1]]
<1>1. Q!WithoutAt(s, k) = t
  BY DEF Q!WithoutAt
<1>2. Len(s) \in Nat \ {0} /\ DOMAIN s = 1 .. Len(s)
  OBVIOUS
<1>3. \A j \in 1 .. (Len(s) - 1) : t[j] \in Nodes
  BY <1>2
<1>4. t \in Seq(Nodes) /\ Len(t) = Len(s) - 1 /\ DOMAIN t = 1 .. (Len(s) - 1)
  BY <1>2, <1>3
<1>5. ASSUME Distinct(s), NEW i \in DOMAIN t, NEW j \in DOMAIN t, t[i] = t[j]
      PROVE  i = j
  <2>1. i \in 1 .. (Len(s) - 1) /\ j \in 1 .. (Len(s) - 1) /\ k \in 1 .. Len(s)
    BY <1>2, <1>4
  <2>2. \A x, y \in 1 .. Len(s) : s[x] = s[y] => x = y
    BY <1>2, <1>5 DEF Distinct
  <2> QED  BY <1>2, <1>5, <2>1, <2>2
<1>6. ASSUME Distinct(s), NEW j \in DOMAIN t
      PROVE  t[j] # s[k]
  BY <1>2, <1>4, <1>6 DEF Distinct
<1>7. Distinct(s) => Distinct(t) /\ \A j \in DOMAIN t : t[j] # s[k]
  BY <1>5, <1>6 DEF Distinct
<1> QED  BY <1>1, <1>4, <1>7

\* Unlinking position k, as all four cases do it: the predecessor, or first_free,
\* takes over what the node pointed to.
LEMMA UnlinkedAt ==
  ASSUME Represents, NEW k \in DOMAIN queue,
         queue' = Q!WithoutAt(queue, k),
         free_count' = (free_count - 1) % WORD,
         made' = made, owned' = owned \cup {queue[k]},
         NEW P, next_node' = [P EXCEPT ![queue[k]] = HandleBytes],
         P = IF k = 1 THEN next_node
             ELSE [next_node EXCEPT ![queue[k - 1]] = IF k = Len(queue) THEN NULL ELSE queue[k + 1]],
         first_free' = IF k # 1 THEN first_free
                       ELSE IF k = Len(queue) THEN NULL ELSE queue[2]
  PROVE  Represents'
<1> DEFINE n == Len(queue)
<1>1. n \in Nat \ {0} /\ DOMAIN queue = 1 .. n /\ k \in 1 .. n /\ \A i \in 1 .. n : queue[i] \in Nodes
  BY DEF Represents
<1>2. /\ queue' \in Seq(Nodes) /\ Len(queue') = n - 1 /\ DOMAIN queue' = 1 .. (n - 1)
      /\ \A j \in 1 .. (n - 1) : queue'[j] = IF j < k THEN queue[j] ELSE queue[j + 1]
      /\ Distinct(queue') /\ \A j \in DOMAIN queue' : queue'[j] # queue[k]
  <2> DEFINE t == Q!WithoutAt(queue, k)
  <2>1. queue \in Seq(Nodes) /\ Distinct(queue)
    BY DEF Represents
  <2>2. /\ t \in Seq(Nodes) /\ Len(t) = n - 1 /\ DOMAIN t = 1 .. (n - 1)
        /\ \A j \in 1 .. (n - 1) : t[j] = IF j < k THEN queue[j] ELSE queue[j + 1]
        /\ Distinct(t) /\ \A j \in DOMAIN t : t[j] # queue[k]
    BY <2>1, WithoutOne
  <2> HIDE DEF n
  <2> QED  BY <2>2
<1>3. \A i, j \in 1 .. n : queue[i] = queue[j] => i = j
  BY <1>1 DEF Represents, Distinct
<1>4. free_count' = Len(queue')
  <2>1. n + 1 < WORD /\ WORD \in Nat
    BY CountFits, FreeListAssumption DEF Represents
  <2>2. n - 1 \in Nat /\ n - 1 < WORD
    BY <1>1, <2>1
  <2>3. (n - 1) % WORD = n - 1
    BY <2>1, <2>2, ModSmall
  <2> QED  BY <1>2, <2>3 DEF Represents
<1>5. P \in [Nodes -> Nodes \cup {NULL, HandleBytes}]
  BY <1>1 DEF Represents
<1>6. next_node' \in [Nodes -> Nodes \cup {NULL, HandleBytes}]
  BY <1>5
<1>7. first_free' = IF queue' = <<>> THEN NULL ELSE queue'[1]
  <2>1. queue' = <<>> <=> n = 1
    BY <1>1, <1>2
  <2> QED  BY <1>1, <1>2, <2>1 DEF Represents
<1>8. ASSUME NEW i \in DOMAIN queue'
      PROVE  /\ queue'[i] \in made' \ owned'
             /\ next_node'[queue'[i]] = IF i = Len(queue') THEN NULL ELSE queue'[i + 1]
  <2> DEFINE m == IF i < k THEN i ELSE i + 1
  <2>1. i \in 1 .. (n - 1) /\ m \in 1 .. n /\ m # k /\ queue'[i] = queue[m] /\ queue[m] # queue[k]
    BY <1>1, <1>2
  <2>0. (i < k /\ m = i) \/ (~(i < k) /\ m = i + 1)
    OBVIOUS
  <2> HIDE DEF m
  <2>2. queue'[i] \in made' \ owned'
    BY <1>1, <2>1 DEF Represents
  <2>3. next_node'[queue[m]] = P[queue[m]]
    BY <1>1, <1>5, <2>1
  <2>4. next_node[queue[m]] = IF m = n THEN NULL ELSE queue[m + 1]
    BY <1>1, <2>1 DEF Represents
  <2>5. CASE m = k - 1
    <3>1. P[queue[m]] = IF k = n THEN NULL ELSE queue[k + 1]
      BY <1>1, <2>1, <2>5 DEF Represents
    <3>2. i = k - 1 /\ (i = n - 1 <=> k = n) /\ (i # n - 1 => queue'[i + 1] = queue[k + 1])
      <4> HIDE DEF n
      <4>1. i = k - 1 /\ (i = n - 1 <=> k = n)
        BY <1>1, <2>0, <2>1, <2>5
      <4>2. ASSUME i # n - 1 PROVE queue'[k] = queue[k + 1]
        <5>1. k \in 1 .. (n - 1) /\ ~(k < k)
          BY <1>1, <4>1, <4>2
        <5> QED  BY <1>2, <5>1
      <4> QED  BY <1>1, <4>1, <4>2
    <3> QED  BY <1>2, <2>1, <2>2, <2>3, <3>1, <3>2
  <2>6. CASE m # k - 1
    <3>1. P[queue[m]] = next_node[queue[m]]
      BY <1>1, <1>3, <2>1, <2>6 DEF Represents
    <3>2. (i = n - 1 <=> m = n) /\ (m # n => queue'[i + 1] = queue[m + 1])
      <4> HIDE DEF n
      <4>1. i = n - 1 <=> m = n
        BY <1>1, <2>0, <2>1, <2>6
      <4>2. ASSUME m # n PROVE queue'[i + 1] = queue[m + 1]
        <5>1. i + 1 \in 1 .. (n - 1)
          BY <1>1, <2>1, <4>1, <4>2
        <5>2. queue'[i + 1] = IF i + 1 < k THEN queue[i + 1] ELSE queue[(i + 1) + 1]
          BY <1>2, <5>1
        <5>3. i < k => i + 1 < k
          BY <1>1, <2>0, <2>1, <2>6
        <5>4. CASE i < k
          BY <2>0, <5>2, <5>3, <5>4
        <5>5. CASE ~(i < k)
          <6>1. ~(i + 1 < k)
            BY <1>1, <2>1, <5>5
          <6> QED  BY <2>0, <5>2, <5>5, <6>1
        <5> QED  BY <5>4, <5>5
      <4> QED  BY <4>1, <4>2
    <3> QED  BY <1>2, <2>1, <2>2, <2>3, <2>4, <3>1, <3>2
  <2> QED  BY <2>5, <2>6
<1>9. made' \subseteq Nodes /\ owned' \subseteq made'
  BY <1>1 DEF Represents
<1> QED  BY <1>2, <1>4, <1>6, <1>7, <1>8, <1>9 DEF Represents

-----------------------------------------------------------------------------
(***************************************************************************)
(* One lemma for each action, as long as no header is freed twice: the     *)
(* invariant is kept, and what the queue sees is one of its own steps.     *)
(***************************************************************************)
LEMMA CarveStep ==
  ASSUME OnQueue, NEW a \in Nodes, Carve(a)
  PROVE  OnQueue' /\ QueueStep
<1>1. Represents'
  <2>1. \A i \in DOMAIN queue : queue[i] # a /\ queue[i] \in Nodes
    BY DEF OnQueue, Represents, Carve
  <2> QED  BY <2>1 DEF OnQueue, Represents, Distinct, Carve, history
<1>2. pc' = "idle"
  BY DEF Carve
<1>3. UNCHANGED Q!queueVars
  BY DEF Carve, history, Q!queueVars
<1> QED  BY <1>1, <1>2, <1>3 DEF OnQueue, EndWalkInv, SizeWalkInv, FoundInv, QueueStep

\* syn_free appends to an empty list or begins the walk to its end.
LEMMA FreeNodeStep ==
  ASSUME OnQueue, NEW a \in Nodes, FreeNode(a), misused = FALSE, misused' = FALSE
  PROVE  OnQueue' /\ QueueStep
<1>1. a \in owned
  BY Zenon DEF FreeNode
<1>2. a \in made' \ owned' /\ owned' = owned \ {a} /\ made' = made
  BY <1>1 DEF FreeNode, OnQueue, Represents
<1>3. \A i \in DOMAIN queue : queue[i] # a /\ queue[i] \in Nodes
  BY <1>1 DEF OnQueue, Represents
<1>4. next_node' = [next_node EXCEPT ![a] = NULL] /\ next_node'[a] = NULL
  BY DEF FreeNode, OnQueue, Represents
<1>5. CASE first_free = NULL
  <2>1. queue = <<>>
    BY <1>5, NotNodes DEF OnQueue, Represents
  <2>2. queue' = <<a>> /\ first_free' = a /\ pc' = pc /\ pc = "idle"
    BY <1>5, <2>1 DEF FreeNode, Noted
  <2>3. free_count' = 1
    <3>1. Len(queue) + 1 < WORD /\ Len(queue) = 0 /\ WORD \in Nat
      <4>1. queue \in Seq(Nodes) /\ Distinct(queue)
        BY DEF OnQueue, Represents
      <4> QED  BY <2>1, <4>1, CountFits, FreeListAssumption
    <3> QED  BY <1>5, <2>1, <3>1, ModSmall DEF FreeNode, CountUp, OnQueue, Represents
  <2>4. Represents'
    BY <1>1, <1>2, <1>4, <2>2, <2>3 DEF OnQueue, Represents, Distinct
  <2>5. Q!Add(a)
    <3>1. a \notin Q!Queued
      BY <1>3 DEF Q!Queued
    <3>2. queue' = Append(queue, a)
      BY <1>5 DEF FreeNode, Noted
    <3>3. UNCHANGED <<returned, misused>>
      BY DEF FreeNode
    <3> QED  BY <3>1, <3>2, <3>3 DEF Q!Add
  <2> QED
    BY <2>2, <2>4, <2>5 DEF OnQueue, EndWalkInv, SizeWalkInv, FoundInv, QueueStep, Q!QueueNext
<1>6. CASE first_free # NULL
  <2>1. queue # <<>> /\ Len(queue) \in Nat \ {0} /\ first_free = queue[1]
    BY <1>6 DEF OnQueue, Represents
  <2>2. queue' = queue /\ pc' = "end_walk" /\ arg' = a /\ node' = first_free /\ idx' = 0
        /\ UNCHANGED <<first_free, free_count>>
    BY <1>6 DEF FreeNode, Noted
  <2>3. Represents'
    BY <1>1, <1>2, <1>3, <1>4, <2>2 DEF OnQueue, Represents, Distinct
  <2>4. EndWalkInv'
    BY <1>2, <1>3, <1>4, <2>1, <2>2 DEF EndWalkInv, AtPosition
  <2>5. UNCHANGED Q!queueVars
    BY <2>2 DEF FreeNode, Q!queueVars
  <2> QED  BY <2>2, <2>3, <2>4, <2>5 DEF OnQueue, SizeWalkInv, FoundInv, QueueStep
<1> QED  BY <1>5, <1>6

\* What a loop of either kind knows of the place it stands at.
LEMMA Standing ==
  ASSUME Represents, AtPosition
  PROVE  /\ Len(queue) \in Nat \ {0} /\ Len(queue) + 1 < WORD /\ WORD \in Nat
         /\ DOMAIN queue = 1 .. Len(queue) /\ idx + 1 \in 1 .. Len(queue) /\ idx \in Nat
         /\ node \in Nodes /\ node # NULL
         /\ next_node[node] = IF idx + 1 = Len(queue) THEN NULL ELSE queue[idx + 2]
         /\ MoreNodes <=> idx + 1 < Len(queue)
         /\ queue # <<>>
<1>1. queue \in Seq(Nodes) /\ Distinct(queue)
  BY DEF Represents
<1>2. Len(queue) \in Nat \ {0} /\ DOMAIN queue = 1 .. Len(queue) /\ idx + 1 \in 1 .. Len(queue)
      /\ idx \in Nat /\ queue # <<>>
  BY <1>1 DEF AtPosition
<1>3. Len(queue) + 1 < WORD /\ WORD \in Nat
  BY <1>1, CountFits, FreeListAssumption
<1>4. node = queue[idx + 1] /\ node \in Nodes /\ node # NULL
  BY <1>1, <1>2, NotNodes DEF AtPosition
<1>5. next_node[node] = IF idx + 1 = Len(queue) THEN NULL ELSE queue[idx + 2]
  BY <1>2, <1>4 DEF Represents
<1>6. MoreNodes <=> idx + 1 < Len(queue)
  <2>1. Last = Len(queue) - 1
    BY <1>2, LastPosition
  <2> QED  BY <1>2, <2>1 DEF MoreNodes
<1> QED  BY <1>2, <1>3, <1>4, <1>5, <1>6

\* The loops end at the last position.
LEMMA AtEnd ==
  ASSUME Represents, AtPosition, ~MoreNodes
  PROVE  idx + 1 = Len(queue)
<1>1. ~(idx + 1 < Len(queue)) /\ idx + 1 \in 1 .. Len(queue) /\ Len(queue) \in Nat
  BY Standing
<1> QED  BY <1>1

\* One iteration further along the queue.
LEMMA OneFurther ==
  ASSUME Represents, AtPosition, MoreNodes, queue' = queue,
         node' = next_node[node], idx' = (idx + 1) % WORD
  PROVE  AtPosition' /\ idx' = idx + 1 /\ node' = queue[idx + 2] /\ node' \in Nodes
<1>1. idx + 1 < Len(queue) /\ Len(queue) \in Nat /\ idx \in Nat /\ Len(queue) + 1 < WORD /\ WORD \in Nat
  BY Standing
<1>2. idx + 1 \in Nat /\ idx + 1 < WORD
  BY <1>1
<1>3. idx' = idx + 1
  BY <1>1, <1>2, ModSmall
<1>4. node' = queue[idx + 2]
  <2>1. next_node[node] = IF idx + 1 = Len(queue) THEN NULL ELSE queue[idx + 2]
    BY Standing
  <2>2. idx + 1 # Len(queue)
    BY <1>1
  <2> QED  BY <2>1, <2>2
<1>5. queue[idx + 2] \in Nodes
  BY <1>1 DEF Represents
<1> QED  BY <1>1, <1>3, <1>4, <1>5 DEF AtPosition

\* Steps that leave the list itself alone.
LEMMA RepresentsKept ==
  ASSUME Represents, UNCHANGED <<first_free, free_count, next_node, made, owned, queue>>
  PROVE  Represents'
BY DEF Represents, Distinct

\* index_free_list_end moves on along the queue.
LEMMA EndWalkStep ==
  ASSUME OnQueue, EndWalk
  PROVE  OnQueue' /\ QueueStep
<1>1. Represents /\ AtPosition /\ MoreNodes /\ pc = "end_walk"
  BY DEF OnQueue, EndWalkInv, EndWalk
<1>2. /\ node' = next_node[node] /\ idx' = (idx + 1) % WORD
      /\ UNCHANGED <<first_free, free_count, next_node, made, owned, pc, arg, queue, returned, misused>>
  BY <1>1, Standing DEF EndWalk, listVars, history
<1>3. Represents'
  BY <1>1, <1>2, RepresentsKept
<1>4. AtPosition'
  BY <1>1, <1>2, OneFurther
<1>5. EndWalkInv'
  BY <1>1, <1>2, <1>4 DEF OnQueue, EndWalkInv
<1> QED
  BY <1>1, <1>2, <1>3, <1>5 DEF OnQueue, SizeWalkInv, FoundInv, QueueStep, Q!queueVars

\* The freed header goes behind the last one: Add.
LEMMA LinkBehindStep ==
  ASSUME OnQueue, LinkBehind, misused = FALSE
  PROVE  OnQueue' /\ QueueStep
<1>1. /\ Represents /\ AtPosition /\ ~MoreNodes /\ pc = "end_walk"
      /\ arg \in made \ owned /\ next_node[arg] = NULL /\ arg \in Nodes
      /\ \A i \in DOMAIN queue : queue[i] # arg
  BY DEF OnQueue, EndWalkInv, LinkBehind, Represents
<1>2. node = queue[Len(queue)] /\ node \in Nodes /\ queue # <<>>
  <2>1. node \in Nodes /\ queue # <<>>
    BY <1>1, Standing
  <2>2. idx + 1 = Len(queue)
    BY <1>1, AtEnd
  <2>3. node = queue[idx + 1]
    BY <1>1 DEF AtPosition
  <2> QED  BY <2>1, <2>2, <2>3
<1>3. /\ next_node' = [next_node EXCEPT ![node] = arg]
      /\ free_count' = (free_count + 1) % WORD /\ pc' = "idle"
      /\ queue' = Append(queue, arg)
      /\ UNCHANGED <<first_free, made, owned, returned, misused>>
  BY <1>2 DEF LinkBehind, CountUp
<1>4. Represents'
  BY <1>1, <1>2, <1>3, LinkedBehind
<1>5. Q!Add(arg)
  BY <1>1, <1>3 DEF Q!Add, Q!Queued
<1> QED
  BY <1>1, <1>3, <1>4, <1>5 DEF OnQueue, EndWalkInv, SizeWalkInv, FoundInv, QueueStep, Q!QueueNext

\* The search begins at the front of the queue.
LEMMA RemoveNodeStep ==
  ASSUME OnQueue, NEW size \in Sizes, RemoveNode(size)
  PROVE  OnQueue' /\ QueueStep
<1>1. Represents /\ first_free # NULL
  BY DEF OnQueue, RemoveNode
<1>2. queue # <<>> /\ Len(queue) \in Nat \ {0} /\ first_free = queue[1] /\ first_free \in Nodes
      /\ next_node[first_free] = IF Len(queue) = 1 THEN NULL ELSE queue[2]
  BY <1>1 DEF Represents
<1>3. /\ arg' = size /\ node' = first_free /\ prev' = NULL /\ idx' = 0
      /\ UNCHANGED <<first_free, free_count, next_node, made, owned, queue, returned, misused>>
      /\ IF NodeSize(first_free) = size
           THEN pc' = "found" /\ next' = next_node[first_free]
           ELSE pc' = "size_walk" /\ next' = NULL
  BY <1>2 DEF RemoveNode, listVars, history
<1>4. Represents'
  BY <1>1, <1>3, RepresentsKept
<1>5. AtPosition'
  BY <1>2, <1>3 DEF AtPosition
<1>6. SizeWalkInv'
  BY <1>3, <1>5 DEF SizeWalkInv, NoneBefore, PrevOf, Sizes
<1>7. FoundInv'
  <2> SUFFICES ASSUME pc' = "found" PROVE FoundInv'
    BY DEF FoundInv
  <2>1. NodeSize(node') = arg' /\ next' = next_node[first_free]
    BY <1>3
  <2>2. NoneBefore(idx)' /\ prev' = PrevOf(idx)'
    BY <1>3 DEF NoneBefore, PrevOf
  <2>3. IF idx' + 1 = Len(queue') THEN next' \in {NULL, node'} ELSE next' = queue'[idx' + 2]
    BY <1>2, <1>3, <2>1
  <2> QED  BY <1>5, <2>1, <2>2, <2>3 DEF FoundInv
<1>8. pc' \in {"size_walk", "found"}
  BY <1>3
<1>9. UNCHANGED Q!queueVars
  BY <1>3 DEF Q!queueVars
<1> QED
  BY <1>4, <1>6, <1>7, <1>8, <1>9 DEF OnQueue, EndWalkInv, QueueStep

\* index_free_list_size has seen one more header, or found the first of the size.
LEMMA SizeWalkStep ==
  ASSUME OnQueue, SizeWalk
  PROVE  OnQueue' /\ QueueStep
<1>1. /\ Represents /\ AtPosition /\ MoreNodes /\ pc = "size_walk"
      /\ arg \in Sizes /\ NoneBefore(idx) /\ prev = PrevOf(idx)
  BY DEF OnQueue, SizeWalkInv, SizeWalk
<1>2. /\ node \in Nodes /\ node = queue[idx + 1] /\ next_node[node] = queue[idx + 2]
      /\ idx + 1 < Len(queue) /\ idx \in Nat /\ Len(queue) \in Nat
      /\ next_node[node] \in Nodes /\ next_node[node] # NULL
  <2>1. idx + 1 < Len(queue) /\ idx \in Nat /\ Len(queue) \in Nat /\ node \in Nodes
    BY <1>1, Standing
  <2>2. next_node[node] = IF idx + 1 = Len(queue) THEN NULL ELSE queue[idx + 2]
    BY <1>1, Standing
  <2>3. queue[idx + 2] \in Nodes /\ idx + 1 # Len(queue)
    BY <1>1, <2>1 DEF Represents
  <2> QED  BY <1>1, <2>1, <2>2, <2>3, NotNodes DEF AtPosition
<1>3. /\ next' = next_node[node]
      /\ UNCHANGED <<first_free, free_count, next_node, made, owned, arg, queue, returned, misused>>
      /\ IF Fits THEN pc' = "found" /\ UNCHANGED <<prev, node, idx>>
                 ELSE /\ prev' = node /\ node' = next_node[node] /\ idx' = (idx + 1) % WORD
                      /\ UNCHANGED pc
  BY <1>2 DEF SizeWalk, listVars, history
<1>4. Represents'
  BY <1>1, <1>3, RepresentsKept
<1>5. UNCHANGED Q!queueVars
  BY <1>3 DEF Q!queueVars
<1>6. CASE Fits
  <2>1. pc' = "found" /\ AtPosition'
    BY <1>1, <1>3, <1>6 DEF AtPosition
  <2>2. NodeSize(node') = arg' /\ NoneBefore(idx)' /\ prev' = PrevOf(idx)'
    BY <1>1, <1>3, <1>6 DEF Fits, NoneBefore, PrevOf
  <2>3. idx' + 1 # Len(queue') /\ next' = queue'[idx' + 2]
    BY <1>2, <1>3, <1>6
  <2>4. FoundInv'
    BY <2>1, <2>2, <2>3 DEF FoundInv
  <2> QED
    BY <1>4, <1>5, <2>1, <2>4 DEF OnQueue, EndWalkInv, SizeWalkInv, QueueStep
<1>7. CASE ~Fits
  <2>1. pc' = "size_walk" /\ prev' = node /\ node' = next_node[node] /\ idx' = (idx + 1) % WORD
    BY <1>1, <1>3, <1>7
  <2>2. AtPosition' /\ idx' = idx + 1 /\ node' = queue[idx + 2]
    BY <1>1, <1>3, <2>1, OneFurther
  <2>3. NoneBefore(idx)'
    <3>1. NodeSize(queue[idx + 1]) # arg
      BY <1>2, <1>7 DEF Fits
    <3> QED  BY <1>1, <1>2, <1>3, <2>2, <3>1 DEF NoneBefore
  <2>4. prev' = PrevOf(idx)' /\ next' = node' /\ idx' # 0
    BY <1>2, <1>3, <2>1, <2>2 DEF PrevOf
  <2>5. SizeWalkInv'
    BY <1>1, <1>3, <2>2, <2>3, <2>4 DEF SizeWalkInv, Sizes
  <2> QED
    BY <1>4, <1>5, <2>1, <2>5 DEF OnQueue, EndWalkInv, FoundInv, QueueStep
<1> QED  BY <1>6, <1>7

\* The last header fits, or none does: Refuse.
LEMMA LastNodeStep ==
  ASSUME OnQueue, LastNode
  PROVE  OnQueue' /\ QueueStep
<1>1. /\ Represents /\ AtPosition /\ ~MoreNodes /\ pc = "size_walk"
      /\ arg \in Sizes /\ NoneBefore(idx) /\ prev = PrevOf(idx)
      /\ next = IF idx = 0 THEN NULL ELSE node
  BY DEF OnQueue, SizeWalkInv, LastNode
<1>2. /\ node \in Nodes /\ node = queue[idx + 1] /\ idx + 1 = Len(queue)
      /\ idx \in Nat /\ DOMAIN queue = 1 .. Len(queue)
  <2>1. node \in Nodes /\ idx \in Nat /\ DOMAIN queue = 1 .. Len(queue)
    BY <1>1, Standing
  <2>2. idx + 1 = Len(queue)
    BY <1>1, AtEnd
  <2>3. node = queue[idx + 1]
    BY <1>1 DEF AtPosition
  <2> QED  BY <2>1, <2>2, <2>3
<1>3. /\ UNCHANGED <<first_free, free_count, next_node, made, owned, arg, node, prev, next, idx,
                     queue, misused>>
      /\ IF Fits THEN pc' = "found" /\ UNCHANGED returned ELSE pc' = "idle" /\ returned' = NULL
  BY <1>2 DEF LastNode, listVars, walkVars
<1>4. Represents'
  BY <1>1, <1>3, RepresentsKept
<1>5. CASE Fits
  <2>1. pc' = "found" /\ AtPosition' /\ UNCHANGED Q!queueVars
    BY <1>1, <1>3, <1>5 DEF AtPosition, Q!queueVars
  <2>2. NodeSize(node') = arg' /\ NoneBefore(idx)' /\ prev' = PrevOf(idx)'
    BY <1>1, <1>3, <1>5 DEF Fits, NoneBefore, PrevOf
  <2>3. idx' + 1 = Len(queue') /\ next' \in {NULL, node'}
    BY <1>1, <1>2, <1>3
  <2>4. FoundInv'
    BY <2>1, <2>2, <2>3 DEF FoundInv
  <2> QED
    BY <1>4, <2>1, <2>4 DEF OnQueue, EndWalkInv, SizeWalkInv, QueueStep
<1>6. CASE ~Fits
  <2>1. pc' = "idle" /\ returned' = NULL /\ UNCHANGED <<queue, misused>>
    BY <1>3, <1>6
  <2>2. \A i \in DOMAIN queue : NodeSize(queue[i]) # arg
    BY <1>1, <1>2, <1>6 DEF NoneBefore, Fits
  <2>3. Q!Refuse(arg)
    BY <2>1, <2>2 DEF Q!Refuse
  <2> QED
    BY <1>1, <1>4, <2>1, <2>3 DEF OnQueue, EndWalkInv, SizeWalkInv, FoundInv, QueueStep,
      Q!QueueNext, Sizes
<1> QED  BY <1>5, <1>6

\* What the four cases behind `found' have in common: the node they unlink is the
\* first of its size, and After and prev tell its place in the list.
LEMMA FoundPlace ==
  ASSUME OnQueue, pc = "found"
  PROVE  /\ idx + 1 \in DOMAIN queue /\ idx \in Nat /\ node = queue[idx + 1] /\ node \in Nodes
         /\ Q!FirstOfSize(arg, idx + 1) /\ arg \in Sizes
         /\ After = IF idx + 1 = Len(queue) THEN NULL ELSE queue[idx + 2]
         /\ After = NULL <=> idx + 1 = Len(queue)
         /\ prev = PrevOf(idx) /\ (prev = NULL <=> idx = 0)
<1>1. /\ Represents /\ AtPosition /\ NodeSize(node) = arg /\ NoneBefore(idx) /\ prev = PrevOf(idx)
      /\ IF idx + 1 = Len(queue) THEN next \in {NULL, node} ELSE next = queue[idx + 2]
  BY DEF OnQueue, FoundInv
<1>2. /\ idx + 1 \in 1 .. Len(queue) /\ Len(queue) \in Nat /\ idx \in Nat
      /\ DOMAIN queue = 1 .. Len(queue) /\ node \in Nodes /\ node # NULL
  BY <1>1, Standing
<1>3. node = queue[idx + 1]
  BY <1>1 DEF AtPosition
<1>4. Q!FirstOfSize(arg, idx + 1)
  <2>1. (idx + 1) - 1 = idx
    BY <1>2
  <2> QED  BY <1>1, <1>2, <1>3, <2>1 DEF Q!FirstOfSize, NoneBefore
<1>5. /\ After = IF idx + 1 = Len(queue) THEN NULL ELSE queue[idx + 2]
      /\ After = NULL <=> idx + 1 = Len(queue)
  <2>1. CASE idx + 1 = Len(queue)
    BY <1>1, <2>1 DEF After
  <2>2. CASE idx + 1 # Len(queue)
    <3>1. idx + 2 \in DOMAIN queue /\ queue[idx + 2] # queue[idx + 1] /\ queue[idx + 2] \in Nodes
      BY <1>1, <1>2, <2>2 DEF Represents, Distinct
    <3>2. After = queue[idx + 2]
      BY <1>1, <1>3, <2>2, <3>1 DEF After
    <3> QED  BY <2>2, <3>1, <3>2, NotNodes
  <2> QED  BY <2>1, <2>2
<1>6. arg \in Sizes
  BY <1>1, <1>2 DEF Sizes
<1>7. prev = NULL <=> idx = 0
  <2>1. ASSUME idx # 0 PROVE queue[idx] \in Nodes
    BY <1>1, <1>2, <2>1 DEF Represents
  <2> QED  BY <1>1, <2>1, NotNodes DEF PrevOf
<1> QED
  BY <1>1, <1>2, <1>3, <1>4, <1>5, <1>6, <1>7

\* Every one of them takes the node out of the queue and returns it.
LEMMA UnlinkStep ==
  ASSUME OnQueue, misused = FALSE, UnlinkMiddle \/ UnlinkFirst \/ UnlinkLast \/ UnlinkOnly
  PROVE  OnQueue' /\ QueueStep
<1> DEFINE k == idx + 1
           P == IF k = 1 THEN next_node
                ELSE [next_node EXCEPT ![queue[k - 1]] =
                        IF k = Len(queue) THEN NULL ELSE queue[k + 1]]
<1>1. pc = "found" /\ Represents
  BY DEF OnQueue, UnlinkMiddle, UnlinkFirst, UnlinkLast, UnlinkOnly
<1>2. /\ k \in DOMAIN queue /\ idx \in Nat /\ node = queue[k] /\ node \in Nodes
      /\ Q!FirstOfSize(arg, k) /\ arg \in Sizes
      /\ After = IF k = Len(queue) THEN NULL ELSE queue[k + 1]
      /\ (After = NULL <=> k = Len(queue))
      /\ prev = PrevOf(idx) /\ (prev = NULL <=> k = 1)
  <2>1. (idx + 1) + 1 = idx + 2 /\ (idx = 0 <=> idx + 1 = 1)
    BY <1>1, FoundPlace
  <2> QED  BY <1>1, <2>1, FoundPlace
<1>3. prev = NULL \/ prev = queue[k - 1]
  BY <1>2 DEF PrevOf
<1>4. /\ Taken(P)
      /\ first_free' = IF k # 1 THEN first_free ELSE IF k = Len(queue) THEN NULL ELSE queue[2]
  <2>1. CASE UnlinkMiddle
    BY <1>2, <1>3, <2>1 DEF UnlinkMiddle
  <2>2. CASE UnlinkFirst
    BY <1>2, <2>2 DEF UnlinkFirst
  <2>3. CASE UnlinkLast
    BY <1>2, <1>3, <2>3 DEF UnlinkLast
  <2>4. CASE UnlinkOnly
    BY <1>2, <2>4 DEF UnlinkOnly
  <2> QED  BY <2>1, <2>2, <2>3, <2>4
<1>5. /\ next_node' = [P EXCEPT ![queue[k]] = HandleBytes]
      /\ free_count' = (free_count - 1) % WORD
      /\ pc' = "idle" /\ owned' = owned \cup {queue[k]} /\ made' = made
      /\ returned' = node /\ misused' = misused
      /\ queue' = Q!WithoutAt(queue, k)
  BY <1>2, <1>4 DEF Taken
<1>6. Represents'
  <2> HIDE DEF k
  <2> QED  BY <1>1, <1>2, <1>4, <1>5, UnlinkedAt
<1>7. Q!Remove(arg)
  BY <1>2, <1>5 DEF Q!Remove
<1> QED
  BY <1>2, <1>5, <1>6, <1>7 DEF OnQueue, EndWalkInv, SizeWalkInv, FoundInv, QueueStep,
    Q!QueueNext, Sizes

\* syn_reset is Clear.
LEMMA ResetStep ==
  ASSUME OnQueue, Reset
  PROVE  OnQueue' /\ QueueStep
<1>1. /\ queue' = <<>> /\ first_free' = NULL /\ free_count' = 0 /\ made' = {} /\ owned' = {}
      /\ pc = "idle" /\ UNCHANGED <<next_node, pc, returned, misused>>
  BY DEF Reset
<1>2. Represents'
  BY <1>1 DEF OnQueue, Represents, Distinct
<1>3. Q!Clear
  BY <1>1 DEF Q!Clear
<1> QED
  BY <1>1, <1>2, <1>3 DEF OnQueue, EndWalkInv, SizeWalkInv, FoundInv, QueueStep, Q!QueueNext

-----------------------------------------------------------------------------
\* No step forgets that a header has been freed twice.
LEMMA MisusedStays ==
  ASSUME misused \in BOOLEAN, [Next]_vars
  PROVE  misused' \in BOOLEAN /\ (misused = TRUE => misused' = TRUE)
<1>1. ASSUME NEW a \in Nodes, Carve(a) PROVE misused' = misused
  BY <1>1 DEF Carve, history
<1>2. ASSUME NEW a \in Nodes, FreeNode(a) PROVE misused' = (misused \/ a \notin owned)
  BY <1>2, Zenon DEF FreeNode
<1>3. ASSUME NEW size \in Sizes, RemoveNode(size) PROVE misused' = misused
  BY <1>3 DEF RemoveNode, Faults, history
<1>4. ASSUME Walk PROVE misused' = misused
  BY <1>4 DEF Walk, EndWalk, LinkBehind, SizeWalk, LastNode, UnlinkMiddle, UnlinkFirst, UnlinkLast,
    UnlinkOnly, Taken, Faults, history
<1>5. ASSUME Reset \/ Dead \/ UNCHANGED vars PROVE misused' = misused
  BY <1>5 DEF Reset, Dead, vars, history
<1> QED  BY <1>1, <1>2, <1>3, <1>4, <1>5 DEF Next

\* Until a header is freed twice, no step of free_node.c leaves the queue.
LEMMA OnQueueStep ==
  ASSUME OnQueue, [Next]_vars, misused = FALSE, misused' = FALSE
  PROVE  OnQueue' /\ QueueStep
<1>1. ASSUME NEW a \in Nodes, Carve(a) PROVE OnQueue' /\ QueueStep
  BY <1>1, CarveStep
<1>2. ASSUME NEW a \in Nodes, FreeNode(a) PROVE OnQueue' /\ QueueStep
  BY <1>2, FreeNodeStep
<1>3. ASSUME NEW size \in Sizes, RemoveNode(size) PROVE OnQueue' /\ QueueStep
  BY <1>3, RemoveNodeStep
<1>4. CASE Walk
  BY <1>4, EndWalkStep, LinkBehindStep, SizeWalkStep, LastNodeStep, UnlinkStep DEF Walk
<1>5. CASE Reset
  BY <1>5, ResetStep
<1>6. CASE Dead
  BY <1>6 DEF Dead, OnQueue
<1>7. CASE UNCHANGED vars
  <2>1. UNCHANGED <<first_free, free_count, next_node, made, owned, pc, arg, node, prev, next, idx,
                    queue, returned, misused>>
    BY <1>7 DEF vars, listVars, walkVars, history
  <2>2. Represents'
    BY <2>1, RepresentsKept DEF OnQueue
  <2> QED
    BY <2>1, <2>2 DEF OnQueue, EndWalkInv, SizeWalkInv, FoundInv, AtPosition, NoneBefore, PrevOf,
      Sizes, QueueStep, Q!queueVars
<1> QED  BY <1>1, <1>2, <1>3, <1>4, <1>5, <1>6, <1>7 DEF Next

\* QueueInv is inductive, and every step maps to a step of the queue.
LEMMA QueueInvStep ==
  ASSUME QueueInv, [Next]_vars
  PROVE  QueueInv' /\ QueueStep
<1>1. misused \in BOOLEAN /\ misused' \in BOOLEAN /\ (misused = TRUE => misused' = TRUE)
  BY MisusedStays DEF QueueInv
<1>2. CASE misused' = TRUE
  <2>1. Q!Misuse
    BY <1>2 DEF Q!Misuse
  <2> QED  BY <1>2, <2>1 DEF QueueInv, QueueStep, Q!QueueNext
<1>3. CASE misused' = FALSE
  <2>1. misused = FALSE /\ OnQueue
    BY <1>1, <1>3 DEF QueueInv
  <2> QED  BY <1>3, <2>1, OnQueueStep DEF QueueInv
<1> QED  BY <1>1, <1>2, <1>3

\* The inductive invariant, in every behaviour.
LEMMA QueueInvAlways == Spec => []QueueInv
<1>1. Init => QueueInv
  BY QueueInvInit
<1>2. QueueInv /\ [Next]_vars => QueueInv'
  BY QueueInvStep
<1> QED  BY <1>1, <1>2, PTL DEF Spec

\* In every state of every loop the pointers and the count spell out the queue
\* (free_node_add, index_free_list_size, free_node_remove), whatever the headers.
THEOREM ListIsQueueHolds == Spec => []ListIsQueue
<1>1. QueueInv => ListIsQueue
  BY DEF QueueInv, OnQueue, Represents, Distinct, ListIsQueue
<1> QED  BY <1>1, QueueInvAlways, PTL

\* The loops of index_free_list_end and index_free_list_size dereference nothing
\* but headers unless a header is freed twice.
THEOREM WalksStayOnListHolds == Spec => []WalksStayOnList
<1>1. QueueInv => WalksStayOnList
  BY DEF QueueInv, OnQueue, WalksStayOnList
<1> QED  BY <1>1, QueueInvAlways, PTL

\* The linked list implements the queue: Init maps to QueueInit and every step to
\* a step of the queue or a stutter.
THEOREM FreeListIsQueue == Spec => QueueRefinement
<1>1. Init => Q!QueueInit
  BY DEF Init, Q!QueueInit
<1>2. QueueInv /\ [Next]_vars => [Q!QueueNext]_(Q!queueVars)
  BY QueueInvStep DEF QueueStep
<1> QED  BY <1>1, <1>2, QueueInvAlways, PTL DEF Spec, QueueRefinement, Q!QueueSpec

-----------------------------------------------------------------------------
(***************************************************************************)
(* What the list is once headers may have been freed twice.  The pointers  *)
(* from first_free still spell out a sequence of different headers that    *)
(* nobody holds, but the last may point at itself, and free_count may be   *)
(* one too high.  A header that is freed again in the middle cuts the list *)
(* off behind it; the count then drives the walk onto the null pointer.    *)
(***************************************************************************)
Looped(s) == s # <<>> /\ next_node[s[Len(s)]] = s[Len(s)]

Follows(s, i) ==
  IF i < Len(s) THEN next_node[s[i]] = s[i + 1] ELSE next_node[s[i]] \in {NULL, s[i]}

Chain(s) ==
  /\ Distinct(s)
  /\ first_free = IF s = <<>> THEN NULL ELSE s[1]
  /\ \A i \in DOMAIN s : s[i] \in made \ owned /\ Follows(s, i)

Counted(s) ==
  /\ free_count >= Len(s)
  /\ Looped(s) => free_count = Len(s) + 1
  /\ pc # "end_walk" => free_count <= Len(s) + 1

\* A loop has gone round the last header, or past it.
AtChainEnd(s) ==
  /\ s # <<>> /\ idx = Len(s)
  /\ node = IF Looped(s) THEN s[Len(s)] ELSE NULL

OnPlace(s) == idx + 1 \in DOMAIN s /\ node = s[idx + 1]

Before(s) == IF idx = 0 THEN NULL ELSE s[idx]

EndWalkOn(s) == pc = "end_walk" =>
  /\ OnPlace(s) \/ AtChainEnd(s)
  /\ arg \in made \ owned /\ next_node[arg] = NULL
  /\ \A i \in DOMAIN s : s[i] = arg => i = Len(s)

SizeWalkOn(s) == pc = "size_walk" =>
  \/ OnPlace(s) /\ prev = Before(s) /\ next = (IF idx = 0 THEN NULL ELSE node)
  \/ AtChainEnd(s) /\ (node # NULL => NodeSize(node) # arg)

FoundOn(s) == pc = "found" =>
  /\ OnPlace(s) /\ prev = Before(s)
  /\ IF idx + 1 = Len(s) THEN next \in {NULL, node} ELSE next = s[idx + 2]

ChainHolds(s) == Chain(s) /\ Counted(s) /\ EndWalkOn(s) /\ SizeWalkOn(s) /\ FoundOn(s)

ChainInv == TypeOK /\ (pc # "fault" => \E s \in Seq(Nodes) : ChainHolds(s))

-----------------------------------------------------------------------------
\* How long a chain is, and what its places hold.
LEMMA ChainSize ==
  ASSUME NEW s \in Seq(Nodes), Chain(s)
  PROVE  /\ Len(s) \in Nat /\ DOMAIN s = 1 .. Len(s) /\ (s = <<>> <=> Len(s) = 0)
         /\ Len(s) + 1 < WORD /\ WORD \in Nat
         /\ \A i \in 1 .. Len(s) : s[i] \in Nodes /\ s[i] # NULL
<1>1. Len(s) + 1 < WORD
  BY CountFits DEF Chain
<1> QED  BY <1>1, NotNodes, FreeListAssumption

\* What a loop finds at a place of the chain.
LEMMA ChainPlace ==
  ASSUME TypeOK, NEW s \in Seq(Nodes), Chain(s), OnPlace(s)
  PROVE  /\ idx \in Nat /\ idx + 1 \in 1 .. Len(s) /\ Len(s) \in Nat \ {0} /\ s # <<>>
         /\ node = s[idx + 1] /\ node \in Nodes /\ node # NULL /\ node \in made \ owned
         /\ idx + 1 < Len(s) => next_node[node] = s[idx + 2] /\ s[idx + 2] \in Nodes
                                /\ s[idx + 2] # node /\ s[idx + 2] # NULL
         /\ idx + 1 = Len(s) => next_node[node] = IF Looped(s) THEN node ELSE NULL
<1>1. /\ Len(s) \in Nat \ {0} /\ idx + 1 \in 1 .. Len(s) /\ node = s[idx + 1]
      /\ node \in Nodes /\ node # NULL /\ node \in made \ owned /\ s # <<>>
  BY ChainSize DEF OnPlace, Chain
<1>2. idx \in Nat
  BY FreeListAssumption DEF TypeOK
<1>3. Follows(s, idx + 1)
  BY <1>1, ChainSize DEF Chain
<1>4. ASSUME idx + 1 < Len(s)
      PROVE  /\ next_node[node] = s[idx + 2] /\ s[idx + 2] \in Nodes
             /\ s[idx + 2] # node /\ s[idx + 2] # NULL
  <2>1. idx + 2 \in 1 .. Len(s) /\ idx + 2 # idx + 1 /\ (idx + 1) + 1 = idx + 2
    BY <1>1, <1>2, <1>4
  <2>2. s[idx + 2] # s[idx + 1]
    BY <1>1, <2>1, ChainSize DEF Chain, Distinct
  <2> QED  BY <1>1, <1>3, <1>4, <2>1, <2>2, ChainSize DEF Follows
<1>5. idx + 1 = Len(s) => next_node[node] = IF Looped(s) THEN node ELSE NULL
  BY <1>1, <1>3 DEF Follows, Looped
<1> QED  BY <1>1, <1>2, <1>4, <1>5

\* The unsigned bound of the loops, on a list that is not empty.
LEMMA ChainBound ==
  ASSUME TypeOK, NEW s \in Seq(Nodes), Chain(s), Counted(s), s # <<>>
  PROVE  /\ free_count \in Nat \ {0} /\ free_count < WORD /\ idx \in Nat
         /\ (MoreNodes <=> idx + 1 < free_count)
<1>1. Len(s) \in Nat \ {0}
  BY ChainSize
<1>2. free_count \in Nat \ {0} /\ idx \in Nat /\ free_count < WORD /\ WORD \in Nat
  BY <1>1, ChainSize DEF TypeOK, Counted
<1> QED  BY <1>2 DEF MoreNodes, Last

\* Steps that leave the pointers alone.
LEMMA ChainKept ==
  ASSUME NEW s \in Seq(Nodes), Chain(s), UNCHANGED <<first_free, next_node, made, owned>>
  PROVE  Chain(s)' /\ (Looped(s)' <=> Looped(s))
BY DEF Chain, Follows, Looped, Distinct

\* A call that dies leaves the types alone.
LEMMA ChainFault ==
  ASSUME TypeOK, Faults
  PROVE  ChainInv'
BY DEF TypeOK, Faults, ChainInv, listVars, walkVars, history

\* A new header is on no list.
LEMMA ChainCarve ==
  ASSUME TypeOK, NEW s \in Seq(Nodes), ChainHolds(s), NEW a \in Nodes, Carve(a)
  PROVE  ChainInv'
<1>1. /\ pc = "idle" /\ a \notin made /\ made' = made \cup {a} /\ owned' = owned \cup {a}
      /\ next_node' = [next_node EXCEPT ![a] = HandleBytes]
      /\ UNCHANGED <<first_free, free_count, pc, idx, returned, misused>>
  BY DEF Carve, walkVars, history
<1>2. TypeOK'
  BY <1>1 DEF TypeOK
<1>3. \A i \in DOMAIN s : s[i] # a /\ next_node'[s[i]] = next_node[s[i]]
  BY <1>1, ChainSize DEF ChainHolds, Chain, TypeOK
<1>4. Chain(s)'
  BY <1>1, <1>3 DEF ChainHolds, Chain, Follows
<1>5. Looped(s)' <=> Looped(s)
  BY <1>3, ChainSize DEF ChainHolds, Looped
<1>6. Counted(s)'
  BY <1>1, <1>5 DEF ChainHolds, Counted
<1>7. ChainHolds(s)'
  BY <1>1, <1>4, <1>6 DEF ChainHolds, EndWalkOn, SizeWalkOn, FoundOn
<1> QED  BY <1>2, <1>7 DEF ChainInv

\* syn_reset leaves the empty chain.
LEMMA ChainReset ==
  ASSUME TypeOK, Reset
  PROVE  ChainInv'
<1>1. /\ first_free' = NULL /\ free_count' = 0 /\ made' = {} /\ owned' = {} /\ pc' = "idle"
      /\ UNCHANGED <<next_node, idx, returned, misused>>
  BY DEF Reset, walkVars
<1>2. TypeOK'
  BY <1>1, FreeListAssumption DEF TypeOK
<1>3. PICK s \in Seq(Nodes) : s = <<>>
  <2>1. <<>> \in Seq(Nodes)
    OBVIOUS
  <2> QED  BY <2>1, Zenon
<1>4. Chain(s)' /\ Counted(s)'
  BY <1>1, <1>3 DEF Chain, Counted, Distinct, Looped
<1>5. ChainHolds(s)'
  BY <1>1, <1>4 DEF ChainHolds, EndWalkOn, SizeWalkOn, FoundOn
<1> QED  BY <1>2, <1>5 DEF ChainInv

\* index_free_list_end goes one header on, or dies on the null pointer.
LEMMA ChainEndWalk ==
  ASSUME TypeOK, NEW s \in Seq(Nodes), ChainHolds(s), EndWalk
  PROVE  ChainInv'
<1>1. CASE node \notin Nodes
  BY <1>1, ChainFault DEF EndWalk
<1>2. CASE node \in Nodes
  <2>1. /\ pc = "end_walk" /\ MoreNodes /\ pc' = pc
        /\ node' = next_node[node] /\ idx' = (idx + 1) % WORD
        /\ UNCHANGED <<first_free, free_count, next_node, made, owned, arg, returned, misused>>
    BY <1>2 DEF EndWalk, listVars, history
  <2>2. /\ Chain(s) /\ Counted(s) /\ EndWalkOn(s)
        /\ OnPlace(s) \/ AtChainEnd(s)
        /\ arg \in made \ owned /\ next_node[arg] = NULL
        /\ \A i \in DOMAIN s : s[i] = arg => i = Len(s)
    BY <2>1 DEF ChainHolds, EndWalkOn
  <2>3. OnPlace(s)
    <3>1. SUFFICES ASSUME AtChainEnd(s) PROVE FALSE
      BY <2>2
    <3>2. Looped(s) /\ idx = Len(s) /\ s # <<>>
      BY <1>2, <3>1, NotNodes DEF AtChainEnd
    <3>3. free_count = Len(s) + 1 /\ idx + 1 < free_count
      BY <2>1, <2>2, <3>2, ChainBound DEF Counted
    <3> QED  BY <2>2, <3>2, <3>3, ChainSize
  <2>4. /\ idx \in Nat /\ idx + 1 \in 1 .. Len(s) /\ Len(s) \in Nat \ {0} /\ s # <<>>
        /\ idx + 1 < Len(s) => next_node[node] = s[idx + 2]
        /\ idx + 1 = Len(s) => next_node[node] = IF Looped(s) THEN node ELSE NULL
        /\ node = s[idx + 1]
    BY <2>2, <2>3, ChainPlace
  <2>5. idx' = idx + 1 /\ idx' \in 0 .. (WORD - 1)
    <3>1. idx + 1 < WORD /\ WORD \in Nat /\ idx + 1 \in Nat
      BY <2>2, <2>4, ChainSize
    <3> QED  BY <2>1, <3>1, ModSmall
  <2>6. TypeOK'
    BY <2>1, <2>5 DEF TypeOK
  <2>7. Chain(s)' /\ (Looped(s)' <=> Looped(s))
    BY <2>1, <2>2, ChainKept
  <2>8. OnPlace(s)' \/ AtChainEnd(s)'
    <3>1. CASE idx + 1 < Len(s)
      <4>1. idx' + 1 \in DOMAIN s /\ idx' + 1 = idx + 2
        BY <2>2, <2>4, <2>5, <3>1, ChainSize
      <4> QED  BY <2>1, <2>4, <3>1, <4>1 DEF OnPlace
    <3>2. CASE idx + 1 = Len(s)
      BY <2>1, <2>4, <2>5, <2>7, <3>2 DEF AtChainEnd
    <3> QED  BY <2>4, <3>1, <3>2
  <2>9. Counted(s)' /\ EndWalkOn(s)'
    BY <2>1, <2>2, <2>7, <2>8 DEF Counted, EndWalkOn
  <2> QED
    BY <2>1, <2>6, <2>7, <2>9 DEF ChainInv, ChainHolds, SizeWalkOn, FoundOn
<1> QED  BY <1>1, <1>2

\* The first header of an empty list.
LEMMA ChainFirst ==
  ASSUME TypeOK, NEW s \in Seq(Nodes), ChainHolds(s), NEW a \in Nodes, FreeNode(a), first_free = NULL
  PROVE  ChainInv'
<1>1. /\ pc = "idle" /\ pc' = pc /\ a \in made /\ owned' = owned \ {a} /\ made' = made
      /\ first_free' = a /\ free_count' = (free_count + 1) % WORD
      /\ next_node' = [next_node EXCEPT ![a] = NULL]
      /\ UNCHANGED <<idx, returned>>
  BY DEF FreeNode, CountUp, walkVars, TypeOK
<1>2. Len(s) = 0
  <2>1. s = <<>>
    BY ChainSize DEF ChainHolds, Chain
  <2> QED  BY <2>1
<1>3. free_count \in {0, 1}
  BY <1>1, <1>2 DEF ChainHolds, Counted, TypeOK
<1>4. PICK t \in Seq(Nodes) : t = <<a>>
  <2>1. <<a>> \in Seq(Nodes)
    OBVIOUS
  <2> QED  BY <2>1, Zenon
<1>5. Len(t) = 1 /\ t[1] = a /\ DOMAIN t = {1} /\ t # <<>>
  BY <1>4
<1>6. Chain(t)'
  <2>1. next_node'[a] = NULL
    BY <1>1 DEF TypeOK
  <2> QED  BY <1>1, <1>5, <2>1 DEF Chain, Distinct, Follows
<1>7. free_count' = free_count + 1 /\ free_count' \in 0 .. (WORD - 1)
  <2>1. 2 < WORD /\ WORD \in Nat
    <3>1. Distinct(t)
      BY <1>5 DEF Distinct
    <3> QED  BY <1>5, <3>1, CountFits, FreeListAssumption
  <2> QED  BY <1>1, <1>3, <2>1, ModSmall
<1>8. ~Looped(t)'
  <2>1. next_node'[a] = NULL
    BY <1>1 DEF TypeOK
  <2> QED  BY <1>5, <2>1, NotNodes DEF Looped
<1>9. Counted(t)'
  BY <1>3, <1>5, <1>7, <1>8 DEF Counted
<1>10. ChainHolds(t)'
  BY <1>1, <1>6, <1>9 DEF ChainHolds, EndWalkOn, SizeWalkOn, FoundOn
<1>11. misused' \in BOOLEAN
  <2>1. misused' = (misused \/ a \notin owned)
    BY Zenon DEF FreeNode
  <2> QED  BY <2>1
<1>12. TypeOK'
  BY <1>1, <1>7, <1>11 DEF TypeOK
<1> QED  BY <1>10, <1>12 DEF ChainInv

\* A chain that is cut off behind its place k, or not at all.
LEMMA ChainCut ==
  ASSUME TypeOK, NEW s \in Seq(Nodes), ChainHolds(s), NEW a \in Nodes, FreeNode(a),
         first_free # NULL
  PROVE  ChainInv'
<1>1. /\ pc = "idle" /\ pc' = "end_walk" /\ a \in made /\ owned' = owned \ {a} /\ made' = made
      /\ next_node' = [next_node EXCEPT ![a] = NULL]
      /\ arg' = a /\ node' = first_free /\ idx' = 0
      /\ UNCHANGED <<first_free, free_count, returned>>
  BY DEF FreeNode, TypeOK
<1>2. misused' \in BOOLEAN
  <2>1. misused' = (misused \/ a \notin owned)
    BY Zenon DEF FreeNode
  <2> QED  BY <2>1
<1>3. TypeOK'
  BY <1>1, <1>2, FreeListAssumption DEF TypeOK
<1>4. /\ Chain(s) /\ Counted(s) /\ s # <<>> /\ Len(s) \in Nat \ {0} /\ DOMAIN s = 1 .. Len(s)
      /\ \A i \in 1 .. Len(s) : s[i] \in Nodes /\ s[i] # NULL
      /\ first_free = s[1]
  BY ChainSize DEF ChainHolds, Chain
<1>5. next_node'[a] = NULL /\ \A b \in Nodes : b # a => next_node'[b] = next_node[b]
  BY <1>1 DEF TypeOK
<1>6. ASSUME NEW n \in 1 .. Len(s), NEW t \in Seq(Nodes), t # <<>>, Len(t) = n,
             DOMAIN t = 1 .. n, \A i \in 1 .. n : t[i] = s[i],
             \A i \in 1 .. n : t[i] = a => i = n,
             n = Len(s) \/ t[n] = a
      PROVE  ChainHolds(t)'
  <2> DEFINE m == Len(s)
  <2>1. /\ Chain(s) /\ Counted(s) /\ m \in Nat \ {0} /\ DOMAIN s = 1 .. m
        /\ \A i \in 1 .. m : s[i] \in Nodes /\ s[i] # NULL
        /\ first_free = s[1]
    BY <1>4
  <2>2. /\ n \in Nat \ {0} /\ n <= m /\ t # <<>> /\ Len(t) = n
        /\ DOMAIN t = 1 .. n /\ (n = m \/ t[n] = a)
    <3>1. n \in Nat \ {0} /\ n <= m
      BY <2>1
    <3> QED  BY <1>6, <3>1, Zenon
  <2>3. \A i \in 1 .. n : t[i] = s[i] /\ (t[i] = a => i = n)
    BY <1>6
  <2>4. \A i \in DOMAIN s : s[i] \in made \ owned /\ (i < m => next_node[s[i]] = s[i + 1])
          /\ (~(i < m) => next_node[s[i]] \in {NULL, s[i]})
    BY <2>1 DEF Chain, Follows
  <2>5. \A i, j \in DOMAIN s : s[i] = s[j] => i = j
    BY <2>1 DEF Chain, Distinct
  <2>6. Looped(s) <=> next_node[s[m]] = s[m]
    BY <1>4 DEF Looped
  <2>7. Looped(t)' <=> next_node'[t[n]] = t[n]
    BY <2>2 DEF Looped
  <2> HIDE DEF m
  <2>8. Distinct(t)
    BY <2>1, <2>2, <2>3, <2>5 DEF Distinct
  <2>9. ASSUME NEW i \in 1 .. n PROVE t[i] \in made' \ owned' /\ Follows(t, i)'
    <3>1. i \in 1 .. m /\ t[i] = s[i] /\ (t[i] = a => i = n)
      BY <2>1, <2>2, <2>3
    <3>2. t[i] \in made \ owned /\ t[i] \in Nodes
      BY <2>1, <2>4, <3>1
    <3>3. CASE t[i] = a
      BY <1>1, <1>5, <2>2, <3>1, <3>2, <3>3 DEF Follows
    <3>4. CASE t[i] # a /\ i < n
      <4>1. i < m /\ i + 1 \in 1 .. n
        BY <2>1, <2>2, <3>4
      <4>2. next_node'[t[i]] = t[i + 1]
        BY <1>5, <2>1, <2>3, <2>4, <3>1, <3>2, <3>4, <4>1
      <4> QED  BY <1>1, <2>2, <3>2, <3>4, <4>2 DEF Follows
    <3>5. CASE t[i] # a /\ ~(i < n)
      <4>1. i = n /\ n = m
        BY <2>2, <3>1, <3>5
      <4>2. next_node'[t[i]] \in {NULL, t[i]}
        BY <1>5, <2>1, <2>4, <3>1, <3>2, <3>5, <4>1
      <4> QED  BY <1>1, <2>2, <3>2, <3>5, <4>2 DEF Follows
    <3> QED  BY <3>3, <3>4, <3>5
  <2>10. Chain(t)'
    <3>1. t[1] = s[1]
      BY <2>2, <2>3
    <3>2. Distinct(t)'
      BY <2>8 DEF Distinct
    <3> QED  BY <1>1, <2>1, <2>2, <2>9, <3>1, <3>2 DEF Chain
  <2>11. Looped(t)' => n = m /\ Looped(s)
    <3>1. ASSUME Looped(t)' PROVE t[n] # a
      BY <1>5, <2>2, <2>7, <3>1, NotNodes
    <3>2. ASSUME Looped(t)', n = m PROVE Looped(s)
      BY <1>5, <2>1, <2>2, <2>3, <2>6, <2>7, <3>1, <3>2
    <3> QED  BY <2>2, <3>1, <3>2
  <2>12. Counted(t)'
    <3>1. free_count \in Nat /\ free_count >= m /\ (Looped(s) => free_count = m + 1)
      BY <2>1, FreeListAssumption DEF Counted, TypeOK, m
    <3> QED  BY <1>1, <2>1, <2>2, <2>11, <3>1 DEF Counted
  <2>13. EndWalkOn(t)'
    <3>1. OnPlace(t)'
      BY <1>1, <2>1, <2>2, <2>3 DEF OnPlace
    <3> QED  BY <1>1, <1>5, <2>2, <2>3, <3>1 DEF EndWalkOn
  <2> QED  BY <1>1, <2>10, <2>12, <2>13 DEF ChainHolds, SizeWalkOn, FoundOn
<1>7. CASE \A i \in DOMAIN s : s[i] # a
  <2>1. Len(s) \in 1 .. Len(s)
    BY <1>4
  <2>2. ChainHolds(s)'
    BY <1>4, <1>6, <1>7, <2>1
  <2> QED  BY <1>3, <2>2 DEF ChainInv
<1>8. CASE \E k \in DOMAIN s : s[k] = a
  <2>1. PICK k \in 1 .. Len(s) : s[k] = a
    BY <1>4, <1>8
  <2>2. PICK t \in Seq(Nodes) : t = SubSeq(s, 1, k)
    <3>1. SubSeq(s, 1, k) \in Seq(Nodes)
      BY <1>4
    <3> QED  BY <3>1, Zenon
  <2>3. Len(t) = k /\ DOMAIN t = 1 .. k /\ t # <<>> /\ \A i \in 1 .. k : t[i] = s[i]
    BY <1>4, <2>1, <2>2
  <2>4. \A i \in 1 .. k : t[i] = a => i = k
    BY <1>4, <2>1, <2>3 DEF Chain, Distinct
  <2>5. ChainHolds(t)'
    BY <1>6, <2>1, <2>3, <2>4
  <2> QED  BY <1>3, <2>5 DEF ChainInv
<1> QED  BY <1>7, <1>8

\* syn_free, of a header in use or of one that is free already.
LEMMA ChainFreeNode ==
  ASSUME TypeOK, NEW s \in Seq(Nodes), ChainHolds(s), NEW a \in Nodes, FreeNode(a)
  PROVE  ChainInv'
BY ChainFirst, ChainCut

\* A header behind the last one of the chain.
LEMMA ChainExtended ==
  ASSUME TypeOK, NEW s \in Seq(Nodes), Chain(s), s # <<>>,
         arg \in made \ owned, next_node[arg] = NULL, \A i \in DOMAIN s : s[i] # arg,
         next_node' = [next_node EXCEPT ![s[Len(s)]] = arg],
         UNCHANGED <<first_free, made, owned>>,
         NEW t \in Seq(Nodes), t = Append(s, arg)
  PROVE  Chain(t)' /\ ~Looped(t)' /\ Len(t) = Len(s) + 1 /\ Len(t) + 1 < WORD
<1> DEFINE n == Len(s)
<1>1. /\ n \in Nat \ {0} /\ DOMAIN s = 1 .. n /\ arg \in Nodes /\ arg # NULL
      /\ \A i \in 1 .. n : s[i] \in Nodes /\ s[i] # arg
  BY ChainSize, NotNodes DEF TypeOK
<1>2. Len(t) = n + 1 /\ DOMAIN t = 1 .. (n + 1) /\ t[n + 1] = arg /\ \A i \in 1 .. n : t[i] = s[i]
  BY <1>1
<1>3. \A i, j \in 1 .. n : s[i] = s[j] => i = j
  BY <1>1 DEF Chain, Distinct
<1>4. \A i \in 1 .. n : s[i] \in made \ owned /\ (i < n => next_node[s[i]] = s[i + 1])
  BY <1>1 DEF Chain, Follows
<1>5. first_free = s[1] /\ t # <<>>
  BY <1>1, <1>2 DEF Chain
<1>6. /\ next_node'[s[n]] = arg /\ next_node'[arg] = NULL
      /\ \A i \in 1 .. n : i < n => next_node'[s[i]] = s[i + 1]
  <2>1. next_node' = [next_node EXCEPT ![s[n]] = arg]
    OBVIOUS
  <2> HIDE DEF n
  <2> QED  BY <1>1, <1>3, <1>4, <2>1 DEF TypeOK
<1> HIDE DEF n
<1>7. Distinct(t)
  BY <1>1, <1>2, <1>3 DEF Distinct
<1>8. \A i \in 1 .. (n + 1) : t[i] \in made \ owned
  BY <1>1, <1>2, <1>4
<1>9. ASSUME NEW i \in 1 .. (n + 1) PROVE Follows(t, i)'
  <2>1. CASE i = n + 1
    BY <1>1, <1>2, <1>6, <2>1 DEF Follows
  <2>2. CASE i = n
    BY <1>1, <1>2, <1>6, <2>2 DEF Follows
  <2>3. CASE i < n
    <3>1. i \in 1 .. n /\ i + 1 \in 1 .. n /\ i < n + 1
      BY <1>1, <2>3
    <3>2. t[i] = s[i] /\ t[i + 1] = s[i + 1]
      BY <1>2, <3>1
    <3> QED  BY <1>2, <1>6, <2>3, <3>1, <3>2 DEF Follows
  <2> QED  BY <1>1, <2>1, <2>2, <2>3
<1>10. Chain(t)'
  <2>1. t[1] = s[1] /\ Distinct(t)'
    BY <1>1, <1>2, <1>7 DEF Distinct
  <2>2. first_free' = t[1] /\ made' = made /\ owned' = owned
    BY <1>5, <2>1
  <2> QED  BY <1>2, <1>5, <1>8, <1>9, <2>1, <2>2 DEF Chain
<1>11. ~Looped(t)'
  BY <1>1, <1>2, <1>6 DEF Looped
<1>12. Len(t) + 1 < WORD
  BY <1>7, CountFits
<1> QED  BY <1>2, <1>10, <1>11, <1>12 DEF n

\* The last header of the chain, freed once more: it points at itself.
LEMMA ChainBent ==
  ASSUME TypeOK, NEW s \in Seq(Nodes), Chain(s), s # <<>>, arg = s[Len(s)],
         next_node' = [next_node EXCEPT ![s[Len(s)]] = arg],
         UNCHANGED <<first_free, made, owned>>
  PROVE  Chain(s)' /\ Looped(s)'
<1> DEFINE n == Len(s)
<1>1. n \in Nat \ {0} /\ DOMAIN s = 1 .. n /\ \A i \in 1 .. n : s[i] \in Nodes
  BY ChainSize
<1>2. \A i, j \in 1 .. n : s[i] = s[j] => i = j
  BY <1>1 DEF Chain, Distinct
<1>3. \A i \in 1 .. n : s[i] \in made \ owned /\ (i < n => next_node[s[i]] = s[i + 1])
  BY <1>1 DEF Chain, Follows
<1>4. next_node' = [next_node EXCEPT ![s[n]] = s[n]]
  OBVIOUS
<1> HIDE DEF n
<1>5. next_node'[s[n]] = s[n] /\ \A i \in 1 .. n : i < n => next_node'[s[i]] = s[i + 1]
  BY <1>1, <1>2, <1>3, <1>4 DEF TypeOK
<1>6. \A i \in DOMAIN s : Follows(s, i)'
  BY <1>1, <1>5 DEF Follows, n
<1>7. Chain(s)'
  BY <1>1, <1>3, <1>6 DEF Chain, Distinct
<1> QED  BY <1>5, <1>7 DEF Looped, n

\* The end of free_node_add: the walk stands on the last header, which takes the
\* freed one behind it or is bent onto itself.
LEMMA ChainLinkBehind ==
  ASSUME TypeOK, NEW s \in Seq(Nodes), ChainHolds(s), LinkBehind
  PROVE  ChainInv'
<1>1. CASE node \notin Nodes
  BY <1>1, ChainFault DEF LinkBehind
<1>2. CASE node \in Nodes
  <2>1. /\ pc = "end_walk" /\ ~MoreNodes /\ pc' = "idle"
        /\ next_node' = [next_node EXCEPT ![node] = arg]
        /\ free_count' = (free_count + 1) % WORD
        /\ UNCHANGED <<first_free, made, owned, idx, returned, misused>>
    BY <1>2 DEF LinkBehind, CountUp, walkVars
  <2>2. /\ Chain(s) /\ Counted(s)
        /\ OnPlace(s) \/ AtChainEnd(s)
        /\ arg \in made \ owned /\ next_node[arg] = NULL
        /\ \A i \in DOMAIN s : s[i] = arg => i = Len(s)
    BY <2>1 DEF ChainHolds, EndWalkOn
  <2>3. Len(s) \in Nat \ {0} /\ s # <<>> /\ arg \in Nodes /\ arg # NULL /\ DOMAIN s = 1 .. Len(s)
    <3>1. s # <<>>
      BY <2>2, ChainPlace DEF AtChainEnd
    <3> QED  BY <2>2, <3>1, ChainSize, NotNodes DEF TypeOK
  <2>4. free_count \in Nat /\ idx \in Nat /\ ~(idx + 1 < free_count) /\ free_count >= Len(s)
    BY <2>1, <2>2, <2>3, ChainBound DEF Counted
  <2>5. node = s[Len(s)] /\ free_count = IF Looped(s) THEN Len(s) + 1 ELSE Len(s)
    <3>1. CASE OnPlace(s)
      <4>1. idx + 1 \in 1 .. Len(s) /\ node = s[idx + 1]
        BY <2>2, <3>1, ChainPlace
      <4>2. idx + 1 = Len(s) /\ free_count = Len(s)
        <5> DEFINE n == Len(s)
        <5>1. n \in Nat /\ idx + 1 \in 1 .. n /\ free_count >= n
          BY <2>3, <2>4, <4>1
        <5> HIDE DEF n
        <5>2. idx + 1 = n /\ free_count = n
          BY <2>4, <5>1
        <5> QED  BY <5>2 DEF n
      <4>3. ~Looped(s)
        <5>1. free_count # free_count + 1
          BY <2>4
        <5> QED  BY <2>2, <4>2, <5>1, Zenon DEF Counted
      <4> QED  BY <4>1, <4>2, <4>3
    <3>2. CASE AtChainEnd(s)
      BY <1>2, <2>2, <3>2, NotNodes DEF AtChainEnd, Counted
    <3> QED  BY <2>2, <3>1, <3>2
  <2>6. TypeOK'
    <3>1. next_node' \in [Nodes -> Nodes \cup {NULL, HandleBytes}]
      BY <2>1, <2>3 DEF TypeOK
    <3>2. free_count' \in 0 .. (WORD - 1)
      BY <2>1, <2>4, CountFits, <2>2, ChainSize
    <3> QED  BY <2>1, <3>1, <3>2 DEF TypeOK
  <2>7. CASE arg = s[Len(s)]
    <3>1. Chain(s)' /\ Looped(s)'
      BY <2>1, <2>2, <2>3, <2>5, <2>7, ChainBent
    <3>2. ~Looped(s)
      BY <2>2, <2>3, <2>7 DEF Looped
    <3>3. free_count' = Len(s) + 1
      <4>1. Len(s) + 1 < WORD /\ Len(s) + 1 \in Nat /\ WORD \in Nat
        BY <2>2, <2>3, ChainSize
      <4> QED  BY <2>1, <2>5, <3>2, <4>1, ModSmall
    <3>4. Counted(s)'
      BY <2>3, <3>3 DEF Counted
    <3>5. ChainHolds(s)'
      BY <2>1, <3>1, <3>4 DEF ChainHolds, EndWalkOn, SizeWalkOn, FoundOn
    <3> QED  BY <2>6, <3>5 DEF ChainInv
  <2>8. CASE arg # s[Len(s)]
    <3>1. \A i \in DOMAIN s : s[i] # arg
      BY <2>2, <2>8
    <3>2. PICK t \in Seq(Nodes) : t = Append(s, arg)
      <4>1. Append(s, arg) \in Seq(Nodes)
        BY <2>3
      <4> QED  BY <4>1, Zenon
    <3>3. Chain(t)' /\ ~Looped(t)' /\ Len(t) = Len(s) + 1 /\ Len(t) + 1 < WORD
      BY <2>1, <2>2, <2>3, <2>5, <3>1, <3>2, ChainExtended
    <3>4. free_count' = free_count + 1
      <4> DEFINE n == Len(s)
      <4>1. n \in Nat /\ free_count \in {n, n + 1} /\ (n + 1) + 1 < WORD /\ WORD \in Nat
        BY <2>3, <2>5, <3>3, FreeListAssumption
      <4> HIDE DEF n
      <4>2. free_count + 1 < WORD /\ free_count + 1 \in Nat
        BY <4>1
      <4> QED  BY <2>1, <4>1, <4>2, ModSmall
    <3>5. Counted(t)'
      <4> DEFINE n == Len(s)
      <4>1. n \in Nat /\ free_count \in {n, n + 1} /\ Len(t) = n + 1
        BY <2>3, <2>5, <3>3
      <4> HIDE DEF n
      <4>2. free_count' >= Len(t) /\ free_count' <= Len(t) + 1
        BY <3>4, <4>1
      <4> QED  BY <3>3, <4>2 DEF Counted
    <3>6. ChainHolds(t)'
      BY <2>1, <3>3, <3>5 DEF ChainHolds, EndWalkOn, SizeWalkOn, FoundOn
    <3> QED  BY <2>6, <3>6 DEF ChainInv
  <2> QED  BY <2>7, <2>8
<1> QED  BY <1>1, <1>2

\* index_free_list_size looks at the first header.
LEMMA ChainRemoveNode ==
  ASSUME TypeOK, NEW s \in Seq(Nodes), ChainHolds(s), NEW size \in Sizes, RemoveNode(size)
  PROVE  ChainInv'
<1>1. Chain(s) /\ Counted(s) /\ first_free # NULL
  BY DEF ChainHolds, RemoveNode
<1>2. /\ s # <<>> /\ Len(s) \in Nat \ {0} /\ first_free = s[1] /\ first_free \in Nodes
      /\ DOMAIN s = 1 .. Len(s)
  BY <1>1, ChainSize DEF Chain
<1>3. /\ pc = "idle" /\ arg' = size /\ node' = first_free /\ prev' = NULL /\ idx' = 0
      /\ UNCHANGED <<first_free, free_count, next_node, made, owned, returned, misused>>
      /\ IF NodeSize(first_free) = size
           THEN pc' = "found" /\ next' = next_node[first_free]
           ELSE pc' = "size_walk" /\ next' = NULL
  BY <1>2 DEF RemoveNode, listVars, history
<1>4. TypeOK'
  BY <1>3, FreeListAssumption DEF TypeOK
<1>5. Chain(s)' /\ (Looped(s)' <=> Looped(s))
  BY <1>1, <1>3, ChainKept
<1>6. Counted(s)'
  BY <1>1, <1>3, <1>5 DEF ChainHolds, Counted
<1>7. OnPlace(s)' /\ prev' = Before(s)'
  BY <1>2, <1>3 DEF OnPlace, Before
<1>8. SizeWalkOn(s)'
  BY <1>3, <1>7 DEF SizeWalkOn
<1>9. FoundOn(s)'
  <2>1. Follows(s, 1)
    BY <1>1, <1>2 DEF Chain
  <2>2. IF 1 = Len(s) THEN next_node[s[1]] \in {NULL, s[1]} ELSE next_node[s[1]] = s[2]
    <3>1. 1 < Len(s) <=> 1 # Len(s)
      BY <1>2
    <3> QED  BY <2>1, <3>1 DEF Follows
  <2>3. idx' + 1 = 1 /\ idx' + 2 = 2 /\ node' = s[1] /\ (pc' = "found" => next' = next_node[s[1]])
    BY <1>2, <1>3
  <2> QED  BY <1>7, <2>2, <2>3 DEF FoundOn
<1> QED
  BY <1>3, <1>4, <1>5, <1>6, <1>8, <1>9 DEF ChainInv, ChainHolds, EndWalkOn

\* The search stands on a header of another size, and goes to the next one.
LEMMA ChainSearched ==
  ASSUME TypeOK, NEW s \in Seq(Nodes), Chain(s), OnPlace(s), ~Fits,
         UNCHANGED <<first_free, next_node, made, owned, arg>>,
         next' = (IF next_node[node] # NULL THEN next_node[node] ELSE next),
         prev' = node, node' = next_node[node], idx' = (idx + 1) % WORD, pc' = "size_walk"
  PROVE  SizeWalkOn(s)' /\ idx' \in 0 .. (WORD - 1)
<1>1. /\ idx \in Nat /\ idx + 1 \in 1 .. Len(s) /\ Len(s) \in Nat \ {0} /\ s # <<>>
      /\ node = s[idx + 1]
      /\ idx + 1 < Len(s) => next_node[node] = s[idx + 2] /\ s[idx + 2] # NULL
      /\ idx + 1 = Len(s) => next_node[node] = IF Looped(s) THEN node ELSE NULL
  BY ChainPlace
<1>2. idx' = idx + 1 /\ idx' \in 0 .. (WORD - 1)
  <2>1. idx + 1 < WORD /\ WORD \in Nat /\ idx + 1 \in Nat
    BY <1>1, ChainSize
  <2> QED  BY <2>1, ModSmall
<1>3. Chain(s)' /\ (Looped(s)' <=> Looped(s))
  BY ChainKept
<1>4. CASE idx + 1 < Len(s)
  <2>1. idx' + 1 \in DOMAIN s /\ idx' + 1 = idx + 2 /\ idx' # 0
    BY <1>1, <1>2, <1>4, ChainSize
  <2>2. OnPlace(s)' /\ prev' = Before(s)' /\ next' = node'
    BY <1>1, <1>2, <1>4, <2>1 DEF OnPlace, Before
  <2> QED  BY <1>2, <2>1, <2>2 DEF SizeWalkOn
<1>5. CASE idx + 1 = Len(s)
  <2>1. AtChainEnd(s)'
    BY <1>1, <1>2, <1>3, <1>5 DEF AtChainEnd
  <2>2. node' # NULL => NodeSize(node') # arg'
    BY <1>1, <1>5 DEF Fits
  <2> QED  BY <1>2, <2>1, <2>2 DEF SizeWalkOn
<1> QED  BY <1>1, <1>4, <1>5

\* index_free_list_size finds a header of the size or goes one further.
LEMMA ChainSizeWalk ==
  ASSUME TypeOK, NEW s \in Seq(Nodes), ChainHolds(s), SizeWalk
  PROVE  ChainInv'
<1>1. CASE node \notin Nodes
  BY <1>1, ChainFault DEF SizeWalk
<1>2. CASE node \in Nodes
  <2>1. /\ pc = "size_walk" /\ MoreNodes
        /\ next' = (IF next_node[node] # NULL THEN next_node[node] ELSE next)
        /\ IF Fits THEN pc' = "found" /\ UNCHANGED <<prev, node, idx>>
                   ELSE /\ prev' = node /\ node' = next_node[node] /\ idx' = (idx + 1) % WORD
                        /\ pc' = pc
        /\ UNCHANGED <<first_free, free_count, next_node, made, owned, arg, returned, misused>>
    BY <1>2 DEF SizeWalk, listVars, history
  <2>2. /\ Chain(s) /\ Counted(s)
        /\ \/ OnPlace(s) /\ prev = Before(s) /\ next = (IF idx = 0 THEN NULL ELSE node)
           \/ AtChainEnd(s)
    BY <2>1 DEF ChainHolds, SizeWalkOn
  <2>3. OnPlace(s) /\ prev = Before(s) /\ next = (IF idx = 0 THEN NULL ELSE node)
    <3>1. SUFFICES ASSUME AtChainEnd(s) PROVE FALSE
      BY <2>2
    <3>2. idx = Len(s) /\ s # <<>>
      BY <3>1 DEF AtChainEnd
    <3>3. free_count <= Len(s) + 1 /\ idx + 1 < free_count /\ free_count \in Nat /\ idx \in Nat
      BY <2>1, <2>2, <3>2, ChainBound DEF Counted
    <3> QED  BY <3>2, <3>3
  <2>4. Chain(s)' /\ (Looped(s)' <=> Looped(s))
    BY <2>1, <2>2, ChainKept
  <2>5. Counted(s)'
    BY <2>1, <2>2, <2>4 DEF Counted
  <2>6. CASE Fits
    <3>1. TypeOK'
      BY <2>1, <2>6 DEF TypeOK
    <3>2. OnPlace(s)' /\ prev' = Before(s)'
      BY <2>1, <2>3, <2>6 DEF OnPlace, Before
    <3>3. IF idx' + 1 = Len(s) THEN next' \in {NULL, node'} ELSE next' = s[idx' + 2]
      <4>1. /\ idx + 1 < Len(s) => next_node[node] = s[idx + 2] /\ s[idx + 2] # NULL
            /\ idx + 1 = Len(s) => next_node[node] \in {NULL, node}
            /\ (idx + 1 < Len(s) <=> idx + 1 # Len(s))
        BY <2>2, <2>3, ChainPlace
      <4> QED  BY <2>1, <2>3, <2>6, <4>1
    <3>4. FoundOn(s)' /\ pc' = "found"
      BY <2>1, <2>6, <3>2, <3>3 DEF FoundOn
    <3> QED
      BY <2>4, <2>5, <3>1, <3>4 DEF ChainInv, ChainHolds, EndWalkOn, SizeWalkOn
  <2>7. CASE ~Fits
    <3>1. pc' = "size_walk"
      BY <2>1, <2>7
    <3>2. SizeWalkOn(s)' /\ idx' \in 0 .. (WORD - 1)
      BY <2>1, <2>2, <2>3, <2>7, <3>1, ChainSearched
    <3>3. TypeOK'
      BY <2>1, <3>1, <3>2 DEF TypeOK
    <3> QED
      BY <2>4, <2>5, <3>1, <3>2, <3>3 DEF ChainInv, ChainHolds, EndWalkOn, FoundOn
  <2> QED  BY <2>6, <2>7
<1> QED  BY <1>1, <1>2

\* index_free_list_size at the end of its loop.
LEMMA ChainLastNode ==
  ASSUME TypeOK, NEW s \in Seq(Nodes), ChainHolds(s), LastNode
  PROVE  ChainInv'
<1>1. CASE node \notin Nodes
  BY <1>1, ChainFault DEF LastNode
<1>2. CASE node \in Nodes
  <2>1. /\ pc = "size_walk" /\ ~MoreNodes
        /\ IF Fits THEN pc' = "found" /\ UNCHANGED returned ELSE pc' = "idle" /\ returned' = NULL
        /\ UNCHANGED <<first_free, free_count, next_node, made, owned, arg, node, prev, next, idx,
                       misused>>
    BY <1>2 DEF LastNode, listVars, walkVars
  <2>2. /\ Chain(s) /\ Counted(s)
        /\ \/ OnPlace(s) /\ prev = Before(s) /\ next = (IF idx = 0 THEN NULL ELSE node)
           \/ AtChainEnd(s) /\ (node # NULL => ~Fits)
    BY <2>1 DEF ChainHolds, SizeWalkOn, Fits
  <2>3. TypeOK'
    BY <2>1 DEF TypeOK
  <2>4. Chain(s)' /\ (Looped(s)' <=> Looped(s))
    BY <2>1, <2>2, ChainKept
  <2>5. Counted(s)'
    BY <2>1, <2>2, <2>4 DEF Counted
  <2>6. CASE ~Fits
    <3>1. pc' = "idle"
      BY <2>1, <2>6
    <3> QED
      BY <2>3, <2>4, <2>5, <3>1 DEF ChainInv, ChainHolds, EndWalkOn, SizeWalkOn, FoundOn
  <2>7. CASE Fits
    <3>1. OnPlace(s) /\ prev = Before(s) /\ next = (IF idx = 0 THEN NULL ELSE node)
      BY <1>2, <2>2, <2>7, NotNodes
    <3>2. idx + 1 = Len(s)
      <4> DEFINE n == Len(s)
      <4>1. /\ n \in Nat /\ idx \in Nat /\ idx + 1 \in 1 .. n
            /\ free_count >= n /\ free_count \in Nat /\ ~(idx + 1 < free_count)
        BY <2>1, <2>2, <3>1, ChainPlace, ChainBound DEF Counted
      <4> HIDE DEF n
      <4>2. idx + 1 = n
        BY <4>1
      <4> QED  BY <4>2 DEF n
    <3>3. OnPlace(s)' /\ prev' = Before(s)' /\ idx' + 1 = Len(s) /\ next' \in {NULL, node'}
      BY <2>1, <3>1, <3>2 DEF OnPlace, Before
    <3>4. FoundOn(s)' /\ pc' = "found"
      BY <2>1, <2>7, <3>3 DEF FoundOn
    <3> QED
      BY <2>3, <2>4, <2>5, <3>4 DEF ChainInv, ChainHolds, EndWalkOn, SizeWalkOn
  <2> QED  BY <2>6, <2>7
<1> QED  BY <1>1, <1>2

\* Unlinking place k of the chain, as all four cases do it.
LEMMA ChainShortened ==
  ASSUME TypeOK, NEW s \in Seq(Nodes), Chain(s), NEW k \in DOMAIN s,
         made' = made, owned' = owned \cup {s[k]},
         NEW P, next_node' = [P EXCEPT ![s[k]] = HandleBytes],
         P = IF k = 1 THEN next_node
             ELSE [next_node EXCEPT ![s[k - 1]] = IF k = Len(s) THEN NULL ELSE s[k + 1]],
         first_free' = IF k # 1 THEN first_free ELSE IF k = Len(s) THEN NULL ELSE s[2],
         NEW t \in Seq(Nodes), t = Q!WithoutAt(s, k)
  PROVE  /\ Chain(t)' /\ Len(t) = Len(s) - 1 /\ (Looped(t)' => Looped(s))
         /\ next_node' \in [Nodes -> Nodes \cup {NULL, HandleBytes}]
<1> DEFINE n == Len(s)
<1>1. n \in Nat \ {0} /\ DOMAIN s = 1 .. n /\ k \in 1 .. n /\ \A i \in 1 .. n : s[i] \in Nodes
  BY ChainSize
<1>2. /\ Len(t) = n - 1 /\ DOMAIN t = 1 .. (n - 1)
      /\ \A j \in 1 .. (n - 1) : t[j] = IF j < k THEN s[j] ELSE s[j + 1]
      /\ Distinct(t) /\ \A j \in DOMAIN t : t[j] # s[k]
  <2> DEFINE w == Q!WithoutAt(s, k)
  <2>1. /\ Len(w) = n - 1 /\ DOMAIN w = 1 .. (n - 1)
        /\ \A j \in 1 .. (n - 1) : w[j] = IF j < k THEN s[j] ELSE s[j + 1]
        /\ Distinct(w) /\ \A j \in DOMAIN w : w[j] # s[k]
    BY WithoutOne DEF Chain
  <2>2. t = w
    OBVIOUS
  <2> HIDE DEF n, w
  <2> QED  BY <2>1, <2>2
<1>3. \A i, j \in 1 .. n : s[i] = s[j] => i = j
  BY <1>1 DEF Chain, Distinct
<1>4. P \in [Nodes -> Nodes \cup {NULL, HandleBytes}]
  BY <1>1 DEF TypeOK
<1>5. next_node' \in [Nodes -> Nodes \cup {NULL, HandleBytes}]
  BY <1>4
<1>6. first_free' = IF t = <<>> THEN NULL ELSE t[1]
  <2>1. t = <<>> <=> n = 1
    BY <1>1, <1>2
  <2> QED  BY <1>1, <1>2, <2>1 DEF Chain
<1>7. \A i \in 1 .. n : /\ s[i] \in made \ owned
                        /\ i < n => next_node[s[i]] = s[i + 1]
                        /\ i = n => next_node[s[i]] \in {NULL, s[i]}
  <2>1. ASSUME NEW i \in 1 .. n
        PROVE  /\ s[i] \in made \ owned
               /\ IF i < n THEN next_node[s[i]] = s[i + 1] ELSE next_node[s[i]] \in {NULL, s[i]}
    BY <1>1 DEF Chain, Follows
  <2> HIDE DEF n
  <2> QED  BY <1>1, <2>1
<1>8. /\ \A m \in 1 .. n : m # k => next_node'[s[m]] = P[s[m]]
      /\ k # 1 => P[s[k - 1]] = IF k = n THEN NULL ELSE s[k + 1]
      /\ \A m \in 1 .. n : m # k - 1 => P[s[m]] = next_node[s[m]]
  <2>1. ASSUME NEW m \in 1 .. n, m # k PROVE next_node'[s[m]] = P[s[m]]
    BY <1>1, <1>3, <1>4, <2>1
  <2>2. k # 1 => k - 1 \in 1 .. n /\ P[s[k - 1]] = IF k = n THEN NULL ELSE s[k + 1]
    BY <1>1 DEF TypeOK
  <2>3. ASSUME NEW m \in 1 .. n, m # k - 1 PROVE P[s[m]] = next_node[s[m]]
    <3>1. CASE k = 1
      BY <3>1
    <3>2. CASE k # 1
      <4>1. k - 1 \in 1 .. n /\ s[m] # s[k - 1]
        BY <1>1, <1>3, <2>3, <3>2
      <4> QED  BY <1>1, <3>2, <4>1 DEF TypeOK
    <3> QED  BY <3>1, <3>2
  <2> QED  BY <2>1, <2>2, <2>3
<1>9. first_free' = first_free' /\ made' = made /\ owned' = owned \cup {s[k]}
  OBVIOUS
<1> HIDE DEF n
<1>10. ASSUME NEW i \in 1 .. (n - 1)
       PROVE  /\ t[i] \in made' \ owned' /\ Follows(t, i)'
              /\ i = n - 1 => (next_node'[t[i]] = t[i] => next_node[s[n]] = s[n])
  <2> DEFINE m == IF i < k THEN i ELSE i + 1
  <2>1. m \in 1 .. n /\ m # k /\ t[i] = s[m] /\ s[m] # s[k]
    BY <1>1, <1>2, <1>3
  <2>2. (i < k /\ m = i) \/ (~(i < k) /\ m = i + 1)
    OBVIOUS
  <2> HIDE DEF m
  <2>3. t[i] \in made' \ owned'
    BY <1>7, <1>9, <2>1
  <2>4. next_node'[t[i]] = P[s[m]]
    BY <1>8, <2>1
  <2>5. CASE m = k - 1
    <3>1. i = k - 1 /\ (i = n - 1 <=> k = n) /\ k # 1
      BY <1>1, <2>1, <2>2, <2>5
    <3>2. P[s[m]] = IF k = n THEN NULL ELSE s[k + 1]
      BY <1>8, <2>5, <3>1
    <3>3. CASE k = n
      <4>1. next_node'[t[i]] = NULL /\ t[i] # NULL
        BY <1>1, <2>1, <2>4, <3>2, <3>3, NotNodes
      <4> QED  BY <1>2, <2>3, <3>1, <3>3, <4>1 DEF Follows
    <3>4. CASE k # n
      <4>1. k \in 1 .. (n - 1) /\ ~(k < k) /\ i + 1 = k /\ i < n - 1
        BY <1>1, <3>1, <3>4
      <4>2. t[i + 1] = s[k + 1]
        BY <1>2, <4>1
      <4> QED  BY <1>2, <2>3, <2>4, <3>1, <3>2, <3>4, <4>1, <4>2 DEF Follows
    <3> QED  BY <3>3, <3>4
  <2>6. CASE m # k - 1
    <3>1. next_node'[t[i]] = next_node[s[m]]
      BY <1>8, <2>1, <2>4, <2>6
    <3>2. i = n - 1 <=> m = n
      BY <1>1, <2>1, <2>2, <2>6
    <3>3. CASE m = n
      BY <1>2, <1>7, <2>1, <2>3, <3>1, <3>2, <3>3 DEF Follows
    <3>4. CASE m # n
      <4>1. m < n /\ i + 1 \in 1 .. (n - 1) /\ i < n - 1
        BY <1>1, <2>1, <3>2, <3>4
      <4>2. t[i + 1] = s[m + 1]
        <5>1. t[i + 1] = IF i + 1 < k THEN s[i + 1] ELSE s[(i + 1) + 1]
          BY <1>2, <4>1
        <5>2. CASE i < k
          <6>1. i + 1 < k /\ m = i
            BY <1>1, <2>2, <2>6, <5>2
          <6> QED  BY <5>1, <6>1
        <5>3. CASE ~(i < k)
          <6>1. ~(i + 1 < k) /\ m = i + 1
            BY <1>1, <2>2, <5>3
          <6> QED  BY <5>1, <6>1
        <5> QED  BY <5>2, <5>3
      <4> QED  BY <1>2, <1>7, <2>1, <2>3, <3>1, <3>2, <3>4, <4>1, <4>2 DEF Follows
    <3> QED  BY <3>3, <3>4
  <2> QED  BY <2>5, <2>6
<1>11. Chain(t)'
  <2>1. Distinct(t)'
    BY <1>2 DEF Distinct
  <2> QED  BY <1>2, <1>6, <1>10, <2>1 DEF Chain
<1>12. Looped(t)' => Looped(s)
  <2>1. ASSUME Looped(t)' PROVE Looped(s)
    <3>1. t # <<>> /\ next_node'[t[n - 1]] = t[n - 1]
      BY <1>2, <2>1 DEF Looped
    <3>2. n - 1 \in 1 .. (n - 1)
      BY <1>1, <1>2, <3>1
    <3>3. next_node[s[n]] = s[n]
      BY <1>10, <3>1, <3>2
    <3> QED  BY <1>1, <3>3 DEF Looped, n
  <2> QED  BY <2>1
<1> QED  BY <1>2, <1>5, <1>11, <1>12 DEF n

\* The four cases behind `found' unlink the header on whose place the loop stands.
LEMMA ChainUnlink ==
  ASSUME TypeOK, NEW s \in Seq(Nodes), ChainHolds(s),
         UnlinkMiddle \/ UnlinkFirst \/ UnlinkLast \/ UnlinkOnly
  PROVE  ChainInv'
<1> DEFINE n == Len(s)
           k == idx + 1
           P == IF k = 1 THEN next_node
                ELSE [next_node EXCEPT ![s[k - 1]] = IF k = n THEN NULL ELSE s[k + 1]]
<1>1. /\ Chain(s) /\ Counted(s) /\ pc = "found" /\ OnPlace(s) /\ prev = Before(s)
      /\ IF idx + 1 = n THEN next \in {NULL, node} ELSE next = s[idx + 2]
  BY DEF ChainHolds, FoundOn, UnlinkMiddle, UnlinkFirst, UnlinkLast, UnlinkOnly
<1>2. /\ idx \in Nat /\ k \in 1 .. n /\ n \in Nat \ {0} /\ s # <<>> /\ DOMAIN s = 1 .. n
      /\ node = s[k] /\ node \in Nodes /\ node # NULL /\ node \in made
      /\ k < n => s[idx + 2] # node /\ s[idx + 2] # NULL
  BY <1>1, ChainPlace, ChainSize
<1>3. After = IF k = n THEN NULL ELSE s[k + 1]
  <2>1. k + 1 = idx + 2 /\ (k < n <=> k # n)
    <3> HIDE DEF n
    <3> QED  BY <1>2
  <2> QED  BY <1>1, <1>2, <2>1 DEF After
<1>4. After = NULL <=> k = n
  <2>1. k + 1 = idx + 2 /\ (k < n <=> k # n)
    <3> HIDE DEF n
    <3> QED  BY <1>2
  <2> QED  BY <1>2, <1>3, <2>1
<1>5. (prev = NULL <=> k = 1) /\ (prev # NULL => prev = s[k - 1])
  <2>1. (k = 1 <=> idx = 0) /\ k - 1 = idx /\ (idx # 0 => idx \in 1 .. n)
    BY <1>2
  <2>2. idx # 0 => s[idx] # NULL
    BY <1>1, <2>1, ChainSize
  <2> QED  BY <1>1, <2>1, <2>2 DEF Before
<1>6. Taken(P) /\ first_free' = IF k # 1 THEN first_free ELSE IF k = n THEN NULL ELSE s[2]
  <2> HIDE DEF n, k
  <2>1. CASE UnlinkMiddle
    BY <1>3, <1>4, <1>5, <2>1 DEF UnlinkMiddle
  <2>2. CASE UnlinkFirst
    BY <1>3, <1>4, <1>5, <2>2 DEF UnlinkFirst
  <2>3. CASE UnlinkLast
    BY <1>3, <1>4, <1>5, <2>3 DEF UnlinkLast
  <2>4. CASE UnlinkOnly
    BY <1>4, <1>5, <2>4 DEF UnlinkOnly
  <2> QED  BY <2>1, <2>2, <2>3, <2>4
<1>7. /\ next_node' = [P EXCEPT ![s[k]] = HandleBytes]
      /\ free_count' = (free_count - 1) % WORD
      /\ pc' = "idle" /\ owned' = owned \cup {s[k]} /\ made' = made
      /\ returned' = node /\ misused' = misused /\ idx' = idx
  BY <1>2, <1>6 DEF Taken, walkVars
<1>8. PICK t \in Seq(Nodes) : t = Q!WithoutAt(s, k)
  <2>1. Q!WithoutAt(s, k) \in Seq(Nodes)
    BY <1>2, WithoutOne
  <2> QED  BY <2>1, Zenon
<1>9. /\ Chain(t)' /\ Len(t) = n - 1 /\ (Looped(t)' => Looped(s))
      /\ next_node' \in [Nodes -> Nodes \cup {NULL, HandleBytes}]
  <2>1. k \in DOMAIN s
    BY <1>2
  <2> HIDE DEF k
  <2> QED  BY <1>1, <1>6, <1>7, <1>8, <2>1, ChainShortened
<1>10. /\ free_count \in Nat /\ free_count >= n /\ free_count <= n + 1 /\ n + 1 < WORD /\ WORD \in Nat
       /\ Looped(s) => free_count = n + 1
  <2>1. free_count \in Nat /\ n + 1 < WORD /\ WORD \in Nat
    BY <1>1, ChainSize, ChainBound, <1>2
  <2> QED  BY <1>1, <2>1 DEF Counted
<1> HIDE DEF n
<1>11. free_count' = free_count - 1 /\ free_count' \in 0 .. (WORD - 1)
  <2>1. free_count - 1 \in Nat /\ free_count - 1 < WORD
    BY <1>2, <1>10
  <2> QED  BY <1>7, <1>10, <2>1, ModSmall
<1>12. Counted(t)'
  <2>1. free_count' >= n - 1 /\ free_count' <= (n - 1) + 1 /\ (Looped(s) => free_count' = (n - 1) + 1)
    BY <1>2, <1>10, <1>11
  <2> QED  BY <1>9, <2>1 DEF Counted
<1>13. ChainHolds(t)'
  BY <1>7, <1>9, <1>12 DEF ChainHolds, EndWalkOn, SizeWalkOn, FoundOn
<1>14. TypeOK'
  BY <1>2, <1>6, <1>7, <1>9, <1>11 DEF TypeOK
<1> QED  BY <1>13, <1>14 DEF ChainInv

\* An empty list is a chain.
LEMMA ChainInit == Init => ChainInv
<1> SUFFICES ASSUME Init PROVE ChainInv
  OBVIOUS
<1>1. TypeOK
  <2>1. WORD \in Nat /\ WORD > 0
    BY FreeListAssumption, FS_CardinalityType
  <2>2. next_node \in [Nodes -> Nodes \cup {NULL, HandleBytes}]
    BY DEF Init
  <2>3. /\ first_free = NULL /\ free_count = 0 /\ idx = 0 /\ owned = {} /\ made = {}
        /\ pc = "idle" /\ returned = NULL
    BY DEF Init
  <2>4. misused \in BOOLEAN
    BY Zenon DEF Init
  <2> QED  BY <2>1, <2>2, <2>3, <2>4 DEF TypeOK
<1>2. PICK s \in Seq(Nodes) : s = <<>>
  <2>1. <<>> \in Seq(Nodes)
    OBVIOUS
  <2> QED  BY <2>1, Zenon
<1>3. ChainHolds(s)
  BY <1>2 DEF Init, ChainHolds, Chain, Counted, Distinct, Looped, EndWalkOn, SizeWalkOn, FoundOn
<1> QED  BY <1>1, <1>3 DEF ChainInv

\* Every step keeps the chain, whatever headers are freed twice.
LEMMA ChainStep ==
  ASSUME ChainInv, [Next]_vars
  PROVE  ChainInv'
<1>1. CASE pc = "fault"
  <2>1. UNCHANGED <<first_free, free_count, next_node, made, owned, pc, idx, returned, misused>>
    BY <1>1 DEF Next, Carve, FreeNode, RemoveNode, Walk, EndWalk, LinkBehind, SizeWalk, LastNode,
      UnlinkMiddle, UnlinkFirst, UnlinkLast, UnlinkOnly, Reset, Dead, vars, listVars, walkVars,
      history
  <2> QED  BY <1>1, <2>1 DEF ChainInv, TypeOK
<1>2. CASE pc # "fault"
  <2>1. PICK s \in Seq(Nodes) : ChainHolds(s)
    BY <1>2 DEF ChainInv
  <2>2. TypeOK
    BY DEF ChainInv
  <2>3. ASSUME NEW a \in Nodes, Carve(a) \/ FreeNode(a) PROVE ChainInv'
    BY <2>1, <2>2, <2>3, ChainCarve, ChainFreeNode
  <2>4. ASSUME NEW size \in Sizes, RemoveNode(size) PROVE ChainInv'
    BY <2>1, <2>2, <2>4, ChainRemoveNode
  <2>5. CASE Walk
    BY <2>1, <2>2, <2>5, ChainEndWalk, ChainLinkBehind, ChainSizeWalk, ChainLastNode, ChainUnlink
    DEF Walk
  <2>6. CASE Reset
    BY <2>2, <2>6, ChainReset
  <2>7. CASE Dead
    BY <1>2, <2>7 DEF Dead
  <2>8. CASE UNCHANGED vars
    <3>1. UNCHANGED <<first_free, free_count, next_node, made, owned, pc, arg, node, prev, next,
                      idx, returned, misused>>
      BY <2>8 DEF vars, listVars, walkVars, history
    <3>2. Chain(s)' /\ (Looped(s)' <=> Looped(s))
      BY <2>1, <3>1, ChainKept DEF ChainHolds
    <3>3. ChainHolds(s)'
      BY <2>1, <3>1, <3>2 DEF ChainHolds, Counted, EndWalkOn, SizeWalkOn, FoundOn, OnPlace,
        AtChainEnd, Before
    <3>4. TypeOK'
      BY <2>2, <3>1 DEF TypeOK
    <3> QED  BY <3>3, <3>4 DEF ChainInv
  <2> QED  BY <2>3, <2>4, <2>5, <2>6, <2>7, <2>8 DEF Next
<1> QED  BY <1>1, <1>2

\* The list stays a chain, cut or bent, for every set of headers and every caller.
THEOREM ChainInvHolds == Spec => []ChainInv
<1>1. Init => ChainInv
  BY ChainInit
<1>2. ChainInv /\ [Next]_vars => ChainInv'
  BY ChainStep
<1> QED  BY <1>1, <1>2, PTL DEF Spec

\* The types of the variables, on the lists that a double free leaves behind too
\* (free_node_add, free_node_remove).
THEOREM FreeListTypes == Spec => []TypeOK
<1>1. ChainInv => TypeOK
  BY DEF ChainInv
<1> QED  BY <1>1, ChainInvHolds, PTL

\* index_free_list_size never hands out a header that somebody holds, not even
\* from a list on which a header was freed twice: what is left of the list is a
\* chain of headers nobody holds, or the walk dies on a null pointer.
THEOREM HandedOutOnceHolds == Spec => []HandedOutOnce
<1>1. ChainInv => HandedOutOnce
  <2> SUFFICES ASSUME ChainInv, pc = "found" PROVE node \notin owned
    BY DEF HandedOutOnce
  <2>1. PICK s \in Seq(Nodes) : ChainHolds(s)
    BY DEF ChainInv
  <2>2. Chain(s) /\ OnPlace(s)
    BY <2>1 DEF ChainHolds, FoundOn
  <2> QED  BY <2>2 DEF Chain, OnPlace
<1> QED  BY <1>1, ChainInvHolds, PTL
=============================================================================
