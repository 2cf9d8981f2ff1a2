------------------------------ MODULE FreeList ------------------------------
(***************************************************************************)
(* The free list of one pool as free_node.c keeps it: first_free,          *)
(* free_count and the next_node pointers that overlay the first eight      *)
(* bytes of the headers.  Every iteration of a loop is a step, so that     *)
(* what the loops rely on can be stated between two iterations, and the    *)
(* list goes on to be used after a header has been freed twice.            *)
(***************************************************************************)
EXTENDS Integers, Sequences, FiniteSets

CONSTANTS
  Nodes,        \* the headers the pool has room for
  NodeSize(_),  \* chunk_size of a header
  NULL,         \* the null pointer
  HandleBytes,  \* what next_node reads in a header that is in use
  WORD,         \* number of values of a u32
  DOUBLE_FREE   \* whether callers may free a header that is free already

ASSUME FreeListAssumption ==
  /\ NULL \notin Nodes /\ HandleBytes \notin Nodes /\ HandleBytes # NULL
  /\ \A a \in Nodes : NodeSize(a) \in Nat
  /\ IsFiniteSet(Nodes) /\ WORD \in Nat /\ Cardinality(Nodes) + 1 < WORD
  /\ DOUBLE_FREE \in BOOLEAN

VARIABLES
  first_free, free_count,  \* the fields of memory_pool_t
  next_node,               \* header -> its first eight bytes, as a pointer
  made,                    \* headers that exist: offset has gone past them
  owned,                   \* headers that callers hold
  pc,                      \* which loop the thread is in
  arg,                     \* the header to add, or the size wanted
  node, prev, next, idx,   \* node_current, node_prev, node_next and the index
  queue, returned, misused \* history: see FreeQueue; no action reads them

listVars == <<first_free, free_count, next_node>>
walkVars == <<arg, node, prev, next, idx>>
history  == <<queue, returned, misused>>
vars     == <<listVars, made, owned, pc, walkVars, history>>

Q == INSTANCE FreeQueue

Sizes == {NodeSize(a) : a \in Nodes}

\* The loops run while idx < max_index - 1, an unsigned comparison.
Last == IF free_count = 0 THEN WORD - 1 ELSE free_count - 1
\* Faulty MoreNodes: one step too few, one too many, and by the pointers instead
\* of the count.
MoreNodesTooFew == idx < Last - 1
MoreNodesTooMany == idx < free_count
MoreNodesByPointer == node \in Nodes /\ next_node[node] # NULL

MoreNodes == idx < Last

\* Reading through anything but a header: null, or the bytes of a handle index.
Faults ==
  /\ pc' = "fault"
  /\ UNCHANGED <<listVars, made, owned, walkVars, history>>

CountUp == free_count' = (free_count + 1) % WORD

\* The history is dropped once a header has been freed twice.
Noted(q) == IF misused' THEN <<>> ELSE q

-----------------------------------------------------------------------------
\* create_header at pool->offset; in use from then on.
Carve(a) ==
  /\ pc = "idle" /\ a \notin made
  /\ made' = made \cup {a} /\ owned' = owned \cup {a}
  /\ next_node' = [next_node EXCEPT ![a] = HandleBytes]
  /\ UNCHANGED <<first_free, free_count, pc, walkVars, history>>

(***************************************************************************)
(* syn_free clears next_node and calls free_node_add: an empty list ends   *)
(* there, otherwise index_free_list_end walks to the last node.            *)
(***************************************************************************)
\* Faulty FreeNode: next_node keeps the bytes of the handle index.
FreeNodeUncleared(a) ==
  /\ pc = "idle" /\ a \in (IF DOUBLE_FREE THEN made ELSE owned)
  /\ owned' = owned \ {a}
  /\ misused' = (misused \/ a \notin owned)
  /\ IF first_free = NULL
       THEN /\ first_free' = a /\ CountUp
            /\ queue' = Noted(Append(queue, a))
            /\ UNCHANGED <<pc, walkVars>>
       ELSE /\ pc' = "end_walk" /\ arg' = a /\ node' = first_free /\ idx' = 0
            /\ queue' = Noted(queue)
            /\ UNCHANGED <<first_free, free_count, prev, next>>
  /\ UNCHANGED <<made, next_node, returned>>

FreeNode(a) ==
  /\ pc = "idle" /\ a \in (IF DOUBLE_FREE THEN made ELSE owned)
  /\ next_node' = [next_node EXCEPT ![a] = NULL]
  /\ owned' = owned \ {a}
  /\ misused' = (misused \/ a \notin owned)
  /\ IF first_free = NULL
       THEN /\ first_free' = a /\ CountUp
            /\ queue' = Noted(Append(queue, a))
            /\ UNCHANGED <<pc, walkVars>>
       ELSE /\ pc' = "end_walk" /\ arg' = a /\ node' = first_free /\ idx' = 0
            /\ queue' = Noted(queue)
            /\ UNCHANGED <<first_free, free_count, prev, next>>
  /\ UNCHANGED <<made, returned>>

EndWalk ==
  /\ pc = "end_walk" /\ MoreNodes
  /\ IF node \in Nodes
       THEN /\ node' = next_node[node] /\ idx' = (idx + 1) % WORD
            /\ UNCHANGED <<listVars, made, owned, pc, arg, prev, next, history>>
       ELSE Faults

LinkBehind ==
  /\ pc = "end_walk" /\ ~MoreNodes
  /\ IF node \in Nodes
       THEN /\ next_node' = [next_node EXCEPT ![node] = arg]
            /\ CountUp
            /\ pc' = "idle"
            /\ queue' = IF misused THEN queue ELSE Append(queue, arg)
            /\ UNCHANGED <<first_free, made, owned, walkVars, returned, misused>>
       ELSE Faults

-----------------------------------------------------------------------------
(***************************************************************************)
(* free_list_header calls free_node_remove unless the list is empty.       *)
(* index_free_list_size looks at the first node, then walks.               *)
(***************************************************************************)
RemoveNode(size) ==
  /\ pc = "idle" /\ first_free # NULL /\ free_count # 0
  /\ IF first_free \in Nodes
       THEN /\ arg' = size /\ node' = first_free /\ prev' = NULL /\ idx' = 0
            /\ IF NodeSize(first_free) = size
                 THEN pc' = "found" /\ next' = next_node[first_free]
                 ELSE pc' = "size_walk" /\ next' = NULL
            /\ UNCHANGED <<listVars, made, owned, history>>
       ELSE Faults

Fits == NodeSize(node) = arg

SizeWalk ==
  /\ pc = "size_walk" /\ MoreNodes
  /\ IF node \in Nodes
       THEN /\ next' = IF next_node[node] # NULL THEN next_node[node] ELSE next
            /\ IF Fits
                 THEN pc' = "found" /\ UNCHANGED <<prev, node, idx>>
                 ELSE /\ prev' = node /\ node' = next_node[node] /\ idx' = (idx + 1) % WORD
                      /\ UNCHANGED pc
            /\ UNCHANGED <<listVars, made, owned, arg, history>>
       ELSE Faults

LastNode ==
  /\ pc = "size_walk" /\ ~MoreNodes
  /\ IF node \in Nodes
       THEN /\ IF Fits
                 THEN pc' = "found" /\ UNCHANGED returned
                 ELSE pc' = "idle" /\ returned' = NULL
            /\ UNCHANGED <<listVars, made, owned, walkVars, queue, misused>>
       ELSE Faults

(***************************************************************************)
(* The four cases behind `found', free_count--, and create_header on the   *)
(* node, which turns its first bytes back into a handle index.             *)
(***************************************************************************)
Taken(pointers) ==
  /\ next_node' = [pointers EXCEPT ![node] = HandleBytes]
  /\ free_count' = (free_count - 1) % WORD
  /\ pc' = "idle"
  /\ owned' = owned \cup {node}
  /\ returned' = node
  /\ queue' = IF misused THEN queue ELSE Q!WithoutAt(queue, idx + 1)
  /\ UNCHANGED <<made, walkVars, misused>>

After == IF next = node THEN NULL ELSE next

\* Faulty UnlinkMiddle: the predecessor keeps pointing at the node.
UnlinkMiddleKept ==
  /\ pc = "found" /\ After # NULL /\ prev # NULL
  /\ Taken(next_node)
  /\ UNCHANGED first_free

UnlinkMiddle ==
  /\ pc = "found" /\ After # NULL /\ prev # NULL
  /\ Taken([next_node EXCEPT ![prev] = After])
  /\ UNCHANGED first_free

UnlinkFirst ==
  /\ pc = "found" /\ After # NULL /\ prev = NULL
  /\ Taken(next_node)
  /\ first_free' = After

\* Faulty UnlinkLast: the predecessor keeps pointing at the node.
UnlinkLastKept ==
  /\ pc = "found" /\ After = NULL /\ prev # NULL
  /\ Taken(next_node)
  /\ UNCHANGED first_free

UnlinkLast ==
  /\ pc = "found" /\ After = NULL /\ prev # NULL
  /\ Taken([next_node EXCEPT ![prev] = NULL])
  /\ UNCHANGED first_free

UnlinkOnly ==
  /\ pc = "found" /\ After = NULL /\ prev = NULL
  /\ Taken(next_node)
  /\ first_free' = NULL

-----------------------------------------------------------------------------
\* syn_reset empties the pool and its list.
Reset ==
  /\ pc = "idle"
  /\ first_free' = NULL /\ free_count' = 0
  /\ made' = {} /\ owned' = {} /\ queue' = <<>>
  /\ UNCHANGED <<next_node, pc, walkVars, returned, misused>>

Init ==
  /\ first_free = NULL /\ free_count = 0
  /\ next_node = [a \in Nodes |-> NULL]
  /\ made = {} /\ owned = {}
  /\ pc = "idle"
  /\ arg = NULL /\ node = NULL /\ prev = NULL /\ next = NULL /\ idx = 0
  /\ queue = <<>> /\ returned = NULL /\ misused = FALSE

\* The next iteration or the end of a call that is under way.
Walk ==
  \/ EndWalk \/ LinkBehind
  \/ SizeWalk \/ LastNode
  \/ UnlinkMiddle \/ UnlinkFirst \/ UnlinkLast \/ UnlinkOnly

\* The process is gone.
Dead == pc = "fault" /\ UNCHANGED vars

Next ==
  \/ \E a \in Nodes : Carve(a) \/ FreeNode(a)
  \/ \E size \in Sizes : RemoveNode(size)
  \/ Walk
  \/ Reset \/ Dead

\* A thread inside a call keeps running; nobody has to make the next call.
Spec == Init /\ [][Next]_vars /\ WF_vars(Walk)

-----------------------------------------------------------------------------
\* The types of the variables.
TypeOK ==
  /\ first_free \in Nodes \cup {NULL} /\ free_count \in 0 .. (WORD - 1)
  /\ next_node \in [Nodes -> Nodes \cup {NULL, HandleBytes}]
  /\ owned \subseteq made /\ made \subseteq Nodes
  /\ pc \in {"idle", "end_walk", "size_walk", "found", "fault"}
  /\ idx \in 0 .. (WORD - 1)
  /\ returned \in Nodes \cup {NULL} /\ misused \in BOOLEAN

(***************************************************************************)
(* The pointers and the count spell out the queue, in every state of every *)
(* loop: the walk of free_count nodes from first_free meets each queued    *)
(* header once, in order, and ends at a null pointer; nobody holds them.   *)
(***************************************************************************)
ListIsQueue == ~misused =>
  /\ free_count = Len(queue)
  /\ first_free = IF queue = <<>> THEN NULL ELSE queue[1]
  /\ \A i \in DOMAIN queue :
       /\ queue[i] \in made \ owned
       /\ next_node[queue[i]] = IF i = Len(queue) THEN NULL ELSE queue[i + 1]
       /\ \A j \in DOMAIN queue : queue[i] = queue[j] => i = j

\* The loops dereference nothing but headers unless a header was freed twice
\* (index_free_list_end, index_free_list_size).
WalksStayOnList == pc = "fault" => misused

\* A header about to be handed out is nobody's, even on the lists that a double
\* free has left behind (index_free_list_size, free_node_remove).
HandedOutOnce == pc = "found" => node \notin owned

\* free_node_add and free_node_remove are a queue until a header is freed twice.
QueueRefinement == Q!QueueSpec

\* Every call comes to an end, on cut and on cyclic lists too: the loops go by
\* free_count and not by the pointers.
CallsReturn == (pc \notin {"idle", "fault"}) ~> (pc \in {"idle", "fault"})
=============================================================================
