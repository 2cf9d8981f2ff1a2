----------------------------- MODULE FreeQueue -----------------------------
(***************************************************************************)
(* What a pool's free list promises to the rest of the allocator: a queue  *)
(* of freed headers.  free_node_add puts a header at the end,              *)
(* free_node_remove takes out the first of the wanted size.  The promise   *)
(* ends with the first header that is freed while it is queued.            *)
(***************************************************************************)
EXTENDS Integers, Sequences

CONSTANTS
  Nodes,        \* the headers of the pool
  NodeSize(_),  \* chunk_size of a header
  NULL          \* the null pointer

VARIABLES
  queue,     \* the freed headers, oldest first
  returned,  \* what the last free_node_remove returned
  misused    \* whether a queued header has been freed again

queueVars == <<queue, returned, misused>>

Queued == {queue[i] : i \in DOMAIN queue}

WithoutAt(s, i) == [j \in 1 .. (Len(s) - 1) |-> IF j < i THEN s[j] ELSE s[j + 1]]

\* Position i holds the first header of that size.
FirstOfSize(size, i) ==
  /\ i \in DOMAIN queue /\ NodeSize(queue[i]) = size
  /\ \A j \in 1 .. (i - 1) : NodeSize(queue[j]) # size

Add(a) ==
  /\ a \notin Queued
  /\ queue' = Append(queue, a)
  /\ UNCHANGED <<returned, misused>>

Remove(size) ==
  /\ \E i \in DOMAIN queue :
       /\ FirstOfSize(size, i)
       /\ returned' = queue[i]
       /\ queue' = WithoutAt(queue, i)
  /\ UNCHANGED misused

Refuse(size) ==
  /\ \A i \in DOMAIN queue : NodeSize(queue[i]) # size
  /\ returned' = NULL
  /\ UNCHANGED <<queue, misused>>

Clear ==
  /\ queue' = <<>>
  /\ UNCHANGED <<returned, misused>>

\* A queued header is freed: nothing is promised from here on.
Misuse == misused' = TRUE

QueueInit == queue = <<>> /\ returned = NULL /\ misused = FALSE

QueueNext ==
  \/ \E a \in Nodes : Add(a)
  \/ \E size \in {NodeSize(a) : a \in Nodes} : Remove(size) \/ Refuse(size)
  \/ Clear \/ Misuse

QueueSpec == QueueInit /\ [][QueueNext]_queueVars
=============================================================================
