---------------------------- MODULE MCSyncAlloc ----------------------------
(***************************************************************************)
(* SyncAlloc for TLC: the handle variables are interchangeable.            *)
(***************************************************************************)
EXTENDS SyncAlloc, TLC

UserSymmetry == Permutations(Users)

\* What is left in a freed handle is read only by callers that pass it again.
WithoutFreed ==
  <<heapVars, tableVars, asked,
    [v \in Users |-> IF hdl[v].state = "freed" THEN NoHandle ELSE hdl[v]]>>

\* No call reads what was asked for or how much is mapped, and no property of a run
\* with this view does, or says anything of a process that has died.
Living ==
  IF Running
    THEN <<pools, pool_count, chunk_size, bitflags, deadzone, tables, handle_index, hdl>>
    ELSE <<fate, table_fate>>
=============================================================================
