---------------------------- MODULE HandleProofs ----------------------------
(***************************************************************************)
(* Theorems about the public functions over the handle tables: what every  *)
(* caller gets from the pools, and that callers that pass only handles     *)
(* they hold and do not reallocate have each handle lead to its block.     *)
(***************************************************************************)
EXTENDS SyncAlloc, FlagProofs, FiniteSetTheorems

-----------------------------------------------------------------------------
(***************************************************************************)
(* The pools under the public functions.  A call may pass any header, so   *)
(* its step on the pools is one of HeapNext with heads in place of Passed. *)
(***************************************************************************)
HeapStep ==
  \/ \E size \in Requests, a \in Targets : HeapAlloc(size, a)
  \/ \E a \in heads, size \in ReallocRequests, b \in Targets : HeapRealloc(a, size, b)
  \/ \E size, n : HeapGiveUp(size, n) \/ HeapMapFails(size, n)
  \/ \E a \in heads : HeapFree(a) \/ HeapFreeze(a) \/ HeapThaw(a)
  \/ HeapReset \/ HeapDestroy \/ PoolArrayFault
  \/ UNCHANGED heapVars

\* Every public call is such a step.
LEMMA CallsAreHeapSteps == [Next]_vars => HeapStep
<1> SUFFICES ASSUME [Next]_vars PROVE HeapStep
  OBVIOUS
<1>1. ASSUME NEW v \in Users, NEW size \in Requests, Alloc(v, size) PROVE HeapStep
  BY <1>1 DEF Alloc, HeapStep
<1>2. ASSUME NEW size \in Requests, AllocGivesUp(size) \/ AllocMapFails(size) PROVE HeapStep
  BY <1>2 DEF AllocGivesUp, AllocMapFails, HeapStep
<1>3. ASSUME NEW v \in Users, Free(v) \/ Freeze(v) \/ Thaw(v) PROVE HeapStep
  BY <1>3 DEF Free, Freeze, Thaw, Accepted, HeapStep
<1>4. ASSUME NEW v \in Users, NEW size \in ReallocRequests,
             Realloc(v, size) \/ ReallocGivesUp(v, size)
      PROVE  HeapStep
  BY <1>4 DEF Realloc, ReallocGivesUp, Accepted, HeapStep
<1>5. ASSUME AllocTableMapFails \/ (\E v \in Users : LookupFails(v)) \/ Dead \/ UNCHANGED vars
      PROVE  HeapStep
  BY <1>5 DEF AllocTableMapFails, LookupFails, Dead, vars, HeapStep
<1>6. ASSUME Reset \/ Destroy \/ PoolWalkFaults PROVE HeapStep
  BY <1>6 DEF Reset, Destroy, PoolWalkFaults, HeapStep
<1> QED
  BY <1>1, <1>2, <1>3, <1>4, <1>5, <1>6 DEF Next

\* Such a step keeps what PoolHeapProofs, FreeListProofs and ChunkProofs show.
LEMMA HeapStepKeeps == HeapInv /\ HeapStep => HeapInv'
<1> SUFFICES ASSUME HeapInv, HeapStep PROVE HeapInv'
  OBVIOUS
<1>1. ASSUME NEW size \in Requests, NEW a \in Targets, HeapAlloc(size, a) PROVE HeapInv'
  BY <1>1, AllocKeeps
<1>2. ASSUME NEW a \in heads, NEW size \in ReallocRequests, NEW b \in Targets,
             HeapRealloc(a, size, b)
      PROVE  HeapInv'
  BY <1>2, ReallocKeeps
<1>3. ASSUME NEW size, NEW n, HeapGiveUp(size, n) \/ HeapMapFails(size, n) PROVE HeapInv'
  BY <1>3, GiveUpKeeps, FaultKeeps
<1>4. ASSUME NEW a \in heads, HeapFree(a) \/ HeapFreeze(a) \/ HeapThaw(a) PROVE HeapInv'
  BY <1>4, FreeKeeps, FreezeThawKeeps
<1>5. ASSUME HeapReset \/ HeapDestroy PROVE HeapInv'
  BY <1>5, ResetKeeps, DestroyKeeps
<1>6. ASSUME PoolArrayFault \/ UNCHANGED heapVars PROVE HeapInv'
  BY <1>6, FaultKeeps
<1> QED
  BY <1>1, <1>2, <1>3, <1>4, <1>5, <1>6 DEF HeapStep

\* The same, for the free lists.
LEMMA HeapStepLinked == HeapInv /\ FreeInv /\ HeapStep => FreeInv'
<1> SUFFICES ASSUME HeapInv, FreeInv, HeapStep PROVE FreeInv'
  OBVIOUS
<1>1. ASSUME NEW size \in Requests, NEW a \in Targets, HeapAlloc(size, a) PROVE FreeInv'
  BY <1>1, AllocLinked
<1>2. ASSUME NEW a \in heads, NEW size \in ReallocRequests, NEW b \in Targets,
             HeapRealloc(a, size, b)
      PROVE  FreeInv'
  BY <1>2, ReallocLinked
<1>3. ASSUME NEW size, NEW n, HeapGiveUp(size, n) \/ HeapMapFails(size, n) PROVE FreeInv'
  BY <1>3, GiveUpLinked, FaultLinked
<1>4. ASSUME NEW a \in heads, HeapFree(a) \/ HeapFreeze(a) \/ HeapThaw(a) PROVE FreeInv'
  BY <1>4, FreeLinked, FreezeThawLinked
<1>5. ASSUME HeapReset \/ HeapDestroy PROVE FreeInv'
  BY <1>5, ClearedLinked
<1>6. ASSUME PoolArrayFault \/ UNCHANGED heapVars PROVE FreeInv'
  BY <1>6, FaultLinked
<1> QED
  BY <1>1, <1>2, <1>3, <1>4, <1>5, <1>6 DEF HeapStep

\* The same, for the chunks that tile a pool.
LEMMA HeapStepTiled == HeapInv /\ FreeInv /\ TileInv /\ HeapStep => TileInv'
<1> SUFFICES ASSUME HeapInv, FreeInv, TileInv, HeapStep PROVE TileInv'
  OBVIOUS
<1>1. ASSUME NEW size \in Requests, NEW a \in Targets, HeapAlloc(size, a) PROVE TileInv'
  BY <1>1, AllocTiled
<1>2. ASSUME NEW a \in heads, NEW size \in ReallocRequests, NEW b \in Targets,
             HeapRealloc(a, size, b)
      PROVE  TileInv'
  BY <1>2, ReallocTiled
<1>3. ASSUME \/ \E size, n : HeapGiveUp(size, n) \/ HeapMapFails(size, n)
             \/ \E a : HeapFree(a) \/ HeapFreeze(a) \/ HeapThaw(a)
             \/ HeapReset \/ HeapDestroy \/ PoolArrayFault \/ UNCHANGED heapVars
      PROVE  TileInv'
  BY <1>3, OthersTiled
<1> QED
  BY <1>1, <1>2, <1>3 DEF HeapStep

\* The pools are laid out and tagged as PoolHeap has them, whatever is called.
PoolsInv == HeapInv /\ FreeInv /\ TileInv

\* While memory is safe, no sequence of calls, with stale handles or not, brings the
\* pools, chunks, lists and deadzones out of step (all functions of sync_alloc.c).
THEOREM PoolsStayIntact == Spec => []PoolsInv
<1>1. Init => PoolsInv
  BY InitHolds, InitLinked, InitTiled DEF Init, PoolsInv
<1>2. PoolsInv /\ [Next]_vars => PoolsInv'
  BY CallsAreHeapSteps, HeapStepKeeps, HeapStepLinked, HeapStepTiled DEF PoolsInv
<1> QED
  BY <1>1, <1>2, PTL DEF Spec

\* The chunks of callers of the library never overlap, whatever handles they pass.
THEOREM CallsKeepLayout == Spec => []Layout
<1>1. PoolsInv => Layout
  BY PlacedIsLayout DEF PoolsInv, HeapInv, Layout
<1> QED
  BY <1>1, PoolsStayIntact, PTL

\* Nor is a block that is in use, or one twice, on a free list.
THEOREM CallsKeepLists == Spec => []FreeListsSound
<1>1. PoolsInv => FreeListsSound
  BY LinkedIsSound DEF PoolsInv
<1> QED
  BY <1>1, PoolsStayIntact, PTL

\* A call keeps every frozen block, whichever headers it passes.
LEMMA HeapStepKeepsPinned ==
  ASSUME HeapInv, FreeInv, HeapStep, NEW a \in heads, Pinned(a), Safe', heads' # {}
  PROVE  /\ a \in heads' /\ chunk_size'[a] = chunk_size[a]
         /\ "ALLOCATED" \in bitflags'[a]
         /\ "FROZEN" \in bitflags'[a] \/ HeapThaw(a)
<1> DEFINE Goal == /\ a \in heads' /\ chunk_size'[a] = chunk_size[a]
                   /\ "ALLOCATED" \in bitflags'[a]
                   /\ "FROZEN" \in bitflags'[a] \/ HeapThaw(a)
<1>1. ASSUME Kept(a) PROVE Goal
  BY <1>1 DEF Kept
<1>2. ASSUME UNCHANGED <<chunk_size, bitflags>> PROVE Goal
  BY <1>2 DEF heads, Pinned
<1>3. ASSUME NEW c, HeapFreeze(c) \/ HeapThaw(c) PROVE Goal
  <2>1. /\ TypeOK /\ chunk_size' = chunk_size
        /\ bitflags' = [bitflags EXCEPT ![c] = @ \cup {"FROZEN"}] \/
           (HeapThaw(c) /\ bitflags' = [bitflags EXCEPT ![c] = @ \ {"FROZEN"}])
    BY <1>3 DEF HeapFreeze, HeapThaw, HeapInv
  <2>2. a \in heads' /\ "ALLOCATED" \in bitflags'[a]
    BY <2>1 DEF Pinned, TypeOK, heads
  <2>3. "FROZEN" \in bitflags'[a] \/ HeapThaw(a)
    <3>1. CASE c = a
      BY <2>1, <3>1 DEF Pinned, TypeOK
    <3>2. CASE c # a
      BY <2>1, <3>2 DEF Pinned, TypeOK
    <3> QED
      BY <3>1, <3>2
  <2> QED
    BY <2>1, <2>2, <2>3
<1>4. ASSUME HeapReset \/ HeapDestroy PROVE Goal
  <2>1. DOMAIN <<>> = {}
    OBVIOUS
  <2>2. heads' = {}
    BY <1>4, <2>1 DEF HeapReset, HeapDestroy, NoHeaders, heads
  <2> QED
    BY <2>2
<1> HIDE DEF Goal
<1>5. ASSUME NEW size \in Requests, NEW b \in Targets, HeapAlloc(size, b) PROVE Goal
  BY <1>1, <1>5, AllocKeepsPinned
<1>6. ASSUME NEW c, NEW size \in ReallocRequests, NEW b, HeapRealloc(c, size, b) PROVE Goal
  BY <1>1, <1>6, ReallocKeepsPinned
<1>7. ASSUME NEW c, HeapFree(c) PROVE Goal
  BY <1>1, <1>7, FreeKeepsPinned
<1>8. ASSUME NEW size, NEW n, HeapGiveUp(size, n) \/ HeapMapFails(size, n) PROVE Goal
  BY <1>2, <1>8 DEF HeapGiveUp, HeapMapFails
<1>9. ASSUME PoolArrayFault \/ UNCHANGED heapVars PROVE Goal
  BY <1>2, <1>9 DEF PoolArrayFault, heapVars
<1>10. Goal
  BY <1>3, <1>4, <1>5, <1>6, <1>7, <1>8, <1>9 DEF HeapStep
<1> QED
  BY <1>10 DEF Goal

\* A frozen block stays where it is, whatever handles are passed: the pointer that
\* syn_freeze lent out is good until the thaw, a reset or a destroy.
THEOREM FrozenBlocksStay == Spec => FrozenIsPinned
<1>1. ASSUME PoolsInv, [Next]_vars
      PROVE  [\A a \in heads : {"ALLOCATED", "FROZEN"} \subseteq bitflags[a] /\ Safe' /\ heads' # {} =>
                /\ a \in heads' /\ chunk_size'[a] = chunk_size[a]
                /\ "ALLOCATED" \in bitflags'[a]
                /\ "FROZEN" \in bitflags'[a] \/ HeapThaw(a)]_heapVars
  BY <1>1, CallsAreHeapSteps, HeapStepKeepsPinned DEF Pinned, PoolsInv
<1> QED
  BY <1>1, PoolsStayIntact, PTL DEF Spec, FrozenIsPinned

-----------------------------------------------------------------------------
(***************************************************************************)
(* Slots.  Row and Col of an encoded index are the row and the column.     *)
(***************************************************************************)
LEMMA RowOfIndex ==
  ASSUME NEW i \in Nat
  PROVE  Row(i) \in Nat /\ Row(i) >= 1 /\ Col(i) \in Cols /\ i = (Row(i) - 1) * COLS + Col(i)
<1> DEFINE q == i \div COLS
           m == i % COLS
<1>1. COLS \in Nat /\ COLS > 0
  BY HandleAssumption
<1>2. q \in Nat /\ m \in Nat /\ m < COLS /\ i = COLS * q + m
  BY <1>1
<1>3. COLS * q = q * COLS
  <2> HIDE DEF q
  <2> QED BY <1>1, <1>2
<1>4. Row(i) = q + 1 /\ Col(i) = m
  BY DEF Row, Col
<1> HIDE DEF q, m
<1>5. Row(i) - 1 = q /\ Row(i) \in Nat /\ Row(i) >= 1
  BY <1>2, <1>4
<1>6. Col(i) \in Cols
  BY <1>1, <1>2, <1>4 DEF Cols
<1>7. i = (Row(i) - 1) * COLS + Col(i)
  <2>1. i = q * COLS + m
    BY <1>2, <1>3
  <2> QED
    BY <2>1, <1>4, <1>5, Zenon
<1> QED
  BY <1>5, <1>6, <1>7

\* encode_index and the divisions of return_handle undo each other.
LEMMA IndexOfSlot ==
  ASSUME NEW r \in Nat, r >= 1, NEW c \in Cols
  PROVE  Encoded(r, c) \in Nat /\ Row(Encoded(r, c)) = r /\ Col(Encoded(r, c)) = c
<1> DEFINE i == Encoded(r, c)
           k == r - 1
<1>1. COLS \in Nat /\ COLS > 0 /\ c \in Nat /\ c < COLS /\ k \in Nat /\ r = k + 1
  BY HandleAssumption DEF Cols
<1>2. i = k * COLS + c
  BY DEF Encoded
<1> HIDE DEF i, k
<1>3. k * COLS \in Nat
  BY <1>1
<1>4. i \in Nat
  BY <1>1, <1>2, <1>3
<1>5. PICK q \in Nat, m \in Nat :
        q + 1 = Row(i) /\ m = Col(i) /\ m < COLS /\ k * COLS + c = q * COLS + m
  <2> DEFINE q == Row(i) - 1
  <2>1. Row(i) \in Nat /\ Row(i) >= 1 /\ Col(i) \in Cols /\ i = q * COLS + Col(i)
    BY <1>4, RowOfIndex
  <2>2. q \in Nat /\ q + 1 = Row(i) /\ Col(i) \in Nat /\ Col(i) < COLS
    BY <2>1, <1>1 DEF Cols
  <2> HIDE DEF q
  <2> QED
    BY <1>2, <2>1, <2>2
<1>6. ASSUME NEW x \in Nat, NEW y \in Nat, NEW u \in Nat, NEW w \in Nat, x < y,
             u < COLS, w < COLS
      PROVE  x * COLS + u < y * COLS + w
  <2>1. PICK z \in Nat : y = x + 1 + z
    <3>1. y - x - 1 \in Nat /\ y = x + 1 + (y - x - 1)
      BY <1>6
    <3> QED
      BY <3>1
  <2>2. y * COLS = x * COLS + COLS + z * COLS
    BY <1>1, <2>1
  <2>3. z * COLS \in Nat /\ x * COLS \in Nat
    BY <1>1
  <2> QED
    BY <1>1, <1>6, <2>2, <2>3
<1>7. q = k
  <2>1. ~(q < k)
    BY <1>1, <1>5, <1>6
  <2>2. ~(k < q)
    BY <1>1, <1>5, <1>6
  <2> QED
    BY <1>1, <2>1, <2>2
<1>8. m = c
  BY <1>1, <1>3, <1>5, <1>7
<1> QED
  BY <1>1, <1>4, <1>5, <1>7, <1>8 DEF i

-----------------------------------------------------------------------------
(***************************************************************************)
(* The tables.  For every caller they keep their type, and no more of them *)
(* are linked than are mapped.                                             *)
(***************************************************************************)
Headers     == (Nat \X Nat) \cup {NoHeader}
Generations == 0 .. (GENERATIONS - 1)
Slot        == [header : Headers, generation : Generations]
Table       == [bitmap : SUBSET Cols, entries : [Cols -> Slot]]
Handle      == [header : Headers, generation : Generations,
                state : {"none", "held", "frozen", "freed"}]

TablesInv ==
  /\ tables \in Seq(Table) /\ hdl \in [Users -> Handle]
  /\ DOMAIN handle_index = heads /\ \A a \in heads : handle_index[a] \in Nat
  /\ mapped_tables \in Nat /\ Len(tables) <= mapped_tables /\ table_fate \in {"ok", "fault"}
  /\ pools = <<>> => tables = <<>>

\* U is the tables T but for slot c of table r, which holds e, and the bitmap B there.
Written(T, U, r, c, B, e) ==
  /\ U \in Seq(Table) /\ Len(U) = Len(T) /\ DOMAIN U = DOMAIN T
  /\ \A q \in DOMAIN T :
       /\ U[q].bitmap = IF q = r THEN B ELSE T[q].bitmap
       /\ \A d \in Cols : U[q].entries[d] = IF q = r /\ d = c THEN e ELSE T[q].entries[d]

\* W is the tables T with new ones behind them.
Extended(T, W) ==
  /\ W \in Seq(Table) /\ Len(W) >= Len(T)
  /\ \A q \in DOMAIN T : q \in DOMAIN W /\ W[q] = T[q]
  /\ \A q \in DOMAIN W : q \notin DOMAIN T => W[q] = NewTable

\* A generation, counted up, stays one and differs from the one before.
LEMMA NextGeneration ==
  ASSUME NEW g \in Generations
  PROVE  Next32(g) \in Generations /\ Next32(g) # g /\ 0 \in Generations /\ 1 \in Generations
<1>1. GENERATIONS \in Nat /\ GENERATIONS > 2 /\ g \in Nat /\ g < GENERATIONS
  BY HandleAssumption DEF Generations
<1>2. CASE g + 1 = GENERATIONS
  <2>1. Next32(g) = 0
    BY <1>1, <1>2 DEF Next32
  <2> QED
    BY <1>1, <1>2, <2>1 DEF Generations
<1>3. CASE g + 1 < GENERATIONS
  <2>1. Next32(g) = g + 1
    BY <1>1, <1>3, ModBelow DEF Next32
  <2> QED
    BY <1>1, <1>3, <2>1 DEF Generations
<1> QED
  BY <1>1, <1>2, <1>3

\* A table fresh from mmap is typed.
LEMMA NewTableType == NewTable \in Table
<1>1. 0 \in Generations
  BY HandleAssumption DEF Generations
<1> QED
  BY <1>1 DEF NewTable, NoEntry, Table, Slot, Headers

\* find_non_empty_table adds at most one table, and only if all others are full.
LEMMA RoomMade ==
  ASSUME NEW T \in Seq(Table)
  PROVE  /\ Extended(T, WithRoom(T))
         /\ Len(WithRoom(T)) > Len(T) => \A r \in DOMAIN T : ~HasFreeSlot(T[r])
<1>1. Append(T, NewTable) \in Seq(Table) /\ Len(T) \in Nat /\ DOMAIN T = 1 .. Len(T)
  BY NewTableType
<1>2. Extended(T, T)
  BY <1>1 DEF Extended
<1>3. Extended(T, Append(T, NewTable))
  <2>1. /\ Len(Append(T, NewTable)) = Len(T) + 1
        /\ DOMAIN Append(T, NewTable) = 1 .. (Len(T) + 1)
        /\ \A q \in 1 .. Len(T) : Append(T, NewTable)[q] = T[q]
        /\ Append(T, NewTable)[Len(T) + 1] = NewTable
    BY <1>1
  <2> QED
    BY <1>1, <2>1 DEF Extended
<1> QED
  BY <1>1, <1>2, <1>3 DEF WithRoom

\* create_handle_and_entry writes one slot.
LEMMA SlotCreated ==
  ASSUME NEW T \in Seq(Table), NEW r \in DOMAIN T, NEW c \in Cols, NEW e \in Slot
  PROVE  Written(T, [T EXCEPT ![r].bitmap = @ \cup {c}, ![r].entries[c] = e],
                 r, c, T[r].bitmap \cup {c}, e)
<1> DEFINE U == [T EXCEPT ![r].bitmap = @ \cup {c}, ![r].entries[c] = e]
           B == T[r].bitmap \cup {c}
           E == [T[r].entries EXCEPT ![c] = e]
           M == [T[r] EXCEPT !.bitmap = B, !.entries = E]
<1>1. T[r] \in Table /\ DOMAIN T = 1 .. Len(T) /\ Len(T) \in Nat
  OBVIOUS
<1>2. B \in SUBSET Cols /\ E \in [Cols -> Slot]
  BY <1>1 DEF Table
<1>3. \A d \in Cols : E[d] = IF d = c THEN e ELSE T[r].entries[d]
  BY <1>1 DEF Table
<1>4. U = [T EXCEPT ![r] = M]
  BY <1>1 DEF Table
<1> HIDE DEF U, B, E
<1>5. M \in Table /\ M.bitmap = B /\ M.entries = E
  BY <1>1, <1>2 DEF Table
<1> HIDE DEF M
<1>6. U \in Seq(Table) /\ Len(U) = Len(T) /\ DOMAIN U = DOMAIN T
  BY <1>1, <1>4, <1>5
<1>7. \A q \in DOMAIN T : U[q] = IF q = r THEN M ELSE T[q]
  BY <1>4
<1>8. Written(T, U, r, c, B, e)
  BY <1>3, <1>5, <1>6, <1>7 DEF Written
<1> QED
  BY <1>8 DEF U, B

\* syn_free clears one bit.
LEMMA SlotReleased ==
  ASSUME NEW T \in Seq(Table), NEW r \in DOMAIN T, NEW c \in Cols
  PROVE  Written(T, [T EXCEPT ![r].bitmap = @ \ {c}], r, c, T[r].bitmap \ {c}, T[r].entries[c])
<1> DEFINE U == [T EXCEPT ![r].bitmap = @ \ {c}]
           B == T[r].bitmap \ {c}
           M == [T[r] EXCEPT !.bitmap = B]
<1>1. T[r] \in Table /\ DOMAIN T = 1 .. Len(T) /\ Len(T) \in Nat
  OBVIOUS
<1>2. B \in SUBSET Cols
  BY <1>1 DEF Table
<1>3. U = [T EXCEPT ![r] = M]
  OBVIOUS
<1> HIDE DEF U, B
<1>4. M \in Table /\ M.bitmap = B /\ M.entries = T[r].entries
  BY <1>1, <1>2 DEF Table
<1> HIDE DEF M
<1>5. U \in Seq(Table) /\ Len(U) = Len(T) /\ DOMAIN U = DOMAIN T
  BY <1>1, <1>3, <1>4
<1>6. \A q \in DOMAIN T : U[q] = IF q = r THEN M ELSE T[q]
  BY <1>3
<1>7. Written(T, U, r, c, B, T[r].entries[c])
  BY <1>4, <1>5, <1>6 DEF Written
<1> QED
  BY <1>7 DEF U, B

\* update_table_generation changes one generation.
LEMMA SlotBumped ==
  ASSUME NEW T \in Seq(Table), NEW i \in Nat, Row(i) \in DOMAIN T
  PROVE  /\ T[Row(i)].entries[Col(i)] \in Slot
         /\ Written(T, Bumped(T, i), Row(i), Col(i), T[Row(i)].bitmap,
                    [header     |-> T[Row(i)].entries[Col(i)].header,
                     generation |-> Next32(T[Row(i)].entries[Col(i)].generation)])
<1> DEFINE r == Row(i)
           c == Col(i)
           o == T[r].entries[c]
           e == [header |-> o.header, generation |-> Next32(o.generation)]
           U == Bumped(T, i)
           E == [T[r].entries EXCEPT ![c] = e]
           M == [T[r] EXCEPT !.entries = E]
<1>1. T[r] \in Table /\ r \in DOMAIN T /\ DOMAIN T = 1 .. Len(T) /\ Len(T) \in Nat /\ c \in Cols
  BY RowOfIndex
<1>2. o \in Slot
  BY <1>1 DEF Table
<1>3. e \in Slot /\ e = [o EXCEPT !.generation = Next32(o.generation)]
  <2>1. Next32(o.generation) \in Generations
    BY <1>2, NextGeneration DEF Slot
  <2> QED
    BY <1>2, <2>1 DEF Slot
<1>4. E \in [Cols -> Slot] /\ \A d \in Cols : E[d] = IF d = c THEN e ELSE T[r].entries[d]
  <2> HIDE DEF e, o, c, r
  <2> QED
    BY <1>1, <1>3 DEF Table
<1>5. U = [T EXCEPT ![r] = M]
  <2>1. U = [T EXCEPT ![r].entries[c] = [o EXCEPT !.generation = Next32(o.generation)]]
    BY <1>1 DEF Bumped, Table
  <2> QED
    BY <1>1, <1>3, <2>1 DEF Table
<1> HIDE DEF U, E, e, o, c, r
<1>6. M \in Table /\ M.bitmap = T[r].bitmap /\ M.entries = E
  BY <1>1, <1>4 DEF Table
<1> HIDE DEF M
<1>7. U \in Seq(Table) /\ Len(U) = Len(T) /\ DOMAIN U = DOMAIN T
  BY <1>1, <1>5, <1>6
<1>8. \A q \in DOMAIN T : U[q] = IF q = r THEN M ELSE T[q]
  BY <1>5
<1>9. Written(T, U, r, c, T[r].bitmap, e)
  BY <1>4, <1>6, <1>7, <1>8 DEF Written
<1> QED
  BY <1>2, <1>9 DEF U, e, o, c, r

\* The tables' part of create_handle_and_entry: slot c of table r, which was unused,
\* goes to header a.
HandleMade(W, r, c, a) ==
  /\ Extended(tables, W) /\ r \in DOMAIN W /\ r >= 1 /\ c \in Cols /\ c \notin W[r].bitmap
  /\ Len(W) > Len(tables) => \A q \in DOMAIN tables : ~HasFreeSlot(tables[q])
  /\ Written(W, tables', r, c, W[r].bitmap \cup {c}, [header |-> a, generation |-> 1])
  /\ handle_index' = With(handle_index, a, Encoded(r, c))
  /\ mapped_tables' = mapped_tables + (Len(W) - Len(tables)) /\ UNCHANGED table_fate

\* arena_init makes at most the first table.
LEMMA ArenaExtended ==
  ASSUME TablesInv
  PROVE  /\ ArenaTables \in Seq(Table) /\ Extended(tables, ArenaTables)
         /\ Len(ArenaTables) > Len(tables) => tables = <<>>
         /\ ArenaTables = tables \/ tables = <<>>
<1>1. tables \in Seq(Table) /\ <<NewTable>> \in Seq(Table)
  BY NewTableType DEF TablesInv
<1>2. Len(<<NewTable>>) = 1 /\ DOMAIN <<NewTable>> = 1 .. 1 /\ <<NewTable>>[1] = NewTable
  OBVIOUS
<1>3. CASE pools = <<>>
  <2>1. ArenaTables = <<NewTable>> /\ tables = <<>> /\ Len(tables) = 0 /\ DOMAIN tables = {}
    BY <1>3 DEF ArenaTables, TablesInv
  <2> QED
    BY <1>1, <1>2, <2>1 DEF Extended
<1>4. CASE pools # <<>>
  <2>1. ArenaTables = tables /\ Len(tables) \in Nat
    BY <1>1, <1>4 DEF ArenaTables
  <2> QED
    BY <1>1, <2>1 DEF Extended
<1> QED
  BY <1>3, <1>4

\* create_handle_and_entry.
LEMMA HandleCreated ==
  ASSUME TablesInv, NEW a \in Headers, CreateHandle(ArenaTables, a)
  PROVE  \E W, r, c : HandleMade(W, r, c, a)
<1> DEFINE W == WithRoom(ArenaTables)
           e == [header |-> a, generation |-> 1]
<1>1. /\ ArenaTables \in Seq(Table) /\ Extended(tables, ArenaTables)
      /\ Len(ArenaTables) > Len(tables) => tables = <<>>
      /\ ArenaTables = tables \/ tables = <<>>
  BY ArenaExtended
<1>2. /\ Extended(ArenaTables, W)
      /\ Len(W) > Len(ArenaTables) => \A r \in DOMAIN ArenaTables : ~HasFreeSlot(ArenaTables[r])
  BY <1>1, RoomMade
<1>3. e \in Slot
  <2>1. 1 \in Generations
    BY HandleAssumption DEF Generations
  <2> QED
    BY <2>1 DEF Slot
<1>4. PICK r \in DOMAIN W, c \in Cols :
        /\ FirstFree(W, r, c)
        /\ tables' = [W EXCEPT ![r].bitmap = @ \cup {c}, ![r].entries[c] = e]
        /\ handle_index' = [y \in DOMAIN handle_index \cup {a} |->
                              IF y = a THEN Encoded(r, c) ELSE handle_index[y]]
  BY DEF CreateHandle
<1>5. mapped_tables' = mapped_tables + (Len(W) - Len(tables)) /\ UNCHANGED table_fate
  BY DEF CreateHandle
<1> HIDE DEF W, e
<1>6. W \in Seq(Table) /\ tables \in Seq(Table)
  BY <1>2 DEF Extended, TablesInv
<1>7. Extended(tables, W)
  BY <1>1, <1>2, <1>6 DEF Extended
<1>8. Len(W) > Len(tables) => \A q \in DOMAIN tables : ~HasFreeSlot(tables[q])
  <2>1. CASE tables = <<>>
    BY <2>1
  <2>2. CASE ArenaTables = tables
    BY <1>2, <2>2
  <2> QED
    BY <1>1, <2>1, <2>2
<1>9. Written(W, tables', r, c, W[r].bitmap \cup {c}, e)
  BY <1>3, <1>4, <1>6, SlotCreated
<1>10. handle_index' = With(handle_index, a, Encoded(r, c))
  BY <1>4 DEF With
<1>11. r >= 1 /\ c \notin W[r].bitmap
  BY <1>4, <1>6 DEF FirstFree
<1>12. HandleMade(W, r, c, a)
  BY <1>5, <1>7, <1>8, <1>9, <1>10, <1>11 DEF HandleMade, e
<1> QED
  BY <1>12

\* A header that a call finds in the tables has its slot there.
LEMMA SlotFound ==
  ASSUME TablesInv, NEW a \in heads, IndexResolves(a)
  PROVE  Index(a) \in Nat /\ Row(Index(a)) \in DOMAIN tables /\ Row(0) \in DOMAIN tables
<1>1. tables \in Seq(Table) /\ DOMAIN tables = 1 .. Len(tables) /\ Len(tables) \in Nat
      /\ handle_index[a] \in Nat
  BY DEF TablesInv
<1>2. Index(a) \in Nat /\ Resolves(Index(a))
  BY <1>1 DEF IndexResolves, Index
<1>3. Row(Index(a)) \in Nat /\ Row(Index(a)) >= 1 /\ Row(Index(a)) <= Len(tables)
  BY <1>2, RowOfIndex DEF Resolves
<1>4. Row(0) = 1
  BY HandleAssumption DEF Row
<1> QED
  BY <1>1, <1>2, <1>3, <1>4

\* A call that makes a header adds it to the others, in some pool.
LEMMA HeaderAdded ==
  ASSUME HeapInv', NEW a,
         \/ \E size : HeapAlloc(size, a)
         \/ \E x, size : HeapRealloc(x, size, a)
  PROVE  heads' = heads \cup {a} /\ a \in Headers /\ pools' # <<>>
<1>1. PICK P, n, p, i : a = Spot(P, p, i) /\ chunk_size' = MadeSizes(P, n, p, i)
  BY DEF HeapAlloc, HeapRealloc
<1>2. heads' = heads \cup {a}
  BY <1>1 DEF MadeSizes, With, heads
<1>3. a \in Addresses'
  BY <1>2 DEF HeapInv, TypeOK
<1>4. a \in Nat \X Nat /\ Len(pools') > 0
  <2>1. pools' \in Seq(Pool)
    BY DEF HeapInv, TypeOK
  <2> QED
    BY <1>3, <2>1 DEF Addresses
<1> QED
  BY <1>2, <1>4 DEF Headers

\* What the steps leave of TablesInv once the tables are typed.
LEMMA HandleTyped ==
  ASSUME TablesInv, NEW v \in Users, NEW h \in Handle
  PROVE  [hdl EXCEPT ![v] = h] \in [Users -> Handle]
  BY DEF TablesInv

\* A handle with another generation and another state.
LEMMA HandleMoved ==
  ASSUME TablesInv, NEW v \in Users, NEW s \in {"none", "held", "frozen", "freed"},
         NEW b \in Headers
  PROVE  /\ [hdl EXCEPT ![v].generation = Next32(@), ![v].state = s] \in [Users -> Handle]
         /\ [hdl EXCEPT ![v].header = b, ![v].generation = Next32(@), ![v].state = s]
              \in [Users -> Handle]
         /\ [hdl EXCEPT ![v].state = s] \in [Users -> Handle]
<1> DEFINE g == Next32(hdl[v].generation)
<1>1. hdl \in [Users -> Handle] /\ hdl[v] \in Handle
  BY DEF TablesInv
<1>2. g \in Generations
  BY <1>1, NextGeneration DEF Handle
<1> HIDE DEF g
<1>3. [hdl EXCEPT ![v].generation = g, ![v].state = s] \in [Users -> Handle]
  BY <1>1, <1>2 DEF Handle
<1>4. [hdl EXCEPT ![v].header = b, ![v].generation = g, ![v].state = s] \in [Users -> Handle]
  BY <1>1, <1>2 DEF Handle
<1>5. [hdl EXCEPT ![v].state = s] \in [Users -> Handle]
  BY <1>1 DEF Handle
<1> QED
  BY <1>3, <1>4, <1>5 DEF g

\* syn_alloc.
LEMMA AllocTabled ==
  ASSUME HeapInv', TablesInv, NEW v \in Users, NEW size, Alloc(v, size)
  PROVE  TablesInv'
<1>1. PICK a : /\ HeapAlloc(size, a) /\ CreateHandle(ArenaTables, a)
               /\ hdl' = [hdl EXCEPT ![v] = [header |-> a, generation |-> 1, state |-> "held"]]
  BY DEF Alloc
<1>2. heads' = heads \cup {a} /\ a \in Headers /\ pools' # <<>>
  BY <1>1, HeaderAdded
<1>3. PICK W, r, c : HandleMade(W, r, c, a)
  BY <1>1, <1>2, HandleCreated
<1>4. /\ W \in Seq(Table) /\ tables' \in Seq(Table) /\ Len(tables') = Len(W)
      /\ tables \in Seq(Table) /\ mapped_tables \in Nat /\ Len(tables) <= mapped_tables
      /\ mapped_tables' = mapped_tables + (Len(W) - Len(tables)) /\ Len(W) >= Len(tables)
  BY <1>3 DEF HandleMade, Extended, Written, TablesInv
<1>5. mapped_tables' \in Nat /\ Len(tables') <= mapped_tables' /\ table_fate' \in {"ok", "fault"}
  BY <1>3, <1>4 DEF HandleMade, TablesInv
<1>6. Encoded(r, c) \in Nat
  BY <1>3, <1>4, IndexOfSlot DEF HandleMade
<1>7. DOMAIN handle_index' = heads' /\ \A x \in heads' : handle_index'[x] \in Nat
  <2>1. handle_index' = With(handle_index, a, Encoded(r, c))
    BY <1>3 DEF HandleMade
  <2>2. DOMAIN handle_index = heads /\ \A x \in heads : handle_index[x] \in Nat
    BY DEF TablesInv
  <2> HIDE DEF heads
  <2> QED
    BY <1>2, <1>6, <2>1, <2>2 DEF With
<1>8. hdl' \in [Users -> Handle]
  <2>1. 1 \in Generations
    BY HandleAssumption DEF Generations
  <2>2. [header |-> a, generation |-> 1, state |-> "held"] \in Handle
    BY <1>2, <2>1 DEF Handle
  <2> QED
    BY <1>1, <2>2, HandleTyped
<1> QED
  BY <1>2, <1>4, <1>5, <1>7, <1>8 DEF TablesInv

\* syn_alloc that gives up.
LEMMA GiveUpTabled ==
  ASSUME HeapInv, HeapInv', TablesInv, NEW size, AllocGivesUp(size)
  PROVE  TablesInv'
<1>1. /\ HeapGiveUp(size, PaddedSize(size))
      /\ tables' = ArenaTables
      /\ mapped_tables' = mapped_tables + (Len(ArenaTables) - Len(tables))
      /\ UNCHANGED <<handle_index, table_fate, hdl>>
  BY DEF AllocGivesUp, callerVars
<1>2. heads' = heads /\ pools' # <<>>
  <2>1. Grows(pools')
    BY <1>1, SupplyGrows DEF HeapGiveUp, HeapInv
  <2> QED
    BY <1>1, <2>1 DEF HeapGiveUp, heads, Grows
<1>3. /\ ArenaTables \in Seq(Table) /\ tables \in Seq(Table)
      /\ mapped_tables \in Nat /\ Len(tables) <= mapped_tables
      /\ Len(ArenaTables) >= Len(tables)
  BY ArenaExtended DEF Extended, TablesInv
<1>4. mapped_tables' \in Nat /\ Len(tables') <= mapped_tables'
  BY <1>1, <1>3
<1> QED
  BY <1>1, <1>2, <1>3, <1>4 DEF TablesInv

\* A step that writes to the tables and keeps the headers and the pools.
LEMMA SlotStepTabled ==
  ASSUME TablesInv, heads' = heads, pools' = <<>> => pools = <<>>,
         UNCHANGED <<handle_index, mapped_tables, table_fate>>,
         tables' \in Seq(Table), Len(tables') = Len(tables), hdl' \in [Users -> Handle]
  PROVE  TablesInv'
<1>1. tables \in Seq(Table)
  BY DEF TablesInv
<1>2. tables = <<>> => tables' = <<>>
  BY <1>1
<1> QED
  BY <1>2 DEF TablesInv

\* syn_free, syn_freeze and syn_thaw.
LEMMA FreeTabled ==
  ASSUME HeapInv, TablesInv, NEW v \in Users, Free(v)
  PROVE  TablesInv' /\ Len(tables') = Len(tables)
<1> DEFINE a == hdl[v].header
           i == Index(a)
<1>1. /\ HeapFree(a) /\ a \in heads /\ IndexResolves(a)
      /\ tables' = [tables EXCEPT ![Row(i)].bitmap = @ \ {Col(i)}]
      /\ UNCHANGED <<handle_index, mapped_tables, table_fate>>
      /\ hdl' = [hdl EXCEPT ![v].generation = Next32(@), ![v].state = "freed"]
  BY DEF Free, Accepted, ReleaseSlot
<1>2. i \in Nat /\ Row(i) \in DOMAIN tables
  BY <1>1, SlotFound
<1>3. heads' = heads /\ (pools' = <<>> => pools = <<>>)
  <2>1. chunk_size' = chunk_size /\ DOMAIN pools' = DOMAIN pools /\ pools \in Seq(Pool)
    BY <1>1, FreeOffsets DEF HeapInv, TypeOK
  <2> QED
    BY <2>1 DEF heads
<1>4. tables' \in Seq(Table) /\ Len(tables') = Len(tables)
  <2> HIDE DEF i
  <2>1. tables \in Seq(Table) /\ Col(i) \in Cols
    BY <1>2, RowOfIndex DEF TablesInv
  <2> QED
    BY <1>1, <1>2, <2>1, SlotReleased DEF Written
<1>5. hdl' \in [Users -> Handle]
  <2>1. a \in Headers
    BY DEF TablesInv, Handle
  <2> QED
    BY <1>1, <2>1, HandleMoved
<1> QED
  BY <1>1, <1>3, <1>4, <1>5, SlotStepTabled

\* syn_freeze and syn_thaw write one slot and one handle.
LEMMA FreezeThawTabled ==
  ASSUME HeapInv, TablesInv, NEW v \in Users, Freeze(v) \/ Thaw(v)
  PROVE  TablesInv' /\ Len(tables') = Len(tables)
<1> DEFINE a == hdl[v].header
           i == Index(a)
<1>1. /\ HeapFreeze(a) \/ HeapThaw(a)
      /\ a \in heads /\ IndexResolves(a)
      /\ tables' = Bumped(tables, i)
      /\ UNCHANGED <<handle_index, mapped_tables, table_fate>>
      /\ \/ hdl' = [hdl EXCEPT ![v].state = "frozen"]
         \/ hdl' = [hdl EXCEPT ![v] = [header     |-> Entry(i).header,
                                       generation |-> Next32(Entry(i).generation),
                                       state      |-> "held"]]
  BY DEF Freeze, Thaw, Accepted
<1>2. i \in Nat /\ Row(i) \in DOMAIN tables
  BY <1>1, SlotFound
<1>3. heads' = heads /\ UNCHANGED pools
  BY <1>1 DEF HeapFreeze, HeapThaw, heads
<1> HIDE DEF i
<1>4. tables' \in Seq(Table) /\ Len(tables') = Len(tables) /\ Entry(i) \in Slot
  <2>1. tables \in Seq(Table)
    BY DEF TablesInv
  <2> QED
    BY <1>1, <1>2, <2>1, SlotBumped DEF Written, Entry
<1>5. hdl' \in [Users -> Handle]
  <2>1. CASE hdl' = [hdl EXCEPT ![v].state = "frozen"]
    <3>1. a \in Headers
      BY DEF TablesInv, Handle
    <3> QED
      BY <2>1, <3>1, HandleMoved
  <2>2. CASE hdl' = [hdl EXCEPT ![v] = [header     |-> Entry(i).header,
                                        generation |-> Next32(Entry(i).generation),
                                        state      |-> "held"]]
    <3>1. Entry(i).header \in Headers /\ Next32(Entry(i).generation) \in Generations
      BY <1>4, NextGeneration DEF Slot
    <3> QED
      BY <2>2, <3>1, HandleTyped DEF Handle
  <2> QED
    BY <1>1, <2>1, <2>2
<1> QED
  BY <1>1, <1>3, <1>4, <1>5, SlotStepTabled

\* syn_realloc.
LEMMA ReallocTabled ==
  ASSUME HeapInv', TablesInv, NEW v \in Users, NEW size, Realloc(v, size)
  PROVE  TablesInv' /\ Len(tables') = Len(tables)
<1>1. PICK b :
        /\ HeapRealloc(hdl[v].header, size, b)
        /\ handle_index' = With(handle_index, b, 0)
        /\ tables' = Bumped(tables, 0)
        /\ hdl' = [hdl EXCEPT ![v].header = b, ![v].generation = Next32(@), ![v].state = "held"]
  BY DEF Realloc
<1>2. heads' = heads \cup {b} /\ b \in Headers /\ pools' # <<>>
  BY <1>1, HeaderAdded
<1>3. Row(0) \in DOMAIN tables /\ tables \in Seq(Table) /\ UNCHANGED <<mapped_tables, table_fate>>
  BY SlotFound DEF Realloc, Accepted, TablesInv
<1>4. tables' \in Seq(Table) /\ Len(tables') = Len(tables)
  BY <1>1, <1>3, SlotBumped DEF Written
<1>5. DOMAIN handle_index' = heads' /\ \A x \in heads' : handle_index'[x] \in Nat
  <2>1. DOMAIN handle_index = heads /\ \A x \in heads : handle_index[x] \in Nat
    BY DEF TablesInv
  <2> HIDE DEF heads
  <2> QED
    BY <1>1, <1>2, <2>1 DEF With
<1>6. hdl' \in [Users -> Handle]
  BY <1>1, <1>2, HandleMoved
<1> QED
  BY <1>2, <1>3, <1>4, <1>5, <1>6 DEF TablesInv

\* syn_reset and syn_destroy leave no table.
LEMMA ClearedTabled ==
  ASSUME HeapInv, TablesInv, Reset \/ Destroy
  PROVE  TablesInv' /\ heads' = {} /\ hdl' = NoHandles /\ tables' = <<>>
<1>1. /\ NoHeaders /\ TableDestructor(pool_count) /\ hdl' = NoHandles
  BY DEF Reset, Destroy, HeapReset, HeapDestroy
<1>2. heads' = {} /\ DOMAIN handle_index' = {} /\ tables' = <<>> /\ UNCHANGED table_fate
  <2>1. DOMAIN <<>> = {}
    OBVIOUS
  <2> QED
    BY <1>1, <2>1 DEF NoHeaders, TableDestructor, heads
<1>3. mapped_tables' \in Nat /\ Len(tables') <= mapped_tables'
  <2>1. tables \in Seq(Table) /\ mapped_tables \in Nat /\ Len(tables) <= mapped_tables
    BY DEF TablesInv
  <2>2. PICK k \in Nat : k = Len(tables)
    BY <2>1
  <2>3. mapped_tables' = mapped_tables - (IF k < pool_count THEN k ELSE pool_count)
    BY <1>1, <2>2 DEF TableDestructor
  <2>4. Len(tables') = 0
    BY <1>2
  <2>5. pool_count \in Nat
    BY DEF HeapInv, TypeOK
  <2> QED
    BY <2>1, <2>2, <2>3, <2>4, <2>5
<1>4. hdl' \in [Users -> Handle]
  BY <1>1, NextGeneration, HandleAssumption DEF NoHandles, NoHandle, Handle, Headers, Generations
<1> QED
  BY <1>1, <1>2, <1>3, <1>4 DEF TablesInv

\* The other calls leave the tables, the headers and the handles alone.
LEMMA OthersTabled ==
  ASSUME HeapInv, TablesInv,
         \/ \E size : AllocMapFails(size)
         \/ \E v, size : ReallocGivesUp(v, size)
         \/ AllocTableMapFails \/ (\E v : LookupFails(v))
         \/ PoolWalkFaults \/ Dead \/ UNCHANGED vars
  PROVE  TablesInv' /\ UNCHANGED <<tables, hdl>>
<1>1. ASSUME UNCHANGED <<tables, handle_index, mapped_tables, hdl, chunk_size>>,
             table_fate' \in {"ok", "fault"}, pools' = <<>> => pools = <<>>
      PROVE  TablesInv' /\ UNCHANGED <<tables, hdl>>
  BY <1>1 DEF TablesInv, heads
<1>2. table_fate \in {"ok", "fault"}
  BY DEF TablesInv
<1>3. ASSUME NEW size, AllocMapFails(size) PROVE TablesInv' /\ UNCHANGED <<tables, hdl>>
  BY <1>1, <1>2, <1>3 DEF AllocMapFails, HeapMapFails, tableVars, callerVars
<1>4. ASSUME NEW v, NEW size, ReallocGivesUp(v, size)
      PROVE  TablesInv' /\ UNCHANGED <<tables, hdl>>
  <2>1. UNCHANGED <<tables, handle_index, mapped_tables, hdl, chunk_size, table_fate>>
    BY <1>4 DEF ReallocGivesUp, HeapGiveUp, HeapMapFails, tableVars, callerVars
  <2>2. pools' = <<>> => pools = <<>>
    <3>1. CASE HeapGiveUp(size, ReallocSize(size))
      <4>1. Grows(pools')
        BY <3>1, SupplyGrows DEF HeapGiveUp, HeapInv
      <4> QED
        BY <4>1 DEF Grows
    <3>2. CASE HeapMapFails(size, ReallocSize(size))
      BY <3>2 DEF HeapMapFails
    <3> QED
      BY <1>4, <3>1, <3>2 DEF ReallocGivesUp
  <2> QED
    BY <1>1, <1>2, <2>1, <2>2
<1>5. ASSUME AllocTableMapFails \/ \E v : LookupFails(v)
      PROVE  TablesInv' /\ UNCHANGED <<tables, hdl>>
  BY <1>1, <1>5 DEF AllocTableMapFails, LookupFails, TableMapFails, LookupFaults, heapVars, callerVars
<1>6. ASSUME PoolWalkFaults PROVE TablesInv' /\ UNCHANGED <<tables, hdl>>
  BY <1>1, <1>2, <1>6 DEF PoolWalkFaults, PoolArrayFault, tableVars, callerVars
<1>7. ASSUME Dead \/ UNCHANGED vars PROVE TablesInv' /\ UNCHANGED <<tables, hdl>>
  BY <1>1, <1>2, <1>7 DEF Dead, vars, heapVars, tableVars, callerVars
<1> QED
  BY <1>3, <1>4, <1>5, <1>6, <1>7

\* TablesInv is inductive.
LEMMA NextTabled == HeapInv /\ HeapInv' /\ TablesInv /\ [Next]_vars => TablesInv'
<1> SUFFICES ASSUME HeapInv, HeapInv', TablesInv, [Next]_vars PROVE TablesInv'
  OBVIOUS
<1>1. ASSUME NEW v \in Users, NEW size \in Requests, Alloc(v, size) PROVE TablesInv'
  BY <1>1, AllocTabled
<1>2. ASSUME NEW size \in Requests, AllocGivesUp(size) PROVE TablesInv'
  BY <1>2, GiveUpTabled
<1>3. ASSUME NEW v \in Users, Free(v) PROVE TablesInv'
  BY <1>3, FreeTabled
<1>4. ASSUME NEW v \in Users, Freeze(v) \/ Thaw(v) PROVE TablesInv'
  BY <1>4, FreezeThawTabled
<1>5. ASSUME NEW v \in Users, NEW size \in ReallocRequests, Realloc(v, size) PROVE TablesInv'
  BY <1>5, ReallocTabled
<1>6. ASSUME Reset \/ Destroy PROVE TablesInv'
  BY <1>6, ClearedTabled
<1>7. ASSUME \/ \E size : AllocMapFails(size)
             \/ \E v, size : ReallocGivesUp(v, size)
             \/ AllocTableMapFails \/ (\E v : LookupFails(v))
             \/ PoolWalkFaults \/ Dead \/ UNCHANGED vars
      PROVE  TablesInv'
  BY <1>7, OthersTabled
<1> QED
  BY <1>1, <1>2, <1>3, <1>4, <1>5, <1>6, <1>7 DEF Next

\* There are no tables before the first call.
LEMMA InitTabled == Init => TablesInv
<1> SUFFICES ASSUME Init PROVE TablesInv
  OBVIOUS
<1>1. /\ heads = {} /\ DOMAIN handle_index = {} /\ tables = <<>> /\ mapped_tables = 0
      /\ table_fate = "ok" /\ hdl = NoHandles
  <2>1. DOMAIN <<>> = {}
    OBVIOUS
  <2> QED
    BY <2>1 DEF Init, HeapInit, TableInit, heads
<1>2. hdl \in [Users -> Handle]
  BY <1>1, HandleAssumption DEF NoHandles, NoHandle, Handle, Headers, Generations
<1>3. tables \in Seq(Table) /\ Len(tables) = 0
  BY <1>1
<1> QED
  BY <1>1, <1>2, <1>3 DEF TablesInv

\* The tables stay tables, every index a slot number, and none is linked that is not
\* mapped, whatever handles are passed.
THEOREM TablesInvariantHolds == Spec => []TablesInv
<1>1. PoolsInv => HeapInv
  BY DEF PoolsInv
<1> QED
  BY <1>1, InitTabled, NextTabled, PoolsStayIntact, PTL DEF Spec

\* The types of the tables and of the handles.
THEOREM HandleTypesHold == Spec => []HandleTypeOK
<1>1. TablesInv => HandleTypeOK
  <2> SUFFICES ASSUME TablesInv PROVE HandleTypeOK
    OBVIOUS
  <2>1. ASSUME NEW r \in DOMAIN tables
        PROVE  /\ tables[r].bitmap \subseteq Cols
               /\ \A c \in Cols : tables[r].entries[c].generation \in 0 .. (GENERATIONS - 1)
    <3>1. tables[r] \in Table
      BY <2>1 DEF TablesInv
    <3> QED
      BY <3>1 DEF Table, Slot, Generations
  <2>2. \A v \in Users : hdl[v].generation \in 0 .. (GENERATIONS - 1)
    BY DEF TablesInv, Handle, Generations
  <2> QED
    BY <2>1, <2>2 DEF HandleTypeOK, TablesInv
<1> QED
  BY <1>1, TablesInvariantHolds, PTL

\* A call that adds a table finds all the others full, and is made by a live process.
LEMMA GrowsOnlyFull ==
  ASSUME HeapInv, HeapInv', TablesInv, [Next]_vars, Len(tables') > Len(tables)
  PROVE  Running /\ \A r \in DOMAIN tables : ~HasFreeSlot(tables[r])
<1> DEFINE AllFull == Running /\ \A r \in DOMAIN tables : ~HasFreeSlot(tables[r])
<1>1. ASSUME NEW v \in Users, NEW size \in Requests, Alloc(v, size) PROVE AllFull
  <2>1. PICK a : HeapAlloc(size, a) /\ CreateHandle(ArenaTables, a)
    BY <1>1 DEF Alloc
  <2>2. a \in Headers
    BY <2>1, HeaderAdded
  <2>3. PICK W, r, c : HandleMade(W, r, c, a)
    BY <2>1, <2>2, HandleCreated
  <2> QED
    BY <1>1, <2>3 DEF HandleMade, Written, Alloc
<1>2. ASSUME NEW size, AllocGivesUp(size) PROVE AllFull
  BY <1>2, ArenaExtended DEF AllocGivesUp
<1>3. Len(tables') # Len(tables)
  BY DEF TablesInv
<1> HIDE DEF AllFull
<1>4. ASSUME NEW v \in Users, Free(v) \/ Freeze(v) \/ Thaw(v) PROVE FALSE
  BY <1>3, <1>4, FreeTabled, FreezeThawTabled
<1>5. ASSUME NEW v \in Users, NEW size, Realloc(v, size) PROVE FALSE
  BY <1>3, <1>5, ReallocTabled
<1>6. ASSUME Reset \/ Destroy PROVE FALSE
  <2>1. Len(tables') = 0 /\ Len(tables) \in Nat
    BY <1>6, ClearedTabled DEF TablesInv
  <2> QED
    BY <2>1
<1>7. ASSUME \/ \E size : AllocMapFails(size)
             \/ \E v, size : ReallocGivesUp(v, size)
             \/ AllocTableMapFails \/ (\E v : LookupFails(v))
             \/ PoolWalkFaults \/ Dead \/ UNCHANGED vars
      PROVE  FALSE
  BY <1>3, <1>7, OthersTabled
<1>8. AllFull
  BY <1>1, <1>2, <1>4, <1>5, <1>6, <1>7 DEF Next
<1> QED
  BY <1>8 DEF AllFull

-----------------------------------------------------------------------------
(***************************************************************************)
(* Callers that pass only handles they hold and do not reallocate.  None   *)
(* of the properties of their handles is inductive alone.  A free releases *)
(* the slot that the index of the header leads to, which has to be its     *)
(* own; it is the slot of no other header because an entry names only one; *)
(* and that an allocation takes no block of another handle needs that the  *)
(* blocks marked ALLOCATED, which no free list holds, are those of the     *)
(* holders.  The flag F_FROZEN goes with the state of the handle, so that  *)
(* the generation in the slot is the one in the handle, or the next.       *)
(***************************************************************************)
Place(v) == handle_index[hdl[v].header]

Owns(v) ==
  LET a == hdl[v].header
      i == Place(v)
  IN  /\ a \in heads /\ "ALLOCATED" \in bitflags[a]
      /\ Row(i) \in DOMAIN tables /\ Col(i) \in tables[Row(i)].bitmap
      /\ Entry(i).header = a
      /\ IF hdl[v].state = "held"
           THEN Entry(i).generation = hdl[v].generation /\ "FROZEN" \notin bitflags[a]
           ELSE Entry(i).generation = Next32(hdl[v].generation) /\ "FROZEN" \in bitflags[a]

Owned ==
  /\ \A v \in Holders : Owns(v)
  /\ \A v, w \in Holders : hdl[v].header = hdl[w].header => v = w
  /\ \A a \in heads : "ALLOCATED" \in bitflags[a] => \E v \in Holders : hdl[v].header = a
  /\ \A r \in DOMAIN tables : \A c \in tables[r].bitmap :
       \E v \in Holders : Encoded(r, c) = Place(v)

OwnerInv == Running => Owned

\* The callers that the theorems below are about.
GoodCallers == ReallocRequests = {} /\ ~STALE_CALLS

\* The slots of two holders differ.
LEMMA PlacesDiffer ==
  ASSUME Owned, NEW v \in Holders, NEW w \in Holders, v # w
  PROVE  Place(v) # Place(w) /\ ~(Row(Place(v)) = Row(Place(w)) /\ Col(Place(v)) = Col(Place(w)))
<1>1. Entry(Place(v)).header = hdl[v].header /\ Entry(Place(w)).header = hdl[w].header
  BY DEF Owned, Owns
<1>2. hdl[v].header # hdl[w].header
  BY DEF Owned
<1> QED
  BY <1>1, <1>2 DEF Entry

\* The index of a holder's header leads to its slot.
LEMMA HolderFound ==
  ASSUME FreeInv, TablesInv, Running, Owned, NEW v \in Holders
  PROVE  /\ hdl[v].header \in heads /\ Place(v) \in Nat
         /\ IndexResolves(hdl[v].header) /\ Index(hdl[v].header) = Place(v)
         /\ \A p \in DOMAIN pools : \A j \in DOMAIN pools[p].free :
              pools[p].free[j] # hdl[v].header
<1> DEFINE a == hdl[v].header
<1>1. a \in heads /\ "ALLOCATED" \in bitflags[a] /\ Row(Place(v)) \in DOMAIN tables
  BY DEF Owned, Owns
<1>2. NodesFree(pools, bitflags, heads)
  BY DEF Running, FreeInv, Linked, heads
<1>3. \A p \in DOMAIN pools : \A j \in DOMAIN pools[p].free : pools[p].free[j] # a
  BY <1>1, <1>2 DEF NodesFree
<1>4. ~OnList(a)
  BY <1>3 DEF OnList, Listed
<1>5. Place(v) \in Nat /\ Resolves(Place(v))
  <2>1. tables \in Seq(Table) /\ DOMAIN tables = 1 .. Len(tables) /\ Len(tables) \in Nat
    BY DEF TablesInv
  <2>2. Place(v) \in Nat
    BY <1>1 DEF TablesInv, Place
  <2> QED
    BY <1>1, <2>1, <2>2 DEF Resolves
<1> QED
  BY <1>1, <1>3, <1>4, <1>5 DEF IndexResolves, Index, Place

(***************************************************************************)
(* A step by the holder u that writes its slot only, leaves the flags of   *)
(* the other headers and the other handles alone, and either has u let go  *)
(* of slot and block or leaves both to it.                                 *)
(***************************************************************************)
LEMMA HolderStep ==
  ASSUME TablesInv, Owned, NEW u \in Holders, NEW B, NEW e,
         Written(tables, tables', Row(Place(u)), Col(Place(u)), B, e),
         heads' = heads, UNCHANGED handle_index,
         \A x \in heads : x # hdl[u].header =>
           \A z \in UseFlags : z \in bitflags'[x] <=> z \in bitflags[x],
         \A w \in Users : w # u => hdl'[w] = hdl[w],
         \/ /\ u \notin Holders' /\ "ALLOCATED" \notin bitflags'[hdl[u].header]
            /\ B = tables[Row(Place(u))].bitmap \ {Col(Place(u))}
         \/ /\ u \in Holders' /\ Owns(u)' /\ hdl'[u].header = hdl[u].header
            /\ B = tables[Row(Place(u))].bitmap
  PROVE  Owned'
<1> DEFINE a == hdl[u].header
           r == Row(Place(u))
           c == Col(Place(u))
<1>1. /\ a \in heads /\ Place(u) \in Nat /\ r \in DOMAIN tables /\ c \in tables[r].bitmap
      /\ tables \in Seq(Table)
  BY DEF Owned, Owns, TablesInv, Place
<1>2. /\ DOMAIN tables' = DOMAIN tables
      /\ \A q \in DOMAIN tables :
           /\ tables'[q].bitmap = IF q = r THEN B ELSE tables[q].bitmap
           /\ \A d \in Cols : tables'[q].entries[d] =
                                IF q = r /\ d = c THEN e ELSE tables[q].entries[d]
  BY DEF Written
<1>3. \A w \in Users : w # u => (w \in Holders' <=> w \in Holders) /\ hdl'[w] = hdl[w]
  BY DEF Holders
<1>4. u \in Users /\ Holders \subseteq Users /\ Holders' \subseteq Users
  BY DEF Holders
<1>5. ASSUME NEW w \in Holders, w # u
      PROVE  /\ Owns(w)' /\ Place(w)' = Place(w) /\ hdl'[w].header = hdl[w].header
             /\ hdl[w].header # a
  <2> DEFINE x == hdl[w].header
             q == Row(Place(w))
             d == Col(Place(w))
  <2>1. /\ x \in heads /\ "ALLOCATED" \in bitflags[x]
        /\ q \in DOMAIN tables /\ d \in tables[q].bitmap
        /\ tables[q].entries[d].header = x
        /\ IF hdl[w].state = "held"
             THEN tables[q].entries[d].generation = hdl[w].generation /\ "FROZEN" \notin bitflags[x]
             ELSE tables[q].entries[d].generation = Next32(hdl[w].generation)
                  /\ "FROZEN" \in bitflags[x]
    BY DEF Owned, Owns, Entry
  <2>2. x # a
    BY <1>5 DEF Owned
  <2>3. ~(q = r /\ d = c) /\ d \in Cols
    <3>1. Place(w) \in Nat
      BY <2>1 DEF TablesInv, Place
    <3> QED
      BY <1>5, <3>1, PlacesDiffer, RowOfIndex
  <2>4. hdl'[w] = hdl[w] /\ Place(w)' = Place(w)
    BY <1>3, <1>4, <1>5 DEF Place
  <2>5. /\ ("ALLOCATED" \in bitflags'[x] <=> "ALLOCATED" \in bitflags[x])
        /\ ("FROZEN" \in bitflags'[x] <=> "FROZEN" \in bitflags[x])
    BY <2>1, <2>2 DEF UseFlags
  <2>6. tables'[q].entries[d] = tables[q].entries[d] /\ d \in tables'[q].bitmap
        /\ q \in DOMAIN tables'
    BY <1>2, <2>1, <2>3
  <2>7. Owns(w)'
    <3>1. Row(Place(w))' = q /\ Col(Place(w))' = d
      BY <2>4 DEF Row, Col
    <3> HIDE DEF q, d
    <3> QED
      BY <2>1, <2>4, <2>5, <2>6, <3>1 DEF Owns, Entry
  <2> QED
    BY <2>2, <2>4, <2>7
<1>6. \A v \in Holders' : Owns(v)'
  BY <1>3, <1>4, <1>5
<1>7. \A v, w \in Holders' : hdl'[v].header = hdl'[w].header => v = w
  <2>1. \A v, w \in Holders : hdl[v].header = hdl[w].header => v = w
    BY DEF Owned
  <2>2. \A v \in Holders' : v \in Holders /\ hdl'[v].header = hdl[v].header
    BY <1>3, <1>4
  <2> QED
    BY <2>1, <2>2
<1>8. ASSUME NEW x \in heads', "ALLOCATED" \in bitflags'[x]
      PROVE  \E v \in Holders' : hdl'[v].header = x
  <2>1. CASE x = a
    BY <1>8, <2>1
  <2>2. CASE x # a
    <3>1. "ALLOCATED" \in bitflags[x]
      BY <1>8, <2>2 DEF UseFlags
    <3>2. PICK v \in Holders : hdl[v].header = x
      BY <1>8, <3>1 DEF Owned
    <3> QED
      BY <1>3, <1>4, <2>2, <3>2
  <2> QED
    BY <2>1, <2>2
<1>9. ASSUME NEW q \in DOMAIN tables', NEW d \in tables'[q].bitmap
      PROVE  \E v \in Holders' : Encoded(q, d) = Place(v)'
  <2>1. q \in DOMAIN tables /\ d \in tables[q].bitmap
    BY <1>2, <1>9
  <2>2. PICK v \in Holders : Encoded(q, d) = Place(v)
    BY <2>1 DEF Owned
  <2>3. CASE v # u
    BY <1>3, <1>4, <1>5, <2>2, <2>3
  <2>4. CASE v = u
    <3>1. q \in Nat /\ q >= 1 /\ tables[q] \in Table
      BY <1>1, <2>1
    <3>2. q = r /\ d = c
      BY <2>1, <2>2, <2>4, <3>1, IndexOfSlot DEF Table
    <3>3. d \in B
      BY <1>2, <1>9, <2>1, <3>2
    <3>4. u \in Holders' /\ hdl'[u].header = hdl[u].header
      BY <3>2, <3>3
    <3>5. Place(u)' = Place(u)
      BY <3>4 DEF Place
    <3> QED
      BY <2>2, <2>4, <3>4, <3>5
  <2> QED
    BY <2>3, <2>4
<1> QED
  BY <1>6, <1>7, <1>8, <1>9 DEF Owned

\* syn_free of a block marks its header free and no other one.
LEMMA FreeMarks ==
  ASSUME HeapInv, FreeInv, NEW a, HeapFree(a),
         \A p \in DOMAIN pools : \A j \in DOMAIN pools[p].free : pools[p].free[j] # a
  PROVE  /\ heads' = heads /\ "ALLOCATED" \notin bitflags'[a] /\ "FROZEN" \notin bitflags[a]
         /\ \A x \in heads : x # a =>
              \A z \in UseFlags : z \in bitflags'[x] <=> z \in bitflags[x]
<1> DEFINE g == [bitflags EXCEPT ![a] = Freed(@)]
<1>1. /\ TypeOK /\ Placed(pools, chunk_size, deadzone) /\ a \in heads
      /\ chunk_size' = chunk_size /\ "FROZEN" \notin bitflags[a]
  BY DEF HeapInv, HeapFree, Safe, Unfrozen
<1>2. ReturnPool(a) \in DOMAIN pools
  BY <1>1, ReturnedPool
<1>3. PICK wild \in Wild : bitflags' = UpdatedFlags(g, chunk_size, pools, a, wild)
  BY <1>2 DEF HeapFree
<1>4. /\ DOMAIN g = heads /\ "ALLOCATED" \notin g[a]
      /\ \A x \in heads : x # a => g[x] = bitflags[x]
  BY <1>1 DEF TypeOK, Freed
<1> HIDE DEF g
<1>5. \A x \in heads : \A z \in UseFlags : z \in bitflags'[x] <=> z \in g[x]
  BY <1>1, <1>3, <1>4, UseFlagsStay
<1>6. "ALLOCATED" \notin bitflags'[a]
  BY <1>1, <1>4, <1>5 DEF UseFlags
<1>7. heads' = heads
  BY <1>1 DEF heads
<1> QED
  BY <1>1, <1>4, <1>5, <1>6, <1>7

\* syn_free.
LEMMA FreeOwned ==
  ASSUME HeapInv, FreeInv, TablesInv, Owned, ~STALE_CALLS, NEW u \in Users, Free(u)
  PROVE  u \in Holders /\ "ALLOCATED" \in bitflags[hdl[u].header] /\ Owned'
<1> DEFINE a == hdl[u].header
           i == Place(u)
           r == Row(i)
           c == Col(i)
<1>1. /\ Running /\ HeapFree(a) /\ ReleaseSlot(Index(a))
      /\ hdl' = [hdl EXCEPT ![u].generation = Next32(@), ![u].state = "freed"]
      /\ u \in Holders
  BY DEF Free, Passable, Holders
<1>2. /\ a \in heads /\ i \in Nat /\ Index(a) = i
      /\ \A p \in DOMAIN pools : \A j \in DOMAIN pools[p].free : pools[p].free[j] # a
  BY <1>1, HolderFound
<1>3. /\ heads' = heads /\ "ALLOCATED" \notin bitflags'[a]
      /\ \A x \in heads : x # a => \A z \in UseFlags : z \in bitflags'[x] <=> z \in bitflags[x]
  BY <1>1, <1>2, FreeMarks
<1>4. "ALLOCATED" \in bitflags[a] /\ r \in DOMAIN tables /\ tables \in Seq(Table)
  BY <1>1 DEF Owned, Owns, TablesInv
<1>5. tables' = [tables EXCEPT ![r].bitmap = @ \ {c}] /\ UNCHANGED handle_index
  BY <1>1, <1>2 DEF ReleaseSlot
<1>6. c \in Cols
  BY <1>2, RowOfIndex
<1>7. Written(tables, tables', r, c, tables[r].bitmap \ {c}, tables[r].entries[c])
  <2> HIDE DEF r, c
  <2> QED
    BY <1>4, <1>5, <1>6, SlotReleased
<1>8. hdl \in [Users -> Handle] /\ hdl[u] \in Handle
  BY DEF TablesInv
<1>9. \A w \in Users : w # u => hdl'[w] = hdl[w]
  BY <1>1, <1>8
<1>10. u \notin Holders'
  <2>1. hdl'[u].state = "freed"
    BY <1>1, <1>8 DEF Handle
  <2> QED
    BY <2>1 DEF Holders
<1>11. Owned'
  BY <1>1, <1>3, <1>5, <1>7, <1>9, <1>10, HolderStep
<1> QED
  BY <1>1, <1>4, <1>11

\* syn_freeze and syn_thaw: the slot counts up with the state of the handle.
LEMMA FreezeOwned ==
  ASSUME HeapInv, FreeInv, TablesInv, Owned, ~STALE_CALLS, NEW u \in Users, Freeze(u)
  PROVE  u \in Holders /\ "ALLOCATED" \in bitflags[hdl[u].header] /\ Owned'
<1> DEFINE a == hdl[u].header
           i == Place(u)
           r == Row(i)
           c == Col(i)
           o == tables[r].entries[c]
           e == [header |-> o.header, generation |-> Next32(o.generation)]
<1>1. /\ Running /\ HeapFreeze(a) /\ tables' = Bumped(tables, Index(a))
      /\ hdl' = [hdl EXCEPT ![u].state = "frozen"]
      /\ UNCHANGED <<handle_index, mapped_tables, table_fate>>
      /\ u \in Holders
  BY DEF Freeze, Passable, Holders
<1>2. a \in heads /\ i \in Nat /\ Index(a) = i
  BY <1>1, HolderFound
<1>3. /\ "ALLOCATED" \in bitflags[a] /\ "FROZEN" \notin bitflags[a] /\ r \in DOMAIN tables
      /\ c \in tables[r].bitmap /\ tables \in Seq(Table)
      /\ o.header = a /\ o.generation = hdl[u].generation
  BY <1>1 DEF Owned, Owns, TablesInv, HeapFreeze, Unfrozen, Entry
<1>4. tables' = Bumped(tables, i)
  BY <1>1, <1>2
<1>5. Written(tables, tables', r, c, tables[r].bitmap, e)
  BY <1>2, <1>3, <1>4, SlotBumped
<1>6. /\ heads' = heads /\ DOMAIN bitflags = heads
      /\ bitflags' = [bitflags EXCEPT ![a] = @ \cup {"FROZEN"}]
  BY <1>1 DEF HeapFreeze, HeapInv, TypeOK, heads
<1>7. \A x \in heads : x # a => \A z \in UseFlags : z \in bitflags'[x] <=> z \in bitflags[x]
  BY <1>6
<1>8. "ALLOCATED" \in bitflags'[a] /\ "FROZEN" \in bitflags'[a]
  BY <1>2, <1>3, <1>6
<1>9. hdl \in [Users -> Handle] /\ hdl[u] \in Handle
  BY DEF TablesInv
<1>10. \A w \in Users : w # u => hdl'[w] = hdl[w]
  BY <1>1, <1>9
<1>11. hdl'[u].state = "frozen" /\ hdl'[u].header = a /\ hdl'[u].generation = hdl[u].generation
  BY <1>1, <1>9 DEF Handle
<1>12. u \in Holders' /\ Place(u)' = i
  BY <1>1, <1>11 DEF Holders, Place
<1>13. c \in Cols
  BY <1>2, RowOfIndex
<1>14. Owns(u)'
  <2>1. Row(Place(u))' = r /\ Col(Place(u))' = c
    BY <1>12 DEF Row, Col
  <2>2. /\ r \in DOMAIN tables' /\ c \in tables'[r].bitmap
        /\ tables'[r].entries[c].header = a
        /\ tables'[r].entries[c].generation = Next32(hdl'[u].generation)
    <3> HIDE DEF r, c, o
    <3>1. tables'[r].entries[c] = e
      BY <1>3, <1>5, <1>13 DEF Written
    <3> QED
      BY <1>3, <1>5, <1>11, <3>1 DEF Written
  <2> HIDE DEF r, c, o, e
  <2> QED
    BY <1>2, <1>6, <1>8, <1>11, <2>1, <2>2 DEF Owns, Entry
<1>15. Owned'
  <2> HIDE DEF e
  <2> QED
    BY <1>1, <1>5, <1>6, <1>7, <1>10, <1>11, <1>12, <1>14, HolderStep
<1> QED
  BY <1>1, <1>3, <1>15

\* syn_thaw through a held handle.
LEMMA ThawOwned ==
  ASSUME HeapInv, FreeInv, TablesInv, Owned, NEW u \in Users, Thaw(u)
  PROVE  u \in Holders /\ "ALLOCATED" \in bitflags[hdl[u].header] /\ Owned'
         /\ hdl'[u].header = hdl[u].header
<1> DEFINE a == hdl[u].header
           i == Place(u)
           r == Row(i)
           c == Col(i)
           o == tables[r].entries[c]
           e == [header |-> o.header, generation |-> Next32(o.generation)]
<1>1. /\ Running /\ HeapThaw(a) /\ tables' = Bumped(tables, Index(a))
      /\ hdl' = [hdl EXCEPT ![u] = [header     |-> Entry(Index(a)).header,
                                    generation |-> Next32(Entry(Index(a)).generation),
                                    state      |-> "held"]]
      /\ UNCHANGED <<handle_index, mapped_tables, table_fate>>
      /\ u \in Holders
  BY DEF Thaw, Holders
<1>2. a \in heads /\ i \in Nat /\ Index(a) = i
  BY <1>1, HolderFound
<1>3. /\ "ALLOCATED" \in bitflags[a] /\ r \in DOMAIN tables
      /\ c \in tables[r].bitmap /\ tables \in Seq(Table) /\ o.header = a
  BY <1>1 DEF Owned, Owns, TablesInv, Entry
<1>4. tables' = Bumped(tables, i)
  BY <1>1, <1>2
<1>5. Written(tables, tables', r, c, tables[r].bitmap, e)
  BY <1>2, <1>3, <1>4, SlotBumped
<1>6. /\ heads' = heads /\ DOMAIN bitflags = heads
      /\ bitflags' = [bitflags EXCEPT ![a] = @ \ {"FROZEN"}]
  BY <1>1 DEF HeapThaw, HeapInv, TypeOK, heads
<1>7. \A x \in heads : x # a => \A z \in UseFlags : z \in bitflags'[x] <=> z \in bitflags[x]
  BY <1>6
<1>8. "ALLOCATED" \in bitflags'[a] /\ "FROZEN" \notin bitflags'[a]
  BY <1>2, <1>3, <1>6
<1>9. hdl \in [Users -> Handle]
  BY DEF TablesInv
<1>10. \A w \in Users : w # u => hdl'[w] = hdl[w]
  BY <1>1, <1>9
<1>11. hdl'[u].state = "held" /\ hdl'[u].header = a /\ hdl'[u].generation = Next32(o.generation)
  BY <1>1, <1>2, <1>3, <1>9 DEF Entry
<1>12. u \in Holders' /\ Place(u)' = i
  BY <1>1, <1>11 DEF Holders, Place
<1>13. c \in Cols
  BY <1>2, RowOfIndex
<1>14. Owns(u)'
  <2>1. Row(Place(u))' = r /\ Col(Place(u))' = c
    BY <1>12 DEF Row, Col
  <2>2. /\ r \in DOMAIN tables' /\ c \in tables'[r].bitmap
        /\ tables'[r].entries[c].header = a
        /\ tables'[r].entries[c].generation = hdl'[u].generation
    <3> HIDE DEF r, c, o
    <3>1. tables'[r].entries[c] = e
      BY <1>3, <1>5, <1>13 DEF Written
    <3> QED
      BY <1>3, <1>5, <1>11, <3>1 DEF Written
  <2> HIDE DEF r, c, o, e
  <2> QED
    BY <1>2, <1>6, <1>8, <1>11, <2>1, <2>2 DEF Owns, Entry
<1>15. Owned'
  <2> HIDE DEF e
  <2> QED
    BY <1>1, <1>5, <1>6, <1>7, <1>10, <1>11, <1>12, <1>14, HolderStep
<1> QED
  BY <1>1, <1>3, <1>11, <1>15

\* The header that syn_alloc hands out was not in use and is now; the flags of the
\* others stay.
LEMMA AllocMarks ==
  ASSUME HeapInv, FreeInv, NEW size \in Requests, NEW a, HeapAlloc(size, a)
  PROVE  /\ heads' = heads \cup {a}
         /\ a \in heads => "ALLOCATED" \notin bitflags[a]
         /\ "ALLOCATED" \in bitflags'[a] /\ "FROZEN" \notin bitflags'[a]
         /\ \A x \in heads : x # a =>
              /\ chunk_size'[x] = chunk_size[x]
              /\ \A z \in UseFlags : z \in bitflags'[x] <=> z \in bitflags[x]
<1>1. Safe
  BY DEF HeapAlloc, Alive, Safe
<1>2. PICK n, P, p, i, wild : n \in Nat /\ Allocated(a, n, P, p, i, wild)
  BY AllocMade
<1>3. Taken(P, n, p, i, wild)
  BY <1>1, <1>2, InvariantParts, HeaderTaken DEF Allocated
<1>4. /\ a = Spot(P, p, i) /\ chunk_size' = MadeSizes(P, n, p, i)
      /\ bitflags' = MadeFlags(P, n, p, i, wild)
  BY <1>2 DEF Allocated
<1>5. "ALLOCATED" \in bitflags'[a] /\ "FROZEN" \notin bitflags'[a]
  <2>1. TypeOK
    BY DEF HeapInv
  <2> QED
    BY <1>4, <2>1, MadeBusy
<1> QED
  BY <1>3, <1>4, <1>5 DEF Taken, heads

\* syn_alloc.
LEMMA AllocOwned ==
  ASSUME HeapInv, HeapInv', FreeInv, TablesInv, Owned,
         NEW u \in Users, NEW size \in Requests, Alloc(u, size)
  PROVE  Owned'
<1>1. PICK a : /\ HeapAlloc(size, a) /\ CreateHandle(ArenaTables, a)
               /\ hdl' = [hdl EXCEPT ![u] = [header |-> a, generation |-> 1, state |-> "held"]]
  BY DEF Alloc
<1>2. /\ heads' = heads \cup {a} /\ a \in Headers
      /\ a \in heads => "ALLOCATED" \notin bitflags[a]
      /\ "ALLOCATED" \in bitflags'[a] /\ "FROZEN" \notin bitflags'[a]
      /\ \A x \in heads : x # a => \A z \in UseFlags : z \in bitflags'[x] <=> z \in bitflags[x]
  BY <1>1, AllocMarks, HeaderAdded
<1>3. PICK W, r, c : HandleMade(W, r, c, a)
  BY <1>1, <1>2, HandleCreated
<1> DEFINE e == [header |-> a, generation |-> 1]
           B == W[r].bitmap \cup {c}
<1>4. /\ tables \in Seq(Table) /\ W \in Seq(Table) /\ r \in DOMAIN W /\ c \in Cols
      /\ c \notin W[r].bitmap
      /\ \A q \in DOMAIN tables : q \in DOMAIN W /\ W[q] = tables[q]
      /\ \A q \in DOMAIN W : q \notin DOMAIN tables => W[q].bitmap = {}
  BY <1>3 DEF HandleMade, Extended, TablesInv, NewTable
<1>5. /\ DOMAIN tables' = DOMAIN W
      /\ \A q \in DOMAIN W :
           /\ tables'[q].bitmap = IF q = r THEN B ELSE W[q].bitmap
           /\ \A d \in Cols : tables'[q].entries[d] =
                                IF q = r /\ d = c THEN e ELSE W[q].entries[d]
  BY <1>3 DEF HandleMade, Written
<1>6. /\ handle_index' = With(handle_index, a, Encoded(r, c))
      /\ DOMAIN handle_index = heads
  BY <1>3 DEF HandleMade, TablesInv
<1>7. /\ handle_index'[a] = Encoded(r, c)
      /\ \A x \in heads : x # a => handle_index'[x] = handle_index[x]
  BY <1>6 DEF With
<1>8. Row(Encoded(r, c)) = r /\ Col(Encoded(r, c)) = c
  <2>1. r \in Nat /\ r >= 1
    BY <1>4
  <2> QED
    BY <1>4, <2>1, IndexOfSlot
<1>9. hdl \in [Users -> Handle] /\ u \notin Holders /\ Holders \subseteq Users
  BY DEF TablesInv, Holders, Alloc
<1>10. /\ hdl'[u] = [header |-> a, generation |-> 1, state |-> "held"]
       /\ \A w \in Users : w # u => hdl'[w] = hdl[w]
  BY <1>1, <1>9
<1>11. Holders' = Holders \cup {u}
  BY <1>10 DEF Holders
<1>12. Owns(u)' /\ Place(u)' = Encoded(r, c)
  <2>1. Place(u)' = Encoded(r, c)
    BY <1>7, <1>10 DEF Place
  <2>2. Row(Place(u))' = r /\ Col(Place(u))' = c
    BY <1>8, <2>1 DEF Row, Col
  <2>3. Entry(Place(u))' = e
    BY <1>4, <1>5, <2>2 DEF Entry
  <2>4. hdl'[u].header = a /\ hdl'[u].generation = 1 /\ hdl'[u].state = "held"
    BY <1>10
  <2>5. r \in DOMAIN tables' /\ c \in tables'[r].bitmap
    BY <1>4, <1>5
  <2> QED
    BY <1>2, <2>1, <2>2, <2>3, <2>4, <2>5 DEF Owns
<1> HIDE DEF e, B
<1>13. ASSUME NEW w \in Holders
       PROVE  /\ Owns(w)' /\ Place(w)' = Place(w) /\ hdl'[w] = hdl[w] /\ hdl[w].header # a
  <2> DEFINE x == hdl[w].header
             q == Row(Place(w))
             d == Col(Place(w))
  <2>1. /\ x \in heads /\ "ALLOCATED" \in bitflags[x]
        /\ q \in DOMAIN tables /\ d \in tables[q].bitmap
        /\ tables[q].entries[d].header = x
        /\ IF hdl[w].state = "held"
             THEN tables[q].entries[d].generation = hdl[w].generation /\ "FROZEN" \notin bitflags[x]
             ELSE tables[q].entries[d].generation = Next32(hdl[w].generation)
                  /\ "FROZEN" \in bitflags[x]
    BY DEF Owned, Owns, Entry
  <2>2. x # a
    BY <1>2, <2>1
  <2>3. hdl'[w] = hdl[w] /\ Place(w)' = Place(w)
    BY <1>7, <1>9, <1>10, <2>1, <2>2 DEF Place
  <2>4. d \in Cols
    <3>1. Place(w) \in Nat
      BY <2>1 DEF TablesInv, Place
    <3> QED
      BY <3>1, RowOfIndex
  <2>5. q \in DOMAIN tables' /\ d \in tables'[q].bitmap
        /\ tables'[q].entries[d] = tables[q].entries[d]
    <3>1. q \in DOMAIN W /\ W[q] = tables[q] /\ ~(q = r /\ d = c)
      BY <1>4, <2>1
    <3> HIDE DEF q, d, x
    <3>2. d \in tables'[q].bitmap
      BY <1>5, <2>1, <3>1 DEF B
    <3> QED
      BY <1>5, <2>4, <3>1, <3>2
  <2>6. /\ ("ALLOCATED" \in bitflags'[x] <=> "ALLOCATED" \in bitflags[x])
        /\ ("FROZEN" \in bitflags'[x] <=> "FROZEN" \in bitflags[x])
    BY <1>2, <2>1, <2>2 DEF UseFlags
  <2>7. Owns(w)'
    <3>1. Row(Place(w))' = q /\ Col(Place(w))' = d
      BY <2>3 DEF Row, Col
    <3> HIDE DEF q, d
    <3> QED
      BY <1>2, <2>1, <2>3, <2>5, <2>6, <3>1 DEF Owns, Entry
  <2> QED
    BY <2>2, <2>3, <2>7
<1>14. \A v \in Holders' : Owns(v)'
  BY <1>11, <1>12, <1>13
<1>15. \A v, w \in Holders' : hdl'[v].header = hdl'[w].header => v = w
  <2>1. \A v, w \in Holders : hdl[v].header = hdl[w].header => v = w
    BY DEF Owned
  <2>2. hdl'[u].header = a
    BY <1>10
  <2> QED
    BY <1>11, <1>13, <2>1, <2>2
<1>16. ASSUME NEW x \in heads', "ALLOCATED" \in bitflags'[x]
       PROVE  \E v \in Holders' : hdl'[v].header = x
  <2>1. CASE x = a
    BY <1>10, <1>11, <2>1
  <2>2. CASE x # a
    <3>1. x \in heads /\ "ALLOCATED" \in bitflags[x]
      BY <1>2, <1>16, <2>2 DEF UseFlags
    <3>2. PICK v \in Holders : hdl[v].header = x
      BY <3>1 DEF Owned
    <3> QED
      BY <1>11, <1>13, <3>2
  <2> QED
    BY <2>1, <2>2
<1>17. ASSUME NEW q \in DOMAIN tables', NEW d \in tables'[q].bitmap
       PROVE  \E v \in Holders' : Encoded(q, d) = Place(v)'
  <2>1. CASE q = r /\ d = c
    BY <1>11, <1>12, <2>1
  <2>2. CASE ~(q = r /\ d = c)
    <3>1. q \in DOMAIN W /\ d \in W[q].bitmap
      BY <1>5, <1>17, <2>2 DEF B
    <3>2. q \in DOMAIN tables /\ d \in tables[q].bitmap
      BY <1>4, <3>1
    <3>3. PICK v \in Holders : Encoded(q, d) = Place(v)
      BY <3>2 DEF Owned
    <3> QED
      BY <1>11, <1>13, <3>3
  <2> QED
    BY <2>1, <2>2
<1> QED
  BY <1>14, <1>15, <1>16, <1>17 DEF Owned

\* syn_alloc that gives up may leave the first table behind, with no slot used.
LEMMA GiveUpOwned ==
  ASSUME TablesInv, Owned, NEW size, AllocGivesUp(size)
  PROVE  Owned'
<1>1. /\ tables' = ArenaTables /\ UNCHANGED <<handle_index, hdl, chunk_size, bitflags>>
  BY DEF AllocGivesUp, HeapGiveUp, callerVars
<1>2. CASE ArenaTables = tables
  BY <1>1, <1>2 DEF Owned, Owns, Holders, Place, Entry, heads
<1>3. CASE ArenaTables # tables
  <2>1. tables = <<>> /\ tables' = <<NewTable>>
    BY <1>1, <1>3, ArenaExtended DEF ArenaTables
  <2>2. Holders = {}
    BY <2>1 DEF Owned, Owns
  <2>3. Holders' = {} /\ heads' = heads /\ bitflags' = bitflags
    BY <1>1, <2>2 DEF Holders, heads
  <2>4. \A a \in heads : "ALLOCATED" \notin bitflags[a]
    BY <2>2 DEF Owned
  <2>5. \A r \in DOMAIN tables' : tables'[r].bitmap = {}
    BY <2>1 DEF NewTable
  <2> QED
    BY <2>3, <2>4, <2>5 DEF Owned
<1> QED
  BY <1>2, <1>3

\* A call that leaves headers, tables and handles alone.
LEMMA SameOwned ==
  ASSUME Owned, UNCHANGED <<tables, handle_index, hdl, chunk_size, bitflags>>
  PROVE  Owned'
  BY DEF Owned, Owns, Holders, Place, Entry, heads

\* syn_reset and syn_destroy leave nobody with a handle.
LEMMA ClearedOwned == ASSUME HeapInv, TablesInv, Reset \/ Destroy PROVE Owned'
<1>1. heads' = {} /\ hdl' = NoHandles /\ tables' = <<>>
  BY ClearedTabled
<1>2. Holders' = {}
  BY <1>1 DEF Holders, NoHandles, NoHandle
<1> QED
  BY <1>1, <1>2 DEF Owned

\* OwnerInv is inductive for callers that pass handles they hold.
LEMMA NextOwned ==
  ASSUME GoodCallers
  PROVE  HeapInv /\ HeapInv' /\ FreeInv /\ TablesInv /\ OwnerInv /\ [Next]_vars => OwnerInv'
<1> SUFFICES ASSUME HeapInv, HeapInv', FreeInv, TablesInv, OwnerInv, [Next]_vars, Running'
             PROVE  Owned'
  BY DEF OwnerInv
<1>1. ASSUME NEW v \in Users, NEW size \in Requests, Alloc(v, size) PROVE Owned'
  BY <1>1, AllocOwned DEF Alloc, OwnerInv
<1>2. ASSUME NEW size \in Requests, AllocGivesUp(size) PROVE Owned'
  BY <1>2, GiveUpOwned DEF AllocGivesUp, OwnerInv
<1>3. ASSUME NEW v \in Users, Free(v) \/ Freeze(v) \/ Thaw(v) PROVE Owned'
  <2>1. Owned /\ ~STALE_CALLS
    BY <1>3 DEF Free, Freeze, Thaw, OwnerInv, GoodCallers
  <2> QED
    BY <1>3, <2>1, FreeOwned, FreezeOwned, ThawOwned
<1>4. ASSUME Reset \/ Destroy PROVE Owned'
  BY <1>4, ClearedOwned
<1>5. ASSUME \/ \E size : AllocMapFails(size)
             \/ AllocTableMapFails \/ (\E v : LookupFails(v))
             \/ PoolWalkFaults
      PROVE  ~Running'
  BY <1>5 DEF AllocMapFails, HeapMapFails, AllocTableMapFails, TableMapFails, LookupFails,
              LookupFaults, PoolWalkFaults, PoolArrayFault, Running, Safe
<1>6. ASSUME Dead \/ UNCHANGED vars PROVE Owned'
  <2>1. UNCHANGED vars
    BY <1>6 DEF Dead
  <2>2. Owned
    BY <2>1 DEF vars, heapVars, tableVars, Running, Safe, OwnerInv
  <2> QED
    BY <2>1, <2>2, SameOwned DEF vars, heapVars, tableVars, callerVars
<1> QED
  BY <1>1, <1>2, <1>3, <1>4, <1>5, <1>6 DEF Next, GoodCallers

\* Nobody holds a handle before the first call.
LEMMA InitOwned == Init => OwnerInv
<1> SUFFICES ASSUME Init PROVE Owned
  BY DEF OwnerInv
<1>1. heads = {} /\ tables = <<>> /\ hdl = NoHandles
  <2>1. DOMAIN <<>> = {}
    OBVIOUS
  <2> QED
    BY <2>1 DEF Init, HeapInit, TableInit, heads
<1>2. Holders = {}
  BY <1>1 DEF Holders, NoHandles, NoHandle
<1> QED
  BY <1>1, <1>2 DEF Owned

\* Every holder has its slot and its block, and every slot and block in use a holder.
THEOREM OwnersHold == ASSUME GoodCallers PROVE Spec => []OwnerInv
<1>1. PoolsInv /\ PoolsInv' /\ TablesInv /\ OwnerInv /\ [Next]_vars => OwnerInv'
  BY NextOwned DEF PoolsInv
<1> QED
  BY <1>1, InitOwned, PoolsStayIntact, TablesInvariantHolds, PTL DEF Spec

\* What TLC checks of the handles, from that invariant.
LEMMA OwnedSlots ==
  ASSUME FreeInv, TablesInv, OwnerInv
  PROVE  HeldHandlesResolve /\ BlocksHaveOneHolder /\ SlotsMatchBlocks
<1>1. HeldHandlesResolve
  <2> SUFFICES ASSUME Running, NEW v \in Holders
               PROVE  LET i == Index(hdl[v].header)
                      IN  /\ hdl[v].header \in heads /\ IndexResolves(hdl[v].header)
                          /\ Entry(i).header = hdl[v].header
                          /\ IF hdl[v].state = "held"
                               THEN Accepted(hdl[v])
                               ELSE Entry(i).generation = Next32(hdl[v].generation)
    BY DEF HeldHandlesResolve
  <2>1. Owned /\ Owns(v)
    BY DEF OwnerInv, Owned
  <2>2. /\ hdl[v].header \in heads /\ IndexResolves(hdl[v].header)
        /\ Index(hdl[v].header) = Place(v)
    BY <2>1, HolderFound
  <2> QED
    BY <2>1, <2>2 DEF Owns, Accepted, Unfrozen
<1>2. BlocksHaveOneHolder
  <2> SUFFICES ASSUME Owned
               PROVE  /\ \A v, w \in Holders : hdl[v].header = hdl[w].header => v = w
                      /\ {a \in heads : "ALLOCATED" \in bitflags[a]} = {hdl[v].header : v \in Holders}
    BY DEF BlocksHaveOneHolder, OwnerInv
  <2>1. \A v \in Holders : hdl[v].header \in heads /\ "ALLOCATED" \in bitflags[hdl[v].header]
    BY DEF Owned, Owns
  <2> QED
    BY <2>1 DEF Owned
<1>3. SlotsMatchBlocks
  <2> SUFFICES ASSUME Owned
               PROVE  /\ UsedSlots = {Place(v) : v \in Holders}
                      /\ \A v, w \in Holders : v # w => Place(v) # Place(w)
    BY DEF SlotsMatchBlocks, OwnerInv, Place
  <2>1. ASSUME NEW v \in Holders
        PROVE  \E r \in DOMAIN tables : \E c \in tables[r].bitmap : Place(v) = Encoded(r, c)
    <3>1. /\ hdl[v].header \in heads /\ Row(Place(v)) \in DOMAIN tables
          /\ Col(Place(v)) \in tables[Row(Place(v))].bitmap
      BY DEF Owned, Owns
    <3>2. Place(v) = Encoded(Row(Place(v)), Col(Place(v)))
      BY <3>1, RowOfIndex DEF TablesInv, Place, Encoded
    <3> QED
      BY <3>1, <3>2
  <2>2. UsedSlots = {Place(v) : v \in Holders}
    BY <2>1 DEF UsedSlots, Owned
  <2> QED
    BY <2>2, PlacesDiffer
<1> QED
  BY <1>1, <1>2, <1>3

\* For callers that pass only handles they hold and do not reallocate: the handles a
\* caller holds lead to their slots, which have their generations.
THEOREM HandlesResolve == ASSUME GoodCallers PROVE Spec => []HeldHandlesResolve
<1>1. PoolsInv /\ TablesInv /\ OwnerInv => HeldHandlesResolve
  BY OwnedSlots DEF PoolsInv
<1> QED
  BY <1>1, OwnersHold, PoolsStayIntact, TablesInvariantHolds, PTL

\* No block has two holders, and no allocated block has none.
THEOREM OneHolderEach == ASSUME GoodCallers PROVE Spec => []BlocksHaveOneHolder
<1>1. PoolsInv /\ TablesInv /\ OwnerInv => BlocksHaveOneHolder
  BY OwnedSlots DEF PoolsInv
<1> QED
  BY <1>1, OwnersHold, PoolsStayIntact, TablesInvariantHolds, PTL

\* No slot is shared, none leaks.
THEOREM SlotsMatch == ASSUME GoodCallers PROVE Spec => []SlotsMatchBlocks
<1>1. PoolsInv /\ TablesInv /\ OwnerInv => SlotsMatchBlocks
  BY OwnedSlots DEF PoolsInv
<1> QED
  BY <1>1, OwnersHold, PoolsStayIntact, TablesInvariantHolds, PTL

\* The slots of full tables, one index for each, are COLS * Len(tables) many.
LEMMA FullTablesSlots ==
  ASSUME TablesInv, \A r \in DOMAIN tables : ~HasFreeSlot(tables[r])
  PROVE  0 .. (COLS * Len(tables) - 1) \subseteq UsedSlots
<1> SUFFICES ASSUME NEW i \in 0 .. (COLS * Len(tables) - 1) PROVE i \in UsedSlots
  OBVIOUS
<1>1. tables \in Seq(Table) /\ Len(tables) \in Nat /\ COLS \in Nat
  BY HandleAssumption DEF TablesInv
<1>2. i \in Nat /\ i < COLS * Len(tables)
  BY <1>1
<1>3. PICK q \in Nat, m \in Cols : Row(i) = q + 1 /\ Col(i) = m /\ i = q * COLS + m
  <2> DEFINE q == Row(i) - 1
  <2>1. Row(i) \in Nat /\ Row(i) >= 1 /\ Col(i) \in Cols /\ i = q * COLS + Col(i)
    BY <1>2, RowOfIndex
  <2>2. q \in Nat /\ Row(i) = q + 1
    BY <2>1
  <2> HIDE DEF q
  <2> QED
    BY <2>1, <2>2
<1>4. q < Len(tables)
  <2> SUFFICES ASSUME q >= Len(tables) PROVE FALSE
    BY <1>1, <1>3
  <2>1. PICK z \in Nat, k \in Nat : k = Len(tables) /\ q = k + z
    <3>1. q - Len(tables) \in Nat /\ q = Len(tables) + (q - Len(tables))
      BY <1>1, <1>3
    <3> QED
      BY <1>1, <3>1
  <2>2. i < COLS * k /\ m \in Nat
    BY <1>1, <1>2, <2>1 DEF Cols
  <2>3. q * COLS = COLS * k + COLS * z /\ COLS * k \in Nat /\ COLS * z \in Nat
    BY <1>1, <2>1
  <2> QED
    BY <1>2, <1>3, <2>2, <2>3
<1>5. q + 1 \in DOMAIN tables /\ m \in tables[q + 1].bitmap
  <2>1. q + 1 \in DOMAIN tables
    BY <1>1, <1>3, <1>4
  <2> QED
    BY <2>1 DEF HasFreeSlot
<1>6. i = Encoded(q + 1, m)
  BY <1>3 DEF Encoded
<1> QED
  BY <1>5, <1>6 DEF UsedSlots

\* As many indices in use take as many holders.
LEMMA SlotsNeedHolders ==
  ASSUME SlotsMatchBlocks, Running, NEW n \in Nat, 0 .. (n - 1) \subseteq UsedSlots
  PROVE  Cardinality(Holders) >= n
<1> DEFINE F == [v \in Holders |-> handle_index[hdl[v].header]]
<1>1. IsFiniteSet(Holders) /\ Cardinality(Holders) \in Nat
  BY UsersAssumption, FS_Subset, FS_CardinalityType DEF Holders
<1>2. UsedSlots = {handle_index[hdl[v].header] : v \in Holders}
  BY DEF SlotsMatchBlocks
<1>3. F \in Surjection(Holders, UsedSlots)
  BY <1>2 DEF Surjection
<1>4. IsFiniteSet(UsedSlots) /\ Cardinality(UsedSlots) <= Cardinality(Holders)
  BY <1>1, <1>3, FS_Surjection
<1>5. /\ IsFiniteSet(0 .. (n - 1)) /\ Cardinality(0 .. (n - 1)) <= Cardinality(UsedSlots)
      /\ Cardinality(UsedSlots) \in Nat
  BY <1>4, FS_Subset, FS_CardinalityType
<1>6. Cardinality(0 .. (n - 1)) = n
  BY FS_Interval
<1> QED
  BY <1>1, <1>4, <1>5, <1>6

\* For callers that pass only handles they hold and do not reallocate: a table is added
\* only when they hold a handle for every slot of the others, because no free leaves a
\* slot marked and no allocation passes over an unmarked one.
THEOREM TablesGrowWithHandles == ASSUME GoodCallers PROVE Spec => TablesGrowForHandles
<1> DEFINE Needed == Len(tables') > Len(tables) => Cardinality(Holders) >= COLS * Len(tables)
<1>1. ASSUME HeapInv, HeapInv', FreeInv, TablesInv, OwnerInv, [Next]_vars PROVE Needed
  <2> SUFFICES ASSUME Len(tables') > Len(tables)
               PROVE  Cardinality(Holders) >= COLS * Len(tables)
    OBVIOUS
  <2>1. Running /\ \A r \in DOMAIN tables : ~HasFreeSlot(tables[r])
    BY <1>1, GrowsOnlyFull
  <2>2. COLS * Len(tables) \in Nat
    BY <1>1, HandleAssumption DEF TablesInv
  <2>3. 0 .. (COLS * Len(tables) - 1) \subseteq UsedSlots
    BY <1>1, <2>1, FullTablesSlots
  <2>4. SlotsMatchBlocks
    BY <1>1, OwnedSlots
  <2> QED
    BY <2>1, <2>2, <2>3, <2>4, SlotsNeedHolders
<1> HIDE DEF Needed
<1>2. PoolsInv /\ PoolsInv' /\ TablesInv /\ OwnerInv /\ [Next]_vars => [Needed]_vars
  BY <1>1 DEF PoolsInv
<1> QED
  BY <1>2, PoolsStayIntact, TablesInvariantHolds, OwnersHold, PTL
     DEF Spec, TablesGrowForHandles, Needed

\* A frozen handle changes only with its thaw, a reset or a destroy.
THEOREM FrozenHandlesStay == ASSUME GoodCallers PROVE Spec => FrozenHandleKept
<1> DEFINE Stays == \A v \in Users : hdl[v].state = "frozen" =>
                      hdl'[v] = hdl[v] \/ Thaw(v) \/ Reset \/ Destroy
<1>1. ASSUME HeapInv, TablesInv, OwnerInv, [Next]_vars PROVE Stays
  <2> SUFFICES ASSUME NEW v \in Users, hdl[v].state = "frozen"
               PROVE  hdl'[v] = hdl[v] \/ Thaw(v) \/ Reset \/ Destroy
    OBVIOUS
  <2>1. hdl \in [Users -> Handle]
    BY <1>1 DEF TablesInv
  <2>2. ASSUME NEW u \in Users, NEW size, Alloc(u, size) PROVE hdl'[v] = hdl[v]
    <3>1. u # v
      BY <2>2 DEF Alloc
    <3> QED
      BY <2>1, <2>2, <3>1 DEF Alloc
  <2>3. ASSUME NEW u \in Users, Free(u) \/ Freeze(u) PROVE hdl'[v] = hdl[v]
    <3>1. Running /\ "FROZEN" \notin bitflags[hdl[u].header]
      BY <2>3 DEF Free, Freeze, Accepted, Unfrozen
    <3>2. "FROZEN" \in bitflags[hdl[v].header]
      BY <1>1, <3>1 DEF OwnerInv, Owned, Owns, Holders
    <3>3. u # v
      BY <3>1, <3>2
    <3> QED
      BY <2>1, <2>3, <3>3 DEF Free, Freeze
  <2>4. ASSUME NEW u \in Users, Thaw(u) PROVE hdl'[v] = hdl[v] \/ Thaw(v)
    BY <2>1, <2>4 DEF Thaw
  <2>5. ASSUME NEW size, AllocGivesUp(size) PROVE hdl'[v] = hdl[v]
    BY <2>5 DEF AllocGivesUp, callerVars
  <2>6. ASSUME \/ \E size : AllocMapFails(size)
               \/ AllocTableMapFails \/ (\E u : LookupFails(u))
               \/ PoolWalkFaults \/ Dead \/ UNCHANGED vars
        PROVE  hdl'[v] = hdl[v]
    BY <1>1, <2>6, OthersTabled
  <2> QED
    BY <1>1, <2>2, <2>3, <2>4, <2>5, <2>6 DEF Next, GoodCallers
<1> HIDE DEF Stays
<1>2. PoolsInv /\ TablesInv /\ OwnerInv /\ [Next]_vars => [Stays]_vars
  BY <1>1 DEF PoolsInv
<1> QED
  BY <1>2, PoolsStayIntact, TablesInvariantHolds, OwnersHold, PTL DEF Spec, FrozenHandleKept, Stays

-----------------------------------------------------------------------------
(***************************************************************************)
(* The calls as steps of the pools.  PoolHeap lets callers pass allocated  *)
(* blocks, or any with STALE_CALLS; the invariant of the owners shows that *)
(* the check of the handle lets no other block through.                    *)
(***************************************************************************)
PassInv == STALE_CALLS \/ OwnerInv

\* Calls on a block that may be passed are steps of HeapNext.
LEMMA CallsPass ==
  ASSUME STALE_CALLS \/ ReallocRequests = {},
         HeapInv, FreeInv, TablesInv, PassInv, [Next]_vars
  PROVE  [HeapNext]_heapVars
<1>1. ASSUME NEW v \in Users, NEW size \in Requests, Alloc(v, size) PROVE HeapNext
  BY <1>1 DEF Alloc, HeapNext
<1>2. ASSUME NEW size \in Requests, AllocGivesUp(size) \/ AllocMapFails(size) PROVE HeapNext
  BY <1>2 DEF AllocGivesUp, AllocMapFails, HeapNext
<1>3. ASSUME NEW v \in Users, Free(v) \/ Freeze(v) \/ Thaw(v) PROVE HeapNext
  <2> DEFINE a == hdl[v].header
  <2>1. a \in Passed
    <3>1. a \in heads /\ Running
      BY <1>3 DEF Free, Freeze, Thaw, Accepted
    <3>2. CASE STALE_CALLS
      BY <3>1, <3>2 DEF Passed
    <3>3. CASE ~STALE_CALLS
      <4>1. Owned
        BY <3>1, <3>3 DEF PassInv, OwnerInv
      <4>2. "ALLOCATED" \in bitflags[a]
        BY <1>3, <3>3, <4>1, FreeOwned, FreezeOwned, ThawOwned
      <4> QED
        BY <3>1, <4>2 DEF Passed
    <3> QED
      BY <3>2, <3>3
  <2>2. HeapFree(a) \/ HeapFreeze(a) \/ HeapThaw(a)
    BY <1>3 DEF Free, Freeze, Thaw
  <2> QED
    BY <2>1, <2>2 DEF HeapNext
<1>4. ASSUME NEW v \in Users, NEW size \in ReallocRequests, Realloc(v, size) \/ ReallocGivesUp(v, size)
      PROVE  HeapNext
  <2> DEFINE a == hdl[v].header
  <2>1. a \in Passed /\ Unfrozen(a)
    BY <1>4 DEF Realloc, ReallocGivesUp, Accepted, Passed
  <2> QED
    BY <1>4, <2>1 DEF Realloc, ReallocGivesUp, HeapNext
<1>5. ASSUME Reset \/ Destroy \/ PoolWalkFaults PROVE HeapNext
  BY <1>5 DEF Reset, Destroy, PoolWalkFaults, HeapNext
<1>6. ASSUME AllocTableMapFails \/ (\E v : LookupFails(v)) \/ Dead \/ UNCHANGED vars
      PROVE  UNCHANGED heapVars
  BY <1>6 DEF AllocTableMapFails, LookupFails, Dead, vars
<1> QED
  BY <1>1, <1>2, <1>3, <1>4, <1>5, <1>6 DEF Next

\* The library as a whole does with its pools only what PoolHeap has them do: the
\* handle check is what PoolHeap takes callers for.
THEOREM HeapIsRefined ==
  ASSUME STALE_CALLS \/ ReallocRequests = {} PROVE Spec => HeapRefinement
<1>1. Init => HeapInit /\ PassInv
  BY InitOwned DEF Init, PassInv
<1>2. PoolsInv /\ PoolsInv' /\ TablesInv /\ PassInv /\ [Next]_vars => PassInv'
  <2>1. CASE STALE_CALLS
    BY <2>1 DEF PassInv
  <2>2. CASE ~STALE_CALLS
    BY <2>2, NextOwned DEF PassInv, PoolsInv, GoodCallers
  <2> QED
    BY <2>1, <2>2
<1>3. PoolsInv /\ TablesInv /\ PassInv /\ [Next]_vars => [HeapNext]_heapVars
  BY CallsPass DEF PoolsInv
<1> QED
  BY <1>1, <1>2, <1>3, PoolsStayIntact, TablesInvariantHolds, PTL
     DEF Spec, HeapRefinement, HeapSpec
=============================================================================
