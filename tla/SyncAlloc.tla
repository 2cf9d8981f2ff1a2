----------------------------- MODULE SyncAlloc -----------------------------
(***************************************************************************)
(* The public functions of sync_alloc.c over one arena: each is its work   *)
(* on the pools (PoolHeap) together with its work on the handle tables     *)
(* (HandleTable), for a thread that keeps its handles in the variables     *)
(* Users.  The library is called by one thread; every call runs to its end.*)
(***************************************************************************)
EXTENDS PoolHeap, HandleTable, FiniteSets

CONSTANTS
  Users,           \* the handle variables of the calling thread
  MAX_GENERATION   \* bound: no freeze once a generation has reached it

ASSUME UsersAssumption == IsFiniteSet(Users) /\ MAX_GENERATION \in Nat

(***************************************************************************)
(* hdl[v] is the syn_handle_t in v and what the caller knows of it: "none",*)
(* "held", "frozen" (syn_freeze returned its pointer) or "freed".          *)
(***************************************************************************)
VARIABLE hdl

\* History: the size that the block of each handle was asked for, 0 for none.  No
\* action reads it.
VARIABLE asked

callerVars == <<hdl, asked>>
vars == <<heapVars, tableVars, callerVars>>

NoHandle == [header |-> NoHeader, generation |-> 0, state |-> "none"]

NoHandles == [v \in Users |-> NoHandle]
NothingAsked == [v \in Users |-> 0]

Running == Safe /\ table_fate = "ok"

(***************************************************************************)
(* The first 8 bytes of a header on a free list hold next_node: 0 for the  *)
(* last node, and a pointer that leads past every table for the others.    *)
(***************************************************************************)
OnList(a) == \E p \in DOMAIN pools : a \in Listed(p)
LastOnList(a) == \E p \in DOMAIN pools :
  pools[p].free # <<>> /\ pools[p].free[Len(pools[p].free)] = a

IndexResolves(a) ==
  IF OnList(a) THEN LastOnList(a) /\ Resolves(0) ELSE Resolves(handle_index[a])

Index(a) == IF OnList(a) THEN 0 ELSE handle_index[a]

\* bad_alloc_check lets the handle pass.
Accepted(h) ==
  /\ h.header \in heads
  /\ IndexResolves(h.header)
  /\ Entry(Index(h.header)).generation = h.generation
  /\ Unfrozen(h.header)

\* The handles callers pass to a function that checks them.
Passable(v) ==
  hdl[v].state \in (IF STALE_CALLS THEN {"held", "frozen", "freed"} ELSE {"held", "frozen"})

\* arena_init makes the first table with the first pool.
ArenaTables == IF pools = <<>> THEN <<NewTable>> ELSE tables

-----------------------------------------------------------------------------
\* syn_alloc; syn_calloc does the same and clears the payload.
Alloc(v, size) ==
  /\ Running /\ hdl[v].state \in {"none", "freed"}
  /\ \E a \in Targets :
       /\ HeapAlloc(size, a)
       /\ CreateHandle(ArenaTables, a)
       /\ hdl' = [hdl EXCEPT ![v] = [header |-> a, generation |-> 1, state |-> "held"]]
  /\ asked' = [asked EXCEPT ![v] = size]

\* The caller gets an invalid handle.
AllocGivesUp(size) ==
  /\ Running
  /\ HeapGiveUp(size, PaddedSize(size))
  /\ tables' = ArenaTables
  /\ mapped_tables' = mapped_tables + (Len(ArenaTables) - Len(tables))
  /\ UNCHANGED <<handle_index, table_fate, callerVars>>

AllocMapFails(size) ==
  /\ Running
  /\ HeapMapFails(size, PaddedSize(size))
  /\ UNCHANGED <<tableVars, callerVars>>

AllocTableMapFails ==
  /\ Running /\ MAP_MAY_FAIL /\ PoolArrayIntact
  /\ TableMapFails(ArenaTables)
  /\ UNCHANGED <<heapVars, callerVars>>

\* Faulty Free: the slot is not released.
FreeKeepsSlot(v) ==
  /\ Running /\ Passable(v) /\ Accepted(hdl[v])
  /\ HeapFree(hdl[v].header)
  /\ UNCHANGED tableVars
  /\ hdl' = [hdl EXCEPT ![v].generation = Next32(@), ![v].state = "freed"]
  /\ asked' = [asked EXCEPT ![v] = 0]

\* Faulty Free: the header is marked but joins no free list.
FreeUnlisted(v) ==
  LET a == hdl[v].header
  IN  /\ Running /\ Passable(v) /\ Accepted(hdl[v])
      /\ bitflags' = [bitflags EXCEPT ![a] = Freed(@)]
      /\ ReleaseSlot(Index(a))
      /\ hdl' = [hdl EXCEPT ![v].generation = Next32(@), ![v].state = "freed"]
      /\ asked' = [asked EXCEPT ![v] = 0]
      /\ UNCHANGED <<pools, pool_count, chunk_size, deadzone, mapped_pools, fate>>

\* syn_free.
Free(v) ==
  /\ Running /\ Passable(v) /\ Accepted(hdl[v])
  /\ HeapFree(hdl[v].header)
  /\ ReleaseSlot(Index(hdl[v].header))
  /\ hdl' = [hdl EXCEPT ![v].generation = Next32(@), ![v].state = "freed"]
  /\ asked' = [asked EXCEPT ![v] = 0]

\* syn_realloc: the new header has index 0, so slot 0 gets the new generation.
Realloc(v, size) ==
  /\ Running /\ Passable(v) /\ Accepted(hdl[v])
  /\ \E b \in Targets :
       /\ HeapRealloc(hdl[v].header, size, b)
       /\ handle_index' = With(handle_index, b, 0)
       /\ tables' = Bumped(tables, 0)
       /\ hdl' = [hdl EXCEPT ![v].header = b, ![v].generation = Next32(@), ![v].state = "held"]
  /\ asked' = [asked EXCEPT ![v] = size]
  /\ UNCHANGED <<mapped_tables, table_fate>>

ReallocGivesUp(v, size) ==
  /\ Running /\ Passable(v) /\ Accepted(hdl[v])
  /\ HeapGiveUp(size, ReallocSize(size)) \/ HeapMapFails(size, ReallocSize(size))
  /\ UNCHANGED <<tableVars, callerVars>>

\* Faulty Freeze: the pointer is returned before anything is marked.
FreezeUnmarked(v) ==
  /\ Running /\ Passable(v) /\ Accepted(hdl[v])
  /\ hdl' = [hdl EXCEPT ![v].state = "frozen"]
  /\ UNCHANGED <<heapVars, tableVars, asked>>

\* syn_freeze.
Freeze(v) ==
  /\ Running /\ Passable(v) /\ Accepted(hdl[v])
  /\ hdl[v].generation < MAX_GENERATION
  /\ HeapFreeze(hdl[v].header)
  /\ tables' = Bumped(tables, Index(hdl[v].header))
  /\ hdl' = [hdl EXCEPT ![v].state = "frozen"]
  /\ UNCHANGED <<handle_index, mapped_tables, table_fate, asked>>

\* syn_thaw of the pointer that the freeze of v returned; the caller updates v.
Thaw(v) ==
  LET a == hdl[v].header
  IN  /\ Running /\ hdl[v].state = "frozen" /\ a \in heads /\ IndexResolves(a)
      /\ HeapThaw(a)
      /\ tables' = Bumped(tables, Index(a))
      /\ hdl' = [hdl EXCEPT ![v] = [header     |-> Entry(Index(a)).header,
                                    generation |-> Next32(Entry(Index(a)).generation),
                                    state      |-> "held"]]
      /\ UNCHANGED <<handle_index, mapped_tables, table_fate, asked>>

\* A call with a header whose index leads past the tables.
LookupFails(v) ==
  /\ Running /\ Passable(v)
  /\ hdl[v].header \in heads /\ ~IndexResolves(hdl[v].header)
  /\ LookupFaults
  /\ UNCHANGED <<heapVars, callerVars>>

\* syn_reset and syn_destroy; the caller drops its handles, as it is told to.
Reset ==
  /\ Running /\ HeapReset
  /\ TableDestructor(pool_count)
  /\ hdl' = NoHandles /\ asked' = NothingAsked

Destroy ==
  /\ Running /\ HeapDestroy
  /\ TableDestructor(pool_count)
  /\ hdl' = NoHandles /\ asked' = NothingAsked

\* The next call that walks the pools after a reset of several pools.
PoolWalkFaults ==
  /\ Running /\ PoolArrayFault
  /\ UNCHANGED <<tableVars, callerVars>>

Dead == ~Running /\ UNCHANGED vars

Init == HeapInit /\ TableInit /\ hdl = NoHandles /\ asked = NothingAsked

Next ==
  \/ \E v \in Users, size \in Requests : Alloc(v, size)
  \/ \E size \in Requests : AllocGivesUp(size) \/ AllocMapFails(size)
  \/ AllocTableMapFails
  \/ \E v \in Users : Free(v) \/ Freeze(v) \/ Thaw(v) \/ LookupFails(v)
  \/ \E v \in Users, size \in ReallocRequests : Realloc(v, size) \/ ReallocGivesUp(v, size)
  \/ Reset \/ Destroy \/ PoolWalkFaults
  \/ Dead

Spec == Init /\ [][Next]_vars

-----------------------------------------------------------------------------
Holders == {v \in Users : hdl[v].state \in {"held", "frozen"}}

\* The types of the handle tables and of the callers' handles.
HandleTypeOK ==
  /\ \A r \in DOMAIN tables :
       /\ tables[r].bitmap \subseteq Cols
       /\ \A c \in Cols : tables[r].entries[c].generation \in 0 .. (GENERATIONS - 1)
  /\ DOMAIN handle_index = heads /\ \A a \in heads : handle_index[a] \in Nat
  /\ mapped_tables \in Nat /\ table_fate \in {"ok", "fault"}
  /\ \A v \in Users : hdl[v].generation \in 0 .. (GENERATIONS - 1)

(***************************************************************************)
(* A handle the caller holds is never taken for stale: its header leads to *)
(* the slot that names this header with this generation.  While it is      *)
(* frozen the slot is one generation ahead, so nothing but syn_thaw gets   *)
(* at the block (create_handle_and_entry, syn_freeze, syn_thaw).           *)
(***************************************************************************)
HeldHandlesResolve == Running => \A v \in Holders :
  LET i == Index(hdl[v].header)
  IN  /\ hdl[v].header \in heads /\ IndexResolves(hdl[v].header)
      /\ Entry(i).header = hdl[v].header
      /\ IF hdl[v].state = "held" THEN Accepted(hdl[v])
                                  ELSE Entry(i).generation = Next32(hdl[v].generation)

\* Two live handles never share a block, and no allocated block is without a
\* handle: nothing is handed out twice and nothing is lost.
BlocksHaveOneHolder == Running =>
  /\ \A v, w \in Holders : hdl[v].header = hdl[w].header => v = w
  /\ {a \in heads : "ALLOCATED" \in bitflags[a]} = {hdl[v].header : v \in Holders}

UsedSlots == UNION {{Encoded(r, c) : c \in tables[r].bitmap} : r \in DOMAIN tables}

\* The slots marked used are exactly those of the live blocks: none is shared and
\* none leaks (entries_bitmap in create_handle_and_entry and syn_free).
SlotsMatchBlocks == Running =>
  /\ UsedSlots = {handle_index[hdl[v].header] : v \in Holders}
  /\ \A v, w \in Holders : v # w => handle_index[hdl[v].header] # handle_index[hdl[w].header]

(***************************************************************************)
(* Tables are added for handles only: when one is added, the caller holds  *)
(* a handle for every slot of the others.  No order of allocations and     *)
(* frees leaves a slot unused that find_non_empty_table passes over, so    *)
(* the tables never outgrow the most handles ever held at once.            *)
(***************************************************************************)
TablesGrowForHandles ==
  [][Len(tables') > Len(tables) => Cardinality(Holders) >= COLS * Len(tables)]_vars

\* A frozen handle survives every call but its thaw, a reset and a destroy.
FrozenHandleKept ==
  [][\A v \in Users : hdl[v].state = "frozen" =>
       hdl'[v] = hdl[v] \/ Thaw(v) \/ Reset \/ Destroy]_vars

\* For callers that pass only handles they hold, every call is a step of the pools
\* that such callers may take, or leaves the pools alone: the tables never lead a
\* call to a block that is not allocated.
HeapRefinement == HeapSpec

\* What the caller of AllocSpec sees of a handle and of its block.
ClientState == [v \in Users |-> IF v \in Holders THEN hdl[v].state ELSE "none"]

\* The payload of header a, and the size it was asked for.
Payload(a, size) ==
  [pool |-> a[1], from |-> a[2] + STRUCT_SIZE_HEADER, to |-> Behind(a)[2] - DEADZONE_SIZE,
   size |-> size]

Client == INSTANCE AllocSpec WITH
  state  <- ClientState,
  block  <- [v \in Users |-> IF v \in Holders THEN Payload(hdl[v].header, asked[v])
                                              ELSE [pool |-> 0, from |-> 0, to |-> 0, size |-> 0]],
  halted <- ~Running

(***************************************************************************)
(* For callers that pass only handles they hold, and do not reallocate,    *)
(* headers, free lists, slots and generations together implement AllocSpec:*)
(* an allocation gets a block apart from all the others and large enough   *)
(* for the size that this very call asked for, and no call on one handle   *)
(* changes what another one stands for.                                    *)
(***************************************************************************)
ClientView == Client!ClientSpec

-----------------------------------------------------------------------------
(***************************************************************************)
(* What comments of the code say and the code does not do.                 *)
(***************************************************************************)

\* sync_alloc.h: the generation is there "to detect stale handles and
\* use-after-frees"; a handle that was freed must not be accepted again.
FreedHandleRejected == Running => \A v \in Users :
  hdl[v].state = "freed" => ~Accepted(hdl[v])

\* structs.h: handle_matrix_index is the "Index to the header's handle".
IndexLeadsToHandle == Running => \A v \in Holders :
  IndexResolves(hdl[v].header) /\ Entry(Index(hdl[v].header)).header = hdl[v].header

\* sync_alloc.h: syn_destroy "Destroys a whole arena, deallocating it".
DestroyUnmapsTables == pools = <<>> => mapped_tables = 0

=============================================================================
