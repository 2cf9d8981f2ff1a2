---------------------------- MODULE HandleTable ----------------------------
(***************************************************************************)
(* The handle tables of one arena: a list of tables of COLS slots, each    *)
(* table with a bitmap of its used slots, and the matrix index that every  *)
(* header keeps to find its slot.  table_count is the length of the list   *)
(* and table_id the position in it.                                        *)
(***************************************************************************)
EXTENDS Integers, Sequences

CONSTANTS
  COLS,         \* MAX_TABLE_HNDL_COLS
  GENERATIONS,  \* number of values of a u32 generation
  NoHeader      \* the null header pointer

ASSUME HandleAssumption ==
  COLS \in Nat \ {0} /\ GENERATIONS \in Nat /\ GENERATIONS > 2

VARIABLES
  tables,         \* the tables linked from first_hdl_tbl
  handle_index,   \* header address -> handle_matrix_index
  mapped_tables,  \* table mappings the process holds
  table_fate      \* "ok", or "fault" once a null table was dereferenced

tableVars == <<tables, handle_index, mapped_tables, table_fate>>

Cols == 0 .. (COLS - 1)

\* A fresh mapping is zeroed.
NoEntry  == [header |-> NoHeader, generation |-> 0]
NewTable == [bitmap |-> {}, entries |-> [c \in Cols |-> NoEntry]]

Next32(g) == (g + 1) % GENERATIONS

Encoded(r, c) == (r - 1) * COLS + c
Row(i) == (i \div COLS) + 1
Col(i) == i % COLS

\* return_handle: the walk to the row must not leave the list.
Resolves(i) == Row(i) <= Len(tables)
Entry(i)    == tables[Row(i)].entries[Col(i)]

-----------------------------------------------------------------------------
HasFreeSlot(t) == t.bitmap # Cols

(***************************************************************************)
(* find_non_empty_table on the tables T: the first with a free slot, or a  *)
(* new one at the end.                                                     *)
(***************************************************************************)
\* Faulty WithRoom: a new table for every handle after the first table is full.
WithRoomFirstOnly(T) ==
  IF T # <<>> /\ HasFreeSlot(T[1]) THEN T ELSE Append(T, NewTable)

WithRoom(T) ==
  IF \E r \in DOMAIN T : HasFreeSlot(T[r]) THEN T ELSE Append(T, NewTable)

FirstFree(T, r, c) ==
  /\ HasFreeSlot(T[r]) /\ \A q \in 1 .. (r - 1) : ~HasFreeSlot(T[q])
  /\ c \notin T[r].bitmap /\ \A d \in 0 .. (c - 1) : d \in T[r].bitmap

\* create_handle_and_entry for header a, on the tables T (the arena's, or the one
\* that arena_init has just made).
CreateHandle(T, a) ==
  LET W == WithRoom(T)
  IN  /\ \E r \in DOMAIN W, c \in Cols :
           /\ FirstFree(W, r, c)
           /\ tables' = [W EXCEPT ![r].bitmap = @ \cup {c},
                                  ![r].entries[c] = [header |-> a, generation |-> 1]]
           /\ handle_index' = [y \in DOMAIN handle_index \cup {a} |->
                                 IF y = a THEN Encoded(r, c) ELSE handle_index[y]]
      /\ mapped_tables' = mapped_tables + (Len(W) - Len(tables))
      /\ UNCHANGED table_fate

\* new_handle_table tests mmap's result for null: the failure is written through.
TableMapFails(T) ==
  /\ WithRoom(T) # tables
  /\ table_fate' = "fault"
  /\ UNCHANGED <<tables, handle_index, mapped_tables>>

\* syn_free clears the bit of the slot; its entry stays as it is.
ReleaseSlot(i) ==
  /\ tables' = [tables EXCEPT ![Row(i)].bitmap = @ \ {Col(i)}]
  /\ UNCHANGED <<handle_index, mapped_tables, table_fate>>

\* Faulty Bumped: the generation stays.
NotBumped(T, i) == T

\* update_table_generation.
Bumped(T, i) == [T EXCEPT ![Row(i)].entries[Col(i)].generation = Next32(@)]

LookupFaults ==
  /\ table_fate' = "fault"
  /\ UNCHANGED <<tables, handle_index, mapped_tables>>

\* Faulty TableDestructor: pool_count tables are taken to be there.
TableDestructorUnchecked(limit) ==
  /\ mapped_tables' = mapped_tables - limit
  /\ tables' = <<>>
  /\ handle_index' = <<>>
  /\ UNCHANGED table_fate

\* table_destructor unmaps the tables that return_table_array finds, which stops
\* after pool_count of them.
TableDestructor(limit) ==
  /\ mapped_tables' = mapped_tables - (IF Len(tables) < limit THEN Len(tables) ELSE limit)
  /\ tables' = <<>>
  /\ handle_index' = <<>>
  /\ UNCHANGED table_fate

TableInit ==
  tables = <<>> /\ handle_index = <<>> /\ mapped_tables = 0 /\ table_fate = "ok"
=============================================================================
