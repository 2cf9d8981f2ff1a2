----------------------------- MODULE AllocSpec -----------------------------
(***************************************************************************)
(* What the library promises a caller that passes only handles it holds:   *)
(* every handle stands for a block of at least the size it was asked for,  *)
(* aligned and apart from all others, that stays where it is until it is   *)
(* freed, and that cannot be freed while it is frozen.  Pools, headers,    *)
(* free lists, tables and generations do not occur here.                   *)
(***************************************************************************)
EXTENDS Integers

CONSTANTS
  Users,     \* the handle variables of the caller
  Requests,  \* the sizes it asks for
  ALIGNMENT  \* what addresses are a multiple of

VARIABLES
  state,  \* of each handle: "none", "held" or "frozen"
  block,  \* the block [pool, from, to, size] it stands for, NoBlock for none;
          \* size is what the caller asked for
  halted  \* whether the process has died, or lost its memory

clientVars == <<state, block, halted>>

NoBlock == [pool |-> 0, from |-> 0, to |-> 0, size |-> 0]

Live == {v \in Users : state[v] # "none"}

Apart(b, c) == b.pool # c.pool \/ b.to <= c.from \/ c.to <= b.from

Allocate(v, size) ==
  /\ ~halted /\ v \notin Live
  /\ state' = [state EXCEPT ![v] = "held"]
  /\ block' = [block EXCEPT ![v] = block'[v]]
  /\ block'[v].from % ALIGNMENT = 0
  /\ block'[v].size = size /\ block'[v].to - block'[v].from >= size
  /\ \A w \in Live : Apart(block'[v], block[w])
  /\ UNCHANGED halted

Release(v) ==
  /\ ~halted /\ state[v] = "held"
  /\ state' = [state EXCEPT ![v] = "none"]
  /\ block' = [block EXCEPT ![v] = NoBlock]
  /\ UNCHANGED halted

Freeze(v) ==
  /\ ~halted /\ state[v] = "held"
  /\ state' = [state EXCEPT ![v] = "frozen"]
  /\ UNCHANGED <<block, halted>>

\* The handle that comes back stands for the same block.
Thaw(v) ==
  /\ ~halted /\ state[v] = "frozen"
  /\ state' = [state EXCEPT ![v] = "held"]
  /\ UNCHANGED <<block, halted>>

\* A reset or a destroy takes back everything at once.
DropAll ==
  /\ ~halted
  /\ state' = [v \in Users |-> "none"]
  /\ block' = [v \in Users |-> NoBlock]
  /\ UNCHANGED halted

\* Nothing is promised from here on.
Halt == halted' = TRUE

ClientInit ==
  /\ state = [v \in Users |-> "none"] /\ block = [v \in Users |-> NoBlock]
  /\ halted = FALSE

ClientNext ==
  \/ \E v \in Users, size \in Requests : Allocate(v, size)
  \/ \E v \in Users : Release(v) \/ Freeze(v) \/ Thaw(v)
  \/ DropAll \/ Halt

ClientSpec == ClientInit /\ [][ClientNext]_clientVars
=============================================================================
