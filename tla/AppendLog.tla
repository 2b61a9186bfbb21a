------------------------------ MODULE AppendLog ------------------------------
(***************************************************************************)
(* What a paged cache promises: per layer, a sequence of rows that grows   *)
(* by whole appends.  Rows of an append are visible to their own layer as  *)
(* they are written, and to nobody once the append is dropped; an append   *)
(* is published for every layer at once.                                   *)
(***************************************************************************)
EXTENDS Integers, Sequences

CONSTANTS Layer, Row, MaxContext

VARIABLES
  rows,     \* layer |-> the published rows
  staged,   \* layer |-> the rows of the open append
  room      \* tokens of the open append, 0 when none is open

vars == <<rows, staged, room>>

Nothing == [x \in Layer |-> <<>>]

Init == rows = Nothing /\ staged = Nothing /\ room = 0

Open(n) ==
  /\ room = 0
  /\ \A x \in Layer : Len(rows[x]) + n <= MaxContext
  /\ room' = n
  /\ UNCHANGED <<rows, staged>>

Write(x, v) ==
  /\ Len(staged[x]) < room
  /\ staged' = [staged EXCEPT ![x] = Append(@, v)]
  /\ UNCHANGED <<rows, room>>

Publish ==
  /\ room > 0
  /\ \A x \in Layer : Len(staged[x]) = room
  /\ rows' = [x \in Layer |-> rows[x] \o staged[x]]
  /\ staged' = Nothing /\ room' = 0

Forget == staged' = Nothing /\ room' = 0 /\ UNCHANGED rows

Next ==
  \/ \E n \in 1..MaxContext : Open(n)
  \/ \E x \in Layer, v \in Row : Write(x, v)
  \/ Publish
  \/ Forget

Spec == Init /\ [][Next]_vars
==============================================================================
