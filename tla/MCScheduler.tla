----------------------------- MODULE MCScheduler -----------------------------
(* Instances of Scheduler for TLC: one device of a few units, short tables. *)
EXTENDS Scheduler, TLC

CONSTANTS d1, h1, h2

Small(n) == [total |-> d1 :> n, reserved |-> d1 :> 0, committed |-> d1 :> 0,
             reservable |-> {d1}]
MCGrants == {Small(2)}
NativeGrants == {Small(4)}

W(n) == [targets |-> <<d1>>, bytes |-> n]
PairRequests == {<<W(1)>>, <<W(1), W(1)>>}
ZeroRequests == {<<W(1), W(0)>>}

MCNativeRequests == {[dev |-> d1, bytes |-> 1, host |-> 1]}
MCNativeUses ==
  {[mutDev |-> 1, mutHost |-> 1, retDev |-> 0, retHost |-> 1],
   [mutDev |-> 1, mutHost |-> 0, retDev |-> 1, retHost |-> 0]}

Ids(adm, op, native, gen) ==
  [adm |-> adm, op |-> op, permit |-> adm, load |-> native, use |-> native,
   result |-> native, generation |-> gen]
LegacyIds == Ids(5, 5, 1, 5)
NativeIds == Ids(4, 4, 4, 4)
DrainIds == Ids(3, 7, 3, 1)

Symmetry == Permutations(Handle)
==============================================================================
