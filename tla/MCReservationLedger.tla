------------------------ MODULE MCReservationLedger -------------------------
(* Instances of ReservationLedger for TLC: two devices, one of them able to *)
(* be offline, small capacities and workload lists that compete for them.   *)
EXTENDS ReservationLedger, TLC

CONSTANTS d1, d2, b1, b2, c1, c2

Only(x, y) == (d1 :> x) @@ (d2 :> y)

SmallGrants ==
  {[total |-> Only(3, 2), reserved |-> Only(0, 0),
    committed |-> Only(0, 0), reservable |-> {d1}],
   [total |-> Only(3, 3), reserved |-> Only(1, 0),
    committed |-> Only(0, 1), reservable |-> {d1, d2}]}

W(ts, n) == [targets |-> ts, bytes |-> n]
MCRequests ==
  {<<W(<<d1>>, 2)>>, <<W(<<d2, d1>>, 1), W(<<d1, d2>>, 2)>>, <<>>}

Symmetry == Permutations(Brand) \cup Permutations(Caller)
==============================================================================
