------------------------ MODULE MCTeardownInventory ------------------------
(* Instance of TeardownInventory for TLC: sizes of which not all fit. *)
EXTENDS TeardownInventory, TLC

CONSTANTS b1, b2, b3

Sizes == b1 :> 1 @@ b2 :> 2 @@ b3 :> 2
==============================================================================
