--------------------------- MODULE MCEvictionOrder ---------------------------
(* EvictionOrder on the instances of MCScheduler, with enough operations    *)
(* that each of two residents fails its eviction repeatedly.                *)
EXTENDS EvictionOrder, MCScheduler

OrderIds == Ids(3, 8, 3, 1)
==============================================================================
