------------------------------ MODULE MCPagedKv ------------------------------
(* PagedKv for TLC: pages of two rows, so that an append starts, ends and   *)
(* passes through the middle of a page.                                     *)
EXTENDS PagedKv, TLC

CONSTANTS x1, x2, r1, r2
==============================================================================
