--------------------------- MODULE MCNativePagedKv ---------------------------
(* NativePagedKv for TLC: pages of two rows and a context of two pages, so  *)
(* that an append copies a tail, opens a page, or does both.                *)
EXTENDS NativePagedKv, TLC

CONSTANTS x1, x2, r1, r2
==============================================================================
