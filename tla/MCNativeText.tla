---------------------------- MODULE MCNativeText ----------------------------
(* Instance of NativeText for TLC: uses and buffers are interchangeable. *)
EXTENDS NativeText, TLC

Interchangeable == Permutations(Use) \cup Permutations(Buffer)
==============================================================================
