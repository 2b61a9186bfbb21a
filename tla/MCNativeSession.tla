-------------------------- MODULE MCNativeSession --------------------------
(* Instances of NativeSession for TLC. *)
EXTENDS NativeSession

CONSTANTS t1, t2

Hybrid == <<"recurrent", "full", "full", "recurrent">>
==============================================================================
