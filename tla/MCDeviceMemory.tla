--------------------------- MODULE MCDeviceMemory ---------------------------
(* Instance of DeviceMemory for TLC: two buffers share a device. *)
EXTENDS DeviceMemory, TLC

CONSTANTS d1, d2, b1, b2, b3

Homes == b1 :> d1 @@ b2 :> d1 @@ b3 :> d2
==============================================================================
