CONSTANTS
  d1 = d1
  h1 = h1
  h2 = h2
  Device = {d1}
  Handle = {h1, h2}
  NoHandle = NoHandle
  NoPlan = NoPlan
  U64Max = 7
  Grants <- NativeGrants
  Requests = {}
  NativeRequests <- MCNativeRequests
  NativeUseRequests <- MCNativeUses
  HostEnvelope = 3
  ExtendedOwners = TRUE
  MaxAdmissions = 2
  MaxPending = 2
  MaxUses = 2
  IdMax <- NativeIds
  LastFailingOp = 3
SPECIFICATION Spec
SYMMETRY Symmetry
CHECK_DEADLOCK FALSE
INVARIANTS
  TypeOK
  LeasesHaveOneOwner
  HostBytesMatchOwners
PROPERTIES
  KeepsCustody
