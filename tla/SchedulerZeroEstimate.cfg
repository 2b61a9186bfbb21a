CONSTANTS
  d1 = d1
  h1 = h1
  h2 = h2
  Device = {d1}
  Handle = {h1, h2}
  NoHandle = NoHandle
  NoPlan = NoPlan
  U64Max = 8
  Grants <- MCGrants
  Requests <- ZeroRequests
  NativeRequests = {}
  NativeUseRequests = {}
  HostEnvelope = 3
  ExtendedOwners = TRUE
  MaxAdmissions = 2
  MaxPending = 1
  MaxUses = 1
  IdMax <- DrainIds
  LastFailingOp = 2
SPECIFICATION FairSpec
CHECK_DEADLOCK FALSE
PROPERTIES
  ReservedLeaseReleases
