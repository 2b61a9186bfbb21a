CONSTANTS
  d1 = d1
  h1 = h1
  h2 = h2
  Device = {d1}
  Handle = {h1, h2}
  NoHandle = NoHandle
  NoPlan = NoPlan
  U64Max = 8
  Grants <- MCGrants
  Requests <- PairRequests
  NativeRequests <- MCNativeRequests
  NativeUseRequests <- MCNativeUses
  HostEnvelope = 3
  ExtendedOwners = TRUE
  MaxAdmissions = 2
  MaxPending = 1
  MaxUses = 1
  IdMax <- OrderIds
  LastFailingOp = 4
SPECIFICATION FairOrderSpec
CHECK_DEADLOCK FALSE
PROPERTIES
  RevokedGrantDrains
  ReservedLeaseReleases
  NobodyIsOvertakenTwice
