CONSTANTS
  d1 = d1
  h1 = h1
  h2 = h2
  Device = {d1}
  Handle = {h1, h2}
  NoHandle = NoHandle
  NoPlan = NoPlan
  U64Max = 4
  Grants <- MCGrants
  Requests <- PairRequests
  NativeRequests = {}
  NativeUseRequests = {}
  HostEnvelope = 0
  ExtendedOwners = FALSE
  MaxAdmissions = 2
  MaxPending = 2
  MaxUses = 2
  IdMax <- LegacyIds
  LastFailingOp = 5
SPECIFICATION Spec
SYMMETRY Symmetry
CHECK_DEADLOCK FALSE
INVARIANTS
  UsesMatchPermits
  PendingMatchesState
  AdmissionsFollowTheGrant
PROPERTIES
  NoReturnToService
  KeepsCustody
