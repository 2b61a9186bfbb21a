CONSTANTS
  d1 = d1
  d2 = d2
  b1 = b1
  b2 = b2
  c1 = c1
  c2 = c2
  Device = {d1, d2}
  Brand = {b1, b2}
  Caller = {c1, c2}
  NoPlan = NoPlan
  U64Max = 3
  Extents = {2}
  Grants <- SmallGrants
  Requests <- MCRequests
SPECIFICATION Spec
SYMMETRY Symmetry
CHECK_DEADLOCK FALSE
INVARIANTS
  Conservation
  WithinCapacity
  CurrentPlanStillFits
  HeldLeasesAreActive
  LeasesOnUsableDevices
  ActiveLeasesReleasable
