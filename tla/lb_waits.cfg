\* The message of service_lbs_management.go line 291.
CONSTANTS
  Networks = {n1, n2}
  KnownAtStart = {}
  Containers = {c1}
  Calls = {a1, a2}
  Vips = {v1, v2}
  IpamVip = ipam
  Preferred = FALSE
  Published = FALSE
  Kinds = {}
  Hasty = FALSE
  MaxChanges = 0
  MaxSubs = 2
  None = none
SPECIFICATION Spec
CHECK_DEADLOCK FALSE
INVARIANT WaitsForMissing
SYMMETRY Symmetry
