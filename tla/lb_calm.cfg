\* One change after the other; the system stops when they are used up.
CONSTANTS
  Networks = {n1, n2}
  KnownAtStart = {n1}
  Containers = {c1}
  Calls = {a1, a2}
  Vips = {v1, v2}
  IpamVip = ipam
  Preferred = FALSE
  Published = FALSE
  Kinds = {"mode", "networks", "removal", "deletion"}
  Hasty = FALSE
  MaxChanges = 4
  MaxSubs = 3
  None = none
SPECIFICATION Spec
CHECK_DEADLOCK FALSE
INVARIANTS TypeOK FrontendOwned VipsAgree
SYMMETRY Symmetry
PROPERTY FrontendStable
