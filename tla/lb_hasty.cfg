\* lb_calm with Docker's changes at any time; TLC refutes each invariant on its own.
CONSTANTS
  Networks = {n1, n2}
  KnownAtStart = {n1}
  Containers = {c1}
  Calls = {a1, a2}
  Vips = {v1, v2}
  IpamVip = ipam
  Preferred = FALSE
  Published = FALSE
  Kinds = {"mode", "networks", "removal", "deletion"}
  Hasty = TRUE
  MaxChanges = 4
  MaxSubs = 3
  None = none
SPECIFICATION Spec
CHECK_DEADLOCK FALSE
INVARIANTS FrontendOwned VipsAgree OnlyForVip NetworksKnown
SYMMETRY Symmetry
