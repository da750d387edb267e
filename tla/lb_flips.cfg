\* Four changes of the mode at any time, three calls; TLC refutes FrontendStable.
CONSTANTS
  Networks = {n1}
  KnownAtStart = {n1}
  Containers = {}
  Calls = {a1, a2, a3}
  Vips = {v1, v2, v3}
  IpamVip = ipam
  Preferred = FALSE
  Published = FALSE
  Kinds = {"mode"}
  Hasty = TRUE
  MaxChanges = 4
  MaxSubs = 2
  None = none
SPECIFICATION Spec
CHECK_DEADLOCK FALSE
PROPERTY FrontendStable
