\* The mode changes, and the service is removed, at any time.
CONSTANTS
  Networks = {n1, n2}
  KnownAtStart = {n1, n2}
  Containers = {c1}
  Calls = {a1, a2}
  Vips = {v1, v2}
  IpamVip = ipam
  Preferred = FALSE
  Published = FALSE
  Kinds = {"mode", "removal"}
  Hasty = TRUE
  MaxChanges = 3
  MaxSubs = 2
  None = none
SPECIFICATION FairSpec
CHECK_DEADLOCK FALSE
PROPERTY LoadBalancerComes
