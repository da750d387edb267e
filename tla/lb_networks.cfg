\* The service changes its networks, and networks come and go, at any time.
CONSTANTS
  Networks = {n1, n2}
  KnownAtStart = {n1}
  Containers = {c1}
  Calls = {a1, a2}
  Vips = {v1, v2}
  IpamVip = ipam
  Preferred = TRUE
  Published = TRUE
  Kinds = {"networks", "deletion"}
  Hasty = TRUE
  MaxChanges = 2
  MaxSubs = 2
  None = none
SPECIFICATION FairSpec
CHECK_DEADLOCK FALSE
PROPERTY EventsHandled
