\* The remark of flannel_driver.go line 504.
CONSTANTS
  Networks = {n1, n2}
  KnownAtStart = {n1, n2}
  Containers = {c1}
  Calls = {a1, a2}
  Vips = {v1, v2}
  IpamVip = ipam
  Preferred = FALSE
  Published = FALSE
  Kinds = {"removal"}
  Hasty = FALSE
  MaxChanges = 1
  MaxSubs = 2
  None = none
SPECIFICATION Spec
CHECK_DEADLOCK FALSE
INVARIANT NoEventWhileDeleted
SYMMETRY Symmetry
