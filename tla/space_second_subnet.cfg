\* The remark of address_space.go line 190, with an etcd that answers.
CONSTANTS
  Nodes = {n1, n2}
  PoolIDs = {f1, f2}
  NumSubnets = 3
  MaxChanges = 2
  Faults = {}
  None = none
SPECIFICATION Spec
CHECK_DEADLOCK FALSE
INVARIANT NoSecondSubnet
SYMMETRY Symmetry
