\* Two nodes that crash and lose etcd's answers.
CONSTANTS
  Nodes = {n1, n2}
  PoolIDs = {f1, f2}
  NumSubnets = 3
  MaxChanges = 2
  Faults = {"crash", "etcd"}
  None = none
SPECIFICATION Spec
CHECK_DEADLOCK FALSE
INVARIANTS TypeOK LivePoolsReserved OneSubnetPerNetwork NoSubnetLost
PROPERTY LedgerImplemented
SYMMETRY Symmetry
