\* Two nodes that can crash, an etcd that answers: does the search end?
CONSTANTS
  Nodes = {n1, n2}
  PoolIDs = {f1, f2}
  NumSubnets = 3
  MaxChanges = 1
  Faults = {"crash"}
  None = none
SPECIFICATION FairSpec
CHECK_DEADLOCK FALSE
PROPERTY PoolRequestEnds
