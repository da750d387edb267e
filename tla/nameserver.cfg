\* A container joins and leaves two networks; everything fails that can.
CONSTANTS
  Networks = {n1, n2}
  MaxJoins = 3
  MaxCrashes = 1
  Faults <- AllFaults
  None = none
SPECIFICATION Spec
SYMMETRY Symmetry
CHECK_DEADLOCK FALSE
INVARIANTS TypeOK ActiveMeansServed ValidFollowsJoined NoServerLeft
