\* The promise of init_manager.go line 58.
CONSTANTS
  Networks = {n1, n2}
  MaxJoins = 1
  MaxCrashes = 0
  Faults <- AllFaults
  None = none
SPECIFICATION FairSpec
CHECK_DEADLOCK FALSE
PROPERTY CancelledWaitEnds
