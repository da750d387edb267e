\* Two services compete for the marks of a network; everything fails that can.
CONSTANTS
  Services = {s1, s2}
  Networks = {n1}
  Marks = {m1, m2}
  Overlap = FALSE
  MaxTurns = 2
  Faults <- AllFaults
  None = none
SPECIFICATION FairSpec
CHECK_DEADLOCK FALSE
INVARIANTS TypeOK MarksRegistered ReleaseNotRefused TrafficStays
PROPERTY MutexReleased
