\* A container in two networks, watched by another node; everything fails that can.
CONSTANTS
  Owner = owner
  Readers = {reader}
  Containers = {c1}
  Networks = {n1, n2}
  Ips = {i1, i2}
  MaxChanges = 3
  MaxCrashes = 1
  Faults <- AllFaults
  None = none
SPECIFICATION FairSpec
CHECK_DEADLOCK FALSE
INVARIANTS TypeOK MemoryFollowsDocker NamesResolve EtcdFollowsMemory ReadersKnowNames
PROPERTY StoppedIsForgotten
