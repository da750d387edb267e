\* A node whose pool the swarm allocator does not use, while etcd answers every call.
CONSTANTS
  IPs = {ip1, ip2, ip3}
  Macs = {m1, m2, m3}
  Services = {s1}
  None = none
  Elsewhere = elsewhere
  Ended = ended
  LeaderIPAM = FALSE
  Unreliable = FALSE
SPECIFICATION FairSpec
CHECK_DEADLOCK FALSE
INVARIANTS LiveAddressOwned MemoryFollowsEtcd
PROPERTY AllocationEnds
