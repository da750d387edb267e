\* The leader's node while etcd answers every call.
CONSTANTS
  IPs = {ip1, ip2}
  Macs = {m1, m2}
  Services = {s1}
  None = none
  Elsewhere = elsewhere
  Ended = ended
  LeaderIPAM = TRUE
  Unreliable = FALSE
SPECIFICATION FairSpec
CHECK_DEADLOCK FALSE
INVARIANT MemoryFollowsEtcd
PROPERTY AllocationEnds
