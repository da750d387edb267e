\* The node of the swarm leader, with an etcd that loses answers.
CONSTANTS
  IPs = {ip1, ip2}
  Macs = {m1, m2}
  Services = {s1}
  None = none
  Elsewhere = elsewhere
  Ended = ended
  LeaderIPAM = TRUE
  Unreliable = TRUE
SPECIFICATION Spec
CHECK_DEADLOCK FALSE
INVARIANTS TypeOK MemoryPartition
PROPERTIES LedgerImplemented RestartKeepsOwners
SYMMETRY Symmetry
