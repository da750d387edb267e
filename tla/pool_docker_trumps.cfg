\* The claim of README.md line 132 on the leader's node.
CONSTANTS
  IPs = {ip1, ip2}
  Macs = {m1, m2}
  Services = {s1}
  None = none
  Elsewhere = elsewhere
  Ended = ended
  LeaderIPAM = TRUE
  Unreliable = FALSE
SPECIFICATION Spec
CHECK_DEADLOCK FALSE
INVARIANT LiveAddressOwned
SYMMETRY Symmetry
