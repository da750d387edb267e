\* A network and an endpoint come and go on a node; everything fails that can.
CONSTANTS
  Objects = {o1, o2}
  Endpoints = {e1}
  Veths = {v1}
  VNIs = {n1, n2}
  Overlap = FALSE
  MaxOutside = 3
  Faults <- AllFaults
  None = none
SPECIFICATION Spec
SYMMETRY Symmetry
CHECK_DEADLOCK FALSE
INVARIANTS TypeOK MapsAgree RegisteredWorks JoinedHasVeth VethsTracked GoneIsForgotten RemovedLeavesNothing
