\* The claim of README.md line 139, with two threads and nothing that fails.
CONSTANTS
  Objects = {o1, o2}
  Endpoints = {e1}
  Veths = {v1}
  VNIs = {n1}
  Overlap = TRUE
  MaxOutside = 1
  Faults <- NoFaults
  None = none
SPECIFICATION Spec
SYMMETRY Symmetry
CHECK_DEADLOCK FALSE
INVARIANT OneFlanneld
