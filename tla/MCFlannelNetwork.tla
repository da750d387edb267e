--------------------------- MODULE MCFlannelNetwork --------------------------
(***************************************************************************)
(* Instances of FlannelNetwork for TLC.                                    *)
(***************************************************************************)
EXTENDS FlannelNetwork, TLC

\* Everything fails that can.
AllFaults == {"etcd", "kernel", "docker", "timeout", "reboot", "stale", "twin"}
NoFaults == {}

\* Objects, interfaces, endpoints and VXLAN numbers differ in nothing but their name.
Symmetry == Permutations(Objects) \cup Permutations(Veths) \cup Permutations(Endpoints)
              \cup Permutations(VNIs)
=============================================================================
