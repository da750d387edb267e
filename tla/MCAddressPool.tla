--------------------------- MODULE MCAddressPool ----------------------------
(***************************************************************************)
(* Instances of AddressPool for TLC: fewer addresses than holders, so that *)
(* the pool runs out.  The MACs are interchangeable, and so are the        *)
(* addresses: every action treats them alike.                              *)
(***************************************************************************)
EXTENDS AddressPool, TLC

Symmetry == Permutations(Macs) \cup Permutations(IPs)
=============================================================================
