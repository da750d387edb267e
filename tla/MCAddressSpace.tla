--------------------------- MODULE MCAddressSpace ---------------------------
(***************************************************************************)
(* Instances of AddressSpace for TLC.  Nodes and networks are              *)
(* interchangeable; the subnets are ordered, and so are not.               *)
(***************************************************************************)
EXTENDS AddressSpace, TLC

Symmetry == Permutations(Nodes) \cup Permutations(PoolIDs)
=============================================================================
