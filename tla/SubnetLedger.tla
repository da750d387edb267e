---------------------------- MODULE SubnetLedger ----------------------------
(***************************************************************************)
(* What the address space promises the whole cluster: which network owns   *)
(* which subnet.  A subnet is only ever taken while it is free, and only   *)
(* given back after the network that owns it was deleted.  (A network may  *)
(* be created again under its ID: from its first deletion on, it may lose  *)
(* its subnet at any time.)  AddressSpace implements this.                 *)
(***************************************************************************)
CONSTANTS
  Subnets,
  PoolIDs,
  None

VARIABLES
  owner,   \* the network that owns a subnet
  deleted  \* the networks that were deleted before

vars == <<owner, deleted>>

Init ==
  /\ owner = [x \in Subnets |-> None]
  /\ deleted = {}

Take(x, id) ==
  /\ owner[x] = None
  /\ owner' = [owner EXCEPT ![x] = id]
  /\ UNCHANGED deleted

\* A network that was given several subnets gives them back one at a time.
GiveBack(x, id) ==
  /\ owner[x] = id
  /\ id \in deleted
  /\ owner' = [owner EXCEPT ![x] = None]
  /\ UNCHANGED deleted

Delete(id) ==
  /\ deleted' = deleted \cup {id}
  /\ UNCHANGED owner

Next ==
  \/ \E x \in Subnets, id \in PoolIDs : Take(x, id) \/ GiveBack(x, id)
  \/ \E id \in PoolIDs : Delete(id)

Spec == Init /\ [][Next]_vars
=============================================================================
