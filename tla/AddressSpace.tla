---------------------------- MODULE AddressSpace ----------------------------
(***************************************************************************)
(* The global address space (pkg/ipam/address_space.go and                 *)
(* address_space_etcd.go): every node hands each flannel network a subnet  *)
(* of the complete space.  The nodes agree through one etcd key per subnet *)
(* and keep two copies of it: pools, which only they know to be right or   *)
(* stale, and unusedSubnets, the list they offer subnets from.             *)
(*                                                                         *)
(* Three things race: the requests of a node (RequestPool and the network  *)
(* events, serialised by the node's lock), the transactions of the other   *)
(* nodes, and the watch that tells a node of them, some time later.  The   *)
(* watch starts after the first load, so that it misses what happens in    *)
(* between.  It reports a deletion without a value, which the handler      *)
(* looks up as the pool "": deletions change nothing, and are left out.    *)
(*                                                                         *)
(* Docker is external: it creates and deletes networks, asks nodes for     *)
(* their pools, and lets every node know of each change, in order.         *)
(***************************************************************************)
EXTENDS Naturals, Sequences

CONSTANTS
  Nodes,
  PoolIDs,     \* flannel network IDs
  NumSubnets,  \* how many subnets the complete space has
  MaxChanges,  \* bound: how often a network is created or deleted
  Faults,      \* what can go wrong: a subset of {"crash", "etcd"}
  None

Subnets == 1 .. NumSubnets
Mapping == [PoolIDs -> Subnets \cup {None}]
NoPools == [id \in PoolIDs |-> None]

ASSUME SpaceAssumption ==
  /\ NumSubnets \in Nat
  /\ MaxChanges \in Nat
  /\ Faults \subseteq {"crash", "etcd"}
  /\ None \notin PoolIDs \cup Subnets
  /\ None \notin [id : PoolIDs, found : Mapping]

VARIABLES
  reservedFor,    \* etcd: address-space/<subnet>, the pool it is reserved for
  changes,        \* Docker: how often a network was created or deleted so far
  handled,        \* how many of these changes a node's event handlers have seen
  status,         \* a node's process: "down", "loaded" (no watch yet) or "up"
  pools,          \* a node's pools
  unusedSubnets,  \* a node's list; None where a subnet was taken off it
  op,             \* the getOrAddPool in progress; it holds the node's lock
  watch           \* reservations the node's watch has still to deliver

docker == <<changes, handled>>
vars == <<reservedFor, docker, status, pools, unusedSubnets, op, watch>>

TypeOK ==
  /\ reservedFor \in [Subnets -> PoolIDs \cup {None}]
  /\ changes \in [PoolIDs -> Nat]
  /\ handled \in [Nodes -> [PoolIDs -> Nat]]
  /\ status \in [Nodes -> {"down", "loaded", "up"}]
  /\ pools \in [Nodes -> Mapping]
  /\ unusedSubnets \in [Nodes -> Seq(Subnets \cup {None})]
  /\ op \in [Nodes -> [id : PoolIDs, found : Mapping] \cup {None}]
  /\ watch \in [Nodes -> Seq([subnet : Subnets, id : PoolIDs])]

-----------------------------------------------------------------------------
(* The list of unused subnets.                                             *)

Offered(n) == {unusedSubnets[n][i] : i \in DOMAIN unusedSubnets[n]} \ {None}

\* Mutation: any of the subnets is tried, as allocateFreeIP does with addresses.
IsAny(n, i) ==
  /\ i \in DOMAIN unusedSubnets[n]
  /\ unusedSubnets[n][i] # None

\* Where the next subnet to try stands.
IsFirst(n, i) ==
  /\ i \in DOMAIN unusedSubnets[n]
  /\ unusedSubnets[n][i] # None
  /\ \A j \in DOMAIN unusedSubnets[n] : j < i => unusedSubnets[n][j] = None

\* lo.Filter takes every occurrence off the list.
Without(list, x) ==
  [i \in DOMAIN list |-> IF list[i] = x THEN None ELSE list[i]]

-----------------------------------------------------------------------------
(* Docker.                                                                 *)

Exists(id) == changes[id] % 2 = 1

NetworkCreatedOrDeleted(id) ==
  /\ changes[id] < MaxChanges
  /\ changes' = [changes EXCEPT ![id] = @ + 1]
  /\ UNCHANGED <<reservedFor, handled, status, pools, unusedSubnets, op, watch>>

-----------------------------------------------------------------------------
(* GetNewOrExistingPool.                                                   *)

Idle(n) == status[n] = "up" /\ op[n] = None

\* getOrAddPool finds the pool, or starts to look for a subnet.
GetNewOrExistingPool(n, id) ==
  /\ op' = IF pools[n][id] = None
           THEN [op EXCEPT ![n] = [id |-> id, found |-> NoPools]]
           ELSE op
  /\ UNCHANGED <<reservedFor, changes, status, pools, unusedSubnets, watch>>

\* Docker's IPAM request for a network.
RequestPool(n, id) ==
  /\ Idle(n)
  /\ Exists(id)
  /\ GetNewOrExistingPool(n, id)
  /\ UNCHANGED handled

HasNews(n, id) == handled[n][id] < changes[id]
Handle(n, id) == handled' = [handled EXCEPT ![n][id] = @ + 1]

\* handleNetworksAdded.
NetworkAdded(n, id) ==
  /\ Idle(n)
  /\ HasNews(n, id) /\ handled[n][id] % 2 = 0
  /\ Handle(n, id)
  /\ GetNewOrExistingPool(n, id)

\* Mutation: the reservations of other pools are not remembered.
FinishForgetting(n, found, mine) ==
  /\ pools' = [pools EXCEPT ![n][op[n].id] = IF mine # None THEN mine ELSE @]
  /\ op' = [op EXCEPT ![n] = None]

\* The end of getOrAddPool: the reservations of other pools it ran into are
\* remembered, whether it succeeded or not.
Finish(n, found, mine) ==
  /\ pools' = [pools EXCEPT ![n] = [id \in PoolIDs |->
                 IF found[id] # None THEN found[id]
                 ELSE IF id = op[n].id /\ mine # None THEN mine ELSE @[id]]]
  /\ op' = [op EXCEPT ![n] = None]

\* Every node whose watch has started will hear of the reservation.
Announce(x, id) ==
  watch' = [m \in Nodes |-> IF status[m] = "up"
                            THEN Append(watch[m], [subnet |-> x, id |-> id])
                            ELSE watch[m]]

TakeOff(n, i) == unusedSubnets' = [unusedSubnets EXCEPT ![n][i] = None]

\* The transaction of reservePoolSubnet puts the key.
ReserveNew(n, i) ==
  LET x == unusedSubnets[n][i] IN
  /\ reservedFor[x] = None
  /\ reservedFor' = [reservedFor EXCEPT ![x] = op[n].id]
  /\ Announce(x, op[n].id)
  /\ TakeOff(n, i)
  /\ Finish(n, op[n].found, x)

\* It finds its own ID: another node was faster, for the same network.
ReserveExisting(n, i) ==
  LET x == unusedSubnets[n][i] IN
  /\ reservedFor[x] = op[n].id
  /\ TakeOff(n, i)
  /\ Finish(n, op[n].found, x)
  /\ UNCHANGED <<reservedFor, watch>>

\* The subnet belongs to another pool; the loop goes on with the next one.
TryNext(n, i) ==
  LET x == unusedSubnets[n][i] IN
  /\ reservedFor[x] \notin {None, op[n].id}
  /\ TakeOff(n, i)
  /\ op' = [op EXCEPT ![n].found[reservedFor[x]] = x]
  /\ UNCHANGED <<reservedFor, pools, watch>>

\* Mutation: the pool counts as reserved although the transaction failed.
ReserveRegardless(n, i) ==
  /\ "etcd" \in Faults
  /\ Finish(n, op[n].found, unusedSubnets[n][i])
  /\ UNCHANGED <<reservedFor, watch, unusedSubnets>>

\* The transaction fails, or its answer is lost after it was executed.
ReserveError(n, i) ==
  LET x == unusedSubnets[n][i] IN
  /\ "etcd" \in Faults
  /\ \/ UNCHANGED <<reservedFor, watch>>
     \/ /\ reservedFor[x] = None
        /\ reservedFor' = [reservedFor EXCEPT ![x] = op[n].id]
        /\ Announce(x, op[n].id)
  /\ Finish(n, op[n].found, None)
  /\ UNCHANGED unusedSubnets

\* "there are no unused subnets left"
Exhausted(n) ==
  /\ Offered(n) = {}
  /\ Finish(n, op[n].found, None)
  /\ UNCHANGED <<reservedFor, unusedSubnets, watch>>

\* One turn of getOrAddPool's loop.
Turn(n) ==
  /\ op[n] # None
  /\ \/ \E i \in DOMAIN unusedSubnets[n] :
          /\ IsFirst(n, i)
          /\ \/ ReserveNew(n, i)
             \/ ReserveExisting(n, i)
             \/ TryNext(n, i)
             \/ ReserveError(n, i)
     \/ Exhausted(n)
  /\ UNCHANGED <<docker, status>>

-----------------------------------------------------------------------------
(* ReleasePool, called by handleNetworksRemoved.                           *)

PutBack(n, x) == unusedSubnets' = [unusedSubnets EXCEPT ![n] = Append(@, x)]
Forget(n, id) == pools' = [pools EXCEPT ![n][id] = None]

\* Mutation: the pool's ID is put on the list, not its subnet.
ReleaseIntoList(n, id) ==
  LET x == pools[n][id] IN
  /\ reservedFor[x] \in {id, None}
  /\ reservedFor' = [reservedFor EXCEPT ![x] = None]
  /\ Forget(n, id)
  /\ PutBack(n, id)

\* Mutation: releasePoolSubnet deletes the key whoever it belongs to.
ReleaseOfAnyone(n, id) ==
  LET x == pools[n][id] IN
  /\ reservedFor' = [reservedFor EXCEPT ![x] = None]
  /\ Forget(n, id)
  /\ PutBack(n, x)

\* The transaction of releasePoolSubnet deletes the key, or there is none.
ReleaseOwn(n, id) ==
  LET x == pools[n][id] IN
  /\ reservedFor[x] \in {id, None}
  /\ reservedFor' = [reservedFor EXCEPT ![x] = None]
  /\ Forget(n, id)
  /\ PutBack(n, x)

\* Another pool has got the subnet: it is remembered as that one's.
ReleaseOthers(n, id) ==
  LET x == pools[n][id] IN
  /\ reservedFor[x] \notin {id, None}
  /\ pools' = [pools EXCEPT ![n][id] = None, ![n][reservedFor[x]] = x]
  /\ UNCHANGED <<reservedFor, unusedSubnets>>

\* The transaction fails, or its answer is lost after it was executed; the pool
\* is forgotten all the same.
ReleaseError(n, id) ==
  LET x == pools[n][id] IN
  /\ "etcd" \in Faults
  /\ \/ UNCHANGED reservedFor
     \/ /\ reservedFor[x] = id
        /\ reservedFor' = [reservedFor EXCEPT ![x] = None]
  /\ Forget(n, id)
  /\ UNCHANGED unusedSubnets

\* handleNetworksRemoved.
NetworkRemoved(n, id) ==
  /\ Idle(n)
  /\ HasNews(n, id) /\ handled[n][id] % 2 = 1
  /\ Handle(n, id)
  /\ IF pools[n][id] = None
     THEN UNCHANGED <<reservedFor, pools, unusedSubnets>>
     ELSE ReleaseOwn(n, id) \/ ReleaseOthers(n, id) \/ ReleaseError(n, id)
  /\ UNCHANGED <<changes, status, op, watch>>

-----------------------------------------------------------------------------
(* The watch.                                                              *)

\* The PUT branch of subnetUsageChangeHandler: a pool the node knows keeps its
\* subnet.
SubnetUsageChanged(n) ==
  /\ Idle(n)
  /\ watch[n] # <<>>
  /\ LET e == Head(watch[n]) IN
     IF pools[n][e.id] = None
     THEN /\ pools' = [pools EXCEPT ![n][e.id] = e.subnet]
          /\ unusedSubnets' = [unusedSubnets EXCEPT ![n] = Without(@, e.subnet)]
     ELSE UNCHANGED <<pools, unusedSubnets>>
  /\ watch' = [watch EXCEPT ![n] = Tail(@)]
  /\ UNCHANGED <<reservedFor, docker, status, op>>

-----------------------------------------------------------------------------
(* The process of a node.                                                  *)

Fresh(known) ==
  [x \in Subnets |-> IF \E id \in PoolIDs : known[id] = x THEN None ELSE x]

\* getUsedSubnets; where a pool has several subnets, the last one read counts.
Load(n) ==
  /\ status[n] = "down"
  /\ \E known \in Mapping :
       /\ \A id \in PoolIDs :
            IF \E x \in Subnets : reservedFor[x] = id
            THEN known[id] # None /\ reservedFor[known[id]] = id
            ELSE known[id] = None
       /\ pools' = [pools EXCEPT ![n] = known]
       /\ unusedSubnets' = [unusedSubnets EXCEPT ![n] = Fresh(known)]
  /\ status' = [status EXCEPT ![n] = "loaded"]
  /\ UNCHANGED <<reservedFor, docker, op, watch>>

\* From here on, etcd's reservations and Docker's events are delivered.  Docker's
\* networks are loaded; those that exist are still to be handled.
StartWatch(n) ==
  /\ status[n] = "loaded"
  /\ status' = [status EXCEPT ![n] = "up"]
  /\ handled' = [handled EXCEPT ![n] = [id \in PoolIDs |->
                   IF Exists(id) THEN changes[id] - 1 ELSE changes[id]]]
  /\ UNCHANGED <<reservedFor, changes, pools, unusedSubnets, op, watch>>

Crash(n) ==
  /\ "crash" \in Faults
  /\ status[n] # "down"
  /\ status' = [status EXCEPT ![n] = "down"]
  /\ pools' = [pools EXCEPT ![n] = NoPools]
  /\ unusedSubnets' = [unusedSubnets EXCEPT ![n] = <<>>]
  /\ op' = [op EXCEPT ![n] = None]
  /\ watch' = [watch EXCEPT ![n] = <<>>]
  /\ UNCHANGED <<reservedFor, docker>>

-----------------------------------------------------------------------------
Init ==
  /\ reservedFor = [x \in Subnets |-> None]
  /\ changes = [id \in PoolIDs |-> 0]
  /\ handled = [n \in Nodes |-> [id \in PoolIDs |-> 0]]
  /\ status = [n \in Nodes |-> "down"]
  /\ pools = [n \in Nodes |-> NoPools]
  /\ unusedSubnets = [n \in Nodes |-> <<>>]
  /\ op = [n \in Nodes |-> None]
  /\ watch = [n \in Nodes |-> <<>>]

Next ==
  \/ \E id \in PoolIDs : NetworkCreatedOrDeleted(id)
  \/ \E n \in Nodes, id \in PoolIDs :
       \/ RequestPool(n, id)
       \/ NetworkAdded(n, id)
       \/ NetworkRemoved(n, id)
  \/ \E n \in Nodes :
       \/ Turn(n)
       \/ SubnetUsageChanged(n)
       \/ Load(n)
       \/ StartWatch(n)
       \/ Crash(n)

Spec == Init /\ [][Next]_vars

\* getOrAddPool goes on once it has started.
FairSpec == Spec /\ \A n \in Nodes : WF_vars(Turn(n))

-----------------------------------------------------------------------------
(* Properties.                                                             *)

\* The network has not been deleted so far.
FirstLife(id) == changes[id] <= 1

NothingDeleted == \A id \in PoolIDs : FirstLife(id)

EverDeleted == {id \in PoolIDs : ~FirstLife(id)}

Ledger == INSTANCE SubnetLedger WITH owner <- reservedFor, deleted <- EverDeleted

\* etcd's reservations follow the ledger: no request, release, crash or lost
\* answer of a node takes a subnet from a network that was never deleted.
LedgerImplemented == Ledger!Spec

\* A pool a node knows, of a network that was never deleted, is the one that is
\* reserved for it: no two such networks share a subnet, on any two nodes.
LivePoolsReserved ==
  \A n \in Nodes, id \in PoolIDs :
    FirstLife(id) /\ pools[n][id] # None => reservedFor[pools[n][id]] = id

\* Until a first network is deleted, the nodes' requests for one network meet at
\* one subnet, even where the watch missed the reservation.
OneSubnetPerNetwork ==
  NothingDeleted =>
    \A x, y \in Subnets :
      reservedFor[x] = reservedFor[y] /\ reservedFor[x] # None => x = y

\* Until then, a subnet that a node no longer offers is one it knows the network
\* of: a request that fails or runs into others' reservations loses none.
NoSubnetLost ==
  NothingDeleted =>
    \A n \in Nodes, x \in Subnets :
      status[n] # "down" =>
        \/ x \in Offered(n)
        \/ \E id \in PoolIDs : \/ pools[n][id] = x
                               \/ op[n] # None /\ op[n].found[id] = x

\* "It was '%s' so far. This shouldn't happen." (address_space.go:190): the watch
\* reports no other subnet for a pool the node knows.
NoSecondSubnet ==
  \A n \in Nodes :
    Idle(n) /\ watch[n] # <<>> =>
      pools[n][Head(watch[n]).id] \in {None, Head(watch[n]).subnet}

\* getOrAddPool, which holds the lock of the address space, comes to an end.
PoolRequestEnds == \A n \in Nodes : op[n] # None ~> op[n] = None
=============================================================================
