---------------------------- MODULE AddressPool -----------------------------
(***************************************************************************)
(* The address pool of one flannel network on one node (pkg/ipam/pool.go   *)
(* and pool_etcd.go), together with the calls that reach it: Docker's IPAM *)
(* requests (pkg/driver/ipam.go), the container events, the load balancers *)
(* and the clean-up when the plugin starts (flannel_network/network.go).   *)
(*                                                                         *)
(* A pool keeps its allocations twice: in etcd, as a key per address with  *)
(* a mac or a service-id key below it, and in memory, as allocatedIPs and  *)
(* unusedIPs.  The watch that should keep the memory up to date is dead:   *)
(* WithConnection closes its connection as soon as Watch has returned      *)
(* (pool.go:329, etcd/connection.go:51).  So memory follows etcd only      *)
(* through the answers to the pool's own transactions.                     *)
(*                                                                         *)
(* Docker is external: a holder (a task's container or a service) gets an  *)
(* IPAM address when the swarm leader asks its local plugin for one, is    *)
(* then placed on some node, where that node's plugin is asked for the     *)
(* address the holder will really use, and in the end both addresses are   *)
(* given back, each to the plugin it came from.                            *)
(***************************************************************************)
EXTENDS Naturals, FiniteSets

CONSTANTS
  IPs,         \* the pool's addresses (allIPs)
  Macs,        \* containers, identified by the MAC of their endpoint
  Services,    \* docker swarm services with endpoint mode vip
  None,        \* no key, no allocation, no address
  Elsewhere,   \* an address outside this pool: another node's subnet
  Ended,       \* the task has run; its IPAM address is still to be given back
  LeaderIPAM,  \* whether the swarm allocator uses this node's plugin
  Unreliable   \* whether an etcd call can fail or its answer get lost

Holders == Macs \cup Services
Types == {"reserved", "container-ip", "service-vip"}
Allocations == [type : Types, data : Holders \cup {None}]
Requests ==
  [op : {"reserved"}, holder : Holders]
    \cup [op : {"container-ip"}, holder : Macs]
    \cup [op : {"service-vip"}, holder : Services]

ASSUME PoolAssumption ==
  /\ Macs \cap Services = {}
  /\ None \notin IPs \cup Holders \cup Types
  /\ None \notin Allocations \cup Requests
  /\ Elsewhere \notin IPs \cup {None, Ended}
  /\ Ended \notin IPs \cup {None}
  /\ Types \cap Holders = {}
  /\ LeaderIPAM \in BOOLEAN
  /\ Unreliable \in BOOLEAN

VARIABLES
  key,           \* etcd: allocated-ips/<ip>, the allocation's type
  macKey,        \* etcd: allocated-ips/<ip>/mac
  serviceIDKey,  \* etcd: allocated-ips/<ip>/service-id
  up,            \* whether the plugin runs
  allocatedIPs,  \* memory: the allocations the pool knows
  unusedIPs,     \* memory: the addresses it may hand out, and for how long
  request,       \* the allocateFreeIP loop in progress; it holds the pool's lock
  ipam,          \* Docker: the address of this pool set aside for a holder
  actual,        \* Docker: the address a holder runs with
  announced      \* IPAM addresses the container events still have to release

etcd == <<key, macKey, serviceIDKey>>
memory == <<allocatedIPs, unusedIPs>>
docker == <<ipam, actual, announced>>
vars == <<etcd, up, memory, request, docker>>

TypeOK ==
  /\ key \in [IPs -> Types \cup {None}]
  /\ macKey \in [IPs -> Macs \cup {None}]
  /\ serviceIDKey \in [IPs -> Services \cup {None}]
  /\ up \in BOOLEAN
  /\ allocatedIPs \in [IPs -> Allocations \cup {None}]
  /\ unusedIPs \in [IPs -> {"no", "cooling", "cooled"}]
  /\ request \in Requests \cup {None}
  /\ ipam \in [Holders -> IPs \cup {None}]
  /\ actual \in [Holders -> IPs \cup {None, Elsewhere, Ended}]
  /\ announced \in SUBSET IPs

-----------------------------------------------------------------------------
(* etcd's contents and the transactions on them.                           *)

\* getAllocationsByPrefix: an address's keys, put together.
Stored(ip) ==
  IF key[ip] = None
  THEN None
  ELSE [type |-> key[ip],
        data |-> IF serviceIDKey[ip] # None THEN serviceIDKey[ip] ELSE macKey[ip]]

CanReserve(ip) == key[ip] = None

\* Mutation: the MAC is not compared when the address is a container's.
CanAllocateContainerAnyMac(ip, mac) ==
  \/ key[ip] = "reserved" /\ macKey[ip] = None
  \/ key[ip] = None
  \/ key[ip] = "container-ip"

\* allocateIPForContainer: the four conditions, each tried in a transaction.
CanAllocateContainer(ip, mac) ==
  \/ key[ip] = "reserved" /\ macKey[ip] = None
  \/ key[ip] = None
  \/ key[ip] = "reserved" /\ macKey[ip] = mac
  \/ key[ip] = "container-ip" /\ macKey[ip] = mac

\* allocateIPForService.
CanAllocateService(ip, service) ==
  \/ key[ip] = "reserved" /\ serviceIDKey[ip] = None
  \/ key[ip] = "service-vip" /\ serviceIDKey[ip] = service
  \/ key[ip] = None

\* allocateIPByCondition's conditions, by the kind of request.
CanAllocate(r, ip) ==
  \/ r.op = "reserved" /\ CanReserve(ip)
  \/ r.op = "container-ip" /\ CanAllocateContainer(ip, r.holder)
  \/ r.op = "service-vip" /\ CanAllocateService(ip, r.holder)

\* Mutations: the allocation is remembered without its data, or with the
\* arguments of allocateIPByCondition swapped.
NoData(r) == None
SwappedData(r) == r.op

Data(r) == IF r.op = "reserved" THEN None ELSE r.holder

\* allocateIPByCondition's puts.
PutAllocation(r, ip) ==
  /\ key' = [key EXCEPT ![ip] = r.op]
  /\ macKey' = IF r.op = "container-ip" THEN [macKey EXCEPT ![ip] = r.holder] ELSE macKey
  /\ serviceIDKey' =
       IF r.op = "service-vip" THEN [serviceIDKey EXCEPT ![ip] = r.holder] ELSE serviceIDKey

\* The deletes of releaseAllocation and of deleteAllAllocations.
DeleteAllocations(ips) ==
  /\ key' = [ip \in IPs |-> IF ip \in ips THEN None ELSE key[ip]]
  /\ macKey' = [ip \in IPs |-> IF ip \in ips THEN None ELSE macKey[ip]]
  /\ serviceIDKey' = [ip \in IPs |-> IF ip \in ips THEN None ELSE serviceIDKey[ip]]

\* releaseAllocation's condition: etcd still holds the allocation a of memory.
CanRelease(ip, a) ==
  /\ key[ip] = a.type
  /\ IF a.data = None
     THEN macKey[ip] = None /\ serviceIDKey[ip] = None
     ELSE a.data = IF a.data \in Macs THEN macKey[ip] ELSE serviceIDKey[ip]

-----------------------------------------------------------------------------
(* The pool's memory.                                                      *)

Unused == {ip \in IPs : unusedIPs[ip] # "no"}
Cooled == {ip \in IPs : unusedIPs[ip] = "cooled"}

\* getAvailableUnusedIPs: addresses unused for five minutes, or else any.
AvailableUnusedIPs == IF Cooled # {} THEN Cooled ELSE Unused

\* Mutation: the address stays on offer.
RecordKeepingOffer(r, ip) ==
  /\ allocatedIPs' = [allocatedIPs EXCEPT ![ip] = [type |-> r.op, data |-> Data(r)]]
  /\ UNCHANGED unusedIPs

\* The allocation is known and its address no longer on offer.
Record(r, ip) ==
  /\ allocatedIPs' = [allocatedIPs EXCEPT ![ip] = [type |-> r.op, data |-> Data(r)]]
  /\ unusedIPs' = [unusedIPs EXCEPT ![ip] = "no"]

\* syncIPs: memory becomes what etcd holds.
SyncIPs ==
  /\ allocatedIPs' = [ip \in IPs |-> Stored(ip)]
  /\ unusedIPs' = [ip \in IPs |-> IF key[ip] = None THEN "cooling" ELSE "no"]

\* What the caller does with the address it is given.
Grant(r, ip) ==
  IF r.op = "reserved"
  THEN /\ ipam' = [ipam EXCEPT ![r.holder] = ip]
       /\ UNCHANGED <<actual, announced>>
  ELSE /\ actual' = [actual EXCEPT ![r.holder] = ip]
       /\ announced' = IF r.op = "container-ip" /\ ipam[r.holder] \notin {None, ip}
                       THEN announced \cup {ipam[r.holder]}
                       ELSE announced
       /\ UNCHANGED ipam

-----------------------------------------------------------------------------
(* Allocations.                                                            *)

Ready == up /\ request = None

\* RequestAddress without an address, and AllocateContainerIP and
\* AllocateServiceVIP with an address outside the subnet: straight to the loop.
StartLoop(r) ==
  /\ Ready
  /\ request' = r
  /\ UNCHANGED <<etcd, up, memory, docker>>

\* The swarm allocator asks for an address for a new task or service.
RequestIpamAddress(h) ==
  /\ LeaderIPAM
  /\ ipam[h] = None /\ actual[h] = None
  /\ StartLoop([op |-> "reserved", holder |-> h])

HolderRequest(h) ==
  [op |-> IF h \in Macs THEN "container-ip" ELSE "service-vip", holder |-> h]

\* The holder is placed here, with an IPAM address of another node's pool.
PlaceForeign(h) ==
  /\ ipam[h] = None /\ actual[h] = None
  /\ StartLoop(HolderRequest(h))

\* The holder is placed here and its IPAM address is one of this pool.
PlaceHere(h) ==
  /\ Ready
  /\ ipam[h] # None /\ actual[h] = None
  /\ LET r == HolderRequest(h)
         ip == ipam[h] IN
     \/ /\ CanAllocate(r, ip)
        /\ PutAllocation(r, ip)
        /\ allocatedIPs' = [allocatedIPs EXCEPT ![ip] = [type |-> r.op, data |-> h]]
        /\ unusedIPs' = IF allocatedIPs[ip] = None
                        THEN [unusedIPs EXCEPT ![ip] = "no"]
                        ELSE unusedIPs
        /\ Grant(r, ip)
        /\ UNCHANGED <<up, request>>
     \/ /\ ~CanAllocate(r, ip)
        /\ StartLoop(r)
     \/ /\ Unreliable
        /\ CanAllocate(r, ip)
        /\ PutAllocation(r, ip)
        /\ UNCHANGED <<up, memory, request, docker>>

\* One turn of allocateFreeIP that ends it.  A turn whose transaction finds the
\* address taken changes nothing, and the loop goes on with the same memory.
AllocateFreeIP(ip) ==
  /\ request # None
  /\ ip \in AvailableUnusedIPs
  /\ CanAllocate(request, ip)
  /\ PutAllocation(request, ip)
  /\ Record(request, ip)
  /\ Grant(request, ip)
  /\ request' = None
  /\ UNCHANGED up

\* The transaction was executed, but its answer did not arrive in time.
AllocateAnswerLost(ip) ==
  /\ Unreliable
  /\ request # None
  /\ ip \in AvailableUnusedIPs
  /\ CanAllocate(request, ip)
  /\ PutAllocation(request, ip)
  /\ request' = None
  /\ UNCHANGED <<up, memory, docker>>

\* The transaction, or the sync, failed: the request ends with an error.
AllocateError ==
  /\ Unreliable
  /\ request # None
  /\ request' = None
  /\ UNCHANGED <<etcd, up, memory, docker>>

\* Mutation: the loop goes on although the sync found nothing.
SyncExhaustedForever ==
  /\ request # None
  /\ Unused = {}
  /\ SyncIPs
  /\ UNCHANGED <<etcd, up, request, docker>>

\* Nothing on offer: getAvailableUnusedIPs asks etcd once more, and if there
\* is still nothing the allocation ends with an error.
SyncExhausted ==
  /\ request # None
  /\ Unused = {}
  /\ SyncIPs
  /\ request' = IF \A ip \in IPs : key[ip] # None THEN None ELSE request
  /\ UNCHANGED <<etcd, up, docker>>

\* Five minutes have passed since the address was released.
Cool(ip) ==
  /\ up
  /\ unusedIPs[ip] = "cooling"
  /\ unusedIPs' = [unusedIPs EXCEPT ![ip] = "cooled"]
  /\ UNCHANGED <<etcd, up, allocatedIPs, request, docker>>

-----------------------------------------------------------------------------
(* Releases.  ReleaseIPIfReserved, by the outcome of its transaction; no   *)
(* clause for an address memory does not know: the call changes nothing.   *)

Released(ip) ==
  /\ allocatedIPs[ip] # None
  /\ CanRelease(ip, allocatedIPs[ip])
  /\ DeleteAllocations({ip})
  /\ allocatedIPs' = [allocatedIPs EXCEPT ![ip] = None]
  /\ unusedIPs' = [unusedIPs EXCEPT ![ip] = "cooling"]

ReleaseAnswerLost(ip) ==
  /\ Unreliable
  /\ allocatedIPs[ip] # None
  /\ CanRelease(ip, allocatedIPs[ip])
  /\ DeleteAllocations({ip})
  /\ UNCHANGED memory

\* "It has since been allocated like this": memory takes over etcd's version.
ReleaseRefused(ip) ==
  /\ allocatedIPs[ip] # None
  /\ key[ip] # None
  /\ ~CanRelease(ip, allocatedIPs[ip])
  /\ allocatedIPs' = [allocatedIPs EXCEPT ![ip] = Stored(ip)]
  /\ UNCHANGED <<etcd, unusedIPs>>

\* Nothing to release, or an error before anything was done, or the failed
\* transaction finds no key and indexes an empty list: the HTTP server that
\* serves Docker's calls recovers from that panic.
ReleaseWithoutEffect(ip) ==
  /\ \/ allocatedIPs[ip] = None
     \/ Unreliable
     \/ key[ip] = None
  /\ UNCHANGED <<etcd, memory>>

ReleaseIPIfReserved(ip) ==
  \/ Released(ip)
  \/ ReleaseAnswerLost(ip)
  \/ ReleaseRefused(ip)
  \/ ReleaseWithoutEffect(ip)

\* A task runs once; a service's load balancer can be created again.
AfterRun(h) == IF h \in Macs /\ ipam[h] # None THEN Ended ELSE None

\* The holder ends here: Docker gives its address back (ReleaseAddress), or
\* the load balancer is deleted, which keeps an address that is Docker's own.
StopHere(h) ==
  /\ Ready
  /\ actual[h] \in IPs
  /\ actual' = [actual EXCEPT ![h] = AfterRun(h)]
  /\ IF h \in Services /\ actual[h] = ipam[h]
     THEN UNCHANGED <<etcd, memory>>
     ELSE ReleaseIPIfReserved(actual[h])
  /\ UNCHANGED <<up, request, ipam, announced>>

\* The swarm allocator gives the IPAM address back to this node's plugin.
ReleaseIpamAddress(h) ==
  /\ Ready
  /\ ipam[h] # None /\ actual[h] \in {None, Ended}
  /\ ReleaseIPIfReserved(ipam[h])
  /\ ipam' = [ipam EXCEPT ![h] = None]
  /\ actual' = [actual EXCEPT ![h] = None]
  /\ UNCHANGED <<up, request, announced>>

\* A task runs on another node, and its container shows up in the shared store.
PlaceElsewhere(h) ==
  /\ h \in Macs
  /\ ipam[h] # None /\ actual[h] = None
  /\ actual' = [actual EXCEPT ![h] = Elsewhere]
  /\ announced' = announced \cup {ipam[h]}
  /\ UNCHANGED <<etcd, up, memory, request, ipam>>

StopElsewhere(h) ==
  /\ actual[h] = Elsewhere
  /\ actual' = [actual EXCEPT ![h] = Ended]
  /\ UNCHANGED <<etcd, up, memory, request, ipam, announced>>

\* handleContainersAdded: the container does not use its IPAM address.
ContainerAdded(ip) ==
  /\ Ready
  /\ ip \in announced
  /\ ReleaseIPIfReserved(ip)
  /\ announced' = announced \ {ip}
  /\ UNCHANGED <<up, request, ipam, actual>>

\* Network.Delete's ReleaseAllIPs, once Docker has nothing left on the network.
ReleaseAllIPs ==
  /\ Ready
  /\ \A h \in Holders : ipam[h] = None /\ actual[h] = None
  /\ DeleteAllocations(IPs)
  /\ \/ /\ allocatedIPs' = [ip \in IPs |-> None]
        /\ unusedIPs' = [ip \in IPs |-> "cooling"]
     \/ Unreliable /\ UNCHANGED memory
  /\ UNCHANGED <<up, request, docker>>

-----------------------------------------------------------------------------
(* The plugin's process.                                                   *)

\* Also what becomes of the panic of a failed release in an event handler.
Crash ==
  /\ up
  /\ up' = FALSE
  /\ request' = None
  /\ allocatedIPs' = [ip \in IPs |-> None]
  /\ unusedIPs' = [ip \in IPs |-> "no"]
  /\ announced' = {}
  /\ UNCHANGED <<etcd, ipam, actual>>

\* Mutation: VIPs are released like reservations.
StaleForgettingServices(existingServices) ==
  {ip \in IPs : /\ key[ip] # None
                /\ ~(key[ip] = "container-ip" /\ \E m \in Macs : actual[m] = ip)}

\* The allocations Network.Init releases: reservations, addresses no local
\* container has, VIPs of services that are gone.
StaleAtRestart(existingServices) ==
  {ip \in IPs : /\ key[ip] # None
                /\ ~(key[ip] = "container-ip" /\ \E m \in Macs : actual[m] = ip)
                /\ ~(key[ip] = "service-vip" /\ serviceIDKey[ip] \in existingServices)}

\* NewEtcdBasedAddressPool syncs, Init releases what is stale; every container
\* Docker knows is announced anew.
Start ==
  /\ ~up
  /\ up' = TRUE
  /\ \E existingServices \in SUBSET Services :
       /\ \A s \in Services : actual[s] # None => s \in existingServices
       /\ LET stale == StaleAtRestart(existingServices) IN
          \E released \in SUBSET stale : \E unanswered \in SUBSET released :
            /\ ~Unreliable => released = stale /\ unanswered = {}
            /\ DeleteAllocations(released)
            /\ allocatedIPs' =
                 [ip \in IPs |-> IF ip \in released \ unanswered
                                THEN None ELSE Stored(ip)]
            /\ unusedIPs' =
                 [ip \in IPs |-> IF key[ip] = None \/ ip \in released \ unanswered
                                THEN "cooling" ELSE "no"]
  /\ announced' = {ipam[m] : m \in {m \in Macs : /\ actual[m] \notin {None, Ended}
                                                 /\ ipam[m] \notin {None, actual[m]}}}
  /\ UNCHANGED <<request, ipam, actual>>

-----------------------------------------------------------------------------
Init ==
  /\ key = [ip \in IPs |-> None]
  /\ macKey = [ip \in IPs |-> None]
  /\ serviceIDKey = [ip \in IPs |-> None]
  /\ up = TRUE
  /\ allocatedIPs = [ip \in IPs |-> None]
  /\ unusedIPs = [ip \in IPs |-> "cooling"]
  /\ request = None
  /\ ipam = [h \in Holders |-> None]
  /\ actual = [h \in Holders |-> None]
  /\ announced = {}

AllocationStep ==
  \/ \E ip \in IPs : AllocateFreeIP(ip)
  \/ SyncExhausted

Next ==
  \/ \E h \in Holders :
       \/ RequestIpamAddress(h)
       \/ PlaceForeign(h)
       \/ PlaceHere(h)
       \/ StopHere(h)
       \/ ReleaseIpamAddress(h)
       \/ PlaceElsewhere(h)
       \/ StopElsewhere(h)
  \/ \E ip \in IPs :
       \/ AllocateFreeIP(ip)
       \/ AllocateAnswerLost(ip)
       \/ Cool(ip)
       \/ ContainerAdded(ip)
  \/ SyncExhausted
  \/ AllocateError
  \/ ReleaseAllIPs
  \/ Crash
  \/ Start

Spec == Init /\ [][Next]_vars

\* The goroutine that allocates keeps running its loop.
FairSpec == Spec /\ WF_vars(AllocationStep)

-----------------------------------------------------------------------------
(* Properties.                                                             *)

\* Who has an address, according to etcd.
Owner(ip) ==
  IF key[ip] \in {None, "reserved"}
  THEN key[ip]
  ELSE IF key[ip] = "container-ip" THEN macKey[ip] ELSE serviceIDKey[ip]

Ledger == INSTANCE IpLedger
            WITH Free <- None, Reserved <- "reserved", owner <- [ip \in IPs |-> Owner(ip)]

\* The pool implements the ledger: whatever is lost, retried or restarted, the
\* transactions of pool_etcd.go never hand an owned address to another holder.
LedgerImplemented == Ledger!Spec

\* A mac key exists for container addresses only, a service-id key for VIPs
\* only: what releaseAllocation and getAllocationsByPrefix rely on.
EtcdWellFormed ==
  \A ip \in IPs :
    /\ macKey[ip] # None <=> key[ip] = "container-ip"
    /\ serviceIDKey[ip] # None <=> key[ip] = "service-vip"

\* While the plugin runs, every address is either allocated or on offer, in
\* memory, and never both: none is lost and none is offered twice.
MemoryPartition ==
  up => \A ip \in IPs : allocatedIPs[ip] # None <=> unusedIPs[ip] = "no"

\* Without lost answers the memory is etcd's copy although the watch that
\* should keep it so is dead (pool.go:327).
MemoryFollowsEtcd ==
  ~Unreliable /\ up => \A ip \in IPs : allocatedIPs[ip] = Stored(ip)

\* "The data in Docker trumps the data in etcd" (README.md:132): an address
\* a local holder runs with is that holder's in etcd.
LiveAddressOwned ==
  \A h \in Holders : actual[h] \in IPs => Owner(actual[h]) = h

\* The clean-up of Network.Init takes no address from a holder that runs with
\* it, whatever etcd answers.
RestartKeepsOwners ==
  [][Start => \A h \in Holders :
       actual[h] \in IPs /\ Owner(actual[h]) = h => Owner(actual[h])' = h]_vars

\* The loop of allocateFreeIP, which holds the pool's lock, comes to an end.
AllocationEnds == request # None ~> request = None
=============================================================================
