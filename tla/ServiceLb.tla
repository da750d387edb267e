----------------------------- MODULE ServiceLb ------------------------------
(***************************************************************************)
(* The load balancers of one service on one node: the service object       *)
(* (pkg/common/service.go) with its events (event.go), the handlers of the *)
(* driver that feed it (driver/flannel_driver.go), and the management that *)
(* listens to it (service_lb/service_lbs_management.go).                   *)
(*                                                                         *)
(* Four kinds of goroutines meet: the stores of services, of containers    *)
(* and of networks each call their handlers one after the other, and every *)
(* creation or update of a load balancer runs in a goroutine of its own (a *)
(* call).  They share the management's mutex, the condition networksChanged*)
(* and the mutexes of the service's events, which are held while an event  *)
(* is raised.                                                              *)
(*                                                                         *)
(* Calls of etcd and of the kernel succeed here; the errors are those that *)
(* come from the order of things.  Networks of other drivers are known     *)
(* from the start, and need no load balancer.                              *)
(***************************************************************************)
EXTENDS Naturals, FiniteSets

CONSTANTS
  Networks,     \* networks of this driver
  KnownAtStart, \* those that are registered before the service is announced
  Containers,   \* the service's containers
  Calls,        \* bound: goroutines that create or update at the same time
  Vips,         \* addresses a network's pool can give to the service
  IpamVip,      \* the service's IPAM VIP in a network
  Preferred,    \* whether that is an address of this node's pool
  Published,    \* whether the containers are also in the ingress network
  Kinds,        \* what changes: the service's "mode", its "networks", its
                \* "removal", the "deletion" of a network
  Hasty,        \* whether that happens before the node is done with the last change
  MaxChanges,   \* bound: how often that happens
  MaxSubs,      \* bound: subscriptions to one event
  None

Modes == {"vip", "dnsrr"}
Specs == [mode : Modes, networks : (SUBSET Networks) \ {{}}, live : BOOLEAN]
Service ==
  [mode : Modes \cup {None}, networks : SUBSET Networks, ipam : SUBSET Networks,
   vips : [Networks -> Vips \cup {IpamVip, None}]]
LoadBalancer == [vip : Vips \cup {IpamVip, None}, backends : SUBSET Containers]
Subs == 0 .. MaxSubs
Snapshot == [networks : SUBSET Networks, ipam : SUBSET Networks,
             vips : [Networks -> Vips \cup {IpamVip, None}]]
Phases == {"start", "reading", "checking", "missing", "waiting", "woken", "ready", "frontends",
           "networks", "added", "removed", "mode"}
Call == [pc : Phases, create : BOOLEAN, seen : Snapshot \cup {None}]

ASSUME ServiceLbAssumption ==
  /\ KnownAtStart \subseteq Networks
  /\ Vips # {} /\ IpamVip \notin Vips
  /\ IsFiniteSet(Calls) /\ "services" \notin Calls \cup {None}
  /\ None \notin Vips \cup {IpamVip} \cup Calls
  /\ None \notin Specs /\ None \notin LoadBalancer /\ None \notin Call /\ None \notin Snapshot
  /\ Preferred \in BOOLEAN
  /\ Published \in BOOLEAN
  /\ Hasty \in BOOLEAN
  /\ Kinds \subseteq {"mode", "networks", "removal", "deletion"}
  /\ MaxChanges \in Nat
  /\ MaxSubs \in Nat

VARIABLES
  spec,        \* Docker: the service as it should be
  changes,     \* Docker: how often it was changed so far
  networksOf,  \* Docker: a running container's networks, or None
  applied,     \* the version of spec the services' goroutine deals with
  services,    \* where that goroutine is
  service,     \* the service object
  raising,     \* the container event being raised; it holds the event's lock
  network,     \* a network's object: not yet known to the management, known, or gone
  calls,       \* the creations and updates under way
  m,           \* who holds the management's mutex
  hasLbs,      \* whether the service is in loadBalancers
  lbs,         \* its load balancers
  stored,      \* loadBalancersData: its VIPs
  owned,       \* the VIPs the networks' pools have allocated to it
  subs,        \* the handlers subscribed to each of the service's events
  unsubscriber \* whether there is one in servicesEventsUnsubscribers

docker == <<spec, changes, networksOf>>
management == <<hasLbs, lbs, stored, owned>>
events == <<subs, unsubscriber>>
vars == <<docker, applied, services, service, raising, network, calls, m, management, events>>

TypeOK ==
  /\ spec \in Specs
  /\ changes \in 0 .. MaxChanges
  /\ networksOf \in [Containers -> (SUBSET Networks) \cup {None}]
  /\ applied \in Specs \cup {None}
  /\ services \in [pc : {"idle", "networks", "ipam", "delete", "unsubscribe", "dismantle"},
                   left : Nat, raise : BOOLEAN, initialize : BOOLEAN]
  /\ service \in Service
  /\ raising \in [event : {"added", "removed"}, container : Containers,
                  networks : SUBSET Networks, left : Subs] \cup {None}
  /\ network \in [Networks -> {"unknown", "known", "gone"}]
  /\ calls \in [Calls -> Call \cup {None}]
  /\ m \in Calls \cup {"services", None}
  /\ hasLbs \in BOOLEAN
  /\ lbs \in [Networks -> LoadBalancer \cup {None}]
  /\ stored \in [Networks -> Vips \cup {IpamVip, None}]
  /\ owned \in [Networks -> SUBSET (Vips \cup {IpamVip})]
  /\ subs \in [{"networks", "added", "removed", "mode"} -> Subs]
  /\ unsubscriber \in BOOLEAN

-----------------------------------------------------------------------------
(* Docker.                                                                 *)

\* Nobody is at work on the service.
Quiet ==
  /\ services.pc = "idle" /\ applied = spec
  /\ raising = None
  /\ \A c \in Calls : calls[c] = None

\* An update of the service, or its removal.
ServiceUpdated ==
  /\ Hasty \/ Quiet
  /\ spec.live /\ changes < MaxChanges
  /\ spec' \in Specs \ {spec}
  /\ \A n \in spec'.networks : network[n] # "gone"
  /\ spec'.mode # spec.mode => "mode" \in Kinds
  /\ spec'.networks # spec.networks => "networks" \in Kinds
  /\ ~spec'.live => /\ "removal" \in Kinds
                    /\ spec'.mode = spec.mode /\ spec'.networks = spec.networks
  /\ changes' = changes + 1
  /\ UNCHANGED <<networksOf, applied, services, service, raising, network, calls, m,
                 management, events>>

-----------------------------------------------------------------------------
(* The service object and its events.                                      *)

Initialized(s) ==
  /\ s.networks # {}
  /\ \/ s.mode = "dnsrr"
     \/ s.mode = "vip" /\ s.ipam # {}

Idle == [pc |-> "idle", left |-> 0, raise |-> FALSE, initialize |-> FALSE]

\* n goroutines are started.
Spawn(n, create) ==
  \E new \in SUBSET {c \in Calls : calls[c] = None} :
    /\ Cardinality(new) = n
    /\ calls' = [c \in Calls |-> IF c \in new
                                 THEN [pc |-> "start", create |-> create, seen |-> None]
                                 ELSE calls[c]]

\* handleServicesAdded and handleServicesChanged: SetEndpointMode.  A service
\* whose mode becomes dnsrr has its load balancer deleted, once per handler; one
\* whose mode becomes vip has no IPAM VIPs yet and does not count as initialized.
SetEndpointMode ==
  /\ services.pc = "idle"
  /\ spec.live /\ spec # applied
  /\ applied' = spec
  /\ service' = [service EXCEPT !.mode = spec.mode]
  /\ LET deleted == /\ Initialized(service) /\ Initialized(service')
                    /\ service.mode = "vip" /\ spec.mode = "dnsrr" IN
     services' = IF deleted /\ subs["mode"] > 0
                 THEN [Idle EXCEPT !.pc = "delete", !.left = subs["mode"]]
                 ELSE [Idle EXCEPT !.pc = "networks"]
  /\ UNCHANGED <<docker, raising, network, calls, m, management, events>>

\* SetNetworks: s.networks is replaced before s.ipamVIPs, and GetInfo reads both
\* without the service's lock.
SetNetworks ==
  /\ services.pc = "networks"
  /\ service' = [service EXCEPT !.networks = applied.networks]
  /\ services' = [Idle EXCEPT !.pc = "ipam",
                              !.raise = service.networks # applied.networks,
                              !.initialize = ~Initialized(service)]
  /\ UNCHANGED <<docker, applied, raising, network, calls, m, management, events>>

\* createService's OnInitialized handler.
NeedsLoadBalancer(s) == s.mode = "vip"

\* ipamVIPsChanged says whether they are equal.
SetIpamVIPs ==
  /\ services.pc = "ipam"
  /\ LET ipam == IF applied.mode = "vip" THEN applied.networks ELSE {}
         ipamVIPsChanged == service.ipam = ipam IN
     /\ service' = [service EXCEPT !.ipam = ipam]
     /\ IF services.initialize
        THEN Spawn(IF NeedsLoadBalancer(service') THEN 1 ELSE 0, TRUE)
        ELSE Spawn(IF services.raise \/ ipamVIPsChanged THEN subs["networks"] ELSE 0, FALSE)
  /\ services' = Idle
  /\ UNCHANGED <<docker, applied, raising, network, m, management, events>>

\* handleServicesRemoved.
ServiceRemoved ==
  /\ services.pc = "idle"
  /\ ~spec.live /\ spec # applied
  /\ applied' = spec
  /\ services' = IF spec.mode = "vip"
                 THEN [Idle EXCEPT !.pc = "delete", !.left = 1]
                 ELSE Idle
  /\ UNCHANGED <<docker, service, raising, network, calls, m, management, events>>

Removed == applied # None /\ ~applied.live

-----------------------------------------------------------------------------
(* Networks.                                                               *)

Broadcast ==
  calls' = [c \in Calls |-> IF calls[c] # None /\ calls[c].pc = "waiting"
                            THEN [calls[c] EXCEPT !.pc = "woken"]
                            ELSE calls[c]]

Known == {n \in Networks : network[n] = "known"}

\* SetFlannelNetwork.
NetworkRegistered(n) ==
  /\ network[n] = "unknown"
  /\ network' = [network EXCEPT ![n] = "known"]
  /\ Broadcast
  /\ UNCHANGED <<docker, applied, services, service, raising, m, management, events>>

\* handleNetworksRemoved: DeleteNetwork, then the network's own Delete, which
\* releases all addresses.  Docker deletes a network nobody is attached to.
NetworkRemoved(n) ==
  /\ "deletion" \in Kinds
  /\ Hasty \/ Quiet
  /\ network[n] = "known"
  /\ spec.live => n \notin spec.networks
  /\ \A c \in Containers : networksOf[c] # None => n \notin networksOf[c]
  /\ network' = [network EXCEPT ![n] = "gone"]
  /\ owned' = [owned EXCEPT ![n] = {}]
  /\ Broadcast
  /\ UNCHANGED <<docker, applied, services, service, raising, m, hasLbs, lbs, stored, events>>

-----------------------------------------------------------------------------
(* createOrUpdateLoadBalancer.                                             *)

At(c, pc) == calls[c] # None /\ calls[c].pc = pc
Goto(c, pc) == calls' = [calls EXCEPT ![c].pc = pc]

\* The lock of networksChanged is held from GetInfo to the wait.
ConditionFree ==
  \A c \in Calls : calls[c] # None => calls[c].pc \notin {"reading", "checking", "missing"}

HasMissingNetworks == ~(service.networks \subseteq Known)

\* serviceInfo is read once, before the wait, and not at once: GetInfo takes no
\* lock of the service, which may change in between.
Start(c) ==
  /\ At(c, "start") /\ ConditionFree
  /\ calls' = [calls EXCEPT ![c].pc = "reading",
                            ![c].seen = [networks |-> service.networks,
                                         ipam |-> {}, vips |-> service.vips]]
  /\ UNCHANGED <<docker, applied, services, service, raising, network, m, management, events>>

Read(c) ==
  /\ At(c, "reading")
  /\ \E vips \in {calls[c].seen.vips, service.vips} :
       calls' = [calls EXCEPT ![c].pc = "checking",
                              ![c].seen = [networks |-> calls[c].seen.networks,
                                           ipam |-> service.ipam, vips |-> vips]]
  /\ UNCHANGED <<docker, applied, services, service, raising, network, m, management, events>>

Check(c) ==
  /\ At(c, "checking") \/ (At(c, "woken") /\ ConditionFree)
  /\ Goto(c, IF HasMissingNetworks THEN "missing" ELSE "ready")
  /\ UNCHANGED <<docker, applied, services, service, raising, network, m, management, events>>

Wait(c) ==
  /\ At(c, "missing")
  /\ Goto(c, "waiting")
  /\ UNCHANGED <<docker, applied, services, service, raising, network, m, management, events>>

Balanced == {n \in Networks : lbs[n] # None}
VipOf(n) == IF lbs[n] = None THEN None ELSE lbs[n].vip
SeenIpamVip(seen, n) == IF n \in seen.ipam THEN IpamVip ELSE None

\* Mutation: a VIP is released where it is the IPAM VIP.
ReleasesVipInverted(seen, n) == VipOf(n) # None /\ SeenIpamVip(seen, n) = seen.vips[n]

\* deleteForNetwork: "Only release VIP if we allocated it".
ReleasesVip(seen, n) == VipOf(n) # None /\ SeenIpamVip(seen, n) # seen.vips[n]

\* It fails where the VIP is to be released and the network is gone.
Undeletable(seen, ns) == {n \in ns : ReleasesVip(seen, n) /\ n \notin Known}

\* The load balancers of ns are deleted, in some order: all of them, or those
\* before the first failure and the one that failed.
DeletedOf(seen, ns) ==
  IF Undeletable(seen, ns) = {}
  THEN {ns}
  ELSE {ds \cup {n} : ds \in SUBSET (ns \ Undeletable(seen, ns)), n \in Undeletable(seen, ns)}

ReleaseVips(seen, ns) ==
  owned' = [n \in Networks |-> IF n \in ns /\ ReleasesVip(seen, n)
                               THEN owned[n] \ {VipOf(n)}
                               ELSE owned[n]]

NewLb == [vip |-> None, backends |-> {}]

\* With the mutex: a load balancer per network, none for other networks.  An
\* error ends the call and leaves what was done.
Ensure(c) ==
  /\ At(c, "ready") /\ m = None
  /\ LET seen == calls[c].seen
         surplus == Balanced \ seen.networks IN
     IF seen.networks \subseteq Known
     THEN \E deleted \in DeletedOf(seen, surplus) :
            /\ lbs' = [n \in Networks |-> IF n \in deleted THEN None
                                           ELSE IF n \in seen.networks \ Balanced THEN NewLb
                                           ELSE lbs[n]]
            /\ ReleaseVips(seen, deleted)
            /\ IF Undeletable(seen, surplus) = {}
               THEN m' = c /\ Goto(c, "frontends")
               ELSE m' = None /\ calls' = [calls EXCEPT ![c] = None]
     ELSE \E created \in SUBSET ((seen.networks \cap Known) \ Balanced) :
            /\ lbs' = [n \in Networks |-> IF n \in created THEN NewLb ELSE lbs[n]]
            /\ calls' = [calls EXCEPT ![c] = None]
            /\ UNCHANGED <<owned, m>>
  /\ hasLbs' = TRUE
  /\ UNCHANGED <<docker, applied, services, service, raising, network, stored, events>>

\* Mutation: the stored VIP is not looked up.
VipsForAnew(n) ==
  IF n \notin Known THEN {}
  ELSE IF Preferred THEN {IpamVip}
  ELSE Vips \ owned[n]

\* The VIP stored before, or one from the network's pool.
VipsFor(n) ==
  IF stored[n] # None THEN {stored[n]}
  ELSE IF n \notin Known THEN {}
  ELSE IF Preferred THEN {IpamVip}
  ELSE Vips \ owned[n]

\* The VIPs of the networks given are owned, and put up where there is a load
\* balancer.
PutUp(given) ==
  /\ lbs' = [n \in Networks |-> IF n \in DOMAIN given /\ lbs[n] # None
                                 THEN [lbs[n] EXCEPT !.vip = given[n]] ELSE lbs[n]]
  /\ owned' = [n \in Networks |-> IF n \in DOMAIN given /\ stored[n] = None
                                   THEN owned[n] \cup {given[n]} ELSE owned[n]]

\* Mutation: the VIPs of networks the service has left are kept.
StoredVipsKept(given) ==
  [n \in Networks |-> IF n \in DOMAIN given THEN given[n] ELSE stored[n]]

\* Mutation: networks without a VIP are not looked at.
StoredVipsOnly(given) == given

StoredVips(given) == [n \in Networks |-> IF n \in DOMAIN given THEN given[n] ELSE None]

\* All networks with an IPAM VIP get their frontend; the VIPs are stored and
\* given to the service object.
PublishVips(c) ==
  LET ns == calls[c].seen.ipam IN
  /\ \E given \in [ns -> Vips \cup {IpamVip}] :
       /\ \A n \in ns : given[n] \in VipsFor(n) /\ lbs[n] # None
       /\ PutUp(given)
       /\ stored' = StoredVips(given)
       /\ service' = [service EXCEPT !.vips = stored']
  /\ IF calls[c].create THEN Goto(c, "networks") ELSE calls' = [calls EXCEPT ![c] = None]

\* The loop ends at a network that gives no VIP, or has no load balancer for
\* it; some of the others have got their frontends.
PublishFailed(c) ==
  LET ns == calls[c].seen.ipam
      noLb == {n \in ns : lbs[n] = None}
      noVip == {n \in ns : VipsFor(n) = {}} IN
  /\ \E some \in SUBSET (ns \ (noLb \cup noVip)), last \in noLb \cup noVip :
       LET reached == some \cup ({last} \ noVip) IN
       \E given \in [reached -> Vips \cup {IpamVip}] :
         /\ \A n \in reached : given[n] \in VipsFor(n)
         /\ PutUp(given)
  /\ calls' = [calls EXCEPT ![c] = None]
  /\ UNCHANGED <<stored, service>>

\* Mutation: an error keeps the mutex.
PublishHolding(c) ==
  /\ At(c, "frontends")
  /\ \/ PublishVips(c) /\ m' = None
     \/ PublishFailed(c) /\ UNCHANGED m
  /\ UNCHANGED <<docker, applied, services, raising, network, hasLbs, events>>

Publish(c) ==
  /\ At(c, "frontends")
  /\ PublishVips(c) \/ PublishFailed(c)
  /\ m' = None
  /\ UNCHANGED <<docker, applied, services, raising, network, hasLbs, events>>

\* The events whose lock is held, because they are being raised.
RaisedEvents ==
  (IF raising = None THEN {} ELSE {raising.event})
    \cup (IF services.pc \in {"delete", "unsubscribe", "dismantle"} /\ ~Removed
          THEN {"mode"} ELSE {})

\* CreateLoadBalancer subscribes to one event after the other.
Subscribe(c) ==
  \E e \in DOMAIN subs :
    /\ At(c, e)
    /\ e \notin RaisedEvents
    /\ subs[e] < MaxSubs
    /\ subs' = [subs EXCEPT ![e] = @ + 1]
    /\ unsubscriber' = (unsubscriber \/ e = "removed")
    /\ calls' = [calls EXCEPT ![c] =
                   CASE e = "networks" -> [@ EXCEPT !.pc = "added"]
                     [] e = "added" -> [@ EXCEPT !.pc = "removed"]
                     [] e = "removed" -> [@ EXCEPT !.pc = "mode"]
                     [] e = "mode" -> None]
    /\ UNCHANGED <<docker, applied, services, service, raising, network, m, management>>

-----------------------------------------------------------------------------
(* DeleteLoadBalancer, in the services' goroutine.                         *)

\* Mutation: nothing is done after a deletion.
DeletedAndDone ==
  services' = IF services.left > 1
              THEN [services EXCEPT !.pc = "delete", !.left = @ - 1]
              ELSE Idle

\* Back to SetEndpointMode's next handler, to SetNetworks or to the store.
Deleted ==
  services' = IF services.left > 1
              THEN [services EXCEPT !.pc = "delete", !.left = @ - 1]
              ELSE IF Removed THEN Idle ELSE [Idle EXCEPT !.pc = "networks"]

NothingToDelete ==
  /\ services.pc = "delete" /\ m = None
  /\ ~hasLbs
  /\ Deleted
  /\ UNCHANGED <<docker, applied, service, raising, network, calls, m, management, events>>

Delete ==
  /\ services.pc = "delete" /\ m = None
  /\ hasLbs
  /\ hasLbs' = FALSE
  /\ m' = "services"
  /\ services' = [services EXCEPT !.pc = IF unsubscriber THEN "unsubscribe" ELSE "dismantle"]
  /\ UNCHANGED <<docker, applied, service, raising, network, calls, lbs, stored, owned, events>>

\* The unsubscribers wait for the locks of their events.
Unsubscribe ==
  /\ services.pc = "unsubscribe"
  /\ RaisedEvents \cap {"added", "removed"} = {}
  /\ subs' = [e \in DOMAIN subs |-> IF e = "mode" THEN subs[e] ELSE subs[e] - 1]
  /\ unsubscriber' = FALSE
  /\ services' = [services EXCEPT !.pc = "dismantle"]
  /\ UNCHANGED <<docker, applied, service, raising, network, calls, m, management>>

\* Every load balancer is gone from memory; a VIP that could not be released
\* keeps the others from being released, and all from being forgotten.
Dismantle ==
  /\ services.pc = "dismantle"
  /\ lbs' = [n \in Networks |-> None]
  /\ \E deleted \in DeletedOf(service, Balanced) : ReleaseVips(service, deleted)
  /\ stored' = IF Undeletable(service, Balanced) = {}
               THEN [n \in Networks |-> None] ELSE stored
  /\ m' = None
  /\ Deleted
  /\ UNCHANGED <<docker, applied, service, raising, network, calls, hasLbs, events>>

-----------------------------------------------------------------------------
(* Containers.                                                             *)

Raise(e, c, ns) ==
  raising' = IF Initialized(service) /\ subs[e] > 0
             THEN [event |-> e, container |-> c, networks |-> ns, left |-> subs[e]]
             ELSE None

\* handleContainersAdded: AddContainer.
ContainerAdded(c) ==
  /\ raising = None /\ ~Removed
  /\ spec.live /\ networksOf[c] = None
  /\ networksOf' = [networksOf EXCEPT ![c] = spec.networks]
  /\ Raise("added", c, spec.networks)
  /\ UNCHANGED <<spec, changes, applied, services, service, network, calls, m,
                 management, events>>

\* handleContainersRemoved: RemoveContainer.
ContainerRemoved(c) ==
  /\ raising = None /\ ~Removed
  /\ networksOf[c] # None
  /\ networksOf' = [networksOf EXCEPT ![c] = None]
  /\ Raise("removed", c, networksOf[c])
  /\ UNCHANGED <<spec, changes, applied, services, service, network, calls, m,
                 management, events>>

\* addBackendIPsToLoadBalancer and removeBackendIPsFromLoadBalancer: the loop
\* over the container's networks ends at the first without a load balancer.
\* That includes the ingress network.
Backends ==
  /\ raising # None /\ m = None
  /\ LET c == raising.container
         there == raising.networks \cap (IF hasLbs THEN Balanced ELSE {}) IN
     \E reached \in SUBSET there :
       /\ there = raising.networks /\ ~Published => reached = there
       /\ lbs' = [n \in Networks |->
                    IF n \notin reached THEN lbs[n]
                    ELSE [lbs[n] EXCEPT !.backends =
                            IF raising.event = "added" THEN @ \cup {c} ELSE @ \ {c}]]
  /\ raising' = IF raising.left > 1 THEN [raising EXCEPT !.left = @ - 1] ELSE None
  /\ UNCHANGED <<docker, applied, services, service, network, calls, m, hasLbs, stored,
                 owned, events>>

-----------------------------------------------------------------------------
Init ==
  /\ spec \in {s \in Specs : s.live}
  /\ changes = 0
  /\ networksOf = [c \in Containers |-> None]
  /\ applied = None
  /\ services = Idle
  /\ service = [mode |-> None, networks |-> {}, ipam |-> {},
                vips |-> [n \in Networks |-> None]]
  /\ raising = None
  /\ network = [n \in Networks |-> IF n \in KnownAtStart THEN "known" ELSE "unknown"]
  /\ calls = [c \in Calls |-> None]
  /\ m = None
  /\ hasLbs = FALSE
  /\ lbs = [n \in Networks |-> None]
  /\ stored = [n \in Networks |-> None]
  /\ owned = [n \in Networks |-> {}]
  /\ subs = [e \in {"networks", "added", "removed", "mode"} |-> 0]
  /\ unsubscriber = FALSE

ServicesStep ==
  \/ SetEndpointMode
  \/ SetNetworks
  \/ SetIpamVIPs
  \/ ServiceRemoved
  \/ NothingToDelete
  \/ Delete
  \/ Unsubscribe
  \/ Dismantle

CallStep(c) ==
  \/ Start(c)
  \/ Read(c)
  \/ Check(c)
  \/ Wait(c)
  \/ Ensure(c)
  \/ Publish(c)
  \/ Subscribe(c)

Next ==
  \/ ServiceUpdated
  \/ ServicesStep
  \/ \E n \in Networks : NetworkRegistered(n) \/ NetworkRemoved(n)
  \/ \E c \in Calls : CallStep(c)
  \/ \E c \in Containers : ContainerAdded(c) \/ ContainerRemoved(c)
  \/ Backends

Spec == Init /\ [][Next]_vars

\* Goroutines that can go on do; the networks' store hears of every network.
FairSpec ==
  /\ Spec
  /\ WF_vars(ServicesStep)
  /\ \A c \in Calls : WF_vars(CallStep(c))
  /\ \A n \in Networks : WF_vars(NetworkRegistered(n))
  /\ WF_vars(Backends)

-----------------------------------------------------------------------------
(* Properties.                                                             *)

\* No frontend listens on an address the network's pool may give to others.
FrontendOwned ==
  \A n \in Known : VipOf(n) # None => VipOf(n) \in owned[n]

\* Between the critical sections, etcd has the VIPs of the frontends, so that a restart
\* finds them, and names every VIP that was allocated, so that it is released
\* when the service is gone or leaves the network.
VipsAgree ==
  m = None => /\ \A n \in Networks : VipOf(n) # None => stored[n] = VipOf(n)
              /\ \A n \in Known : owned[n] \subseteq {stored[n]}

\* The VIP of a load balancer never changes: clients have it cached.
FrontendStable ==
  [][\A n \in Networks :
       VipOf(n) # None /\ lbs'[n] # None => lbs'[n].vip = VipOf(n)]_vars

\* A service that is in mode vip when all its changes are over gets a load
\* balancer in one of its networks at least.
LoadBalancerComes ==
  []<>(\/ services.pc # "idle" \/ applied # spec
       \/ Removed \/ spec.mode # "vip"
       \/ \E n \in Networks : VipOf(n) # None)

\* What a container's coming or going asks of the load balancer gets done:
\* its handlers get the mutex.
EventsHandled == (raising # None) ~> (raising = None)

\* "May only be created for endpoint mode "vip"" (common/service.go:27).
OnlyForVip == Quiet /\ (Removed \/ service.mode = "dnsrr") => ~hasLbs

\* "Not all networks for service are known yet. Waiting..."
\* (service_lbs_management.go:291): only then a call waits.
WaitsForMissing ==
  (\E c \in Calls : At(c, "waiting")) /\ services.pc = "idle" => HasMissingNetworks

\* "network missing in internal state of service load balancer management.
\* This is a bug" (service_lbs_management.go:312).
NetworksKnown ==
  \A c \in Calls : At(c, "ready") /\ m = None => calls[c].seen.networks \subseteq Known

\* "when the service is being deleted, it is gone, no events will be raised
\* anyway" (driver/flannel_driver.go:504).
NoEventWhileDeleted ==
  Removed /\ services.pc = "unsubscribe" => raising = None
=============================================================================
