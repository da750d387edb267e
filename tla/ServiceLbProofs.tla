-------------------------- MODULE ServiceLbProofs ---------------------------
(***************************************************************************)
(* Proofs about ServiceLb, for any number of networks, containers, calls   *)
(* and changes: its types in every order of things, what holds when each   *)
(* change comes after the last one is dealt with, and what when they do    *)
(* not wait for each other.                                                *)
(***************************************************************************)
EXTENDS ServiceLb, FiniteSetTheorems, TLAPS

-----------------------------------------------------------------------------
(* Types and the mutex.                                                    *)

Calling(pc) == {c \in Calls : At(c, pc)}

\* Who is in a critical section holds the mutex; a call that is past its first step has read
\* the service, and the services' goroutine deals with a version of it.
Held ==
  /\ m = "services" <=> services.pc \in {"unsubscribe", "dismantle"}
  /\ \A c \in Calls : m = c <=> At(c, "frontends")
  /\ \A c \in Calls : calls[c] # None /\ calls[c].pc # "start" => calls[c].seen # None
  /\ services.pc # "idle" => applied # None

\* The unsubscribers find a subscription to every event: each call subscribes to one event after
\* the other.
Subscribed ==
  /\ subs["added"] + Cardinality(Calling("added")) <= subs["networks"]
  /\ subs["removed"] + Cardinality(Calling("removed")) <= subs["added"]
  /\ unsubscriber => subs["removed"] > 0
  /\ services.pc = "unsubscribe" => unsubscriber

-----------------------------------------------------------------------------
(* One change after the other.                                             *)

Before == {"start", "reading", "checking", "missing", "waiting", "woken", "ready"}

\* What the service object has when it was given all of a version of the service.
Given(version) ==
  /\ service.mode = version.mode /\ service.networks = version.networks
  /\ service.ipam = IF version.mode = "vip" THEN version.networks ELSE {}

\* There is one call at most, and only for the last version; the service object has what its
\* store's goroutine got to.
Calm ==
  /\ \A c, d \in Calls : calls[c] # None /\ calls[d] # None => c = d
  /\ services.pc # "idle" => applied = spec
  /\ \A c \in Calls : calls[c] # None =>
       services.pc = "idle" /\ applied = spec /\ spec.live /\ spec.mode = "vip"
  /\ ~spec.live => applied # None /\ applied.mode = spec.mode /\ applied.networks = spec.networks
  /\ Removed => ~spec.live
  /\ services.pc = "idle" =>
       IF applied = None THEN service.networks = {} /\ service.ipam = {} ELSE Given(applied)
  /\ services.pc \in {"delete", "unsubscribe", "dismantle"} =>
       IF Removed THEN Given(applied) ELSE service.mode = "dnsrr" /\ applied.mode = "dnsrr"
  /\ services.pc \in {"networks", "ipam"} => applied.live /\ service.mode = applied.mode
  /\ services.pc \in {"delete", "unsubscribe", "dismantle", "networks"} =>
       service.ipam \in {{}, service.networks}
  /\ services.pc = "ipam" => service.networks = applied.networks
  /\ services.pc = "ipam" /\ service.mode = "vip" =>
       /\ services.initialize <=> service.ipam = {}
       /\ services.initialize \/ services.raise \/ service.ipam = service.networks

\* What a call has seen of the service is still so.
UpToDate ==
  \A c \in Calls : calls[c] # None =>
    /\ calls[c].pc # "start" => calls[c].seen.networks = service.networks
    /\ calls[c].pc \notin {"start", "reading"} => calls[c].seen.ipam = service.ipam
    /\ calls[c].pc \in {"ready", "frontends"} => service.networks \subseteq Known
    /\ ~calls[c].create /\ calls[c].pc # "start" => calls[c].seen.vips = service.vips
    /\ ~calls[c].create => calls[c].pc \in Before \cup {"frontends"}

\* The handlers of the first so many events are subscribed.
SubscribedTo(es) ==
  /\ \A e \in {"networks", "added", "removed"} : subs[e] = IF e \in es THEN 1 ELSE 0
  /\ unsubscriber <=> "removed" \in es

AllEvents == {"networks", "added", "removed"}
Stored == {n \in Networks : stored[n] # None}

\* The service has its load balancers, and what is needed to delete them; or it has nothing.
Up == hasLbs /\ SubscribedTo(AllEvents) /\ subs["mode"] > 0 /\ service.vips = stored
Down == ~hasLbs /\ SubscribedTo({}) /\ Stored = {}

\* Where the service has load balancers, and what of them.
Serving ==
  /\ (\A c \in Calls : calls[c] = None) /\ services.pc \in {"idle", "networks", "ipam"} =>
       IF service.mode = "vip" /\ service.ipam # {} /\ ~Removed
       THEN Up /\ Stored = service.ipam ELSE Down
  /\ services.pc = "delete" => Down \/ (Up /\ Stored = service.ipam)
  /\ services.pc = "unsubscribe" =>
       ~hasLbs /\ SubscribedTo(AllEvents) /\ Stored = service.ipam /\ service.vips = stored
  /\ services.pc = "dismantle" =>
       ~hasLbs /\ SubscribedTo({}) /\ Stored = service.ipam /\ service.vips = stored
  /\ \A c \in Calls : calls[c] # None =>
       IF ~calls[c].create THEN Up
       ELSE /\ calls[c].pc \in Before => Down
            /\ calls[c].pc \notin Before => hasLbs
            /\ calls[c].pc = "frontends" => SubscribedTo({}) /\ Stored = {}
            /\ calls[c].pc = "networks" => SubscribedTo({})
            /\ calls[c].pc = "added" => SubscribedTo({"networks"})
            /\ calls[c].pc = "removed" => SubscribedTo({"networks", "added"})
            /\ calls[c].pc = "mode" => SubscribedTo(AllEvents)
            /\ calls[c].pc \in {"networks", "added", "removed", "mode"} =>
                 Stored = service.ipam /\ service.vips = stored

\* While a call has the mutex and the service's VIPs are still to be stored, the load balancers
\* are those of the service's networks; else they are those with a stored VIP.  The VIPs stored
\* for a load balancer are owned, and, where the pool never gives IPAM's VIP, no others.
Agreed ==
  \A n \in Networks :
    /\ m \notin Calls => /\ lbs[n] # None <=> stored[n] # None
                         /\ VipOf(n) = stored[n]
                         /\ stored[n] # None => n \in Known
    /\ m \in Calls => /\ lbs[n] # None <=> n \in service.networks
                      /\ VipOf(n) = IF n \in service.networks THEN stored[n] ELSE None
    /\ VipOf(n) # None => VipOf(n) \in owned[n]
    /\ ~Preferred => owned[n] \subseteq {VipOf(n)} /\ VipOf(n) # IpamVip

-----------------------------------------------------------------------------
(* Types.                                                                  *)

States == {"idle", "networks", "ipam", "delete", "unsubscribe", "dismantle"}

\* The services' goroutine goes where a deletion came from.
LEMMA DeletedType ==
  ASSUME TypeOK, Deleted
  PROVE  /\ services' \in [pc : States, left : Nat, raise : BOOLEAN, initialize : BOOLEAN]
         /\ services'.pc \in {"delete", "idle", "networks"}
<1>1. services \in [pc : States, left : Nat, raise : BOOLEAN, initialize : BOOLEAN]
  BY DEF TypeOK, States
<1>2. \/ services.left > 1 /\ services' = [services EXCEPT !.pc = "delete", !.left = @ - 1]
      \/ services' = Idle
      \/ services' = [Idle EXCEPT !.pc = "networks"]
  BY DEF Deleted
<1>3. CASE services.left > 1 /\ services' = [services EXCEPT !.pc = "delete", !.left = @ - 1]
  <2>1. services.left - 1 \in Nat
    BY <1>1, <1>3
  <2>2. /\ services'.pc = "delete" /\ services'.left = services.left - 1
        /\ services' = [pc |-> "delete", left |-> services.left - 1, raise |-> services.raise,
                        initialize |-> services.initialize]
    BY <1>1, <1>3
  <2> QED
    BY <1>1, <2>1, <2>2 DEF States
<1>4. CASE services' = Idle
  BY <1>4 DEF Idle, States
<1>5. CASE services' = [Idle EXCEPT !.pc = "networks"]
  <2>1. services' = [pc |-> "networks", left |-> 0, raise |-> FALSE, initialize |-> FALSE]
    BY <1>5 DEF Idle
  <2> QED
    BY <2>1 DEF States
<1> QED
  BY <1>2, <1>3, <1>4, <1>5

\* A call goes on.
LEMMA GotoType ==
  ASSUME TypeOK, NEW c \in Calls, calls[c] # None, NEW pc \in Phases, Goto(c, pc)
  PROVE  /\ calls' \in [Calls -> Call \cup {None}]
         /\ calls'[c] # None /\ calls'[c].pc = pc
         /\ calls'[c].create = calls[c].create /\ calls'[c].seen = calls[c].seen
         /\ \A d \in Calls \ {c} : calls'[d] = calls[d]
<1>1. calls[c] \in Call
  BY DEF TypeOK
<1>2. calls' = [calls EXCEPT ![c] = [calls[c] EXCEPT !.pc = pc]]
  BY DEF Goto
<1>3. PICK next \in Call : /\ next = [calls[c] EXCEPT !.pc = pc] /\ next.pc = pc
                           /\ next.create = calls[c].create /\ next.seen = calls[c].seen
  <2>1. [calls[c] EXCEPT !.pc = pc] \in Call
    BY <1>1 DEF Call
  <2>2. /\ [calls[c] EXCEPT !.pc = pc].pc = pc
        /\ [calls[c] EXCEPT !.pc = pc].create = calls[c].create
        /\ [calls[c] EXCEPT !.pc = pc].seen = calls[c].seen
    BY <1>1 DEF Call
  <2> QED
    BY <2>1, <2>2
<1>4. calls' = [calls EXCEPT ![c] = next]
  BY <1>2, <1>3
<1> QED
  BY <1>3, <1>4, ServiceLbAssumption DEF TypeOK

\* A call that ends.
LEMMA EndType ==
  ASSUME TypeOK, NEW c \in Calls, calls' = [calls EXCEPT ![c] = None]
  PROVE  /\ calls' \in [Calls -> Call \cup {None}] /\ calls'[c] = None
         /\ \A d \in Calls \ {c} : calls'[d] = calls[d]
BY DEF TypeOK

\* Calls that are spawned have not started.
LEMMA SpawnType ==
  ASSUME TypeOK, NEW n, NEW create \in BOOLEAN, Spawn(n, create)
  PROVE  /\ calls' \in [Calls -> Call \cup {None}]
         /\ \A c \in Calls : \/ calls'[c] = calls[c]
                             \/ /\ calls[c] = None /\ calls'[c] # None
                                /\ calls'[c].pc = "start" /\ calls'[c].create = create
<1> DEFINE started == [pc |-> "start", create |-> create, seen |-> None]
<1>1. started \in Call /\ started.pc = "start" /\ started.create = create
  BY DEF Call, Phases
<1>2. started # None
  BY <1>1, ServiceLbAssumption
<1>3. PICK new \in SUBSET {c \in Calls : calls[c] = None} :
        calls' = [c \in Calls |-> IF c \in new THEN started ELSE calls[c]]
  BY DEF Spawn
<1> HIDE DEF started
<1>4. calls' \in [Calls -> Call \cup {None}]
  BY <1>1, <1>3 DEF TypeOK
<1>5. \A c \in Calls : calls'[c] = IF c \in new THEN started ELSE calls[c]
  BY <1>3
<1> QED
  BY <1>1, <1>2, <1>4, <1>5

\* A broadcast wakes who waits.
LEMMA BroadcastType ==
  ASSUME TypeOK, Broadcast
  PROVE  /\ calls' \in [Calls -> Call \cup {None}]
         /\ \A c \in Calls :
              \/ calls'[c] = calls[c]
              \/ /\ calls[c] # None /\ calls[c].pc = "waiting" /\ calls'[c] # None
                 /\ calls'[c].pc = "woken" /\ calls'[c].create = calls[c].create
                 /\ calls'[c].seen = calls[c].seen
<1>1. \A c \in Calls : calls[c] # None => [calls[c] EXCEPT !.pc = "woken"] \in Call
  BY DEF TypeOK, Call, Phases
<1>2. \A c \in Calls : calls[c] # None =>
        /\ [calls[c] EXCEPT !.pc = "woken"].pc = "woken"
        /\ [calls[c] EXCEPT !.pc = "woken"].create = calls[c].create
        /\ [calls[c] EXCEPT !.pc = "woken"].seen = calls[c].seen
  BY DEF TypeOK, Call
<1>3. \A c \in Calls :
        calls'[c] = IF calls[c] # None /\ calls[c].pc = "waiting"
                    THEN [calls[c] EXCEPT !.pc = "woken"] ELSE calls[c]
  BY DEF Broadcast
<1>4. calls' \in [Calls -> Call \cup {None}]
  BY <1>1 DEF Broadcast, TypeOK
<1>5. ASSUME NEW c \in Calls
      PROVE  \/ calls'[c] = calls[c]
             \/ /\ calls[c] # None /\ calls[c].pc = "waiting" /\ calls'[c] # None
                /\ calls'[c].pc = "woken" /\ calls'[c].create = calls[c].create
                /\ calls'[c].seen = calls[c].seen
  <2>1. CASE calls[c] # None /\ calls[c].pc = "waiting"
    <3>1. calls'[c] = [calls[c] EXCEPT !.pc = "woken"]
      BY <1>3, <2>1
    <3>2. calls'[c] # None
      BY <1>1, <2>1, <3>1, ServiceLbAssumption
    <3> QED
      BY <1>2, <2>1, <3>1, <3>2
  <2>2. CASE ~(calls[c] # None /\ calls[c].pc = "waiting")
    <3>1. calls'[c] = calls[c]
      BY <1>3, <2>2
    <3> QED
      BY <3>1
  <2> QED
    BY <2>1, <2>2
<1> QED
  BY <1>4, <1>5

\* The VIPs of frontends are put up.
LEMMA PutUpType ==
  ASSUME TypeOK, NEW ns \in SUBSET Networks, NEW given \in [ns -> Vips \cup {IpamVip}], PutUp(given)
  PROVE  /\ lbs' \in [Networks -> LoadBalancer \cup {None}]
         /\ owned' \in [Networks -> SUBSET (Vips \cup {IpamVip})]
<1>1. \A n \in ns : lbs[n] # None => [lbs[n] EXCEPT !.vip = given[n]] \in LoadBalancer
  BY DEF TypeOK, LoadBalancer
<1>2. DOMAIN given = ns /\ \A n \in ns : given[n] \in Vips \cup {IpamVip}
  OBVIOUS
<1>3. lbs' \in [Networks -> LoadBalancer \cup {None}]
  <2>1. \A n \in Networks : lbs[n] \in LoadBalancer \cup {None}
    BY DEF TypeOK
  <2>2. lbs' = [n \in Networks |-> IF n \in ns /\ lbs[n] # None
                                  THEN [lbs[n] EXCEPT !.vip = given[n]] ELSE lbs[n]]
    BY <1>2 DEF PutUp
  <2> QED
    BY <1>1, <2>1, <2>2
<1>4. owned' \in [Networks -> SUBSET (Vips \cup {IpamVip})]
  <2>1. \A n \in Networks : owned[n] \in SUBSET (Vips \cup {IpamVip})
    BY DEF TypeOK
  <2>2. owned' = [n \in Networks |-> IF n \in ns /\ stored[n] = None
                                    THEN owned[n] \cup {given[n]} ELSE owned[n]]
    BY <1>2 DEF PutUp
  <2> QED
    BY <1>2, <2>1, <2>2
<1> QED
  BY <1>3, <1>4

\* Releasing takes addresses away.
LEMMA ReleaseType ==
  ASSUME TypeOK, NEW seen, NEW ns, ReleaseVips(seen, ns)
  PROVE  owned' \in [Networks -> SUBSET (Vips \cup {IpamVip})]
BY DEF ReleaseVips, TypeOK

\* The addresses published are those of networks of the snapshot.
LEMMA PublishType ==
  ASSUME TypeOK, Held, NEW c \in Calls, At(c, "frontends"), PublishVips(c) \/ PublishFailed(c)
  PROVE  /\ lbs' \in [Networks -> LoadBalancer \cup {None}]
         /\ owned' \in [Networks -> SUBSET (Vips \cup {IpamVip})]
         /\ stored' \in [Networks -> Vips \cup {IpamVip, None}]
         /\ service' \in Service
         /\ calls' \in [Calls -> Call \cup {None}]
<1>1. calls[c] # None /\ calls[c].seen \in Snapshot
  BY DEF At, Held, TypeOK, Call
<1>2. calls[c].seen.ipam \in SUBSET Networks
  BY <1>1 DEF Snapshot
<1>3. CASE PublishVips(c)
  <2>1. PICK given \in [calls[c].seen.ipam -> Vips \cup {IpamVip}] :
          PutUp(given) /\ stored' = StoredVips(given) /\ service' = [service EXCEPT !.vips = stored']
    BY <1>3 DEF PublishVips
  <2>2. stored' \in [Networks -> Vips \cup {IpamVip, None}]
    BY <2>1 DEF StoredVips
  <2>3. service' \in Service
    BY <2>1, <2>2 DEF TypeOK, Service
  <2>4. calls' \in [Calls -> Call \cup {None}]
    BY <1>1, <1>3, GotoType, EndType DEF PublishVips, Phases
  <2> QED
    BY <1>2, <2>1, <2>2, <2>3, <2>4, PutUpType
<1>4. CASE PublishFailed(c)
  <2>1. PICK ns \in SUBSET Networks : \E given \in [ns -> Vips \cup {IpamVip}] : PutUp(given)
    <3> DEFINE noLb == {n \in calls[c].seen.ipam : lbs[n] = None}
               noVip == {n \in calls[c].seen.ipam : VipsFor(n) = {}}
    <3>1. PICK some \in SUBSET (calls[c].seen.ipam \ (noLb \cup noVip)), last \in noLb \cup noVip :
            \E given \in [some \cup ({last} \ noVip) -> Vips \cup {IpamVip}] : PutUp(given)
      BY <1>4 DEF PublishFailed
    <3>2. some \cup ({last} \ noVip) \in SUBSET Networks
      BY <1>2, <3>1
    <3> QED
      BY <3>1, <3>2
  <2>2. UNCHANGED <<stored, service>> /\ calls' = [calls EXCEPT ![c] = None]
    BY <1>4 DEF PublishFailed
  <2> QED
    BY <2>1, <2>2, PutUpType, EndType DEF TypeOK
<1> QED
  BY <1>3, <1>4

\* Calls can be counted.
LEMMA CallingType ==
  ASSUME NEW pc
  PROVE  IsFiniteSet(Calling(pc)) /\ Cardinality(Calling(pc)) \in Nat
<1>1. IsFiniteSet(Calling(pc))
  BY FS_Subset, ServiceLbAssumption DEF Calling
<1> QED
  BY <1>1, FS_CardinalityType

\* Every step of the services' goroutine keeps the types.
LEMMA ServicesType ==
  ASSUME TypeOK, Held, Subscribed, ServicesStep
  PROVE  TypeOK'
<1> USE DEF docker, management, events
<1>1. CASE SetEndpointMode
  <2>1. service' \in Service /\ applied' \in Specs \cup {None}
    BY <1>1 DEF SetEndpointMode, TypeOK, Service, Specs
  <2>2. subs["mode"] \in Nat
    BY ServiceLbAssumption DEF TypeOK, Subs
  <2>3. \/ services' = [Idle EXCEPT !.pc = "delete", !.left = subs["mode"]]
        \/ services' = [Idle EXCEPT !.pc = "networks"]
    BY <1>1 DEF SetEndpointMode
  <2>4. \/ services' = [pc |-> "delete", left |-> subs["mode"], raise |-> FALSE, initialize |-> FALSE]
        \/ services' = [pc |-> "networks", left |-> 0, raise |-> FALSE, initialize |-> FALSE]
    BY <2>3 DEF Idle
  <2>5. services' \in [pc : States, left : Nat, raise : BOOLEAN, initialize : BOOLEAN]
    <3>1. "delete" \in States /\ "networks" \in States /\ 0 \in Nat
      BY DEF States
    <3>2. [pc |-> "delete", left |-> subs["mode"], raise |-> FALSE, initialize |-> FALSE]
            \in [pc : States, left : Nat, raise : BOOLEAN, initialize : BOOLEAN]
      BY <2>2, <3>1
    <3>3. [pc |-> "networks", left |-> 0, raise |-> FALSE, initialize |-> FALSE]
            \in [pc : States, left : Nat, raise : BOOLEAN, initialize : BOOLEAN]
      BY <3>1
    <3> QED
      BY <2>4, <3>2, <3>3, Zenon
  <2> QED
    BY <1>1, <2>1, <2>5 DEF SetEndpointMode, TypeOK, States
<1>2. CASE SetNetworks
  <2>1. applied \in Specs
    BY <1>2 DEF SetNetworks, Held, TypeOK
  <2>2. service' \in Service
    BY <1>2, <2>1 DEF SetNetworks, TypeOK, Service, Specs
  <2>3. services' = [pc |-> "ipam", left |-> 0, raise |-> (service.networks # applied.networks),
                     initialize |-> ~Initialized(service)]
    BY <1>2 DEF SetNetworks, Idle
  <2>4. services' \in [pc : States, left : Nat, raise : BOOLEAN, initialize : BOOLEAN]
    BY <2>3 DEF States
  <2> QED
    BY <1>2, <2>2, <2>4 DEF SetNetworks, TypeOK, States
<1>3. CASE SetIpamVIPs
  <2>1. applied \in Specs
    BY <1>3 DEF SetIpamVIPs, Held, TypeOK
  <2>2. service' \in Service
    BY <1>3, <2>1 DEF SetIpamVIPs, TypeOK, Service, Specs
  <2>3. calls' \in [Calls -> Call \cup {None}]
    <3>1. \E n : Spawn(n, TRUE) \/ Spawn(n, FALSE)
      BY <1>3, Zenon DEF SetIpamVIPs
    <3> QED
      BY <3>1, SpawnType
  <2>4. services' \in [pc : States, left : Nat, raise : BOOLEAN, initialize : BOOLEAN]
    BY <1>3 DEF SetIpamVIPs, Idle, States
  <2> QED
    BY <1>3, <2>2, <2>3, <2>4 DEF SetIpamVIPs, TypeOK, States
<1>4. CASE ServiceRemoved
  <2>1. \/ services' = [pc |-> "delete", left |-> 1, raise |-> FALSE, initialize |-> FALSE]
        \/ services' = [pc |-> "idle", left |-> 0, raise |-> FALSE, initialize |-> FALSE]
    BY <1>4 DEF ServiceRemoved, Idle
  <2>2. services' \in [pc : States, left : Nat, raise : BOOLEAN, initialize : BOOLEAN]
    <3>1. "delete" \in States /\ "idle" \in States /\ 0 \in Nat /\ 1 \in Nat
      BY DEF States
    <3>2. [pc |-> "delete", left |-> 1, raise |-> FALSE, initialize |-> FALSE]
            \in [pc : States, left : Nat, raise : BOOLEAN, initialize : BOOLEAN]
      BY <3>1
    <3>3. [pc |-> "idle", left |-> 0, raise |-> FALSE, initialize |-> FALSE]
            \in [pc : States, left : Nat, raise : BOOLEAN, initialize : BOOLEAN]
      BY <3>1
    <3> QED
      BY <2>1, <3>2, <3>3, Zenon
  <2> QED
    BY <1>4, <2>2 DEF ServiceRemoved, TypeOK, States
<1>5. CASE NothingToDelete
  BY <1>5, DeletedType DEF NothingToDelete, TypeOK, States
<1>6. ASSUME NEW pc \in States, services' = [services EXCEPT !.pc = pc]
      PROVE  services' \in [pc : States, left : Nat, raise : BOOLEAN, initialize : BOOLEAN]
  BY <1>6 DEF TypeOK, States
<1>7. CASE Delete
  <2>1. \E pc \in States : services' = [services EXCEPT !.pc = pc]
    BY <1>7 DEF Delete, States
  <2> QED
    BY <1>6, <1>7, <2>1 DEF Delete, TypeOK, States
<1>8. CASE Unsubscribe
  <2>1. services' \in [pc : States, left : Nat, raise : BOOLEAN, initialize : BOOLEAN]
    BY <1>6, <1>8 DEF Unsubscribe, States
  <2>2. \A e \in DOMAIN subs : e # "mode" => subs[e] - 1 \in Subs
    BY <1>8, CallingType, ServiceLbAssumption DEF Unsubscribe, Subscribed, TypeOK, Subs
  <2>3. subs' \in [{"networks", "added", "removed", "mode"} -> Subs]
    BY <1>8, <2>2 DEF Unsubscribe, TypeOK
  <2> QED
    BY <1>8, <2>1, <2>3 DEF Unsubscribe, TypeOK, States
<1>9. CASE Dismantle
  <2>1. owned' \in [Networks -> SUBSET (Vips \cup {IpamVip})]
    BY <1>9, ReleaseType DEF Dismantle
  <2>2. lbs' \in [Networks -> LoadBalancer \cup {None}]
    BY <1>9 DEF Dismantle
  <2>3. stored' \in [Networks -> Vips \cup {IpamVip, None}]
    BY <1>9 DEF Dismantle, TypeOK
  <2> QED
    BY <1>9, <2>1, <2>2, <2>3, DeletedType DEF Dismantle, TypeOK, States
<1> QED
  BY <1>1, <1>2, <1>3, <1>4, <1>5, <1>7, <1>8, <1>9 DEF ServicesStep

\* Every step of a call keeps the types.
LEMMA CallType ==
  ASSUME TypeOK, Held, NEW c \in Calls, CallStep(c)
  PROVE  TypeOK'
<1> USE DEF docker, management, events
<1>0. calls[c] # None /\ calls[c] \in Call
  BY DEF CallStep, Start, Read, Check, Wait, Ensure, Publish, Subscribe, At, TypeOK
<1>1. CASE Start(c)
  <2>1. [networks |-> service.networks, ipam |-> {}, vips |-> service.vips] \in Snapshot
    BY DEF TypeOK, Service, Snapshot
  <2>2. calls' \in [Calls -> Call \cup {None}]
    BY <1>0, <1>1, <2>1 DEF Start, TypeOK, Call, Phases
  <2> QED
    BY <1>1, <2>2 DEF Start, TypeOK
<1>2. CASE Read(c)
  <2>1. calls[c].seen \in Snapshot
    BY <1>0, <1>2 DEF Read, At, Held, Call
  <2>2. PICK vips \in {calls[c].seen.vips, service.vips} :
          calls' = [calls EXCEPT ![c].pc = "checking",
                                 ![c].seen = [networks |-> calls[c].seen.networks,
                                              ipam |-> service.ipam, vips |-> vips]]
    BY <1>2 DEF Read
  <2>3. [networks |-> calls[c].seen.networks, ipam |-> service.ipam, vips |-> vips] \in Snapshot
    BY <2>1, <2>2 DEF TypeOK, Service, Snapshot
  <2>4. calls' \in [Calls -> Call \cup {None}]
    BY <1>0, <2>2, <2>3 DEF TypeOK, Call, Phases
  <2> QED
    BY <1>2, <2>4 DEF Read, TypeOK
<1>3. CASE Check(c) \/ Wait(c)
  <2>1. \E pc \in Phases : Goto(c, pc)
    BY <1>3 DEF Check, Wait, Phases
  <2> QED
    BY <1>0, <1>3, <2>1, GotoType DEF Check, Wait, TypeOK
<1>4. CASE Ensure(c)
  <2>1. NewLb \in LoadBalancer
    BY DEF NewLb, LoadBalancer
  <2>2. lbs' \in [Networks -> LoadBalancer \cup {None}]
    BY <1>4, <2>1 DEF Ensure, TypeOK
  <2>3. owned' \in [Networks -> SUBSET (Vips \cup {IpamVip})]
    <3>1. UNCHANGED owned \/ \E seen, ns : ReleaseVips(seen, ns)
      BY <1>4 DEF Ensure
    <3> QED
      BY <3>1, ReleaseType DEF TypeOK
  <2>4. calls' \in [Calls -> Call \cup {None}]
    <3>1. Goto(c, "frontends") \/ calls' = [calls EXCEPT ![c] = None]
      BY <1>4 DEF Ensure
    <3> QED
      BY <1>0, <3>1, GotoType, EndType DEF Phases
  <2>5. m' \in Calls \cup {"services", None}
    BY <1>4 DEF Ensure, TypeOK
  <2> QED
    BY <1>4, <2>2, <2>3, <2>4, <2>5 DEF Ensure, TypeOK
<1>5. CASE Publish(c)
  BY <1>5, PublishType DEF Publish, TypeOK
<1>6. CASE Subscribe(c)
  <2>1. PICK e \in DOMAIN subs :
          /\ subs[e] < MaxSubs /\ subs' = [subs EXCEPT ![e] = @ + 1]
          /\ unsubscriber' = (unsubscriber \/ e = "removed")
          /\ calls' = [calls EXCEPT ![c] =
                         CASE e = "networks" -> [@ EXCEPT !.pc = "added"]
                           [] e = "added" -> [@ EXCEPT !.pc = "removed"]
                           [] e = "removed" -> [@ EXCEPT !.pc = "mode"]
                           [] e = "mode" -> None]
    BY <1>6 DEF Subscribe
  <2>2. e \in {"networks", "added", "removed", "mode"}
    BY <2>1 DEF TypeOK
  <2>3. subs[e] + 1 \in Subs
    BY <2>1, <2>2, ServiceLbAssumption DEF TypeOK, Subs
  <2>4. subs' \in [{"networks", "added", "removed", "mode"} -> Subs]
    BY <2>1, <2>2, <2>3 DEF TypeOK
  <2>5. \E pc \in Phases : Goto(c, pc) \/ calls' = [calls EXCEPT ![c] = None]
    <3>1. CASE e = "networks"
      BY <2>1, <3>1 DEF Goto, Phases
    <3>2. CASE e = "added"
      BY <2>1, <3>2 DEF Goto, Phases
    <3>3. CASE e = "removed"
      BY <2>1, <3>3 DEF Goto, Phases
    <3>4. CASE e = "mode"
      BY <2>1, <3>4 DEF Phases
    <3> QED
      BY <2>2, <3>1, <3>2, <3>3, <3>4
  <2>6. calls' \in [Calls -> Call \cup {None}]
    BY <1>0, <2>5, GotoType, EndType
  <2> QED
    BY <1>6, <2>1, <2>4, <2>6 DEF Subscribe, TypeOK
<1> QED
  BY <1>1, <1>2, <1>3, <1>4, <1>5, <1>6 DEF CallStep

\* Every step keeps the types.
LEMMA TypeStep ==
  ASSUME TypeOK, Held, Subscribed, [Next]_vars
  PROVE  TypeOK'
<1> USE DEF docker, management, events
<1>1. CASE ServiceUpdated
  <2>1. changes' \in 0 .. MaxChanges
    BY <1>1, ServiceLbAssumption DEF ServiceUpdated, TypeOK
  <2> QED
    BY <1>1, <2>1 DEF ServiceUpdated, TypeOK
<1>2. CASE ServicesStep
  BY <1>2, ServicesType
<1>3. ASSUME NEW n \in Networks, NetworkRegistered(n)
      PROVE  TypeOK'
  <2>1. calls' \in [Calls -> Call \cup {None}]
    BY <1>3, BroadcastType DEF NetworkRegistered
  <2> QED
    BY <1>3, <2>1 DEF NetworkRegistered, TypeOK
<1>4. ASSUME NEW n \in Networks, NetworkRemoved(n)
      PROVE  TypeOK'
  <2>1. calls' \in [Calls -> Call \cup {None}]
    BY <1>4, BroadcastType DEF NetworkRemoved
  <2> QED
    BY <1>4, <2>1 DEF NetworkRemoved, TypeOK
<1>5. ASSUME NEW c \in Calls, CallStep(c)
      PROVE  TypeOK'
  BY <1>5, CallType
<1>6. ASSUME NEW c \in Containers, ContainerAdded(c) \/ ContainerRemoved(c)
      PROVE  TypeOK'
  <2>0. /\ spec.networks \in SUBSET Networks
        /\ networksOf[c] # None => networksOf[c] \in SUBSET Networks
    <3>1. spec \in Specs /\ networksOf \in [Containers -> (SUBSET Networks) \cup {None}]
      BY DEF TypeOK
    <3>2. spec.networks \in SUBSET Networks
      BY <3>1 DEF Specs
    <3> QED
      BY <1>6, <3>1, <3>2
  <2>1. PICK e \in {"added", "removed"}, ns \in SUBSET Networks : Raise(e, c, ns)
    <3>1. CASE ContainerAdded(c)
      BY <2>0, <3>1 DEF ContainerAdded
    <3>2. CASE ContainerRemoved(c)
      BY <2>0, <3>2 DEF ContainerRemoved
    <3> QED
      BY <1>6, <3>1, <3>2
  <2>2. subs[e] \in Subs
    BY DEF TypeOK
  <2>3. raising' \in [event : {"added", "removed"}, container : Containers,
                      networks : SUBSET Networks, left : Subs] \cup {None}
    BY <2>1, <2>2 DEF Raise
  <2>4. networksOf' \in [Containers -> (SUBSET Networks) \cup {None}]
    <3>1. networksOf' = [networksOf EXCEPT ![c] = spec.networks]
          \/ networksOf' = [networksOf EXCEPT ![c] = None]
      BY <1>6 DEF ContainerAdded, ContainerRemoved
    <3>2. \A xs \in (SUBSET Networks) \cup {None} :
            [networksOf EXCEPT ![c] = xs] \in [Containers -> (SUBSET Networks) \cup {None}]
      BY DEF TypeOK
    <3> QED
      BY <2>0, <3>1, <3>2
  <2> QED
    BY <1>6, <2>3, <2>4 DEF ContainerAdded, ContainerRemoved, TypeOK
<1>7. CASE Backends
  <2>1. raising \in [event : {"added", "removed"}, container : Containers,
                     networks : SUBSET Networks, left : Subs]
    BY <1>7 DEF Backends, TypeOK
  <2>2. PICK reached \in SUBSET Balanced :
          lbs' = [n \in Networks |->
                    IF n \notin reached THEN lbs[n]
                    ELSE [lbs[n] EXCEPT !.backends =
                            IF raising.event = "added" THEN @ \cup {raising.container}
                            ELSE @ \ {raising.container}]]
    <3> DEFINE there == raising.networks \cap (IF hasLbs THEN Balanced ELSE {})
    <3>1. there \subseteq Balanced
      OBVIOUS
    <3>2. PICK reached \in SUBSET there :
            lbs' = [n \in Networks |->
                      IF n \notin reached THEN lbs[n]
                      ELSE [lbs[n] EXCEPT !.backends =
                              IF raising.event = "added" THEN @ \cup {raising.container}
                              ELSE @ \ {raising.container}]]
      BY <1>7 DEF Backends
    <3> QED
      BY <3>1, <3>2
  <2>3. \A n \in reached : lbs[n] \in LoadBalancer
    BY <2>2 DEF Balanced, TypeOK
  <2>4. lbs' \in [Networks -> LoadBalancer \cup {None}]
    <3>1. \A n \in reached :
            /\ [lbs[n] EXCEPT !.backends = @ \cup {raising.container}] \in LoadBalancer
            /\ [lbs[n] EXCEPT !.backends = @ \ {raising.container}] \in LoadBalancer
      BY <2>1, <2>3 DEF LoadBalancer
    <3> QED
      BY <2>2, <3>1 DEF TypeOK
  <2>5. raising' \in [event : {"added", "removed"}, container : Containers,
                      networks : SUBSET Networks, left : Subs] \cup {None}
    <3>1. CASE raising.left > 1
      <4>1. raising.left - 1 \in Subs
        BY <2>1, <3>1, ServiceLbAssumption DEF Subs
      <4>2. raising' = [raising EXCEPT !.left = raising.left - 1]
        BY <1>7, <3>1 DEF Backends
      <4> QED
        BY <2>1, <4>1, <4>2
    <3>2. CASE ~(raising.left > 1)
      BY <1>7, <3>2 DEF Backends
    <3> QED
      BY <3>1, <3>2
  <2> QED
    BY <1>7, <2>4, <2>5 DEF Backends, TypeOK
<1>8. CASE UNCHANGED vars
  BY <1>8 DEF vars, TypeOK
<1> QED
  BY <1>1, <1>2, <1>3, <1>4, <1>5, <1>6, <1>7, <1>8 DEF Next

-----------------------------------------------------------------------------
(* The mutex and the subscriptions.                                        *)

\* How a call begins, before it has the mutex.
LEMMA CallBegins ==
  ASSUME TypeOK, Held, NEW c \in Calls, Start(c) \/ Read(c) \/ Check(c) \/ Wait(c)
  PROVE  /\ calls[c] # None /\ calls[c].pc \in Before /\ calls[c].pc # "ready"
         /\ calls'[c] # None /\ calls'[c].pc \in Before /\ calls'[c].pc # "start"
         /\ calls'[c].create = calls[c].create /\ calls'[c].seen \in Snapshot
         /\ \A d \in Calls \ {c} : calls'[d] = calls[d]
<1>0. calls[c] # None /\ calls[c] \in Call
  BY DEF Start, Read, Check, Wait, At, TypeOK
<1>1. calls[c].pc # "start" => calls[c].seen \in Snapshot
  BY <1>0 DEF Held, Call
<1>2. ASSUME NEW pc \in Phases, NEW seen \in Snapshot,
             calls' = [calls EXCEPT ![c].pc = pc, ![c].seen = seen]
      PROVE  /\ calls'[c] # None /\ calls'[c].pc = pc /\ calls'[c].seen = seen
             /\ calls'[c].create = calls[c].create
             /\ \A d \in Calls \ {c} : calls'[d] = calls[d]
  <2>1. /\ calls'[c] = [pc |-> pc, create |-> calls[c].create, seen |-> seen]
        /\ \A d \in Calls \ {c} : calls'[d] = calls[d]
    BY <1>0, <1>2 DEF TypeOK, Call
  <2>2. calls'[c] \in Call
    BY <1>0, <2>1 DEF Call
  <2> QED
    BY <2>1, <2>2, ServiceLbAssumption
<1>3. CASE Start(c)
  <2>1. [networks |-> service.networks, ipam |-> {}, vips |-> service.vips] \in Snapshot
    BY DEF TypeOK, Service, Snapshot
  <2>2. "reading" \in Phases /\ "reading" \in Before /\ "start" \in Before
    BY DEF Phases, Before
  <2>3. calls[c].pc = "start"
    BY <1>3 DEF Start, At
  <2>4. /\ calls'[c] # None /\ calls'[c].pc = "reading" /\ calls'[c].seen \in Snapshot
        /\ calls'[c].create = calls[c].create
        /\ \A d \in Calls \ {c} : calls'[d] = calls[d]
    <3> DEFINE seen == [networks |-> service.networks, ipam |-> {}, vips |-> service.vips]
    <3>1. calls' = [calls EXCEPT ![c].pc = "reading", ![c].seen = seen]
      BY <1>3 DEF Start
    <3> HIDE DEF seen
    <3>2. seen \in Snapshot
      BY <2>1 DEF seen
    <3>4. /\ calls'[c] # None /\ calls'[c].pc = "reading" /\ calls'[c].seen = seen
          /\ calls'[c].create = calls[c].create
          /\ \A d \in Calls \ {c} : calls'[d] = calls[d]
      BY <1>2, <2>2, <3>1, <3>2, Zenon
    <3> QED
      BY <3>2, <3>4
  <2> QED
    BY <1>0, <2>2, <2>3, <2>4
<1>4. CASE Read(c)
  <2>1. calls[c].pc = "reading"
    BY <1>4 DEF Read, At
  <2>2. \A vips \in {calls[c].seen.vips, service.vips} :
          [networks |-> calls[c].seen.networks, ipam |-> service.ipam, vips |-> vips] \in Snapshot
    BY <1>1, <2>1 DEF TypeOK, Service, Snapshot
  <2>3. "checking" \in Phases /\ "checking" \in Before /\ "reading" \in Before
    BY DEF Phases, Before
  <2>4. /\ calls'[c] # None /\ calls'[c].pc = "checking" /\ calls'[c].seen \in Snapshot
        /\ calls'[c].create = calls[c].create
        /\ \A d \in Calls \ {c} : calls'[d] = calls[d]
    <3>1. PICK vips \in {calls[c].seen.vips, service.vips} :
            calls' = [calls EXCEPT ![c].pc = "checking",
                                   ![c].seen = [networks |-> calls[c].seen.networks,
                                                ipam |-> service.ipam, vips |-> vips]]
      BY <1>4 DEF Read
    <3> DEFINE seen == [networks |-> calls[c].seen.networks, ipam |-> service.ipam, vips |-> vips]
    <3>2. seen \in Snapshot
      BY <2>2
    <3>3. calls' = [calls EXCEPT ![c].pc = "checking", ![c].seen = seen]
      BY <3>1
    <3> HIDE DEF seen
    <3>4. /\ calls'[c] # None /\ calls'[c].pc = "checking" /\ calls'[c].seen = seen
          /\ calls'[c].create = calls[c].create
          /\ \A d \in Calls \ {c} : calls'[d] = calls[d]
      BY <1>2, <2>3, <3>2, <3>3, Zenon
    <3> QED
      BY <3>2, <3>4
  <2> QED
    BY <1>0, <2>1, <2>3, <2>4
<1>5. CASE Check(c) \/ Wait(c)
  <2>1. calls[c].pc \in {"checking", "woken", "missing"}
    BY <1>5 DEF Check, Wait, At
  <2>2. PICK pc \in {"missing", "ready", "waiting"} : Goto(c, pc)
    BY <1>5 DEF Check, Wait
  <2>3. pc \in Phases /\ pc \in Before /\ pc # "start"
    BY DEF Phases, Before
  <2> QED
    BY <1>0, <1>1, <2>1, <2>2, <2>3, GotoType DEF Before
<1> QED
  BY <1>3, <1>4, <1>5

\* How a call goes on once it has published.
LEMMA SubscribeShape ==
  ASSUME TypeOK, NEW c \in Calls, Subscribe(c)
  PROVE  \E e \in {"networks", "added", "removed", "mode"} :
           /\ calls[c] # None /\ calls[c].pc = e
           /\ e = "networks" => calls'[c] # None /\ calls'[c].pc = "added"
           /\ e = "added" => calls'[c] # None /\ calls'[c].pc = "removed"
           /\ e = "removed" => calls'[c] # None /\ calls'[c].pc = "mode"
           /\ e = "mode" => calls'[c] = None
           /\ calls'[c] # None => /\ calls'[c].create = calls[c].create
                                  /\ calls'[c].seen = calls[c].seen
           /\ \A d \in Calls \ {c} : calls'[d] = calls[d]
           /\ subs'[e] = subs[e] + 1
           /\ \A f \in {"networks", "added", "removed", "mode"} \ {e} : subs'[f] = subs[f]
           /\ unsubscriber' = (unsubscriber \/ e = "removed")
           /\ e \notin RaisedEvents
<1>1. PICK e \in DOMAIN subs :
        /\ At(c, e) /\ e \notin RaisedEvents
        /\ subs' = [subs EXCEPT ![e] = @ + 1]
        /\ unsubscriber' = (unsubscriber \/ e = "removed")
        /\ calls' = [calls EXCEPT ![c] =
                       CASE e = "networks" -> [@ EXCEPT !.pc = "added"]
                         [] e = "added" -> [@ EXCEPT !.pc = "removed"]
                         [] e = "removed" -> [@ EXCEPT !.pc = "mode"]
                         [] e = "mode" -> None]
  BY DEF Subscribe
<1>2. e \in {"networks", "added", "removed", "mode"} /\ calls[c] # None /\ calls[c].pc = e
  BY <1>1 DEF TypeOK, At
<1>3. /\ subs'[e] = subs[e] + 1
      /\ \A f \in {"networks", "added", "removed", "mode"} \ {e} : subs'[f] = subs[f]
  BY <1>1 DEF TypeOK
<1>4. CASE e = "networks"
  <2>1. Goto(c, "added")
    BY <1>1, <1>4 DEF Goto
  <2> QED
    BY <1>1, <1>2, <1>3, <1>4, <2>1, GotoType DEF Phases
<1>5. CASE e = "added"
  <2>1. Goto(c, "removed")
    BY <1>1, <1>5 DEF Goto
  <2> QED
    BY <1>1, <1>2, <1>3, <1>5, <2>1, GotoType DEF Phases
<1>6. CASE e = "removed"
  <2>1. Goto(c, "mode")
    BY <1>1, <1>6 DEF Goto
  <2> QED
    BY <1>1, <1>2, <1>3, <1>6, <2>1, GotoType DEF Phases
<1>7. CASE e = "mode"
  <2>1. calls' = [calls EXCEPT ![c] = None]
    BY <1>1, <1>7
  <2> QED
    BY <1>1, <1>2, <1>3, <1>7, <2>1, EndType
<1> QED
  BY <1>2, <1>4, <1>5, <1>6, <1>7

\* With the mutex a call goes on to the frontends, or it ends.
LEMMA EnsureShape ==
  ASSUME TypeOK, NEW c \in Calls, Ensure(c)
  PROVE  /\ calls[c] # None /\ calls[c].pc = "ready" /\ m = None
         /\ \/ /\ m' = c /\ calls'[c] # None /\ calls'[c].pc = "frontends"
               /\ calls'[c].create = calls[c].create /\ calls'[c].seen = calls[c].seen
            \/ m' = None /\ calls'[c] = None
         /\ \A d \in Calls \ {c} : calls'[d] = calls[d]
<1>1. calls[c] # None /\ calls[c].pc = "ready" /\ m = None
  BY DEF Ensure, At
<1>2. \/ m' = c /\ Goto(c, "frontends")
      \/ m' = None /\ calls' = [calls EXCEPT ![c] = None]
  BY DEF Ensure
<1> QED
  BY <1>1, <1>2, GotoType, EndType DEF Phases

\* The mutex is let go of when the VIPs are published, and when that failed.
LEMMA PublishShape ==
  ASSUME TypeOK, NEW c \in Calls, Publish(c)
  PROVE  /\ calls[c] # None /\ calls[c].pc = "frontends" /\ m' = None
         /\ \/ /\ PublishVips(c) /\ calls[c].create /\ calls'[c] # None
               /\ calls'[c].pc = "networks"
               /\ calls'[c].create = calls[c].create /\ calls'[c].seen = calls[c].seen
            \/ calls'[c] = None /\ (calls[c].create => PublishFailed(c))
         /\ \A d \in Calls \ {c} : calls'[d] = calls[d]
<1>1. calls[c] # None /\ calls[c].pc = "frontends" /\ m' = None
  BY DEF Publish, At
<1>2. \/ PublishVips(c) /\ calls[c].create /\ Goto(c, "networks")
      \/ calls' = [calls EXCEPT ![c] = None] /\ (calls[c].create => PublishFailed(c))
  BY DEF Publish, PublishVips, PublishFailed
<1> QED
  BY <1>1, <1>2, GotoType, EndType DEF Phases

\* Only calls that start come, wake or stay: who held the mutex holds it, and who had it not
\* has not got it.
LEMMA HeldFrame ==
  ASSUME Held,
         \A c \in Calls :
           \/ calls'[c] = calls[c]
           \/ calls[c] = None /\ calls'[c] # None /\ calls'[c].pc = "start"
           \/ /\ calls[c] # None /\ calls[c].pc = "waiting" /\ calls'[c] # None
              /\ calls'[c].pc = "woken" /\ calls'[c].seen = calls[c].seen
  PROVE  /\ \A c \in Calls : At(c, "frontends")' <=> At(c, "frontends")
         /\ \A c \in Calls : calls'[c] # None /\ calls'[c].pc # "start" => calls'[c].seen # None
BY DEF Held, At

\* Every step keeps to the mutex.
LEMMA HeldStep ==
  ASSUME TypeOK, Held, [Next]_vars
  PROVE  Held'
<1> USE DEF docker, management, events
<1>c. "services" \notin Calls /\ None \notin Calls /\ None \notin Specs /\ None \notin Snapshot
  BY ServiceLbAssumption
<1>d. "services" # None
  BY ServiceLbAssumption
<1>1. CASE ServiceUpdated \/ Backends \/ (\E c \in Containers : ContainerAdded(c) \/ ContainerRemoved(c))
  <2>1. UNCHANGED <<applied, services, calls, m>>
    BY <1>1 DEF ServiceUpdated, Backends, ContainerAdded, ContainerRemoved
  <2> QED
    BY <2>1 DEF Held, At
<1>2. CASE \E n \in Networks : NetworkRegistered(n) \/ NetworkRemoved(n)
  <2>1. UNCHANGED <<applied, services, m>> /\ Broadcast
    BY <1>2 DEF NetworkRegistered, NetworkRemoved
  <2> QED
    BY <2>1, BroadcastType, HeldFrame DEF Held
<1>3. CASE SetIpamVIPs
  <2>1. UNCHANGED <<applied, m>> /\ services.pc = "ipam" /\ services'.pc = "idle"
    BY <1>3 DEF SetIpamVIPs, Idle
  <2>2. \E n : Spawn(n, TRUE) \/ Spawn(n, FALSE)
    BY <1>3, Zenon DEF SetIpamVIPs
  <2>3. \A c \in Calls : \/ calls'[c] = calls[c]
                         \/ calls[c] = None /\ calls'[c] # None /\ calls'[c].pc = "start"
    <3>1. PICK n : Spawn(n, TRUE) \/ Spawn(n, FALSE)
      BY <2>2
    <3> QED
      BY <3>1, SpawnType
  <2> QED
    BY <2>1, <2>3, HeldFrame DEF Held
<1>4. CASE SetEndpointMode \/ SetNetworks \/ ServiceRemoved \/ NothingToDelete
  <2>1. /\ UNCHANGED <<calls, m>> /\ services.pc \notin {"unsubscribe", "dismantle"}
        /\ services'.pc \notin {"unsubscribe", "dismantle"}
        /\ applied' = spec \/ (applied' = applied /\ services.pc # "idle")
    <3>1. CASE SetEndpointMode
      BY <3>1 DEF SetEndpointMode, Idle
    <3>2. CASE SetNetworks
      BY <3>2 DEF SetNetworks, Idle
    <3>3. CASE ServiceRemoved
      BY <3>3 DEF ServiceRemoved, Idle
    <3>4. CASE NothingToDelete
      BY <3>4, DeletedType DEF NothingToDelete
    <3> QED
      BY <1>4, <3>1, <3>2, <3>3, <3>4
  <2>2. applied' # None
    <3>1. spec \in Specs /\ (services.pc # "idle" => applied # None)
      BY DEF Held, TypeOK
    <3> QED
      BY <1>c, <2>1, <3>1
  <2> QED
    BY <2>1, <2>2 DEF Held, At
<1>5. CASE Delete \/ Unsubscribe \/ Dismantle
  <2>1. /\ UNCHANGED <<applied, calls>> /\ applied # None
        /\ m' = "services" <=> services'.pc \in {"unsubscribe", "dismantle"}
        /\ m' \in {"services", None} /\ m \in {"services", None}
    <3>0. services.pc \in States
      BY DEF TypeOK, States
    <3>1. CASE Delete
      <4>1. services'.pc \in {"unsubscribe", "dismantle"} /\ services.pc = "delete"
        BY <3>1 DEF Delete, TypeOK
      <4> QED
        BY <3>1, <4>1 DEF Delete, Held
    <3>2. CASE Unsubscribe
      <4>1. services'.pc = "dismantle" /\ services.pc = "unsubscribe"
        BY <3>2 DEF Unsubscribe, TypeOK
      <4> QED
        BY <3>2, <4>1 DEF Unsubscribe, Held
    <3>3. CASE Dismantle
      <4>1. services'.pc \notin {"unsubscribe", "dismantle"} /\ services.pc = "dismantle"
        BY <3>3, DeletedType DEF Dismantle
      <4> QED
        BY <1>d, <3>3, <4>1 DEF Dismantle, Held
    <3> QED
      BY <1>5, <3>1, <3>2, <3>3
  <2> QED
    BY <1>c, <2>1 DEF Held, At
<1>6. ASSUME NEW c \in Calls, CallStep(c)
      PROVE  Held'
  <2>1. UNCHANGED <<applied, services>>
    BY <1>6 DEF CallStep, Start, Read, Check, Wait, Ensure, Publish, Subscribe
  <2>2. CASE Start(c) \/ Read(c) \/ Check(c) \/ Wait(c)
    <3>1. UNCHANGED m
      BY <2>2 DEF Start, Read, Check, Wait
    <3>2. \A d \in Calls : At(d, "frontends")' <=> At(d, "frontends")
      BY <2>2, CallBegins DEF At, Before
    <3> QED
      BY <1>c, <2>1, <2>2, <3>1, <3>2, CallBegins DEF Held
  <2>3. CASE Ensure(c)
    <3>1. \A d \in Calls : m' = d <=> At(d, "frontends")'
      <4>1. \A d \in Calls : ~At(d, "frontends")
        BY <1>c, <2>3, EnsureShape DEF Held
      <4> QED
        BY <1>c, <2>3, <4>1, EnsureShape DEF At
    <3>2. \A d \in Calls : calls'[d] # None /\ calls'[d].pc # "start" => calls'[d].seen # None
      BY <2>3, EnsureShape DEF Held
    <3>3. m \notin {"services"} /\ m' # "services"
      BY <1>c, <1>d, <2>3, EnsureShape
    <3> QED
      BY <2>1, <3>1, <3>2, <3>3 DEF Held
  <2>4. CASE Publish(c)
    <3>1. m = c /\ m' = None
      BY <2>4, PublishShape DEF Held, At
    <3>2. \A d \in Calls : ~At(d, "frontends")'
      <4>1. ~At(c, "frontends")'
        BY <2>4, PublishShape DEF At
      <4>2. \A d \in Calls \ {c} : ~At(d, "frontends")
        BY <3>1 DEF Held
      <4> QED
        BY <2>4, <4>1, <4>2, PublishShape DEF At
    <3>3. \A d \in Calls : calls'[d] # None /\ calls'[d].pc # "start" => calls'[d].seen # None
      BY <2>4, PublishShape DEF Held
    <3>4. m # "services" /\ m' # "services"
      BY <1>c, <1>d, <3>1
    <3> QED
      BY <1>c, <2>1, <3>1, <3>2, <3>3, <3>4 DEF Held
  <2>5. CASE Subscribe(c)
    <3>1. UNCHANGED m
      BY <2>5 DEF Subscribe
    <3> QED
      BY <2>1, <2>5, <3>1, SubscribeShape DEF Held, At
  <2> QED
    BY <1>6, <2>2, <2>3, <2>4, <2>5 DEF CallStep
<1>7. CASE UNCHANGED vars
  BY <1>7 DEF vars, Held, At
<1> QED
  BY <1>1, <1>2, <1>3, <1>4, <1>5, <1>6, <1>7 DEF Next, ServicesStep

\* Where nobody starts or ends to wait for the lock of an event, as many do.
LEMMA CallingFrame ==
  ASSUME NEW pc, \A c \in Calls : At(c, pc)' <=> At(c, pc)
  PROVE  Calling(pc)' = Calling(pc)
BY DEF Calling

\* One more, and one less.
LEMMA CallingChanges ==
  ASSUME NEW pc, NEW c \in Calls, \A d \in Calls \ {c} : At(d, pc)' <=> At(d, pc)
  PROVE  /\ At(c, pc) /\ ~At(c, pc)' =>
              Cardinality(Calling(pc)') = Cardinality(Calling(pc)) - 1
         /\ ~At(c, pc) /\ At(c, pc)' =>
              Cardinality(Calling(pc)') = Cardinality(Calling(pc)) + 1
<1>1. IsFiniteSet(Calling(pc))
  BY CallingType
<1>2. ASSUME At(c, pc), ~At(c, pc)'
      PROVE  Cardinality(Calling(pc)') = Cardinality(Calling(pc)) - 1
  <2>1. Calling(pc)' = Calling(pc) \ {c} /\ c \in Calling(pc)
    BY <1>2 DEF Calling
  <2> QED
    BY <1>1, <2>1, FS_RemoveElement
<1>3. ASSUME ~At(c, pc), At(c, pc)'
      PROVE  Cardinality(Calling(pc)') = Cardinality(Calling(pc)) + 1
  <2>1. Calling(pc)' = Calling(pc) \cup {c} /\ c \notin Calling(pc)
    BY <1>3 DEF Calling
  <2> QED
    BY <1>1, <2>1, FS_AddElement
<1> QED
  BY <1>2, <1>3

\* Every step keeps the order of the subscriptions.
LEMMA SubscribedStep ==
  ASSUME TypeOK, Held, Subscribed, [Next]_vars
  PROVE  Subscribed'
<1> USE DEF docker, management, events
<1>c. /\ \A e \in {"networks", "added", "removed", "mode"} : subs[e] \in Nat
      /\ \A pc : Cardinality(Calling(pc)) \in Nat
  <2>1. \A e \in {"networks", "added", "removed", "mode"} : subs[e] \in Nat
    BY ServiceLbAssumption DEF TypeOK, Subs
  <2> QED
    BY <2>1, CallingType
\* Nobody gets to an event or leaves it.
<1>f. ASSUME \A c \in Calls, pc \in {"added", "removed"} : At(c, pc)' <=> At(c, pc),
             UNCHANGED <<subs, unsubscriber>>,
             services'.pc = "unsubscribe" => services.pc = "unsubscribe" \/ unsubscriber
      PROVE  Subscribed'
  <2>1. Calling("added")' = Calling("added") /\ Calling("removed")' = Calling("removed")
    BY <1>f, CallingFrame
  <2> QED
    BY <1>f, <2>1 DEF Subscribed
<1>1. CASE ServiceUpdated \/ Backends \/ (\E c \in Containers : ContainerAdded(c) \/ ContainerRemoved(c))
  <2>1. UNCHANGED <<services, calls, subs, unsubscriber>>
    BY <1>1 DEF ServiceUpdated, Backends, ContainerAdded, ContainerRemoved
  <2> QED
    BY <1>f, <2>1 DEF At
<1>2. CASE \E n \in Networks : NetworkRegistered(n) \/ NetworkRemoved(n)
  <2>1. UNCHANGED <<services, subs, unsubscriber>> /\ Broadcast
    BY <1>2 DEF NetworkRegistered, NetworkRemoved
  <2>2. \A c \in Calls, pc \in {"added", "removed"} : At(c, pc)' <=> At(c, pc)
    BY <2>1, BroadcastType DEF At
  <2> QED
    BY <1>f, <2>1, <2>2
<1>3. CASE SetIpamVIPs
  <2>1. UNCHANGED <<subs, unsubscriber>> /\ services'.pc = "idle"
    BY <1>3 DEF SetIpamVIPs, Idle
  <2>2. PICK n : Spawn(n, TRUE) \/ Spawn(n, FALSE)
    BY <1>3, Zenon DEF SetIpamVIPs
  <2>3. \A c \in Calls, pc \in {"added", "removed"} : At(c, pc)' <=> At(c, pc)
    BY <2>2, SpawnType DEF At
  <2> QED
    BY <1>f, <2>1, <2>3
<1>4. CASE SetEndpointMode \/ SetNetworks \/ ServiceRemoved \/ NothingToDelete \/ Dismantle
  <2>1. UNCHANGED <<calls, subs, unsubscriber>> /\ services'.pc # "unsubscribe"
    <3>1. CASE SetEndpointMode
      BY <3>1 DEF SetEndpointMode, Idle
    <3>2. CASE SetNetworks
      BY <3>2 DEF SetNetworks, Idle
    <3>3. CASE ServiceRemoved
      BY <3>3 DEF ServiceRemoved, Idle
    <3>4. CASE NothingToDelete
      BY <3>4, DeletedType DEF NothingToDelete
    <3>5. CASE Dismantle
      BY <3>5, DeletedType DEF Dismantle
    <3> QED
      BY <1>4, <3>1, <3>2, <3>3, <3>4, <3>5
  <2> QED
    BY <1>f, <2>1 DEF At
<1>5. CASE Delete
  <2>1. /\ UNCHANGED <<calls, subs, unsubscriber>>
        /\ services' = [services EXCEPT !.pc = IF unsubscriber THEN "unsubscribe" ELSE "dismantle"]
    BY <1>5 DEF Delete
  <2>2. services'.pc = IF unsubscriber THEN "unsubscribe" ELSE "dismantle"
    BY <2>1 DEF TypeOK
  <2> QED
    BY <1>f, <2>1, <2>2 DEF At
<1>6. CASE Unsubscribe
  <2>1. /\ UNCHANGED calls /\ unsubscriber' = FALSE /\ services'.pc = "dismantle"
        /\ \A e \in {"networks", "added", "removed"} : subs'[e] = subs[e] - 1
    BY <1>6 DEF Unsubscribe, TypeOK
  <2>2. Calling("added")' = Calling("added") /\ Calling("removed")' = Calling("removed")
    BY <2>1, CallingFrame DEF At
  <2> QED
    BY <1>c, <2>1, <2>2 DEF Subscribed
<1>7. ASSUME NEW c \in Calls, CallStep(c)
      PROVE  Subscribed'
  <2>1. CASE Start(c) \/ Read(c) \/ Check(c) \/ Wait(c)
    <3>1. UNCHANGED <<services, subs, unsubscriber>>
      BY <2>1 DEF Start, Read, Check, Wait
    <3>2. \A d \in Calls, pc \in {"added", "removed"} : At(d, pc)' <=> At(d, pc)
      BY <2>1, CallBegins DEF At, Before
    <3> QED
      BY <1>f, <3>1, <3>2
  <2>2. CASE Ensure(c) \/ Publish(c)
    <3>1. UNCHANGED <<services, subs, unsubscriber>>
      BY <2>2 DEF Ensure, Publish
    <3>2. \A d \in Calls, pc \in {"added", "removed"} : At(d, pc)' <=> At(d, pc)
      BY <2>2, EnsureShape, PublishShape DEF At
    <3> QED
      BY <1>f, <3>1, <3>2
  <2>3. CASE Subscribe(c)
    <3>1. UNCHANGED services
      BY <2>3 DEF Subscribe
    <3>2. PICK e \in {"networks", "added", "removed", "mode"} :
           /\ calls[c] # None /\ calls[c].pc = e
           /\ e = "networks" => calls'[c] # None /\ calls'[c].pc = "added"
           /\ e = "added" => calls'[c] # None /\ calls'[c].pc = "removed"
           /\ e = "removed" => calls'[c] # None /\ calls'[c].pc = "mode"
           /\ e = "mode" => calls'[c] = None
           /\ \A d \in Calls \ {c} : calls'[d] = calls[d]
           /\ subs'[e] = subs[e] + 1
           /\ \A f \in {"networks", "added", "removed", "mode"} \ {e} : subs'[f] = subs[f]
           /\ unsubscriber' = (unsubscriber \/ e = "removed")
      BY <2>3, SubscribeShape
    <3>3. \A d \in Calls \ {c}, pc \in {"added", "removed"} : At(d, pc)' <=> At(d, pc)
      BY <3>2 DEF At
    <3>4. /\ Cardinality(Calling("added")') =
               Cardinality(Calling("added")) + (IF e = "networks" THEN 1 ELSE IF e = "added" THEN -1 ELSE 0)
          /\ Cardinality(Calling("removed")') =
               Cardinality(Calling("removed")) + (IF e = "added" THEN 1 ELSE IF e = "removed" THEN -1 ELSE 0)
      <4>1. At(c, e) /\ \A pc \in {"added", "removed"} \ {e} : ~At(c, pc)
        BY <3>2 DEF At
      <4>2. CASE e = "networks"
        <5>1. At(c, "added")' /\ (At(c, "removed")' <=> At(c, "removed"))
          BY <3>2, <4>1, <4>2 DEF At
        <5> QED
          BY <1>c, <3>3, <4>1, <4>2, <5>1, CallingChanges, CallingFrame
      <4>3. CASE e = "added"
        <5>1. At(c, "removed")' /\ ~At(c, "added")'
          BY <3>2, <4>3 DEF At
        <5> QED
          BY <1>c, <3>3, <4>1, <4>3, <5>1, CallingChanges
      <4>4. CASE e = "removed"
        <5>1. ~At(c, "removed")' /\ (At(c, "added")' <=> At(c, "added"))
          BY <3>2, <4>1, <4>4 DEF At
        <5> QED
          BY <1>c, <3>3, <4>1, <4>4, <5>1, CallingChanges, CallingFrame
      <4>5. CASE e = "mode"
        <5>1. \A pc \in {"added", "removed"} : At(c, pc)' <=> At(c, pc)
          BY <3>2, <4>1, <4>5 DEF At
        <5> QED
          BY <1>c, <3>3, <4>5, <5>1, CallingFrame
      <4> QED
        BY <4>2, <4>3, <4>4, <4>5
    <3>5. PICK i \in Int, j \in Int :
            i = Cardinality(Calling("added")) /\ j = Cardinality(Calling("removed"))
      BY <1>c
    <3>6. PICK k \in Int, l \in Int :
            /\ k = Cardinality(Calling("added")') /\ l = Cardinality(Calling("removed")')
            /\ k = i + (IF e = "networks" THEN 1 ELSE IF e = "added" THEN -1 ELSE 0)
            /\ l = j + (IF e = "added" THEN 1 ELSE IF e = "removed" THEN -1 ELSE 0)
      BY <3>4, <3>5
    <3>7. /\ subs["added"] + i <= subs["networks"] /\ subs["removed"] + j <= subs["added"]
          /\ unsubscriber => subs["removed"] > 0
          /\ services.pc = "unsubscribe" => unsubscriber
      BY <3>5 DEF Subscribed
    <3>8. /\ subs'["networks"] = subs["networks"] + (IF e = "networks" THEN 1 ELSE 0)
          /\ subs'["added"] = subs["added"] + (IF e = "added" THEN 1 ELSE 0)
          /\ subs'["removed"] = subs["removed"] + (IF e = "removed" THEN 1 ELSE 0)
      BY <1>c, <3>2
    <3>9. /\ subs'["added"] + k <= subs'["networks"] /\ subs'["removed"] + l <= subs'["added"]
          /\ unsubscriber' => subs'["removed"] > 0
      <4>1. PICK x \in Nat, y \in Nat, z \in Nat :
              x = subs["networks"] /\ y = subs["added"] /\ z = subs["removed"]
        BY <1>c
      <4>2. y + i <= x /\ z + j <= y /\ (unsubscriber => z > 0)
        BY <3>7, <4>1
      <4>u. e # "removed" => (unsubscriber' <=> unsubscriber)
        BY <3>2
      <4>3. CASE e = "networks"
        <5>1. /\ subs'["networks"] = x + 1 /\ subs'["added"] = y /\ subs'["removed"] = z
              /\ k = i + 1 /\ l = j
          BY <3>6, <3>8, <4>1, <4>3
        <5> QED
          BY <4>2, <4>u, <4>3, <5>1
      <4>4. CASE e = "added"
        <5>1. /\ subs'["networks"] = x /\ subs'["added"] = y + 1 /\ subs'["removed"] = z
              /\ k = i - 1 /\ l = j + 1
          BY <3>6, <3>8, <4>1, <4>4
        <5> QED
          BY <4>2, <4>u, <4>4, <5>1
      <4>5. CASE e = "removed"
        <5>1. /\ subs'["networks"] = x /\ subs'["added"] = y /\ subs'["removed"] = z + 1
              /\ k = i /\ l = j - 1
          BY <3>2, <3>6, <3>8, <4>1, <4>5
        <5> QED
          BY <4>2, <5>1
      <4>6. CASE e = "mode"
        <5>1. /\ subs'["networks"] = x /\ subs'["added"] = y /\ subs'["removed"] = z
              /\ k = i /\ l = j
          BY <3>6, <3>8, <4>1, <4>6
        <5> QED
          BY <4>2, <4>u, <4>6, <5>1
      <4> QED
        BY <4>3, <4>4, <4>5, <4>6
    <3>10. Cardinality(Calling("added"))' = k /\ Cardinality(Calling("removed"))' = l
      BY <3>6
    <3> QED
      BY <3>1, <3>2, <3>7, <3>9, <3>10 DEF Subscribed
  <2> QED
    BY <1>7, <2>1, <2>2, <2>3 DEF CallStep
<1>8. CASE UNCHANGED vars
  BY <1>8, <1>f DEF vars, At
<1> QED
  BY <1>1, <1>2, <1>3, <1>4, <1>5, <1>6, <1>7, <1>8 DEF Next, ServicesStep

\* At first nothing is subscribed or held.
LEMMA InitOK == Init => TypeOK /\ Held /\ Subscribed
<1> SUFFICES ASSUME Init PROVE TypeOK /\ Held /\ Subscribed
  OBVIOUS
<1>1. TypeOK
  <2>1. services \in [pc : States, left : Nat, raise : BOOLEAN, initialize : BOOLEAN]
    BY DEF Init, Idle, States
  <2>2. service \in Service
    BY DEF Init, Service
  <2>3. network \in [Networks -> {"unknown", "known", "gone"}]
    BY DEF Init
  <2>4. /\ lbs \in [Networks -> LoadBalancer \cup {None}]
        /\ stored \in [Networks -> Vips \cup {IpamVip, None}]
        /\ owned \in [Networks -> SUBSET (Vips \cup {IpamVip})]
        /\ calls \in [Calls -> Call \cup {None}]
        /\ networksOf \in [Containers -> (SUBSET Networks) \cup {None}]
    BY DEF Init
  <2>5. changes \in 0 .. MaxChanges /\ subs \in [{"networks", "added", "removed", "mode"} -> Subs]
    BY ServiceLbAssumption DEF Init, Subs
  <2>6. /\ spec \in Specs /\ applied \in Specs \cup {None} /\ m \in Calls \cup {"services", None}
        /\ hasLbs \in BOOLEAN /\ unsubscriber \in BOOLEAN
    BY DEF Init
  <2>7. raising \in [event : {"added", "removed"}, container : Containers,
                     networks : SUBSET Networks, left : Subs] \cup {None}
    BY DEF Init
  <2> QED
    BY <2>1, <2>2, <2>3, <2>4, <2>5, <2>6, <2>7 DEF TypeOK, States
<1>2. /\ m = None /\ services.pc = "idle" /\ ~unsubscriber
      /\ \A c \in Calls : calls[c] = None
      /\ \A e \in {"networks", "added", "removed"} : subs[e] = 0
  BY DEF Init, Idle
<1>3. Held
  BY <1>2, ServiceLbAssumption DEF Held, At, Init, Idle
<1>4. Calling("added") = {} /\ Calling("removed") = {}
  BY <1>2 DEF Calling, At
<1>5. Subscribed
  <2>1. Cardinality(Calling("added")) = 0 /\ Cardinality(Calling("removed")) = 0
    BY <1>4, FS_EmptySet
  <2> QED
    BY <1>2, <2>1 DEF Subscribed
<1> QED
  BY <1>1, <1>3, <1>5

\* Everything has its type in every order of things: nobody unsubscribes from an event that was
\* not subscribed to, and nobody publishes VIPs for a service it has not read.
THEOREM TypeCorrect == Spec => []TypeOK
<1>1. TypeOK /\ Held /\ Subscribed /\ [Next]_vars => (TypeOK /\ Held /\ Subscribed)'
  BY TypeStep, HeldStep, SubscribedStep
<1> QED
  BY <1>1, InitOK, PTL DEF Spec

-----------------------------------------------------------------------------
(* One change after the other: who is at work.                             *)

\* While the services' goroutine is at work, or has yet to hear of a change, no call is under way.
LEMMA NobodyCalls ==
  ASSUME Calm, services.pc # "idle" \/ applied # spec
  PROVE  \A c \in Calls : calls[c] = None
BY DEF Calm

\* What a call leaves alone.
LEMMA CallShape ==
  ASSUME TypeOK, Held, NEW c \in Calls, CallStep(c)
  PROVE  /\ calls[c] # None /\ (calls'[c] # None => calls'[c].create = calls[c].create)
         /\ \A d \in Calls \ {c} : calls'[d] = calls[d]
         /\ UNCHANGED <<spec, applied, services, network>>
         /\ service'.mode = service.mode /\ service'.networks = service.networks
         /\ service'.ipam = service.ipam
<1> USE DEF docker, management, events
<1>1. CASE Start(c) \/ Read(c) \/ Check(c) \/ Wait(c)
  <2>1. UNCHANGED <<spec, applied, services, network, service>>
    BY <1>1 DEF Start, Read, Check, Wait
  <2> QED
    BY <1>1, <2>1, CallBegins
<1>2. CASE Ensure(c)
  <2>1. UNCHANGED <<spec, applied, services, network, service>>
    BY <1>2 DEF Ensure
  <2> QED
    BY <1>2, <2>1, EnsureShape
<1>3. CASE Publish(c)
  <2>1. UNCHANGED <<spec, applied, services, network>>
    BY <1>3 DEF Publish
  <2>2. service' = [service EXCEPT !.vips = stored'] \/ service' = service
    BY <1>3 DEF Publish, PublishVips, PublishFailed
  <2>3. /\ service'.mode = service.mode /\ service'.networks = service.networks
        /\ service'.ipam = service.ipam
    BY <2>2 DEF TypeOK, Service
  <2> QED
    BY <1>3, <2>1, <2>3, PublishShape
<1>4. CASE Subscribe(c)
  <2>1. UNCHANGED <<spec, applied, services, network, service>>
    BY <1>4 DEF Subscribe
  <2> QED
    BY <1>4, <2>1, SubscribeShape
<1> QED
  BY <1>1, <1>2, <1>3, <1>4 DEF CallStep

\* Where no call is under way, one call is spawned or none.
LEMMA SpawnOne ==
  ASSUME TypeOK, \A c \in Calls : calls[c] = None, NEW n \in {0, 1},
         NEW create \in BOOLEAN, Spawn(n, create)
  PROVE  /\ n = 0 => \A c \in Calls : calls'[c] = None
         /\ n = 1 => \E c \in Calls : calls'[c] # None
         /\ \A c, d \in Calls : calls'[c] # None /\ calls'[d] # None => c = d
<1> DEFINE started == [pc |-> "start", create |-> create, seen |-> None]
<1>1. PICK new \in SUBSET {c \in Calls : calls[c] = None} :
        Cardinality(new) = n /\ calls' = [c \in Calls |-> IF c \in new THEN started ELSE calls[c]]
  BY DEF Spawn
<1>2. IsFiniteSet(new)
  BY <1>1, FS_Subset, ServiceLbAssumption
<1>3. \A c \in Calls : calls'[c] = IF c \in new THEN started ELSE None
  BY <1>1
<1>4. started # None
  BY ServiceLbAssumption DEF Call, Phases
<1> HIDE DEF started
<1>5. ASSUME n = 0
      PROVE  \A c \in Calls : calls'[c] = None
  <2>1. new = {}
    BY <1>1, <1>2, <1>5, FS_EmptySet
  <2> QED
    BY <1>3, <2>1
<1>6. ASSUME n = 1
      PROVE  /\ \E c \in Calls : calls'[c] # None
             /\ \A c, d \in Calls : calls'[c] # None /\ calls'[d] # None => c = d
  <2>1. PICK c : new = {c}
    BY <1>1, <1>2, <1>6, FS_Singleton
  <2> QED
    BY <1>3, <1>4, <2>1
<1> QED
  BY <1>5, <1>6

\* After SetIpamVIPs a service in mode vip has one call under way, which creates its load
\* balancers where it had no IPAM VIPs before; another service has none.
LEMMA IpamShape ==
  ASSUME TypeOK, Held, Calm, Serving, SetIpamVIPs
  PROVE  /\ UNCHANGED <<spec, applied, network, m, hasLbs, lbs, stored, owned, subs, unsubscriber>>
         /\ services.pc = "ipam" /\ services'.pc = "idle" /\ applied = spec /\ ~Removed
         /\ service'.mode = service.mode /\ service'.vips = service.vips
         /\ Given(applied)' /\ (service.mode = "vip" => service'.ipam # {})
         /\ \A c \in Calls : calls[c] = None
         /\ \A c, d \in Calls : calls'[c] # None /\ calls'[d] # None => c = d
         /\ service.mode = "vip" <=> \E c \in Calls : calls'[c] # None
         /\ \A c \in Calls : calls'[c] # None =>
              calls'[c].pc = "start" /\ (calls'[c].create <=> service.ipam = {})
<1> USE DEF docker, management, events
<1> DEFINE ipam == IF applied.mode = "vip" THEN applied.networks ELSE {}
<1>1. /\ UNCHANGED <<spec, applied, network, m, hasLbs, lbs, stored, owned, subs, unsubscriber>>
      /\ services.pc = "ipam" /\ services'.pc = "idle" /\ applied = spec /\ ~Removed
  BY DEF SetIpamVIPs, Idle, Calm, Removed
<1>2. applied \in Specs /\ service \in Service
  BY <1>1 DEF Held, TypeOK
<1>3. /\ service' = [service EXCEPT !.ipam = ipam]
      /\ services.initialize => Spawn(IF NeedsLoadBalancer(service') THEN 1 ELSE 0, TRUE)
      /\ ~services.initialize =>
           Spawn(IF services.raise \/ service.ipam = ipam THEN subs["networks"] ELSE 0, FALSE)
  BY Zenon DEF SetIpamVIPs
<1>4. /\ service'.mode = service.mode /\ service'.vips = service.vips
      /\ service'.networks = service.networks /\ service'.ipam = ipam
  BY <1>2, <1>3 DEF Service
<1>5. /\ service.mode = applied.mode /\ service.networks = applied.networks
      /\ applied.networks # {}
  BY <1>1, <1>2 DEF Calm, Specs
<1>6. Given(applied)' /\ (service.mode = "vip" => service'.ipam # {})
  BY <1>1, <1>4, <1>5 DEF Given
<1>7. \A c \in Calls : calls[c] = None
  BY <1>1, NobodyCalls
<1>8. service.mode = "vip" =>
        /\ services.initialize <=> service.ipam = {}
        /\ ~services.initialize => services.raise \/ service.ipam = ipam
  BY <1>1, <1>5 DEF Calm
<1>9. IF service.mode = "vip" /\ service.ipam # {} THEN subs["networks"] = 1
                                                  ELSE subs["networks"] = 0
  BY <1>1, <1>7 DEF Serving, Up, Down, SubscribedTo, AllEvents
<1> HIDE DEF ipam
<1>10. PICK n \in {0, 1}, create \in BOOLEAN :
         /\ Spawn(n, create) /\ (n = 1 <=> service.mode = "vip")
         /\ n = 1 => (create <=> service.ipam = {})
  <2>1. CASE services.initialize
    <3>1. NeedsLoadBalancer(service') <=> service.mode = "vip"
      BY <1>4 DEF NeedsLoadBalancer
    <3>2. CASE service.mode = "vip"
      <4>1. Spawn(1, TRUE) /\ service.ipam = {}
        BY <1>3, <1>8, <2>1, <3>1, <3>2
      <4> WITNESS 1 \in {0, 1}, TRUE \in BOOLEAN
      <4> QED
        BY <3>2, <4>1
    <3>3. CASE service.mode # "vip"
      <4>1. Spawn(0, TRUE)
        BY <1>3, <2>1, <3>1, <3>3
      <4>2. 0 # 1
        OBVIOUS
      <4> WITNESS 0 \in {0, 1}, TRUE \in BOOLEAN
      <4> QED
        BY <3>3, <4>1, <4>2, Zenon
    <3> QED
      BY <3>2, <3>3
  <2>2. CASE ~services.initialize
    <3>1. CASE service.mode = "vip"
      <4>1. Spawn(1, FALSE) /\ service.ipam # {}
        BY <1>3, <1>8, <1>9, <2>2, <3>1
      <4> WITNESS 1 \in {0, 1}, FALSE \in BOOLEAN
      <4> QED
        BY <3>1, <4>1
    <3>2. CASE service.mode # "vip"
      <4>1. Spawn(0, FALSE)
        BY <1>3, <1>9, <2>2, <3>2
      <4>2. 0 # 1
        OBVIOUS
      <4> WITNESS 0 \in {0, 1}, FALSE \in BOOLEAN
      <4> QED
        BY <3>2, <4>1, <4>2, Zenon
    <3> QED
      BY <3>1, <3>2
  <2> QED
    BY <2>1, <2>2
<1>11. /\ \A c, d \in Calls : calls'[c] # None /\ calls'[d] # None => c = d
       /\ service.mode = "vip" <=> \E c \in Calls : calls'[c] # None
  BY <1>7, <1>10, SpawnOne
<1>12. \A c \in Calls : calls'[c] # None => calls'[c].pc = "start" /\ calls'[c].create = create
  BY <1>7, <1>10, SpawnType
<1>13. \A c \in Calls : calls'[c] # None =>
         calls'[c].pc = "start" /\ (calls'[c].create <=> service.ipam = {})
  BY <1>10, <1>11, <1>12
<1> QED
  BY <1>1, <1>4, <1>6, <1>7, <1>11, <1>13

\* Where nothing changes but how far the calls got, and the VIPs.
LEMMA CalmFrame ==
  ASSUME Calm, UNCHANGED <<spec, applied, services>>,
         service'.mode = service.mode, service'.networks = service.networks,
         service'.ipam = service.ipam,
         \A c \in Calls : calls'[c] # None => calls[c] # None
  PROVE  Calm'
<1>1. /\ \A c, d \in Calls : calls'[c] # None /\ calls'[d] # None => c = d
      /\ \A c \in Calls : calls'[c] # None =>
           services'.pc = "idle" /\ applied' = spec' /\ spec'.live /\ spec'.mode = "vip"
  BY DEF Calm
<1>2. (\A version : Given(version)' <=> Given(version)) /\ (Removed' <=> Removed)
  BY DEF Given, Removed
<1> QED
  BY <1>1, <1>2 DEF Calm

\* Every step keeps to one change after the other.
LEMMA CalmStep ==
  ASSUME ~Hasty, TypeOK, Held, Calm, Serving, [Next]_vars
  PROVE  Calm'
<1> USE DEF docker, management, events
<1>t. /\ spec \in Specs /\ applied \in Specs \cup {None} /\ service \in Service
      /\ None \notin Specs /\ (services.pc # "idle" => applied # None)
  BY ServiceLbAssumption DEF TypeOK, Held
<1>1. CASE ServiceUpdated
  <2>1. Quiet /\ spec.live /\ applied = spec /\ spec' \in Specs
    BY <1>1 DEF ServiceUpdated, Quiet
  <2>2. UNCHANGED <<applied, services, service, calls>>
    BY <1>1 DEF ServiceUpdated
  <2>3. ~spec'.live => spec'.mode = spec.mode /\ spec'.networks = spec.networks
    BY <1>1 DEF ServiceUpdated
  <2>4. ~Removed /\ (Removed' <=> Removed) /\ (\A version : Given(version)' <=> Given(version))
    BY <1>t, <2>1, <2>2 DEF Removed, Given
  <2>5. services.pc = "idle" /\ (\A c \in Calls : calls[c] = None)
    BY <2>1 DEF Quiet
  <2> QED
    BY <1>t, <2>1, <2>2, <2>3, <2>4, <2>5 DEF Calm
<1>2. CASE SetEndpointMode
  <2>1. /\ services.pc = "idle" /\ spec.live /\ spec # applied /\ applied' = spec
        /\ UNCHANGED <<spec, calls>> /\ services'.pc \in {"delete", "networks"}
        /\ services'.pc = "delete" => spec.mode = "dnsrr"
    BY <1>2 DEF SetEndpointMode, Idle
  <2>2. /\ service'.mode = spec.mode /\ service'.networks = service.networks
        /\ service'.ipam = service.ipam
    BY <1>2, <1>t DEF SetEndpointMode, Service
  <2>3. \A c \in Calls : calls[c] = None
    BY <2>1, NobodyCalls
  <2>4. service.ipam \in {{}, service.networks}
    BY <2>1 DEF Calm, Given
  <2>5. ~Removed'
    BY <2>1 DEF Removed
  <2> QED
    BY <2>1, <2>2, <2>3, <2>4, <2>5 DEF Calm
<1>3. CASE SetNetworks
  <2>1. /\ services.pc = "networks" /\ UNCHANGED <<spec, applied, calls>> /\ services'.pc = "ipam"
        /\ services'.raise = (service.networks # applied.networks)
        /\ services'.initialize = ~Initialized(service)
    BY <1>3 DEF SetNetworks, Idle
  <2>2. /\ service'.mode = service.mode /\ service'.networks = applied.networks
        /\ service'.ipam = service.ipam
    BY <1>3, <1>t DEF SetNetworks, Service
  <2>3. \A c \in Calls : calls[c] = None
    BY <2>1, NobodyCalls
  <2>4. /\ applied.live /\ service.mode = applied.mode /\ service.ipam \in {{}, service.networks}
        /\ applied = spec
    BY <2>1 DEF Calm
  <2>5. ~Removed'
    BY <2>1, <2>4 DEF Removed
  <2>6. service.mode = "vip" =>
          /\ services'.initialize <=> service'.ipam = {}
          /\ services'.initialize \/ services'.raise \/ service'.ipam = service'.networks
    BY <2>1, <2>2, <2>4 DEF Initialized
  <2> QED
    BY <2>1, <2>2, <2>3, <2>4, <2>5, <2>6 DEF Calm
<1>4. CASE SetIpamVIPs
  <2>1. /\ UNCHANGED <<spec, applied>> /\ services'.pc = "idle" /\ applied = spec /\ ~Removed
        /\ Given(applied)'
        /\ \A c, d \in Calls : calls'[c] # None /\ calls'[d] # None => c = d
        /\ service.mode = "vip" <=> \E c \in Calls : calls'[c] # None
        /\ services.pc = "ipam"
    BY <1>4, IpamShape
  <2>2. applied.live /\ service.mode = applied.mode
    BY <2>1 DEF Calm
  <2>3. ~Removed' /\ applied # None
    BY <1>t, <2>1 DEF Removed
  <2> QED
    BY <2>1, <2>2, <2>3 DEF Calm
<1>5. CASE ServiceRemoved
  <2>1. /\ services.pc = "idle" /\ ~spec.live /\ spec # applied /\ applied' = spec
        /\ UNCHANGED <<spec, service, calls>>
        /\ services'.pc \in {"delete", "idle"}
    BY <1>5 DEF ServiceRemoved, Idle
  <2>2. \A c \in Calls : calls[c] = None
    BY <2>1, NobodyCalls
  <2>3. applied # None /\ applied.mode = spec.mode /\ applied.networks = spec.networks
    BY <2>1 DEF Calm
  <2>4. Given(applied)
    BY <2>1, <2>3 DEF Calm
  <2>5. Given(applied)' /\ Removed' /\ service.ipam \in {{}, service.networks}
    BY <1>t, <2>1, <2>3, <2>4 DEF Given, Removed
  <2> QED
    BY <1>t, <2>1, <2>2, <2>5 DEF Calm
<1>6. CASE NothingToDelete \/ Delete \/ Unsubscribe \/ Dismantle
  <2>1. /\ services.pc \in {"delete", "unsubscribe", "dismantle"}
        /\ UNCHANGED <<spec, applied, service, calls>>
    BY <1>6 DEF NothingToDelete, Delete, Unsubscribe, Dismantle
  <2>2. \/ services'.pc \in {"delete", "unsubscribe", "dismantle"}
        \/ services'.pc = "idle" /\ Removed
        \/ services'.pc = "networks" /\ ~Removed
    <3>1. CASE Deleted
      <4>1. \/ services' = [services EXCEPT !.pc = "delete", !.left = @ - 1]
            \/ services' = Idle /\ Removed
            \/ services' = [Idle EXCEPT !.pc = "networks"] /\ ~Removed
        BY <3>1 DEF Deleted
      <4>2. services' = [services EXCEPT !.pc = "delete", !.left = @ - 1] => services'.pc = "delete"
        BY DEF TypeOK
      <4> QED
        BY <4>1, <4>2 DEF Idle
    <3>2. CASE ~Deleted
      <4>1. \E pc \in {"unsubscribe", "dismantle"} : services' = [services EXCEPT !.pc = pc]
        BY <1>6, <3>2 DEF NothingToDelete, Delete, Unsubscribe, Dismantle
      <4> QED
        BY <4>1 DEF TypeOK
    <3> QED
      BY <3>1, <3>2
  <2>3. \A c \in Calls : calls[c] = None
    BY <2>1, NobodyCalls
  <2>4. (Removed' <=> Removed) /\ (\A version : Given(version)' <=> Given(version))
    BY <2>1 DEF Removed, Given
  <2>5. /\ applied = spec /\ applied # None /\ service.ipam \in {{}, service.networks}
        /\ IF Removed THEN Given(applied) ELSE service.mode = "dnsrr" /\ applied.mode = "dnsrr"
    BY <1>t, <2>1 DEF Calm
  <2>6. Removed <=> ~applied.live
    BY <2>5 DEF Removed
  <2> QED
    BY <1>t, <2>1, <2>2, <2>3, <2>4, <2>5, <2>6 DEF Calm
<1>7. CASE \E n \in Networks : NetworkRegistered(n) \/ NetworkRemoved(n)
  <2>1. UNCHANGED <<spec, applied, services, service>> /\ Broadcast
    BY <1>7 DEF NetworkRegistered, NetworkRemoved
  <2> QED
    BY <2>1, BroadcastType, CalmFrame
<1>8. CASE \E c \in Calls : CallStep(c)
  BY <1>8, CallShape, CalmFrame
<1>9. CASE (\E c \in Containers : ContainerAdded(c) \/ ContainerRemoved(c)) \/ Backends
  <2>1. UNCHANGED <<spec, applied, services, service, calls>>
    BY <1>9 DEF ContainerAdded, ContainerRemoved, Backends
  <2> QED
    BY <2>1, CalmFrame
<1>10. CASE UNCHANGED vars
  BY <1>10, CalmFrame DEF vars
<1> QED
  BY <1>1, <1>2, <1>3, <1>4, <1>5, <1>6, <1>7, <1>8, <1>9, <1>10 DEF Next, ServicesStep

\* Where the service stays as it is and no network goes, and the calls too, or they wake.
LEMMA UpToDateFrame ==
  ASSUME UpToDate, UNCHANGED service, Known \subseteq Known',
         \A c \in Calls : calls'[c] # None =>
           \/ calls'[c] = calls[c]
           \/ /\ calls[c] # None /\ calls[c].pc = "waiting" /\ calls'[c].pc = "woken"
              /\ calls'[c].create = calls[c].create /\ calls'[c].seen = calls[c].seen
  PROVE  UpToDate'
<1> SUFFICES ASSUME NEW c \in Calls, calls'[c] # None
             PROVE  /\ calls'[c].pc # "start" => calls'[c].seen.networks = service'.networks
                    /\ calls'[c].pc \notin {"start", "reading"} =>
                         calls'[c].seen.ipam = service'.ipam
                    /\ calls'[c].pc \in {"ready", "frontends"} => service'.networks \subseteq Known'
                    /\ ~calls'[c].create /\ calls'[c].pc # "start" =>
                         calls'[c].seen.vips = service'.vips
                    /\ ~calls'[c].create => calls'[c].pc \in Before \cup {"frontends"}
  BY DEF UpToDate
<1>1. CASE calls'[c] = calls[c]
  BY <1>1 DEF UpToDate
<1>2. CASE calls'[c] # calls[c]
  BY <1>2 DEF UpToDate, Before
<1> QED
  BY <1>1, <1>2

\* The service does not change while a call is under way, but for the VIPs the call gives it.
LEMMA UpToDateStep ==
  ASSUME ~Hasty, TypeOK, Held, Calm, UpToDate, Serving, [Next]_vars
  PROVE  UpToDate'
<1> USE DEF docker, management, events
<1>1. CASE SetEndpointMode \/ SetNetworks \/ ServiceRemoved \/ NothingToDelete \/ Delete
             \/ Unsubscribe \/ Dismantle
  <2>1. /\ UNCHANGED calls
        /\ services.pc # "idle" \/ applied # spec
    BY <1>1 DEF SetEndpointMode, SetNetworks, ServiceRemoved, NothingToDelete, Delete, Unsubscribe,
                Dismantle
  <2> QED
    BY <2>1, NobodyCalls DEF UpToDate
<1>2. CASE SetIpamVIPs
  <2>1. \A c \in Calls : calls'[c] # None => calls'[c].pc = "start"
    BY <1>2, IpamShape
  <2> QED
    BY <2>1 DEF UpToDate, Before
<1>3. ASSUME NEW n \in Networks, NetworkRegistered(n)
      PROVE  UpToDate'
  <2>1. UNCHANGED service /\ Broadcast
    BY <1>3 DEF NetworkRegistered
  <2>2. Known \subseteq Known'
    BY <1>3 DEF NetworkRegistered, Known, TypeOK
  <2> QED
    BY <2>1, <2>2, BroadcastType, UpToDateFrame
<1>4. ASSUME NEW n \in Networks, NetworkRemoved(n)
      PROVE  UpToDate'
  <2>1. Broadcast /\ \A c \in Calls : calls[c] = None
    BY <1>4 DEF NetworkRemoved, Quiet
  <2> QED
    BY <2>1, BroadcastType DEF UpToDate
<1>5. CASE ServiceUpdated \/ (\E c \in Containers : ContainerAdded(c) \/ ContainerRemoved(c))
             \/ Backends
  <2>1. UNCHANGED <<service, network, calls>>
    BY <1>5 DEF ServiceUpdated, ContainerAdded, ContainerRemoved, Backends
  <2> QED
    BY <2>1, UpToDateFrame DEF Known
<1>6. ASSUME NEW c \in Calls, CallStep(c)
      PROVE  UpToDate'
  <2>1. /\ calls[c] # None /\ (calls'[c] # None => calls'[c].create = calls[c].create)
        /\ \A d \in Calls \ {c} : calls'[d] = None
        /\ Known' = Known /\ service'.networks = service.networks /\ service'.ipam = service.ipam
    BY <1>6, CallShape DEF Calm, Known
  <2>s. SUFFICES ASSUME calls'[c] # None
                 PROVE  /\ calls'[c].pc # "start" => calls'[c].seen.networks = service.networks
                        /\ calls'[c].pc \notin {"start", "reading"} =>
                             calls'[c].seen.ipam = service.ipam
                        /\ calls'[c].pc \in {"ready", "frontends"} => service.networks \subseteq Known
                        /\ ~calls'[c].create /\ calls'[c].pc # "start" =>
                             calls'[c].seen.vips = service'.vips
                        /\ ~calls'[c].create => calls'[c].pc \in Before \cup {"frontends"}
    BY <2>1 DEF UpToDate
  <2>t. calls[c] \in Call /\ (calls[c].pc # "start" => calls[c].seen \in Snapshot)
    BY <2>1 DEF TypeOK, Held, Call
  <2>2. CASE Start(c)
    <3>1. /\ UNCHANGED service /\ calls'[c].pc = "reading"
          /\ calls'[c].seen = [networks |-> service.networks, ipam |-> {}, vips |-> service.vips]
      BY <2>2, <2>t DEF Start, TypeOK, Call
    <3> QED
      BY <3>1 DEF Before
  <2>3. CASE Read(c)
    <3>1. calls[c].pc = "reading" /\ UNCHANGED service
      BY <2>3 DEF Read, At
    <3>2. PICK vips \in {calls[c].seen.vips, service.vips} :
            calls' = [calls EXCEPT ![c].pc = "checking",
                                   ![c].seen = [networks |-> calls[c].seen.networks,
                                                ipam |-> service.ipam, vips |-> vips]]
      BY <2>3 DEF Read
    <3>3. /\ calls'[c].pc = "checking"
          /\ calls'[c].seen = [networks |-> calls[c].seen.networks, ipam |-> service.ipam,
                               vips |-> vips]
      BY <2>t, <3>2 DEF TypeOK, Call
    <3>4. calls[c].seen.networks = service.networks
      BY <2>1, <3>1 DEF UpToDate
    <3>5. ~calls[c].create => vips = service.vips
      BY <2>1, <3>1, <3>2 DEF UpToDate
    <3> QED
      BY <2>1, <2>s, <3>1, <3>3, <3>4, <3>5 DEF Before
  <2>4. CASE Check(c) \/ Wait(c)
    <3>1. calls[c].pc \in {"checking", "woken", "missing"} /\ UNCHANGED service
      BY <2>4 DEF Check, Wait, At
    <3>2. PICK pc \in {"missing", "ready", "waiting"} :
            Goto(c, pc) /\ (pc = "ready" => service.networks \subseteq Known)
      BY <2>4 DEF Check, Wait, HasMissingNetworks
    <3>3. calls'[c].pc = pc /\ calls'[c].seen = calls[c].seen
      BY <2>1, <3>2, GotoType DEF Phases
    <3> QED
      BY <2>1, <2>s, <3>1, <3>2, <3>3 DEF UpToDate, Before
  <2>5. CASE Ensure(c)
    <3>1. /\ calls[c].pc = "ready" /\ calls'[c].pc = "frontends" /\ calls'[c].seen = calls[c].seen
          /\ UNCHANGED service
      BY <2>5, <2>s, EnsureShape DEF Ensure
    <3> QED
      BY <2>1, <2>s, <3>1 DEF UpToDate
  <2>6. CASE Publish(c)
    <3>1. /\ calls[c].pc = "frontends" /\ calls[c].create
          /\ calls'[c].pc = "networks" /\ calls'[c].seen = calls[c].seen
      BY <2>6, <2>s, PublishShape
    <3> QED
      BY <2>1, <2>s, <3>1 DEF UpToDate
  <2>7. CASE Subscribe(c)
    <3>1. /\ calls[c].pc \in {"networks", "added", "removed", "mode"}
          /\ calls'[c].pc \in {"networks", "added", "removed", "mode"}
          /\ calls'[c].seen = calls[c].seen
      BY <2>7, <2>s, SubscribeShape
    <3>2. calls[c].create
      BY <2>1, <3>1 DEF UpToDate, Before
    <3> QED
      BY <2>1, <2>s, <3>1, <3>2 DEF UpToDate
  <2> QED
    BY <1>6, <2>2, <2>3, <2>4, <2>5, <2>6, <2>7 DEF CallStep
<1>7. CASE UNCHANGED vars
  BY <1>7, UpToDateFrame DEF vars, Known
<1> QED
  BY <1>1, <1>2, <1>3, <1>4, <1>5, <1>6, <1>7 DEF Next, ServicesStep

\* The networks of stored VIPs are known, so that all of them can be released.
LEMMA AllDeletable ==
  ASSUME TypeOK, Agreed, m \notin Calls, NEW seen, NEW ns \in SUBSET Balanced
  PROVE  Undeletable(seen, ns) = {} /\ DeletedOf(seen, ns) = {ns}
<1>1. \A n \in ns : n \in Known
  BY DEF Agreed, Balanced
<1> QED
  BY <1>1 DEF Undeletable, DeletedOf

\* A call that has waited for the networks makes the load balancers of all of them.
LEMMA EnsureDone ==
  ASSUME TypeOK, Held, UpToDate, Agreed, NEW c \in Calls, Ensure(c)
  PROVE  /\ m = None /\ m' = c /\ hasLbs' = TRUE
         /\ UNCHANGED <<service, stored, subs, unsubscriber>>
         /\ calls'[c] # None /\ calls'[c].pc = "frontends" /\ calls'[c].create = calls[c].create
         /\ lbs' = [n \in Networks |-> IF n \in Balanced \ service.networks THEN None
                                       ELSE IF n \in service.networks \ Balanced THEN NewLb
                                       ELSE lbs[n]]
         /\ ReleaseVips(calls[c].seen, Balanced \ service.networks)
<1> USE DEF events
<1>1. calls[c] # None /\ calls[c].pc = "ready" /\ m = None
  BY EnsureShape
<1>2. calls[c].seen.networks = service.networks /\ service.networks \subseteq Known
  BY <1>1 DEF UpToDate
<1>3. /\ Undeletable(calls[c].seen, Balanced \ service.networks) = {}
      /\ DeletedOf(calls[c].seen, Balanced \ service.networks) = {Balanced \ service.networks}
  <2>1. m \notin Calls
    BY <1>1, ServiceLbAssumption
  <2> QED
    BY <2>1, AllDeletable
<1>4. /\ lbs' = [n \in Networks |-> IF n \in Balanced \ service.networks THEN None
                                    ELSE IF n \in service.networks \ Balanced THEN NewLb
                                    ELSE lbs[n]]
      /\ ReleaseVips(calls[c].seen, Balanced \ service.networks)
      /\ m' = c /\ Goto(c, "frontends")
  BY <1>2, <1>3 DEF Ensure
<1>5. hasLbs' = TRUE /\ UNCHANGED <<service, stored, subs, unsubscriber>>
  BY DEF Ensure
<1> QED
  BY <1>1, <1>4, <1>5, GotoType DEF Phases

\* It finds a VIP for all of them.
LEMMA PublishDone ==
  ASSUME TypeOK, Held, Calm, UpToDate, Agreed, NEW c \in Calls, Publish(c)
  PROVE  /\ PublishVips(c) /\ m = c /\ m' = None /\ UNCHANGED <<subs, unsubscriber, hasLbs>>
         /\ calls[c] # None /\ calls[c].pc = "frontends"
         /\ calls[c].seen.ipam = service.ipam /\ service.ipam = service.networks
         /\ service.networks \subseteq Known /\ service.mode = "vip" /\ service.ipam # {}
         /\ services.pc = "idle" /\ ~Removed
         /\ IF calls[c].create
            THEN calls'[c] # None /\ calls'[c].pc = "networks" /\ calls'[c].create
            ELSE calls'[c] = None
<1> USE DEF events
<1>1. calls[c] # None /\ calls[c].pc = "frontends" /\ m = c /\ m' = None
  BY PublishShape DEF Held, At
<1>2. calls[c].seen.ipam = service.ipam /\ service.networks \subseteq Known
  BY <1>1 DEF UpToDate
<1>3. /\ services.pc = "idle" /\ applied = spec /\ spec.live /\ spec.mode = "vip"
      /\ spec \in Specs /\ None \notin Specs
  BY <1>1, ServiceLbAssumption DEF Calm, TypeOK
<1>4. Given(spec) /\ spec.networks # {} /\ ~Removed
  BY <1>3 DEF Calm, Removed, Specs
<1>5. /\ service.ipam = service.networks /\ service.mode = "vip" /\ service.ipam # {}
  BY <1>3, <1>4 DEF Given
<1>6. \A n \in service.ipam : lbs[n] # None /\ VipsFor(n) # {}
  <2> SUFFICES ASSUME NEW n \in service.ipam
               PROVE  lbs[n] # None /\ VipsFor(n) # {}
    OBVIOUS
  <2>1. n \in Networks /\ n \in service.networks /\ n \in Known
    BY <1>2, <1>5 DEF TypeOK, Service
  <2>2. lbs[n] # None /\ VipOf(n) = stored[n]
    BY <1>1, <2>1 DEF Agreed
  <2>3. CASE stored[n] = None /\ ~Preferred
    <3>1. owned[n] \subseteq {None} /\ owned[n] \in SUBSET (Vips \cup {IpamVip})
      BY <2>1, <2>2, <2>3 DEF Agreed, TypeOK
    <3>2. owned[n] = {} /\ Vips # {}
      BY <3>1, ServiceLbAssumption
    <3> QED
      BY <2>1, <2>2, <2>3, <3>2 DEF VipsFor
  <2> QED
    BY <2>1, <2>2, <2>3 DEF VipsFor
<1>7. ~PublishFailed(c)
  BY <1>2, <1>6 DEF PublishFailed
<1>8. PublishVips(c) /\ UNCHANGED <<subs, unsubscriber, hasLbs>>
  BY <1>7 DEF Publish
<1>9. IF calls[c].create
      THEN calls'[c] # None /\ calls'[c].pc = "networks" /\ calls'[c].create
      ELSE calls'[c] = None
  BY <1>1, <1>8, GotoType, EndType DEF PublishVips, Phases
<1> QED
  BY <1>1, <1>2, <1>3, <1>4, <1>5, <1>8, <1>9

-----------------------------------------------------------------------------
(* One change after the other: what the service has.                       *)

\* Where calls come no further than to the mutex.
LEMMA ServingFrame ==
  ASSUME Serving, UNCHANGED <<applied, services, service, hasLbs, stored, subs, unsubscriber>>,
         \A c \in Calls :
           \/ calls'[c] = calls[c]
           \/ /\ calls[c] # None /\ calls[c].pc \in Before
              /\ calls'[c] # None /\ calls'[c].pc \in Before /\ calls'[c].create = calls[c].create
  PROVE  Serving'
<1>1. /\ (Up' <=> Up) /\ (Down' <=> Down) /\ Stored' = Stored /\ (Removed' <=> Removed)
      /\ \A es : SubscribedTo(es)' <=> SubscribedTo(es)
  BY DEF Up, Down, Stored, Removed, SubscribedTo
<1>2. (\A c \in Calls : calls'[c] = None) => \A c \in Calls : calls[c] = None
  OBVIOUS
<1>3. ASSUME NEW c \in Calls, calls'[c] # None
      PROVE  IF ~calls'[c].create THEN Up
             ELSE /\ calls'[c].pc \in Before => Down
                  /\ calls'[c].pc \notin Before => hasLbs
                  /\ calls'[c].pc = "frontends" => SubscribedTo({}) /\ Stored = {}
                  /\ calls'[c].pc = "networks" => SubscribedTo({})
                  /\ calls'[c].pc = "added" => SubscribedTo({"networks"})
                  /\ calls'[c].pc = "removed" => SubscribedTo({"networks", "added"})
                  /\ calls'[c].pc = "mode" => SubscribedTo(AllEvents)
                  /\ calls'[c].pc \in {"networks", "added", "removed", "mode"} =>
                       Stored = service.ipam /\ service.vips = stored
  <2>1. CASE calls'[c] = calls[c]
    BY <1>3, <2>1 DEF Serving
  <2>2. CASE calls'[c] # calls[c]
    <3>1. /\ calls[c] # None /\ calls[c].pc \in Before
          /\ calls'[c].pc \in Before /\ calls'[c].create = calls[c].create
      BY <1>3, <2>2
    <3>2. IF ~calls[c].create THEN Up ELSE Down
      BY <3>1 DEF Serving
    <3>3. calls'[c].pc \notin {"frontends", "networks", "added", "removed", "mode"}
      BY <3>1 DEF Before
    <3> QED
      BY <3>1, <3>2, <3>3
  <2> QED
    BY <2>1, <2>2
<1> QED
  BY <1>1, <1>2, <1>3 DEF Serving

\* The services' goroutine: a service that loses its VIPs or is removed has its load balancers
\* deleted, and the others keep theirs.
LEMMA ServingServices ==
  ASSUME TypeOK, Held, Calm, Serving, Agreed, ServicesStep
  PROVE  Serving'
<1> USE DEF docker, management, events
<1>t. /\ spec \in Specs /\ applied \in Specs \cup {None} /\ service \in Service
      /\ None \notin Specs /\ (services.pc # "idle" => applied # None)
  BY ServiceLbAssumption DEF TypeOK, Held
\* Where no call is under way.
<1>n. ASSUME \A c \in Calls : calls'[c] = None,
             services'.pc \in {"idle", "networks", "ipam"} =>
               IF service'.mode = "vip" /\ service'.ipam # {} /\ ~Removed'
               THEN Up' /\ Stored' = service'.ipam ELSE Down',
             services'.pc = "delete" => Down' \/ (Up' /\ Stored' = service'.ipam),
             services'.pc = "unsubscribe" =>
               /\ ~hasLbs' /\ SubscribedTo(AllEvents)' /\ Stored' = service'.ipam
               /\ service'.vips = stored',
             services'.pc = "dismantle" =>
               /\ ~hasLbs' /\ SubscribedTo({})' /\ Stored' = service'.ipam
               /\ service'.vips = stored'
      PROVE  Serving'
  BY <1>n DEF Serving
<1>1. CASE SetEndpointMode
  <2>1. /\ services.pc = "idle" /\ spec.live /\ spec # applied /\ applied' = spec
        /\ UNCHANGED <<hasLbs, stored, subs, unsubscriber, calls>>
        /\ service' = [service EXCEPT !.mode = spec.mode]
        /\ services'.pc = IF /\ Initialized(service) /\ Initialized(service')
                             /\ service.mode = "vip" /\ spec.mode = "dnsrr" /\ subs["mode"] > 0
                          THEN "delete" ELSE "networks"
    BY <1>1 DEF SetEndpointMode, Idle
  <2>2. /\ service'.mode = spec.mode /\ service'.networks = service.networks
        /\ service'.ipam = service.ipam /\ service'.vips = service.vips
    BY <1>t, <2>1 DEF Service
  <2>3. (\A c \in Calls : calls[c] = None) /\ ~Removed /\ ~Removed'
    BY <2>1, NobodyCalls DEF Calm, Removed
  <2>4. (Up' <=> Up) /\ (Down' <=> Down) /\ Stored' = Stored
    BY <2>1, <2>2 DEF Up, Down, Stored, SubscribedTo
  <2>5. CASE service.mode = "vip" /\ service.ipam # {}
    <3>1. Up /\ Stored = service.ipam
      BY <2>1, <2>3, <2>5 DEF Serving
    <3>2. service.networks # {}
      BY <2>1, <2>5 DEF Calm, Given
    <3>3. spec.mode = "dnsrr" => services'.pc = "delete"
      BY <2>1, <2>2, <2>5, <3>1, <3>2 DEF Initialized, Up
    <3>4. spec.mode \in Modes /\ services'.pc \in {"delete", "networks"}
      BY <1>t, <2>1 DEF Specs
    <3> QED
      BY <1>n, <2>1, <2>2, <2>3, <2>4, <2>5, <3>1, <3>3, <3>4 DEF Modes
  <2>6. CASE ~(service.mode = "vip" /\ service.ipam # {})
    <3>1. Down
      BY <2>1, <2>3, <2>6 DEF Serving
    <3>2. service.ipam = {}
      <4>1. applied = None => service.ipam = {}
        BY <2>1 DEF Calm
      <4>2. applied # None => Given(applied)
        BY <2>1 DEF Calm
      <4> QED
        BY <2>6, <4>1, <4>2 DEF Given
    <3>3. services'.pc \in {"delete", "networks"}
      BY <2>1
    <3> QED
      BY <1>n, <2>1, <2>2, <2>3, <2>4, <3>1, <3>2, <3>3
  <2> QED
    BY <2>5, <2>6
<1>2. CASE SetNetworks
  <2>1. /\ services.pc = "networks" /\ services'.pc = "ipam"
        /\ UNCHANGED <<applied, hasLbs, stored, subs, unsubscriber, calls>>
        /\ service' = [service EXCEPT !.networks = applied.networks]
    BY <1>2 DEF SetNetworks, Idle
  <2>2. /\ service'.mode = service.mode /\ service'.ipam = service.ipam
        /\ service'.vips = service.vips
    BY <1>t, <2>1 DEF Service
  <2>3. (\A c \in Calls : calls[c] = None)
    BY <2>1, NobodyCalls
  <2>4. (Up' <=> Up) /\ (Down' <=> Down) /\ Stored' = Stored /\ (Removed' <=> Removed)
    BY <2>1, <2>2 DEF Up, Down, Stored, SubscribedTo, Removed
  <2> QED
    BY <1>n, <2>1, <2>2, <2>3, <2>4 DEF Serving
<1>3. CASE SetIpamVIPs
  <2>1. /\ UNCHANGED <<applied, hasLbs, stored, subs, unsubscriber>>
        /\ services.pc = "ipam" /\ services'.pc = "idle" /\ ~Removed
        /\ service'.mode = service.mode /\ service'.vips = service.vips
        /\ \A c \in Calls : calls[c] = None
        /\ service.mode = "vip" <=> \E c \in Calls : calls'[c] # None
        /\ \A c \in Calls : calls'[c] # None =>
             calls'[c].pc = "start" /\ (calls'[c].create <=> service.ipam = {})
    BY <1>3, IpamShape
  <2>2. (Up' <=> Up) /\ (Down' <=> Down) /\ Stored' = Stored /\ (Removed' <=> Removed)
    BY <2>1 DEF Up, Down, Stored, SubscribedTo, Removed
  <2>3. IF service.mode = "vip" /\ service.ipam # {} THEN Up ELSE Down
    BY <2>1 DEF Serving
  <2>4. CASE service.mode = "vip"
    <3>1. \E c \in Calls : calls'[c] # None
      BY <2>1, <2>4
    <3>2. \A c \in Calls : calls'[c] # None =>
            calls'[c].pc \in Before /\ IF calls'[c].create THEN Down' ELSE Up'
      BY <2>1, <2>2, <2>3, <2>4 DEF Before
    <3>3. \A c \in Calls : calls'[c] # None =>
            calls'[c].pc \notin {"frontends", "networks", "added", "removed", "mode"}
      BY <2>1
    <3> QED
      BY <2>1, <3>1, <3>2, <3>3 DEF Serving
  <2>5. CASE service.mode # "vip"
    <3>1. Down' /\ \A c \in Calls : calls'[c] = None
      BY <2>1, <2>2, <2>3, <2>5
    <3> QED
      BY <1>n, <2>1, <2>5, <3>1
  <2> QED
    BY <2>4, <2>5
<1>4. CASE ServiceRemoved
  <2>1. /\ services.pc = "idle" /\ ~spec.live /\ spec # applied /\ applied' = spec
        /\ UNCHANGED <<service, hasLbs, stored, subs, unsubscriber, calls>>
        /\ services'.pc = IF spec.mode = "vip" THEN "delete" ELSE "idle"
    BY <1>4 DEF ServiceRemoved, Idle
  <2>2. (\A c \in Calls : calls[c] = None) /\ Removed'
    BY <1>t, <2>1, NobodyCalls DEF Removed
  <2>3. (Up' <=> Up) /\ (Down' <=> Down) /\ Stored' = Stored
    BY <2>1 DEF Up, Down, Stored, SubscribedTo
  <2>4. Down \/ (Up /\ Stored = service.ipam)
    BY <2>1, <2>2 DEF Serving
  <2>5. service.mode = spec.mode
    BY <2>1 DEF Calm, Given
  <2>6. spec.mode # "vip" => Down
    BY <2>1, <2>2, <2>5 DEF Serving
  <2> QED
    BY <1>n, <2>1, <2>2, <2>3, <2>4, <2>6
\* After a deletion there is nothing.
<1>d. ASSUME services.pc \in {"delete", "unsubscribe", "dismantle"}, UNCHANGED <<applied, service, calls>>,
             Deleted, Down'
      PROVE  Serving'
  <2>1. \A c \in Calls : calls'[c] = None
    BY <1>d, NobodyCalls
  <2>2. ~Removed => service.mode = "dnsrr"
    BY <1>d DEF Calm
  <2>3. (Removed' <=> Removed) /\ services'.pc \in {"delete", "idle", "networks"}
    BY <1>d, DeletedType DEF Removed
  <2> QED
    BY <1>d, <1>n, <2>1, <2>2, <2>3
<1>5. CASE NothingToDelete
  <2>1. /\ services.pc = "delete" /\ ~hasLbs /\ Deleted
        /\ UNCHANGED <<applied, service, calls, hasLbs, stored, subs, unsubscriber>>
    BY <1>5 DEF NothingToDelete
  <2>2. Down
    BY <2>1 DEF Serving, Up
  <2>3. Down'
    BY <2>1, <2>2 DEF Down, SubscribedTo, Stored
  <2> QED
    BY <1>d, <2>1, <2>3
<1>6. CASE Delete
  <2>1. /\ services.pc = "delete" /\ hasLbs /\ hasLbs' = FALSE
        /\ UNCHANGED <<applied, service, calls, stored, subs, unsubscriber>>
        /\ services' = [services EXCEPT !.pc = IF unsubscriber THEN "unsubscribe" ELSE "dismantle"]
    BY <1>6 DEF Delete
  <2>2. Up /\ Stored = service.ipam
    BY <2>1 DEF Serving, Down
  <2>3. services'.pc = "unsubscribe"
    BY <2>1, <2>2 DEF Up, SubscribedTo, AllEvents, TypeOK
  <2>4. (SubscribedTo(AllEvents))' /\ Stored' = service.ipam /\ service.vips = stored'
    BY <2>1, <2>2 DEF Up, SubscribedTo, AllEvents, Stored
  <2>5. \A c \in Calls : calls'[c] = None
    BY <2>1, NobodyCalls
  <2> QED
    BY <1>n, <2>1, <2>3, <2>4, <2>5
<1>7. CASE Unsubscribe
  <2>1. /\ services.pc = "unsubscribe"
        /\ UNCHANGED <<applied, service, calls, stored, hasLbs>>
        /\ subs' = [e \in DOMAIN subs |-> IF e = "mode" THEN subs[e] ELSE subs[e] - 1]
        /\ unsubscriber' = FALSE
        /\ services' = [services EXCEPT !.pc = "dismantle"]
    BY <1>7 DEF Unsubscribe
  <2>2. services'.pc = "dismantle"
    BY <2>1 DEF TypeOK
  <2>3. /\ ~hasLbs /\ SubscribedTo(AllEvents) /\ Stored = service.ipam /\ service.vips = stored
    BY <2>1 DEF Serving
  <2>4. \A e \in {"networks", "added", "removed"} : subs[e] = 1
    BY <2>3 DEF SubscribedTo, AllEvents
  <2>5. \A e \in {"networks", "added", "removed"} : subs'[e] = 0
    BY <2>1, <2>4 DEF TypeOK
  <2>6. SubscribedTo({})' /\ Stored' = Stored
    BY <2>1, <2>5 DEF SubscribedTo, Stored
  <2>7. \A c \in Calls : calls'[c] = None
    BY <2>1, NobodyCalls
  <2> QED
    BY <1>n, <2>1, <2>2, <2>3, <2>6, <2>7
<1>8. CASE Dismantle
  <2>1. /\ services.pc = "dismantle" /\ Deleted
        /\ UNCHANGED <<applied, service, calls, hasLbs, subs, unsubscriber>>
        /\ stored' = IF Undeletable(service, Balanced) = {}
                     THEN [n \in Networks |-> None] ELSE stored
    BY <1>8 DEF Dismantle
  <2>2. m \notin Calls
    BY <2>1, ServiceLbAssumption DEF Held
  <2>3. Stored' = {}
    BY <2>1, <2>2, AllDeletable DEF Stored
  <2>4. ~hasLbs /\ SubscribedTo({})
    BY <2>1 DEF Serving
  <2>5. Down'
    BY <2>1, <2>3, <2>4 DEF Down, SubscribedTo
  <2> QED
    BY <1>d, <2>1, <2>5
<1> QED
  BY <1>1, <1>2, <1>3, <1>4, <1>5, <1>6, <1>7, <1>8 DEF ServicesStep

\* A call makes the load balancers, stores their VIPs and then subscribes to the events; one for a
\* service that has its load balancers already is done once the VIPs are stored.
LEMMA ServingCall ==
  ASSUME TypeOK, Held, Calm, UpToDate, Serving, Agreed, NEW c \in Calls, CallStep(c)
  PROVE  Serving'
<1> USE DEF docker, management, events
<1>1. /\ calls[c] # None /\ (calls'[c] # None => calls'[c].create = calls[c].create)
      /\ \A d \in Calls \ {c} : calls[d] = None /\ calls'[d] = None
      /\ services' = services /\ applied' = applied /\ services.pc = "idle"
      /\ service'.mode = service.mode /\ service'.ipam = service.ipam
      /\ (Removed' <=> Removed)
  BY CallShape DEF Calm, Removed
<1>2. CASE Start(c) \/ Read(c) \/ Check(c) \/ Wait(c)
  <2>1. UNCHANGED <<applied, services, service, hasLbs, stored, subs, unsubscriber>>
    BY <1>2 DEF Start, Read, Check, Wait
  <2> QED
    BY <1>2, <2>1, CallBegins, ServingFrame
\* Where the call goes on.
<1>g. ASSUME calls'[c] # None,
             IF ~calls'[c].create THEN Up'
             ELSE /\ calls'[c].pc \notin Before /\ hasLbs'
                  /\ calls'[c].pc = "frontends" => SubscribedTo({})' /\ Stored' = {}
                  /\ calls'[c].pc = "networks" => SubscribedTo({})'
                  /\ calls'[c].pc = "added" => SubscribedTo({"networks"})'
                  /\ calls'[c].pc = "removed" => SubscribedTo({"networks", "added"})'
                  /\ calls'[c].pc = "mode" => SubscribedTo(AllEvents)'
                  /\ calls'[c].pc \in {"networks", "added", "removed", "mode"} =>
                       Stored' = service'.ipam /\ service'.vips = stored'
      PROVE  Serving'
  BY <1>1, <1>g DEF Serving
\* Where it ends.
<1>e. ASSUME calls'[c] = None, Up', Stored' = service'.ipam,
             service.mode = "vip", service.ipam # {}, ~Removed
      PROVE  Serving'
  BY <1>1, <1>e DEF Serving
<1>3. CASE Ensure(c)
  <2>1. /\ hasLbs' = TRUE /\ UNCHANGED <<service, stored, subs, unsubscriber>>
        /\ calls'[c] # None /\ calls'[c].pc = "frontends" /\ calls[c].pc = "ready"
    BY <1>3, EnsureDone, EnsureShape
  <2>2. IF ~calls[c].create THEN Up ELSE Down
    BY <1>1, <2>1 DEF Serving, Before
  <2>3. IF ~calls[c].create THEN Up' ELSE SubscribedTo({})' /\ Stored' = {}
    BY <2>1, <2>2 DEF Up, Down, SubscribedTo, Stored
  <2>4. calls'[c].pc \notin Before
    BY <2>1 DEF Before
  <2> QED
    BY <1>1, <1>g, <2>1, <2>3, <2>4
<1>4. CASE Publish(c)
  <2>1. /\ PublishVips(c) /\ UNCHANGED <<subs, unsubscriber, hasLbs>>
        /\ calls[c].pc = "frontends" /\ calls[c].seen.ipam = service.ipam
        /\ service.mode = "vip" /\ service.ipam # {} /\ ~Removed
        /\ IF calls[c].create
           THEN calls'[c] # None /\ calls'[c].pc = "networks" /\ calls'[c].create
           ELSE calls'[c] = None
    BY <1>4, PublishDone
  <2>2. PICK given \in [service.ipam -> Vips \cup {IpamVip}] :
          stored' = StoredVips(given) /\ service' = [service EXCEPT !.vips = stored']
    BY <2>1 DEF PublishVips
  <2>3. Stored' = service.ipam /\ service'.vips = stored'
    <3>1. service \in Service /\ service.ipam \subseteq Networks
      BY DEF TypeOK, Service
    <3>2. \A n \in Networks : stored'[n] # None <=> n \in service.ipam
      BY <2>2, <3>1, ServiceLbAssumption DEF StoredVips
    <3> QED
      BY <2>2, <3>1, <3>2 DEF Stored, Service
  <2>4. CASE calls[c].create
    <3>1. hasLbs /\ SubscribedTo({})
      BY <1>1, <2>1, <2>4 DEF Serving, Before
    <3>2. hasLbs' /\ SubscribedTo({})'
      BY <2>1, <3>1 DEF SubscribedTo
    <3> QED
      BY <1>1, <1>g, <2>1, <2>3, <2>4, <3>2 DEF Before
  <2>5. CASE ~calls[c].create
    <3>1. Up
      BY <1>1, <2>5 DEF Serving
    <3>2. Up'
      BY <2>1, <2>3, <3>1 DEF Up, SubscribedTo
    <3> QED
      BY <1>1, <1>e, <2>1, <2>3, <2>5, <3>2
  <2> QED
    BY <2>4, <2>5
<1>5. CASE Subscribe(c)
  <2>1. UNCHANGED <<service, hasLbs, stored>>
    BY <1>5 DEF Subscribe
  <2>2. PICK e \in {"networks", "added", "removed", "mode"} :
          /\ calls[c].pc = e
          /\ e = "networks" => calls'[c] # None /\ calls'[c].pc = "added"
          /\ e = "added" => calls'[c] # None /\ calls'[c].pc = "removed"
          /\ e = "removed" => calls'[c] # None /\ calls'[c].pc = "mode"
          /\ e = "mode" => calls'[c] = None
          /\ subs'[e] = subs[e] + 1
          /\ \A f \in {"networks", "added", "removed", "mode"} \ {e} : subs'[f] = subs[f]
          /\ unsubscriber' = (unsubscriber \/ e = "removed")
    BY <1>5, SubscribeShape
  <2>3. calls[c].create /\ calls[c].pc \notin Before
    BY <1>1, <2>2 DEF UpToDate, Before
  <2>4. hasLbs /\ Stored = service.ipam /\ service.vips = stored
    BY <1>1, <2>2, <2>3 DEF Serving
  <2>5. Stored' = service'.ipam /\ service'.vips = stored' /\ hasLbs'
    BY <2>1, <2>4 DEF Stored
  <2>6. unsubscriber \in BOOLEAN /\ \A f \in {"networks", "added", "removed", "mode"} : subs[f] \in Nat
    BY ServiceLbAssumption DEF TypeOK, Subs
  <2>7. CASE e = "networks"
    <3>1. SubscribedTo({})
      BY <1>1, <2>2, <2>3, <2>7 DEF Serving
    <3>2. SubscribedTo({"networks"})'
      BY <2>2, <2>6, <2>7, <3>1 DEF SubscribedTo
    <3> QED
      BY <1>1, <1>g, <2>2, <2>3, <2>5, <2>7, <3>2 DEF Before
  <2>8. CASE e = "added"
    <3>1. SubscribedTo({"networks"})
      BY <1>1, <2>2, <2>3, <2>8 DEF Serving
    <3>2. SubscribedTo({"networks", "added"})'
      BY <2>2, <2>6, <2>8, <3>1 DEF SubscribedTo
    <3> QED
      BY <1>1, <1>g, <2>2, <2>3, <2>5, <2>8, <3>2 DEF Before
  <2>9. CASE e = "removed"
    <3>1. SubscribedTo({"networks", "added"})
      BY <1>1, <2>2, <2>3, <2>9 DEF Serving
    <3>2. SubscribedTo(AllEvents)'
      <4>1. subs["networks"] = 1 /\ subs["added"] = 1 /\ subs["removed"] = 0
        BY <3>1 DEF SubscribedTo
      <4>2. subs'["networks"] = 1 /\ subs'["added"] = 1 /\ subs'["removed"] = 1
        BY <2>2, <2>9, <4>1
      <4>3. unsubscriber'
        BY <2>2, <2>9
      <4> QED
        BY <4>2, <4>3 DEF SubscribedTo, AllEvents
    <3> QED
      BY <1>1, <1>g, <2>2, <2>3, <2>5, <2>9, <3>2 DEF Before
  <2>10. CASE e = "mode"
    <3>1. SubscribedTo(AllEvents)
      BY <1>1, <2>2, <2>3, <2>10 DEF Serving
    <3>2. SubscribedTo(AllEvents)' /\ subs'["mode"] > 0
      <4>1. subs["networks"] = 1 /\ subs["added"] = 1 /\ subs["removed"] = 1 /\ unsubscriber
        BY <3>1 DEF SubscribedTo, AllEvents
      <4>2. /\ subs'["networks"] = 1 /\ subs'["added"] = 1 /\ subs'["removed"] = 1
            /\ subs'["mode"] = subs["mode"] + 1
        BY <2>2, <2>10, <4>1
      <4>3. unsubscriber'
        BY <2>2, <4>1
      <4> QED
        BY <2>6, <4>2, <4>3 DEF SubscribedTo, AllEvents
    <3>3. service.mode = "vip" /\ service.ipam # {} /\ ~Removed
      <4>1. applied = spec /\ spec.live /\ spec.mode = "vip" /\ spec \in Specs /\ None \notin Specs
        BY <1>1, ServiceLbAssumption DEF Calm, TypeOK
      <4>2. Given(spec) /\ spec.networks # {}
        BY <1>1, <4>1 DEF Calm, Specs
      <4> QED
        BY <4>1, <4>2 DEF Given, Removed
    <3> QED
      BY <1>1, <1>e, <2>2, <2>5, <2>10, <3>2, <3>3 DEF Up
  <2> QED
    BY <2>7, <2>8, <2>9, <2>10
<1> QED
  BY <1>2, <1>3, <1>4, <1>5 DEF CallStep

\* Every step keeps what the service has in order.
LEMMA ServingStep ==
  ASSUME ~Hasty, TypeOK, Held, Calm, UpToDate, Serving, Agreed, [Next]_vars
  PROVE  Serving'
<1> USE DEF docker, management, events
<1>1. CASE ServiceUpdated \/ (\E c \in Containers : ContainerAdded(c) \/ ContainerRemoved(c))
             \/ Backends
  <2>1. UNCHANGED <<applied, services, service, hasLbs, stored, subs, unsubscriber, calls>>
    BY <1>1 DEF ServiceUpdated, ContainerAdded, ContainerRemoved, Backends
  <2> QED
    BY <2>1, ServingFrame
<1>2. CASE \E n \in Networks : NetworkRegistered(n) \/ NetworkRemoved(n)
  <2>1. UNCHANGED <<applied, services, service, hasLbs, stored, subs, unsubscriber>> /\ Broadcast
    BY <1>2 DEF NetworkRegistered, NetworkRemoved
  <2> QED
    BY <2>1, BroadcastType, ServingFrame DEF Before
<1>3. CASE UNCHANGED vars
  BY <1>3, ServingFrame DEF vars
<1> QED
  BY <1>1, <1>2, <1>3, ServingServices, ServingCall DEF Next

-----------------------------------------------------------------------------
(* One change after the other: the VIPs.                                   *)

\* Where no VIP is given, stored, allocated or released.
LEMMA AgreedFrame ==
  ASSUME Agreed, UNCHANGED <<stored, owned>>, Known \subseteq Known',
         \A n \in Networks : (lbs'[n] # None <=> lbs[n] # None) /\ VipOf(n)' = VipOf(n),
         m' \in Calls <=> m \in Calls, m \in Calls => service'.networks = service.networks
  PROVE  Agreed'
BY DEF Agreed

\* The services' goroutine: a deletion releases the VIPs that are not IPAM's, and forgets all.
LEMMA AgreedServices ==
  ASSUME TypeOK, Held, Calm, Serving, Agreed, ServicesStep
  PROVE  Agreed'
<1> USE DEF docker, management, events
<1>1. \A c \in Calls : calls[c] = None
  <2>1. services.pc # "idle" \/ applied # spec
    BY DEF ServicesStep, SetEndpointMode, SetNetworks, SetIpamVIPs, ServiceRemoved,
           NothingToDelete, Delete, Unsubscribe, Dismantle
  <2> QED
    BY <2>1, NobodyCalls
<1>2. m \notin Calls
  BY <1>1 DEF Held, At
<1>3. CASE ~Dismantle
  <2>1. UNCHANGED <<lbs, stored, owned, network>> /\ (m' = m \/ m' = "services")
    BY <1>3 DEF ServicesStep, SetEndpointMode, SetNetworks, SetIpamVIPs, ServiceRemoved,
                NothingToDelete, Delete, Unsubscribe
  <2>2. m' \notin Calls
    BY <1>2, <2>1, ServiceLbAssumption
  <2> QED
    BY <1>2, <2>1, <2>2, AgreedFrame DEF Known, VipOf
<1>4. CASE Dismantle
  <2>1. /\ services.pc = "dismantle" /\ lbs' = [n \in Networks |-> None] /\ m' = None
        /\ UNCHANGED network
        /\ \E deleted \in DeletedOf(service, Balanced) : ReleaseVips(service, deleted)
        /\ stored' = IF Undeletable(service, Balanced) = {}
                     THEN [n \in Networks |-> None] ELSE stored
    BY <1>4 DEF Dismantle
  <2>2. stored' = [n \in Networks |-> None] /\ ReleaseVips(service, Balanced)
    BY <1>2, <2>1, AllDeletable
  <2>3. \A n \in Networks : lbs'[n] = None /\ stored'[n] = None /\ VipOf(n)' = None
    BY <2>1, <2>2 DEF VipOf
  <2>4. m' \notin Calls /\ IpamVip # None
    BY <2>1, ServiceLbAssumption
  <2>5. ASSUME NEW n \in Networks, ~Preferred
        PROVE  owned'[n] = {}
    <3>1. owned'[n] = IF n \in Balanced /\ ReleasesVip(service, n) THEN owned[n] \ {VipOf(n)}
                                                                   ELSE owned[n]
      BY <2>2 DEF ReleaseVips
    <3>2. owned[n] \subseteq {VipOf(n)} /\ owned[n] \in SUBSET (Vips \cup {IpamVip})
      BY <2>5 DEF Agreed, TypeOK
    <3>3. CASE VipOf(n) = None
      <4>1. owned[n] = {}
        BY <3>2, <3>3, ServiceLbAssumption
      <4> QED
        BY <3>1, <4>1
    <3>4. CASE VipOf(n) # None
      <4>1. n \in Balanced /\ VipOf(n) = stored[n] /\ VipOf(n) # IpamVip
        BY <1>2, <2>5, <3>4 DEF Agreed, VipOf, Balanced
      <4>2. stored = service.vips
        BY <2>1 DEF Serving
      <4>3. SeenIpamVip(service, n) \in {IpamVip, None}
        BY DEF SeenIpamVip
      <4>4. ReleasesVip(service, n)
        BY <3>4, <4>1, <4>2, <4>3 DEF ReleasesVip
      <4> QED
        BY <3>1, <3>2, <4>1, <4>4
    <3> QED
      BY <3>3, <3>4
  <2> QED
    BY <2>3, <2>4, <2>5 DEF Agreed
<1> QED
  BY <1>3, <1>4

\* A network Docker deletes is not one of the service, which has no VIP there.
LEMMA AgreedNetworks ==
  ASSUME ~Hasty, TypeOK, Held, Calm, Serving, Agreed, NEW n \in Networks,
         NetworkRegistered(n) \/ NetworkRemoved(n)
  PROVE  Agreed'
<1> USE DEF docker, management, events
<1>1. CASE NetworkRegistered(n)
  <2>1. UNCHANGED <<lbs, stored, owned, m, service>>
    BY <1>1 DEF NetworkRegistered
  <2>2. Known \subseteq Known'
    BY <1>1 DEF NetworkRegistered, Known, TypeOK
  <2> QED
    BY <2>1, <2>2, AgreedFrame DEF VipOf
<1>2. CASE NetworkRemoved(n)
  <2>1. /\ Quiet /\ (spec.live => n \notin spec.networks)
        /\ network' = [network EXCEPT ![n] = "gone"] /\ owned' = [owned EXCEPT ![n] = {}]
        /\ UNCHANGED <<lbs, stored, m, service>>
    BY <1>2 DEF NetworkRemoved
  <2>2. services.pc = "idle" /\ applied = spec /\ (\A c \in Calls : calls[c] = None)
    BY <2>1 DEF Quiet
  <2>3. m \notin Calls
    BY <2>2 DEF Held, At
  <2>4. stored[n] = None
    <3>0. applied # None
      BY <2>2, ServiceLbAssumption DEF TypeOK
    <3>1. Given(applied)
      BY <2>2, <3>0 DEF Calm
    <3>2. n \notin Stored
      <4>1. CASE service.mode = "vip" /\ service.ipam # {} /\ ~Removed
        <5>1. Stored = service.ipam
          BY <2>2, <4>1 DEF Serving
        <5>2. spec.live
          BY <2>2, <3>0, <4>1 DEF Removed
        <5> QED
          BY <2>1, <2>2, <3>1, <5>1, <5>2 DEF Given
      <4>2. CASE ~(service.mode = "vip" /\ service.ipam # {} /\ ~Removed)
        BY <2>2, <4>2 DEF Serving, Down
      <4> QED
        BY <4>1, <4>2
    <3> QED
      BY <3>2 DEF Stored
  <2>5. lbs[n] = None /\ VipOf(n) = None
    BY <2>3, <2>4 DEF Agreed
  <2>6. /\ \A x \in Networks : VipOf(x)' = VipOf(x) /\ lbs'[x] = lbs[x] /\ stored'[x] = stored[x]
        /\ \A x \in Networks \ {n} : owned'[x] = owned[x] /\ (x \in Known' <=> x \in Known)
        /\ owned'[n] = {}
    BY <2>1 DEF VipOf, Known, TypeOK
  <2>7. ASSUME NEW x \in Networks
        PROVE  /\ lbs'[x] # None <=> stored'[x] # None
               /\ VipOf(x)' = stored'[x]
               /\ stored'[x] # None => x \in Known'
               /\ VipOf(x)' # None => VipOf(x)' \in owned'[x]
               /\ ~Preferred => owned'[x] \subseteq {VipOf(x)'} /\ VipOf(x)' # IpamVip
    <3>1. CASE x = n
      <4>1. IpamVip # None
        BY ServiceLbAssumption
      <4> QED
        BY <2>4, <2>5, <2>6, <3>1, <4>1
    <3>2. CASE x # n
      BY <2>3, <2>6, <3>2 DEF Agreed
    <3> QED
      BY <3>1, <3>2
  <2> QED
    BY <2>1, <2>3, <2>7 DEF Agreed
<1> QED
  BY <1>1, <1>2

\* The load balancers of networks the service has left are deleted, and their VIPs released.
LEMMA AgreedEnsure ==
  ASSUME TypeOK, Held, Calm, UpToDate, Serving, Agreed, NEW c \in Calls, Ensure(c)
  PROVE  Agreed'
<1>1. /\ m = None /\ m' = c /\ UNCHANGED <<service, stored>>
      /\ lbs' = [n \in Networks |-> IF n \in Balanced \ service.networks THEN None
                                    ELSE IF n \in service.networks \ Balanced THEN NewLb
                                    ELSE lbs[n]]
      /\ ReleaseVips(calls[c].seen, Balanced \ service.networks)
  BY EnsureDone
<1>2. /\ calls[c] # None /\ calls[c].pc = "ready" /\ m \notin Calls
      /\ NewLb # None /\ NewLb.vip = None /\ IpamVip # None
  BY <1>1, EnsureShape, ServiceLbAssumption DEF NewLb, LoadBalancer
<1>3. SUFFICES ASSUME NEW n \in Networks
               PROVE  /\ lbs'[n] # None <=> n \in service.networks
                      /\ VipOf(n)' = IF n \in service.networks THEN stored[n] ELSE None
                      /\ VipOf(n)' # None => VipOf(n)' \in owned'[n]
                      /\ ~Preferred => owned'[n] \subseteq {VipOf(n)'} /\ VipOf(n)' # IpamVip
  BY <1>1 DEF Agreed
<1>4. /\ lbs[n] # None <=> stored[n] # None
      /\ VipOf(n) = stored[n]
      /\ VipOf(n) # None => VipOf(n) \in owned[n]
      /\ ~Preferred => owned[n] \subseteq {VipOf(n)} /\ VipOf(n) # IpamVip
  BY <1>2 DEF Agreed
<1>5. owned'[n] = IF n \in Balanced \ service.networks /\ ReleasesVip(calls[c].seen, n)
                  THEN owned[n] \ {VipOf(n)} ELSE owned[n]
  BY <1>1 DEF ReleaseVips
<1>6. CASE n \in service.networks
  <2>1. owned'[n] = owned[n]
    BY <1>5, <1>6
  <2>2. CASE n \in Balanced
    <3>1. lbs'[n] = lbs[n] /\ lbs[n] # None
      BY <1>1, <1>6, <2>2 DEF Balanced
    <3>2. VipOf(n)' = VipOf(n)
      BY <3>1 DEF VipOf
    <3> QED
      BY <1>4, <1>6, <2>1, <3>1, <3>2
  <2>3. CASE n \notin Balanced
    <3>1. lbs'[n] = NewLb /\ lbs[n] = None
      BY <1>1, <1>6, <2>3 DEF Balanced
    <3>2. VipOf(n)' = None /\ VipOf(n) = None
      BY <1>2, <3>1 DEF VipOf
    <3> QED
      BY <1>2, <1>4, <1>6, <2>1, <3>1, <3>2
  <2> QED
    BY <2>2, <2>3
<1>7. CASE n \notin service.networks
  <2>1. lbs'[n] = None
    BY <1>1, <1>7 DEF Balanced
  <2>2. VipOf(n)' = None
    BY <2>1 DEF VipOf
  <2>3. ~Preferred => owned'[n] \subseteq {None}
    <3>1. CASE n \notin Balanced
      <4>1. VipOf(n) = None
        BY <3>1 DEF VipOf, Balanced
      <4> QED
        BY <1>4, <1>5, <3>1, <4>1
    <3>2. CASE n \in Balanced
      <4>1. stored[n] # None /\ VipOf(n) = stored[n]
        BY <1>4, <3>2 DEF Balanced
      <4>2. Stored # {}
        BY <4>1 DEF Stored
      <4>3. ~calls[c].create /\ service.vips = stored
        BY <1>2, <4>2 DEF Serving, Before, Down, Up
      <4>4. calls[c].seen.vips = stored /\ calls[c].seen.ipam = service.ipam
        BY <1>2, <4>3 DEF UpToDate
      <4>5. n \notin service.ipam
        BY <1>2, <1>7 DEF Calm, Given
      <4>6. ReleasesVip(calls[c].seen, n)
        BY <4>1, <4>4, <4>5 DEF ReleasesVip, SeenIpamVip
      <4> QED
        BY <1>4, <1>5, <1>7, <3>2, <4>6
    <3> QED
      BY <3>1, <3>2
  <2> QED
    BY <1>2, <1>7, <2>1, <2>2, <2>3
<1> QED
  BY <1>6, <1>7

\* The VIPs published are the stored ones, or allocated now; all of them are stored.
LEMMA AgreedPublish ==
  ASSUME TypeOK, Held, Calm, UpToDate, Agreed, NEW c \in Calls, Publish(c)
  PROVE  /\ Agreed'
         /\ \A n \in Networks : VipOf(n) # None /\ lbs'[n] # None => lbs'[n].vip = VipOf(n)
<1>1. /\ PublishVips(c) /\ m = c /\ m' = None /\ calls[c].seen.ipam = service.networks
      /\ service.networks \subseteq Known /\ UNCHANGED network
  BY PublishDone DEF Publish
<1>2. PICK given \in [service.networks -> Vips \cup {IpamVip}] :
        /\ \A n \in service.networks : given[n] \in VipsFor(n) /\ lbs[n] # None
        /\ PutUp(given) /\ stored' = StoredVips(given)
  BY <1>1 DEF PublishVips
<1>3. m' \notin Calls /\ None \notin Vips \cup {IpamVip} /\ None \notin LoadBalancer /\ IpamVip \notin Vips
  BY <1>1, ServiceLbAssumption
<1>4. service.networks \subseteq Networks /\ Known' = Known
  BY <1>1 DEF TypeOK, Service, Known
<1>5. SUFFICES ASSUME NEW n \in Networks
               PROVE  /\ lbs'[n] # None <=> stored'[n] # None
                      /\ VipOf(n)' = stored'[n]
                      /\ stored'[n] # None => n \in Known
                      /\ VipOf(n)' # None => VipOf(n)' \in owned'[n]
                      /\ ~Preferred => owned'[n] \subseteq {VipOf(n)'} /\ VipOf(n)' # IpamVip
                      /\ VipOf(n) # None /\ lbs'[n] # None => lbs'[n].vip = VipOf(n)
  BY <1>3, <1>4 DEF Agreed
<1>6. /\ lbs[n] # None <=> n \in service.networks
      /\ VipOf(n) = IF n \in service.networks THEN stored[n] ELSE None
      /\ VipOf(n) # None => VipOf(n) \in owned[n]
      /\ ~Preferred => owned[n] \subseteq {VipOf(n)} /\ VipOf(n) # IpamVip
  BY <1>1 DEF Agreed
<1>7. CASE n \in service.networks
  <2>1. lbs[n] \in LoadBalancer /\ n \in Known
    BY <1>1, <1>6, <1>7 DEF TypeOK
  <2>2. PICK vip \in Vips \cup {IpamVip} : vip = given[n] /\ vip \in VipsFor(n) /\ vip # None
    BY <1>2, <1>3, <1>7
  <2>3. DOMAIN given = service.networks
    OBVIOUS
  <2>4. /\ lbs'[n] = [lbs[n] EXCEPT !.vip = vip] /\ stored'[n] = vip
        /\ owned'[n] = IF stored[n] = None THEN owned[n] \cup {vip} ELSE owned[n]
    BY <1>2, <1>6, <1>7, <2>2, <2>3 DEF PutUp, StoredVips
  <2>5. lbs'[n].vip = vip /\ lbs'[n] # None
    <3>1. lbs'[n] \in LoadBalancer /\ lbs'[n].vip = vip
      BY <2>1, <2>2, <2>4 DEF LoadBalancer
    <3> QED
      BY <1>3, <3>1
  <2>6. VipOf(n)' = vip
    BY <2>5 DEF VipOf
  <2>7. CASE stored[n] # None
    <3>1. vip = stored[n] /\ owned'[n] = owned[n]
      BY <2>2, <2>4, <2>7 DEF VipsFor
    <3> QED
      BY <1>6, <1>7, <2>1, <2>2, <2>4, <2>5, <2>6, <2>7, <3>1
  <2>8. CASE stored[n] = None
    <3>1. VipOf(n) = None /\ owned'[n] = owned[n] \cup {vip}
      BY <1>6, <1>7, <2>4, <2>8
    <3>2. ~Preferred => vip \in Vips /\ owned[n] = {}
      <4>1. ~Preferred => owned[n] \subseteq {None}
        BY <1>6, <3>1
      <4>2. owned[n] \in SUBSET (Vips \cup {IpamVip})
        BY DEF TypeOK
      <4>3. ~Preferred => vip \in Vips
        BY <2>1, <2>2, <2>8 DEF VipsFor
      <4> QED
        BY <1>3, <4>1, <4>2, <4>3
    <3> QED
      BY <1>3, <1>6, <2>1, <2>2, <2>4, <2>5, <2>6, <3>1, <3>2
  <2> QED
    BY <2>7, <2>8
<1>8. CASE n \notin service.networks
  <2>1. DOMAIN given = service.networks
    OBVIOUS
  <2>2. lbs'[n] = lbs[n] /\ owned'[n] = owned[n] /\ stored'[n] = None
    BY <1>2, <1>8, <2>1 DEF PutUp, StoredVips
  <2>3. lbs[n] = None /\ VipOf(n) = None
    BY <1>6, <1>8
  <2>4. VipOf(n)' = None
    BY <2>2, <2>3 DEF VipOf
  <2> QED
    BY <1>3, <1>6, <2>2, <2>3, <2>4
<1> QED
  BY <1>7, <1>8

\* A container that comes or goes changes backends only.
LEMMA BackendsShape ==
  ASSUME TypeOK, Backends
  PROVE  /\ UNCHANGED <<m, service, stored, owned, network>>
         /\ \A n \in Networks : (lbs'[n] # None <=> lbs[n] # None) /\ VipOf(n)' = VipOf(n)
<1> USE DEF management
<1>1. PICK reached \in SUBSET Balanced :
        lbs' = [n \in Networks |->
                  IF n \notin reached THEN lbs[n]
                  ELSE [lbs[n] EXCEPT !.backends =
                          IF raising.event = "added" THEN @ \cup {raising.container}
                          ELSE @ \ {raising.container}]]
  <2> DEFINE there == raising.networks \cap (IF hasLbs THEN Balanced ELSE {})
  <2>1. there \subseteq Balanced
    OBVIOUS
  <2>2. PICK reached \in SUBSET there :
          lbs' = [n \in Networks |->
                    IF n \notin reached THEN lbs[n]
                    ELSE [lbs[n] EXCEPT !.backends =
                            IF raising.event = "added" THEN @ \cup {raising.container}
                            ELSE @ \ {raising.container}]]
    BY DEF Backends
  <2> QED
    BY <2>1, <2>2
<1>2. raising.container \in Containers
  BY DEF Backends, TypeOK
<1>3. ASSUME NEW n \in Networks
      PROVE  (lbs'[n] # None <=> lbs[n] # None) /\ VipOf(n)' = VipOf(n)
  <2>1. CASE n \notin reached
    BY <1>1, <2>1 DEF VipOf
  <2>2. CASE n \in reached
    <3>1. lbs[n] \in LoadBalancer /\ lbs[n] # None
      BY <2>2 DEF Balanced, TypeOK
    <3>2. PICK bs \in SUBSET Containers : lbs'[n] = [lbs[n] EXCEPT !.backends = bs]
      <4>1. lbs[n].backends \in SUBSET Containers
        BY <3>1 DEF LoadBalancer
      <4>2. \/ lbs'[n] = [lbs[n] EXCEPT !.backends = lbs[n].backends \cup {raising.container}]
            \/ lbs'[n] = [lbs[n] EXCEPT !.backends = lbs[n].backends \ {raising.container}]
        BY <1>1, <2>2
      <4>3. /\ lbs[n].backends \cup {raising.container} \in SUBSET Containers
            /\ lbs[n].backends \ {raising.container} \in SUBSET Containers
        BY <1>2, <4>1
      <4> QED
        BY <4>2, <4>3
    <3>3. lbs'[n].vip = lbs[n].vip /\ lbs'[n] \in LoadBalancer
      BY <3>1, <3>2 DEF LoadBalancer
    <3> QED
      BY <3>1, <3>3, ServiceLbAssumption DEF VipOf
  <2> QED
    BY <2>1, <2>2
<1>4. UNCHANGED <<m, service, stored, owned, network>>
  BY DEF Backends
<1> QED
  BY <1>3, <1>4

\* Every step keeps memory, the stored VIPs and the pools in agreement.
LEMMA AgreedStep ==
  ASSUME ~Hasty, TypeOK, Held, Calm, UpToDate, Serving, Agreed, [Next]_vars
  PROVE  Agreed'
<1> USE DEF docker, management, events
<1>1. CASE ServiceUpdated \/ (\E c \in Containers : ContainerAdded(c) \/ ContainerRemoved(c))
             \/ (\E c \in Calls : Start(c) \/ Read(c) \/ Check(c) \/ Wait(c) \/ Subscribe(c))
             \/ UNCHANGED vars
  <2>1. UNCHANGED <<lbs, stored, owned, network, m, service>>
    BY <1>1 DEF ServiceUpdated, ContainerAdded, ContainerRemoved, Start, Read, Check, Wait,
                Subscribe, vars
  <2> QED
    BY <2>1, AgreedFrame DEF Known, VipOf
<1>2. CASE Backends
  BY <1>2, BackendsShape, AgreedFrame DEF Known
<1>3. CASE \E n \in Networks : NetworkRegistered(n) \/ NetworkRemoved(n)
  BY <1>3, AgreedNetworks
<1>4. CASE \E c \in Calls : Ensure(c) \/ Publish(c)
  BY <1>4, AgreedEnsure, AgreedPublish
<1> QED
  BY <1>1, <1>2, <1>3, <1>4, AgreedServices DEF Next, CallStep

-----------------------------------------------------------------------------
(* The theorems of one change after the other.                             *)

Steady == TypeOK /\ Held /\ Subscribed /\ Calm /\ UpToDate /\ Serving /\ Agreed

\* At first the service has nothing.
LEMMA InitSteady == Init => Steady
<1> SUFFICES ASSUME Init PROVE Steady
  OBVIOUS
<1>1. TypeOK /\ Held /\ Subscribed
  BY InitOK
<1>2. /\ services.pc = "idle" /\ applied = None /\ m = None /\ ~hasLbs /\ ~unsubscriber /\ spec.live
      /\ service.networks = {} /\ service.ipam = {}
      /\ \A c \in Calls : calls[c] = None
      /\ \A n \in Networks : lbs[n] = None /\ stored[n] = None /\ owned[n] = {}
      /\ \A e \in {"networks", "added", "removed"} : subs[e] = 0
  BY DEF Init, Idle
<1>3. ~Removed /\ Down
  BY <1>2 DEF Removed, Down, Stored, SubscribedTo
<1>4. Calm
  BY <1>2, <1>3 DEF Calm
<1>5. UpToDate
  BY <1>2 DEF UpToDate
<1>6. Serving
  BY <1>2, <1>3 DEF Serving
<1>7. Agreed
  BY <1>2, ServiceLbAssumption DEF Agreed, VipOf
<1> QED
  BY <1>1, <1>4, <1>5, <1>6, <1>7 DEF Steady

\* All of it is kept, together.
LEMMA SteadyStep ==
  ASSUME ~Hasty, Steady, [Next]_vars
  PROVE  Steady'
<1>1. TypeOK' /\ Held' /\ Subscribed'
  BY TypeStep, HeldStep, SubscribedStep DEF Steady
<1>2. Calm' /\ UpToDate' /\ Serving' /\ Agreed'
  BY CalmStep, UpToDateStep, ServingStep, AgreedStep DEF Steady
<1> QED
  BY <1>1, <1>2 DEF Steady

\* Where each change comes after the last one is dealt with, no frontend listens on an address
\* that the pool of its network may give to others.
THEOREM FrontendsOwned ==
  ASSUME ~Hasty
  PROVE  Spec => []FrontendOwned
<1>1. Steady /\ [Next]_vars => Steady'
  BY SteadyStep
<1>2. Steady => FrontendOwned
  BY DEF Steady, Agreed, FrontendOwned, Known
<1> QED
  BY <1>1, <1>2, InitSteady, PTL DEF Spec

\* There, and where the pools give addresses of their own, etcd has the VIPs of the frontends
\* whenever nobody is in a critical section, and names every VIP that is allocated.
THEOREM VipsStayAgreed ==
  ASSUME ~Hasty, ~Preferred
  PROVE  Spec => []VipsAgree
<1>1. Steady /\ [Next]_vars => Steady'
  BY SteadyStep
<1>2. Steady => VipsAgree
  <2> SUFFICES ASSUME Steady, m = None
               PROVE  /\ \A n \in Networks : VipOf(n) # None => stored[n] = VipOf(n)
                      /\ \A n \in Known : owned[n] \subseteq {stored[n]}
    BY DEF VipsAgree
  <2>1. m \notin Calls
    BY ServiceLbAssumption
  <2> QED
    BY <2>1 DEF Steady, Agreed, Known
<1> QED
  BY <1>1, <1>2, InitSteady, PTL DEF Spec

\* There a load balancer keeps the VIP it was given for as long as it exists.
THEOREM FrontendsStable ==
  ASSUME ~Hasty
  PROVE  Spec => FrontendStable
<1>1. Steady /\ [Next]_vars => Steady'
  BY SteadyStep
<1>2. ASSUME Steady, [Next]_vars, NEW n \in Networks, VipOf(n) # None, lbs'[n] # None
      PROVE  lbs'[n].vip = VipOf(n)
  <2> USE DEF docker, management, events
  <2>1. lbs[n] # None /\ VipOf(n) = lbs[n].vip
    BY <1>2 DEF VipOf
  <2>2. CASE \E c \in Calls : Ensure(c)
    <3>1. lbs'[n] \in {None, lbs[n]}
      <4>1. n \in Balanced
        BY <2>1 DEF Balanced
      <4>2. PICK c \in Calls : Ensure(c)
        BY <2>2
      <4> QED
        BY <1>2, <4>1, <4>2, EnsureDone DEF Steady
    <3> QED
      BY <1>2, <2>1, <3>1
  <2>3. CASE \E c \in Calls : Publish(c)
    BY <1>2, <2>3, AgreedPublish DEF Steady
  <2>4. CASE Backends
    <3>1. VipOf(n)' = VipOf(n)
      BY <1>2, <2>4, BackendsShape DEF Steady
    <3> QED
      BY <1>2, <3>1 DEF VipOf
  <2>5. CASE Dismantle
    BY <1>2, <2>5 DEF Dismantle
  <2>6. CASE UNCHANGED lbs
    BY <1>2, <2>1, <2>6
  <2>7. \/ \E c \in Calls : Ensure(c) \/ Publish(c)
        \/ Backends \/ Dismantle \/ UNCHANGED lbs
    BY <1>2 DEF Next, ServicesStep, CallStep, ServiceUpdated, SetEndpointMode, SetNetworks,
                SetIpamVIPs, ServiceRemoved, NothingToDelete, Delete, Unsubscribe,
                NetworkRegistered, NetworkRemoved, Start, Read, Check, Wait, Subscribe,
                ContainerAdded, ContainerRemoved, vars
  <2> QED
    BY <2>2, <2>3, <2>4, <2>5, <2>6, <2>7
<1>3. Steady /\ [Next]_vars =>
        [\A n \in Networks : VipOf(n) # None /\ lbs'[n] # None => lbs'[n].vip = VipOf(n)]_vars
  BY <1>2
<1> QED
  BY <1>1, <1>3, InitSteady, PTL DEF Spec, FrontendStable

\* There the words of the code hold: only a service in mode vip has a load balancer once its
\* changes are dealt with, and a call that is done waiting finds all networks it has read of.
THEOREM CalmKeepsPromises ==
  ASSUME ~Hasty
  PROVE  Spec => [](OnlyForVip /\ NetworksKnown)
<1>1. Steady /\ [Next]_vars => Steady'
  BY SteadyStep
<1>2. Steady => OnlyForVip
  <2> SUFFICES ASSUME Steady, Quiet, Removed \/ service.mode = "dnsrr"
               PROVE  ~hasLbs
    BY DEF OnlyForVip
  <2> QED
    BY DEF Steady, Serving, Quiet, Down
<1>3. Steady => NetworksKnown
  BY DEF Steady, UpToDate, NetworksKnown, At
<1> QED
  BY <1>1, <1>2, <1>3, InitSteady, PTL DEF Spec

-----------------------------------------------------------------------------
(* Changes at any time, but of the networks.                               *)

\* The service's networks are those it was created with.
Fixed ==
  /\ applied # None => applied.networks = spec.networks
  /\ service.ipam \subseteq spec.networks
  /\ services.pc = "ipam" \/ (\E c \in Calls : calls[c] # None) =>
       service.networks = spec.networks
  /\ \A c \in Calls : calls[c] # None /\ calls[c].pc # "start" =>
       calls[c].seen.networks = spec.networks /\ calls[c].seen.ipam \subseteq spec.networks
  /\ \A n \in Networks : lbs[n] # None => n \in spec.networks /\ network[n] # "unknown"

\* A VIP that a frontend has is owned, and so is one that is stored, until a network of the
\* service is gone; then no call gets as far as to put up a stored one.
Owning ==
  /\ \A n \in Networks : VipOf(n) # None /\ network[n] # "gone" => VipOf(n) \in owned[n]
  /\ m \in Calls \/ (\A n \in spec.networks : network[n] # "gone") =>
       \A n \in Networks : stored[n] # None /\ network[n] # "gone" => stored[n] \in owned[n]

\* The services' goroutine gives the service its networks before it starts a call.
LEMMA FixedServices ==
  ASSUME TypeOK, Held, Fixed, ServicesStep
  PROVE  Fixed'
<1> USE DEF docker, management, events
<1>t. /\ service \in Service /\ spec \in Specs /\ (services.pc # "idle" => applied # None)
      /\ UNCHANGED <<spec, network>>
  BY DEF TypeOK, Held, ServicesStep, SetEndpointMode, SetNetworks, SetIpamVIPs, ServiceRemoved,
         NothingToDelete, Delete, Unsubscribe, Dismantle
<1>1. CASE SetEndpointMode \/ ServiceRemoved
  <2>1. /\ applied' = spec /\ UNCHANGED <<calls, lbs>> /\ services'.pc # "ipam"
        /\ service' = service \/ service' = [service EXCEPT !.mode = spec.mode]
    <3>1. CASE SetEndpointMode
      BY <3>1 DEF SetEndpointMode, Idle
    <3>2. CASE ServiceRemoved
      BY <3>2 DEF ServiceRemoved, Idle
    <3> QED
      BY <1>1, <3>1, <3>2
  <2>2. service'.networks = service.networks /\ service'.ipam = service.ipam
    BY <1>t, <2>1 DEF Service
  <2> QED
    BY <1>t, <2>1, <2>2 DEF Fixed
<1>2. CASE SetNetworks
  <2>1. /\ UNCHANGED <<applied, calls, lbs>> /\ services.pc = "networks"
        /\ service' = [service EXCEPT !.networks = applied.networks]
    BY <1>2 DEF SetNetworks
  <2>2. service'.networks = applied.networks /\ service'.ipam = service.ipam
    BY <1>t, <2>1 DEF Service
  <2> QED
    BY <1>t, <2>1, <2>2 DEF Fixed
<1>3. CASE SetIpamVIPs
  <2>1. /\ UNCHANGED <<applied, lbs>> /\ services.pc = "ipam" /\ services'.pc = "idle"
        /\ service' = [service EXCEPT !.ipam = IF applied.mode = "vip" THEN applied.networks ELSE {}]
    BY <1>3 DEF SetIpamVIPs, Idle
  <2>2. service'.networks = service.networks /\ service'.ipam \in {applied.networks, {}}
    BY <1>t, <2>1 DEF Service
  <2>3. PICK n : Spawn(n, TRUE) \/ Spawn(n, FALSE)
    BY <1>3, Zenon DEF SetIpamVIPs
  <2>4. \A c \in Calls : calls'[c] # None =>
          calls'[c].pc = "start" \/ (calls[c] # None /\ calls'[c] = calls[c])
    BY <2>3, SpawnType
  <2> QED
    BY <1>t, <2>1, <2>2, <2>4 DEF Fixed
<1>4. CASE NothingToDelete \/ Delete \/ Unsubscribe \/ Dismantle
  <2>1. /\ UNCHANGED <<applied, service, calls>>
        /\ lbs' = lbs \/ lbs' = [n \in Networks |-> None]
    BY <1>4 DEF NothingToDelete, Delete, Unsubscribe, Dismantle
  <2>2. services'.pc # "ipam"
    <3>1. CASE Deleted
      BY <3>1, DeletedType
    <3>2. CASE ~Deleted
      <4>1. \E pc \in {"unsubscribe", "dismantle"} : services' = [services EXCEPT !.pc = pc]
        BY <1>4, <3>2 DEF NothingToDelete, Delete, Unsubscribe, Dismantle
      <4> QED
        BY <4>1 DEF TypeOK
    <3> QED
      BY <3>1, <3>2
  <2> QED
    BY <1>t, <2>1, <2>2 DEF Fixed
<1> QED
  BY <1>1, <1>2, <1>3, <1>4 DEF ServicesStep

\* A call that ends up with load balancers in a network had them there, or has found it known.
LEMMA FixedCall ==
  ASSUME TypeOK, Held, Fixed, NEW c \in Calls, CallStep(c)
  PROVE  Fixed'
<1> USE DEF docker, management, events
<1>1. /\ calls[c] # None /\ \A d \in Calls \ {c} : calls'[d] = calls[d]
      /\ UNCHANGED <<spec, applied, services, network>>
      /\ service'.networks = service.networks /\ service'.ipam = service.ipam
  BY CallShape
<1>t. /\ calls[c] \in Call /\ service.networks = spec.networks
      /\ calls[c].pc # "start" => calls[c].seen \in Snapshot
  BY <1>1 DEF TypeOK, Held, Call, Fixed
<1>2. ASSUME \A n \in Networks : lbs'[n] # None => n \in spec.networks /\ network[n] # "unknown",
             calls'[c] # None /\ calls'[c].pc # "start" =>
               calls'[c].seen.networks = spec.networks /\ calls'[c].seen.ipam \subseteq spec.networks
      PROVE  Fixed'
  BY <1>1, <1>t, <1>2 DEF Fixed
<1>3. CASE Start(c)
  <2>1. /\ UNCHANGED lbs
        /\ calls'[c].seen = [networks |-> service.networks, ipam |-> {}, vips |-> service.vips]
    BY <1>3, <1>t DEF Start, TypeOK, Call
  <2> QED
    BY <1>2, <1>t, <2>1 DEF Fixed
<1>4. CASE Read(c)
  <2>1. calls[c].pc = "reading" /\ UNCHANGED lbs
    BY <1>4 DEF Read, At
  <2>2. PICK vips \in {calls[c].seen.vips, service.vips} :
          calls' = [calls EXCEPT ![c].pc = "checking",
                                 ![c].seen = [networks |-> calls[c].seen.networks,
                                              ipam |-> service.ipam, vips |-> vips]]
    BY <1>4 DEF Read
  <2>3. calls'[c].seen = [networks |-> calls[c].seen.networks, ipam |-> service.ipam,
                          vips |-> vips]
    BY <1>t, <2>2 DEF TypeOK, Call
  <2> QED
    BY <1>1, <1>2, <2>1, <2>3 DEF Fixed
<1>5. CASE Check(c) \/ Wait(c)
  <2>1. calls[c].pc # "start" /\ UNCHANGED lbs
    BY <1>5 DEF Check, Wait, At
  <2>2. PICK pc \in Phases : Goto(c, pc)
    BY <1>5 DEF Check, Wait, Phases
  <2> QED
    BY <1>1, <1>2, <2>1, <2>2, GotoType DEF Fixed
<1>6. CASE Ensure(c)
  <2>1. /\ calls[c].pc = "ready"
        /\ calls'[c] # None => calls'[c].seen = calls[c].seen
    BY <1>6, EnsureShape
  <2>2. calls[c].seen.networks = spec.networks
    BY <1>1, <2>1 DEF Fixed
  <2>3. \A n \in Networks : lbs'[n] # None =>
          lbs[n] # None \/ (n \in calls[c].seen.networks /\ n \in Known)
    <3>1. CASE calls[c].seen.networks \subseteq Known
      <4>1. PICK deleted : lbs' = [n \in Networks |->
                                     IF n \in deleted THEN None
                                     ELSE IF n \in calls[c].seen.networks \ Balanced THEN NewLb
                                     ELSE lbs[n]]
        BY <1>6, <3>1 DEF Ensure
      <4> QED
        BY <3>1, <4>1
    <3>2. CASE ~(calls[c].seen.networks \subseteq Known)
      <4>1. PICK created \in SUBSET ((calls[c].seen.networks \cap Known) \ Balanced) :
              lbs' = [n \in Networks |-> IF n \in created THEN NewLb ELSE lbs[n]]
        BY <1>6, <3>2 DEF Ensure
      <4> QED
        BY <4>1
    <3> QED
      BY <3>1, <3>2
  <2> QED
    BY <1>1, <1>2, <2>1, <2>2, <2>3 DEF Fixed, Known
<1>7. CASE Publish(c)
  <2>1. /\ calls[c].pc = "frontends"
        /\ calls'[c] # None => calls'[c].seen = calls[c].seen
    BY <1>7, PublishShape
  <2>2. \E given : PutUp(given)
    BY <1>7 DEF Publish, PublishVips, PublishFailed
  <2>3. \A n \in Networks : lbs'[n] # None => lbs[n] # None
    BY <2>2 DEF PutUp
  <2> QED
    BY <1>1, <1>2, <2>1, <2>3 DEF Fixed
<1>8. CASE Subscribe(c)
  <2>1. /\ calls[c].pc # "start" /\ UNCHANGED lbs
        /\ calls'[c] # None => calls'[c].seen = calls[c].seen
    BY <1>8, SubscribeShape DEF Subscribe
  <2> QED
    BY <1>1, <1>2, <2>1 DEF Fixed
<1> QED
  BY <1>3, <1>4, <1>5, <1>6, <1>7, <1>8 DEF CallStep

\* Every step leaves the networks as they are.
LEMMA FixedStep ==
  ASSUME "networks" \notin Kinds, TypeOK, Held, Fixed, [Next]_vars
  PROVE  Fixed'
<1> USE DEF docker, management, events
<1>1. CASE ServiceUpdated \/ (\E c \in Containers : ContainerAdded(c) \/ ContainerRemoved(c))
             \/ UNCHANGED vars
  <2>1. /\ UNCHANGED <<applied, services, service, calls, lbs, network>>
        /\ spec'.networks = spec.networks
    BY <1>1 DEF ServiceUpdated, ContainerAdded, ContainerRemoved, vars
  <2> QED
    BY <2>1 DEF Fixed
<1>2. CASE Backends
  <2>1. UNCHANGED <<spec, applied, services, service, calls, network>>
    BY <1>2 DEF Backends
  <2> QED
    BY <1>2, <2>1, BackendsShape DEF Fixed
<1>3. CASE \E n \in Networks : NetworkRegistered(n) \/ NetworkRemoved(n)
  <2>1. UNCHANGED <<spec, applied, services, service, lbs>> /\ Broadcast
    BY <1>3 DEF NetworkRegistered, NetworkRemoved
  <2>2. \A n \in Networks : network'[n] = "unknown" => network[n] = "unknown"
    BY <1>3 DEF NetworkRegistered, NetworkRemoved, TypeOK
  <2>3. \A c \in Calls : calls'[c] # None =>
          /\ calls[c] # None /\ calls'[c].seen = calls[c].seen
          /\ calls'[c].pc # "start" => calls[c].pc # "start"
    BY <2>1, BroadcastType
  <2> QED
    BY <2>1, <2>2, <2>3 DEF Fixed
<1> QED
  BY <1>1, <1>2, <1>3, FixedServices, FixedCall DEF Next

\* A VIP is given to a frontend and to the pool's books in one step, and taken from both.
LEMMA OwningPublish ==
  ASSUME TypeOK, Held, Owning, NEW c \in Calls, Publish(c)
  PROVE  Owning'
<1>1. m = c /\ UNCHANGED <<spec, network>>
  BY PublishShape DEF Publish, Held, At, docker
<1>2. \A n \in Networks : stored[n] # None /\ network[n] # "gone" => stored[n] \in owned[n]
  BY <1>1 DEF Owning
<1>3. PICK given : /\ PutUp(given)
                   /\ \A n \in DOMAIN given : given[n] \in VipsFor(n)
                   /\ stored' = stored \/ stored' = StoredVips(given)
  <2>1. CASE PublishVips(c)
    <3>1. PICK given \in [calls[c].seen.ipam -> Vips \cup {IpamVip}] :
            /\ \A n \in calls[c].seen.ipam : given[n] \in VipsFor(n)
            /\ PutUp(given) /\ stored' = StoredVips(given)
      BY <2>1 DEF PublishVips
    <3>2. DOMAIN given = calls[c].seen.ipam
      OBVIOUS
    <3> QED
      BY <3>1, <3>2
  <2>2. CASE PublishFailed(c)
    <3>1. PICK ns : \E given \in [ns -> Vips \cup {IpamVip}] :
                      (\A n \in ns : given[n] \in VipsFor(n)) /\ PutUp(given)
      BY <2>2 DEF PublishFailed
    <3>2. PICK given \in [ns -> Vips \cup {IpamVip}] :
            (\A n \in ns : given[n] \in VipsFor(n)) /\ PutUp(given)
      BY <3>1
    <3>3. DOMAIN given = ns /\ UNCHANGED stored
      BY <2>2 DEF PublishFailed
    <3> QED
      BY <3>2, <3>3
  <2> QED
    BY <2>1, <2>2 DEF Publish
<1>4. SUFFICES ASSUME NEW n \in Networks, network[n] # "gone"
               PROVE  /\ VipOf(n)' # None => VipOf(n)' \in owned'[n]
                      /\ stored'[n] # None => stored'[n] \in owned'[n]
  BY <1>1 DEF Owning
<1>5. /\ VipOf(n) # None => VipOf(n) \in owned[n]
      /\ stored[n] # None => stored[n] \in owned[n]
  BY <1>2, <1>4 DEF Owning
<1>6. /\ lbs'[n] = IF n \in DOMAIN given /\ lbs[n] # None
                   THEN [lbs[n] EXCEPT !.vip = given[n]] ELSE lbs[n]
      /\ owned'[n] = IF n \in DOMAIN given /\ stored[n] = None
                     THEN owned[n] \cup {given[n]} ELSE owned[n]
  BY <1>3 DEF PutUp
<1>7. n \in DOMAIN given => given[n] \in owned'[n]
  <2>1. n \in DOMAIN given /\ stored[n] # None => given[n] = stored[n]
    BY <1>3 DEF VipsFor
  <2> QED
    BY <1>5, <1>6, <2>1
<1>8. VipOf(n)' # None => VipOf(n)' \in owned'[n]
  <2>1. CASE n \in DOMAIN given /\ lbs[n] # None
    <3>1. lbs[n] \in LoadBalancer
      BY <2>1 DEF TypeOK
    <3>2. lbs'[n].vip = given[n]
      BY <1>6, <2>1, <3>1 DEF LoadBalancer
    <3> QED
      BY <1>7, <2>1, <3>2 DEF VipOf
  <2>2. CASE ~(n \in DOMAIN given /\ lbs[n] # None)
    <3>1. VipOf(n)' = VipOf(n)
      BY <1>6, <2>2 DEF VipOf
    <3> QED
      BY <1>5, <1>6, <3>1
  <2> QED
    BY <2>1, <2>2
<1>9. stored'[n] # None => stored'[n] \in owned'[n]
  <2>1. stored'[n] \in {stored[n], None} \/ (n \in DOMAIN given /\ stored'[n] = given[n])
    BY <1>3 DEF StoredVips
  <2> QED
    BY <1>5, <1>6, <1>7, <2>1
<1> QED
  BY <1>8, <1>9

\* Every step keeps the VIPs owned.
LEMMA OwningStep ==
  ASSUME "networks" \notin Kinds, TypeOK, Held, Fixed, Owning, [Next]_vars
  PROVE  Owning'
<1> USE DEF docker, management, events
\* Where no VIP is given or taken.
<1>f. ASSUME UNCHANGED <<stored, owned, network>>, spec'.networks = spec.networks,
             \A n \in Networks : VipOf(n)' = VipOf(n) \/ VipOf(n)' = None, m' \in Calls <=> m \in Calls
      PROVE  Owning'
  BY <1>f DEF Owning
<1>1. CASE ServiceUpdated \/ (\E c \in Containers : ContainerAdded(c) \/ ContainerRemoved(c))
             \/ SetEndpointMode \/ SetNetworks \/ SetIpamVIPs \/ ServiceRemoved
             \/ NothingToDelete \/ Delete \/ Unsubscribe
             \/ (\E c \in Calls : Start(c) \/ Read(c) \/ Check(c) \/ Wait(c) \/ Subscribe(c))
             \/ UNCHANGED vars
  <2>1. /\ UNCHANGED <<stored, owned, network, lbs>> /\ spec'.networks = spec.networks
        /\ m' = m \/ (m = None /\ m' = "services")
    BY <1>1 DEF ServiceUpdated, ContainerAdded, ContainerRemoved, SetEndpointMode, SetNetworks,
                SetIpamVIPs, ServiceRemoved, NothingToDelete, Delete, Unsubscribe, Start, Read,
                Check, Wait, Subscribe, vars
  <2>2. \A n \in Networks : VipOf(n)' = VipOf(n)
    BY <2>1 DEF VipOf
  <2> QED
    BY <1>f, <2>1, <2>2, ServiceLbAssumption
<1>2. CASE Backends
  <2>1. UNCHANGED spec
    BY <1>2 DEF Backends
  <2> QED
    BY <1>2, <1>f, <2>1, BackendsShape
<1>3. ASSUME NEW n \in Networks, NetworkRegistered(n)
      PROVE  Owning'
  <2>1. /\ UNCHANGED <<spec, lbs, stored, owned, m>>
        /\ \A x \in Networks : network'[x] # "gone" => network[x] # "gone"
        /\ \A x \in Networks : network[x] # "gone" => network'[x] # "gone"
    BY <1>3 DEF NetworkRegistered, TypeOK
  <2>2. \A x \in Networks : VipOf(x)' = VipOf(x)
    BY <2>1 DEF VipOf
  <2>3. spec.networks \subseteq Networks
    BY DEF TypeOK, Specs
  <2> QED
    BY <2>1, <2>2, <2>3 DEF Owning
<1>4. ASSUME NEW n \in Networks, NetworkRemoved(n)
      PROVE  Owning'
  <2>1. /\ UNCHANGED <<spec, lbs, stored, m>> /\ network'[n] = "gone"
        /\ \A x \in Networks \ {n} : network'[x] = network[x] /\ owned'[x] = owned[x]
    BY <1>4 DEF NetworkRemoved, TypeOK
  <2>2. \A x \in Networks : VipOf(x)' = VipOf(x)
    BY <2>1 DEF VipOf
  <2>3. spec.networks \subseteq Networks
    BY DEF TypeOK, Specs
  <2> QED
    BY <2>1, <2>2, <2>3 DEF Owning
<1>5. ASSUME NEW c \in Calls, Ensure(c)
      PROVE  Owning'
  <2>1. /\ calls[c] # None /\ calls[c].pc = "ready" /\ m = None /\ m \notin Calls
        /\ UNCHANGED <<spec, stored, network>>
    BY <1>5, EnsureShape, ServiceLbAssumption DEF Ensure
  <2>2. calls[c].seen.networks = spec.networks /\ Balanced \subseteq spec.networks
    BY <2>1 DEF Fixed, Balanced
  <2>3. UNCHANGED owned /\ \A n \in Networks : lbs'[n] = lbs[n] \/ (lbs[n] = None /\ lbs'[n] = NewLb)
    <3>1. CASE calls[c].seen.networks \subseteq Known
      <4>1. Balanced \ calls[c].seen.networks = {}
        BY <2>2
      <4>2. DeletedOf(calls[c].seen, {}) = {{}}
        BY DEF DeletedOf, Undeletable
      <4>3. /\ lbs' = [n \in Networks |-> IF n \in {} THEN None
                                         ELSE IF n \in calls[c].seen.networks \ Balanced THEN NewLb
                                         ELSE lbs[n]]
            /\ ReleaseVips(calls[c].seen, {})
        BY <1>5, <3>1, <4>1, <4>2 DEF Ensure
      <4>4. UNCHANGED owned
        BY <4>3 DEF ReleaseVips, TypeOK
      <4> QED
        BY <4>3, <4>4 DEF Balanced
    <3>2. CASE ~(calls[c].seen.networks \subseteq Known)
      <4>1. UNCHANGED owned
        BY <1>5, <3>2 DEF Ensure
      <4>2. PICK created \in SUBSET ((calls[c].seen.networks \cap Known) \ Balanced) :
              lbs' = [n \in Networks |-> IF n \in created THEN NewLb ELSE lbs[n]]
        BY <1>5, <3>2 DEF Ensure
      <4> QED
        BY <4>1, <4>2 DEF Balanced
    <3> QED
      BY <3>1, <3>2
  <2>4. \A n \in Networks : VipOf(n)' = VipOf(n)
    BY <2>3 DEF VipOf, NewLb
  <2>5. m' \in Calls => \A n \in spec.networks : network[n] # "gone"
    <3>1. calls[c].seen.networks \subseteq Known \/ m' = None
      BY <1>5, <2>1 DEF Ensure
    <3> QED
      BY <2>2, <3>1, ServiceLbAssumption DEF Known
  <2> QED
    BY <2>1, <2>3, <2>4, <2>5 DEF Owning
<1>6. ASSUME NEW c \in Calls, Publish(c)
      PROVE  Owning'
  BY <1>6, OwningPublish
<1>7. CASE Dismantle
  <2>1. /\ UNCHANGED <<spec, network>> /\ lbs' = [n \in Networks |-> None] /\ m' = None
        /\ stored' = IF Undeletable(service, Balanced) = {}
                     THEN [n \in Networks |-> None] ELSE stored
        /\ \E deleted : ReleaseVips(service, deleted)
    BY <1>7 DEF Dismantle
  <2>2. (\A n \in Networks : VipOf(n)' = None) /\ m' \notin Calls
    BY <2>1, ServiceLbAssumption DEF VipOf
  <2>3. ASSUME \A n \in spec.networks : network[n] # "gone"
        PROVE  \A n \in Networks : stored'[n] = None
    <3>1. \A n \in Balanced : n \in Known
      BY <2>3 DEF Fixed, Balanced, Known, TypeOK
    <3>2. Undeletable(service, Balanced) = {}
      BY <3>1 DEF Undeletable
    <3> QED
      BY <2>1, <3>2
  <2> QED
    BY <2>1, <2>2, <2>3 DEF Owning
<1> QED
  BY <1>1, <1>2, <1>3, <1>4, <1>5, <1>6, <1>7 DEF Next, ServicesStep, CallStep

\* Whenever Docker changes the mode of the service, removes it or deletes a network, and however
\* many calls are on their way then: no frontend listens on an address that its network's pool
\* may give to others.  With changes of the service's networks too that is not so.
THEOREM FrontendsOwnedInHaste ==
  ASSUME "networks" \notin Kinds
  PROVE  Spec => []FrontendOwned
<1>1. /\ TypeOK /\ Held /\ Subscribed /\ Fixed /\ Owning /\ [Next]_vars
      => (TypeOK /\ Held /\ Subscribed /\ Fixed /\ Owning)'
  BY TypeStep, HeldStep, SubscribedStep, FixedStep, OwningStep
<1>2. Owning => FrontendOwned
  BY DEF Owning, FrontendOwned, Known
<1>3. Init => Fixed /\ Owning
  <2> SUFFICES ASSUME Init PROVE Fixed /\ Owning
    OBVIOUS
  <2>1. /\ applied = None /\ service.ipam = {} /\ services.pc = "idle"
        /\ \A c \in Calls : calls[c] = None
        /\ \A n \in Networks : lbs[n] = None /\ stored[n] = None
    BY DEF Init, Idle
  <2> QED
    BY <2>1 DEF Fixed, Owning, VipOf
<1> QED
  BY <1>1, <1>2, <1>3, InitOK, PTL DEF Spec
=============================================================================
