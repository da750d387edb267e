------------------------------ MODULE Fwmarks -------------------------------
(***************************************************************************)
(* The firewall marks of one node (pkg/service_lb/fwmarks.go) and what the *)
(* kernel does with them (network_specific_service_lb.go).  A load         *)
(* balancer marks the packets to its VIP with its mark, and an IPVS service*)
(* for the mark hands them to the backends.  etcd keeps two keys per mark, *)
(*   <network>/by-service/<service> = mark   and   <network>/list/<mark> = *)
(* service.  The kernel's state survives a crash of the plugin; the start  *)
(* cleans up after services that are gone (CleanUpStaleLoadBalancers).     *)
(*                                                                         *)
(* Creations and deletions of load balancers hold the management's mutex   *)
(* (service_lbs_management.go) from the first step to the last, so there is*)
(* at most one under way (op); the clean-up holds no lock.                 *)
(*                                                                         *)
(* A mark is the CRC of names, or of names with a random suffix: any value *)
(* that is not in use.  Two networks are assumed not to draw the same mark,*)
(* as the code does not look at the marks of other networks.               *)
(***************************************************************************)
EXTENDS Naturals, FiniteSets

CONSTANTS
  Services,   \* IDs Docker never uses twice
  Networks,
  Marks,      \* the values of a mark
  Overlap,    \* whether services come and go while the start cleans up
  MaxTurns,   \* bound: starts of the plugin and updates of services, together
  Faults,     \* of "etcd", "kernel", "crash" and "reboot"
  None

VARIABLES
  status,    \* Docker: what became of a service
  byService, \* etcd: <network>/by-service/<service>
  list,      \* etcd: <network>/list/<mark>
  phase,     \* where the plugin's start is
  turns,     \* starts and updates so far
  announced, \* the services in the memory of the store of services
  pending,   \* services with a creation or update that waits for the mutex
  lbs,       \* loadBalancers: a service's load balancers in its networks
  op,        \* the creation or deletion that holds the mutex
  existing,  \* existingServices: what the clean-up takes for all services
  todo,      \* the keys the clean-up still has to delete
  stale,     \* the mark it found for each service that is gone
  rules,     \* kernel: which VIP's packets get which mark
  ipvs,      \* kernel: the services whose containers a mark's IPVS service has
  swept      \* history: marks that clean-ups dealt with

etcd == <<byService, list>>
memory == <<announced, pending, lbs, op>>
cleanup == <<existing, todo, stale, swept>>
kernel == <<rules, ipvs>>
vars == <<status, etcd, phase, turns, memory, cleanup, kernel>>

\* frontend: frontendIP is set; ruled: iptablesRules has the rules.  Only the memory
\* has these: after a crash an object starts without them.
LoadBalancer == [mark : Marks, frontend : BOOLEAN, ruled : BOOLEAN]

ASSUME FwmarksAssumption ==
  /\ None \notin Services \cup Networks \cup Marks \cup LoadBalancer
  /\ Overlap \in BOOLEAN
  /\ MaxTurns \in Nat

NoneStale == [s \in Services |-> None]
NoLbs == [n \in Networks |-> None]

\* left: the networks whose turn is still to come; mark: what was generated.
Creation ==
  [pc : {"get", "generate", "commit", "frontends"}, service : Services,
   left : SUBSET Networks, network : Networks \cup {None}, mark : Marks \cup {None}]
\* lbs: the load balancers that were taken out of loadBalancers.
Deletion ==
  [pc : {"kernel", "release"}, service : Services, left : SUBSET Networks,
   network : Networks \cup {None}, lbs : [Networks -> LoadBalancer \cup {None}]]

TypeOK ==
  /\ status \in [Services -> {"future", "live", "removed"}]
  /\ byService \in [Networks -> [Services -> Marks \cup {None}]]
  /\ list \in [Networks -> [Marks -> Services \cup {None}]]
  /\ phase \in {"down", "loaded", "snapshot", "cleaning", "up"}
  /\ turns \in 0 .. MaxTurns
  /\ announced \in SUBSET Services
  /\ pending \in SUBSET Services
  /\ lbs \in [Services -> [Networks -> LoadBalancer \cup {None}]]
  /\ op \in Creation \cup Deletion \cup {None}
  /\ existing \in SUBSET Services
  /\ todo \in [byService : SUBSET (Networks \X Services), list : SUBSET (Networks \X Marks)]
  /\ stale \in [Services -> (Networks \X Marks) \cup {None}]
  /\ rules \in SUBSET (Services \X Networks \X Marks)
  /\ ipvs \in [Networks -> [Marks -> (SUBSET Services) \cup {None}]]
  /\ swept \in SUBSET (Networks \X Marks)

-----------------------------------------------------------------------------
(* Docker, and the handlers of the store of services.                      *)

CleaningUp == phase \in {"snapshot", "cleaning"}

ServiceCreated(s) ==
  /\ status[s] = "future"
  /\ CleaningUp => Overlap
  /\ status' = [status EXCEPT ![s] = "live"]
  /\ IF phase = "down"
     THEN UNCHANGED <<announced, pending>>
     ELSE announced' = announced \cup {s} /\ pending' = pending \cup {s}
  /\ UNCHANGED <<etcd, phase, turns, lbs, op, cleanup, kernel>>

\* createOrUpdateLoadBalancer is called again.
ServiceUpdated(s) ==
  /\ s \in announced /\ status[s] = "live"
  /\ turns < MaxTurns
  /\ turns' = turns + 1
  /\ pending' = pending \cup {s}
  /\ UNCHANGED <<status, etcd, phase, announced, lbs, op, cleanup, kernel>>

ServiceRemoved(s) ==
  /\ status[s] = "live"
  /\ status' = [status EXCEPT ![s] = "removed"]
  /\ UNCHANGED <<etcd, phase, turns, memory, cleanup, kernel>>

-----------------------------------------------------------------------------
(* createOrUpdateLoadBalancer: first a mark for each network, then the     *)
(* frontends.                                                              *)

Creating(pc) == op # None /\ op.pc = pc

BeginCreation(s) ==
  /\ op = None /\ s \in pending
  /\ pending' = pending \ {s}
  /\ op' = [pc |-> "get", service |-> s, left |-> Networks, network |-> None, mark |-> None]
  /\ UNCHANGED <<status, etcd, phase, turns, announced, lbs, cleanup, kernel>>

\* On to the next network; after the last one come the frontends.
NextNetwork(n) ==
  op' = IF op.left = {n}
        THEN [op EXCEPT !.pc = "frontends", !.left = Networks, !.network = None, !.mark = None]
        ELSE [op EXCEPT !.pc = "get", !.left = @ \ {n}, !.network = None, !.mark = None]

\* Get has the mark m for network n.
Got(n, m) ==
  /\ lbs' = [lbs EXCEPT ![op.service][n] = 
               [mark |-> m, frontend |-> FALSE, ruled |-> FALSE]]
  /\ NextNetwork(n)

\* A network that has a load balancer is left alone (TryAdd); Get first looks
\* the service up.
Lookup(n) ==
  /\ Creating("get") /\ n \in op.left
  /\ \/ /\ lbs[op.service][n] # None
        /\ NextNetwork(n) /\ UNCHANGED lbs
     \/ /\ lbs[op.service][n] = None /\ byService[n][op.service] # None
        /\ Got(n, byService[n][op.service])
     \/ /\ lbs[op.service][n] = None /\ byService[n][op.service] = None
        /\ op' = [op EXCEPT !.pc = "generate", !.network = n] /\ UNCHANGED lbs
  /\ UNCHANGED <<status, etcd, phase, turns, announced, pending, cleanup, kernel>>

\* Mutation: collisions are not looked for.
AnyMark(n) == Marks

Unused(n) == {m \in Marks : list[n][m] = None}

\* The list is read and a mark generated that is not on it; with none left the
\* creation fails.
GenerateFWMARK ==
  /\ Creating("generate")
  /\ \/ \E m \in Unused(op.network) : op' = [op EXCEPT !.pc = "commit", !.mark = m]
     \/ Unused(op.network) = {} /\ op' = None
  /\ UNCHANGED <<status, etcd, phase, turns, announced, pending, lbs, cleanup, kernel>>

\* Mutation: the values are swapped.
PutSwapped(n, s, m) ==
  /\ byService' = [byService EXCEPT ![n][s] = s]
  /\ list' = [list EXCEPT ![n][m] = m]

\* Mutation: the second key is left out.
PutServiceOnly(n, s, m) ==
  /\ byService' = [byService EXCEPT ![n][s] = m]
  /\ UNCHANGED list

Put(n, s, m) ==
  /\ byService' = [byService EXCEPT ![n][s] = m]
  /\ list' = [list EXCEPT ![n][m] = s]

\* The transaction; a mark that was registered since makes Get try another.
Commit ==
  /\ Creating("commit")
  /\ IF list[op.network][op.mark] = None
     THEN Put(op.network, op.service, op.mark) /\ Got(op.network, op.mark)
     ELSE op' = [op EXCEPT !.pc = "generate", !.mark = None] /\ UNCHANGED <<etcd, lbs>>
  /\ UNCHANGED <<status, phase, turns, announced, pending, cleanup, kernel>>

\* A call of Get fails, or the transaction's answer is lost.
GetError ==
  /\ "etcd" \in Faults
  /\ \E pc \in {"get", "generate", "commit"} : Creating(pc)
  /\ \/ UNCHANGED etcd
     \/ /\ op.pc = "commit" /\ list[op.network][op.mark] = None
        /\ Put(op.network, op.service, op.mark)
  /\ op' = None
  /\ UNCHANGED <<status, phase, turns, announced, pending, lbs, cleanup, kernel>>

Rule(s, n, m) == <<s, n, m>>
\* ensureIpvsService.
EnsureIpvsService(n, m) ==
  [ipvs EXCEPT ![n][m] = IF @ = None THEN {} ELSE @]

\* What UpdateFrontendIP has got to: the VIP, and the rules as well.
Updated(lb, set, recorded) ==
  [mark |-> lb.mark, frontend |-> lb.frontend \/ set, ruled |-> lb.ruled \/ recorded]

\* UpdateFrontendIP: the VIP is set, the IPVS service made, and the rules recorded
\* and applied.
UpdateFrontendIP(n) ==
  /\ Creating("frontends") /\ n \in op.left
  /\ LET m == lbs[op.service][n].mark IN
     /\ ipvs' = EnsureIpvsService(n, m)
     /\ rules' = rules \cup {Rule(op.service, n, m)}
  /\ lbs' = [lbs EXCEPT ![op.service][n] = Updated(lbs[op.service][n], TRUE, TRUE)]
  /\ op' = IF op.left = {n} THEN None ELSE [op EXCEPT !.left = @ \ {n}]
  /\ UNCHANGED <<status, etcd, phase, turns, announced, pending, cleanup>>

\* The kernel refuses a step, and the creation fails: the VIP's address, the IPVS
\* service, or one of the rules, which are recorded before they are applied.
FrontendError(n) ==
  /\ "kernel" \in Faults
  /\ Creating("frontends") /\ n \in op.left
  /\ \E set, recorded \in BOOLEAN :
       LET m == lbs[op.service][n].mark IN
       /\ recorded => set
       /\ lbs' = [lbs EXCEPT ![op.service][n] = Updated(lbs[op.service][n], set, recorded)]
       /\ ipvs' = IF recorded THEN EnsureIpvsService(n, m) ELSE ipvs
       /\ \/ UNCHANGED rules
          \/ recorded /\ rules' = rules \cup {Rule(op.service, n, m)}
  /\ op' = None
  /\ UNCHANGED <<status, etcd, phase, turns, announced, pending, cleanup>>

-----------------------------------------------------------------------------
(* addBackendIPsToLoadBalancer and removeBackendIPsFromLoadBalancer.       *)

Backends(n, m) == IF ipvs[n][m] = None THEN {} ELSE ipvs[n][m]

\* AddBackend.
AddBackend(s, n) ==
  /\ op = None /\ s \in announced /\ lbs[s][n] # None
  /\ LET m == lbs[s][n].mark IN
     ipvs' = [ipvs EXCEPT ![n][m] = Backends(n, m) \cup {s}]
  /\ UNCHANGED <<status, etcd, phase, turns, memory, cleanup, rules>>

\* RemoveBackend, of the service's last container.
RemoveBackend(s, n) ==
  /\ op = None /\ s \in announced /\ lbs[s][n] # None
  /\ LET m == lbs[s][n].mark IN
     ipvs' = [ipvs EXCEPT ![n][m] = Backends(n, m) \ {s}]
  /\ UNCHANGED <<status, etcd, phase, turns, memory, cleanup, rules>>

-----------------------------------------------------------------------------
(* DeleteLoadBalancer and deleteForNetwork.                                *)

\* handleServicesRemoved.
BeginDeletion(s) ==
  /\ op = None /\ s \in announced /\ status[s] = "removed"
  /\ CleaningUp => Overlap
  /\ announced' = announced \ {s}
  /\ lbs' = [lbs EXCEPT ![s] = NoLbs]
  /\ op' = IF lbs[s] = NoLbs THEN None
           ELSE [pc |-> "kernel", service |-> s, left |-> {n \in Networks : lbs[s][n] # None},
                 network |-> None, lbs |-> lbs[s]]
  /\ UNCHANGED <<status, etcd, phase, turns, pending, cleanup, kernel>>

Deleting(pc) == op # None /\ op.pc = pc
\* Delete applies the rules the object has recorded, which are none when its creation
\* failed before them: what an earlier run of the plugin left in the kernel stays.
DropRules(s, n, lb) ==
  rules' = IF lb.ruled THEN rules \ {Rule(s, n, lb.mark)} ELSE rules

\* What it deletes is there.
Deletable(s, n, lb) ==
  /\ lb.ruled => Rule(s, n, lb.mark) \in rules
  /\ ipvs[n][lb.mark] # None

\* Mutation: the IPVS service stays.
RulesDeletedOnly(s, n, lb) ==
  Deletable(s, n, lb) /\ DropRules(s, n, lb) /\ UNCHANGED ipvs

\* Delete of the load balancer, up to the VIP's address.
KernelDeleted(s, n, lb) ==
  /\ Deletable(s, n, lb)
  /\ DropRules(s, n, lb)
  /\ ipvs' = [ipvs EXCEPT ![n][lb.mark] = None]

\* There is no address to delete when the creation failed before it.
DeleteInKernel(n) ==
  /\ Deleting("kernel") /\ n \in op.left
  /\ op.lbs[n].frontend
  /\ KernelDeleted(op.service, n, op.lbs[n])
  /\ op' = [op EXCEPT !.pc = "release", !.left = @ \ {n}, !.network = n]
  /\ UNCHANGED <<status, etcd, phase, turns, announced, pending, lbs, cleanup>>

\* The kernel refuses one of the steps, or has no such thing.  The rest is left as it is.
DeleteInKernelError(n) ==
  /\ Deleting("kernel") /\ n \in op.left
  /\ LET s == op.service  lb == op.lbs[n] IN
     /\ "kernel" \in Faults \/ ~lb.frontend \/ ~Deletable(s, n, lb)
     /\ \/ UNCHANGED kernel
        \/ DropRules(s, n, lb) /\ UNCHANGED ipvs
        \/ KernelDeleted(s, n, lb)
  /\ op' = None
  /\ UNCHANGED <<status, etcd, phase, turns, announced, pending, lbs, cleanup>>

Registered(s, n, m) == byService[n][s] = m /\ list[n][m] = s

\* Release: a transaction that is refused counts as a success (WithMessagef of no
\* error is no error).
ReleaseKeys(s, n, m) ==
  IF Registered(s, n, m)
  THEN /\ byService' = [byService EXCEPT ![n][s] = None]
       /\ list' = [list EXCEPT ![n][m] = None]
  ELSE UNCHANGED etcd

Release ==
  /\ Deleting("release")
  /\ ReleaseKeys(op.service, op.network, op.lbs[op.network].mark)
  /\ op' = IF op.left = {} THEN None ELSE [op EXCEPT !.pc = "kernel", !.network = None]
  /\ UNCHANGED <<status, phase, turns, announced, pending, lbs, cleanup, kernel>>

\* The transaction fails, or its answer is lost.
ReleaseError ==
  /\ "etcd" \in Faults
  /\ Deleting("release")
  /\ \/ UNCHANGED etcd
     \/ ReleaseKeys(op.service, op.network, op.lbs[op.network].mark)
  /\ op' = None
  /\ UNCHANGED <<status, phase, turns, announced, pending, lbs, cleanup, kernel>>

-----------------------------------------------------------------------------
(* The start, and CleanUpStaleLoadBalancers in it.                         *)

\* Docker's data is loaded and the handlers called.
Start ==
  /\ phase = "down" /\ turns < MaxTurns
  /\ phase' = "loaded"
  /\ turns' = turns + 1
  /\ announced' = {s \in Services : status[s] = "live"}
  /\ pending' = announced'
  /\ UNCHANGED <<status, etcd, lbs, op, cleanup, kernel>>

\* The driver reads the IDs of the services ...
TakeServices ==
  /\ phase = "loaded"
  /\ Deleting("kernel") \/ Deleting("release") => Overlap
  /\ phase' = "snapshot"
  /\ existing' = announced
  /\ UNCHANGED <<status, etcd, turns, memory, todo, stale, swept, kernel>>

\* Mutation: every key is stale.
IsAnyKey(s) == s # None

IsStale(s) == s # None /\ s \notin existing

\* ... and cleanUpStaleFwmarks the keys.  Of a service's marks in several networks
\* it keeps one.
ReadKeys ==
  /\ phase = "snapshot"
  /\ phase' = "cleaning"
  /\ todo' = [byService |-> {k \in Networks \X Services :
                               byService[k[1]][k[2]] # None /\ IsStale(k[2])},
              list |-> {k \in Networks \X Marks : IsStale(list[k[1]][k[2]])}]
  /\ stale' \in [Services -> (Networks \X Marks) \cup {None}]
  /\ \A s \in Services :
       LET found == {k \in Networks \X Marks :
                       /\ IsStale(s)
                       /\ list[k[1]][k[2]] = s \/ byService[k[1]][s] = k[2]}
       IN stale'[s] \in IF found = {} THEN {None} ELSE found
  /\ UNCHANGED <<status, etcd, turns, memory, existing, swept, kernel>>

\* The keys of a network come in their order: by-service before list.  A deletion
\* that fails is only logged.
DeleteServiceKey(k) ==
  /\ phase = "cleaning" /\ k \in todo.byService
  /\ todo' = [todo EXCEPT !.byService = @ \ {k}]
  /\ \/ byService' = [byService EXCEPT ![k[1]][k[2]] = None]
     \/ "etcd" \in Faults /\ UNCHANGED byService
  /\ UNCHANGED <<status, list, phase, turns, memory, existing, stale, swept, kernel>>

DeleteListKey(k) ==
  /\ phase = "cleaning" /\ k \in todo.list
  /\ \A j \in todo.byService : j[1] # k[1]
  /\ todo' = [todo EXCEPT !.list = @ \ {k}]
  /\ \/ list' = [list EXCEPT ![k[1]][k[2]] = None]
     \/ "etcd" \in Faults /\ UNCHANGED list
  /\ swept' = swept \cup {k}
  /\ UNCHANGED <<status, byService, phase, turns, memory, existing, stale, kernel>>

\* The kernel's IPVS services and rules with the marks that were found.  Rules are looked
\* for by the mark in eight digits, in which a mark with leading zeros is not listed.
DeleteStaleInKernel ==
  /\ phase = "cleaning" /\ todo.byService = {} /\ todo.list = {}
  /\ phase' = "up"
  /\ LET marks == {stale[s] : s \in Services} \ {None} IN
     \E deleted, matched \in SUBSET marks :
       /\ "kernel" \in Faults \/ deleted = marks
       /\ ipvs' = [n \in Networks |-> [m \in Marks |->
                     IF <<n, m>> \in deleted THEN None ELSE ipvs[n][m]]]
       /\ rules' = {r \in rules : <<r[2], r[3]>> \notin matched}
  /\ existing' = {} /\ stale' = NoneStale
  /\ UNCHANGED <<status, etcd, turns, memory, todo, swept>>

-----------------------------------------------------------------------------
(* Crashes.  A reboot also clears the kernel's state.                      *)

Down ==
  /\ phase # "down" /\ phase' = "down"
  /\ announced' = {} /\ pending' = {} /\ op' = None
  /\ lbs' = [s \in Services |-> NoLbs]
  /\ existing' = {} /\ todo' = [byService |-> {}, list |-> {}]
  /\ stale' = NoneStale
  /\ UNCHANGED <<status, etcd, turns, swept>>

Crash == "crash" \in Faults /\ Down /\ UNCHANGED kernel

Reboot ==
  /\ "reboot" \in Faults
  /\ Down
  /\ rules' = {}
  /\ ipvs' = [n \in Networks |-> [m \in Marks |-> None]]

-----------------------------------------------------------------------------
Init ==
  /\ status = [s \in Services |-> "future"]
  /\ byService = [n \in Networks |-> [s \in Services |-> None]]
  /\ list = [n \in Networks |-> [m \in Marks |-> None]]
  /\ phase = "down" /\ turns = 0
  /\ announced = {} /\ pending = {} /\ op = None
  /\ lbs = [s \in Services |-> NoLbs]
  /\ existing = {} /\ todo = [byService |-> {}, list |-> {}]
  /\ stale = NoneStale
  /\ rules = {}
  /\ ipvs = [n \in Networks |-> [m \in Marks |-> None]]
  /\ swept = {}

\* The goroutine that holds the mutex.
Holder ==
  \/ \E n \in Networks : Lookup(n) \/ UpdateFrontendIP(n) \/ DeleteInKernel(n)
  \/ GenerateFWMARK \/ Commit \/ Release
  \/ GetError \/ ReleaseError
  \/ \E n \in Networks : FrontendError(n) \/ DeleteInKernelError(n)

Cleaner ==
  \/ TakeServices \/ ReadKeys \/ DeleteStaleInKernel
  \/ \E k \in Networks \X Services : DeleteServiceKey(k)
  \/ \E k \in Networks \X Marks : DeleteListKey(k)

Next ==
  \/ \E s \in Services : ServiceCreated(s) \/ ServiceUpdated(s) \/ ServiceRemoved(s)
  \/ \E s \in Services : BeginCreation(s) \/ BeginDeletion(s)
  \/ \E s \in Services, n \in Networks : AddBackend(s, n) \/ RemoveBackend(s, n)
  \/ Holder
  \/ Start \/ Cleaner
  \/ Crash \/ Reboot

Spec == Init /\ [][Next]_vars
\* A goroutine that is not blocked goes on.
FairSpec == Spec /\ WF_vars(Holder)

-----------------------------------------------------------------------------
(* Properties.                                                             *)

\* The mark of a load balancer of a service the node knows is registered in etcd, in
\* both keys, so that GenerateFWMARK gives it to no other service of the network:
\* whatever a crash, a lost answer or the clean-up left behind, as long as no
\* service comes or goes during the clean-up.
MarksRegistered ==
  \A s \in announced, n \in Networks :
    lbs[s][n] # None => Registered(s, n, lbs[s][n].mark)

\* A release finds both keys as it wants them: that a refused transaction counts as
\* a success hides no mark that stays registered.
ReleaseNotRefused ==
  Deleting("release") =>
    Registered(op.service, op.network, op.lbs[op.network].mark)

\* Docker has removed the service and the node has forgotten it.
Gone(s) == status[s] = "removed" /\ s \notin announced

\* Packets to the VIP of a service that is not gone reach containers of that service
\* only, though other services had the mark before and their rules and IPVS services may
\* have been left behind.  Rules of a service that is gone are not spoken of: Delete
\* leaves them when its object has none recorded, and gives their mark back all the same.
\* (The clean-up frees marks whose kernel state may stay: those are excepted.)
TrafficStays ==
  \A r \in rules :
    /\ ~Gone(r[1])
    /\ <<r[2], r[3]>> \notin swept
    /\ ipvs[r[2]][r[3]] # None
    => ipvs[r[2]][r[3]] \subseteq {r[1]}

\* The loop of Get, which keeps the mutex of all load balancers, ends, and so does
\* everything else that holds it.
MutexReleased == op # None ~> op = None
=============================================================================
