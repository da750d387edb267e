--------------------------- MODULE FlannelNetwork ----------------------------
(***************************************************************************)
(* One flannel network on one node: how the driver creates it when Docker  *)
(* asks for its pool or when it hears of it (getOrCreateNetwork), the      *)
(* flanneld process, the interfaces and the endpoints it owns, and its     *)
(* removal (pkg/driver, pkg/flannel_network, pkg/bridge).                  *)
(*                                                                         *)
(* Two threads do this without a common lock: Docker's calls, one at a time*)
(* under the driver's mutex, and the events of the networks' store.  The   *)
(* start's clean-up (CleanupStaleNetworks) runs beside both, on the list of*)
(* networks it took before.  Other nodes share the network's data in etcd  *)
(* and may clean it up as well.  Other networks show only in the VXLAN     *)
(* number, which is their count plus one.                                  *)
(***************************************************************************)
EXTENDS Naturals, Sequences, FiniteSets

CONSTANTS
  Objects,      \* bound: objects for the network, and processes, at a time
  Endpoints, Veths, VNIs,
  Overlap,      \* whether both threads may be busy with the network at a time
  MaxOutside,   \* bound of what comes from outside
  Faults,       \* of "etcd", "kernel", "docker", "timeout", "reboot", "stale" (another
                \* node's clean-up has an old list) and "twin" (a network with this number)
  None

Threads == {"docker", "events"}
\* What is known of an endpoint: nothing, that it is there, or its pair of interfaces.
Data == Veths \cup {"none", "detached"}
Network == [vni : VNIs, process : BOOLEAN, endpoints : [Endpoints -> Data]]
Config == [vni : VNIs, by : 0 .. MaxOutside]
Creating == {"config", "commit", "reread", "start", "load", "endpoints", "reconcile"}
Deleting == {"delete", "revision", "commit deletion", "interfaces", "cleanup", "remove"}
Tasks == [pc : Creating \cup Deleting, o : Objects, todo : SUBSET Endpoints,
          seen : Config \cup {None}]
\* existing: whether the clean-up takes the network for one of Docker's; known: the
\* number it knows of it; named: whether it knows the network by this number.
Cleaners == [pc : {"listed", "read", "delete", "links", "bridges"}, existing : BOOLEAN,
             known : VNIs \cup {None}, named : BOOLEAN]

ASSUME FlannelNetworkAssumption ==
  /\ Overlap \in BOOLEAN
  /\ MaxOutside \in Nat
  /\ None \notin Objects \cup VNIs
  /\ None \notin Network /\ None \notin Config /\ None \notin Tasks
  /\ None \notin Cleaners
  /\ {"none", "detached"} \cap Veths = {}

VARIABLES
  docker,     \* Docker's network
  attached,   \* Docker's endpoints on the node
  outside,    \* Docker's requests and changes, what other nodes do and the crashes, counted
  up,         \* whether the plugin runs
  loaded,     \* whether it has Docker's data
  ready,      \* whether it hears Docker's calls
  events,     \* what the networks' store still has to announce
  cleaner,    \* the start's clean-up
  byFlannel, byDocker, \* the driver's map by its two keys
  object,     \* the network objects
  task,       \* what the threads are doing
  config,     \* the network's configuration in etcd
  record,     \* the endpoints' data in etcd
  processes,  \* the objects whose flanneld runs
  links,      \* the numbers of the flannel interfaces with the node's address
  bridge, veths, \* the bridge, and what is attached to it
  spoilt,     \* history: a creation or removal failed since the last start
  troubled,   \* history: the endpoints a call of Docker failed for
  overlooked, \* history: endpoints in use that Docker's list or a clean-up did not know of
  swept,      \* history: a clean-up took the network for stale since it is in use here
  lost        \* history: interfaces that a crash, a removal or a clean-up forgot

dockerVars == <<docker, attached, outside>>
nodeVars == <<up, loaded, ready, events, cleaner>>
mapVars == <<byFlannel, byDocker>>
etcdVars == <<config, record>>
kernelVars == <<processes, links, bridge, veths>>
sweepVars == <<overlooked, swept>>
historyVars == <<spoilt, troubled, lost, sweepVars>>
vars == <<dockerVars, nodeVars, mapVars, object, task, etcdVars, kernelVars, historyVars>>

TypeOK ==
  /\ docker \in {"none", "exists", "removed"}
  /\ attached \in [Endpoints -> {"none", "created", "joined", "running", "left", "gone"}]
  /\ outside \in 0 .. MaxOutside
  /\ up \in BOOLEAN /\ loaded \in BOOLEAN /\ ready \in BOOLEAN
  /\ events \in Seq({"added", "changed", "removed", "cleanup"})
  /\ cleaner \in Cleaners \cup {None}
  /\ byFlannel \in Objects \cup {None} /\ byDocker \in Objects \cup {None}
  /\ object \in [Objects -> Network \cup {None}]
  /\ task \in [Threads -> Tasks \cup {None}]
  /\ config \in Config \cup {None}
  /\ record \in [Endpoints -> Data]
  /\ processes \subseteq Objects /\ links \subseteq VNIs
  /\ bridge \in BOOLEAN /\ veths \subseteq Veths
  /\ spoilt \in BOOLEAN /\ troubled \subseteq Endpoints /\ lost \subseteq Veths
  /\ overlooked \subseteq Endpoints /\ swept \in BOOLEAN

-----------------------------------------------------------------------------
(* The driver's map (ConcurrentDualKeyMap).                                *)

\* Docker's calls know the network by flannel's key, the events by both.
Found(t) == IF t = "events" /\ byDocker # None THEN byDocker ELSE byFlannel
Conflict == byDocker # None /\ byFlannel # None /\ byDocker # byFlannel

\* Get adds the key that is missing.
Get(t) ==
  IF t = "events"
  THEN /\ byFlannel' = IF byFlannel = None THEN byDocker ELSE byFlannel
       /\ byDocker' = IF byDocker = None THEN byFlannel ELSE byDocker
  ELSE UNCHANGED mapVars

\* Mutation: key and value are swapped.
SetSwapped(t, o) == byFlannel' = t /\ UNCHANGED byDocker

Set(t, o) ==
  /\ byFlannel' = o
  /\ byDocker' = IF t = "events" THEN o ELSE byDocker

Remove ==
  IF Conflict THEN UNCHANGED mapVars ELSE byDocker' = None /\ byFlannel' = None

-----------------------------------------------------------------------------
(* Creation, by either thread.                                             *)

Task(pc, o) == [pc |-> pc, o |-> o, todo |-> {}, seen |-> None]
At(t, pc) == up /\ task[t] # None /\ task[t].pc = pc
Goto(t, pc) == task' = [task EXCEPT ![t].pc = pc]
Idle(t) == up /\ task[t] = None
Alone(t) == Overlap \/ \A other \in Threads \ {t} : task[other] = None
Announced(event) == events # <<>> /\ Head(events) = event

\* What comes from outside is counted.
FromOutside == outside < MaxOutside /\ outside' = outside + 1

\* RequestPool, handleNetworksAdded and handleNetworksChanged.
Asked(t) ==
  /\ Idle(t) /\ Alone(t)
  /\ IF t = "docker"
     THEN /\ ready /\ docker # "removed" /\ FromOutside /\ UNCHANGED events
     ELSE /\ Announced("added") \/ Announced("changed")
          /\ events' = Tail(events) /\ UNCHANGED outside
  /\ UNCHANGED <<docker, attached, up, loaded, ready, cleaner, etcdVars,
                 kernelVars, troubled, lost, sweepVars>>

\* Mutation: the map is not asked.
MissingAlways(t) == TRUE

Missing(t) == Found(t) = None

AlreadyThere(t) ==
  /\ Asked(t) /\ ~Missing(t)
  /\ Get(t)
  /\ UNCHANGED <<object, task, spoilt>>

NewNetwork(t) ==
  /\ Asked(t) /\ Missing(t)
  /\ \/ \E o \in Objects, v \in VNIs :
          /\ object[o] = None /\ o \notin processes
          /\ object' = [object EXCEPT ![o] =
                          [vni |-> v, process |-> FALSE, endpoints |-> [e \in Endpoints |-> "none"]]]
          /\ task' = [task EXCEPT ![t] = Task("config", o)]
          /\ UNCHANGED spoilt
     \/ "etcd" \in Faults /\ spoilt' = TRUE /\ UNCHANGED <<object, task>>
  /\ UNCHANGED mapVars

\* The object is dropped; what it did stays.
Fails(t) ==
  /\ task' = [task EXCEPT ![t] = None]
  /\ object' = [object EXCEPT ![task[t].o] = None]
  /\ spoilt' = TRUE

\* ensureFlannelConfig: read, create if it is still missing, else read again.
ReadConfig(t) ==
  /\ At(t, "config")
  /\ \/ Goto(t, IF config # None THEN "start" ELSE "commit") /\ UNCHANGED <<object, spoilt>>
     \/ "etcd" \in Faults /\ Fails(t)
  /\ UNCHANGED <<dockerVars, nodeVars, mapVars, etcdVars, kernelVars, troubled, lost,
                 sweepVars>>

CommitConfig(t) ==
  /\ At(t, "commit")
  /\ \/ /\ config = None /\ config' = [vni |-> object[task[t].o].vni, by |-> 0]
        /\ Goto(t, "start") /\ UNCHANGED <<object, spoilt>>
     \/ config # None /\ Goto(t, "reread") /\ UNCHANGED <<config, object, spoilt>>
     \/ /\ "etcd" \in Faults
        /\ config' \in {config, IF config = None THEN [vni |-> object[task[t].o].vni, by |-> 0]
                                ELSE config}
        /\ Fails(t)
  /\ UNCHANGED <<dockerVars, nodeVars, mapVars, record, kernelVars, troubled, lost,
                 sweepVars>>

\* When it was deleted meanwhile the creation goes on.
RereadConfig(t) ==
  /\ At(t, "reread")
  /\ \/ Goto(t, "start") /\ UNCHANGED <<object, spoilt>>
     \/ "etcd" \in Faults /\ Fails(t)
  /\ UNCHANGED <<dockerVars, nodeVars, mapVars, etcdVars, kernelVars, troubled, lost,
                 sweepVars>>

\* startFlannel, up to the end of the lock in etcd.  A flanneld that is too slow is not
\* ended: the object does not know it yet.
StartFlannel(t) ==
  /\ At(t, "start")
  /\ \/ /\ config # None
        /\ processes' = processes \cup {task[t].o} /\ links' = links \cup {config.vni}
        /\ Goto(t, "load") /\ UNCHANGED <<object, spoilt>>
     \/ /\ config = None \/ "timeout" \in Faults
        /\ processes' = processes \cup {task[t].o}
        /\ links' = IF config = None THEN links ELSE links \cup {config.vni}
        /\ Fails(t)
     \/ "kernel" \in Faults /\ Fails(t) /\ UNCHANGED <<processes, links>>
  /\ UNCHANGED <<dockerVars, nodeVars, mapVars, etcdVars, bridge, veths, troubled, lost,
                 sweepVars>>

\* loadFlannelConfig, with the address pool and the bridge; a failure ends flanneld.
LoadFlannelConfig(t) ==
  /\ At(t, "load")
  /\ \/ /\ bridge' = TRUE
        /\ object' = [object EXCEPT ![task[t].o].process = TRUE]
        /\ Goto(t, "endpoints") /\ UNCHANGED <<processes, spoilt>>
     \/ /\ {"etcd", "kernel"} \cap Faults # {}
        /\ bridge' \in {bridge, TRUE}
        /\ processes' = processes \ {task[t].o}
        /\ Fails(t)
  /\ UNCHANGED <<dockerVars, nodeVars, mapVars, etcdVars, links, veths, troubled, lost,
                 sweepVars>>

-----------------------------------------------------------------------------
(* Endpoints: what a call makes of the memory, the record in etcd and the  *)
(* interfaces, each call under a mutex and each failure in between.        *)

Result(done, memory, rec, vs) ==
  [done |-> done, memory |-> memory, record |-> rec, veths |-> vs]

\* Mutation: the interfaces stay.
LeaveForgets(e, memory) == {Result(TRUE, "detached", "detached", veths)}

\* The interfaces are deleted, then the data written.
LeaveResults(e, memory) ==
  IF memory \notin veths THEN {Result(FALSE, memory, record[e], veths)}
  ELSE LET vs == veths \ {memory} IN
       {Result(TRUE, "detached", "detached", vs)}
       \cup (IF "etcd" \in Faults
             THEN {Result(FALSE, "detached", r, vs) : r \in {record[e], "detached"}} ELSE {})
       \cup (IF "kernel" \in Faults THEN {Result(FALSE, memory, record[e], veths)} ELSE {})

\* The record is deleted when it has the value that is known.
DeleteRecord(r) ==
  IF r.record # r.memory THEN {[r EXCEPT !.done = FALSE]}
  ELSE {Result(TRUE, "none", "none", r.veths)}
       \cup (IF "etcd" \in Faults
             THEN {[r EXCEPT !.done = FALSE], [r EXCEPT !.done = FALSE, !.record = "none"]} ELSE {})

DeleteResults(e, memory) ==
  LET left == IF memory \in {"none", "detached"}
              THEN {Result(TRUE, memory, record[e], veths)} ELSE LeaveResults(e, memory)
  IN UNION {IF r.done THEN DeleteRecord(r) ELSE {r} : r \in left}

\* loadEndpointsFromEtcd: when it fails flanneld goes on without its object, as it does
\* when a call of Docker that came too early finds no data.
LoadEndpoints(t) ==
  /\ At(t, "endpoints")
  /\ \/ /\ object' = [object EXCEPT ![task[t].o].endpoints = record]
        /\ task' = [task EXCEPT ![t].pc = "reconcile",
                                ![t].todo = {e \in Endpoints : record[e] # "none"}]
        /\ UNCHANGED spoilt
     \/ ("etcd" \in Faults \/ ~loaded) /\ Fails(t)
  /\ UNCHANGED <<dockerVars, nodeVars, mapVars, etcdVars, kernelVars, troubled, lost,
                 sweepVars>>

Plugged(e) == attached[e] \in {"joined", "running"}
\* The container is not, or not yet, known to run.
Starting(e) == attached[e] = "joined" \/ (Plugged(e) /\ ~loaded)

\* Mutation: a container is listed until it has joined.
ListedTooEarly(e) == attached[e] = "created"
\* Mutation: all containers are listed, also those that have ended.
ListedAlways(e) == TRUE

\* Docker's data has the endpoints of containers that run, not of those that still start
\* (getContainerInfoFromDocker).
Listed(e) == loaded /\ attached[e] = "running" /\ e \notin overlooked
\* It may have one that was not listed and runs now, or one that ended since.
MayBeListed(e) == Listed(e) \/ (loaded /\ (attached[e] = "running" \/ e \in troubled))

\* Init keeps the endpoints of the containers; others are deleted, whatever becomes of it.
Reconcile(t, e) ==
  /\ At(t, "reconcile") /\ e \in task[t].todo
  /\ task' = [task EXCEPT ![t].todo = @ \ {e}]
  /\ \/ MayBeListed(e) /\ UNCHANGED <<object, record, veths, troubled, overlooked>>
     \/ /\ ~Listed(e)
        /\ object' = [object EXCEPT ![task[t].o].endpoints[e] = "none"]
        /\ \E r \in DeleteResults(e, object[task[t].o].endpoints[e]) :
             /\ record' = [record EXCEPT ![e] = r.record] /\ veths' = r.veths
             /\ troubled' = IF r.done THEN troubled ELSE troubled \cup {e}
        /\ overlooked' = IF Starting(e) THEN overlooked \cup {e} ELSE overlooked
  /\ UNCHANGED <<dockerVars, nodeVars, mapVars, config, processes, links, bridge,
                 spoilt, lost, swept>>

Created(t) ==
  /\ At(t, "reconcile") /\ task[t].todo = {}
  /\ Set(t, task[t].o)
  /\ task' = [task EXCEPT ![t] = None]
  /\ UNCHANGED <<dockerVars, nodeVars, object, etcdVars, kernelVars, historyVars>>

-----------------------------------------------------------------------------
(* Docker's calls for endpoints.  Every endpoint goes the same way once;   *)
(* when a call fails Docker goes on with the next one that ends it.        *)

Known(e) == byDocker # None /\ object[byDocker].endpoints[e] # "none"
\* RequestPool has the mutex that every call needs.
Called == ready /\ Idle("docker")
Attached(e, s) == attached' = [attached EXCEPT ![e] = s]
Answered(e, r) ==
  /\ object' = [object EXCEPT ![byDocker].endpoints[e] = r.memory]
  /\ record' = [record EXCEPT ![e] = r.record]
  /\ veths' = r.veths
  /\ troubled' = IF r.done THEN troubled ELSE troubled \cup {e}
Refused(e) ==
  /\ troubled' = troubled \cup {e} /\ UNCHANGED <<object, record, veths>>

EndpointRest ==
  UNCHANGED <<docker, outside, nodeVars, mapVars, task, config, processes,
              links, bridge, spoilt, lost, sweepVars>>

CreateEndpoint(e) ==
  /\ Called /\ docker = "exists" /\ attached[e] = "none"
  /\ \/ /\ byDocker # None
        /\ Answered(e, Result(TRUE, "detached", "detached", veths)) /\ Attached(e, "created")
     \/ /\ byDocker # None /\ "etcd" \in Faults
        /\ \E r \in {"none", "detached"} : Answered(e, Result(FALSE, "none", r, veths))
        /\ Attached(e, "gone")
     \/ byDocker = None /\ Refused(e) /\ Attached(e, "gone")
  /\ EndpointRest

\* The names of interfaces are random.
Fresh(v) ==
  /\ v \notin veths
  /\ \A e \in Endpoints : record[e] # v
  /\ \A o \in Objects, e \in Endpoints : object[o] # None => object[o].endpoints[e] # v

Join(e) ==
  /\ Called /\ attached[e] = "created"
  /\ \/ /\ Known(e) /\ bridge
        /\ \E v \in Veths :
             /\ Fresh(v)
             /\ \/ Answered(e, Result(TRUE, v, v, veths \cup {v})) /\ Attached(e, "joined")
                \/ /\ "etcd" \in Faults
                   /\ \E r \in {record[e], v} : Answered(e, Result(FALSE, v, r, veths \cup {v}))
                   /\ Attached(e, "left")
     \/ /\ Known(e) => ~bridge \/ "kernel" \in Faults
        /\ Refused(e) /\ Attached(e, "left")
  /\ EndpointRest

\* The container's start is over, of which its endpoint's Join was a part.
Run(e) ==
  /\ attached[e] = "joined" /\ Attached(e, "running")
  /\ UNCHANGED <<object, record, veths, troubled>>
  /\ EndpointRest

Leave(e) ==
  /\ Called /\ Plugged(e) /\ Attached(e, "left")
  /\ IF Known(e)
     THEN \E r \in LeaveResults(e, object[byDocker].endpoints[e]) : Answered(e, r)
     ELSE Refused(e)
  /\ EndpointRest

DeleteEndpoint(e) ==
  /\ Called /\ attached[e] \in {"created", "left"} /\ Attached(e, "gone")
  /\ IF Known(e)
     THEN \E r \in DeleteResults(e, object[byDocker].endpoints[e]) : Answered(e, r)
     ELSE Refused(e)
  /\ EndpointRest

\* The container ends and nobody hears Docker's calls; a plugin that starts may have
\* listed it already.
EndUnheard(e) ==
  /\ ~ready /\ attached[e] \in {"created", "joined", "running", "left"}
  /\ Attached(e, "gone")
  /\ troubled' = IF loaded THEN troubled \cup {e} ELSE troubled
  /\ UNCHANGED <<object, record, veths>>
  /\ EndpointRest

-----------------------------------------------------------------------------
(* Removal: handleNetworksRemoved with the network's Delete.               *)

Removing(pc) == At("events", pc)
Removed == task["events"].o
RemovalRest ==
  UNCHANGED <<dockerVars, nodeVars, mapVars, troubled, lost, sweepVars>>
\* Delete reports an error; the driver goes on.
DeletionFails == Goto("events", "remove") /\ spoilt' = TRUE

\* What a crash leaves.
Down ==
  /\ up' = FALSE /\ loaded' = FALSE /\ ready' = FALSE /\ events' = <<>> /\ cleaner' = None
  /\ byFlannel' = None /\ byDocker' = None
  /\ object' = [o \in Objects |-> None]
  /\ task' = [t \in Threads |-> None]
  /\ processes' = {}
  /\ spoilt' = FALSE /\ swept' = FALSE

\* Without a network there is nothing to delete; a conflict in the map ends the plugin,
\* which takes it for a network that is nil.
HandleNetworkRemoved ==
  /\ Idle("events") /\ Alone("events") /\ Announced("removed")
  /\ IF Conflict
     THEN Down /\ lost' = lost \cup {v \in veths : \A e \in Endpoints : record[e] # v}
     ELSE /\ events' = Tail(events)
          /\ Get("events")
          /\ task' = IF Found("events") = None THEN task
                     ELSE [task EXCEPT !["events"] = Task("delete", Found("events"))]
          /\ UNCHANGED <<up, loaded, ready, cleaner, object, processes, spoilt, swept, lost>>
  /\ UNCHANGED <<dockerVars, etcdVars, links, bridge, veths, troubled, overlooked>>

\* Mutation: flanneld is forgotten, not ended.
ForgetFlannelDaemonProcess ==
  /\ object' = [object EXCEPT ![Removed].process = FALSE]
  /\ UNCHANGED processes

EndFlannelDaemonProcess ==
  /\ object' = [object EXCEPT ![Removed].process = FALSE]
  /\ processes' = processes \ {Removed}

DeleteProcess ==
  /\ Removing("delete")
  /\ \/ EndFlannelDaemonProcess /\ Goto("events", "revision") /\ UNCHANGED spoilt
     \/ "kernel" \in Faults /\ DeletionFails /\ UNCHANGED <<object, processes>>
  /\ UNCHANGED <<config, record, links, bridge, veths>> /\ RemovalRest

\* cleanupEtcdData: the configuration's revision is read ...
ReadRevision ==
  /\ Removing("revision")
  /\ \/ /\ task' = [task EXCEPT !["events"].pc = "commit deletion", !["events"].seen = config]
        /\ UNCHANGED spoilt
     \/ "etcd" \in Faults /\ DeletionFails
  /\ UNCHANGED <<object, config, record, kernelVars>> /\ RemovalRest

\* ... and the configuration deleted if it still has it.  That it is gone is no error.
DeleteConfig ==
  /\ Removing("commit deletion")
  /\ LET expected == config \in {task["events"].seen, None} IN
     \/ expected /\ config' = None /\ Goto("events", "interfaces") /\ UNCHANGED spoilt
     \/ ~expected /\ DeletionFails /\ UNCHANGED config
     \/ /\ "etcd" \in Faults /\ config' \in {config, IF expected THEN None ELSE config}
        /\ DeletionFails
  /\ UNCHANGED <<object, record, kernelVars>> /\ RemovalRest

\* cleanupInterfaces and Bridge.Delete, then all addresses are released.  The interface
\* has the object's number, which is not always that of the configuration.
CleanupInterfaces ==
  /\ Removing("interfaces")
  /\ LET own == object[Removed].vni IN
     \/ own \in links /\ bridge /\ links' = links \ {own} /\ bridge' = FALSE
        /\ task' = [task EXCEPT !["events"].pc = "cleanup", !["events"].todo =
                       {e \in Endpoints : object[Removed].endpoints[e] # "none"}]
        /\ UNCHANGED spoilt
     \/ /\ own \notin links \/ "kernel" \in Faults
        /\ DeletionFails /\ UNCHANGED <<links, bridge>>
     \/ /\ own \in links /\ (~bridge \/ {"etcd", "kernel"} \cap Faults # {})
        /\ links' = links \ {own} /\ bridge' \in {bridge, FALSE}
        /\ DeletionFails
  /\ UNCHANGED <<object, config, record, processes, veths>> /\ RemovalRest

\* cleanupEndpoints, for those whose deletion failed before.
CleanupEndpoint(e) ==
  /\ Removing("cleanup") /\ e \in task["events"].todo
  /\ \E r \in DeleteResults(e, object[Removed].endpoints[e]) :
       /\ object' = [object EXCEPT ![Removed].endpoints[e] = r.memory]
       /\ record' = [record EXCEPT ![e] = r.record] /\ veths' = r.veths
       /\ IF r.done THEN task' = [task EXCEPT !["events"].todo = @ \ {e}] /\ UNCHANGED spoilt
          ELSE DeletionFails
  /\ UNCHANGED <<config, processes, links, bridge>> /\ RemovalRest

\* The object is taken from the map, whether it was deleted or not, unless the keys
\* lead to different ones.
RemoveNetwork ==
  /\ \/ Removing("remove")
     \/ Removing("cleanup") /\ task["events"].todo = {}
  /\ Remove
  /\ task' = [task EXCEPT !["events"] = None]
  /\ object' = IF Conflict THEN object ELSE [object EXCEPT ![Removed] = None]
  /\ lost' = lost \cup {v \in veths : \A e \in Endpoints : record[e] # v}
  /\ UNCHANGED <<dockerVars, nodeVars, etcdVars, kernelVars, spoilt, troubled, sweepVars>>

-----------------------------------------------------------------------------
(* Docker's networks, the other nodes, crash and start.                    *)

Emit(event) == events' = IF loaded THEN Append(events, event) ELSE events

\* A removal that comes before Docker's data is loaded is not heard.
NetworkChanges ==
  /\ \/ docker = "none" /\ docker' = "exists" /\ Emit("added") /\ UNCHANGED <<outside, spoilt>>
     \/ /\ docker = "exists" /\ FromOutside
        /\ Emit("changed") /\ UNCHANGED <<docker, spoilt>>
     \/ /\ docker = "exists" /\ \A e \in Endpoints : attached[e] \in {"none", "gone"}
        /\ docker' = "removed" /\ Emit("removed") /\ UNCHANGED outside
        /\ spoilt' = (spoilt \/ (up /\ ~loaded))
  /\ UNCHANGED <<attached, up, loaded, ready, cleaner, mapVars, object, task,
                 etcdVars, kernelVars, troubled, lost, sweepVars>>

InUse == \E o \in Objects : object[o] # None

\* A clean-up deletes all keys of the network, with the endpoints' data of all nodes.
DeleteKeys ==
  /\ config' = None /\ record' = [e \in Endpoints |-> "none"]
  /\ overlooked' = overlooked \cup {e \in Endpoints : Plugged(e)}
  /\ lost' = lost \cup {v \in veths : \E e \in Endpoints : record[e] = v}

\* Another node creates the configuration with its own number, deletes it, or takes the
\* network for stale at its start.
OtherNode ==
  /\ \/ /\ config = None /\ FromOutside
        /\ \E v \in VNIs : config' = [vni |-> v, by |-> outside']
        /\ UNCHANGED <<record, lost, sweepVars>>
     \/ /\ docker = "removed" /\ config # None /\ config' = None
        /\ UNCHANGED <<outside, record, lost, sweepVars>>
     \/ /\ IF docker = "removed" THEN UNCHANGED outside
           ELSE "stale" \in Faults /\ FromOutside
        /\ DeleteKeys
        /\ swept' = (swept \/ InUse \/ cleaner # None)
  /\ UNCHANGED <<docker, attached, nodeVars, mapVars, object, task, kernelVars, spoilt, troubled>>

\* A crash of the plugin ends its flannelds; a restart of the node empties its kernel too.
Crash ==
  /\ up /\ FromOutside
  /\ Down
  /\ \/ /\ lost' = lost \cup {v \in veths : \A e \in Endpoints : record[e] # v}
        /\ UNCHANGED <<attached, links, bridge, veths, troubled>>
     \/ /\ "reboot" \in Faults
        /\ attached' = [e \in Endpoints |-> IF attached[e] = "none" THEN "none" ELSE "gone"]
        /\ links' = {} /\ bridge' = FALSE /\ veths' = {} /\ lost' = {}
        /\ troubled' = troubled \cup {e \in Endpoints : record[e] \in Veths}
  /\ UNCHANGED <<docker, etcdVars, overlooked>>

Start ==
  /\ ~up /\ up' = TRUE
  /\ UNCHANGED <<dockerVars, loaded, ready, events, cleaner, mapVars, object, task,
                 etcdVars, kernelVars, historyVars>>

\* Docker's calls are heard after five seconds, whatever the start has got to.
ServeEarly ==
  /\ up /\ ~ready /\ "timeout" \in Faults /\ ready' = TRUE
  /\ UNCHANGED <<dockerVars, up, loaded, events, cleaner, mapVars, object, task,
                 etcdVars, kernelVars, historyVars>>

\* Docker lists its networks and containers, and leaves out what it fails to tell; the
\* networks are announced, then the clean-up follows.
LoadDockerData ==
  /\ up /\ ~loaded /\ loaded' = TRUE
  /\ \E listed \in {docker = "exists"} \cup (IF "docker" \in Faults THEN {FALSE} ELSE {}) :
       /\ events' = IF listed THEN <<"added", "cleanup">> ELSE <<"cleanup">>
       /\ cleaner' = [pc |-> "listed", existing |-> listed, known |-> None, named |-> FALSE]
       /\ spoilt' = (spoilt \/ listed # (docker = "exists"))
  /\ \E unlisted \in IF "docker" \in Faults THEN SUBSET Endpoints ELSE {{}} :
       overlooked' = overlooked \cup {e \in Endpoints :
                                       attached[e] = "joined" \/ (Plugged(e) /\ e \in unlisted)}
  /\ UNCHANGED <<dockerVars, up, ready, mapVars, object, task, etcdVars, kernelVars,
                 troubled, lost, swept>>

-----------------------------------------------------------------------------
(* CleanupStaleNetworks and CleanUpStaleInterfaces, in the goroutine of    *)
(* Init and beside the two threads.  An error of a list or of the first    *)
(* read ends the plugin, which is a crash; other errors are only logged.   *)

Cleaning(pc) == cleaner # None /\ cleaner.pc = pc
CleansOn(pc) == cleaner' = [cleaner EXCEPT !.pc = pc]

\* The networks that the store has (GetAll): those that were listed, and it may have
\* taken later events in.
TakeNetworks ==
  /\ Cleaning("listed") /\ Idle("events") /\ Announced("cleanup")
  /\ events' = Tail(events)
  /\ \E existing \in {cleaner.existing}
                     \cup (IF Len(events) > 1 THEN {docker = "exists"} ELSE {}) :
       cleaner' = [cleaner EXCEPT !.pc = "read", !.existing = existing]
  /\ UNCHANGED <<dockerVars, up, loaded, ready, mapVars, object, task, etcdVars,
                 kernelVars, historyVars>>

\* The keys of all networks.  Of two networks with one number, the map of the numbers
\* keeps one.
ReadNetworks ==
  /\ Cleaning("read")
  /\ IF cleaner.existing /\ config # None
     THEN \E named \in {TRUE} \cup (IF "twin" \in Faults THEN {FALSE} ELSE {}) :
            cleaner' = [pc |-> "links", existing |-> TRUE, known |-> config.vni, named |-> named]
     ELSE CleansOn(IF ~cleaner.existing
                      /\ (config # None \/ \E e \in Endpoints : record[e] # "none")
                   THEN "delete" ELSE "links")
  /\ UNCHANGED <<dockerVars, up, loaded, ready, events, mapVars, object, task, etcdVars,
                 kernelVars, historyVars>>

DeleteStaleData ==
  /\ Cleaning("delete") /\ CleansOn("links")
  /\ \/ DeleteKeys /\ swept' = (swept \/ InUse)
     \/ "etcd" \in Faults /\ UNCHANGED <<config, record, lost, sweepVars>>
  /\ UNCHANGED <<dockerVars, up, loaded, ready, events, mapVars, object, task,
                 kernelVars, spoilt, troubled>>

\* Mutation: the interfaces' names are not those that are looked for.
NoLinks(v) == {}

\* The flannel interfaces with a number of a network that is known.
ValidLinks(v) == links \cap {v}

DeleteStaleLinks ==
  /\ Cleaning("links") /\ CleansOn("bridges")
  /\ \/ links' = ValidLinks(cleaner.known)
     \/ "kernel" \in Faults /\ UNCHANGED links
  /\ swept' = (swept \/ (cleaner.known = None /\ InUse))
  /\ UNCHANGED <<dockerVars, up, loaded, ready, events, mapVars, object, task, etcdVars,
                 processes, bridge, veths, spoilt, troubled, overlooked, lost>>

\* The bridge goes with the pairs that are attached to it.  Then Docker's calls are heard.
DeleteStaleBridge ==
  /\ Cleaning("bridges") /\ cleaner' = None /\ ready' = TRUE
  /\ \/ /\ cleaner.named \/ ~bridge
        /\ UNCHANGED <<bridge, veths, spoilt, sweepVars>>
     \/ /\ ~cleaner.named /\ bridge
        /\ bridge' \in {FALSE} \cup (IF "kernel" \in Faults THEN {TRUE} ELSE {})
        /\ veths' \in SUBSET veths
        /\ spoilt' = (spoilt \/ bridge')
        /\ overlooked' = overlooked \cup {e \in Endpoints : Plugged(e)}
        /\ swept' = (swept \/ InUse)
  /\ UNCHANGED <<dockerVars, up, loaded, events, mapVars, object, task, etcdVars,
                 processes, links, troubled, lost>>

-----------------------------------------------------------------------------
Init ==
  /\ docker = "none" /\ attached = [e \in Endpoints |-> "none"] /\ outside = 0
  /\ up = TRUE /\ loaded = TRUE /\ ready = TRUE /\ events = <<>> /\ cleaner = None
  /\ byFlannel = None /\ byDocker = None
  /\ object = [o \in Objects |-> None] /\ task = [t \in Threads |-> None]
  /\ config = None /\ record = [e \in Endpoints |-> "none"]
  /\ processes = {} /\ links = {} /\ bridge = FALSE /\ veths = {}
  /\ spoilt = FALSE /\ troubled = {} /\ lost = {} /\ overlooked = {} /\ swept = FALSE

Create(t) ==
  \/ AlreadyThere(t) \/ NewNetwork(t)
  \/ ReadConfig(t) \/ CommitConfig(t) \/ RereadConfig(t)
  \/ StartFlannel(t) \/ LoadFlannelConfig(t) \/ LoadEndpoints(t) \/ Created(t)
  \/ \E e \in Endpoints : Reconcile(t, e)

Endpoint(e) ==
  \/ CreateEndpoint(e) \/ Join(e) \/ Run(e) \/ Leave(e) \/ DeleteEndpoint(e) \/ EndUnheard(e)

Delete ==
  \/ HandleNetworkRemoved \/ DeleteProcess \/ ReadRevision \/ DeleteConfig
  \/ CleanupInterfaces \/ RemoveNetwork
  \/ \E e \in Endpoints : CleanupEndpoint(e)

CleanupStaleNetworks ==
  \/ TakeNetworks \/ ReadNetworks \/ DeleteStaleData \/ DeleteStaleLinks \/ DeleteStaleBridge

Next ==
  \/ \E t \in Threads : Create(t)
  \/ \E e \in Endpoints : Endpoint(e)
  \/ Delete
  \/ NetworkChanges \/ OtherNode
  \/ Crash \/ Start \/ ServeEarly \/ LoadDockerData
  \/ CleanupStaleNetworks

Spec == Init /\ [][Next]_vars

-----------------------------------------------------------------------------
(* Properties.                                                             *)

Registered == byFlannel # None \/ byDocker # None
Working == Found("events")

\* The two keys of the driver's map lead to one network, so that no call and no event
\* finds another one or none (ErrConflict, for which a removal takes the plugin down).
MapsAgree == ~Conflict

\* A network that calls find can carry traffic while Docker has it: flanneld runs and is
\* the object's, on the configuration that all nodes share, and the bridge is there.  A
\* clean-up with an old list, here or on another node, or one that knows the number by
\* another network, can take all that away: that is excepted until the next start.
RegisteredWorks ==
  Registered /\ docker = "exists" /\ ~swept =>
    /\ object[Working].process /\ Working \in processes /\ bridge
    /\ config # None /\ config.vni \in links

\* A container that joined keeps its interfaces, and the network that is found
\* for its calls knows them, also after any crash.  A start loses those of containers that
\* were still starting when Docker was asked: they are not on its list.
JoinedHasVeth ==
  \A e \in Endpoints \ overlooked : Plugged(e) =>
    /\ record[e] \in veths
    /\ byDocker # None => object[byDocker].endpoints[e] = record[e]

\* Somebody knows of every pair of interfaces, and can delete it, but for those that
\* a crash, the network's removal or a clean-up left without a record.
VethsTracked ==
  \A v \in veths \ lost : \E e \in Endpoints :
    record[e] = v \/ \E o \in Objects : object[o] # None /\ object[o].endpoints[e] = v

\* An endpoint that Docker is done with leaves nothing, when no call for it failed; also
\* when the end was not heard because the plugin was down.
GoneIsForgotten ==
  up /\ byDocker # None => \A e \in Endpoints \ troubled : attached[e] = "gone" =>
    record[e] = "none" /\ object[byDocker].endpoints[e] = "none"

\* When all is done for a network that was removed, the start's clean-up included, and
\* nothing failed, nothing of it runs on the node; only an interface with a number it had
\* before may be left.
RemovedLeavesNothing ==
  /\ docker = "removed" /\ loaded /\ events = <<>> /\ cleaner = None /\ ~spoilt
  /\ \A t \in Threads : task[t] = None
  => ~Registered /\ processes = {} /\ ~bridge

\* "On each node, we will start one Flannel process per Docker network" (README.md:139).
OneFlanneld == Cardinality(processes) <= 1
=============================================================================
