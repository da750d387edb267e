---------------------------- MODULE ContainerData ----------------------------
(***************************************************************************)
(* What the nodes know about the containers (pkg/docker, the store in      *)
(* pkg/etcd/sharded_distributed_store.go, the resolver in pkg/dns).  Each  *)
(* node stores the containers of its own Docker in its shard, in memory and*)
(* in etcd; the other nodes load the shard and watch it.  Handlers, which  *)
(* the stores call on every change, keep the tables of the resolvers.      *)
(*                                                                         *)
(* A node is the owner of its shard and a reader of the others; the two    *)
(* sides of a store share no containers, so the model has one owner, with  *)
(* its Docker, and readers of its shard.  All containers answer to one     *)
(* name, an alias, in all their networks.                                  *)
(*                                                                         *)
(* Events and calls get lost: between Docker's list and the subscription,  *)
(* between the loading of a shard and the watch, when the subscription     *)
(* breaks, when etcd fails.  Nothing makes up for that until a restart, so *)
(* the history variable missed accounts for the containers it happened to. *)
(***************************************************************************)
EXTENDS Naturals, Sequences, FiniteSets, SequencesExt

CONSTANTS
  Owner,      \* the node the containers run on
  Readers,    \* the other nodes
  Containers,
  Networks,
  Ips,
  MaxChanges, \* bound: changes in Docker
  MaxCrashes, \* bound: crashes of the plugins, together
  Faults,     \* of "etcd", "docker" and "crash"
  None

Nodes == Readers \cup {Owner}

VARIABLES
  docker,   \* the address of a running container in each of its networks
  changes,  \* changes in Docker so far
  events,   \* Docker's events that are not yet handled
  inspected,\* the container an event is handled for, and what Docker said of it
  listed,   \* what Docker listed at the owner's start
  memory,   \* the owner's shard in its memory
  etcd,     \* ... and in etcd
  view,     \* the owner's shard in the memory of a reader
  watch,    \* the changes of etcd a reader has not yet handled
  snapshot, \* what a reader announces to its handlers at its start
  table,    \* containerData of each node's resolver
  phase,    \* where each node's start is
  crashes,  \* crashes so far
  missed    \* history: the containers a node lost an event or a call of since its start

dockerVars == <<docker, changes>>
ownerVars == <<events, inspected, listed, memory>>
readerVars == <<view, watch, snapshot>>
vars == <<dockerVars, ownerVars, etcd, readerVars, table, phase, crashes, missed>>

Info == [Networks -> Ips \cup {None}]
NoNetwork == [n \in Networks |-> None]
Shard == [Containers -> Info \cup {None}]
EmptyShard == [c \in Containers |-> None]
Entries == Containers \X Networks \X Ips

Events ==
  [type : {"connect", "disconnect"}, c : Containers, n : Networks]
    \cup [type : {"die"}, c : Containers]
Inspections == [c : Containers, info : Info]
ShardChanges == [c : Containers, info : Info \cup {None}]
Phases == {"down", "loaded", "watching", "announcing", "up"}

ASSUME ContainerDataAssumption ==
  /\ Owner \notin Readers
  /\ IsFiniteSet(Containers) /\ IsFiniteSet(Networks)
  /\ None \notin Ips \cup Info \cup Inspections
  /\ MaxChanges \in Nat /\ MaxCrashes \in Nat

TypeOK ==
  /\ docker \in Shard /\ memory \in Shard /\ etcd \in Shard
  /\ changes \in 0 .. MaxChanges
  /\ events \in Seq(Events)
  /\ inspected \in Inspections \cup {None}
  /\ listed \in Shard
  /\ view \in [Readers -> Shard] /\ snapshot \in [Readers -> Shard]
  /\ watch \in [Readers -> Seq(ShardChanges)]
  /\ table \in [Nodes -> SUBSET Entries]
  /\ phase \in [Nodes -> Phases]
  /\ crashes \in 0 .. MaxCrashes
  /\ missed \in [Nodes -> SUBSET Containers]

-----------------------------------------------------------------------------
(* The resolver.                                                           *)

IsIn(info, n) == info # None /\ info[n] # None
NetworksOf(info) == {n \in Networks : IsIn(info, n)}
EntriesOf(c, info) == {<<c, n, info[n]>> : n \in NetworksOf(info)}

AddContainer(t, c, info) == t \cup EntriesOf(c, info)

\* Mutation: what the container is no longer in stays.
UpdateAddsOnly(t, c, info) ==
  t \cup {e \in EntriesOf(c, info) : \A f \in t : f[1] # c \/ f[2] # e[2]}

\* A name that is known in a network keeps its address.
UpdateContainer(t, c, info) ==
  {e \in t : e[1] = c => IsIn(info, e[2])}
    \cup {e \in EntriesOf(c, info) : \A f \in t : f[1] # c \/ f[2] # e[2]}

\* Removes what has one of the container's names, in whatever network.
RemoveContainer(t, c, info) ==
  IF EntriesOf(c, info) = {} THEN t ELSE {e \in t : e[1] # c}

\* resolveName: the addresses of the name in one network.
Addresses(node, n) == {e[3] : e \in {f \in table[node] : f[2] = n}}

\* Mutation: in whatever network.
ResolveAnywhere(node, sorted, dockerCompatibilityMode) == {e[3] : e \in table[node]}

\* ResolveName, for a container that is in the networks of sorted: the addresses in all of
\* them, or, like Docker's own DNS, in the first one that has any.
ResolveName(node, sorted, dockerCompatibilityMode) ==
  LET answering == {i \in DOMAIN sorted : Addresses(node, sorted[i]) # {}}
      asked == IF dockerCompatibilityMode
               THEN {i \in answering : \A j \in answering : i <= j} ELSE answering
  IN UNION {Addresses(node, sorted[i]) : i \in asked}

\* The handlers that a store calls for a change of an item.
Handled(t, c, previous, current) ==
  IF previous = current THEN t
  ELSE IF previous = None THEN AddContainer(t, c, current)
  ELSE IF current = None THEN RemoveContainer(t, c, previous)
  ELSE UpdateContainer(t, c, current)

-----------------------------------------------------------------------------
(* Docker on the owner's node (external).                                  *)

Subscribed == phase[Owner] = "up"

\* An event that nobody listens to is lost.
Emit(c, q) ==
  IF Subscribed
  THEN events' = events \o q /\ UNCHANGED missed
  ELSE missed' = [missed EXCEPT ![Owner] = @ \cup {c}] /\ UNCHANGED events

Change(c, info) ==
  /\ changes < MaxChanges /\ changes' = changes + 1
  /\ docker' = [docker EXCEPT ![c] = info]
  /\ UNCHANGED <<inspected, listed, memory, etcd, readerVars, table, phase, crashes>>

Free(n, ip) == ~\E c \in Containers : IsIn(docker[c], n) /\ docker[c][n] = ip

\* Starts and connections ask the plugin first.
Start(c, info) ==
  /\ phase[Owner] # "down"
  /\ docker[c] = None
  /\ \A n \in NetworksOf(info) : Free(n, info[n])
  /\ Change(c, info)
  /\ Emit(c, SetToSeq({[type |-> "connect", c |-> c, n |-> n] : n \in NetworksOf(info)}))

Connect(c, n, ip) ==
  /\ phase[Owner] # "down"
  /\ docker[c] # None /\ docker[c][n] = None
  /\ Free(n, ip)
  /\ Change(c, [docker[c] EXCEPT ![n] = ip])
  /\ Emit(c, <<[type |-> "connect", c |-> c, n |-> n]>>)

\* Mutation: the container and the network are swapped.
DisconnectedSwapped(c, n) == [type |-> "disconnect", c |-> n, n |-> c]

Disconnected(c, n) == [type |-> "disconnect", c |-> c, n |-> n]

Disconnect(c, n) ==
  /\ IsIn(docker[c], n)
  /\ Change(c, [docker[c] EXCEPT ![n] = None])
  /\ Emit(c, <<Disconnected(c, n)>>)

\* The order of the events of a container that stops is not known to the plugin.
Stop(c) ==
  /\ docker[c] # None
  /\ Change(c, None)
  /\ LET left == SetToSeq({Disconnected(c, n) : n \in NetworksOf(docker[c])})
         died == <<[type |-> "die", c |-> c]>>
     IN \E q \in {died \o left, left \o died} : Emit(c, q)

\* The subscription breaks, with events in it (handleDockerEvents).
EventsLost ==
  /\ "docker" \in Faults
  /\ events # <<>>
  /\ events' = <<>>
  /\ missed' = [missed EXCEPT ![Owner] = @ \cup {events[i].c : i \in 1 .. Len(events)}]
  /\ UNCHANGED <<dockerVars, inspected, listed, memory, etcd, readerVars, table, phase, crashes>>

-----------------------------------------------------------------------------
(* The owner's store.  Its lock is held from the memory to the handlers.   *)

\* Mutation: only the memory and the handlers.
WriteEtcdNot(shard) == UNCHANGED <<etcd, watch>>

\* Readers that watch will hear of a change of etcd, the others miss it.
WriteEtcd(shard) ==
  LET changed == {c \in Containers : shard[c] # etcd[c]}
      changesOf == SetToSeq({[c |-> c, info |-> shard[c]] : c \in changed})
  IN /\ etcd' = shard
     /\ watch' = [r \in Readers |-> IF phase[r] \in {"watching", "announcing", "up"}
                                    THEN watch[r] \o changesOf ELSE watch[r]]

MissedByReaders(shard) ==
  [r \in Readers |->
     IF phase[r] = "loaded"
     THEN missed[r] \cup {c \in Containers : shard[c] # etcd[c]} ELSE missed[r]]

MissedBy(shard, ofOwner) ==
  [node \in Nodes |-> IF node = Owner THEN missed[Owner] \cup ofOwner
                      ELSE MissedByReaders(shard)[node]]

\* AddOrUpdateItem, and DeleteItem when info is None.  When etcd fails the memory has
\* changed, but the handlers are not called; the change may be in etcd all the same.
SetItem(c, info) ==
  /\ memory' = [memory EXCEPT ![c] = info]
  /\ LET shard == [etcd EXCEPT ![c] = info] IN
     \/ /\ WriteEtcd(shard)
        /\ table' = [table EXCEPT ![Owner] = Handled(@, c, memory[c], info)]
        /\ missed' = MissedBy(shard, {})
     \/ /\ "etcd" \in Faults
        /\ UNCHANGED table
        /\ \/ WriteEtcd(shard) /\ missed' = MissedBy(shard, {c})
           \/ UNCHANGED <<etcd, watch>> /\ missed' = MissedBy(etcd, {c})

NextEvent(type) == inspected = None /\ events # <<>> /\ Head(events).type = type

\* handleContainer: Docker is asked for the container ...
Inspect ==
  /\ NextEvent("connect")
  /\ LET c == Head(events).c IN
     inspected' = IF docker[c] = None \/ docker[c] = NoNetwork THEN None
                  ELSE [c |-> c, info |-> docker[c]]
  /\ events' = Tail(events)
  /\ UNCHANGED <<dockerVars, listed, memory, etcd, readerVars, table, phase, crashes, missed>>

\* ... does not answer ...
InspectError ==
  /\ "docker" \in Faults
  /\ NextEvent("connect")
  /\ events' = Tail(events)
  /\ missed' = [missed EXCEPT ![Owner] = @ \cup {Head(events).c}]
  /\ UNCHANGED <<dockerVars, inspected, listed, memory, etcd, readerVars, table, phase, crashes>>

\* ... and what it said is stored.
Store ==
  /\ inspected # None
  /\ SetItem(inspected.c, inspected.info)
  /\ inspected' = None
  /\ UNCHANGED <<dockerVars, events, listed, view, snapshot, phase, crashes>>

\* Mutation: the container stays in the network.
StillConnected(info, n) == info

Without(info, n) == [info EXCEPT ![n] = None]

\* handleDisconnectedContainer works on what is stored.
HandleDisconnected ==
  /\ NextEvent("disconnect")
  /\ LET e == Head(events) IN
     IF memory[e.c] = None
     THEN UNCHANGED <<memory, etcd, watch, table, missed>>
     ELSE SetItem(e.c, Without(memory[e.c], e.n))
  /\ events' = Tail(events)
  /\ UNCHANGED <<dockerVars, inspected, listed, view, snapshot, phase, crashes>>

\* handleDeletedContainer.
HandleDied ==
  /\ NextEvent("die")
  /\ SetItem(Head(events).c, None)
  /\ events' = Tail(events)
  /\ UNCHANGED <<dockerVars, inspected, listed, view, snapshot, phase, crashes>>

-----------------------------------------------------------------------------
(* The owner's start.                                                      *)

\* initContainers: Docker's list; that it fails goes unnoticed.
List ==
  /\ phase[Owner] = "down"
  /\ phase' = [phase EXCEPT ![Owner] = "loaded"]
  /\ LET running == {c \in Containers : docker[c] # None} IN
     \/ /\ listed' = [c \in Containers |-> IF docker[c] = NoNetwork THEN None ELSE docker[c]]
        /\ missed' = [missed EXCEPT ![Owner] = {}]
     \/ /\ "docker" \in Faults
        /\ listed' = EmptyShard
        /\ missed' = [missed EXCEPT ![Owner] = running]
  /\ UNCHANGED <<dockerVars, events, inspected, memory, etcd, readerVars, table, crashes>>

\* Mutation: what is gone from Docker stays in etcd.
SyncedAddsOnly ==
  [c \in Containers |-> IF listed[c] = None THEN etcd[c] ELSE listed[c]]

\* A shard that is not in etcd is not stored there.
Synced == IF etcd = EmptyShard THEN EmptyShard ELSE listed

\* sync: memory and etcd become what was listed; the handlers are not called.
Sync ==
  /\ phase[Owner] = "loaded"
  /\ phase' = [phase EXCEPT ![Owner] = "announcing"]
  /\ memory' = listed
  /\ WriteEtcd(Synced)
  /\ missed' = MissedBy(Synced, IF etcd = EmptyShard
                                THEN {c \in Containers : listed[c] # None} ELSE {})
  /\ UNCHANGED <<dockerVars, events, inspected, listed, view, snapshot, table, crashes>>

Down(node) ==
  /\ phase[node] # "down" /\ crashes < MaxCrashes
  /\ crashes' = crashes + 1
  /\ phase' = [phase EXCEPT ![node] = "down"]
  /\ table' = [table EXCEPT ![node] = {}]

OwnerDown ==
  /\ Down(Owner)
  /\ events' = <<>> /\ inspected' = None
  /\ listed' = EmptyShard /\ memory' = EmptyShard
  /\ UNCHANGED <<dockerVars, view, snapshot>>

\* etcd fails with some of the items written, and the plugin gives up (log.Fatalf).
SyncError ==
  /\ "etcd" \in Faults
  /\ phase[Owner] = "loaded"
  /\ \E written \in SUBSET Containers :
       LET shard == [c \in Containers |-> IF c \in written THEN Synced[c] ELSE etcd[c]]
       IN WriteEtcd(shard) /\ missed' = MissedBy(shard, {})
  /\ OwnerDown

\* OnAdded for all containers; then the events are subscribed to.
Announce ==
  /\ phase[Owner] = "announcing"
  /\ phase' = [phase EXCEPT ![Owner] = "up"]
  /\ table' = [table EXCEPT ![Owner] = UNION {EntriesOf(c, memory[c]) : c \in Containers}]
  /\ listed' = EmptyShard
  /\ UNCHANGED <<dockerVars, events, inspected, memory, etcd, readerVars, crashes, missed>>

OwnerCrash ==
  /\ "crash" \in Faults
  /\ OwnerDown
  /\ UNCHANGED <<etcd, watch, missed>>

-----------------------------------------------------------------------------
(* The readers.                                                            *)

\* sync: what is in etcd ...
Load(r) ==
  /\ phase[r] = "down"
  /\ phase' = [phase EXCEPT ![r] = "loaded"]
  /\ view' = [view EXCEPT ![r] = etcd]
  /\ missed' = [missed EXCEPT ![r] = {}]
  /\ UNCHANGED <<dockerVars, ownerVars, etcd, watch, snapshot, table, crashes>>

\* ... the watch ...
Watch(r) ==
  /\ phase[r] = "loaded"
  /\ phase' = [phase EXCEPT ![r] = "watching"]
  /\ UNCHANGED <<dockerVars, ownerVars, etcd, readerVars, table, crashes, missed>>

\* ... what the store has then (GetAll) ...
TakeSnapshot(r) ==
  /\ phase[r] = "watching"
  /\ phase' = [phase EXCEPT ![r] = "announcing"]
  /\ snapshot' = [snapshot EXCEPT ![r] = view[r]]
  /\ UNCHANGED <<dockerVars, ownerVars, etcd, view, watch, table, crashes, missed>>

\* ... and OnAdded for it.
AnnounceSnapshot(r) ==
  /\ phase[r] = "announcing"
  /\ phase' = [phase EXCEPT ![r] = "up"]
  /\ table' = [table EXCEPT ![r] =
                 @ \cup UNION {EntriesOf(c, snapshot[r][c]) : c \in Containers}]
  /\ snapshot' = [snapshot EXCEPT ![r] = EmptyShard]
  /\ UNCHANGED <<dockerVars, ownerVars, etcd, view, watch, crashes, missed>>

\* handleWatchEvents.  A removal that overtakes the announcement is undone by it.
HandleWatchEvent(r) ==
  /\ watch[r] # <<>>
  /\ LET e == Head(watch[r]) IN
     /\ view' = [view EXCEPT ![r][e.c] = e.info]
     /\ table' = [table EXCEPT ![r] = Handled(@, e.c, view[r][e.c], e.info)]
     /\ missed' = [missed EXCEPT ![r] = @ \cup IF phase[r] = "announcing" THEN {e.c} ELSE {}]
  /\ watch' = [watch EXCEPT ![r] = Tail(@)]
  /\ UNCHANGED <<dockerVars, ownerVars, etcd, snapshot, phase, crashes>>

ReaderCrash(r) ==
  /\ "crash" \in Faults
  /\ Down(r)
  /\ view' = [view EXCEPT ![r] = EmptyShard]
  /\ snapshot' = [snapshot EXCEPT ![r] = EmptyShard]
  /\ watch' = [watch EXCEPT ![r] = <<>>]
  /\ UNCHANGED <<dockerVars, ownerVars, etcd, missed>>

-----------------------------------------------------------------------------
Init ==
  /\ docker = EmptyShard /\ changes = 0
  /\ events = <<>> /\ inspected = None /\ listed = EmptyShard
  /\ memory = EmptyShard /\ etcd = EmptyShard
  /\ view = [r \in Readers |-> EmptyShard]
  /\ watch = [r \in Readers |-> <<>>]
  /\ snapshot = [r \in Readers |-> EmptyShard]
  /\ table = [node \in Nodes |-> {}]
  /\ phase = [node \in Nodes |-> "down"]
  /\ crashes = 0
  /\ missed = [node \in Nodes |-> {}]

OwnerGoesOn ==
  \/ List \/ Sync \/ SyncError \/ Announce
  \/ Inspect \/ InspectError \/ Store \/ HandleDisconnected \/ HandleDied

ReaderGoesOn(r) ==
  \/ Load(r) \/ Watch(r) \/ TakeSnapshot(r) \/ AnnounceSnapshot(r)
  \/ HandleWatchEvent(r)

Next ==
  \/ \E c \in Containers, info \in Info \ {NoNetwork} : Start(c, info)
  \/ \E c \in Containers, n \in Networks, ip \in Ips : Connect(c, n, ip)
  \/ \E c \in Containers, n \in Networks : Disconnect(c, n)
  \/ \E c \in Containers : Stop(c)
  \/ EventsLost
  \/ OwnerGoesOn
  \/ \E r \in Readers : ReaderGoesOn(r) \/ ReaderCrash(r)
  \/ OwnerCrash

Spec == Init /\ [][Next]_vars
\* Docker restarts a plugin that has exited; its goroutines are scheduled.
FairSpec ==
  /\ Spec
  /\ WF_vars(OwnerGoesOn)
  /\ \A r \in Readers : WF_vars(ReaderGoesOn(r))

-----------------------------------------------------------------------------
(* Properties.                                                             *)

OwnerQuiet == phase[Owner] = "up" /\ events = <<>> /\ inspected = None

Stored(info) == IF info = NoNetwork THEN None ELSE info

\* With all events handled the owner's memory has what Docker has, though Docker is asked
\* about the present and the events are about the past.
MemoryFollowsDocker ==
  OwnerQuiet =>
    \A c \in Containers \ missed[Owner] : Stored(memory[c]) = Stored(docker[c])

\* The addresses that Docker has given the running containers in a network.
DockerAddresses(n) == {docker[c][n] : c \in {d \in Containers : IsIn(docker[d], n)}}

\* The owner's names resolve to the addresses of running containers, in the networks of
\* the one who asks, in whatever order these are looked at: to all of them, or in Docker's
\* compatibility mode to those of the first network in which a container runs.  What
\* handlers did step by step is what the containers have now.
NamesResolve ==
  OwnerQuiet /\ missed[Owner] = {} =>
    \A sorted \in SeqOf(Networks, Cardinality(Networks)) :
      /\ ResolveName(Owner, sorted, FALSE) =
           UNION {DockerAddresses(sorted[i]) : i \in DOMAIN sorted}
      /\ \A i \in DOMAIN sorted :
           /\ DockerAddresses(sorted[i]) # {}
           /\ \A j \in DOMAIN sorted : j < i => DockerAddresses(sorted[j]) = {}
           => ResolveName(Owner, sorted, TRUE) = DockerAddresses(sorted[i])

\* The owner's shard in etcd is the one in its memory.
EtcdFollowsMemory ==
  phase[Owner] = "up" => \A c \in Containers \ missed[Owner] : etcd[c] = memory[c]

ReaderQuiet(r) == phase[r] = "up" /\ watch[r] = <<>>

\* A reader that has handled its events knows the containers, and the networks they are
\* in, that etcd has: it resolves no name of a container that is gone, and misses none.
ReadersKnowNames ==
  \A r \in Readers : ReaderQuiet(r) =>
    \A c \in Containers \ missed[r] :
      {e[2] : e \in {f \in table[r] : f[1] = c}} = NetworksOf(etcd[c])

Forgotten(c) ==
  \A node \in Nodes : c \in missed[node] \/ \A e \in table[node] : e[1] # c

\* A container that stopped is forgotten by the resolvers of every node in the end, the one
\* it ran on included, whatever crashes and restarts there are in between.
StoppedIsForgotten ==
  \A c \in Containers :
    docker[c] = None ~> docker[c] # None \/ c \in missed[Owner] \/ Forgotten(c)
=============================================================================
