------------------------ MODULE ContainerDataProofs -------------------------
(***************************************************************************)
(* Proofs about ContainerData for any finite sets of containers and        *)
(* networks, any number of readers, changes and crashes and any faults.    *)
(***************************************************************************)
EXTENDS ContainerData, SequenceTheorems, FiniteSetTheorems, TLAPS

-----------------------------------------------------------------------------
(* Sets put in a sequence.                                                 *)

\* What is emitted for a set of events has each of them, and nothing else.
LEMMA SetToSeqShape ==
  ASSUME NEW S, IsFiniteSet(S)
  PROVE  /\ SetToSeq(S) \in Seq(S)
         /\ \A x \in S : \E i \in 1 .. Len(SetToSeq(S)) : SetToSeq(S)[i] = x
<1> DEFINE n == Cardinality(S)
           f == SetToSeq(S)
<1>1. n \in Nat /\ ExistsBijection(1 .. n, S)
  BY FS_CardinalityType
<1>2. \E g \in [1 .. n -> S] : IsInjective(g)
  BY <1>1 DEF ExistsBijection, Bijection, Injection
<1>3. f \in [1 .. n -> S] /\ IsInjective(f)
  BY <1>2 DEF SetToSeq
<1>4. f \in Injection(1 .. n, S)
  BY <1>3 DEF Injection
<1>5. IsFiniteSet(1 .. n) /\ Cardinality(1 .. n) = n
  BY <1>1, FS_Interval
<1>6. f \in Surjection(1 .. n, S)
  BY <1>4, <1>5, FS_Injection
<1>7. f \in Seq(S) /\ Len(f) = n
  BY <1>1, <1>3
<1> QED
  BY <1>6, <1>7 DEF Surjection

\* A part of a finite set is finite, and so is what is made of it one by one.
LEMMA MappedFinite ==
  ASSUME NEW S, IsFiniteSet(S), NEW T \in SUBSET S, NEW f, NEW U, f \in Surjection(T, U)
  PROVE  IsFiniteSet(U)
<1>1. IsFiniteSet(T)
  BY FS_Subset
<1> QED
  BY <1>1, FS_Surjection

-----------------------------------------------------------------------------
(* Type correctness.                                                       *)

\* The entries of a container's networks.
LEMMA EntriesType ==
  ASSUME NEW c \in Containers, NEW info \in Info \cup {None}
  PROVE  EntriesOf(c, info) \in SUBSET Entries
BY DEF EntriesOf, NetworksOf, IsIn, Info, Entries

\* What the handlers make of a table is a table.
LEMMA HandledType ==
  ASSUME NEW t \in SUBSET Entries, NEW c \in Containers,
         NEW previous \in Info \cup {None}, NEW current \in Info \cup {None}
  PROVE  Handled(t, c, previous, current) \in SUBSET Entries
<1>1. EntriesOf(c, current) \in SUBSET Entries
  BY EntriesType
<1> QED
  BY <1>1 DEF Handled, AddContainer, RemoveContainer, UpdateContainer

\* What Docker emits for several networks of a container.
LEMMA NetworkEvents ==
  ASSUME NEW c \in Containers, NEW ns \in SUBSET Networks,
         NEW type \in {"connect", "disconnect"}
  PROVE  LET E == {[type |-> type, c |-> c, n |-> n] : n \in ns} IN
         /\ E \subseteq Events
         /\ SetToSeq(E) \in Seq(E)
         /\ \A x \in E : \E i \in 1 .. Len(SetToSeq(E)) : SetToSeq(E)[i] = x
<1> DEFINE E == {[type |-> type, c |-> c, n |-> n] : n \in ns}
           f == [n \in ns |-> [type |-> type, c |-> c, n |-> n]]
<1>1. f \in Surjection(ns, E)
  BY DEF Surjection
<1>2. IsFiniteSet(E)
  BY <1>1, MappedFinite, ContainerDataAssumption
<1>3. E \subseteq Events
  BY DEF Events
<1> HIDE DEF E
<1>4. SetToSeq(E) \in Seq(E)
         /\ \A x \in E : \E i \in 1 .. Len(SetToSeq(E)) : SetToSeq(E)[i] = x
  BY <1>2, SetToSeqShape
<1> QED
  BY <1>3, <1>4 DEF E

\* The changes a write makes to etcd, which the watches of the readers are told.
ChangesOf(shard) ==
  SetToSeq({[c |-> c, info |-> shard[c]] : c \in {c \in Containers : shard[c] # etcd[c]}})

Told(r) == phase[r] \in {"watching", "announcing", "up"}

\* They are one for each container that differs, with what is written.
LEMMA ChangesShape ==
  ASSUME TypeOK, NEW shard \in Shard
  PROVE  /\ ChangesOf(shard) \in Seq(ShardChanges)
         /\ \A i \in 1 .. Len(ChangesOf(shard)) :
              LET x == ChangesOf(shard)[i] IN
              x.c \in Containers /\ x.info = shard[x.c] /\ shard[x.c] # etcd[x.c]
         /\ \A c \in Containers : shard[c] # etcd[c] =>
              \E i \in 1 .. Len(ChangesOf(shard)) : ChangesOf(shard)[i].c = c
<1> DEFINE changed == {c \in Containers : shard[c] # etcd[c]}
           C == {[c |-> c, info |-> shard[c]] : c \in changed}
           f == [c \in changed |-> [c |-> c, info |-> shard[c]]]
           q == SetToSeq(C)
<1>1. f \in Surjection(changed, C)
  BY DEF Surjection
<1>2. IsFiniteSet(C)
  BY <1>1, MappedFinite, ContainerDataAssumption
<1>3. q \in Seq(C) /\ \A x \in C : \E i \in 1 .. Len(q) : q[i] = x
  <2> HIDE DEF C
  <2> QED
    BY <1>2, SetToSeqShape
<1>4. C \subseteq ShardChanges
  BY DEF ShardChanges, Shard
<1>5. q \in Seq(ShardChanges)
  <2> HIDE DEF C, q
  <2> QED
    BY <1>3, <1>4, SeqMonotonic
<1>6. \A i \in 1 .. Len(q) : q[i] \in C
  <2> HIDE DEF C, q
  <2> QED
    BY <1>3, ElementOfSeq
<1>7. \A i \in 1 .. Len(q) :
        q[i].c \in Containers /\ q[i].info = shard[q[i].c] /\ shard[q[i].c] # etcd[q[i].c]
  <2> HIDE DEF q
  <2> QED
    BY <1>6
<1>8. ASSUME NEW c \in Containers, shard[c] # etcd[c] PROVE \E i \in 1 .. Len(q) : q[i].c = c
  <2>1. [c |-> c, info |-> shard[c]] \in C
    BY <1>8
  <2> HIDE DEF C, q
  <2>2. PICK i \in 1 .. Len(q) : q[i] = [c |-> c, info |-> shard[c]]
    BY <1>3, <2>1
  <2>3. q[i].c = c
    BY <2>2
  <2> QED
    BY <2>3
<1>9. q = ChangesOf(shard)
  BY DEF ChangesOf
<1> HIDE DEF q
<1> QED
  BY <1>5, <1>7, <1>8, <1>9

\* A write to etcd reaches the watches that are there.
LEMMA WriteShape ==
  ASSUME TypeOK, NEW shard \in Shard, WriteEtcd(shard)
  PROVE  /\ etcd' = shard
         /\ watch' \in [Readers -> Seq(ShardChanges)]
         /\ \A r \in Readers :
              watch'[r] = IF Told(r) THEN watch[r] \o ChangesOf(shard) ELSE watch[r]
<1>1. etcd' = shard
  BY DEF WriteEtcd
<1>2. watch' = [r \in Readers |-> IF Told(r) THEN watch[r] \o ChangesOf(shard) ELSE watch[r]]
  BY DEF WriteEtcd, ChangesOf, Told
<1>3. ASSUME NEW r \in Readers PROVE watch[r] \o ChangesOf(shard) \in Seq(ShardChanges)
  BY ChangesShape, ConcatProperties DEF TypeOK
<1>4. \A r \in Readers : watch[r] \in Seq(ShardChanges)
  BY DEF TypeOK
<1> QED
  BY <1>1, <1>2, <1>3, <1>4

\* What nodes are said to have missed are containers.
LEMMA MissedByType ==
  ASSUME TypeOK, NEW shard, NEW ofOwner \in SUBSET Containers
  PROVE  /\ MissedBy(shard, ofOwner) \in [Nodes -> SUBSET Containers]
         /\ MissedBy(shard, ofOwner)[Owner] = missed[Owner] \cup ofOwner
         /\ \A r \in Readers : MissedBy(shard, ofOwner)[r] = MissedByReaders(shard)[r]
BY ContainerDataAssumption DEF MissedBy, MissedByReaders, TypeOK, Nodes

\* An emitted event is handled later or missed.
LEMMA EmitType ==
  ASSUME TypeOK, NEW c \in Containers, NEW q \in Seq(Events), Emit(c, q)
  PROVE  events' \in Seq(Events) /\ missed' \in [Nodes -> SUBSET Containers]
<1>1. events \in Seq(Events) /\ missed \in [Nodes -> SUBSET Containers]
  BY DEF TypeOK
<1>2. events \o q \in Seq(Events)
  BY <1>1, ConcatProperties
<1> QED
  BY <1>1, <1>2 DEF Emit

\* Setting an item, in the memory, in etcd and in the table.
LEMMA SetItemType ==
  ASSUME TypeOK, NEW c \in Containers, NEW info \in Info \cup {None}, SetItem(c, info)
  PROVE  /\ memory' \in Shard /\ etcd' \in Shard
         /\ watch' \in [Readers -> Seq(ShardChanges)]
         /\ table' \in [Nodes -> SUBSET Entries]
         /\ missed' \in [Nodes -> SUBSET Containers]
<1> DEFINE shard == [etcd EXCEPT ![c] = info]
<1>1. memory' \in Shard /\ shard \in Shard /\ etcd \in Shard
  BY DEF SetItem, TypeOK, Shard
<1>2. WriteEtcd(shard) => etcd' \in Shard /\ watch' \in [Readers -> Seq(ShardChanges)]
  <2> HIDE DEF shard
  <2> QED
    BY <1>1, WriteShape
<1>3. Handled(table[Owner], c, memory[c], info) \in SUBSET Entries
  <2>1. table[Owner] \in SUBSET Entries /\ memory[c] \in Info \cup {None}
    BY DEF TypeOK, Nodes, Shard
  <2> QED
    BY <2>1, HandledType
<1>4. table' \in [Nodes -> SUBSET Entries]
  <2>1. table' = table \/ table' = [table EXCEPT ![Owner] = Handled(table[Owner], c, memory[c], info)]
    BY DEF SetItem
  <2> QED
    BY <1>3, <2>1 DEF TypeOK
<1>5. missed' \in [Nodes -> SUBSET Containers]
  BY MissedByType DEF SetItem
<1>6. etcd' \in Shard /\ watch' \in [Readers -> Seq(ShardChanges)]
  BY <1>1, <1>2 DEF SetItem, TypeOK
<1> QED
  BY <1>1, <1>4, <1>5, <1>6

\* What a container has in Docker after a change, and what else a change leaves alone.
LEMMA ChangeType ==
  ASSUME TypeOK, NEW c \in Containers, NEW info \in Info \cup {None}, Change(c, info)
  PROVE  docker' \in Shard /\ changes' \in 0 .. MaxChanges
<1>1. changes < MaxChanges /\ changes' = changes + 1 /\ changes \in 0 .. MaxChanges
  BY DEF Change, TypeOK
<1>2. docker' \in Shard
  BY DEF Change, TypeOK, Shard
<1> QED
  BY <1>1, <1>2, ContainerDataAssumption

\* Docker's changes come with events of the container.
LEMMA DockerType ==
  ASSUME TypeOK, NEW c \in Containers, NEW info \in Info \cup {None}, NEW q \in Seq(Events),
         Change(c, info), Emit(c, q)
  PROVE  TypeOK'
<1>1. docker' \in Shard /\ changes' \in 0 .. MaxChanges
  BY ChangeType
<1>2. events' \in Seq(Events) /\ missed' \in [Nodes -> SUBSET Containers]
  BY EmitType
<1>3. UNCHANGED <<inspected, listed, memory, etcd, readerVars, table, phase, crashes>>
  BY DEF Change
<1> QED
  BY <1>1, <1>2, <1>3 DEF TypeOK, readerVars

\* The events of Docker's calls, and what they make of the container.
LEMMA StartEvents ==
  ASSUME NEW c \in Containers, NEW info \in Info
  PROVE  SetToSeq({[type |-> "connect", c |-> c, n |-> n] : n \in NetworksOf(info)}) \in Seq(Events)
<1> DEFINE E == {[type |-> "connect", c |-> c, n |-> n] : n \in NetworksOf(info)}
<1>1. NetworksOf(info) \in SUBSET Networks
  BY DEF NetworksOf
<1>2. E \subseteq Events /\ SetToSeq(E) \in Seq(E)
  BY <1>1, NetworkEvents
<1> HIDE DEF E
<1>3. SetToSeq(E) \in Seq(Events)
  BY <1>2, SeqMonotonic
<1> QED
  BY <1>3 DEF E

\* The events a stop emits before or after the container's end.
Left(c) == SetToSeq({Disconnected(c, n) : n \in NetworksOf(docker[c])})
Died(c) == <<[type |-> "die", c |-> c]>>

LEMMA StopEvents ==
  ASSUME NEW c \in Containers
  PROVE  Left(c) \in Seq(Events) /\ Died(c) \in Seq(Events)
<1> DEFINE E == {[type |-> "disconnect", c |-> c, n |-> n] : n \in NetworksOf(docker[c])}
<1>1. NetworksOf(docker[c]) \in SUBSET Networks
  BY DEF NetworksOf
<1>2. E \subseteq Events /\ SetToSeq(E) \in Seq(E)
  BY <1>1, NetworkEvents
<1>3. Left(c) = SetToSeq(E)
  BY DEF Left, Disconnected
<1>4. SetToSeq(E) \in Seq(Events)
  <2> HIDE DEF E
  <2> QED
    BY <1>2, SeqMonotonic
<1>5. [type |-> "die", c |-> c] \in Events
  BY DEF Events
<1> QED
  BY <1>3, <1>4, <1>5 DEF Died

\* The events in the queue are events.
LEMMA HeadEvent ==
  ASSUME TypeOK, events # <<>>
  PROVE  Head(events) \in Events /\ Tail(events) \in Seq(Events) /\ Head(events).c \in Containers
<1>1. events \in Seq(Events)
  BY DEF TypeOK
<1>2. Head(events) \in Events /\ Tail(events) \in Seq(Events)
  BY <1>1, HeadTailProperties
<1> QED
  BY <1>2 DEF Events

\* What is stored of a container that left a network.
LEMMA WithoutType ==
  ASSUME NEW info \in Info, NEW n
  PROVE  Without(info, n) \in Info
BY DEF Without, Info

\* A node's end.
LEMMA DownType ==
  ASSUME TypeOK, NEW node \in Nodes, Down(node)
  PROVE  /\ crashes' \in 0 .. MaxCrashes
         /\ phase' \in [Nodes -> Phases]
         /\ table' \in [Nodes -> SUBSET Entries]
<1>1. crashes < MaxCrashes /\ crashes' = crashes + 1 /\ crashes \in 0 .. MaxCrashes
  BY DEF Down, TypeOK
<1>2. phase' \in [Nodes -> Phases] /\ table' \in [Nodes -> SUBSET Entries]
  BY DEF Down, TypeOK, Phases
<1> QED
  BY <1>1, <1>2, ContainerDataAssumption

\* Docker's actions keep the types.
LEMMA DockerTypeStep ==
  ASSUME TypeOK,
         \/ \E c \in Containers, info \in Info \ {NoNetwork} : Start(c, info)
         \/ \E c \in Containers, n \in Networks, ip \in Ips : Connect(c, n, ip)
         \/ \E c \in Containers, n \in Networks : Disconnect(c, n)
         \/ \E c \in Containers : Stop(c)
  PROVE  TypeOK'
<1>0. \A c \in Containers : docker[c] \in Info \cup {None}
  BY DEF TypeOK, Shard
<1>1. ASSUME NEW c \in Containers, NEW info \in Info, Start(c, info) PROVE TypeOK'
  BY <1>1, StartEvents, DockerType DEF Start
<1>2. ASSUME NEW c \in Containers, NEW n \in Networks, NEW ip \in Ips, Connect(c, n, ip)
      PROVE  TypeOK'
  <2>1. [docker[c] EXCEPT ![n] = ip] \in Info
    BY <1>0, <1>2 DEF Connect, Info
  <2>2. <<[type |-> "connect", c |-> c, n |-> n]>> \in Seq(Events)
    BY DEF Events
  <2> QED
    BY <1>2, <2>1, <2>2, DockerType DEF Connect
<1>3. ASSUME NEW c \in Containers, NEW n \in Networks, Disconnect(c, n) PROVE TypeOK'
  <2>1. [docker[c] EXCEPT ![n] = None] \in Info
    BY <1>0, <1>3 DEF Disconnect, IsIn, Info
  <2>2. <<Disconnected(c, n)>> \in Seq(Events)
    BY DEF Events, Disconnected
  <2> QED
    BY <1>3, <2>1, <2>2, DockerType DEF Disconnect
<1>4. ASSUME NEW c \in Containers, Stop(c) PROVE TypeOK'
  <2>1. PICK q \in {Died(c) \o Left(c), Left(c) \o Died(c)} : Emit(c, q)
    BY <1>4 DEF Stop, Left, Died
  <2>2. q \in Seq(Events)
    BY <2>1, StopEvents, ConcatProperties
  <2> QED
    BY <1>4, <2>1, <2>2, DockerType DEF Stop
<1> QED
  BY <1>1, <1>2, <1>3, <1>4

\* The owner's handlers keep the types.
LEMMA HandlersTypeStep ==
  ASSUME TypeOK,
         EventsLost \/ Inspect \/ InspectError \/ Store \/ HandleDisconnected \/ HandleDied
  PROVE  TypeOK'
<1> USE DEF dockerVars, ownerVars, readerVars
<1>1. CASE EventsLost
  <2>1. events \in Seq(Events)
    BY DEF TypeOK
  <2>2. \A i \in 1 .. Len(events) : events[i] \in Events
    BY <2>1, ElementOfSeq
  <2>3. {events[i].c : i \in 1 .. Len(events)} \subseteq Containers
    BY <2>2 DEF Events
  <2>4. events' \in Seq(Events)
    BY <1>1, EmptySeq DEF EventsLost
  <2>5. missed' \in [Nodes -> SUBSET Containers]
    BY <1>1, <2>3 DEF EventsLost, TypeOK
  <2>6. UNCHANGED <<dockerVars, inspected, listed, memory, etcd, readerVars, table, phase, crashes>>
    BY <1>1 DEF EventsLost
  <2> QED
    BY <2>4, <2>5, <2>6 DEF TypeOK
<1>2. CASE Inspect
  <2>1. Head(events).c \in Containers /\ events' \in Seq(Events)
    BY <1>2, HeadEvent DEF Inspect, NextEvent
  <2>2. inspected' \in Inspections \cup {None}
    BY <1>2, <2>1 DEF Inspect, TypeOK, Shard, Inspections
  <2>3. UNCHANGED <<dockerVars, listed, memory, etcd, readerVars, table, phase, crashes, missed>>
    BY <1>2 DEF Inspect
  <2> QED
    BY <2>1, <2>2, <2>3 DEF TypeOK
<1>3. CASE InspectError
  <2>1. Head(events).c \in Containers /\ events' \in Seq(Events)
    BY <1>3, HeadEvent DEF InspectError, NextEvent
  <2>2. missed' \in [Nodes -> SUBSET Containers]
    BY <1>3, <2>1 DEF InspectError, TypeOK
  <2>3. UNCHANGED <<dockerVars, inspected, listed, memory, etcd, readerVars, table, phase, crashes>>
    BY <1>3 DEF InspectError
  <2> QED
    BY <2>1, <2>2, <2>3 DEF TypeOK
<1>4. CASE Store
  <2>1. inspected.c \in Containers /\ inspected.info \in Info
    BY <1>4 DEF Store, TypeOK, Inspections
  <2>2. SetItem(inspected.c, inspected.info) /\ inspected' = None
    BY <1>4 DEF Store
  <2>3. /\ memory' \in Shard /\ etcd' \in Shard
        /\ watch' \in [Readers -> Seq(ShardChanges)]
        /\ table' \in [Nodes -> SUBSET Entries]
        /\ missed' \in [Nodes -> SUBSET Containers]
    BY <2>1, <2>2, SetItemType
  <2>4. UNCHANGED <<dockerVars, events, listed, view, snapshot, phase, crashes>>
    BY <1>4 DEF Store
  <2> QED
    BY <2>2, <2>3, <2>4 DEF TypeOK
<1>5. CASE HandleDisconnected
  <2> DEFINE e == Head(events)
  <2>1. e.c \in Containers /\ events' \in Seq(Events)
    BY <1>5, HeadEvent DEF HandleDisconnected, NextEvent
  <2>2. UNCHANGED <<dockerVars, inspected, listed, view, snapshot, phase, crashes>>
    BY <1>5 DEF HandleDisconnected
  <2>3. CASE memory[e.c] = None
    BY <1>5, <2>1, <2>2, <2>3 DEF HandleDisconnected, TypeOK
  <2>4. CASE memory[e.c] # None
    <3>1. Without(memory[e.c], e.n) \in Info
      BY <2>1, <2>4, WithoutType DEF TypeOK, Shard
    <3>2. SetItem(e.c, Without(memory[e.c], e.n))
      BY <1>5, <2>4 DEF HandleDisconnected
    <3>3. /\ memory' \in Shard /\ etcd' \in Shard
          /\ watch' \in [Readers -> Seq(ShardChanges)]
          /\ table' \in [Nodes -> SUBSET Entries]
          /\ missed' \in [Nodes -> SUBSET Containers]
      BY <2>1, <3>1, <3>2, SetItemType
    <3> QED
      BY <2>1, <2>2, <3>3 DEF TypeOK
  <2> QED
    BY <2>3, <2>4
<1>6. CASE HandleDied
  <2>1. Head(events).c \in Containers /\ events' \in Seq(Events)
    BY <1>6, HeadEvent DEF HandleDied, NextEvent
  <2>2. /\ memory' \in Shard /\ etcd' \in Shard
        /\ watch' \in [Readers -> Seq(ShardChanges)]
        /\ table' \in [Nodes -> SUBSET Entries]
        /\ missed' \in [Nodes -> SUBSET Containers]
    BY <1>6, <2>1, SetItemType DEF HandleDied
  <2>3. UNCHANGED <<dockerVars, inspected, listed, view, snapshot, phase, crashes>>
    BY <1>6 DEF HandleDied
  <2> QED
    BY <2>1, <2>2, <2>3 DEF TypeOK
<1> QED
  BY <1>1, <1>2, <1>3, <1>4, <1>5, <1>6

\* The empty shard is a shard, and so is what the owner syncs.
LEMMA ShardTypes == TypeOK => EmptyShard \in Shard /\ Synced \in Shard
BY DEF EmptyShard, Shard, Synced, TypeOK

\* The owner's start, and its end, keep the types.
LEMMA OwnerTypeStep ==
  ASSUME TypeOK, List \/ Sync \/ SyncError \/ Announce \/ OwnerCrash
  PROVE  TypeOK'
<1> USE DEF dockerVars, ownerVars, readerVars
<1>0. Owner \in Nodes /\ EmptyShard \in Shard /\ Synced \in Shard
  BY ShardTypes DEF Nodes
<1>1. CASE List
  <2>1. listed' \in Shard
    BY <1>0, <1>1 DEF List, TypeOK, Shard
  <2>2. phase' \in [Nodes -> Phases] /\ missed' \in [Nodes -> SUBSET Containers]
    BY <1>1 DEF List, TypeOK, Phases
  <2>3. UNCHANGED <<dockerVars, events, inspected, memory, etcd, readerVars, table, crashes>>
    BY <1>1 DEF List
  <2> QED
    BY <2>1, <2>2, <2>3 DEF TypeOK
<1>2. CASE Sync
  <2>1. etcd' \in Shard /\ watch' \in [Readers -> Seq(ShardChanges)]
    BY <1>0, <1>2, WriteShape DEF Sync
  <2>2. missed' \in [Nodes -> SUBSET Containers]
    BY <1>2, MissedByType DEF Sync
  <2>3. phase' \in [Nodes -> Phases] /\ memory' \in Shard
    BY <1>2 DEF Sync, TypeOK, Phases
  <2>4. UNCHANGED <<dockerVars, events, inspected, listed, view, snapshot, table, crashes>>
    BY <1>2 DEF Sync
  <2> QED
    BY <2>1, <2>2, <2>3, <2>4 DEF TypeOK
<1>3. ASSUME OwnerDown
      PROVE  /\ crashes' \in 0 .. MaxCrashes
             /\ phase' \in [Nodes -> Phases]
             /\ table' \in [Nodes -> SUBSET Entries]
             /\ events' \in Seq(Events)
             /\ listed' \in Shard /\ memory' \in Shard
             /\ inspected' = None /\ UNCHANGED <<dockerVars, view, snapshot>>
  BY <1>0, <1>3, DownType, EmptySeq DEF OwnerDown
<1>4. CASE SyncError
  <2>1. PICK written \in SUBSET Containers :
          LET shard == [c \in Containers |-> IF c \in written THEN Synced[c] ELSE etcd[c]]
          IN WriteEtcd(shard) /\ missed' = MissedBy(shard, {})
    BY <1>4 DEF SyncError
  <2> DEFINE shard == [c \in Containers |-> IF c \in written THEN Synced[c] ELSE etcd[c]]
  <2>2. shard \in Shard
    BY <1>0 DEF TypeOK, Shard
  <2>3. WriteEtcd(shard) /\ missed' = MissedBy(shard, {})
    BY <2>1
  <2> HIDE DEF shard
  <2>4. etcd' \in Shard /\ watch' \in [Readers -> Seq(ShardChanges)]
    BY <2>2, <2>3, WriteShape
  <2>5. missed' \in [Nodes -> SUBSET Containers]
    BY <2>3, MissedByType
  <2> QED
    BY <1>3, <1>4, <2>4, <2>5 DEF SyncError, TypeOK
<1>5. CASE Announce
  <2>1. \A c \in Containers : EntriesOf(c, memory[c]) \in SUBSET Entries
    BY EntriesType DEF TypeOK, Shard
  <2>2. table' \in [Nodes -> SUBSET Entries]
    BY <1>5, <2>1 DEF Announce, TypeOK
  <2>3. phase' \in [Nodes -> Phases] /\ listed' \in Shard
    BY <1>0, <1>5 DEF Announce, TypeOK, Phases
  <2>4. UNCHANGED <<dockerVars, events, inspected, memory, etcd, readerVars, crashes, missed>>
    BY <1>5 DEF Announce
  <2> QED
    BY <2>2, <2>3, <2>4 DEF TypeOK
<1>6. CASE OwnerCrash
  BY <1>3, <1>6 DEF OwnerCrash, TypeOK
<1> QED
  BY <1>1, <1>2, <1>4, <1>5, <1>6

\* The readers' steps keep the types.
LEMMA ReaderTypeStep ==
  ASSUME TypeOK, NEW r \in Readers, ReaderGoesOn(r) \/ ReaderCrash(r)
  PROVE  TypeOK'
<1> USE DEF dockerVars, ownerVars, readerVars
<1>0. r \in Nodes /\ EmptyShard \in Shard
  BY ShardTypes DEF Nodes
<1>1. CASE Load(r)
  <2>1. view' \in [Readers -> Shard] /\ phase' \in [Nodes -> Phases]
        /\ missed' \in [Nodes -> SUBSET Containers]
    BY <1>1 DEF Load, TypeOK, Phases
  <2>2. UNCHANGED <<dockerVars, ownerVars, etcd, watch, snapshot, table, crashes>>
    BY <1>1 DEF Load
  <2> QED
    BY <2>1, <2>2 DEF TypeOK
<1>2. CASE Watch(r)
  <2>1. phase' \in [Nodes -> Phases]
    BY <1>2 DEF Watch, TypeOK, Phases
  <2>2. UNCHANGED <<dockerVars, ownerVars, etcd, readerVars, table, crashes, missed>>
    BY <1>2 DEF Watch
  <2> QED
    BY <2>1, <2>2 DEF TypeOK
<1>3. CASE TakeSnapshot(r)
  <2>1. snapshot' \in [Readers -> Shard] /\ phase' \in [Nodes -> Phases]
    BY <1>3 DEF TakeSnapshot, TypeOK, Phases
  <2>2. UNCHANGED <<dockerVars, ownerVars, etcd, view, watch, table, crashes, missed>>
    BY <1>3 DEF TakeSnapshot
  <2> QED
    BY <2>1, <2>2 DEF TypeOK
<1>4. CASE AnnounceSnapshot(r)
  <2>0. snapshot[r] \in Shard
    BY DEF TypeOK
  <2>1. \A c \in Containers : EntriesOf(c, snapshot[r][c]) \in SUBSET Entries
    BY <2>0, EntriesType DEF Shard
  <2>2. table' \in [Nodes -> SUBSET Entries]
    BY <1>0, <1>4, <2>1 DEF AnnounceSnapshot, TypeOK
  <2>3. snapshot' \in [Readers -> Shard] /\ phase' \in [Nodes -> Phases]
    BY <1>0, <1>4 DEF AnnounceSnapshot, TypeOK, Phases
  <2>4. UNCHANGED <<dockerVars, ownerVars, etcd, view, watch, crashes, missed>>
    BY <1>4 DEF AnnounceSnapshot
  <2> QED
    BY <2>2, <2>3, <2>4 DEF TypeOK
<1>5. CASE HandleWatchEvent(r)
  <2> DEFINE e == Head(watch[r])
  <2>1. watch[r] \in Seq(ShardChanges) /\ watch[r] # <<>>
    BY <1>5 DEF HandleWatchEvent, TypeOK
  <2>2. e \in ShardChanges /\ Tail(watch[r]) \in Seq(ShardChanges)
    BY <2>1, HeadTailProperties
  <2>3. e.c \in Containers /\ e.info \in Info \cup {None}
    BY <2>2 DEF ShardChanges
  <2> HIDE DEF e
  <2>4. view[r] \in Shard /\ view[r][e.c] \in Info \cup {None} /\ table[r] \in SUBSET Entries
    BY <1>0, <2>3 DEF TypeOK, Shard
  <2>5. Handled(table[r], e.c, view[r][e.c], e.info) \in SUBSET Entries
    BY <2>3, <2>4, HandledType
  <2>6. /\ view' = [view EXCEPT ![r][e.c] = e.info]
        /\ table' = [table EXCEPT ![r] = Handled(table[r], e.c, view[r][e.c], e.info)]
        /\ missed' = [missed EXCEPT ![r] = missed[r] \cup
                        IF phase[r] = "announcing" THEN {e.c} ELSE {}]
        /\ watch' = [watch EXCEPT ![r] = Tail(watch[r])]
    BY <1>5 DEF HandleWatchEvent, e
  <2>7. view' \in [Readers -> Shard]
    <3>1. [view[r] EXCEPT ![e.c] = e.info] \in Shard
      BY <2>3, <2>4 DEF Shard
    <3>2. view' = [view EXCEPT ![r] = [view[r] EXCEPT ![e.c] = e.info]]
      BY <2>6 DEF TypeOK
    <3> QED
      BY <3>1, <3>2 DEF TypeOK
  <2>8. table' \in [Nodes -> SUBSET Entries] /\ missed' \in [Nodes -> SUBSET Containers]
    BY <2>3, <2>5, <2>6 DEF TypeOK
  <2>9. watch' \in [Readers -> Seq(ShardChanges)]
    BY <2>2, <2>6 DEF TypeOK
  <2>10. UNCHANGED <<dockerVars, ownerVars, etcd, snapshot, phase, crashes>>
    BY <1>5 DEF HandleWatchEvent
  <2> QED
    BY <2>7, <2>8, <2>9, <2>10 DEF TypeOK
<1>6. CASE ReaderCrash(r)
  <2>1. /\ crashes' \in 0 .. MaxCrashes /\ phase' \in [Nodes -> Phases]
        /\ table' \in [Nodes -> SUBSET Entries]
    BY <1>0, <1>6, DownType DEF ReaderCrash
  <2>2. view' \in [Readers -> Shard] /\ snapshot' \in [Readers -> Shard]
        /\ watch' \in [Readers -> Seq(ShardChanges)]
    BY <1>0, <1>6, EmptySeq DEF ReaderCrash, TypeOK
  <2>3. UNCHANGED <<dockerVars, ownerVars, etcd, missed>>
    BY <1>6 DEF ReaderCrash
  <2> QED
    BY <2>1, <2>2, <2>3 DEF TypeOK
<1> QED
  BY <1>1, <1>2, <1>3, <1>4, <1>5, <1>6 DEF ReaderGoesOn

\* Every step keeps the types.
LEMMA TypeStep == TypeOK /\ [Next]_vars => TypeOK'
<1> SUFFICES ASSUME TypeOK, [Next]_vars PROVE TypeOK'
  OBVIOUS
<1>1. CASE UNCHANGED vars
  BY <1>1 DEF vars, dockerVars, ownerVars, readerVars, TypeOK
<1> QED
  BY <1>1, DockerTypeStep, HandlersTypeStep, OwnerTypeStep, ReaderTypeStep
  DEF Next, OwnerGoesOn

\* Every variable keeps its type, in every execution.
THEOREM TypeCorrect == Spec => []TypeOK
<1>1. Init => TypeOK
  <2> SUFFICES ASSUME Init PROVE TypeOK
    OBVIOUS
  <2>1. EmptyShard \in Shard
    BY DEF EmptyShard, Shard
  <2>2. /\ events \in Seq(Events)
        /\ watch \in [Readers -> Seq(ShardChanges)]
    BY EmptySeq DEF Init
  <2>3. phase \in [Nodes -> Phases]
    BY DEF Init, Phases
  <2> QED
    BY <2>1, <2>2, <2>3, ContainerDataAssumption DEF Init, TypeOK
<1> QED
  BY <1>1, TypeStep, PTL DEF Spec

-----------------------------------------------------------------------------
(* The queue of events.                                                    *)

\* The address of a container in a network.
At(info, n) == IF info = None THEN None ELSE info[n]

\* An event takes the network from what is stored of the container, or gives it back.
Ends(e, c, n) == e.c = c /\ (e.type = "die" \/ (e.type = "disconnect" /\ e.n = n))
Begins(e, c, n) == e.type = "connect" /\ e.c = c /\ e.n = n

\* In a queue: there is such an event, and every one of the first kind has one of the
\* second behind it.
Ending(s, c, n) == \E i \in 1 .. Len(s) : Ends(s[i], c, n)
Beginning(s, c, n) == \E i \in 1 .. Len(s) : Begins(s[i], c, n)
Followed(s, c, n) ==
  \A i \in 1 .. Len(s) : Ends(s[i], c, n) => \E j \in i + 1 .. Len(s) : Begins(s[j], c, n)

\* An empty queue has neither.
LEMMA EmptyQueue ==
  \A c, n : ~Ending(<<>>, c, n) /\ ~Beginning(<<>>, c, n) /\ Followed(<<>>, c, n)
BY EmptySeq DEF Ending, Beginning, Followed

\* What new events at the end change.
LEMMA ConcatQueue ==
  ASSUME NEW s \in Seq(Events), NEW q \in Seq(Events), NEW c, NEW n
  PROVE  /\ Ending(s, c, n) => Ending(s \o q, c, n)
         /\ Ending(q, c, n) => Ending(s \o q, c, n)
         /\ Beginning(s, c, n) => Beginning(s \o q, c, n)
         /\ Beginning(q, c, n) => Beginning(s \o q, c, n)
         /\ ~Ending(q, c, n) /\ (Followed(s, c, n) \/ Beginning(q, c, n))
              => Followed(s \o q, c, n)
<1> DEFINE t == s \o q
<1>1. /\ Len(s) \in Nat /\ Len(q) \in Nat /\ Len(t) = Len(s) + Len(q)
      /\ \A i \in 1 .. Len(s) + Len(q) : t[i] = IF i <= Len(s) THEN s[i] ELSE q[i - Len(s)]
  BY ConcatProperties, LenProperties
<1> HIDE DEF t
<1>2. \A i \in 1 .. Len(s) : i \in 1 .. Len(t) /\ t[i] = s[i]
  BY <1>1
<1>3. \A i \in 1 .. Len(q) : Len(s) + i \in 1 .. Len(t) /\ t[Len(s) + i] = q[i]
  BY <1>1
<1>4. ASSUME NEW i \in 1 .. Len(t) PROVE i \in 1 .. Len(s) \/ i - Len(s) \in 1 .. Len(q)
  BY <1>1
<1>5. ASSUME ~Ending(q, c, n), Followed(s, c, n) \/ Beginning(q, c, n),
             NEW i \in 1 .. Len(t), Ends(t[i], c, n)
      PROVE  \E j \in i + 1 .. Len(t) : Begins(t[j], c, n)
  <2>1. ASSUME i - Len(s) \in 1 .. Len(q) PROVE FALSE
    <3>1. t[i] = q[i - Len(s)]
      BY <1>1, <2>1
    <3> QED
      BY <1>5, <2>1, <3>1 DEF Ending
  <2>2. i \in 1 .. Len(s) /\ Ends(s[i], c, n)
    BY <1>2, <1>4, <1>5, <2>1
  <2>3. CASE Followed(s, c, n)
    <3>1. PICK j \in i + 1 .. Len(s) : Begins(s[j], c, n)
      BY <2>2, <2>3 DEF Followed
    <3>2. j \in i + 1 .. Len(t) /\ t[j] = s[j]
      BY <1>1, <2>2, <3>1
    <3> QED
      BY <3>1, <3>2
  <2>4. CASE Beginning(q, c, n)
    <3>1. PICK j \in 1 .. Len(q) : Begins(q[j], c, n)
      BY <2>4 DEF Beginning
    <3>2. Len(s) + j \in i + 1 .. Len(t) /\ t[Len(s) + j] = q[j]
      BY <1>1, <1>3, <2>2, <3>1
    <3> QED
      BY <3>1, <3>2
  <2> QED
    BY <1>5, <2>3, <2>4
<1>6. /\ Ending(s, c, n) => Ending(t, c, n)
      /\ Beginning(s, c, n) => Beginning(t, c, n)
  BY <1>2 DEF Ending, Beginning
<1>7. ASSUME NEW i \in 1 .. Len(q)
      PROVE  /\ Ends(q[i], c, n) => Ending(t, c, n)
             /\ Begins(q[i], c, n) => Beginning(t, c, n)
  <2>1. Len(s) + i \in 1 .. Len(t) /\ t[Len(s) + i] = q[i]
    BY <1>3
  <2> DEFINE k == Len(s) + i
  <2>2. k \in 1 .. Len(t) /\ t[k] = q[i]
    BY <2>1
  <2> HIDE DEF k
  <2> QED
    BY <2>2 DEF Ending, Beginning
<1>8. /\ Ending(q, c, n) => Ending(t, c, n)
      /\ Beginning(q, c, n) => Beginning(t, c, n)
  BY <1>7 DEF Ending, Beginning
<1> QED
  BY <1>5, <1>6, <1>8 DEF Followed, t

\* What is left when the first event is handled.
LEMMA TailQueue ==
  ASSUME NEW s \in Seq(Events), s # <<>>, NEW c, NEW n
  PROVE  /\ Ending(s, c, n) /\ ~Ends(Head(s), c, n) => Ending(Tail(s), c, n)
         /\ Beginning(s, c, n) /\ ~Begins(Head(s), c, n) => Beginning(Tail(s), c, n)
         /\ Followed(s, c, n) => Followed(Tail(s), c, n)
         /\ Followed(s, c, n) /\ Ends(Head(s), c, n) => Beginning(Tail(s), c, n)
<1> DEFINE t == Tail(s)
<1>1. /\ Len(s) \in Nat /\ Len(s) > 0 /\ Len(t) = Len(s) - 1
      /\ \A i \in 1 .. Len(t) : t[i] = s[i + 1]
      /\ Head(s) = s[1]
  BY HeadTailProperties, LenProperties, EmptySeq
<1> HIDE DEF t
<1>2. ASSUME NEW i \in 1 .. Len(s), i # 1
      PROVE  /\ i - 1 \in 1 .. Len(t) /\ t[i - 1] = s[i]
             /\ Ends(s[i], c, n) => Ending(t, c, n)
             /\ Begins(s[i], c, n) => Beginning(t, c, n)
  <2>1. i - 1 \in 1 .. Len(t) /\ t[i - 1] = s[i]
    BY <1>1, <1>2
  <2> DEFINE k == i - 1
  <2>2. k \in 1 .. Len(t) /\ t[k] = s[i]
    BY <2>1
  <2> HIDE DEF k
  <2>3. /\ Ends(s[i], c, n) => Ending(t, c, n)
        /\ Begins(s[i], c, n) => Beginning(t, c, n)
    BY <2>2 DEF Ending, Beginning
  <2> QED
    BY <2>1, <2>3
<1>3. ASSUME Followed(s, c, n), NEW i \in 1 .. Len(t), Ends(t[i], c, n)
      PROVE  \E j \in i + 1 .. Len(t) : Begins(t[j], c, n)
  <2>1. i + 1 \in 1 .. Len(s) /\ t[i] = s[i + 1]
    BY <1>1, <1>3
  <2> DEFINE k == i + 1
  <2>2. k \in 1 .. Len(s) /\ Ends(s[k], c, n)
    BY <1>3, <2>1
  <2>3. PICK j \in k + 1 .. Len(s) : Begins(s[j], c, n)
    <3> HIDE DEF k
    <3> QED
      BY <1>3, <2>2 DEF Followed
  <2>4. j - 1 \in i + 1 .. Len(t) /\ t[j - 1] = s[j]
    BY <1>1, <2>3
  <2> QED
    BY <2>3, <2>4
<1>4. ASSUME Followed(s, c, n), Ends(Head(s), c, n) PROVE Beginning(t, c, n)
  <2>1. 1 \in 1 .. Len(s) /\ Ends(s[1], c, n)
    BY <1>1, <1>4
  <2>2. PICK j \in 1 + 1 .. Len(s) : Begins(s[j], c, n)
    BY <1>4, <2>1 DEF Followed
  <2>3. j \in 1 .. Len(s) /\ j # 1
    BY <1>1, <2>2
  <2> QED
    BY <1>2, <2>2, <2>3
<1>5. Ending(s, c, n) /\ ~Ends(Head(s), c, n) => Ending(t, c, n)
  BY <1>1, <1>2 DEF Ending
<1>6. Beginning(s, c, n) /\ ~Begins(Head(s), c, n) => Beginning(t, c, n)
  BY <1>1, <1>2 DEF Beginning
<1> QED
  BY <1>3, <1>4, <1>5, <1>6 DEF Followed, t

-----------------------------------------------------------------------------
(* The owner: its memory, its shard in etcd and its table.                 *)

\* What is stored of a container once what Docker said of it is stored.
Current(c) == IF inspected # None /\ inspected.c = c THEN inspected.info ELSE memory[c]

\* Where the present of a container in a network is not in the memory, the queue has an
\* event that brings it there; and what the queue takes away it gives back.
Queued(c, n) ==
  /\ At(docker[c], n) # None => Followed(events, c, n)
  /\ At(Current(c), n) \notin {None, At(docker[c], n)} => Ending(events, c, n)
  /\ At(Current(c), n) = None /\ At(docker[c], n) # None => Beginning(events, c, n)

\* The table has the networks of the memory; an address that is no longer the
\* container's is going to be taken away.
Tabled(c, n) ==
  /\ At(memory[c], n) # None <=> \E ip \in Ips : <<c, n, ip>> \in table[Owner]
  /\ \A ip \in Ips :
       <<c, n, ip>> \in table[Owner] /\ ip # At(docker[c], n) => Ending(events, c, n)

OwnerPhases ==
  /\ phase[Owner] \in {"down", "loaded", "announcing", "up"}
  /\ phase[Owner] # "up" => events = <<>> /\ inspected = None

\* Step by step of the owner's start, and then for good: its copies of a container of
\* which it has missed nothing.
OwnerCopies ==
  \A c \in Containers \ missed[Owner] :
    /\ phase[Owner] \in {"announcing", "up"} => etcd[c] = memory[c]
    /\ \A n \in Networks :
         /\ phase[Owner] = "loaded" => At(listed[c], n) = At(docker[c], n)
         /\ phase[Owner] = "announcing" => At(memory[c], n) = At(docker[c], n)
         /\ phase[Owner] = "up" => Queued(c, n) /\ Tabled(c, n)

OwnerInv == OwnerPhases /\ OwnerCopies

\* The events of a change in Docker tell what it did: they take no network from a
\* container that is in it, and each change of an address has its event.
Explains(q) ==
  \A c \in Containers, n \in Networks :
    /\ At(docker'[c], n) # None => ~Ending(q, c, n)
    /\ At(docker'[c], n) \notin {None, At(docker[c], n)} => Beginning(q, c, n)
    /\ At(docker[c], n) \notin {None, At(docker'[c], n)} => Ending(q, c, n)

\* A change in Docker whose events explain it.
LEMMA ExplainedChange ==
  ASSUME TypeOK, OwnerInv, NEW c \in Containers, NEW info \in Info \cup {None},
         NEW q \in Seq(Events), Change(c, info), Emit(c, q), Explains(q)
  PROVE  OwnerInv'
<1>1. UNCHANGED <<inspected, listed, memory, etcd, table, phase>>
  BY DEF Change
<1>2. \A d \in Containers : d # c => docker'[d] = docker[d]
  BY DEF Change, TypeOK, Shard
<1>3. events \in Seq(Events) /\ Owner \in Nodes /\ missed \in [Nodes -> SUBSET Containers]
  BY DEF TypeOK, Nodes
<1>4. CASE Subscribed
  <2>1. events' = events \o q /\ missed' = missed
    BY <1>4 DEF Emit
  <2>2. phase[Owner] = "up"
    BY <1>4 DEF Subscribed
  <2>3. OwnerPhases'
    BY <1>1, <2>2 DEF OwnerPhases
  <2>4. ASSUME NEW d \in Containers \ missed[Owner], NEW n \in Networks
        PROVE  Queued(d, n)' /\ Tabled(d, n)'
    <3>1. Queued(d, n) /\ Tabled(d, n)
      BY <2>2, <2>4 DEF OwnerInv, OwnerCopies
    <3>2. /\ At(docker'[d], n) # None => ~Ending(q, d, n)
          /\ At(docker'[d], n) \notin {None, At(docker[d], n)} => Beginning(q, d, n)
          /\ At(docker[d], n) \notin {None, At(docker'[d], n)} => Ending(q, d, n)
      BY DEF Explains
    <3>3. /\ Ending(events, d, n) => Ending(events', d, n)
          /\ Ending(q, d, n) => Ending(events', d, n)
          /\ Beginning(events, d, n) => Beginning(events', d, n)
          /\ Beginning(q, d, n) => Beginning(events', d, n)
          /\ ~Ending(q, d, n) /\ (Followed(events, d, n) \/ Beginning(q, d, n))
               => Followed(events', d, n)
      BY <1>3, <2>1, ConcatQueue
    <3>4. Current(d)' = Current(d) /\ memory'[d] = memory[d] /\ table'[Owner] = table[Owner]
      BY <1>1 DEF Current
    <3>5. Queued(d, n)'
      <4>1. At(docker'[d], n) # None => Followed(events', d, n)
        BY <3>1, <3>2, <3>3 DEF Queued
      <4>2. At(Current(d), n) \notin {None, At(docker'[d], n)} => Ending(events', d, n)
        BY <3>1, <3>2, <3>3 DEF Queued
      <4>3. At(Current(d), n) = None /\ At(docker'[d], n) # None => Beginning(events', d, n)
        BY <3>1, <3>2, <3>3 DEF Queued
      <4> QED
        BY <3>4, <4>1, <4>2, <4>3 DEF Queued, At, Ending, Beginning, Followed
    <3>6. Tabled(d, n)'
      <4>1. ASSUME NEW ip \in Ips, <<d, n, ip>> \in table[Owner], ip # At(docker'[d], n)
            PROVE  Ending(events', d, n)
        <5>1. ip # None
          BY ContainerDataAssumption
        <5> QED
          BY <3>1, <3>2, <3>3, <4>1, <5>1 DEF Tabled
      <4>2. At(memory[d], n) # None <=> \E ip \in Ips : <<d, n, ip>> \in table[Owner]
        BY <3>1 DEF Tabled
      <4> QED
        BY <3>4, <4>1, <4>2 DEF Tabled, At, Ending
    <3> QED
      BY <3>5, <3>6
  <2>5. OwnerCopies'
    BY <1>1, <2>1, <2>2, <2>4 DEF OwnerInv, OwnerCopies
  <2> QED
    BY <2>3, <2>5 DEF OwnerInv
<1>5. CASE ~Subscribed
  <2>1. events' = events /\ missed'[Owner] = missed[Owner] \cup {c}
    BY <1>3, <1>5 DEF Emit
  <2>2. phase[Owner] # "up"
    BY <1>5 DEF Subscribed
  <2>3. OwnerPhases'
    BY <1>1, <2>1 DEF OwnerInv, OwnerPhases
  <2>4. OwnerCopies'
    BY <1>1, <1>2, <2>1, <2>2 DEF OwnerInv, OwnerCopies, At
  <2> QED
    BY <2>3, <2>4 DEF OwnerInv
<1> QED
  BY <1>4, <1>5

\* Events of one container end nothing for another.
LEMMA OthersGoOn ==
  ASSUME NEW q, NEW c, \A i \in 1 .. Len(q) : q[i].c = c, NEW d, d # c, NEW n
  PROVE  ~Ending(q, d, n)
BY DEF Ending, Ends

\* What Docker has of the containers after a change.
LEMMA ChangeShape ==
  ASSUME TypeOK, NEW c \in Containers, NEW info \in Info \cup {None}, Change(c, info)
  PROVE  docker'[c] = info /\ \A d \in Containers : d # c => docker'[d] = docker[d]
BY DEF Change, TypeOK, Shard

\* The events of a start.
LEMMA StartExplains ==
  ASSUME TypeOK, NEW c \in Containers, NEW info \in Info, Change(c, info), docker[c] = None
  PROVE  Explains(SetToSeq({[type |-> "connect", c |-> c, n |-> n] : n \in NetworksOf(info)}))
<1> DEFINE E == {[type |-> "connect", c |-> c, n |-> n] : n \in NetworksOf(info)}
           q == SetToSeq(E)
<1>1. NetworksOf(info) \in SUBSET Networks
  BY DEF NetworksOf
<1>2. q \in Seq(E) /\ \A x \in E : \E i \in 1 .. Len(q) : q[i] = x
  BY <1>1, NetworkEvents
<1>3. \A i \in 1 .. Len(q) : q[i] \in E
  <2> HIDE DEF E, q
  <2> QED
    BY <1>2, ElementOfSeq
<1>4. \A i \in 1 .. Len(q) : q[i].c = c /\ q[i].type = "connect"
  <2> HIDE DEF q
  <2> QED
    BY <1>3
<1>5. ASSUME NEW n \in Networks, info[n] # None PROVE Beginning(q, c, n)
  <2>1. [type |-> "connect", c |-> c, n |-> n] \in E
    BY <1>5, ContainerDataAssumption DEF NetworksOf, IsIn
  <2> HIDE DEF E, q
  <2>2. PICK i \in 1 .. Len(q) : q[i] = [type |-> "connect", c |-> c, n |-> n]
    BY <1>2, <2>1
  <2>3. Begins(q[i], c, n)
    BY <2>2 DEF Begins
  <2> QED
    BY <2>3 DEF Beginning
<1> HIDE DEF q
<1>6. \A d, n : ~Ending(q, d, n)
  BY <1>4 DEF Ending, Ends
<1>7. docker'[c] = info /\ \A d \in Containers : d # c => docker'[d] = docker[d]
  BY ChangeShape
<1>8. Explains(q)
  BY <1>5, <1>6, <1>7 DEF Explains, At
<1> QED
  BY <1>8 DEF q

\* The event of a connection.
LEMMA ConnectExplains ==
  ASSUME TypeOK, NEW c \in Containers, NEW n \in Networks, NEW ip \in Ips,
         docker[c] # None, docker[c][n] = None, Change(c, [docker[c] EXCEPT ![n] = ip])
  PROVE  Explains(<<[type |-> "connect", c |-> c, n |-> n]>>)
<1> DEFINE e == [type |-> "connect", c |-> c, n |-> n]
           info == [docker[c] EXCEPT ![n] = ip]
<1>1. docker[c] \in Info
  BY DEF TypeOK, Shard
<1>2. info \in Info
  BY <1>1 DEF Info
<1>3. \A m \in Networks : info[m] = IF m = n THEN ip ELSE docker[c][m]
  BY <1>1 DEF Info
<1>4. info # None
  BY <1>2, ContainerDataAssumption
<1>5. docker'[c] = info /\ \A d \in Containers : d # c => docker'[d] = docker[d]
  <2> HIDE DEF info
  <2> QED
    BY <1>2, ChangeShape DEF info
<1>6. \A d, m : ~Ending(<<e>>, d, m)
  BY DEF Ending, Ends
<1>7. Beginning(<<e>>, c, n)
  BY DEF Beginning, Begins
<1> HIDE DEF e, info
<1>8. Explains(<<e>>)
  BY <1>3, <1>4, <1>5, <1>6, <1>7 DEF Explains, At
<1> QED
  BY <1>8 DEF e

\* The event of a disconnection.
LEMMA DisconnectExplains ==
  ASSUME TypeOK, NEW c \in Containers, NEW n \in Networks, IsIn(docker[c], n),
         Change(c, [docker[c] EXCEPT ![n] = None])
  PROVE  Explains(<<Disconnected(c, n)>>)
<1> DEFINE e == Disconnected(c, n)
           info == [docker[c] EXCEPT ![n] = None]
<1>1. docker[c] \in Info
  BY DEF TypeOK, Shard, IsIn
<1>2. info \in Info
  BY <1>1 DEF Info
<1>3. \A m \in Networks : info[m] = IF m = n THEN None ELSE docker[c][m]
  BY <1>1 DEF Info
<1>4. info # None /\ docker[c] # None
  BY <1>2, ContainerDataAssumption DEF IsIn
<1>5. docker'[c] = info /\ \A d \in Containers : d # c => docker'[d] = docker[d]
  <2> HIDE DEF info
  <2> QED
    BY <1>2, ChangeShape DEF info
<1>6. \A d, m : Ending(<<e>>, d, m) <=> d = c /\ m = n
  BY DEF Ending, Ends, Disconnected
<1> HIDE DEF e, info
<1>7. Explains(<<e>>)
  BY <1>3, <1>4, <1>5, <1>6 DEF Explains, At
<1> QED
  BY <1>7 DEF e

\* The events of a stop, in either order.
LEMMA StopExplains ==
  ASSUME TypeOK, NEW c \in Containers, Change(c, None),
         NEW q \in {Died(c) \o Left(c), Left(c) \o Died(c)}
  PROVE  q \in Seq(Events) /\ Explains(q)
<1>1. Left(c) \in Seq(Events) /\ Died(c) \in Seq(Events)
  BY StopEvents
<1>2. \A n : Ending(Died(c), c, n)
  BY DEF Ending, Ends, Died
<1>3. q \in Seq(Events) /\ \A n : Ending(q, c, n)
  BY <1>1, <1>2, ConcatQueue, ConcatProperties
<1>4. \A i \in 1 .. Len(Left(c)) : Left(c)[i].c = c
  <2> DEFINE E == {[type |-> "disconnect", c |-> c, n |-> n] : n \in NetworksOf(docker[c])}
  <2>1. NetworksOf(docker[c]) \in SUBSET Networks
    BY DEF NetworksOf
  <2>2. SetToSeq(E) \in Seq(E)
    BY <2>1, NetworkEvents
  <2>3. Left(c) = SetToSeq(E)
    BY DEF Left, Disconnected
  <2>4. \A i \in 1 .. Len(Left(c)) : Left(c)[i] \in E
    <3> HIDE DEF E
    <3> QED
      BY <2>2, <2>3, ElementOfSeq
  <2> QED
    BY <2>4
<1>5. \A i \in 1 .. Len(Died(c)) : Died(c)[i].c = c
  BY DEF Died
<1>6. ASSUME NEW s \in Seq(Events), NEW t \in Seq(Events),
             \A i \in 1 .. Len(s) : s[i].c = c, \A i \in 1 .. Len(t) : t[i].c = c
      PROVE  \A i \in 1 .. Len(s \o t) : (s \o t)[i].c = c
  <2> SUFFICES ASSUME NEW i \in 1 .. Len(s \o t) PROVE (s \o t)[i].c = c
    OBVIOUS
  <2>1. Len(s) \in Nat /\ Len(t) \in Nat /\ i \in 1 .. Len(s) + Len(t)
    BY ConcatProperties, LenProperties
  <2>2. (s \o t)[i] = IF i <= Len(s) THEN s[i] ELSE t[i - Len(s)]
    BY <2>1, ConcatProperties
  <2> QED
    BY <1>6, <2>1, <2>2
<1>7. \A i \in 1 .. Len(q) : q[i].c = c
  BY <1>1, <1>4, <1>5, <1>6
<1>8. docker'[c] = None /\ \A d \in Containers : d # c => docker'[d] = docker[d]
  BY ChangeShape
<1>9. \A d, n : d # c => ~Ending(q, d, n)
  BY <1>7, OthersGoOn
<1> QED
  BY <1>3, <1>8, <1>9 DEF Explains, At

\* Docker's actions keep the owner's copies, with what is in the queue.
LEMMA DockerOwnerStep ==
  ASSUME TypeOK, OwnerInv,
         \/ \E c \in Containers, info \in Info \ {NoNetwork} : Start(c, info)
         \/ \E c \in Containers, n \in Networks, ip \in Ips : Connect(c, n, ip)
         \/ \E c \in Containers, n \in Networks : Disconnect(c, n)
         \/ \E c \in Containers : Stop(c)
  PROVE  OwnerInv'
<1>0. \A c \in Containers : docker[c] \in Info \cup {None}
  BY DEF TypeOK, Shard
<1>1. ASSUME NEW c \in Containers, NEW info \in Info, Start(c, info) PROVE OwnerInv'
  <2> DEFINE q == SetToSeq({[type |-> "connect", c |-> c, n |-> n] : n \in NetworksOf(info)})
  <2>1. Change(c, info) /\ Emit(c, q) /\ docker[c] = None
    BY <1>1 DEF Start
  <2>2. q \in Seq(Events) /\ Explains(q)
    BY <2>1, StartEvents, StartExplains
  <2> HIDE DEF q
  <2> QED
    BY <2>1, <2>2, ExplainedChange
<1>2. ASSUME NEW c \in Containers, NEW n \in Networks, NEW ip \in Ips, Connect(c, n, ip)
      PROVE  OwnerInv'
  <2> DEFINE info == [docker[c] EXCEPT ![n] = ip]
             q == <<[type |-> "connect", c |-> c, n |-> n]>>
  <2>1. docker[c] # None /\ docker[c][n] = None /\ Change(c, info) /\ Emit(c, q)
    BY <1>2 DEF Connect
  <2>2. info \in Info
    BY <1>0, <2>1 DEF Info
  <2>3. q \in Seq(Events)
    BY DEF Events
  <2>4. Explains(q)
    BY <2>1, ConnectExplains
  <2> HIDE DEF info, q
  <2> QED
    BY <2>1, <2>2, <2>3, <2>4, ExplainedChange
<1>3. ASSUME NEW c \in Containers, NEW n \in Networks, Disconnect(c, n) PROVE OwnerInv'
  <2> DEFINE info == [docker[c] EXCEPT ![n] = None]
             q == <<Disconnected(c, n)>>
  <2>1. IsIn(docker[c], n) /\ Change(c, info) /\ Emit(c, q)
    BY <1>3 DEF Disconnect
  <2>2. info \in Info
    BY <1>0, <2>1 DEF IsIn, Info
  <2>3. q \in Seq(Events)
    BY DEF Events, Disconnected
  <2>4. Explains(q)
    BY <2>1, DisconnectExplains
  <2> HIDE DEF info, q
  <2> QED
    BY <2>1, <2>2, <2>3, <2>4, ExplainedChange
<1>4. ASSUME NEW c \in Containers, Stop(c) PROVE OwnerInv'
  <2>1. PICK q \in {Died(c) \o Left(c), Left(c) \o Died(c)} : Emit(c, q)
    BY <1>4 DEF Stop, Left, Died
  <2>2. Change(c, None)
    BY <1>4 DEF Stop
  <2>3. q \in Seq(Events) /\ Explains(q)
    BY <2>2, StopExplains
  <2> QED
    BY <2>1, <2>2, <2>3, ExplainedChange
<1> QED
  BY <1>1, <1>2, <1>3, <1>4

\* A table has a network of a container.
Has(t, c, n) == \E ip \in Ips : <<c, n, ip>> \in t

\* What the handlers make of a table: the container's networks come and go with what is
\* stored of it, and no other container is touched.
LEMMA HandledShape ==
  ASSUME NEW t \in SUBSET Entries, NEW c \in Containers,
         NEW previous \in Info \cup {None}, NEW current \in Info \cup {None}
  PROVE  LET new == Handled(t, c, previous, current) IN
         /\ (\A n \in Networks : Has(t, c, n) => At(previous, n) # None)
              => \A n \in Networks : Has(new, c, n) => At(current, n) # None
         /\ (\A n \in Networks : At(previous, n) # None => Has(t, c, n))
              => \A n \in Networks : At(current, n) # None => Has(new, c, n)
         /\ \A n \in Networks, ip \in Ips :
              <<c, n, ip>> \in new => <<c, n, ip>> \in t \/ ip = At(current, n)
         /\ \A d, n, ip : d # c => (<<d, n, ip>> \in new <=> <<d, n, ip>> \in t)
<1> DEFINE new == Handled(t, c, previous, current)
           added == EntriesOf(c, current)
<1>1. /\ \A n, ip : <<c, n, ip>> \in added
                      <=> n \in Networks /\ At(current, n) # None /\ ip = current[n]
      /\ \A d, n, ip : <<d, n, ip>> \in added => d = c
  BY DEF EntriesOf, NetworksOf, IsIn, At
<1>2. \A n \in Networks : At(current, n) # None =>
        /\ At(current, n) = current[n] /\ current[n] \in Ips /\ <<c, n, current[n]>> \in added
  BY <1>1 DEF At, Info
<1>3. (EntriesOf(c, previous) = {}) <=> \A n \in Networks : At(previous, n) = None
  BY DEF EntriesOf, NetworksOf, IsIn, At
<1>4. \A n : At(None, n) = None
  BY DEF At
<1>5. added \in SUBSET Entries
  BY EntriesType
<1> HIDE DEF added
<1>6. CASE previous = current
  BY <1>6 DEF Handled
<1>7. CASE previous # current /\ previous = None
  <2>1. new = t \cup added
    BY <1>7 DEF Handled, AddContainer, added
  <2> HIDE DEF new
  <2> QED
    BY <1>1, <1>2, <1>4, <1>7, <2>1 DEF Has, new
<1>8. CASE previous # current /\ previous # None /\ current = None
  <2>1. new = IF EntriesOf(c, previous) = {} THEN t ELSE {e \in t : e[1] # c}
    BY <1>8 DEF Handled, RemoveContainer
  <2>2. \A d, n, ip : <<d, n, ip>> \in {e \in t : e[1] # c} <=> <<d, n, ip>> \in t /\ d # c
    OBVIOUS
  <2> HIDE DEF new
  <2>0. \A n : At(current, n) = None
    BY <1>4, <1>8
  <2>3. CASE EntriesOf(c, previous) = {}
    <3>1. new = t /\ \A n \in Networks : At(previous, n) = None
      BY <1>3, <2>1, <2>3
    <3> QED
      BY <2>0, <3>1 DEF new
  <2>4. CASE EntriesOf(c, previous) # {}
    <3>1. new = {e \in t : e[1] # c}
      BY <2>1, <2>4
    <3>2. \A d, n, ip : <<d, n, ip>> \in new <=> <<d, n, ip>> \in t /\ d # c
      BY <2>2, <3>1
    <3> QED
      BY <2>0, <3>2 DEF Has, new
  <2> QED
    BY <2>3, <2>4
<1>9. CASE previous # current /\ previous # None /\ current # None
  <2> DEFINE fresh == {e \in added : \A f \in t : f[1] # c \/ f[2] # e[2]}
  <2>1. new = {e \in t : e[1] = c => IsIn(current, e[2])} \cup fresh
    BY <1>9 DEF Handled, UpdateContainer, added
  <2>2. \A n, ip : <<c, n, ip>> \in {e \in t : e[1] = c => IsIn(current, e[2])}
                     <=> <<c, n, ip>> \in t /\ At(current, n) # None
    BY <1>9 DEF IsIn, At
  <2>3. \A d, n, ip : d # c => (<<d, n, ip>> \in {e \in t : e[1] = c => IsIn(current, e[2])}
                     <=> <<d, n, ip>> \in t)
    OBVIOUS
  <2>4. \A d, n, ip : <<d, n, ip>> \in fresh =>
          d = c /\ n \in Networks /\ At(current, n) # None /\ ip = current[n]
    BY <1>1
  <2>5. ASSUME NEW n \in Networks, At(current, n) # None PROVE Has(new, c, n)
    <3>1. CASE \E f \in t : f[1] = c /\ f[2] = n
      <4>1. PICK f \in t : f[1] = c /\ f[2] = n
        BY <3>1
      <4>2. f = <<c, n, f[3]>> /\ f[3] \in Ips
        BY <4>1 DEF Entries
      <4>3. <<c, n, f[3]>> \in new
        BY <2>1, <2>2, <2>5, <4>1, <4>2
      <4> QED
        BY <4>2, <4>3 DEF Has
    <3>2. CASE ~\E f \in t : f[1] = c /\ f[2] = n
      <4>1. <<c, n, current[n]>> \in added /\ current[n] \in Ips
        BY <1>2, <2>5
      <4>2. <<c, n, current[n]>> \in fresh
        BY <3>2, <4>1
      <4>3. <<c, n, current[n]>> \in new
        BY <2>1, <4>2
      <4> QED
        BY <4>1, <4>3 DEF Has
    <3> QED
      BY <3>1, <3>2
  <2>6. ASSUME NEW d, NEW n, NEW ip, <<d, n, ip>> \in new
        PROVE  \/ <<d, n, ip>> \in t /\ (d = c => At(current, n) # None)
               \/ d = c /\ n \in Networks /\ At(current, n) # None /\ ip = current[n]
    BY <2>1, <2>2, <2>3, <2>4, <2>6
  <2>7. \A d, n, ip : d # c /\ <<d, n, ip>> \in t => <<d, n, ip>> \in new
    BY <2>1, <2>3
  <2> HIDE DEF new
  <2>8. \A n \in Networks : Has(new, c, n) => At(current, n) # None
    BY <2>6 DEF Has
  <2>9. \A n \in Networks, ip \in Ips :
          <<c, n, ip>> \in new => <<c, n, ip>> \in t \/ ip = At(current, n)
    BY <1>2, <2>6
  <2>10. \A d, n, ip : d # c => (<<d, n, ip>> \in new <=> <<d, n, ip>> \in t)
    BY <2>6, <2>7
  <2> QED
    BY <2>5, <2>8, <2>9, <2>10 DEF new
<1> QED
  BY <1>6, <1>7, <1>8, <1>9

\* An item that is set without a failure is the same in the memory, in etcd and for the
\* handlers; the other containers are left alone, in any case.
LEMMA SetItemShape ==
  ASSUME TypeOK, NEW c \in Containers, NEW info \in Info \cup {None}, SetItem(c, info)
  PROVE  /\ memory'[c] = info
         /\ missed[Owner] \subseteq missed'[Owner]
         /\ c \notin missed'[Owner] =>
              /\ etcd'[c] = info
              /\ table'[Owner] = Handled(table[Owner], c, memory[c], info)
         /\ \A d \in Containers : d # c =>
              /\ memory'[d] = memory[d] /\ etcd'[d] = etcd[d]
              /\ \A n, ip : <<d, n, ip>> \in table'[Owner] <=> <<d, n, ip>> \in table[Owner]
<1> DEFINE shard == [etcd EXCEPT ![c] = info]
           new == Handled(table[Owner], c, memory[c], info)
<1>1. memory \in Shard /\ etcd \in Shard /\ table \in [Nodes -> SUBSET Entries] /\ Owner \in Nodes
  BY DEF TypeOK, Nodes
<1>2. memory' = [memory EXCEPT ![c] = info]
  BY DEF SetItem
<1>3. shard \in Shard /\ shard[c] = info /\ \A d \in Containers : d # c => shard[d] = etcd[d]
  BY <1>1 DEF Shard
<1>4. table[Owner] \in SUBSET Entries /\ memory[c] \in Info \cup {None}
  BY <1>1 DEF Shard
<1>5. \A d, n, ip : d # c => (<<d, n, ip>> \in new <=> <<d, n, ip>> \in table[Owner])
  BY <1>4, HandledShape
<1>6. \/ WriteEtcd(shard) /\ table' = [table EXCEPT ![Owner] = new] /\ missed' = MissedBy(shard, {})
      \/ table' = table /\ WriteEtcd(shard) /\ missed' = MissedBy(shard, {c})
      \/ table' = table /\ etcd' = etcd /\ missed' = MissedBy(etcd, {c})
  BY DEF SetItem
<1> HIDE DEF shard, new
<1>7. WriteEtcd(shard) => etcd' = shard
  BY DEF WriteEtcd
<1>8. \A s, m : m \in SUBSET Containers => MissedBy(s, m)[Owner] = missed[Owner] \cup m
  BY MissedByType
<1>9. /\ missed[Owner] \subseteq missed'[Owner]
      /\ c \notin missed'[Owner] => WriteEtcd(shard) /\ table' = [table EXCEPT ![Owner] = new]
  BY <1>6, <1>8
<1>10. table'[Owner] = new \/ table'[Owner] = table[Owner]
  BY <1>1, <1>6
<1>11. etcd' = shard \/ etcd' = etcd
  BY <1>6, <1>7
<1>12. memory'[c] = info /\ \A d \in Containers : d # c => memory'[d] = memory[d]
  BY <1>1, <1>2 DEF Shard
<1>13. c \notin missed'[Owner] => etcd'[c] = info /\ table'[Owner] = new
  BY <1>1, <1>3, <1>7, <1>9
<1>14. \A d \in Containers : d # c => etcd'[d] = etcd[d]
  BY <1>3, <1>11
<1>15. \A d, n, ip : d # c => (<<d, n, ip>> \in table'[Owner] <=> <<d, n, ip>> \in table[Owner])
  BY <1>5, <1>10
<1> QED
  BY <1>9, <1>12, <1>13, <1>14, <1>15 DEF new

\* When all handlers have run the table has the networks of the memory, and no address
\* that it had not and that was not set.
LEMMA SetItemTable ==
  ASSUME TypeOK, NEW c \in Containers, NEW info \in Info \cup {None}, SetItem(c, info),
         c \notin missed'[Owner],
         \A n \in Networks : At(memory[c], n) # None <=> Has(table[Owner], c, n)
  PROVE  \A n \in Networks :
           /\ At(memory'[c], n) # None <=> Has(table'[Owner], c, n)
           /\ \A ip \in Ips : <<c, n, ip>> \in table'[Owner] =>
                <<c, n, ip>> \in table[Owner] \/ ip = At(info, n)
<1>1. memory'[c] = info /\ table'[Owner] = Handled(table[Owner], c, memory[c], info)
  BY SetItemShape
<1>2. table[Owner] \in SUBSET Entries /\ memory[c] \in Info \cup {None}
  BY DEF TypeOK, Nodes, Shard
<1> QED
  BY <1>1, <1>2, HandledShape

\* The owner's copies while events are handled: what is to be shown of the container
\* that an item is set for, and of the others.
LEMMA SetOwnerStep ==
  ASSUME TypeOK, OwnerInv, phase[Owner] = "up",
         NEW c \in Containers, NEW info \in Info \cup {None}, SetItem(c, info),
         inspected' = None, UNCHANGED <<docker, phase>>,
         \A d \in Containers \ missed[Owner], n \in Networks :
           d # c /\ Queued(d, n) => Queued(d, n)',
         \A n \in Networks : c \notin missed[Owner] => Queued(c, n)',
         \A d \in Containers \ missed[Owner], n \in Networks :
           Ending(events, d, n) /\ ~Ending(events', d, n) =>
             d = c /\ At(info, n) = None,
         \A n \in Networks : c \notin missed[Owner] /\ At(info, n) \notin {None, At(docker[c], n)}
           => Ending(events', c, n)
  PROVE  OwnerInv'
<1>1. OwnerPhases'
  BY DEF OwnerPhases
<1>2. ASSUME NEW d \in Containers \ missed'[Owner]
      PROVE  etcd'[d] = memory'[d] /\ \A n \in Networks : Queued(d, n)' /\ Tabled(d, n)'
  <2>1. d \in Containers \ missed[Owner]
    BY <1>2, SetItemShape
  <2>2. etcd[d] = memory[d] /\ \A n \in Networks : Queued(d, n) /\ Tabled(d, n)
    BY <2>1 DEF OwnerInv, OwnerCopies
  <2>3. CASE d # c
    <3>1. /\ memory'[d] = memory[d] /\ etcd'[d] = etcd[d]
          /\ \A n, ip : <<d, n, ip>> \in table'[Owner] <=> <<d, n, ip>> \in table[Owner]
      BY <2>3, SetItemShape
    <3>2. \A n \in Networks : Queued(d, n)'
      BY <2>1, <2>2, <2>3
    <3>3. \A n \in Networks : Tabled(d, n)'
      <4> SUFFICES ASSUME NEW n \in Networks PROVE Tabled(d, n)'
        OBVIOUS
      <4>1. Tabled(d, n) /\ (Ending(events, d, n) => Ending(events', d, n))
        BY <2>1, <2>2, <2>3
      <4>2. Ending(events, d, n)' <=> Ending(events', d, n)
        BY DEF Ending
      <4> QED
        BY <3>1, <4>1, <4>2 DEF Tabled, At
    <3> QED
      BY <2>2, <3>1, <3>2, <3>3
  <2>4. CASE d = c
    <3>1. \A n \in Networks : At(memory[c], n) # None <=> Has(table[Owner], c, n)
      BY <2>2, <2>4 DEF Tabled, Has
    <3>2. /\ memory'[c] = info /\ etcd'[c] = info
          /\ \A n \in Networks :
               /\ At(memory'[c], n) # None <=> Has(table'[Owner], c, n)
               /\ \A ip \in Ips : <<c, n, ip>> \in table'[Owner] =>
                    <<c, n, ip>> \in table[Owner] \/ ip = At(info, n)
      BY <1>2, <2>4, <3>1, SetItemShape, SetItemTable
    <3>3. ASSUME NEW n \in Networks PROVE Tabled(c, n)'
      <4>1. At(memory'[c], n) # None <=> \E ip \in Ips : <<c, n, ip>> \in table'[Owner]
        BY <3>2 DEF Has
      <4>2. ASSUME NEW ip \in Ips, <<c, n, ip>> \in table'[Owner], ip # At(docker[c], n)
            PROVE  Ending(events', c, n)
        <5>1. At(info, n) # None
          BY <3>2, <4>1, <4>2
        <5>2. CASE ip = At(info, n)
          BY <2>1, <2>4, <4>2, <5>1, <5>2
        <5>3. CASE <<c, n, ip>> \in table[Owner]
          <6>1. Ending(events, c, n)
            BY <2>2, <2>4, <4>2, <5>3 DEF Tabled
          <6> QED
            BY <2>1, <2>4, <5>1, <6>1
        <5> QED
          BY <3>2, <4>2, <5>2, <5>3
      <4> QED
        BY <4>1, <4>2 DEF Tabled, At, Ending
    <3> QED
      BY <2>1, <2>4, <3>2, <3>3
  <2> QED
    BY <2>3, <2>4
<1> QED
  BY <1>1, <1>2 DEF OwnerInv, OwnerCopies

\* While nothing is inspected the memory is what counts.
LEMMA NothingInspected ==
  /\ inspected = None => \A c : Current(c) = memory[c]
  /\ inspected' = None => \A c : Current(c)' = memory'[c]
BY DEF Current

\* The events that are left explain a container still, when the first one is handled and
\* what is stored of it either is what it was or is gone by this event.
LEMMA QueueStep ==
  ASSUME TypeOK, events # <<>>, events' = Tail(events), UNCHANGED docker,
         inspected = None, inspected' = None,
         NEW c \in Containers, NEW n \in Networks, Queued(c, n),
         ~Begins(Head(events), c, n),
         IF Ends(Head(events), c, n) THEN At(memory'[c], n) = None
         ELSE At(memory'[c], n) = At(memory[c], n)
  PROVE  Queued(c, n)'
<1>1. events \in Seq(Events)
  BY DEF TypeOK
<1>2. /\ Ending(events, c, n) /\ ~Ends(Head(events), c, n) => Ending(events', c, n)
      /\ Beginning(events, c, n) => Beginning(events', c, n)
      /\ Followed(events, c, n) => Followed(events', c, n)
      /\ Followed(events, c, n) /\ Ends(Head(events), c, n) => Beginning(events', c, n)
  BY <1>1, TailQueue
<1>3. Current(c) = memory[c] /\ Current(c)' = memory'[c]
  BY NothingInspected
<1>4. At(docker[c], n) # None => Followed(events', c, n)
  BY <1>2 DEF Queued
<1>5. At(memory'[c], n) \notin {None, At(docker[c], n)} => Ending(events', c, n)
  BY <1>2, <1>3 DEF Queued
<1>6. At(memory'[c], n) = None /\ At(docker[c], n) # None => Beginning(events', c, n)
  BY <1>2, <1>3 DEF Queued
<1> QED
  BY <1>3, <1>4, <1>5, <1>6 DEF Queued, At, Followed, Ending, Beginning

\* Docker's answer is stored.
LEMMA StoreOwnerStep ==
  ASSUME TypeOK, OwnerInv, Store
  PROVE  OwnerInv'
<1> DEFINE c == inspected.c
           info == inspected.info
<1>1. /\ inspected # None /\ SetItem(c, info) /\ inspected' = None
      /\ docker' = docker /\ events' = events /\ phase' = phase
  BY DEF Store, dockerVars
<1>2. c \in Containers /\ info \in Info \cup {None}
  BY <1>1 DEF TypeOK, Inspections
<1>3. phase[Owner] = "up"
  BY <1>1 DEF OwnerInv, OwnerPhases
<1>4. Current(c) = info /\ \A d : d # c => Current(d) = memory[d]
  BY <1>1 DEF Current
<1>5. \A d : Current(d)' = memory'[d]
  BY <1>1, NothingInspected
<1> HIDE DEF c, info
<1>6. memory'[c] = info /\ \A d \in Containers : d # c => memory'[d] = memory[d]
  BY <1>1, <1>2, SetItemShape
<1>7. \A d \in Containers : Current(d)' = Current(d)
  BY <1>4, <1>5, <1>6
<1>8. ASSUME NEW d \in Containers, NEW n \in Networks, Queued(d, n) PROVE Queued(d, n)'
  BY <1>1, <1>7, <1>8 DEF Queued, At, Ending, Beginning, Followed
<1>9. \A n \in Networks : c \notin missed[Owner] => Queued(c, n)
  BY <1>2, <1>3 DEF OwnerInv, OwnerCopies
<1>10. \A n \in Networks : c \notin missed[Owner] /\ At(info, n) \notin {None, At(docker[c], n)}
         => Ending(events', c, n)
  BY <1>1, <1>4, <1>9 DEF Queued
<1>11. \A d, n : Ending(events, d, n) => Ending(events', d, n)
  BY <1>1
<1> QED
  BY <1>1, <1>2, <1>3, <1>8, <1>9, <1>10, <1>11, SetOwnerStep

\* An event that tells of an end sets an item, where there is one.
LEMMA EndOwnerStep ==
  ASSUME TypeOK, OwnerInv, HandleDisconnected \/ HandleDied
  PROVE  OwnerInv'
<1> DEFINE e == Head(events)
           c == e.c
<1>1. /\ inspected = None /\ inspected' = None /\ events # <<>> /\ events' = Tail(events)
      /\ e.type \in {"disconnect", "die"}
      /\ docker' = docker /\ phase' = phase
  BY DEF HandleDisconnected, HandleDied, NextEvent, dockerVars
<1>2. events \in Seq(Events) /\ c \in Containers
  BY <1>1, HeadEvent DEF TypeOK
<1>3. phase[Owner] = "up"
  BY <1>1 DEF OwnerInv, OwnerPhases
<1>4. \A d, n : ~Begins(e, d, n)
  BY <1>1 DEF Begins
<1>5. \A d, n : d # c => ~Ends(e, d, n)
  BY DEF Ends
<1>6. \A d, n : Ending(events, d, n) /\ ~Ends(e, d, n) => Ending(events', d, n)
  BY <1>1, <1>2, TailQueue
<1>7. \A d \in Containers \ missed[Owner], n \in Networks : Queued(d, n) /\ Tabled(d, n)
  BY <1>3 DEF OwnerInv, OwnerCopies
<1>8. ASSUME NEW info \in Info \cup {None}, SetItem(c, info),
             \A n \in Networks : At(info, n) = IF Ends(e, c, n) THEN None ELSE At(memory[c], n)
      PROVE  OwnerInv'
  <2>1. memory'[c] = info /\ \A d \in Containers : d # c => memory'[d] = memory[d]
    BY <1>2, <1>8, SetItemShape
  <2> HIDE DEF c, e
  <2>2. ASSUME NEW d \in Containers, NEW n \in Networks, Queued(d, n) PROVE Queued(d, n)'
    <3>1. IF Ends(e, d, n) THEN At(memory'[d], n) = None
          ELSE At(memory'[d], n) = At(memory[d], n)
      BY <1>5, <1>8, <2>1
    <3> QED
      BY <1>1, <1>4, <2>2, <3>1, QueueStep DEF e
  <2>3. \A n \in Networks : c \notin missed[Owner] => Queued(c, n)
    BY <1>2, <1>7
  <2>4. ASSUME NEW n \in Networks, c \notin missed[Owner], At(info, n) \notin {None, At(docker[c], n)}
        PROVE  Ending(events', c, n)
    <3>1. ~Ends(e, c, n) /\ At(info, n) = At(memory[c], n)
      BY <1>8, <2>4
    <3>2. Ending(events, c, n)
      BY <1>1, <2>3, <2>4, <3>1, NothingInspected DEF Queued
    <3> QED
      BY <1>6, <3>1, <3>2
  <2>5. \A d \in Containers \ missed[Owner], n \in Networks :
          Ending(events, d, n) /\ ~Ending(events', d, n) => d = c /\ At(info, n) = None
    BY <1>5, <1>6, <1>8
  <2> QED
    BY <1>1, <1>2, <1>3, <1>8, <2>2, <2>3, <2>4, <2>5, SetOwnerStep
<1>9. CASE HandleDied
  <2>1. SetItem(c, None) /\ e.type = "die"
    BY <1>9 DEF HandleDied, NextEvent
  <2>2. \A n \in Networks : At(None, n) = IF Ends(e, c, n) THEN None ELSE At(memory[c], n)
    BY <2>1 DEF At, Ends
  <2> QED
    BY <1>8, <2>1, <2>2
<1>10. CASE HandleDisconnected /\ memory[c] # None
  <2> DEFINE info == Without(memory[c], e.n)
  <2>1. SetItem(c, info) /\ e.type = "disconnect"
    BY <1>10 DEF HandleDisconnected, NextEvent
  <2>2. memory[c] \in Info
    BY <1>2, <1>10 DEF TypeOK, Shard
  <2>3. info \in Info
    BY <2>2, WithoutType
  <2>4. ASSUME NEW n \in Networks
        PROVE  At(info, n) = IF Ends(e, c, n) THEN None ELSE At(memory[c], n)
    <3>1. info # None /\ info[n] = IF n = e.n THEN None ELSE memory[c][n]
      BY <2>2, <2>3, ContainerDataAssumption DEF Without, Info
    <3>2. Ends(e, c, n) <=> n = e.n
      BY <2>1 DEF Ends
    <3> QED
      BY <1>10, <3>1, <3>2 DEF At
  <2> HIDE DEF info
  <2> QED
    BY <1>8, <2>1, <2>3, <2>4
<1>11. CASE HandleDisconnected /\ memory[c] = None
  <2>1. UNCHANGED <<memory, etcd, table, missed>>
    BY <1>11 DEF HandleDisconnected
  <2>2. OwnerPhases'
    BY <1>1, <1>3 DEF OwnerPhases
  <2>3. ASSUME NEW d \in Containers \ missed[Owner], NEW n \in Networks
        PROVE  Queued(d, n)' /\ Tabled(d, n)'
    <3>1. Queued(d, n) /\ Tabled(d, n)
      BY <1>7
    <3>2. Ends(e, d, n) => At(memory[d], n) = None
      BY <1>5, <1>11 DEF At
    <3>3. Queued(d, n)'
      BY <1>1, <1>4, <2>1, <3>1, <3>2, QueueStep
    <3>4. ASSUME NEW ip \in Ips, <<d, n, ip>> \in table[Owner], ip # At(docker[d], n)
          PROVE  Ending(events', d, n)
      <4>1. At(memory[d], n) # None /\ Ending(events, d, n)
        BY <3>1, <3>4 DEF Tabled
      <4> QED
        BY <1>6, <3>2, <4>1
    <3>5. Tabled(d, n)'
      BY <1>1, <2>1, <3>1, <3>4 DEF Tabled, At, Ending
    <3> QED
      BY <3>3, <3>5
  <2> QED
    BY <1>1, <1>3, <2>1, <2>2, <2>3 DEF OwnerInv, OwnerCopies
<1> QED
  BY <1>9, <1>10, <1>11

\* An event of a connection: Docker is asked, or does not answer.
LEMMA BeginOwnerStep ==
  ASSUME TypeOK, OwnerInv, Inspect \/ InspectError
  PROVE  OwnerInv'
<1> DEFINE e == Head(events)
<1>1. /\ inspected = None /\ events # <<>> /\ events' = Tail(events) /\ e.type = "connect"
      /\ UNCHANGED <<docker, memory, etcd, table, phase>>
  BY DEF Inspect, InspectError, NextEvent, dockerVars
<1>0. PICK c \in Containers : c = e.c
  BY <1>1, HeadEvent
<1>2. events \in Seq(Events) /\ docker[c] \in Info \cup {None}
  BY <1>1, <1>0 DEF TypeOK, Shard
<1>3. phase[Owner] = "up"
  BY <1>1 DEF OwnerInv, OwnerPhases
<1>4. \A d \in Containers \ missed[Owner], n \in Networks : Queued(d, n) /\ Tabled(d, n)
  BY <1>3 DEF OwnerInv, OwnerCopies
<1>5. \A d, n : ~Ends(e, d, n) /\ (d # c => ~Begins(e, d, n))
  BY <1>1, <1>0 DEF Ends, Begins
<1> HIDE DEF e
<1>6. \A d, n : /\ Ending(events, d, n) => Ending(events', d, n)
                /\ Followed(events, d, n) => Followed(events', d, n)
                /\ Beginning(events, d, n) /\ d # c => Beginning(events', d, n)
  BY <1>1, <1>2, <1>5, TailQueue DEF e
<1>7. OwnerPhases'
  BY <1>1, <1>3 DEF OwnerPhases
<1>8. ASSUME NEW d \in Containers \ missed[Owner], NEW n \in Networks PROVE Tabled(d, n)'
  BY <1>1, <1>4, <1>6 DEF Tabled, At, Ending
<1>9. \A d : Current(d) = memory[d]
  BY <1>1, NothingInspected
<1>10. ASSUME NEW d \in Containers \ missed[Owner], NEW n \in Networks,
              \/ d # c /\ Current(d)' = memory[d]
              \/ d = c /\ At(Current(d)', n) = At(docker[d], n)
       PROVE  Queued(d, n)'
  <2>1. Queued(d, n)
    BY <1>4
  <2>2. At(docker[d], n) # None => Followed(events', d, n)
    BY <1>6, <2>1 DEF Queued
  <2>3. CASE d # c /\ Current(d)' = memory[d]
    <3>1. At(memory[d], n) \notin {None, At(docker[d], n)} => Ending(events', d, n)
      BY <1>6, <1>9, <2>1 DEF Queued
    <3>2. At(memory[d], n) = None /\ At(docker[d], n) # None => Beginning(events', d, n)
      BY <1>6, <1>9, <2>1, <2>3 DEF Queued
    <3> QED
      BY <1>1, <2>2, <2>3, <3>1, <3>2 DEF Queued, At, Followed, Ending, Beginning
  <2>4. CASE d = c /\ At(Current(d)', n) = At(docker[d], n)
    BY <1>1, <2>2, <2>4 DEF Queued, At, Followed, Ending, Beginning
  <2> QED
    BY <1>10, <2>3, <2>4
<1>11. CASE Inspect
  <2>1. /\ missed' = missed
        /\ inspected' = IF docker[c] = None \/ docker[c] = NoNetwork THEN None
                        ELSE [c |-> c, info |-> docker[c]]
    BY <1>0, <1>11 DEF Inspect, e
  <2>2. ASSUME NEW d \in Containers, d # c PROVE Current(d)' = memory[d]
    BY <1>1, <2>1, <2>2 DEF Current
  <2>3. ASSUME c \notin missed[Owner], NEW n \in Networks, inspected' = None PROVE Queued(c, n)'
    <3>1. At(docker[c], n) = None
      <4>1. docker[c] \in Info => [c |-> c, info |-> docker[c]] # None
        BY ContainerDataAssumption DEF Inspections
      <4> QED
        BY <1>2, <2>1, <2>3, <4>1 DEF At, NoNetwork
    <3>2. Queued(c, n)
      BY <1>4, <2>3
    <3>3. Current(c)' = memory[c]
      BY <1>1, <2>3, NothingInspected
    <3>4. At(memory[c], n) \notin {None, At(docker[c], n)} => Ending(events', c, n)
      BY <1>6, <1>9, <3>2 DEF Queued
    <3> QED
      BY <1>1, <3>1, <3>3, <3>4 DEF Queued, At, Followed, Ending, Beginning
  <2>4. ASSUME inspected' # None PROVE Current(c)' = docker[c]
    BY <2>1, <2>4 DEF Current
  <2>5. ASSUME NEW d \in Containers \ missed[Owner], NEW n \in Networks PROVE Queued(d, n)'
    <3>1. CASE d # c
      BY <1>10, <2>2, <3>1
    <3>2. CASE d = c /\ inspected' = None
      BY <2>3, <3>2
    <3>3. CASE d = c /\ inspected' # None
      BY <1>10, <2>4, <3>3
    <3> QED
      BY <3>1, <3>2, <3>3
  <2> QED
    BY <1>1, <1>3, <1>7, <1>8, <2>1, <2>5 DEF OwnerInv, OwnerCopies
<1>12. CASE InspectError
  <2>1. inspected' = None /\ missed'[Owner] = missed[Owner] \cup {c}
    BY <1>0, <1>12 DEF InspectError, NextEvent, TypeOK, Nodes, e
  <2>2. \A d : Current(d)' = memory[d]
    BY <1>1, <2>1, NothingInspected
  <2>3. ASSUME NEW d \in Containers \ missed'[Owner], NEW n \in Networks PROVE Queued(d, n)'
    BY <1>10, <2>1, <2>2
  <2> QED
    BY <1>1, <1>3, <1>7, <1>8, <2>1, <2>3 DEF OwnerInv, OwnerCopies
<1> QED
  BY <1>11, <1>12

\* Events that are lost are events of containers the owner has missed something of.
LEMMA LostOwnerStep ==
  ASSUME TypeOK, OwnerInv, EventsLost
  PROVE  OwnerInv'
<1>1. /\ events # <<>> /\ events' = <<>>
      /\ UNCHANGED <<docker, inspected, memory, etcd, table, phase>>
  BY DEF EventsLost, dockerVars
<1>2. missed'[Owner] = missed[Owner] \cup {events[i].c : i \in 1 .. Len(events)}
  BY DEF EventsLost, TypeOK, Nodes
<1>3. phase[Owner] = "up"
  BY <1>1 DEF OwnerInv, OwnerPhases
<1>4. ASSUME NEW d \in Containers \ missed'[Owner], NEW n \in Networks
      PROVE  Queued(d, n)' /\ Tabled(d, n)'
  <2>1. Queued(d, n) /\ Tabled(d, n)
    BY <1>2, <1>3 DEF OwnerInv, OwnerCopies
  <2>2. \A i \in 1 .. Len(events) : events[i].c # d
    BY <1>2
  <2>3. ~Ending(events, d, n) /\ ~Beginning(events, d, n)
    BY <2>2 DEF Ending, Beginning, Ends, Begins
  <2>4. Followed(events', d, n)
    BY <1>1, EmptyQueue
  <2>5. Current(d)' = Current(d)
    BY <1>1 DEF Current
  <2>6. Queued(d, n)'
    BY <1>1, <2>1, <2>3, <2>4, <2>5 DEF Queued, At, Followed, Ending, Beginning
  <2>7. Tabled(d, n)'
    BY <1>1, <2>1, <2>3 DEF Tabled, At
  <2> QED
    BY <2>6, <2>7
<1>5. OwnerPhases'
  BY <1>1, <1>3 DEF OwnerPhases
<1> QED
  BY <1>1, <1>2, <1>3, <1>4, <1>5 DEF OwnerInv, OwnerCopies

\* The owner's start, and its end.
LEMMA StartOwnerStep ==
  ASSUME TypeOK, OwnerInv, List \/ Sync \/ SyncError \/ Announce \/ OwnerCrash
  PROVE  OwnerInv'
<1> USE DEF dockerVars, ownerVars, readerVars
<1>0. Owner \in Nodes /\ phase \in [Nodes -> Phases] /\ missed \in [Nodes -> SUBSET Containers]
  BY DEF TypeOK, Nodes
<1>1. CASE List
  <2>1. phase[Owner] = "down" /\ phase'[Owner] = "loaded"
    BY <1>0, <1>1 DEF List
  <2>2. events' = <<>> /\ inspected' = None
    BY <1>1, <2>1 DEF List, OwnerInv, OwnerPhases
  <2>3. ASSUME NEW c \in Containers \ missed'[Owner], NEW n \in Networks
        PROVE  At(listed'[c], n) = At(docker'[c], n)
    <3>1. docker' = docker
      BY <1>1 DEF List
    <3>2. \/ listed'[c] = IF docker[c] = NoNetwork THEN None ELSE docker[c]
          \/ listed'[c] = None /\ docker[c] = None
      BY <1>0, <1>1, <2>3 DEF List, EmptyShard
    <3> QED
      BY <3>1, <3>2 DEF At, NoNetwork
  <2> QED
    BY <2>1, <2>2, <2>3 DEF OwnerInv, OwnerPhases, OwnerCopies, At
<1>2. CASE Sync
  <2>1. phase[Owner] = "loaded" /\ phase'[Owner] = "announcing" /\ memory' = listed
        /\ docker' = docker
    BY <1>0, <1>2 DEF Sync
  <2>2. events' = <<>> /\ inspected' = None
    BY <1>2, <2>1 DEF Sync, OwnerInv, OwnerPhases
  <2>3. missed'[Owner] = missed[Owner] \cup
          IF etcd = EmptyShard THEN {c \in Containers : listed[c] # None} ELSE {}
    BY <1>2, MissedByType DEF Sync
  <2>4. etcd' = IF etcd = EmptyShard THEN EmptyShard ELSE listed
    BY <1>2 DEF Sync, WriteEtcd, Synced
  <2>5. ASSUME NEW c \in Containers \ missed'[Owner]
        PROVE  etcd'[c] = memory'[c] /\ \A n \in Networks : At(memory'[c], n) = At(docker'[c], n)
    <3>1. \A n \in Networks : At(listed[c], n) = At(docker[c], n)
      BY <2>1, <2>3 DEF OwnerInv, OwnerCopies
    <3> QED
      BY <2>1, <2>3, <2>4, <3>1 DEF EmptyShard
  <2> QED
    BY <2>1, <2>2, <2>5 DEF OwnerInv, OwnerPhases, OwnerCopies, At
<1>3. CASE SyncError \/ OwnerCrash
  <2>1. OwnerDown
    BY <1>3 DEF SyncError, OwnerCrash
  <2>2. phase'[Owner] = "down" /\ events' = <<>> /\ inspected' = None
    BY <1>0, <2>1 DEF OwnerDown, Down
  <2> QED
    BY <2>2 DEF OwnerInv, OwnerPhases, OwnerCopies
<1>4. CASE Announce
  <2>1. /\ phase[Owner] = "announcing" /\ phase'[Owner] = "up"
        /\ UNCHANGED <<docker, events, inspected, memory, etcd, missed>>
    BY <1>0, <1>4 DEF Announce
  <2>2. events = <<>> /\ inspected = None
    BY <2>1 DEF OwnerInv, OwnerPhases
  <2>3. table'[Owner] = UNION {EntriesOf(c, memory[c]) : c \in Containers}
    BY <1>0, <1>4 DEF Announce, TypeOK
  <2>4. ASSUME NEW c \in Containers \ missed[Owner], NEW n \in Networks
        PROVE  Queued(c, n)' /\ Tabled(c, n)'
    <3>1. At(memory[c], n) = At(docker[c], n)
      BY <2>1 DEF OwnerInv, OwnerCopies
    <3>2. \A ip : <<c, n, ip>> \in table'[Owner]
                    <=> At(memory[c], n) # None /\ ip = At(memory[c], n)
      <4>1. \A d, ip : <<c, n, ip>> \in EntriesOf(d, memory[d])
                         <=> d = c /\ At(memory[c], n) # None /\ ip = At(memory[c], n)
        BY DEF EntriesOf, NetworksOf, IsIn, At
      <4> QED
        BY <2>3, <4>1
    <3>3. At(memory[c], n) # None => At(memory[c], n) \in Ips
      BY DEF TypeOK, Shard, Info, At
    <3>4. Current(c)' = memory[c] /\ Followed(events', c, n)
      BY <2>1, <2>2, NothingInspected, EmptyQueue
    <3>5. Queued(c, n)'
      BY <2>1, <3>1, <3>4 DEF Queued, At, Followed, Ending, Beginning
    <3>6. Tabled(c, n)'
      BY <2>1, <3>1, <3>2, <3>3 DEF Tabled, At
    <3> QED
      BY <3>5, <3>6
  <2> QED
    BY <2>1, <2>2, <2>4 DEF OwnerInv, OwnerPhases, OwnerCopies, At
<1> QED
  BY <1>1, <1>2, <1>3, <1>4

\* What has no part in the owner's copies.
LEMMA OwnerAside ==
  ASSUME OwnerInv,
         UNCHANGED <<docker, events, inspected, listed, memory, etcd>>,
         UNCHANGED <<table[Owner], phase[Owner], missed[Owner]>>
  PROVE  OwnerInv'
<1>1. OwnerPhases'
  BY DEF OwnerInv, OwnerPhases
<1>2. ASSUME NEW c, NEW n
      PROVE  (Queued(c, n) => Queued(c, n)') /\ (Tabled(c, n) => Tabled(c, n)')
  <2>1. Current(c)' = Current(c)
    BY DEF Current
  <2>2. Queued(c, n) => Queued(c, n)'
    BY <2>1 DEF Queued, At, Followed, Ending, Beginning
  <2>3. Tabled(c, n) => Tabled(c, n)'
    BY DEF Tabled, At, Ending
  <2> QED
    BY <2>2, <2>3
<1>3. OwnerCopies'
  BY <1>2 DEF OwnerInv, OwnerCopies, At
<1> QED
  BY <1>1, <1>3 DEF OwnerInv

\* Readers have none.
LEMMA ReaderOwnerStep ==
  ASSUME TypeOK, OwnerInv, NEW r \in Readers, ReaderGoesOn(r) \/ ReaderCrash(r)
  PROVE  OwnerInv'
<1>1. r # Owner /\ Owner \in Nodes
  BY ContainerDataAssumption DEF Nodes
<1>2. UNCHANGED <<docker, events, inspected, listed, memory, etcd>>
  BY DEF ReaderGoesOn, Load, Watch, TakeSnapshot, AnnounceSnapshot, HandleWatchEvent,
         ReaderCrash, dockerVars, ownerVars
<1>3. UNCHANGED table[Owner]
  BY <1>1 DEF ReaderGoesOn, Load, Watch, TakeSnapshot, AnnounceSnapshot, HandleWatchEvent,
         ReaderCrash, Down, TypeOK
<1>4. UNCHANGED phase[Owner]
  BY <1>1 DEF ReaderGoesOn, Load, Watch, TakeSnapshot, AnnounceSnapshot, HandleWatchEvent,
         ReaderCrash, Down, TypeOK
<1>5. UNCHANGED missed[Owner]
  BY <1>1 DEF ReaderGoesOn, Load, Watch, TakeSnapshot, AnnounceSnapshot, HandleWatchEvent,
         ReaderCrash, Down, TypeOK
<1> QED
  BY <1>2, <1>3, <1>4, <1>5, OwnerAside

\* Every step keeps the owner's copies.
LEMMA OwnerStep == TypeOK /\ OwnerInv /\ [Next]_vars => OwnerInv'
<1> SUFFICES ASSUME TypeOK, OwnerInv, [Next]_vars PROVE OwnerInv'
  OBVIOUS
<1>1. CASE UNCHANGED vars
  BY <1>1, OwnerAside DEF vars, dockerVars, ownerVars, readerVars
<1> QED
  BY <1>1, DockerOwnerStep, StoreOwnerStep, EndOwnerStep, BeginOwnerStep, LostOwnerStep,
     StartOwnerStep, ReaderOwnerStep
  DEF Next, OwnerGoesOn

LEMMA OwnerInvariant == Spec => [](TypeOK /\ OwnerInv)
<1>1. Init => OwnerInv
  BY DEF Init, OwnerInv, OwnerPhases, OwnerCopies, Nodes
<1> QED
  BY <1>1, OwnerStep, TypeCorrect, PTL DEF Spec

\* With nothing left to handle the memory and the table have what Docker has.
LEMMA NothingQueued ==
  ASSUME OwnerInv, OwnerQuiet, NEW c \in Containers \ missed[Owner], NEW n \in Networks
  PROVE  /\ At(memory[c], n) = At(docker[c], n)
         /\ At(memory[c], n) # None <=> \E ip \in Ips : <<c, n, ip>> \in table[Owner]
         /\ \A ip \in Ips : <<c, n, ip>> \in table[Owner] => ip = At(docker[c], n)
<1>1. phase[Owner] = "up" /\ events = <<>> /\ inspected = None
  BY DEF OwnerQuiet
<1>2. Queued(c, n) /\ Tabled(c, n)
  BY <1>1 DEF OwnerInv, OwnerCopies
<1>3. ~Ending(events, c, n) /\ ~Beginning(events, c, n) /\ Current(c) = memory[c]
  BY <1>1, EmptyQueue, NothingInspected
<1> QED
  BY <1>2, <1>3 DEF Queued, Tabled

\* A container's networks say what is stored of it.
LEMMA SameStored ==
  ASSUME NEW a \in Info \cup {None}, NEW b \in Info \cup {None},
         \A n \in Networks : At(a, n) = At(b, n)
  PROVE  Stored(a) = Stored(b)
<1>1. None \notin Info /\ NoNetwork \in Info
  BY ContainerDataAssumption DEF Info, NoNetwork
<1>2. ASSUME NEW i \in Info \cup {None}, \A n \in Networks : At(i, n) = None
      PROVE  Stored(i) = None
  <2>1. CASE i \in Info
    <3>1. i = NoNetwork
      BY <1>1, <1>2, <2>1 DEF At, Info, NoNetwork
    <3> QED
      BY <3>1 DEF Stored
  <2> QED
    BY <1>1, <2>1 DEF Stored
<1>3. CASE a = None
  BY <1>1, <1>2, <1>3 DEF At, Stored
<1>4. CASE b = None
  BY <1>1, <1>2, <1>4 DEF At, Stored
<1>5. CASE a \in Info /\ b \in Info
  <2>1. \A n \in Networks : a[n] = b[n]
    BY <1>1, <1>5 DEF At
  <2>2. a = b
    BY <1>5, <2>1 DEF Info
  <2> QED
    BY <2>2
<1> QED
  BY <1>3, <1>4, <1>5

\* The event loop (handleContainer, handleDisconnectedContainer, handleDeletedContainer):
\* with all events handled the owner's memory has what Docker has, for every container
\* that nothing was lost of.
THEOREM MemoryIsDockers == Spec => []MemoryFollowsDocker
<1>1. TypeOK /\ OwnerInv => MemoryFollowsDocker
  <2> SUFFICES ASSUME TypeOK, OwnerInv, OwnerQuiet, NEW c \in Containers \ missed[Owner]
               PROVE  Stored(memory[c]) = Stored(docker[c])
    BY DEF MemoryFollowsDocker
  <2>1. memory[c] \in Info \cup {None} /\ docker[c] \in Info \cup {None}
    BY DEF TypeOK, Shard
  <2>2. \A n \in Networks : At(memory[c], n) = At(docker[c], n)
    BY NothingQueued
  <2> QED
    BY <2>1, <2>2, SameStored
<1> QED
  BY <1>1, OwnerInvariant, PTL

\* The owner's resolver has in each network the addresses that Docker has.
LEMMA OwnerAddresses ==
  ASSUME TypeOK, OwnerInv, OwnerQuiet, missed[Owner] = {}, NEW n \in Networks
  PROVE  Addresses(Owner, n) = DockerAddresses(n)
<1>1. table[Owner] \in SUBSET Entries
  BY DEF TypeOK, Nodes
<1>2. \A c \in Containers :
        /\ At(memory[c], n) = At(docker[c], n)
        /\ At(memory[c], n) # None <=> \E ip \in Ips : <<c, n, ip>> \in table[Owner]
        /\ \A ip \in Ips : <<c, n, ip>> \in table[Owner] => ip = At(docker[c], n)
  BY NothingQueued
<1>3. \A c : /\ IsIn(docker[c], n) <=> At(docker[c], n) # None
             /\ IsIn(docker[c], n) => At(docker[c], n) = docker[c][n]
  BY DEF IsIn, At
<1> DEFINE asked == {f \in table[Owner] : f[2] = n}
           running == {d \in Containers : IsIn(docker[d], n)}
<1>4. \A e \in asked : \E c \in running : e[3] = docker[c][n]
  <2> SUFFICES ASSUME NEW e \in asked PROVE \E c \in running : e[3] = docker[c][n]
    OBVIOUS
  <2>1. e = <<e[1], n, e[3]>> /\ e[1] \in Containers /\ e[3] \in Ips /\ e \in table[Owner]
    BY <1>1 DEF Entries
  <2>2. e[3] = At(docker[e[1]], n) /\ e[3] # None
    BY <1>2, <2>1, ContainerDataAssumption
  <2> QED
    BY <1>3, <2>1, <2>2
<1>5. \A c \in running : \E e \in asked : e[3] = docker[c][n]
  <2> SUFFICES ASSUME NEW c \in running PROVE \E e \in asked : e[3] = docker[c][n]
    OBVIOUS
  <2>1. c \in Containers /\ At(memory[c], n) # None
    BY <1>2, <1>3
  <2>2. PICK ip \in Ips : <<c, n, ip>> \in table[Owner]
    BY <1>2, <2>1
  <2>3. ip = docker[c][n]
    BY <1>2, <1>3, <2>1, <2>2
  <2>4. <<c, n, ip>> \in asked
    BY <2>2
  <2> QED
    BY <2>3, <2>4
<1> HIDE DEF asked, running
<1>6. {e[3] : e \in asked} = {docker[c][n] : c \in running}
  BY <1>4, <1>5
<1> QED
  BY <1>6 DEF asked, running, Addresses, DockerAddresses

\* The resolver's table (AddContainer, UpdateContainer, RemoveContainer) and ResolveName:
\* the owner's names resolve to the addresses of the running containers in the networks of
\* the one who asks, to all of them or to those of the first network that has any, as
\* dockerCompatibilityMode says, and to no others.
THEOREM NamesAreDockers == Spec => []NamesResolve
<1>1. TypeOK /\ OwnerInv => NamesResolve
  <2> SUFFICES ASSUME TypeOK, OwnerInv, OwnerQuiet, missed[Owner] = {},
                      NEW sorted \in SeqOf(Networks, Cardinality(Networks))
               PROVE  /\ ResolveName(Owner, sorted, FALSE) =
                           UNION {DockerAddresses(sorted[i]) : i \in DOMAIN sorted}
                      /\ \A i \in DOMAIN sorted :
                           /\ DockerAddresses(sorted[i]) # {}
                           /\ \A j \in DOMAIN sorted : j < i => DockerAddresses(sorted[j]) = {}
                           => ResolveName(Owner, sorted, TRUE) = DockerAddresses(sorted[i])
    BY DEF NamesResolve
  <2>1. Cardinality(Networks) \in Nat
    BY ContainerDataAssumption, FS_CardinalityType
  <2>2. PICK m \in Nat : sorted \in [1 .. m -> Networks]
    BY <2>1 DEF SeqOf
  <2>3. \A i \in DOMAIN sorted :
          /\ i \in Nat /\ sorted[i] \in Networks
          /\ Addresses(Owner, sorted[i]) = DockerAddresses(sorted[i])
    BY <2>2, OwnerAddresses
  <2> DEFINE answering == {i \in DOMAIN sorted : Addresses(Owner, sorted[i]) # {}}
             first == {i \in answering : \A j \in answering : i <= j}
  <2>4. ResolveName(Owner, sorted, FALSE) = UNION {Addresses(Owner, sorted[i]) : i \in answering}
    BY DEF ResolveName
  <2>5. ResolveName(Owner, sorted, TRUE) = UNION {Addresses(Owner, sorted[i]) : i \in first}
    BY DEF ResolveName
  <2>6. ResolveName(Owner, sorted, FALSE) =
          UNION {DockerAddresses(sorted[i]) : i \in DOMAIN sorted}
    BY <2>3, <2>4
  <2>7. ASSUME NEW i \in DOMAIN sorted, DockerAddresses(sorted[i]) # {},
               \A j \in DOMAIN sorted : j < i => DockerAddresses(sorted[j]) = {}
        PROVE  ResolveName(Owner, sorted, TRUE) = DockerAddresses(sorted[i])
    <3>1. \A j \in answering : i <= j
      BY <2>3, <2>7
    <3>2. first = {i}
      BY <2>3, <2>7, <3>1
    <3> HIDE DEF first
    <3> QED
      BY <2>3, <2>5, <3>2
  <2> QED
    BY <2>6, <2>7
<1> QED
  BY <1>1, OwnerInvariant, PTL

\* The store (AddOrUpdateItem, DeleteItem, sync): the owner's shard in etcd is the one in
\* its memory, for every container no call of etcd failed for.
THEOREM EtcdIsMemory == Spec => []EtcdFollowsMemory
<1>1. OwnerInv => EtcdFollowsMemory
  BY DEF OwnerInv, OwnerCopies, EtcdFollowsMemory
<1> QED
  BY <1>1, OwnerInvariant, PTL

-----------------------------------------------------------------------------
(* The readers: what a watch has told and will tell.                       *)

\* The changes s bring what is known of a container from now to last: the last one of
\* the container has it, and without any it is known already.
Brings(s, c, now, last) ==
  /\ \A i \in 1 .. Len(s) :
       s[i].c = c /\ (\A j \in i + 1 .. Len(s) : s[j].c # c) => s[i].info = last
  /\ (\A i \in 1 .. Len(s) : s[i].c # c) => now = last

\* Nothing is told.
LEMMA BringsNothing ==
  ASSUME NEW c, NEW now, NEW last
  PROVE  Brings(<<>>, c, now, last) <=> now = last
BY EmptySeq DEF Brings

\* What is written in addition.
LEMMA BringsMore ==
  ASSUME NEW s \in Seq(ShardChanges), NEW q \in Seq(ShardChanges), NEW c, NEW now, NEW last,
         NEW new, Brings(s, c, now, last),
         \A i \in 1 .. Len(q) : q[i].c = c => q[i].info = new,
         (\A i \in 1 .. Len(q) : q[i].c # c) => new = last
  PROVE  Brings(s \o q, c, now, new)
<1> DEFINE t == s \o q
<1>1. /\ Len(s) \in Nat /\ Len(q) \in Nat /\ Len(t) = Len(s) + Len(q)
      /\ \A i \in 1 .. Len(s) + Len(q) : t[i] = IF i <= Len(s) THEN s[i] ELSE q[i - Len(s)]
  BY ConcatProperties, LenProperties
<1> HIDE DEF t
<1>2. \A i \in 1 .. Len(s) : i \in 1 .. Len(t) /\ t[i] = s[i]
  BY <1>1
<1>3. \A i \in 1 .. Len(q) : Len(s) + i \in 1 .. Len(t) /\ t[Len(s) + i] = q[i]
  BY <1>1
<1>4. ASSUME NEW i \in 1 .. Len(t), t[i].c = c, \A j \in i + 1 .. Len(t) : t[j].c # c
      PROVE  t[i].info = new
  <2>1. CASE i \in 1 .. Len(s)
    <3>1. \A j \in 1 .. Len(q) : q[j].c # c
      <4> SUFFICES ASSUME NEW j \in 1 .. Len(q) PROVE q[j].c # c
        OBVIOUS
      <4>1. Len(s) + j \in i + 1 .. Len(t) /\ t[Len(s) + j] = q[j]
        BY <1>1, <1>3, <2>1
      <4> QED
        BY <1>4, <4>1
    <3>2. \A j \in i + 1 .. Len(s) : s[j].c # c
      BY <1>1, <1>2, <1>4, <2>1
    <3>3. s[i].info = last
      BY <1>2, <1>4, <2>1, <3>2 DEF Brings
    <3> QED
      BY <1>2, <2>1, <3>1, <3>3
  <2>2. CASE i \notin 1 .. Len(s)
    <3>1. i - Len(s) \in 1 .. Len(q) /\ t[i] = q[i - Len(s)]
      BY <1>1, <1>4, <2>2
    <3> QED
      BY <1>4, <3>1
  <2> QED
    BY <2>1, <2>2
<1>5. ASSUME \A i \in 1 .. Len(t) : t[i].c # c PROVE now = new
  <2>1. \A i \in 1 .. Len(s) : s[i].c # c
    BY <1>2, <1>5
  <2>2. \A i \in 1 .. Len(q) : q[i].c # c
    <3> SUFFICES ASSUME NEW i \in 1 .. Len(q) PROVE q[i].c # c
      OBVIOUS
    <3>1. Len(s) + i \in 1 .. Len(t) /\ t[Len(s) + i] = q[i]
      BY <1>3
    <3> QED
      BY <1>5, <3>1
  <2> QED
    BY <2>1, <2>2 DEF Brings
<1> QED
  BY <1>4, <1>5 DEF Brings, t

\* What is left when the first change is handled.
LEMMA BringsRest ==
  ASSUME NEW s \in Seq(ShardChanges), s # <<>>, NEW c, NEW now, NEW last,
         Brings(s, c, now, last)
  PROVE  Brings(Tail(s), c, IF Head(s).c = c THEN Head(s).info ELSE now, last)
<1> DEFINE t == Tail(s)
<1>1. /\ Len(s) \in Nat /\ Len(s) > 0 /\ Len(t) = Len(s) - 1
      /\ \A i \in 1 .. Len(t) : t[i] = s[i + 1]
      /\ Head(s) = s[1]
  BY HeadTailProperties, LenProperties, EmptySeq
<1> HIDE DEF t
<1>2. \A i \in 2 .. Len(s) : i - 1 \in 1 .. Len(t) /\ t[i - 1] = s[i]
  BY <1>1
<1>3. ASSUME NEW i \in 1 .. Len(t), t[i].c = c, \A j \in i + 1 .. Len(t) : t[j].c # c
      PROVE  t[i].info = last
  <2>1. i + 1 \in 1 .. Len(s) /\ t[i] = s[i + 1]
    BY <1>1
  <2>2. ASSUME NEW j \in (i + 1) + 1 .. Len(s) PROVE s[j].c # c
    <3>1. j \in 2 .. Len(s) /\ j - 1 \in i + 1 .. Len(t)
      BY <1>1, <2>2
    <3> QED
      BY <1>2, <1>3, <3>1
  <2> DEFINE k == i + 1
  <2>3. k \in 1 .. Len(s) /\ t[i] = s[k] /\ \A j \in k + 1 .. Len(s) : s[j].c # c
    BY <2>1, <2>2
  <2> HIDE DEF k
  <2> QED
    BY <1>3, <2>3 DEF Brings
<1>4. ASSUME \A i \in 1 .. Len(t) : t[i].c # c
      PROVE  (IF Head(s).c = c THEN Head(s).info ELSE now) = last
  <2>1. \A i \in 2 .. Len(s) : s[i].c # c
    BY <1>2, <1>4
  <2>2. CASE Head(s).c = c
    <3>1. 1 \in 1 .. Len(s) /\ s[1].c = c /\ \A j \in 1 + 1 .. Len(s) : s[j].c # c
      BY <1>1, <2>1, <2>2
    <3> QED
      BY <1>1, <2>2, <3>1 DEF Brings
  <2>3. CASE Head(s).c # c
    <3>1. \A i \in 1 .. Len(s) : s[i].c # c
      <4> SUFFICES ASSUME NEW i \in 1 .. Len(s) PROVE s[i].c # c
        OBVIOUS
      <4>1. i = 1 \/ i \in 2 .. Len(s)
        BY <1>1
      <4> QED
        BY <1>1, <2>1, <2>3, <4>1
    <3> QED
      BY <2>3, <3>1 DEF Brings
  <2> QED
    BY <2>2, <2>3
<1> QED
  BY <1>3, <1>4 DEF Brings, t

-----------------------------------------------------------------------------
(* The readers: their copies of the shard and their tables.                *)

\* A reader's copy of a container is on the way to what etcd has; its table has the
\* networks of the copy, once they are announced all of them.
ReaderCopy(r, c) ==
  /\ phase[r] # "down" => Brings(watch[r], c, view[r][c], etcd[c])
  /\ phase[r] = "announcing" => snapshot[r][c] = view[r][c]
  /\ \A n \in Networks :
       /\ Has(table[r], c, n) => At(view[r][c], n) # None
       /\ phase[r] = "up" => (At(view[r][c], n) # None => Has(table[r], c, n))

ReaderCopies(r) ==
  /\ phase[r] \in {"down", "loaded"} => watch[r] = <<>> /\ table[r] = {}
  /\ \A c \in Containers \ missed[r] : ReaderCopy(r, c)

ReadersInv == \A r \in Readers : ReaderCopies(r)

\* What has no part in a reader's copies.
LEMMA ReaderAside ==
  ASSUME NEW r \in Readers, ReaderCopies(r), UNCHANGED etcd,
         UNCHANGED <<view[r], watch[r], snapshot[r], table[r], phase[r], missed[r]>>
  PROVE  ReaderCopies(r)'
<1>1. ASSUME NEW c, ReaderCopy(r, c) PROVE ReaderCopy(r, c)'
  BY <1>1 DEF ReaderCopy, Brings, Has, At
<1> QED
  BY <1>1 DEF ReaderCopies

\* A write to etcd: a reader that watches is told of it, one that has only loaded misses it.
LEMMA ReaderWrite ==
  ASSUME TypeOK, NEW r \in Readers, ReaderCopies(r), NEW shard \in Shard, WriteEtcd(shard),
         missed'[r] = MissedByReaders(shard)[r],
         UNCHANGED <<view[r], snapshot[r], table[r], phase[r]>>
  PROVE  ReaderCopies(r)'
<1>1. etcd' = shard /\ watch'[r] = IF Told(r) THEN watch[r] \o ChangesOf(shard) ELSE watch[r]
  BY WriteShape
<1>2. missed'[r] = IF phase[r] = "loaded"
                   THEN missed[r] \cup {c \in Containers : shard[c] # etcd[c]} ELSE missed[r]
  BY DEF MissedByReaders
<1>3. phase[r] \in Phases
  BY DEF TypeOK, Nodes
<1>4. ASSUME NEW c \in Containers \ missed'[r], phase[r] # "down"
      PROVE  Brings(watch'[r], c, view[r][c], etcd'[c])
  <2>1. Brings(watch[r], c, view[r][c], etcd[c])
    BY <1>2, <1>4 DEF ReaderCopies, ReaderCopy
  <2>2. CASE ~Told(r)
    <3>1. phase[r] = "loaded"
      BY <1>3, <1>4, <2>2 DEF Told, Phases
    <3>2. etcd'[c] = etcd[c]
      BY <1>1, <1>2, <1>4, <3>1
    <3> QED
      BY <1>1, <2>1, <2>2, <3>2
  <2>3. CASE Told(r)
    <3>1. /\ ChangesOf(shard) \in Seq(ShardChanges)
          /\ \A i \in 1 .. Len(ChangesOf(shard)) :
               ChangesOf(shard)[i].c = c => ChangesOf(shard)[i].info = shard[c]
          /\ (\A i \in 1 .. Len(ChangesOf(shard)) : ChangesOf(shard)[i].c # c)
               => shard[c] = etcd[c]
      BY ChangesShape
    <3>2. watch[r] \in Seq(ShardChanges)
      BY DEF TypeOK
    <3>3. Brings(watch[r] \o ChangesOf(shard), c, view[r][c], shard[c])
      BY <2>1, <3>1, <3>2, BringsMore
    <3> QED
      BY <1>1, <2>3, <3>3
  <2> QED
    BY <2>2, <2>3
<1>5. ASSUME NEW c \in Containers \ missed'[r] PROVE ReaderCopy(r, c)'
  <2>1. ReaderCopy(r, c)
    BY <1>2 DEF ReaderCopies
  <2> QED
    BY <1>4, <2>1 DEF ReaderCopy, Brings, Has, At
<1>6. phase[r] \in {"down", "loaded"} => watch'[r] = <<>>
  BY <1>1 DEF ReaderCopies, Told
<1> QED
  BY <1>5, <1>6 DEF ReaderCopies

\* An item that the owner sets.
LEMMA ReaderSetItem ==
  ASSUME TypeOK, NEW r \in Readers, ReaderCopies(r),
         NEW c \in Containers, NEW info \in Info \cup {None}, SetItem(c, info),
         UNCHANGED <<view, snapshot, phase>>
  PROVE  ReaderCopies(r)'
<1> DEFINE shard == [etcd EXCEPT ![c] = info]
<1>0. r # Owner /\ r \in Nodes /\ Owner \in Nodes
  BY ContainerDataAssumption DEF Nodes
<1>1. shard \in Shard
  BY DEF TypeOK, Shard
<1>2. table'[r] = table[r]
  BY <1>0 DEF SetItem, TypeOK
<1>3. \A s, m : m \in SUBSET Containers => MissedBy(s, m)[r] = MissedByReaders(s)[r]
  BY MissedByType
<1>4. \/ WriteEtcd(shard) /\ (missed' = MissedBy(shard, {}) \/ missed' = MissedBy(shard, {c}))
      \/ UNCHANGED <<etcd, watch>> /\ missed' = MissedBy(etcd, {c})
  BY DEF SetItem
<1> HIDE DEF shard
<1>5. CASE WriteEtcd(shard) /\ (missed' = MissedBy(shard, {}) \/ missed' = MissedBy(shard, {c}))
  <2>1. missed'[r] = MissedByReaders(shard)[r]
    BY <1>3, <1>5
  <2> QED
    BY <1>1, <1>2, <1>5, <2>1, ReaderWrite
<1>6. CASE UNCHANGED <<etcd, watch>> /\ missed' = MissedBy(etcd, {c})
  <2>1. missed'[r] = MissedByReaders(etcd)[r]
    BY <1>3, <1>6
  <2>2. missed'[r] = missed[r]
    BY <2>1 DEF MissedByReaders, TypeOK, Nodes
  <2> QED
    BY <1>2, <1>6, <2>2, ReaderAside
<1> QED
  BY <1>4, <1>5, <1>6

\* Docker's actions and the events that change nothing in etcd leave the readers alone.
LEMMA DockerReaderStep ==
  ASSUME TypeOK, NEW r \in Readers, ReaderCopies(r),
         \/ \E c \in Containers, info \in Info \ {NoNetwork} : Start(c, info)
         \/ \E c \in Containers, n \in Networks, ip \in Ips : Connect(c, n, ip)
         \/ \E c \in Containers, n \in Networks : Disconnect(c, n)
         \/ \E c \in Containers : Stop(c)
         \/ EventsLost \/ Inspect \/ InspectError \/ List \/ Announce \/ OwnerCrash
  PROVE  ReaderCopies(r)'
<1> USE DEF dockerVars, ownerVars, readerVars
<1>0. r # Owner /\ r \in Nodes /\ Owner \in Nodes
  BY ContainerDataAssumption DEF Nodes
<1>1. ASSUME NEW c \in Containers, NEW info, NEW q, Change(c, info), Emit(c, q)
      PROVE  ReaderCopies(r)'
  <2>1. UNCHANGED <<etcd, view, watch, snapshot, table, phase>>
    BY <1>1 DEF Change
  <2>2. missed'[r] = missed[r]
    BY <1>0, <1>1 DEF Emit, TypeOK
  <2> QED
    BY <2>1, <2>2, ReaderAside
<1>2. ASSUME EventsLost \/ Inspect \/ InspectError \/ List \/ Announce \/ OwnerCrash
      PROVE  ReaderCopies(r)'
  <2>1. UNCHANGED <<etcd, view, watch, snapshot>>
    BY <1>2 DEF EventsLost, Inspect, InspectError, List, Announce, OwnerCrash, OwnerDown
  <2>2. table'[r] = table[r] /\ phase'[r] = phase[r]
    BY <1>0, <1>2 DEF EventsLost, Inspect, InspectError, List, Announce, OwnerCrash,
                      OwnerDown, Down, TypeOK
  <2>3. missed'[r] = missed[r]
    BY <1>0, <1>2 DEF EventsLost, Inspect, InspectError, List, Announce, OwnerCrash, TypeOK
  <2> QED
    BY <2>1, <2>2, <2>3, ReaderAside
<1>3. ASSUME NEW c \in Containers, Stop(c) PROVE ReaderCopies(r)'
  BY <1>1, <1>3 DEF Stop
<1> QED
  BY <1>1, <1>2, <1>3 DEF Start, Connect, Disconnect

\* The owner's writes.
LEMMA OwnerReaderStep ==
  ASSUME TypeOK, NEW r \in Readers, ReaderCopies(r),
         Store \/ HandleDisconnected \/ HandleDied \/ Sync \/ SyncError
  PROVE  ReaderCopies(r)'
<1> USE DEF dockerVars, ownerVars, readerVars
<1>0. r # Owner /\ r \in Nodes /\ Owner \in Nodes
  BY ContainerDataAssumption DEF Nodes
<1>1. CASE Store
  <2>1. inspected.c \in Containers /\ inspected.info \in Info
    BY <1>1 DEF Store, TypeOK, Inspections
  <2> QED
    BY <1>1, <2>1, ReaderSetItem DEF Store
<1>2. CASE HandleDied
  <2>1. Head(events).c \in Containers
    BY <1>2, HeadEvent DEF HandleDied, NextEvent
  <2> QED
    BY <1>2, <2>1, ReaderSetItem DEF HandleDied
<1>3. CASE HandleDisconnected
  <2> DEFINE e == Head(events)
  <2>1. e.c \in Containers /\ UNCHANGED <<view, snapshot, phase>>
    BY <1>3, HeadEvent DEF HandleDisconnected, NextEvent
  <2>2. CASE memory[e.c] = None
    BY <1>3, <2>1, <2>2, ReaderAside DEF HandleDisconnected
  <2>3. CASE memory[e.c] # None
    <3>1. Without(memory[e.c], e.n) \in Info
      BY <2>1, <2>3, WithoutType DEF TypeOK, Shard
    <3>2. SetItem(e.c, Without(memory[e.c], e.n))
      BY <1>3, <2>3 DEF HandleDisconnected
    <3> QED
      BY <2>1, <3>1, <3>2, ReaderSetItem
  <2> QED
    BY <2>2, <2>3
<1>4. CASE Sync
  <2>1. WriteEtcd(Synced) /\ Synced \in Shard /\ UNCHANGED <<view, snapshot, table>>
    BY <1>4, ShardTypes DEF Sync
  <2>2. phase'[r] = phase[r]
    BY <1>0, <1>4 DEF Sync, TypeOK
  <2>3. missed'[r] = MissedByReaders(Synced)[r]
    BY <1>4, MissedByType DEF Sync
  <2> QED
    BY <2>1, <2>2, <2>3, ReaderWrite
<1>5. CASE SyncError
  <2>1. PICK written \in SUBSET Containers :
          LET shard == [c \in Containers |-> IF c \in written THEN Synced[c] ELSE etcd[c]]
          IN WriteEtcd(shard) /\ missed' = MissedBy(shard, {})
    BY <1>5 DEF SyncError
  <2> DEFINE shard == [c \in Containers |-> IF c \in written THEN Synced[c] ELSE etcd[c]]
  <2>2. shard \in Shard
    BY ShardTypes DEF TypeOK, Shard
  <2>3. WriteEtcd(shard) /\ missed' = MissedBy(shard, {})
    BY <2>1
  <2> HIDE DEF shard
  <2>4. missed'[r] = MissedByReaders(shard)[r]
    BY <2>3, MissedByType
  <2>5. UNCHANGED <<view, snapshot>> /\ phase'[r] = phase[r] /\ table'[r] = table[r]
    BY <1>0, <1>5 DEF SyncError, OwnerDown, Down, TypeOK
  <2> QED
    BY <2>2, <2>3, <2>4, <2>5, ReaderWrite
<1> QED
  BY <1>1, <1>2, <1>3, <1>4, <1>5

\* A change that is handled: no reader handles one before it watches, and one that is
\* handled while the snapshot is announced is missed.
LEMMA WatchEventStep ==
  ASSUME TypeOK, NEW r \in Readers, ReaderCopies(r), HandleWatchEvent(r)
  PROVE  ReaderCopies(r)'
<1> DEFINE e == Head(watch[r])
<1>0. r \in Nodes /\ r # Owner
  BY ContainerDataAssumption DEF Nodes
<1>1. watch[r] \in Seq(ShardChanges) /\ watch[r] # <<>> /\ e \in ShardChanges
  BY HeadTailProperties DEF HandleWatchEvent, TypeOK
<1>2. e.c \in Containers /\ e.info \in Info \cup {None}
  BY <1>1 DEF ShardChanges
<1>3. phase[r] \notin {"down", "loaded"}
  BY <1>1 DEF ReaderCopies
<1>4. view[r] \in Shard /\ view[r][e.c] \in Info \cup {None} /\ table[r] \in SUBSET Entries
  BY <1>0, <1>2 DEF TypeOK, Shard
<1>5. /\ table'[r] = Handled(table[r], e.c, view[r][e.c], e.info)
      /\ missed'[r] = missed[r] \cup IF phase[r] = "announcing" THEN {e.c} ELSE {}
      /\ watch'[r] = Tail(watch[r])
      /\ UNCHANGED <<etcd, snapshot, phase>>
  BY <1>0 DEF HandleWatchEvent, TypeOK
<1>6. view'[r][e.c] = e.info /\ \A c \in Containers : c # e.c => view'[r][c] = view[r][c]
  <2>1. view' = [view EXCEPT ![r][e.c] = e.info]
    BY DEF HandleWatchEvent
  <2>2. view'[r] = [view[r] EXCEPT ![e.c] = e.info]
    BY <2>1 DEF TypeOK
  <2> QED
    BY <1>2, <1>4, <2>2 DEF Shard
<1> HIDE DEF e
<1>7. ASSUME NEW c \in Containers \ missed'[r] PROVE ReaderCopy(r, c)'
  <2>1. ReaderCopy(r, c)
    BY <1>5 DEF ReaderCopies
  <2>2. Brings(watch[r], c, view[r][c], etcd[c])
    BY <1>3, <2>1 DEF ReaderCopy
  <2>3. Brings(watch'[r], c, view'[r][c], etcd'[c])
    <3>1. Brings(Tail(watch[r]), c, IF e.c = c THEN e.info ELSE view[r][c], etcd[c])
      BY <1>1, <2>2, BringsRest DEF e
    <3> QED
      BY <1>5, <1>6, <3>1
  <2>4. phase[r] = "announcing" => snapshot'[r][c] = view'[r][c]
    BY <1>5, <1>6, <2>1 DEF ReaderCopy
  <2>5. ASSUME NEW n \in Networks
        PROVE  /\ Has(table'[r], c, n) => At(view'[r][c], n) # None
               /\ phase[r] = "up" => (At(view'[r][c], n) # None => Has(table'[r], c, n))
    <3>1. CASE c = e.c
      <4>1. \A m \in Networks : Has(table[r], c, m) => At(view[r][c], m) # None
        BY <2>1 DEF ReaderCopy
      <4>2. phase[r] = "up" =>
              \A m \in Networks : At(view[r][c], m) # None => Has(table[r], c, m)
        BY <2>1 DEF ReaderCopy
      <4>3. /\ table'[r] = Handled(table[r], c, view[r][c], e.info)
            /\ view[r][c] \in Info \cup {None}
            /\ view'[r][c] = e.info
        BY <1>4, <1>5, <1>6, <3>1
      <4>4. /\ (\A m \in Networks : Has(table[r], c, m) => At(view[r][c], m) # None)
                 => \A m \in Networks : Has(table'[r], c, m) => At(e.info, m) # None
            /\ (\A m \in Networks : At(view[r][c], m) # None => Has(table[r], c, m))
                 => \A m \in Networks : At(e.info, m) # None => Has(table'[r], c, m)
        BY <1>2, <1>4, <4>3, HandledShape
      <4> QED
        BY <4>1, <4>2, <4>3, <4>4
    <3>2. CASE c # e.c
      <4>0. \A d, m, ip : d # e.c =>
              (<<d, m, ip>> \in Handled(table[r], e.c, view[r][e.c], e.info)
                 <=> <<d, m, ip>> \in table[r])
        <5>1. PICK k \in Containers, new \in Info \cup {None} : k = e.c /\ new = e.info
          BY <1>2
        <5>2. \A d, m, ip : d # k =>
                (<<d, m, ip>> \in Handled(table[r], k, view[r][k], new)
                   <=> <<d, m, ip>> \in table[r])
          BY <1>4, <5>1, HandledShape
        <5> QED
          BY <5>1, <5>2
      <4>1. \A ip : <<c, n, ip>> \in table'[r] <=> <<c, n, ip>> \in table[r]
        BY <1>5, <3>2, <4>0
      <4>2. Has(table'[r], c, n) <=> Has(table[r], c, n)
        BY <4>1 DEF Has
      <4> QED
        BY <1>6, <2>1, <3>2, <4>2 DEF ReaderCopy
    <3> QED
      BY <3>1, <3>2
  <2> QED
    BY <1>5, <2>3, <2>4, <2>5 DEF ReaderCopy, Brings, Has, At
<1> QED
  BY <1>3, <1>5, <1>7 DEF ReaderCopies

\* The readers' start, and their end.
LEMMA ReaderStartStep ==
  ASSUME TypeOK, NEW r \in Readers, ReaderCopies(r),
         Load(r) \/ Watch(r) \/ TakeSnapshot(r) \/ AnnounceSnapshot(r) \/ ReaderCrash(r)
  PROVE  ReaderCopies(r)'
<1> USE DEF dockerVars, ownerVars, readerVars
<1>0. r \in Nodes /\ r # Owner
  BY ContainerDataAssumption DEF Nodes
<1>1. CASE Load(r)
  <2>1. /\ phase[r] = "down" /\ phase'[r] = "loaded" /\ view'[r] = etcd
        /\ watch'[r] = <<>> /\ table'[r] = {} /\ etcd' = etcd
    BY <1>0, <1>1 DEF Load, TypeOK, ReaderCopies
  <2>2. ASSUME NEW c \in Containers PROVE ReaderCopy(r, c)'
    <3>1. Brings(<<>>, c, etcd[c], etcd[c])
      BY BringsNothing
    <3>2. \A n : ~Has(table'[r], c, n)
      BY <2>1 DEF Has
    <3> QED
      BY <2>1, <3>1, <3>2 DEF ReaderCopy, Brings, Has, At
  <2> QED
    BY <2>1, <2>2 DEF ReaderCopies
<1>2. CASE Watch(r)
  <2>1. /\ phase[r] = "loaded" /\ phase'[r] = "watching"
        /\ UNCHANGED <<etcd, view, watch, snapshot, table, missed>>
    BY <1>0, <1>2 DEF Watch, TypeOK
  <2>2. ASSUME NEW c, ReaderCopy(r, c) PROVE ReaderCopy(r, c)'
    BY <2>1, <2>2 DEF ReaderCopy, Brings, Has, At
  <2> QED
    BY <2>1, <2>2 DEF ReaderCopies
<1>3. CASE TakeSnapshot(r)
  <2>1. /\ phase[r] = "watching" /\ phase'[r] = "announcing" /\ snapshot'[r] = view[r]
        /\ UNCHANGED <<etcd, view, watch, table, missed>>
    BY <1>0, <1>3 DEF TakeSnapshot, TypeOK
  <2>2. ASSUME NEW c, ReaderCopy(r, c) PROVE ReaderCopy(r, c)'
    BY <2>1, <2>2 DEF ReaderCopy, Brings, Has, At
  <2> QED
    BY <2>1, <2>2 DEF ReaderCopies
<1>4. CASE AnnounceSnapshot(r)
  <2>1. /\ phase[r] = "announcing" /\ phase'[r] = "up"
        /\ table'[r] = table[r] \cup UNION {EntriesOf(c, snapshot[r][c]) : c \in Containers}
        /\ UNCHANGED <<etcd, view, watch, missed>>
    BY <1>0, <1>4 DEF AnnounceSnapshot, TypeOK
  <2>2. ASSUME NEW c \in Containers \ missed[r] PROVE ReaderCopy(r, c)'
    <3>1. ReaderCopy(r, c)
      BY DEF ReaderCopies
    <3>2. snapshot[r][c] = view[r][c]
      BY <2>1, <3>1 DEF ReaderCopy
    <3>3. view[r][c] \in Info \cup {None}
      BY DEF TypeOK, Shard
    <3>4. ASSUME NEW n \in Networks
          PROVE  Has(table'[r], c, n) <=> Has(table[r], c, n) \/ At(view[r][c], n) # None
      <4>1. \A d, ip : <<c, n, ip>> \in EntriesOf(d, snapshot[r][d]) <=>
              d = c /\ At(view[r][c], n) # None /\ ip = At(view[r][c], n)
        BY <3>2 DEF EntriesOf, NetworksOf, IsIn, At
      <4>2. \A ip : <<c, n, ip>> \in table'[r] <=>
              <<c, n, ip>> \in table[r] \/ (At(view[r][c], n) # None /\ ip = At(view[r][c], n))
        BY <2>1, <4>1
      <4>3. At(view[r][c], n) # None => At(view[r][c], n) \in Ips
        BY <3>3 DEF At, Info
      <4> QED
        BY <4>2, <4>3 DEF Has
    <3>5. ASSUME NEW n \in Networks
          PROVE  Has(table'[r], c, n) <=> At(view[r][c], n) # None
      BY <3>1, <3>4 DEF ReaderCopy
    <3>6. Brings(watch[r], c, view[r][c], etcd[c])
      BY <2>1, <3>1 DEF ReaderCopy
    <3> QED
      BY <2>1, <3>5, <3>6 DEF ReaderCopy, Brings, Has, At
  <2> QED
    BY <2>1, <2>2 DEF ReaderCopies
<1>5. CASE ReaderCrash(r)
  <2>1. phase'[r] = "down" /\ watch'[r] = <<>> /\ table'[r] = {}
    BY <1>0, <1>5 DEF ReaderCrash, Down, TypeOK
  <2>2. ASSUME NEW c PROVE ReaderCopy(r, c)'
    BY <2>1 DEF ReaderCopy, Has
  <2> QED
    BY <2>1, <2>2 DEF ReaderCopies
<1> QED
  BY <1>1, <1>2, <1>3, <1>4, <1>5

\* The other readers' steps.
LEMMA OtherReaderStep ==
  ASSUME TypeOK, NEW r \in Readers, ReaderCopies(r), NEW s \in Readers, s # r,
         ReaderGoesOn(s) \/ ReaderCrash(s)
  PROVE  ReaderCopies(r)'
<1> USE DEF dockerVars, ownerVars, readerVars
<1>0. r \in Nodes /\ s \in Nodes
  BY DEF Nodes
<1>1. etcd' = etcd
  BY DEF ReaderGoesOn, Load, Watch, TakeSnapshot, AnnounceSnapshot, HandleWatchEvent, ReaderCrash
<1>2. UNCHANGED <<view[r], watch[r], snapshot[r]>>
  <2>1. HandleWatchEvent(s) => view'[r] = view[r]
    BY DEF HandleWatchEvent, TypeOK
  <2>2. HandleWatchEvent(s) => UNCHANGED <<view[r], watch[r], snapshot[r]>>
    BY <2>1 DEF HandleWatchEvent, TypeOK
  <2>3. Load(s) \/ Watch(s) \/ TakeSnapshot(s) \/ AnnounceSnapshot(s) \/ ReaderCrash(s)
          => UNCHANGED <<view[r], watch[r], snapshot[r]>>
    BY DEF Load, Watch, TakeSnapshot, AnnounceSnapshot, ReaderCrash, TypeOK
  <2> QED
    BY <2>2, <2>3 DEF ReaderGoesOn
<1>3. UNCHANGED <<table[r], phase[r], missed[r]>>
  BY <1>0 DEF ReaderGoesOn, Load, Watch, TakeSnapshot, AnnounceSnapshot, HandleWatchEvent,
              ReaderCrash, Down, TypeOK
<1> QED
  BY <1>1, <1>2, <1>3, ReaderAside

\* Every step keeps the readers' copies.
LEMMA ReadersStep == TypeOK /\ ReadersInv /\ [Next]_vars => ReadersInv'
<1> SUFFICES ASSUME TypeOK, [Next]_vars, NEW r \in Readers, ReaderCopies(r)
             PROVE  ReaderCopies(r)'
  BY DEF ReadersInv
<1>1. CASE UNCHANGED vars
  BY <1>1, ReaderAside DEF vars, dockerVars, ownerVars, readerVars
<1>2. ASSUME NEW s \in Readers, ReaderGoesOn(s) \/ ReaderCrash(s) PROVE ReaderCopies(r)'
  <2>1. CASE s = r
    BY <1>2, <2>1, ReaderStartStep, WatchEventStep DEF ReaderGoesOn
  <2>2. CASE s # r
    BY <1>2, <2>2, OtherReaderStep
  <2> QED
    BY <2>1, <2>2
<1> QED
  BY <1>1, <1>2, DockerReaderStep, OwnerReaderStep DEF Next, OwnerGoesOn

LEMMA ReadersInvariant == Spec => [](TypeOK /\ ReadersInv)
<1>1. Init => ReadersInv
  <2> SUFFICES ASSUME Init, NEW r \in Readers PROVE ReaderCopies(r)
    BY DEF ReadersInv
  <2>1. phase[r] = "down" /\ watch[r] = <<>> /\ table[r] = {}
    BY DEF Init, Nodes
  <2>2. \A c \in Containers : ReaderCopy(r, c)
    BY <2>1 DEF ReaderCopy, Has
  <2> QED
    BY <2>1, <2>2 DEF ReaderCopies
<1> QED
  BY <1>1, ReadersStep, TypeCorrect, PTL DEF Spec

\* Loading, watching and announcing (sync, handleWatchEvents, OnAdded): a reader that has
\* handled its changes knows of a container it has missed nothing of the networks that
\* etcd has, no fewer and no more.
THEOREM ReadersAreEtcds == Spec => []ReadersKnowNames
<1>1. TypeOK /\ ReadersInv => ReadersKnowNames
  <2> SUFFICES ASSUME TypeOK, ReadersInv, NEW r \in Readers, ReaderQuiet(r),
                      NEW c \in Containers \ missed[r]
               PROVE  {e[2] : e \in {f \in table[r] : f[1] = c}} = NetworksOf(etcd[c])
    BY DEF ReadersKnowNames
  <2>1. ReaderCopy(r, c) /\ phase[r] = "up" /\ watch[r] = <<>>
    BY DEF ReadersInv, ReaderCopies, ReaderQuiet
  <2>2. view[r][c] = etcd[c]
    BY <2>1, BringsNothing DEF ReaderCopy
  <2>3. \A n \in Networks : Has(table[r], c, n) <=> IsIn(etcd[c], n)
    BY <2>1, <2>2 DEF ReaderCopy, IsIn, At
  <2>4. table[r] \in SUBSET Entries
    BY DEF TypeOK, Nodes
  <2>5. ASSUME NEW e \in table[r], e[1] = c PROVE e[2] \in NetworksOf(etcd[c])
    <3>1. e = <<c, e[2], e[3]>> /\ e[2] \in Networks /\ e[3] \in Ips
      BY <2>4, <2>5 DEF Entries
    <3>2. Has(table[r], c, e[2])
      BY <3>1 DEF Has
    <3> QED
      BY <2>3, <3>1, <3>2 DEF NetworksOf
  <2>6. ASSUME NEW n \in NetworksOf(etcd[c])
        PROVE  \E e \in {f \in table[r] : f[1] = c} : e[2] = n
    <3>1. PICK ip \in Ips : <<c, n, ip>> \in table[r]
      BY <2>3 DEF Has, NetworksOf
    <3> DEFINE e == <<c, n, ip>>
    <3>2. e \in table[r] /\ e[1] = c /\ e[2] = n
      BY <3>1
    <3> HIDE DEF e
    <3> QED
      BY <3>2
  <2> DEFINE its == {f \in table[r] : f[1] = c}
  <2>7. (\A e \in its : e[2] \in NetworksOf(etcd[c]))
        /\ \A n \in NetworksOf(etcd[c]) : \E e \in its : e[2] = n
    BY <2>5, <2>6
  <2> HIDE DEF its
  <2>8. {e[2] : e \in its} = NetworksOf(etcd[c])
    BY <2>7
  <2> QED
    BY <2>8 DEF its
<1> QED
  BY <1>1, ReadersInvariant, PTL

-----------------------------------------------------------------------------
(* The store from end to end.                                              *)

\* Once the owner's events and a reader's are handled, that other node knows a container
\* of the owner, which neither has missed anything of, in exactly the networks Docker
\* has it in.
ClusterKnowsDocker ==
  \A r \in Readers : OwnerQuiet /\ ReaderQuiet(r) =>
    \A c \in Containers \ (missed[Owner] \cup missed[r]) :
      {e[2] : e \in {f \in table[r] : f[1] = c}} = NetworksOf(docker[c])

\* What the shard store is for: Docker's events, the owner's memory, etcd, the watch and
\* the reader's tables are five copies that are never updated together, and no order of
\* events, crashes and lost answers leaves another node with another picture than
\* Docker's when all is handled.
THEOREM ReadersAreDockers == Spec => []ClusterKnowsDocker
<1>1. /\ MemoryFollowsDocker /\ EtcdFollowsMemory /\ ReadersKnowNames
      => ClusterKnowsDocker
  <2> SUFFICES ASSUME MemoryFollowsDocker, EtcdFollowsMemory, ReadersKnowNames,
                      NEW r \in Readers, OwnerQuiet, ReaderQuiet(r),
                      NEW c \in Containers \ (missed[Owner] \cup missed[r])
               PROVE  {e[2] : e \in {f \in table[r] : f[1] = c}} = NetworksOf(docker[c])
    BY DEF ClusterKnowsDocker
  <2>1. {e[2] : e \in {f \in table[r] : f[1] = c}} = NetworksOf(etcd[c])
    BY DEF ReadersKnowNames
  <2>2. etcd[c] = memory[c]
    BY DEF EtcdFollowsMemory, OwnerQuiet
  <2>3. Stored(memory[c]) = Stored(docker[c])
    BY DEF MemoryFollowsDocker
  <2>4. ASSUME NEW info PROVE NetworksOf(Stored(info)) = NetworksOf(info)
    BY DEF Stored, NetworksOf, IsIn, NoNetwork
  <2>5. NetworksOf(memory[c]) = NetworksOf(docker[c])
    BY <2>3, <2>4
  <2> QED
    BY <2>1, <2>2, <2>5
<1> QED
  BY <1>1, MemoryIsDockers, EtcdIsMemory, ReadersAreEtcds, PTL
=============================================================================
