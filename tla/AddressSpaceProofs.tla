------------------------- MODULE AddressSpaceProofs -------------------------
(***************************************************************************)
(* Proofs about AddressSpace, for any number of nodes, networks, subnets   *)
(* and changes, with and without faults.                                   *)
(***************************************************************************)
EXTENDS AddressSpace, SequenceTheorems, FiniteSetTheorems, TLAPS

-----------------------------------------------------------------------------
(* Types.                                                                  *)

\* The end of a call keeps the pools and the calls typed.
LEMMA FinishType ==
  ASSUME TypeOK, NEW n \in Nodes, op[n] # None,
         NEW mine \in Subnets \cup {None}, Finish(n, op[n].found, mine)
  PROVE  pools' \in [Nodes -> Mapping] /\ op' \in [Nodes -> [id : PoolIDs, found : Mapping] \cup {None}]
BY DEF TypeOK, Finish, Mapping

\* News for the watches keep the watches typed.
LEMMA AnnounceType ==
  ASSUME TypeOK, NEW x \in Subnets, NEW id \in PoolIDs, Announce(x, id)
  PROVE  watch' \in [Nodes -> Seq([subnet : Subnets, id : PoolIDs])]
<1> DEFINE Event == [subnet : Subnets, id : PoolIDs]
<1>1. [subnet |-> x, id |-> id] \in Event
  OBVIOUS
<1>2. \A m \in Nodes : Append(watch[m], [subnet |-> x, id |-> id]) \in Seq(Event)
  BY <1>1, AppendProperties DEF TypeOK
<1> QED
  BY <1>2 DEF Announce, TypeOK

\* A subnet taken off the list leaves a typed list.
LEMMA TakeOffType ==
  ASSUME TypeOK, NEW n \in Nodes, NEW i \in DOMAIN unusedSubnets[n], TakeOff(n, i)
  PROVE  unusedSubnets' \in [Nodes -> Seq(Subnets \cup {None})]
<1>1. [unusedSubnets[n] EXCEPT ![i] = None] \in Seq(Subnets \cup {None})
  BY ExceptSeq DEF TypeOK
<1> QED
  BY <1>1 DEF TakeOff, TypeOK

\* One turn of the loop keeps the types.
LEMMA TurnType ==
  ASSUME TypeOK, NEW n \in Nodes, Turn(n)
  PROVE  TypeOK'
<1>1. op[n] \in [id : PoolIDs, found : Mapping] /\ op[n] # None
  BY DEF Turn, TypeOK
<1>2. CASE Exhausted(n)
  BY <1>1, <1>2, FinishType DEF Exhausted, Turn, TypeOK, docker
<1>3. ASSUME NEW i \in DOMAIN unusedSubnets[n], IsFirst(n, i),
             \/ ReserveNew(n, i)
             \/ ReserveExisting(n, i)
             \/ TryNext(n, i)
             \/ ReserveError(n, i)
      PROVE  TypeOK'
  <2>1. unusedSubnets[n][i] \in Subnets
    BY <1>3 DEF IsFirst, TypeOK
  <2>2. CASE ReserveNew(n, i)
    BY <1>1, <2>1, <2>2, FinishType, AnnounceType, TakeOffType
    DEF ReserveNew, Turn, TypeOK, docker
  <2>3. CASE ReserveExisting(n, i)
    BY <1>1, <2>1, <2>3, FinishType, TakeOffType
    DEF ReserveExisting, Turn, TypeOK, docker
  <2>4. CASE TryNext(n, i)
    <3>1. reservedFor[unusedSubnets[n][i]] \in PoolIDs
      BY <2>1, <2>4 DEF TryNext, TypeOK
    <3>2. op' \in [Nodes -> [id : PoolIDs, found : Mapping] \cup {None}]
      BY <1>1, <2>1, <2>4, <3>1 DEF TryNext, TypeOK, Mapping
    <3> QED
      BY <2>4, <3>2, TakeOffType DEF TryNext, Turn, TypeOK, docker
  <2>5. CASE ReserveError(n, i)
    <3>1. watch' \in [Nodes -> Seq([subnet : Subnets, id : PoolIDs])]
      BY <1>1, <2>1, <2>5, AnnounceType DEF ReserveError, TypeOK
    <3>2. reservedFor' \in [Subnets -> PoolIDs \cup {None}]
      BY <1>1, <2>1, <2>5 DEF ReserveError, TypeOK
    <3> QED
      BY <1>1, <2>5, <3>1, <3>2, FinishType DEF ReserveError, Turn, TypeOK, docker
  <2> QED
    BY <1>3, <2>2, <2>3, <2>4, <2>5
<1> QED
  BY <1>2, <1>3 DEF Turn

\* Every step keeps the types.
LEMMA TypeStep == TypeOK /\ [Next]_vars => TypeOK'
<1> SUFFICES ASSUME TypeOK, [Next]_vars PROVE TypeOK'
  OBVIOUS
<1>a. /\ changes \in [PoolIDs -> Nat]
      /\ handled \in [Nodes -> [PoolIDs -> Nat]]
      /\ op \in [Nodes -> [id : PoolIDs, found : Mapping] \cup {None}]
  BY DEF TypeOK
<1>b. NoPools \in Mapping
  BY DEF NoPools, Mapping
<1>c. ASSUME NEW n \in Nodes, NEW id \in PoolIDs, Handle(n, id)
      PROVE  handled' \in [Nodes -> [PoolIDs -> Nat]]
  BY <1>a, <1>c DEF Handle
<1>1. ASSUME NEW id \in PoolIDs, NetworkCreatedOrDeleted(id) PROVE TypeOK'
  <2>1. changes' \in [PoolIDs -> Nat]
    BY <1>a, <1>1 DEF NetworkCreatedOrDeleted
  <2> QED
    BY <1>1, <2>1 DEF NetworkCreatedOrDeleted, TypeOK
<1>2. ASSUME NEW n \in Nodes, NEW id \in PoolIDs, RequestPool(n, id) \/ NetworkAdded(n, id)
      PROVE  TypeOK'
  <2>1. op' \in [Nodes -> [id : PoolIDs, found : Mapping] \cup {None}]
    <3>1. [id |-> id, found |-> NoPools] \in [id : PoolIDs, found : Mapping]
      BY <1>b
    <3> QED
      BY <1>2, <1>a, <3>1 DEF RequestPool, NetworkAdded, GetNewOrExistingPool
  <2>2. handled' \in [Nodes -> [PoolIDs -> Nat]]
    BY <1>2, <1>a, <1>c DEF RequestPool, NetworkAdded
  <2> QED
    BY <1>2, <2>1, <2>2 DEF RequestPool, NetworkAdded, GetNewOrExistingPool, TypeOK
<1>3. ASSUME NEW n \in Nodes, NEW id \in PoolIDs, NetworkRemoved(n, id)
      PROVE  TypeOK'
  <2>1. handled' \in [Nodes -> [PoolIDs -> Nat]]
    BY <1>3, <1>c DEF NetworkRemoved
  <2>2. /\ reservedFor' \in [Subnets -> PoolIDs \cup {None}]
        /\ pools' \in [Nodes -> Mapping]
    <3>1. CASE pools[n][id] = None
      BY <1>3, <3>1 DEF NetworkRemoved, TypeOK
    <3>2. CASE pools[n][id] # None /\ ReleaseOwn(n, id)
      BY <3>2 DEF ReleaseOwn, Forget, TypeOK, Mapping
    <3>3. CASE pools[n][id] # None /\ ReleaseOthers(n, id)
      <4>1. pools[n][id] \in Subnets /\ reservedFor[pools[n][id]] \in PoolIDs
        BY <3>3 DEF ReleaseOthers, TypeOK, Mapping
      <4> QED
        BY <3>3, <4>1 DEF ReleaseOthers, TypeOK, Mapping
    <3>4. CASE pools[n][id] # None /\ ReleaseError(n, id)
      BY <3>4 DEF ReleaseError, Forget, TypeOK, Mapping
    <3> QED
      BY <1>3, <3>1, <3>2, <3>3, <3>4 DEF NetworkRemoved
  <2>3. unusedSubnets' \in [Nodes -> Seq(Subnets \cup {None})]
    <3>1. ASSUME pools[n][id] # None
          PROVE  Append(unusedSubnets[n], pools[n][id]) \in Seq(Subnets \cup {None})
      BY <3>1, AppendProperties DEF TypeOK, Mapping
    <3> QED
      BY <1>3, <3>1
      DEF NetworkRemoved, ReleaseOwn, ReleaseOthers, ReleaseError, PutBack, TypeOK
  <2> QED
    BY <1>3, <2>1, <2>2, <2>3 DEF NetworkRemoved, TypeOK
<1>4. ASSUME NEW n \in Nodes, Turn(n) PROVE TypeOK'
  BY <1>4, TurnType
<1>5. ASSUME NEW n \in Nodes, SubnetUsageChanged(n) PROVE TypeOK'
  <2>1. /\ Head(watch[n]) \in [subnet : Subnets, id : PoolIDs]
        /\ Tail(watch[n]) \in Seq([subnet : Subnets, id : PoolIDs])
    BY <1>5, HeadTailProperties DEF SubnetUsageChanged, TypeOK
  <2>2. \A x : Without(unusedSubnets[n], x) \in Seq(Subnets \cup {None})
    <3>1. /\ unusedSubnets[n] \in Seq(Subnets \cup {None})
          /\ DOMAIN unusedSubnets[n] = 1 .. Len(unusedSubnets[n])
          /\ Len(unusedSubnets[n]) \in Nat
      BY DEF TypeOK
    <3> QED
      BY <3>1 DEF Without
  <2> QED
    <3>0. PICK x \in Subnets, id \in PoolIDs :
            /\ pools' = pools \/ pools' = [pools EXCEPT ![n][id] = x]
            /\ \/ unusedSubnets' = unusedSubnets
               \/ unusedSubnets' = [unusedSubnets EXCEPT ![n] = Without(@, x)]
      BY <1>5, <2>1 DEF SubnetUsageChanged
    <3>1. pools' \in [Nodes -> Mapping]
      <4>1. pools \in [Nodes -> Mapping]
        BY DEF TypeOK
      <4> QED
        BY <3>0, <4>1 DEF Mapping
    <3>2. unusedSubnets' \in [Nodes -> Seq(Subnets \cup {None})]
      <4>1. unusedSubnets \in [Nodes -> Seq(Subnets \cup {None})]
        BY DEF TypeOK
      <4> QED
        BY <3>0, <2>2, <4>1
    <3>3. watch' \in [Nodes -> Seq([subnet : Subnets, id : PoolIDs])]
      BY <1>5, <2>1 DEF SubnetUsageChanged, TypeOK
    <3> QED
      BY <1>5, <3>1, <3>2, <3>3 DEF SubnetUsageChanged, TypeOK, docker
<1>6. ASSUME NEW n \in Nodes, Load(n) PROVE TypeOK'
  <2>1. \A known \in Mapping : Fresh(known) \in Seq(Subnets \cup {None})
    <3> SUFFICES ASSUME NEW known \in Mapping
                 PROVE  Fresh(known) \in Seq(Subnets \cup {None})
      OBVIOUS
    <3>1. Fresh(known) \in [1 .. NumSubnets -> Subnets \cup {None}]
      BY DEF Fresh, Subnets
    <3> QED
      BY <3>1, SpaceAssumption, SeqDef
  <2> QED
    <3>1. PICK known \in Mapping :
            /\ pools' = [pools EXCEPT ![n] = known]
            /\ unusedSubnets' = [unusedSubnets EXCEPT ![n] = Fresh(known)]
      BY <1>6 DEF Load
    <3>2. pools' \in [Nodes -> Mapping]
      BY <3>1 DEF TypeOK
    <3>3. unusedSubnets' \in [Nodes -> Seq(Subnets \cup {None})]
      BY <2>1, <3>1 DEF TypeOK
    <3>4. status' \in [Nodes -> {"down", "loaded", "up"}]
      BY <1>6 DEF Load, TypeOK
    <3> QED
      BY <1>6, <3>2, <3>3, <3>4 DEF Load, TypeOK, docker
<1>7. ASSUME NEW n \in Nodes, StartWatch(n) PROVE TypeOK'
  <2>1. ASSUME NEW id \in PoolIDs, Exists(id) PROVE changes[id] - 1 \in Nat
    <3>1. changes[id] \in Nat /\ changes[id] % 2 = 1
      BY <1>a, <2>1 DEF Exists
    <3> QED
      BY <3>1
  <2>2. handled' \in [Nodes -> [PoolIDs -> Nat]]
    BY <1>7, <1>a, <2>1 DEF StartWatch
  <2> QED
    <3>1. status' \in [Nodes -> {"down", "loaded", "up"}]
      BY <1>7 DEF StartWatch, TypeOK
    <3> QED
      BY <1>7, <2>2, <3>1 DEF StartWatch, TypeOK
<1>8. ASSUME NEW n \in Nodes, Crash(n) PROVE TypeOK'
  <2>1. <<>> \in Seq(Subnets \cup {None}) /\ <<>> \in Seq([subnet : Subnets, id : PoolIDs])
    OBVIOUS
  <2> QED
    BY <1>8, <1>b, <2>1 DEF Crash, TypeOK, docker
<1>9. CASE UNCHANGED vars
  BY <1>9 DEF vars, docker, TypeOK
<1> QED
  BY <1>1, <1>2, <1>3, <1>4, <1>5, <1>6, <1>7, <1>8, <1>9 DEF Next

\* The state variables of the address space keep their types.
THEOREM TypeCorrect == Spec => []TypeOK
<1>1. Init => TypeOK
  BY DEF Init, TypeOK, Mapping, NoPools
<1> QED
  BY <1>1, TypeStep, PTL DEF Spec

-----------------------------------------------------------------------------
(* etcd's reservations.                                                    *)

\* A network in its first life now was in it before the step.
LEMMA FirstLifeBefore ==
  ASSUME TypeOK, [Next]_vars, NEW id \in PoolIDs, FirstLife(id)'
  PROVE  FirstLife(id)
<1>1. CASE UNCHANGED changes
  BY <1>1 DEF FirstLife
<1>2. ASSUME NEW j \in PoolIDs, NetworkCreatedOrDeleted(j) PROVE FirstLife(id)
  <2>1. changes[id] \in Nat /\ changes'[id] \in {changes[id], changes[id] + 1}
    BY <1>2 DEF NetworkCreatedOrDeleted, TypeOK
  <2> QED
    BY <2>1 DEF FirstLife
<1> QED
  BY <1>1, <1>2
  DEF Next, RequestPool, NetworkAdded, GetNewOrExistingPool, NetworkRemoved, Turn,
      SubnetUsageChanged, Load, StartWatch, Crash, vars, docker

\* Only the removal of a network that was deleted gives its subnet back.
LEMMA RemovedIsDeleted ==
  ASSUME TypeOK, NEW n \in Nodes, NEW id \in PoolIDs, NetworkRemoved(n, id)
  PROVE  ~FirstLife(id) /\ ~FirstLife(id)'
<1>1. /\ handled[n][id] \in Nat /\ changes[id] \in Nat
      /\ handled[n][id] < changes[id] /\ handled[n][id] % 2 = 1
      /\ changes' = changes
  BY DEF NetworkRemoved, HasNews, TypeOK
<1>2. handled[n][id] # 0
  BY <1>1
<1> QED
  BY <1>1, <1>2 DEF FirstLife

\* Every step maps to a step of the subnets' ledger or to a stutter.
LEMMA LedgerStep == TypeOK /\ [Next]_vars => [Ledger!Next]_(Ledger!vars)
<1> SUFFICES ASSUME TypeOK, [Next]_vars PROVE [Ledger!Next]_(Ledger!vars)
  OBVIOUS
<1>1. ASSUME NEW n \in Nodes, Turn(n) PROVE [Ledger!Next]_(Ledger!vars)
  <2>0. EverDeleted' = EverDeleted
    BY <1>1 DEF Turn, docker, EverDeleted, FirstLife
  <2>1. CASE UNCHANGED reservedFor
    BY <2>0, <2>1 DEF Ledger!vars
  <2>2. CASE \E i \in DOMAIN unusedSubnets[n] :
               /\ IsFirst(n, i)
               /\ reservedFor[unusedSubnets[n][i]] = None
               /\ reservedFor' = [reservedFor EXCEPT ![unusedSubnets[n][i]] = op[n].id]
    <3>1. PICK i \in DOMAIN unusedSubnets[n] :
                 /\ IsFirst(n, i)
                 /\ reservedFor[unusedSubnets[n][i]] = None
                 /\ reservedFor' = [reservedFor EXCEPT ![unusedSubnets[n][i]] = op[n].id]
      BY <2>2
    <3>2. unusedSubnets[n][i] \in Subnets
      BY <3>1 DEF IsFirst, TypeOK
    <3>3. op[n].id \in PoolIDs
      BY <1>1 DEF Turn, TypeOK
    <3> QED
      BY <2>0, <3>1, <3>2, <3>3 DEF Ledger!Next, Ledger!Take
  <2> QED
    BY <1>1, <2>1, <2>2
    DEF Turn, ReserveNew, ReserveExisting, TryNext, ReserveError, Exhausted
<1>2. ASSUME NEW n \in Nodes, NEW id \in PoolIDs, NetworkRemoved(n, id)
      PROVE  [Ledger!Next]_(Ledger!vars)
  <2>0. EverDeleted' = EverDeleted /\ id \in EverDeleted
    BY <1>2, RemovedIsDeleted DEF NetworkRemoved, EverDeleted, FirstLife
  <2>1. CASE UNCHANGED reservedFor
    BY <2>0, <2>1 DEF Ledger!vars
  <2>2. CASE /\ pools[n][id] \in Subnets
             /\ ReleaseOwn(n, id) \/ ReleaseError(n, id)
    <3> DEFINE x == pools[n][id]
    <3>1. CASE reservedFor[x] = id
      BY <2>0, <2>1, <2>2, <3>1
      DEF ReleaseOwn, ReleaseError, Ledger!Next, Ledger!GiveBack
    <3>2. CASE reservedFor[x] # id
      <4>1. reservedFor' = reservedFor
        BY <2>2, <3>2 DEF ReleaseOwn, ReleaseError, TypeOK
      <4> QED
        BY <2>0, <4>1 DEF Ledger!vars
    <3> QED
      BY <3>1, <3>2
  <2>3. pools[n][id] # None => pools[n][id] \in Subnets
    BY DEF TypeOK, Mapping
  <2> QED
    BY <1>2, <2>1, <2>2, <2>3 DEF NetworkRemoved, ReleaseOthers
<1>3. CASE UNCHANGED <<reservedFor, changes>>
  BY <1>3 DEF Ledger!vars, EverDeleted, FirstLife
<1>4. ASSUME NEW id \in PoolIDs, NetworkCreatedOrDeleted(id)
      PROVE  [Ledger!Next]_(Ledger!vars)
  <2>1. UNCHANGED reservedFor
    BY <1>4 DEF NetworkCreatedOrDeleted
  <2>2. \A j \in PoolIDs : FirstLife(j)' => FirstLife(j)
    BY FirstLifeBefore
  <2>3. \A j \in PoolIDs : j # id => (FirstLife(j)' <=> FirstLife(j))
    BY <1>4 DEF NetworkCreatedOrDeleted, TypeOK, FirstLife
  <2>4. EverDeleted' \in {EverDeleted, EverDeleted \cup {id}}
    BY <2>2, <2>3 DEF EverDeleted
  <2> QED
    BY <2>1, <2>4 DEF Ledger!Next, Ledger!Delete, Ledger!vars
<1> QED
  BY <1>1, <1>2, <1>3, <1>4
  DEF Next, RequestPool, NetworkAdded, GetNewOrExistingPool, SubnetUsageChanged,
      Load, StartWatch, Crash, vars, docker

\* The cluster's reservations follow the ledger, whatever the nodes miss, lose
\* or forget.
THEOREM SpaceImplementsLedger == Spec => LedgerImplemented
<1>1. Init => Ledger!Init
  BY DEF Init, Ledger!Init, EverDeleted, FirstLife
<1> QED
  BY <1>1, LedgerStep, TypeCorrect, PTL DEF Spec, LedgerImplemented, Ledger!Spec

-----------------------------------------------------------------------------
(* Networks that nobody has deleted yet.                                   *)

\* Whatever a node remembers of such a network, it has from etcd: its pools,
\* the pools it ran into during a request, and the news of its watch.
FoundReserved ==
  \A n \in Nodes, id \in PoolIDs :
    op[n] # None /\ FirstLife(id) /\ op[n].found[id] # None =>
      reservedFor[op[n].found[id]] = id

NewsReserved ==
  \A n \in Nodes : \A i \in DOMAIN watch[n] :
    FirstLife(watch[n][i].id) => reservedFor[watch[n][i].subnet] = watch[n][i].id

LiveInv == LivePoolsReserved /\ FoundReserved /\ NewsReserved

\* No step takes a reservation from a network in its first life.
LEMMA KeepsReservation ==
  ASSUME TypeOK, [Next]_vars, NEW id \in PoolIDs, FirstLife(id)',
         NEW x \in Subnets, reservedFor[x] = id
  PROVE  reservedFor'[x] = id
<1>1. ASSUME NEW n \in Nodes, Turn(n) PROVE reservedFor'[x] = id
  BY <1>1, SpaceAssumption
  DEF Turn, ReserveNew, ReserveExisting, TryNext, ReserveError, Exhausted, TypeOK
<1>2. ASSUME NEW n \in Nodes, NEW j \in PoolIDs, NetworkRemoved(n, j)
      PROVE  reservedFor'[x] = id
  <2>1. j # id
    BY <1>2, RemovedIsDeleted
  <2> QED
    BY <1>2, <2>1, SpaceAssumption
    DEF NetworkRemoved, ReleaseOwn, ReleaseOthers, ReleaseError, TypeOK
<1>3. CASE UNCHANGED reservedFor
  BY <1>3
<1> QED
  BY <1>1, <1>2, <1>3
  DEF Next, NetworkCreatedOrDeleted, RequestPool, NetworkAdded, GetNewOrExistingPool,
      SubnetUsageChanged, Load, StartWatch, Crash, vars

\* The pools that a finished request leaves behind.
LEMMA FinishPools ==
  ASSUME TypeOK, NEW n \in Nodes, op[n] # None, NEW mine,
         Finish(n, op[n].found, mine), NEW m \in Nodes, NEW id \in PoolIDs
  PROVE  pools'[m][id] \in
           {pools[m][id]} \cup
           (IF m = n THEN {op[n].found[id]} \ {None} ELSE {}) \cup
           (IF m = n /\ id = op[n].id THEN {mine} \ {None} ELSE {})
BY DEF Finish, TypeOK, Mapping

\* Where a node's pools, and what a request found, come from.
LEMMA PoolsSource ==
  ASSUME TypeOK, [Next]_vars, NEW n \in Nodes, NEW id \in PoolIDs,
         NEW x \in Subnets, pools'[n][id] = x
  PROVE  \/ pools[n][id] = x
         \/ op[n] # None /\ op[n].found[id] = x
         \/ \E i \in DOMAIN watch[n] : watch[n][i] = [subnet |-> x, id |-> id]
         \/ reservedFor[x] = id
         \/ reservedFor'[x] = id
<1> DEFINE Goal == \/ pools[n][id] = x
                   \/ op[n] # None /\ op[n].found[id] = x
                   \/ \E i \in DOMAIN watch[n] : watch[n][i] = [subnet |-> x, id |-> id]
                   \/ reservedFor[x] = id
                   \/ reservedFor'[x] = id
<1>0. x # None
  BY SpaceAssumption
<1>1. ASSUME NEW m \in Nodes, Turn(m) PROVE Goal
  <2>1. op[m] # None
    BY <1>1 DEF Turn
  <2>2. CASE Finish(m, op[m].found, None)
    BY <1>0, <2>1, <2>2, FinishPools
  <2>3. ASSUME NEW i \in DOMAIN unusedSubnets[m], IsFirst(m, i),
               ReserveNew(m, i) \/ ReserveExisting(m, i)
        PROVE  Goal
    <3>1. unusedSubnets[m][i] \in Subnets
      BY <2>3 DEF IsFirst, TypeOK
    <3>2. reservedFor'[unusedSubnets[m][i]] = op[m].id
      BY <2>3, <3>1 DEF ReserveNew, ReserveExisting, TypeOK
    <3>3. Finish(m, op[m].found, unusedSubnets[m][i])
      BY <2>3 DEF ReserveNew, ReserveExisting
    <3> QED
      BY <1>0, <2>1, <3>2, <3>3, FinishPools
  <2>4. CASE UNCHANGED pools
    BY <2>4
  <2> QED
    BY <1>1, <2>2, <2>3, <2>4 DEF Turn, TryNext, ReserveError, Exhausted
<1>2. ASSUME NEW m \in Nodes, NEW j \in PoolIDs, NetworkRemoved(m, j) PROVE Goal
  <2>1. CASE pools' = pools \/ Forget(m, j)
    <3>1. pools \in [Nodes -> Mapping]
      BY DEF TypeOK
    <3> QED
      BY <1>0, <2>1, <3>1 DEF Forget, Mapping
  <2>2. CASE pools[m][j] # None /\ ReleaseOthers(m, j)
    <3> DEFINE y == pools[m][j]
    <3>1. y \in Subnets
      BY <2>2 DEF TypeOK, Mapping
    <3>2. reservedFor[y] \in PoolIDs
      BY <2>2, <3>1 DEF ReleaseOthers, TypeOK
    <3>3. pools' = [pools EXCEPT ![m][j] = None, ![m][reservedFor[y]] = y]
      BY <2>2 DEF ReleaseOthers
    <3>4. pools \in [Nodes -> Mapping]
      BY DEF TypeOK
    <3> QED
      BY <1>0, <3>2, <3>3, <3>4 DEF Mapping
  <2> QED
    BY <1>2, <2>1, <2>2 DEF NetworkRemoved, ReleaseOwn, ReleaseError
<1>3. ASSUME NEW m \in Nodes, SubnetUsageChanged(m) PROVE Goal
  <2> DEFINE e == watch[m][1]
  <2>1. watch[m] # <<>> /\ watch[m] \in Seq([subnet : Subnets, id : PoolIDs])
    BY <1>3 DEF SubnetUsageChanged, TypeOK
  <2>2. 1 \in DOMAIN watch[m] /\ Head(watch[m]) = e
    BY <2>1, EmptySeq, LenProperties, HeadTailProperties
  <2>3. e \in [subnet : Subnets, id : PoolIDs]
    BY <2>1, <2>2, ElementOfSeq, LenProperties
  <2>4. pools' = pools \/ pools' = [pools EXCEPT ![m][e.id] = e.subnet]
    BY <1>3, <2>2 DEF SubnetUsageChanged
  <2>5. pools \in [Nodes -> Mapping] /\ e.id \in PoolIDs
    BY <2>3 DEF TypeOK
  <2>6. pools[n][id] = x \/ (m = n /\ e.id = id /\ e.subnet = x)
    BY <2>4, <2>5 DEF Mapping
  <2>7. e = [subnet |-> e.subnet, id |-> e.id]
    BY <2>3
  <2> QED
    BY <2>2, <2>6, <2>7
<1>4. ASSUME NEW m \in Nodes, Load(m) PROVE Goal
  BY <1>0, <1>4 DEF Load, TypeOK, Mapping
<1>5. ASSUME NEW m \in Nodes, Crash(m) PROVE Goal
  BY <1>0, <1>5 DEF Crash, NoPools, TypeOK
<1>6. CASE UNCHANGED pools
  BY <1>6
<1> QED
  BY <1>1, <1>2, <1>3, <1>4, <1>5, <1>6
  DEF Next, NetworkCreatedOrDeleted, RequestPool, NetworkAdded, GetNewOrExistingPool,
      StartWatch, vars

\* What a call found comes from etcd.
LEMMA FoundSource ==
  ASSUME TypeOK, [Next]_vars, NEW n \in Nodes, NEW id \in PoolIDs,
         NEW x \in Subnets, op'[n] # None, op'[n].found[id] = x
  PROVE  \/ op[n] # None /\ op[n].found[id] = x
         \/ reservedFor[x] = id
<1>0. x # None
  BY SpaceAssumption
<1>1. ASSUME NEW m \in Nodes, Turn(m)
      PROVE  (op[n] # None /\ op[n].found[id] = x) \/ reservedFor[x] = id
  <2>1. op[m] \in [id : PoolIDs, found : Mapping]
    BY <1>1 DEF Turn, TypeOK
  <2>2. ASSUME NEW mine, Finish(m, op[m].found, mine)
        PROVE  op[n] # None /\ op[n].found[id] = x
    BY <2>2 DEF Finish, TypeOK
  <2>3. ASSUME NEW i \in DOMAIN unusedSubnets[m], IsFirst(m, i), TryNext(m, i)
        PROVE  (op[n] # None /\ op[n].found[id] = x) \/ reservedFor[x] = id
    <3>1. unusedSubnets[m][i] \in Subnets
      BY <2>3 DEF IsFirst, TypeOK
    <3>2. reservedFor[unusedSubnets[m][i]] \in PoolIDs
      BY <2>3, <3>1 DEF TryNext, TypeOK
    <3>3. op[m] # None
      BY <1>1 DEF Turn
    <3> QED
      BY <2>1, <2>3, <3>2, <3>3 DEF TryNext, TypeOK, Mapping
  <2> QED
    BY <1>1, <2>2, <2>3 DEF Turn, ReserveNew, ReserveExisting, ReserveError, Exhausted
<1>2. ASSUME NEW m \in Nodes, NEW j \in PoolIDs, GetNewOrExistingPool(m, j)
      PROVE  op[n] # None /\ op[n].found[id] = x
  BY <1>0, <1>2 DEF GetNewOrExistingPool, NoPools, TypeOK
<1>3. ASSUME NEW m \in Nodes, Crash(m) PROVE op[n] # None /\ op[n].found[id] = x
  BY <1>3 DEF Crash, TypeOK
<1>4. CASE UNCHANGED op
  BY <1>4
<1> QED
  BY <1>1, <1>2, <1>3, <1>4
  DEF Next, NetworkCreatedOrDeleted, RequestPool, NetworkAdded, NetworkRemoved,
      SubnetUsageChanged, Load, StartWatch, vars

\* What a watch has to deliver was there before or has just been reserved.
LEMMA NewsSource ==
  ASSUME TypeOK, [Next]_vars, NEW n \in Nodes, NEW i \in DOMAIN watch'[n]
  PROVE  \/ \E j \in DOMAIN watch[n] : watch'[n][i] = watch[n][j]
         \/ reservedFor'[watch'[n][i].subnet] = watch'[n][i].id
<1> DEFINE Event == [subnet : Subnets, id : PoolIDs]
           Goal == \/ \E j \in DOMAIN watch[n] : watch'[n][i] = watch[n][j]
                   \/ reservedFor'[watch'[n][i].subnet] = watch'[n][i].id
<1>1. /\ watch[n] \in Seq(Event)
      /\ Len(watch[n]) \in Nat
      /\ DOMAIN watch[n] = 1 .. Len(watch[n])
  <2>1. watch[n] \in Seq(Event)
    BY DEF TypeOK
  <2> QED
    BY <2>1, LenProperties
<1>2. ASSUME NEW x \in Subnets, NEW id \in PoolIDs,
             Announce(x, id), reservedFor'[x] = id
      PROVE  Goal
  <2> DEFINE e == [subnet |-> x, id |-> id]
  <2>1. CASE watch'[n] = Append(watch[n], e)
    <3>1. e \in Event
      OBVIOUS
    <3>2. /\ DOMAIN watch'[n] = 1 .. Len(watch[n]) + 1
          /\ \A j \in 1 .. Len(watch[n]) : watch'[n][j] = watch[n][j]
          /\ watch'[n][Len(watch[n]) + 1] = e
      BY <1>1, <2>1, <3>1, AppendProperties, LenProperties
    <3>3. i \in 1 .. Len(watch[n]) \/ i = Len(watch[n]) + 1
      BY <1>1, <3>2
    <3> QED
      BY <1>1, <1>2, <3>2, <3>3
  <2>2. CASE watch'[n] = watch[n]
    BY <2>2
  <2> QED
    BY <1>2, <2>1, <2>2 DEF Announce
<1>3. ASSUME NEW m \in Nodes, Turn(m) PROVE Goal
  <2>1. op[m].id \in PoolIDs
    BY <1>3 DEF Turn, TypeOK
  <2>2. ASSUME NEW k \in DOMAIN unusedSubnets[m], IsFirst(m, k),
               reservedFor' = [reservedFor EXCEPT ![unusedSubnets[m][k]] = op[m].id],
               Announce(unusedSubnets[m][k], op[m].id)
        PROVE  Goal
    <3>1. unusedSubnets[m][k] \in Subnets
      BY <2>2 DEF IsFirst, TypeOK
    <3>2. reservedFor'[unusedSubnets[m][k]] = op[m].id
      BY <2>2, <3>1 DEF TypeOK
    <3> QED
      BY <1>2, <2>1, <2>2, <3>1, <3>2
  <2>3. CASE UNCHANGED watch
    BY <2>3
  <2> QED
    BY <1>3, <2>2, <2>3
    DEF Turn, ReserveNew, ReserveExisting, TryNext, ReserveError, Exhausted
<1>4. ASSUME NEW m \in Nodes, SubnetUsageChanged(m) PROVE Goal
  <2>1. CASE m = n
    <3>1. watch[n] # <<>> /\ watch'[n] = Tail(watch[n])
      BY <1>4, <2>1 DEF SubnetUsageChanged, TypeOK
    <3>2. /\ Tail(watch[n]) \in Seq(Event)
          /\ Len(Tail(watch[n])) = Len(watch[n]) - 1
          /\ \A j \in 1 .. Len(Tail(watch[n])) : Tail(watch[n])[j] = watch[n][j + 1]
      BY <1>1, <3>1, HeadTailProperties
    <3>3. i \in 1 .. Len(watch[n]) - 1
      BY <3>1, <3>2, LenProperties
    <3>4. i + 1 \in DOMAIN watch[n]
      BY <1>1, <3>3
    <3> QED
      BY <3>1, <3>2, <3>3, <3>4
  <2>2. CASE m # n
    BY <1>4, <2>2 DEF SubnetUsageChanged, TypeOK
  <2> QED
    BY <2>1, <2>2
<1>5. ASSUME NEW m \in Nodes, Crash(m) PROVE Goal
  BY <1>5 DEF Crash, TypeOK
<1>6. CASE UNCHANGED watch
  BY <1>6
<1> QED
  BY <1>3, <1>4, <1>5, <1>6
  DEF Next, NetworkCreatedOrDeleted, RequestPool, NetworkAdded, GetNewOrExistingPool,
      NetworkRemoved, Load, StartWatch, vars

\* Every step keeps pools, calls and watches in agreement with etcd.
LEMMA LiveStep == TypeOK /\ LiveInv /\ [Next]_vars => LiveInv'
<1> SUFFICES ASSUME TypeOK, LiveInv, [Next]_vars PROVE LiveInv'
  OBVIOUS
<1>t. TypeOK'
  BY TypeStep
<1>k. ASSUME NEW id \in PoolIDs, FirstLife(id)', NEW x \in Subnets, reservedFor[x] = id
      PROVE  reservedFor'[x] = id
  BY <1>k, KeepsReservation
<1>b. ASSUME NEW id \in PoolIDs, FirstLife(id)' PROVE FirstLife(id)
  BY <1>b, FirstLifeBefore
<1>f. ASSUME NEW n \in Nodes, NEW id \in PoolIDs, NEW x \in Subnets, FirstLife(id)',
             op[n] # None, op[n].found[id] = x
      PROVE  reservedFor'[x] = id
  BY <1>b, <1>f, <1>k, SpaceAssumption DEF LiveInv, FoundReserved
<1>1. LivePoolsReserved'
  <2> SUFFICES ASSUME NEW n \in Nodes, NEW id \in PoolIDs, FirstLife(id)',
                      NEW x \in Subnets, pools'[n][id] = x
               PROVE  reservedFor'[x] = id
    <3>1. ASSUME NEW n \in Nodes, NEW id \in PoolIDs
          PROVE  pools'[n][id] \in Subnets \cup {None}
      BY <1>t DEF TypeOK, Mapping
    <3> QED
      BY <3>1 DEF LivePoolsReserved, FirstLife
  <2>1. CASE pools[n][id] = x
    BY <1>b, <1>k, <2>1, SpaceAssumption DEF LiveInv, LivePoolsReserved
  <2>2. ASSUME NEW i \in DOMAIN watch[n], watch[n][i] = [subnet |-> x, id |-> id]
        PROVE  reservedFor'[x] = id
    BY <1>b, <1>k, <2>2 DEF LiveInv, NewsReserved
  <2> QED
    BY <1>f, <1>k, <2>1, <2>2, PoolsSource
<1>2. FoundReserved'
  <2> SUFFICES ASSUME NEW n \in Nodes, NEW id \in PoolIDs, FirstLife(id)',
                      NEW x \in Subnets, op'[n] # None, op'[n].found[id] = x
               PROVE  reservedFor'[x] = id
    <3>1. ASSUME NEW n \in Nodes, NEW id \in PoolIDs, op'[n] # None
          PROVE  op'[n].found[id] \in Subnets \cup {None}
      BY <1>t, <3>1 DEF TypeOK, Mapping
    <3> QED
      BY <3>1 DEF FoundReserved, FirstLife
  <2> QED
    BY <1>f, <1>k, FoundSource
<1>3. NewsReserved'
  <2> SUFFICES ASSUME NEW n \in Nodes, NEW i \in DOMAIN watch'[n],
                      changes'[watch'[n][i].id] <= 1
               PROVE  reservedFor'[watch'[n][i].subnet] = watch'[n][i].id
    BY DEF NewsReserved, FirstLife
  <2>1. ASSUME NEW j \in DOMAIN watch[n], watch'[n][i] = watch[n][j]
        PROVE  reservedFor'[watch'[n][i].subnet] = watch'[n][i].id
    <3>1. watch[n][j].id \in PoolIDs /\ watch[n][j].subnet \in Subnets
      <4>1. watch[n] \in Seq([subnet : Subnets, id : PoolIDs])
        BY DEF TypeOK
      <4>2. watch[n][j] \in [subnet : Subnets, id : PoolIDs]
        BY <4>1, ElementOfSeq, LenProperties
      <4> QED
        BY <4>2
    <3> DEFINE id == watch[n][j].id
               x == watch[n][j].subnet
    <3>2. ASSUME NEW j1 \in PoolIDs, changes'[j1] <= 1 PROVE FirstLife(j1)'
      BY <3>2 DEF FirstLife
    <3>3. FirstLife(id)
      BY <1>b, <2>1, <3>1, <3>2
    <3>4. reservedFor[x] = id
      BY <3>3 DEF LiveInv, NewsReserved
    <3>5. ASSUME NEW j1 \in PoolIDs, NEW y \in Subnets, changes'[j1] <= 1,
                 reservedFor[y] = j1
          PROVE  reservedFor'[y] = j1
      BY <1>k, <3>2, <3>5
    <3> QED
      BY <2>1, <3>1, <3>4, <3>5
  <2> QED
    BY <2>1, NewsSource
<1> QED
  BY <1>1, <1>2, <1>3 DEF LiveInv

\* Two networks that exist for the first time never share a subnet, on any two
\* nodes: each node's subnet is reserved for its network.
THEOREM LivePoolsStayReserved == Spec => []LivePoolsReserved
<1>1. Init => LiveInv
  BY DEF Init, LiveInv, LivePoolsReserved, FoundReserved, NewsReserved, NoPools
<1>2. LiveInv => LivePoolsReserved
  BY DEF LiveInv
<1> QED
  BY <1>1, <1>2, LiveStep, TypeCorrect, PTL DEF Spec

-----------------------------------------------------------------------------
(* One subnet for each network, while none was deleted.                    *)

\* A node that looks for a subnet knows none for that network, and has not run
\* into one: it would have taken it.
RequestOpen ==
  \A n \in Nodes :
    op[n] # None =>
      /\ status[n] = "up"
      /\ pools[n][op[n].id] = None
      /\ op[n].found[op[n].id] = None

\* The subnets in use are the first ones, and every node offers the others in
\* their order.
UsedFirst ==
  NothingDeleted =>
    \A x, y \in Subnets : x < y /\ reservedFor[y] # None => reservedFor[x] # None

OfferedInOrder ==
  NothingDeleted =>
    \A n \in Nodes : \A i, j \in DOMAIN unusedSubnets[n] :
      i < j /\ unusedSubnets[n][i] # None /\ unusedSubnets[n][j] # None =>
        unusedSubnets[n][i] < unusedSubnets[n][j]

OrderInv ==
  /\ RequestOpen
  /\ UsedFirst
  /\ OfferedInOrder
  /\ NoSubnetLost
  /\ OneSubnetPerNetwork

\* Every step keeps each call in progress on a node that is up.
LEMMA RequestOpenStep == TypeOK /\ RequestOpen /\ [Next]_vars => RequestOpen'
<1> SUFFICES ASSUME TypeOK, RequestOpen, [Next]_vars PROVE RequestOpen'
  OBVIOUS
<1>1. ASSUME NEW m \in Nodes, Turn(m) PROVE RequestOpen'
  <2>0. op[m] # None /\ status' = status /\ op[m] \in [id : PoolIDs, found : Mapping]
    BY <1>1 DEF Turn, TypeOK
  <2>1. ASSUME NEW mine, Finish(m, op[m].found, mine) PROVE RequestOpen'
    BY <2>0, <2>1 DEF Finish, RequestOpen, TypeOK
  <2>2. ASSUME NEW i \in DOMAIN unusedSubnets[m], IsFirst(m, i), TryNext(m, i)
        PROVE  RequestOpen'
    <3>1. unusedSubnets[m][i] \in Subnets
      BY <2>2 DEF IsFirst, TypeOK
    <3>2. reservedFor[unusedSubnets[m][i]] \in PoolIDs \ {op[m].id}
      BY <2>2, <3>1 DEF TryNext, TypeOK
    <3> QED
      BY <2>0, <2>2, <3>2 DEF TryNext, RequestOpen, TypeOK, Mapping
  <2> QED
    BY <1>1, <2>1, <2>2 DEF Turn, ReserveNew, ReserveExisting, ReserveError, Exhausted
<1>2. ASSUME NEW m \in Nodes, NEW id \in PoolIDs,
             RequestPool(m, id) \/ NetworkAdded(m, id)
      PROVE  RequestOpen'
  <2>1. /\ status[m] = "up" /\ UNCHANGED <<status, pools>>
        /\ \/ UNCHANGED op
           \/ /\ pools[m][id] = None
              /\ op' = [op EXCEPT ![m] = [id |-> id, found |-> NoPools]]
    BY <1>2 DEF RequestPool, NetworkAdded, GetNewOrExistingPool, Idle
  <2>2. ASSUME NEW n \in Nodes, op'[n] # op[n]
        PROVE  /\ n = m /\ pools[n][id] = None
               /\ op'[n] = [id |-> id, found |-> NoPools]
    BY <2>1, <2>2 DEF TypeOK
  <2>3. NoPools[id] = None
    BY DEF NoPools
  <2> QED
    BY <2>1, <2>2, <2>3 DEF RequestOpen
<1>3. ASSUME NEW m \in Nodes, NEW id \in PoolIDs, NetworkRemoved(m, id)
      PROVE  RequestOpen'
  BY <1>3
  DEF NetworkRemoved, Idle, ReleaseOwn, ReleaseOthers, ReleaseError, Forget,
      RequestOpen, TypeOK
<1>4. ASSUME NEW m \in Nodes, SubnetUsageChanged(m) PROVE RequestOpen'
  <2>1. op[m] = None /\ UNCHANGED <<op, status>>
    BY <1>4 DEF SubnetUsageChanged, Idle
  <2>2. \A n \in Nodes : n # m => pools'[n] = pools[n]
    BY <1>4 DEF SubnetUsageChanged, TypeOK
  <2> QED
    BY <2>1, <2>2 DEF RequestOpen
<1>5. ASSUME NEW m \in Nodes, Load(m) \/ StartWatch(m) \/ Crash(m) PROVE RequestOpen'
  <2>1. op'[m] = None
    BY <1>5 DEF Load, StartWatch, Crash, RequestOpen, TypeOK
  <2>2. \A n \in Nodes : n # m =>
          op'[n] = op[n] /\ status'[n] = status[n] /\ pools'[n] = pools[n]
    BY <1>5 DEF Load, StartWatch, Crash, TypeOK
  <2> QED
    BY <2>1, <2>2 DEF RequestOpen
<1>6. CASE UNCHANGED <<op, status, pools>>
  BY <1>6 DEF RequestOpen
<1> QED
  BY <1>1, <1>2, <1>3, <1>4, <1>5, <1>6 DEF Next, NetworkCreatedOrDeleted, vars

\* The subnets before the first one that a node offers are in use, and by other
\* networks than the one it looks for.
LEMMA BeforeFirst ==
  ASSUME TypeOK, LiveInv, OrderInv, NothingDeleted, NEW n \in Nodes, op[n] # None,
         NEW i \in DOMAIN unusedSubnets[n], IsFirst(n, i),
         NEW x \in Subnets, x < unusedSubnets[n][i]
  PROVE  reservedFor[x] \notin {None, op[n].id}
<1>1. x \notin Offered(n)
  <2> SUFFICES ASSUME NEW j \in DOMAIN unusedSubnets[n], unusedSubnets[n][j] = x
               PROVE  FALSE
    BY DEF Offered
  <2>1. i \in Nat /\ j \in Nat /\ unusedSubnets[n][i] \in Subnets
    BY LenProperties DEF TypeOK, IsFirst
  <2>2. x # None /\ x \in Nat /\ unusedSubnets[n][i] \in Nat
    BY <2>1, SpaceAssumption DEF Subnets
  <2>3. ~(j < i)
    BY <2>2 DEF IsFirst
  <2>4. ~(i < j)
    BY <2>2, <2>1 DEF OrderInv, OfferedInOrder, IsFirst
  <2> QED
    BY <2>1, <2>2, <2>3, <2>4
<1>2. status[n] # "down"
  BY DEF OrderInv, RequestOpen
<1>3. PICK id \in PoolIDs : pools[n][id] = x \/ op[n].found[id] = x
  BY <1>1, <1>2 DEF OrderInv, NoSubnetLost
<1>4. x # None
  BY SpaceAssumption
<1>5. reservedFor[x] = id
  BY <1>3, <1>4 DEF LiveInv, LivePoolsReserved, FoundReserved, NothingDeleted
<1>6. id # op[n].id
  BY <1>3, <1>4 DEF OrderInv, RequestOpen
<1> QED
  BY <1>5, <1>6, SpaceAssumption

\* A request that ends keeps what the node knows.
LEMMA FinishKeeps ==
  ASSUME TypeOK, LiveInv, OrderInv, NothingDeleted, NEW n \in Nodes, op[n] # None,
         NEW mine, Finish(n, op[n].found, mine),
         NEW id \in PoolIDs, NEW x \in Subnets,
         pools[n][id] = x \/ op[n].found[id] = x
  PROVE  pools'[n][id] = x
<1>1. reservedFor[x] = id
  BY SpaceAssumption DEF LiveInv, LivePoolsReserved, FoundReserved, NothingDeleted
<1>2. op[n].found[id] \in Subnets \cup {None}
  BY DEF TypeOK, Mapping
<1>3. op[n].found[id] \in {None, x}
  <2>1. CASE op[n].found[id] # None
    <3>1. reservedFor[op[n].found[id]] = id
      BY <2>1 DEF LiveInv, FoundReserved, NothingDeleted
    <3> QED
      BY <1>1, <1>2, <2>1, <3>1, SpaceAssumption
      DEF OrderInv, OneSubnetPerNetwork
  <2> QED
    BY <2>1
<1>4. x # None
  BY SpaceAssumption
<1>5. id = op[n].id => op[n].found[id] = None /\ pools[n][id] = None
  BY DEF OrderInv, RequestOpen
<1>6. pools \in [Nodes -> Mapping]
  BY DEF TypeOK
<1> QED
  BY <1>3, <1>4, <1>5, <1>6 DEF Finish

\* A subnet is reserved only as the first on the node's list.
LEMMA NewReservation ==
  ASSUME TypeOK, [Next]_vars, NEW x \in Subnets, reservedFor'[x] # reservedFor[x],
         NothingDeleted'
  PROVE  \E n \in Nodes : \E i \in DOMAIN unusedSubnets[n] :
           /\ op[n] # None
           /\ IsFirst(n, i)
           /\ x = unusedSubnets[n][i]
           /\ reservedFor[x] = None
           /\ reservedFor' = [reservedFor EXCEPT ![x] = op[n].id]
<1>1. ASSUME NEW n \in Nodes, NEW id \in PoolIDs, NetworkRemoved(n, id) PROVE FALSE
  BY <1>1, RemovedIsDeleted DEF NothingDeleted
<1>2. PICK n \in Nodes : Turn(n)
  BY <1>1
  DEF Next, NetworkCreatedOrDeleted, RequestPool, NetworkAdded, GetNewOrExistingPool,
      SubnetUsageChanged, Load, StartWatch, Crash, vars
<1>3. PICK i \in DOMAIN unusedSubnets[n] :
        /\ IsFirst(n, i)
        /\ reservedFor[unusedSubnets[n][i]] = None
        /\ reservedFor' = [reservedFor EXCEPT ![unusedSubnets[n][i]] = op[n].id]
  BY <1>2
  DEF Turn, ReserveNew, ReserveExisting, TryNext, ReserveError, Exhausted
<1> QED
  BY <1>2, <1>3 DEF Turn, TypeOK

\* Until a deletion, every step reserves the first free subnet.
LEMMA UsedFirstStep ==
  ASSUME TypeOK, LiveInv, OrderInv, [Next]_vars
  PROVE  UsedFirst' /\ OneSubnetPerNetwork'
<1> SUFFICES ASSUME NothingDeleted' PROVE UsedFirst' /\ OneSubnetPerNetwork'
  BY DEF UsedFirst, OneSubnetPerNetwork
<1>1. NothingDeleted
  BY FirstLifeBefore DEF NothingDeleted
<1>2. CASE UNCHANGED reservedFor
  BY <1>1, <1>2 DEF UsedFirst, OneSubnetPerNetwork, OrderInv
<1>3. CASE reservedFor' # reservedFor
  <2>1. PICK z \in Subnets : reservedFor'[z] # reservedFor[z]
    <3>1. TypeOK'
      BY TypeStep
    <3> QED
      BY <1>3, <3>1 DEF TypeOK
  <2>a. PICK n \in Nodes : \E i \in DOMAIN unusedSubnets[n] :
          /\ op[n] # None
          /\ IsFirst(n, i)
          /\ z = unusedSubnets[n][i]
          /\ reservedFor[z] = None
          /\ reservedFor' = [reservedFor EXCEPT ![z] = op[n].id]
    BY <2>1, NewReservation
  <2>2. PICK i \in DOMAIN unusedSubnets[n] :
          /\ op[n] # None
          /\ IsFirst(n, i)
          /\ z = unusedSubnets[n][i]
          /\ reservedFor[z] = None
          /\ reservedFor' = [reservedFor EXCEPT ![z] = op[n].id]
    BY <2>a
  <2>3. op[n].id \in PoolIDs
    BY <2>2 DEF TypeOK
  <2>4. \A x \in Subnets : x < z => reservedFor[x] \notin {None, op[n].id}
    BY <1>1, <2>2, BeforeFirst
  <2>5. \A x \in Subnets : z < x => reservedFor[x] = None
    BY <1>1, <2>2 DEF OrderInv, UsedFirst
  <2>6. \A x \in Subnets : x # z => x < z \/ z < x
    BY SpaceAssumption DEF Subnets
  <2>7. \A x \in Subnets : reservedFor'[x] = IF x = z THEN op[n].id ELSE reservedFor[x]
    BY <2>2 DEF TypeOK
  <2>8. UsedFirst'
    <3> SUFFICES ASSUME NEW x \in Subnets, NEW y \in Subnets, x < y,
                        reservedFor'[y] # None
                 PROVE  reservedFor'[x] # None
      BY DEF UsedFirst
    <3>1. CASE y = z
      BY <2>4, <2>7, <3>1
    <3>2. CASE y # z
      BY <1>1, <2>7, <3>2, <2>3, SpaceAssumption DEF OrderInv, UsedFirst
    <3> QED
      BY <3>1, <3>2
  <2>9. OneSubnetPerNetwork'
    <3> SUFFICES ASSUME NEW x \in Subnets, NEW y \in Subnets,
                        reservedFor'[x] = reservedFor'[y], reservedFor'[x] # None
                 PROVE  x = y
      BY DEF OneSubnetPerNetwork
    <3>1. CASE x # z /\ y # z
      BY <1>1, <2>7, <3>1 DEF OrderInv, OneSubnetPerNetwork
    <3>2. CASE x = z \/ y = z
      BY <2>4, <2>5, <2>6, <2>7, <3>2, <2>3, SpaceAssumption
    <3> QED
      BY <3>1, <3>2
  <2> QED
    BY <2>8, <2>9
<1> QED
  BY <1>2, <1>3

\* A list only loses subnets while nothing is deleted, unless it starts afresh.
LEMMA ListStep ==
  ASSUME TypeOK, [Next]_vars, NothingDeleted', NEW n \in Nodes
  PROVE  \/ /\ DOMAIN unusedSubnets'[n] = DOMAIN unusedSubnets[n]
            /\ \A i \in DOMAIN unusedSubnets[n] :
                 unusedSubnets'[n][i] \in {unusedSubnets[n][i], None}
         \/ Crash(n)
         \/ \E known \in Mapping : /\ pools'[n] = known
                                   /\ unusedSubnets'[n] = Fresh(known)
<1> DEFINE Goal == \/ /\ DOMAIN unusedSubnets'[n] = DOMAIN unusedSubnets[n]
                      /\ \A i \in DOMAIN unusedSubnets[n] :
                           unusedSubnets'[n][i] \in {unusedSubnets[n][i], None}
                   \/ Crash(n)
                   \/ \E known \in Mapping : /\ pools'[n] = known
                                             /\ unusedSubnets'[n] = Fresh(known)
<1>0. unusedSubnets \in [Nodes -> Seq(Subnets \cup {None})]
  BY DEF TypeOK
<1>1. ASSUME NEW m \in Nodes, Turn(m) PROVE Goal
  <2>1. ASSUME NEW i \in DOMAIN unusedSubnets[m], TakeOff(m, i) PROVE Goal
    BY <1>0, <2>1 DEF TakeOff
  <2> QED
    BY <1>1, <2>1 DEF Turn, ReserveNew, ReserveExisting, TryNext, ReserveError, Exhausted
<1>2. ASSUME NEW m \in Nodes, NEW id \in PoolIDs, NetworkRemoved(m, id) PROVE Goal
  BY <1>2, RemovedIsDeleted DEF NothingDeleted
<1>3. ASSUME NEW m \in Nodes, SubnetUsageChanged(m) PROVE Goal
  <2>1. ASSUME NEW x, unusedSubnets' = [unusedSubnets EXCEPT ![m] = Without(@, x)]
        PROVE  Goal
    BY <1>0, <2>1 DEF Without
  <2> QED
    BY <1>3, <2>1 DEF SubnetUsageChanged
<1>4. ASSUME NEW m \in Nodes, Load(m) PROVE Goal
  <2>1. PICK known \in Mapping :
          /\ pools' = [pools EXCEPT ![m] = known]
          /\ unusedSubnets' = [unusedSubnets EXCEPT ![m] = Fresh(known)]
    BY <1>4 DEF Load
  <2>2. pools \in [Nodes -> Mapping]
    BY DEF TypeOK
  <2> QED
    BY <1>0, <2>1, <2>2
<1>5. ASSUME NEW m \in Nodes, Crash(m) PROVE Goal
  BY <1>0, <1>5 DEF Crash
<1>6. CASE UNCHANGED unusedSubnets
  BY <1>6
<1> QED
  BY <1>1, <1>2, <1>3, <1>4, <1>5, <1>6
  DEF Next, NetworkCreatedOrDeleted, RequestPool, NetworkAdded, GetNewOrExistingPool,
      StartWatch, vars

\* Until a deletion, every step leaves the lists in order.
LEMMA OfferedInOrderStep ==
  ASSUME TypeOK, OrderInv, [Next]_vars
  PROVE  OfferedInOrder'
<1> SUFFICES ASSUME NothingDeleted', NEW n \in Nodes,
                    NEW i \in DOMAIN unusedSubnets'[n],
                    NEW j \in DOMAIN unusedSubnets'[n],
                    i < j, unusedSubnets'[n][i] # None, unusedSubnets'[n][j] # None
             PROVE  unusedSubnets'[n][i] < unusedSubnets'[n][j]
  BY DEF OfferedInOrder
<1>1. NothingDeleted
  BY FirstLifeBefore DEF NothingDeleted
<1>2. CASE /\ DOMAIN unusedSubnets'[n] = DOMAIN unusedSubnets[n]
           /\ \A k \in DOMAIN unusedSubnets[n] :
                unusedSubnets'[n][k] \in {unusedSubnets[n][k], None}
  BY <1>1, <1>2 DEF OrderInv, OfferedInOrder
<1>3. CASE Crash(n)
  <2>1. unusedSubnets'[n] = <<>>
    BY <1>3 DEF Crash, TypeOK
  <2> QED
    BY <2>1
<1>4. CASE \E known \in Mapping : unusedSubnets'[n] = Fresh(known)
  BY <1>4 DEF Fresh
<1> QED
  BY <1>2, <1>3, <1>4, ListStep

\* Until a deletion, no step loses a subnet.
LEMMA NoSubnetLostStep ==
  ASSUME TypeOK, LiveInv, OrderInv, [Next]_vars
  PROVE  NoSubnetLost'
<1> SUFFICES ASSUME NothingDeleted', NEW n \in Nodes, NEW x \in Subnets,
                    status'[n] # "down", x \notin Offered(n)'
             PROVE  \E id \in PoolIDs : \/ pools'[n][id] = x
                                        \/ op'[n] # None /\ op'[n].found[id] = x
  BY DEF NoSubnetLost
<1> DEFINE Known == \E id \in PoolIDs : \/ pools[n][id] = x
                                        \/ op[n] # None /\ op[n].found[id] = x
           Goal == \E id \in PoolIDs : \/ pools'[n][id] = x
                                       \/ op'[n] # None /\ op'[n].found[id] = x
<1>0. NothingDeleted /\ x # None
  BY FirstLifeBefore, SpaceAssumption DEF NothingDeleted
<1>1. ASSUME status[n] # "down", UNCHANGED unusedSubnets PROVE Known
  BY <1>0, <1>1 DEF OrderInv, NoSubnetLost, Offered
<1>2. ASSUME NEW m \in Nodes, Turn(m) PROVE Goal
  <2>0. /\ op[m] # None /\ op[m] \in [id : PoolIDs, found : Mapping]
        /\ status' = status
    BY <1>2 DEF Turn, TypeOK
  <2>1. CASE m # n
    <3>1. pools'[n] = pools[n] /\ op'[n] = op[n] /\ unusedSubnets'[n] = unusedSubnets[n]
      BY <1>2, <2>1
      DEF Turn, ReserveNew, ReserveExisting, TryNext, ReserveError, Exhausted, Finish,
          TakeOff, TypeOK
    <3> QED
      BY <1>0, <2>0, <3>1 DEF OrderInv, NoSubnetLost, Offered
  <2>2. ASSUME m = n, NEW mine, Finish(n, op[n].found, mine), UNCHANGED unusedSubnets
        PROVE  Goal
    BY <1>0, <1>1, <2>0, <2>2, FinishKeeps
  <2>3. ASSUME m = n, NEW i \in DOMAIN unusedSubnets[n], IsFirst(n, i), TakeOff(n, i),
               x # unusedSubnets[n][i]
        PROVE  Known
    <3>1. unusedSubnets \in [Nodes -> Seq(Subnets \cup {None})]
      BY DEF TypeOK
    <3>2. x \notin Offered(n)
      <4> SUFFICES ASSUME NEW j \in DOMAIN unusedSubnets[n], unusedSubnets[n][j] = x
                   PROVE  FALSE
        BY DEF Offered
      <4>1. unusedSubnets'[n][j] = x /\ j \in DOMAIN unusedSubnets'[n]
        BY <2>3, <3>1 DEF TakeOff
      <4> QED
        BY <1>0, <4>1 DEF Offered
    <3> QED
      BY <1>0, <2>0, <3>2 DEF OrderInv, NoSubnetLost
  <2>4. ASSUME m = n, NEW i \in DOMAIN unusedSubnets[n], IsFirst(n, i), TakeOff(n, i),
               Finish(n, op[n].found, unusedSubnets[n][i])
        PROVE  Goal
    <3>1. CASE x = unusedSubnets[n][i]
      <4>1. op[n].found[op[n].id] = None /\ op[n].id \in PoolIDs
        BY <2>0, <2>4 DEF OrderInv, RequestOpen
      <4>2. pools'[n][op[n].id] = x
        BY <1>0, <2>4, <3>1, <4>1 DEF Finish, TypeOK
      <4> QED
        BY <4>1, <4>2
    <3>2. CASE x # unusedSubnets[n][i]
      BY <1>0, <2>0, <2>3, <2>4, <3>2, FinishKeeps
    <3> QED
      BY <3>1, <3>2
  <2>5. ASSUME m = n, NEW i \in DOMAIN unusedSubnets[n], IsFirst(n, i), TryNext(n, i)
        PROVE  Goal
    <3> DEFINE z == unusedSubnets[n][i]
    <3>1. z \in Subnets /\ reservedFor[z] \in PoolIDs
      <4>1. z \in Subnets
        BY <2>5 DEF IsFirst, TypeOK
      <4> QED
        BY <2>5, <4>1 DEF TryNext, TypeOK
    <3>2. /\ op'[n] # None
          /\ \A id \in PoolIDs :
               op'[n].found[id] = IF id = reservedFor[z] THEN z ELSE op[n].found[id]
          /\ pools' = pools
      <4>1. op[n] \in [id : PoolIDs, found : Mapping]
        BY <2>0, <2>5
      <4>2. op' = [op EXCEPT ![n].found[reservedFor[z]] = z] /\ pools' = pools
        BY <2>5 DEF TryNext
      <4>3. op'[n] = [op[n] EXCEPT !.found[reservedFor[z]] = z]
        BY <4>2 DEF TypeOK
      <4>4. op'[n] \in [id : PoolIDs, found : Mapping]
        BY <3>1, <4>1, <4>3 DEF Mapping
      <4>5. op'[n].found = [op[n].found EXCEPT ![reservedFor[z]] = z]
        BY <4>1, <4>3
      <4> QED
        BY <4>1, <4>2, <4>4, <4>5, SpaceAssumption DEF Mapping
    <3>3. CASE x = z
      BY <3>1, <3>2, <3>3
    <3>4. CASE x # z
      <4>1. PICK id \in PoolIDs : pools[n][id] = x \/ op[n].found[id] = x
        BY <2>3, <2>5, <3>4 DEF TryNext
      <4>2. reservedFor[x] = id
        BY <1>0, <2>0, <2>5, <4>1 DEF LiveInv, LivePoolsReserved, FoundReserved, NothingDeleted
      <4>3. id # reservedFor[z]
        BY <1>0, <3>1, <3>4, <4>2, SpaceAssumption DEF OrderInv, OneSubnetPerNetwork
      <4> QED
        BY <3>2, <4>1, <4>3
    <3> QED
      BY <3>3, <3>4
  <2> QED
    BY <1>2, <2>1, <2>2, <2>4, <2>5
    DEF Turn, ReserveNew, ReserveExisting, ReserveError, Exhausted
<1>3. ASSUME NEW m \in Nodes, NEW id \in PoolIDs,
             RequestPool(m, id) \/ NetworkAdded(m, id)
      PROVE  Goal
  <2>1. status' = status /\ pools' = pools /\ (op[n] # None => op'[n] = op[n])
    BY <1>3 DEF RequestPool, NetworkAdded, GetNewOrExistingPool, Idle, TypeOK
  <2> QED
    BY <1>1, <1>3, <2>1 DEF RequestPool, NetworkAdded, GetNewOrExistingPool
<1>4. ASSUME NEW m \in Nodes, NEW id \in PoolIDs, NetworkRemoved(m, id) PROVE Goal
  BY <1>4, RemovedIsDeleted DEF NothingDeleted
<1>5. ASSUME NEW m \in Nodes, SubnetUsageChanged(m) PROVE Goal
  <2>1. CASE m # n
    <3>1. pools'[n] = pools[n] /\ unusedSubnets'[n] = unusedSubnets[n] /\ op' = op
          /\ status' = status
      BY <1>5, <2>1 DEF SubnetUsageChanged, TypeOK
    <3> QED
      BY <1>0, <3>1 DEF OrderInv, NoSubnetLost, Offered
  <2>2. CASE UNCHANGED <<pools, unusedSubnets>>
    BY <1>1, <1>5, <2>2 DEF SubnetUsageChanged
  <2>3. ASSUME m = n, NEW id \in PoolIDs, NEW z \in Subnets, pools[n][id] = None,
               pools' = [pools EXCEPT ![n][id] = z],
               unusedSubnets' = [unusedSubnets EXCEPT ![n] = Without(@, z)]
        PROVE  Goal
    <3>1. pools \in [Nodes -> Mapping] /\ unusedSubnets \in [Nodes -> Seq(Subnets \cup {None})]
      BY DEF TypeOK
    <3>2. CASE x = z
      BY <2>3, <3>1, <3>2 DEF Mapping
    <3>3. CASE x # z
      <4>1. x \notin Offered(n)
        BY <1>0, <2>3, <3>1, <3>3 DEF Offered, Without
      <4>2. status[n] # "down" /\ op[n] = None
        BY <1>5, <2>3 DEF SubnetUsageChanged, Idle
      <4>3. PICK j \in PoolIDs : pools[n][j] = x
        BY <1>0, <4>1, <4>2 DEF OrderInv, NoSubnetLost
      <4> QED
        BY <1>0, <2>3, <3>1, <4>3 DEF Mapping
    <3> QED
      BY <3>2, <3>3
  <2>4. Head(watch[m]) \in [subnet : Subnets, id : PoolIDs]
    BY <1>5, HeadTailProperties DEF SubnetUsageChanged, TypeOK
  <2> QED
    BY <1>5, <2>1, <2>2, <2>3, <2>4 DEF SubnetUsageChanged
<1>6. ASSUME NEW m \in Nodes, Load(m) PROVE Goal
  <2>1. PICK known \in Mapping :
          /\ pools' = [pools EXCEPT ![m] = known]
          /\ unusedSubnets' = [unusedSubnets EXCEPT ![m] = Fresh(known)]
    BY <1>6 DEF Load
  <2>2. op' = op /\ \A k \in Nodes : k # m => status'[k] = status[k]
    BY <1>6 DEF Load, TypeOK
  <2>3. CASE m # n
    <3>1. /\ pools'[n] = pools[n] /\ unusedSubnets'[n] = unusedSubnets[n]
          /\ status'[n] = status[n]
      BY <2>1, <2>2, <2>3 DEF TypeOK
    <3>2. x \notin Offered(n)
      BY <3>1 DEF Offered
    <3> QED
      BY <1>0, <2>2, <3>1, <3>2 DEF OrderInv, NoSubnetLost
  <2>4. CASE m = n
    <3>1. unusedSubnets'[n] = Fresh(known) /\ pools'[n] = known
      BY <2>1, <2>4 DEF TypeOK
    <3>2. Fresh(known)[x] # x
      BY <1>0, <3>1 DEF Offered, Fresh
    <3> QED
      BY <3>1, <3>2 DEF Fresh
  <2> QED
    BY <2>3, <2>4
<1>7. ASSUME NEW m \in Nodes, StartWatch(m) PROVE Goal
  <2>1. status[n] # "down"
    BY <1>7 DEF StartWatch, TypeOK
  <2> QED
    BY <1>1, <1>7, <2>1 DEF StartWatch
<1>8. ASSUME NEW m \in Nodes, Crash(m) PROVE Goal
  <2>1. m # n
    BY <1>8 DEF Crash, TypeOK
  <2>2. /\ pools'[n] = pools[n] /\ unusedSubnets'[n] = unusedSubnets[n]
        /\ op'[n] = op[n] /\ status'[n] = status[n]
    BY <1>8, <2>1 DEF Crash, TypeOK
  <2> QED
    BY <1>0, <2>2 DEF OrderInv, NoSubnetLost, Offered
<1>9. CASE UNCHANGED <<status, pools, op, unusedSubnets>>
  BY <1>1, <1>9
<1> QED
  BY <1>2, <1>3, <1>4, <1>5, <1>6, <1>7, <1>8, <1>9
  DEF Next, NetworkCreatedOrDeleted, vars

\* The order of the subnets holds at the start.
LEMMA OrderInit == Init => OrderInv
BY DEF Init, OrderInv, RequestOpen, UsedFirst, OfferedInOrder, NoSubnetLost,
       OneSubnetPerNetwork, NoPools

\* Every step keeps the order of the subnets.
LEMMA OrderStep == TypeOK /\ LiveInv /\ OrderInv /\ [Next]_vars => OrderInv'
BY RequestOpenStep, UsedFirstStep, OfferedInOrderStep, NoSubnetLostStep DEF OrderInv

\* The agreement with etcd holds at the start.
LEMMA LiveInit == Init => LiveInv
BY DEF Init, LiveInv, LivePoolsReserved, FoundReserved, NewsReserved, NoPools

\* While no network was deleted, every network has one subnet in the whole
\* cluster, whatever the nodes miss and however their requests interleave.
THEOREM OneSubnet == Spec => []OneSubnetPerNetwork
<1>1. OrderInv => OneSubnetPerNetwork
  BY DEF OrderInv
<1> QED
  BY <1>1, LiveInit, LiveStep, OrderInit, OrderStep, TypeCorrect, PTL DEF Spec

\* And no node loses a subnet that it could still hand out.
THEOREM SubnetsKept == Spec => []NoSubnetLost
<1>1. OrderInv => NoSubnetLost
  BY DEF OrderInv
<1> QED
  BY <1>1, LiveInit, LiveStep, OrderInit, OrderStep, TypeCorrect, PTL DEF Spec

\* Two nodes never give one subnet to two networks that were not deleted.
SubnetsDisjoint ==
  \A n, m \in Nodes, id, j \in PoolIDs :
    /\ FirstLife(id) /\ FirstLife(j)
    /\ pools[n][id] # None
    /\ pools[n][id] = pools[m][j]
    => id = j

\* What the address space is for: whatever the nodes know or miss of each other,
\* the pools they use for different networks are different subnets.
THEOREM NetworksGetTheirOwnSubnets == Spec => []SubnetsDisjoint
<1>1. LivePoolsReserved => SubnetsDisjoint
  BY DEF LivePoolsReserved, SubnetsDisjoint
<1> QED
  BY <1>1, LivePoolsStayReserved, PTL

-----------------------------------------------------------------------------
(* The end of a request.                                                   *)

\* The places of a node's list that still hold a subnet to try.
OpenPlaces(n) == {i \in DOMAIN unusedSubnets[n] : unusedSubnets[n][i] # None}

\* While getOrAddPool runs, nobody puts a subnet on the node's list, and each
\* turn of its loop that does not end it takes one off.
Shrinks(n) ==
  op[n] # None /\ op'[n] # None =>
    /\ op'[n].id = op[n].id
    /\ OpenPlaces(n)' \subseteq OpenPlaces(n)
    /\ Turn(n) => Cardinality(OpenPlaces(n)') < Cardinality(OpenPlaces(n))

RequestsShrink == [][\A n \in Nodes : Shrinks(n)]_vars

\* The places are finitely many.
LEMMA OpenPlacesFinite ==
  ASSUME TypeOK, NEW n \in Nodes
  PROVE  IsFiniteSet(OpenPlaces(n))
<1>1. /\ OpenPlaces(n) \subseteq 1 .. Len(unusedSubnets[n])
      /\ Len(unusedSubnets[n]) \in Nat
  BY LenProperties DEF TypeOK, OpenPlaces
<1>2. IsFiniteSet(1 .. Len(unusedSubnets[n]))
  BY <1>1, FS_Interval
<1> QED
  BY <1>1, <1>2, FS_Subset

\* A turn that goes on with the next subnet has taken its place off the list.
LEMMA TurnShrinks ==
  ASSUME TypeOK, NEW n \in Nodes, Turn(n), op'[n] # None
  PROVE  /\ op'[n].id = op[n].id
         /\ OpenPlaces(n)' \subseteq OpenPlaces(n)
         /\ OpenPlaces(n)' # OpenPlaces(n)
<1>1. ASSUME NEW found, NEW mine, Finish(n, found, mine) PROVE FALSE
  BY <1>1 DEF Finish, TypeOK
<1>2. PICK i \in DOMAIN unusedSubnets[n] : IsFirst(n, i) /\ TryNext(n, i)
  BY <1>1 DEF Turn, ReserveNew, ReserveExisting, ReserveError, Exhausted
<1>3. /\ op[n] \in [id : PoolIDs, found : Mapping]
      /\ op'[n].id = op[n].id
  BY <1>2 DEF Turn, TryNext, TypeOK
<1>4. unusedSubnets'[n] = [unusedSubnets[n] EXCEPT ![i] = None]
  BY <1>2 DEF TryNext, TakeOff, TypeOK
<1>5. OpenPlaces(n)' = OpenPlaces(n) \ {i}
  BY <1>4 DEF OpenPlaces
<1>6. i \in OpenPlaces(n)
  BY <1>2 DEF IsFirst, OpenPlaces
<1> QED
  BY <1>3, <1>5, <1>6

\* getOrAddPool, which holds the lock of the address space, tries each subnet of
\* its list once at most: its requests are bounded by the list's length.
THEOREM RequestsRunOut == Spec => RequestsShrink
<1>1. TypeOK /\ RequestOpen /\ [Next]_vars => \A n \in Nodes : Shrinks(n)
  <2>0. SUFFICES ASSUME TypeOK, RequestOpen, [Next]_vars, NEW n \in Nodes,
                        op[n] # None, op'[n] # None
                 PROVE  /\ op'[n].id = op[n].id
                        /\ OpenPlaces(n)' \subseteq OpenPlaces(n)
                        /\ Turn(n) =>
                             Cardinality(OpenPlaces(n)') < Cardinality(OpenPlaces(n))
    BY DEF Shrinks
  <2>1. CASE Turn(n)
    <3>1. Cardinality(OpenPlaces(n)') < Cardinality(OpenPlaces(n))
      BY <2>0, <2>1, TurnShrinks, OpenPlacesFinite, FS_Subset, FS_CardinalityType
    <3> QED
      BY <2>0, <2>1, <3>1, TurnShrinks
  <2>3. ASSUME NEW m \in Nodes, m # n, Turn(m)
        PROVE  op'[n] = op[n] /\ unusedSubnets'[n] = unusedSubnets[n]
    BY <2>0, <2>3
    DEF Turn, ReserveNew, ReserveExisting, TryNext, ReserveError, Exhausted, Finish,
        TakeOff, TypeOK
  <2>4. ASSUME NEW m \in Nodes,
               SubnetUsageChanged(m) \/ Load(m) \/ StartWatch(m) \/ Crash(m)
        PROVE  op'[n] = op[n] /\ unusedSubnets'[n] = unusedSubnets[n]
    BY <2>0, <2>4
    DEF SubnetUsageChanged, Idle, Load, StartWatch, Crash, TypeOK, RequestOpen
  <2>5. ASSUME NEW m \in Nodes, NEW id \in PoolIDs,
               RequestPool(m, id) \/ NetworkAdded(m, id) \/ NetworkRemoved(m, id)
        PROVE  op'[n] = op[n] /\ unusedSubnets'[n] = unusedSubnets[n]
    BY <2>0, <2>5
    DEF RequestPool, NetworkAdded, NetworkRemoved, GetNewOrExistingPool, Idle,
        ReleaseOwn, ReleaseOthers, ReleaseError, PutBack, TypeOK
  <2>6. ASSUME NEW id \in PoolIDs, NetworkCreatedOrDeleted(id)
        PROVE  op'[n] = op[n] /\ unusedSubnets'[n] = unusedSubnets[n]
    BY <2>6 DEF NetworkCreatedOrDeleted
  <2>7. CASE ~Turn(n)
    <3>1. op'[n] = op[n] /\ unusedSubnets'[n] = unusedSubnets[n]
      <4>1. CASE UNCHANGED vars
        BY <4>1 DEF vars
      <4>2. CASE \E m \in Nodes : m # n /\ Turn(m)
        BY <4>2, <2>3
      <4> QED
        BY <2>0, <2>7, <4>1, <4>2, <2>4, <2>5, <2>6 DEF Next
    <3> QED
      BY <2>7, <3>1 DEF OpenPlaces
  <2> QED
    BY <2>1, <2>7
<1>2. Spec => []RequestOpen
  <2>1. Init => RequestOpen
    BY DEF Init, RequestOpen
  <2> QED
    BY <2>1, RequestOpenStep, TypeCorrect, PTL DEF Spec
<1> QED
  BY <1>1, <1>2, TypeCorrect, PTL DEF RequestsShrink, Spec
=============================================================================
