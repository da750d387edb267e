------------------------- MODULE AddressPoolProofs --------------------------
(***************************************************************************)
(* Proofs about AddressPool for any set of addresses, containers and       *)
(* services.                                                               *)
(***************************************************************************)
EXTENDS AddressPool, TLAPS

-----------------------------------------------------------------------------
(* Type correctness.                                                       *)

\* A request names a holder of the right kind.
LEMMA HolderRequestType ==
  ASSUME NEW h \in Holders
  PROVE  HolderRequest(h) \in Requests
BY DEF HolderRequest, Requests, Holders

\* What etcd stores for an address is an allocation or nothing.
LEMMA StoredType ==
  ASSUME TypeOK, NEW ip \in IPs
  PROVE  Stored(ip) \in Allocations \cup {None}
BY DEF TypeOK, Stored, Allocations, Holders, Types

\* Nothing is stored for an address exactly when its key is missing.
LEMMA StoredNone ==
  ASSUME TypeOK, NEW ip \in IPs
  PROVE  Stored(ip) = None <=> key[ip] = None
BY PoolAssumption DEF TypeOK, Stored, Allocations, Holders, Types

\* The etcd part of the type invariant after a transaction that puts.
LEMMA PutType ==
  ASSUME TypeOK, NEW r \in Requests, NEW ip \in IPs, PutAllocation(r, ip)
  PROVE  /\ key' \in [IPs -> Types \cup {None}]
         /\ macKey' \in [IPs -> Macs \cup {None}]
         /\ serviceIDKey' \in [IPs -> Services \cup {None}]
         /\ [type |-> r.op, data |-> Data(r)] \in Allocations
         /\ [type |-> r.op, data |-> r.holder] \in Allocations
BY DEF TypeOK, PutAllocation, Requests, Types, Holders, Data, Allocations

\* The same after a transaction that deletes.
LEMMA DeleteType ==
  ASSUME TypeOK, NEW ips \in SUBSET IPs, DeleteAllocations(ips)
  PROVE  /\ key' \in [IPs -> Types \cup {None}]
         /\ macKey' \in [IPs -> Macs \cup {None}]
         /\ serviceIDKey' \in [IPs -> Services \cup {None}]
BY DEF TypeOK, DeleteAllocations

\* A granted address keeps the holders' variables typed.
LEMMA GrantType ==
  ASSUME TypeOK, NEW r \in Requests, NEW ip \in IPs, Grant(r, ip)
  PROVE  /\ ipam' \in [Holders -> IPs \cup {None}]
         /\ actual' \in [Holders -> IPs \cup {None, Elsewhere, Ended}]
         /\ announced' \in SUBSET IPs
BY DEF TypeOK, Grant, Requests, Holders

\* ReleaseIPIfReserved keeps etcd and the memory typed.
LEMMA ReleaseType ==
  ASSUME TypeOK, NEW ip \in IPs, ReleaseIPIfReserved(ip)
  PROVE  /\ key' \in [IPs -> Types \cup {None}]
         /\ macKey' \in [IPs -> Macs \cup {None}]
         /\ serviceIDKey' \in [IPs -> Services \cup {None}]
         /\ allocatedIPs' \in [IPs -> Allocations \cup {None}]
         /\ unusedIPs' \in [IPs -> {"no", "cooling", "cooled"}]
<1>1. CASE Released(ip)
  BY <1>1, DeleteType DEF Released, TypeOK
<1>2. CASE ReleaseAnswerLost(ip)
  BY <1>2, DeleteType DEF ReleaseAnswerLost, TypeOK, memory
<1>3. CASE ReleaseRefused(ip)
  BY <1>3, StoredType DEF ReleaseRefused, TypeOK, etcd
<1>4. CASE ReleaseWithoutEffect(ip)
  BY <1>4 DEF ReleaseWithoutEffect, TypeOK, etcd, memory
<1> QED
  BY <1>1, <1>2, <1>3, <1>4 DEF ReleaseIPIfReserved

\* Every step keeps the types.
LEMMA TypeStep == TypeOK /\ [Next]_vars => TypeOK'
<1> SUFFICES ASSUME TypeOK, [Next]_vars PROVE TypeOK'
  OBVIOUS
<1> USE DEF etcd, memory, docker
<1>1. ASSUME NEW h \in Holders, RequestIpamAddress(h) PROVE TypeOK'
  BY <1>1 DEF RequestIpamAddress, StartLoop, Ready, TypeOK, Requests
<1>2. ASSUME NEW h \in Holders, PlaceForeign(h) PROVE TypeOK'
  BY <1>2, HolderRequestType DEF PlaceForeign, StartLoop, Ready, TypeOK
<1>3. ASSUME NEW h \in Holders, PlaceHere(h) PROVE TypeOK'
  <2> DEFINE r == HolderRequest(h)
             ip == ipam[h]
  <2>1. r \in Requests /\ ip \in IPs /\ r.holder = h
    BY <1>3, HolderRequestType DEF PlaceHere, TypeOK, HolderRequest
  <2>2. CASE /\ PutAllocation(r, ip)
             /\ allocatedIPs' = [allocatedIPs EXCEPT ![ip] = [type |-> r.op, data |-> h]]
             /\ unusedIPs' = IF allocatedIPs[ip] = None
                             THEN [unusedIPs EXCEPT ![ip] = "no"] ELSE unusedIPs
             /\ Grant(r, ip)
             /\ UNCHANGED <<up, request>>
    <3> HIDE DEF r, ip
    <3> QED BY <2>1, <2>2, PutType, GrantType DEF TypeOK
  <2>3. CASE StartLoop(r)
    <3> HIDE DEF r, ip
    <3> QED BY <2>1, <2>3 DEF StartLoop, TypeOK
  <2>4. CASE PutAllocation(r, ip) /\ UNCHANGED <<up, memory, request, docker>>
    <3> HIDE DEF r, ip
    <3> QED BY <2>1, <2>4, PutType DEF TypeOK
  <2> QED
    BY <1>3, <2>2, <2>3, <2>4 DEF PlaceHere
<1>4. ASSUME NEW h \in Holders, StopHere(h) PROVE TypeOK'
  BY <1>4, ReleaseType DEF StopHere, AfterRun, TypeOK
<1>5. ASSUME NEW h \in Holders, ReleaseIpamAddress(h) PROVE TypeOK'
  BY <1>5, ReleaseType DEF ReleaseIpamAddress, TypeOK
<1>6. ASSUME NEW h \in Holders, PlaceElsewhere(h) PROVE TypeOK'
  BY <1>6 DEF PlaceElsewhere, TypeOK
<1>7. ASSUME NEW h \in Holders, StopElsewhere(h) PROVE TypeOK'
  BY <1>7 DEF StopElsewhere, TypeOK
<1>8. ASSUME NEW ip \in IPs, AllocateFreeIP(ip) PROVE TypeOK'
  <2>1. request \in Requests
    BY <1>8 DEF AllocateFreeIP, TypeOK
  <2> QED
    BY <1>8, <2>1, PutType, GrantType DEF AllocateFreeIP, Record, TypeOK
<1>9. ASSUME NEW ip \in IPs, AllocateAnswerLost(ip) PROVE TypeOK'
  <2>1. request \in Requests
    BY <1>9 DEF AllocateAnswerLost, TypeOK
  <2> QED
    BY <1>9, <2>1, PutType DEF AllocateAnswerLost, TypeOK
<1>10. ASSUME NEW ip \in IPs, Cool(ip) PROVE TypeOK'
  BY <1>10 DEF Cool, TypeOK
<1>11. ASSUME NEW ip \in IPs, ContainerAdded(ip) PROVE TypeOK'
  BY <1>11, ReleaseType DEF ContainerAdded, TypeOK
<1>12. CASE SyncExhausted
  BY <1>12, StoredType DEF SyncExhausted, SyncIPs, TypeOK
<1>13. CASE AllocateError
  BY <1>13 DEF AllocateError, TypeOK
<1>14. CASE ReleaseAllIPs
  BY <1>14, DeleteType DEF ReleaseAllIPs, TypeOK
<1>15. CASE Crash
  BY <1>15 DEF Crash, TypeOK
<1>16. CASE Start
  <2>1. PICK existingServices \in SUBSET Services :
          \E released \in SUBSET StaleAtRestart(existingServices) :
            \E unanswered \in SUBSET released :
              /\ DeleteAllocations(released)
              /\ allocatedIPs' = [ip \in IPs |-> IF ip \in released \ unanswered
                                                 THEN None ELSE Stored(ip)]
              /\ unusedIPs' = [ip \in IPs |->
                                 IF key[ip] = None \/ ip \in released \ unanswered
                                 THEN "cooling" ELSE "no"]
    BY <1>16 DEF Start
  <2>2. StaleAtRestart(existingServices) \subseteq IPs
    BY DEF StaleAtRestart
  <2>3. announced' \in SUBSET IPs
    BY <1>16 DEF Start, TypeOK, Holders
  <2> QED
    BY <1>16, <2>1, <2>2, <2>3, DeleteType, StoredType DEF Start, TypeOK
<1>17. CASE UNCHANGED vars
  BY <1>17 DEF vars, TypeOK
<1> QED
  BY <1>1, <1>2, <1>3, <1>4, <1>5, <1>6, <1>7, <1>8, <1>9, <1>10, <1>11, <1>12,
     <1>13, <1>14, <1>15, <1>16, <1>17 DEF Next

\* Every variable keeps its type, in every execution.
THEOREM TypeCorrect == Spec => []TypeOK
<1>1. Init => TypeOK
  BY DEF Init, TypeOK, Holders
<1> QED
  BY <1>1, TypeStep, PTL DEF Spec

-----------------------------------------------------------------------------
(* etcd's keys.                                                            *)

\* What a step may do to etcd: nothing, one allocation, or some releases.
EtcdStep ==
  \/ UNCHANGED etcd
  \/ \E r \in Requests, ip \in IPs : CanAllocate(r, ip) /\ PutAllocation(r, ip)
  \/ \E ips \in SUBSET IPs : DeleteAllocations(ips)

\* ReleaseIPIfReserved is a step on etcd of the allowed kinds.
LEMMA ReleaseEtcdStep ==
  ASSUME NEW ip \in IPs, ReleaseIPIfReserved(ip)
  PROVE  EtcdStep
<1>1. CASE Released(ip)
  BY <1>1 DEF Released, EtcdStep
<1>2. CASE ReleaseAnswerLost(ip)
  BY <1>2 DEF ReleaseAnswerLost, EtcdStep
<1>3. CASE ReleaseRefused(ip)
  BY <1>3 DEF ReleaseRefused, EtcdStep
<1>4. CASE ReleaseWithoutEffect(ip)
  BY <1>4 DEF ReleaseWithoutEffect, EtcdStep
<1> QED
  BY <1>1, <1>2, <1>3, <1>4 DEF ReleaseIPIfReserved

\* Every step of the pool and of its callers is one of those three.
LEMMA NextEtcdStep == TypeOK /\ [Next]_vars => EtcdStep
<1> SUFFICES ASSUME TypeOK, [Next]_vars PROVE EtcdStep
  OBVIOUS
<1>1. ASSUME NEW h \in Holders, PlaceHere(h) PROVE EtcdStep
  <2>1. HolderRequest(h) \in Requests /\ ipam[h] \in IPs
    BY <1>1, HolderRequestType DEF PlaceHere, TypeOK
  <2>2. \/ /\ CanAllocate(HolderRequest(h), ipam[h])
           /\ PutAllocation(HolderRequest(h), ipam[h])
        \/ UNCHANGED etcd
    BY <1>1 DEF PlaceHere, StartLoop
  <2> QED
    BY <2>1, <2>2 DEF EtcdStep
<1>2. ASSUME NEW h \in Holders, StopHere(h) PROVE EtcdStep
  BY <1>2, ReleaseEtcdStep DEF StopHere, EtcdStep
<1>3. ASSUME NEW h \in Holders, ReleaseIpamAddress(h) PROVE EtcdStep
  BY <1>3, ReleaseEtcdStep DEF ReleaseIpamAddress, TypeOK
<1>4. ASSUME NEW ip \in IPs, AllocateFreeIP(ip) PROVE EtcdStep
  BY <1>4 DEF AllocateFreeIP, TypeOK, EtcdStep
<1>5. ASSUME NEW ip \in IPs, AllocateAnswerLost(ip) PROVE EtcdStep
  BY <1>5 DEF AllocateAnswerLost, TypeOK, EtcdStep
<1>6. ASSUME NEW ip \in IPs, ContainerAdded(ip) PROVE EtcdStep
  BY <1>6, ReleaseEtcdStep DEF ContainerAdded
<1>7. CASE ReleaseAllIPs
  BY <1>7 DEF ReleaseAllIPs, EtcdStep
<1>8. CASE Start
  <2>1. PICK existingServices \in SUBSET Services :
          \E released \in SUBSET StaleAtRestart(existingServices) :
            DeleteAllocations(released)
    BY <1>8 DEF Start
  <2> QED
    BY <2>1 DEF EtcdStep, StaleAtRestart
<1>9. ASSUME NEW h \in Holders,
             \/ RequestIpamAddress(h)
             \/ PlaceForeign(h)
             \/ PlaceElsewhere(h)
             \/ StopElsewhere(h)
      PROVE  EtcdStep
  BY <1>9 DEF RequestIpamAddress, PlaceForeign, StartLoop, PlaceElsewhere,
              StopElsewhere, EtcdStep
<1>10. ASSUME NEW ip \in IPs, Cool(ip) PROVE EtcdStep
  BY <1>10 DEF Cool, EtcdStep
<1>11. CASE SyncExhausted \/ AllocateError \/ Crash \/ UNCHANGED vars
  BY <1>11 DEF SyncExhausted, AllocateError, Crash, vars, EtcdStep
<1> QED
  BY <1>1, <1>2, <1>3, <1>4, <1>5, <1>6, <1>7, <1>8, <1>9, <1>10, <1>11 DEF Next

\* A step on etcd keeps the keys below an address consistent.
LEMMA WellFormedStep ==
  TypeOK /\ EtcdWellFormed /\ EtcdStep => EtcdWellFormed'
<1> SUFFICES ASSUME TypeOK, EtcdWellFormed, EtcdStep PROVE EtcdWellFormed'
  OBVIOUS
<1>1. CASE UNCHANGED etcd
  BY <1>1 DEF etcd, EtcdWellFormed
<1>2. ASSUME NEW r \in Requests, NEW ip \in IPs,
             CanAllocate(r, ip), PutAllocation(r, ip)
      PROVE  EtcdWellFormed'
  BY <1>2, PoolAssumption
  DEF TypeOK, EtcdWellFormed, CanAllocate, CanReserve, CanAllocateContainer,
      CanAllocateService, PutAllocation, Requests, Holders, Types
<1>3. ASSUME NEW ips \in SUBSET IPs, DeleteAllocations(ips) PROVE EtcdWellFormed'
  BY <1>3, PoolAssumption
  DEF TypeOK, EtcdWellFormed, DeleteAllocations, Types
<1> QED
  BY <1>1, <1>2, <1>3 DEF EtcdStep

\* The data keys below an address always agree with its type.
THEOREM EtcdStaysWellFormed == Spec => []EtcdWellFormed
<1>1. Init => EtcdWellFormed
  BY PoolAssumption DEF Init, EtcdWellFormed, Types
<1> QED
  BY <1>1, NextEtcdStep, WellFormedStep, TypeCorrect, PTL DEF Spec

-----------------------------------------------------------------------------
(* The ledger.                                                             *)

\* A step on etcd maps to a step of the ledger or to a stutter.
LEMMA LedgerStep ==
  TypeOK /\ EtcdWellFormed /\ EtcdStep
    => [Ledger!Next]_([ip \in IPs |-> Owner(ip)])
<1> SUFFICES ASSUME TypeOK, EtcdWellFormed, EtcdStep
             PROVE  Ledger!Next \/ UNCHANGED [ip \in IPs |-> Owner(ip)]
  OBVIOUS
<1>1. CASE UNCHANGED etcd
  BY <1>1 DEF etcd, Owner
<1>2. ASSUME NEW r \in Requests, NEW ip \in IPs,
             CanAllocate(r, ip), PutAllocation(r, ip)
      PROVE  Ledger!Next \/ UNCHANGED [i \in IPs |-> Owner(i)]
  <2>1. \A i \in IPs : i # ip => Owner(i)' = Owner(i)
    BY <1>2 DEF PutAllocation, Owner, TypeOK
  <2>2. CASE r.op = "reserved"
    <3>1. Owner(ip) = None /\ Owner(ip)' = "reserved"
      BY <1>2, <2>2, PoolAssumption
      DEF CanAllocate, CanReserve, PutAllocation, Owner, TypeOK, Types
    <3>2. Ledger!Reserve(ip)
      BY <2>1, <3>1 DEF Ledger!Reserve
    <3> QED
      BY <3>2 DEF Ledger!Next
  <2>3. CASE r.op = "container-ip"
    <3>1. /\ Owner(ip)' = r.holder
          /\ Owner(ip) \in {None, "reserved", r.holder}
          /\ r.holder \in Holders
      BY <1>2, <2>3, PoolAssumption
      DEF CanAllocate, CanAllocateContainer, PutAllocation, Owner, TypeOK,
          Requests, Types, Holders
    <3>2. CASE Owner(ip) = r.holder
      BY <2>1, <3>1, <3>2
    <3>3. CASE Owner(ip) # r.holder
      <4>1. Ledger!Assign(ip, r.holder)
        BY <2>1, <3>1, <3>3 DEF Ledger!Assign
      <4> QED
        BY <3>1, <4>1 DEF Ledger!Next
    <3> QED
      BY <3>2, <3>3
  <2>4. CASE r.op = "service-vip"
    <3>1. /\ Owner(ip)' = r.holder
          /\ Owner(ip) \in {None, "reserved", r.holder}
          /\ r.holder \in Holders
      BY <1>2, <2>4, PoolAssumption
      DEF CanAllocate, CanAllocateService, PutAllocation, Owner, TypeOK,
          Requests, Types, Holders
    <3>2. CASE Owner(ip) = r.holder
      BY <2>1, <3>1, <3>2
    <3>3. CASE Owner(ip) # r.holder
      <4>1. Ledger!Assign(ip, r.holder)
        BY <2>1, <3>1, <3>3 DEF Ledger!Assign
      <4> QED
        BY <3>1, <4>1 DEF Ledger!Next
    <3> QED
      BY <3>2, <3>3
  <2> QED
    BY <2>2, <2>3, <2>4 DEF Requests
<1>3. ASSUME NEW ips \in SUBSET IPs, DeleteAllocations(ips)
      PROVE  Ledger!Next
  <2>1. \A i \in IPs : Owner(i)' = IF i \in ips THEN None ELSE Owner(i)
    BY <1>3 DEF DeleteAllocations, Owner
  <2>2. Ledger!Release(ips)
    BY <2>1 DEF Ledger!Release
  <2> QED
    BY <2>2 DEF Ledger!Next
<1> QED
  BY <1>1, <1>2, <1>3 DEF EtcdStep

\* An address passes from one holder to another only by being free in between,
\* in every execution, with lost answers and restarts.
THEOREM PoolImplementsLedger == Spec => LedgerImplemented
<1>1. Init => Ledger!Init
  BY DEF Init, Ledger!Init, Owner
<1>2. TypeOK /\ EtcdWellFormed /\ [Next]_vars
        => [Ledger!Next]_([ip \in IPs |-> Owner(ip)])
  BY NextEtcdStep, LedgerStep
<1> QED
  BY <1>1, <1>2, TypeCorrect, EtcdStaysWellFormed, PTL
  DEF Spec, LedgerImplemented, Ledger!Spec

-----------------------------------------------------------------------------
(* The restart.                                                            *)

\* Network.Init releases no address of a holder that runs with it.
LEMMA StaleHasNoOwner ==
  ASSUME TypeOK, EtcdWellFormed,
         NEW existingServices \in SUBSET Services,
         \A s \in Services : actual[s] # None => s \in existingServices,
         NEW h \in Holders, actual[h] \in IPs, Owner(actual[h]) = h
  PROVE  actual[h] \notin StaleAtRestart(existingServices)
<1>1. CASE h \in Macs
  <2>1. key[actual[h]] = "container-ip"
    BY <1>1, PoolAssumption DEF TypeOK, Owner, Holders, Types
  <2> QED
    BY <1>1, <2>1 DEF StaleAtRestart
<1>2. CASE h \in Services
  <2>1. key[actual[h]] = "service-vip" /\ serviceIDKey[actual[h]] = h
    BY <1>2, PoolAssumption DEF TypeOK, Owner, Holders, Types
  <2>2. actual[h] # None
    BY PoolAssumption
  <2> QED
    BY <1>2, <2>1, <2>2 DEF StaleAtRestart
<1> QED
  BY <1>1, <1>2 DEF Holders

\* A start takes no address from a holder that runs with it.
LEMMA StartKeepsOwner ==
  ASSUME TypeOK, EtcdWellFormed, Start,
         NEW h \in Holders, actual[h] \in IPs, Owner(actual[h]) = h
  PROVE  Owner(actual[h])' = h
<1>1. PICK existingServices \in SUBSET Services :
        /\ \A s \in Services : actual[s] # None => s \in existingServices
        /\ \E released \in SUBSET StaleAtRestart(existingServices) :
             DeleteAllocations(released)
  BY DEF Start
<1>2. PICK released \in SUBSET StaleAtRestart(existingServices) :
        DeleteAllocations(released)
  BY <1>1
<1>3. actual[h] \notin released
  BY <1>1, <1>2, StaleHasNoOwner
<1>4. actual' = actual
  BY DEF Start
<1> QED
  BY <1>2, <1>3, <1>4 DEF DeleteAllocations, Owner

\* Restarting the plugin takes no address from a holder that runs with it.
THEOREM RestartIsSafe == Spec => RestartKeepsOwners
<1>1. TypeOK /\ EtcdWellFormed /\ [Next]_vars
        => [Start => \A h \in Holders :
              actual[h] \in IPs /\ Owner(actual[h]) = h => Owner(actual[h])' = h]_vars
  BY StartKeepsOwner
<1> QED
  BY <1>1, TypeCorrect, EtcdStaysWellFormed, PTL DEF Spec, RestartKeepsOwners

-----------------------------------------------------------------------------
(* The memory.                                                             *)

\* ReleaseIPIfReserved keeps the memory partitioned.
LEMMA ReleasePartition ==
  ASSUME TypeOK, MemoryPartition, up, NEW ip \in IPs, ReleaseIPIfReserved(ip), up' = up
  PROVE  MemoryPartition'
<1>1. CASE Released(ip)
  BY <1>1, PoolAssumption DEF Released, TypeOK, MemoryPartition, Allocations
<1>2. CASE ReleaseAnswerLost(ip)
  BY <1>2 DEF ReleaseAnswerLost, MemoryPartition, memory
<1>3. CASE ReleaseRefused(ip)
  <2>1. Stored(ip) # None /\ allocatedIPs[ip] # None
    BY <1>3, StoredNone DEF ReleaseRefused
  <2> QED
    BY <1>3, <2>1 DEF ReleaseRefused, TypeOK, MemoryPartition
<1>4. CASE ReleaseWithoutEffect(ip)
  BY <1>4 DEF ReleaseWithoutEffect, MemoryPartition, memory
<1> QED
  BY <1>1, <1>2, <1>3, <1>4 DEF ReleaseIPIfReserved

\* Every step keeps the memory partitioned.
LEMMA PartitionStep == TypeOK /\ MemoryPartition /\ [Next]_vars => MemoryPartition'
<1> SUFFICES ASSUME TypeOK, MemoryPartition, [Next]_vars PROVE MemoryPartition'
  OBVIOUS
<1>a. \A ip \in IPs : Stored(ip) = None <=> key[ip] = None
  BY StoredNone
<1>b. \A r \in Requests :
        /\ [type |-> r.op, data |-> Data(r)] # None
        /\ [type |-> r.op, data |-> r.holder] # None
  BY PoolAssumption DEF Allocations, Requests, Data, Holders, Types
<1>1. ASSUME NEW h \in Holders, PlaceHere(h) PROVE MemoryPartition'
  <2>1. ipam[h] \in IPs
    BY <1>1 DEF PlaceHere, TypeOK
  <2>2. CASE UNCHANGED <<up, memory>>
    BY <2>2 DEF MemoryPartition, memory
  <2>3. HolderRequest(h) \in Requests /\ HolderRequest(h).holder = h
    BY HolderRequestType DEF HolderRequest
  <2>4. [type |-> HolderRequest(h).op, data |-> h] # None
    BY <2>3, <1>b
  <2>5. CASE /\ allocatedIPs' = [allocatedIPs EXCEPT
                   ![ipam[h]] = [type |-> HolderRequest(h).op, data |-> h]]
             /\ unusedIPs' = IF allocatedIPs[ipam[h]] = None
                             THEN [unusedIPs EXCEPT ![ipam[h]] = "no"] ELSE unusedIPs
             /\ UNCHANGED up
    BY <2>1, <2>4, <2>5 DEF TypeOK, MemoryPartition
  <2> QED
    BY <1>1, <2>2, <2>5 DEF PlaceHere, StartLoop
<1>2. ASSUME NEW h \in Holders, StopHere(h) PROVE MemoryPartition'
  <2>1. CASE UNCHANGED memory
    BY <1>2, <2>1 DEF StopHere, MemoryPartition, memory
  <2>2. CASE ReleaseIPIfReserved(actual[h])
    BY <1>2, <2>2, ReleasePartition DEF StopHere, Ready
  <2> QED
    BY <1>2, <2>1, <2>2 DEF StopHere
<1>3. ASSUME NEW h \in Holders, ReleaseIpamAddress(h) PROVE MemoryPartition'
  BY <1>3, ReleasePartition DEF ReleaseIpamAddress, Ready, TypeOK
<1>4. ASSUME NEW ip \in IPs, AllocateFreeIP(ip) PROVE MemoryPartition'
  BY <1>4, <1>b DEF AllocateFreeIP, Record, TypeOK, MemoryPartition
<1>5. ASSUME NEW ip \in IPs, ContainerAdded(ip) PROVE MemoryPartition'
  BY <1>5, ReleasePartition DEF ContainerAdded, Ready
<1>6. ASSUME NEW ip \in IPs, Cool(ip) PROVE MemoryPartition'
  BY <1>6 DEF Cool, TypeOK, MemoryPartition
<1>7. CASE SyncExhausted
  BY <1>7, <1>a DEF SyncExhausted, SyncIPs, MemoryPartition
<1>8. CASE ReleaseAllIPs
  BY <1>8 DEF ReleaseAllIPs, MemoryPartition, memory
<1>9. CASE Crash
  BY <1>9 DEF Crash, MemoryPartition
<1>10. CASE Start
  <2>1. PICK given :
          /\ allocatedIPs' = [ip \in IPs |-> IF ip \in given THEN None ELSE Stored(ip)]
          /\ unusedIPs' = [ip \in IPs |-> IF key[ip] = None \/ ip \in given
                                          THEN "cooling" ELSE "no"]
    <3>1. \E released, unanswered :
            /\ allocatedIPs' = [ip \in IPs |-> IF ip \in released \ unanswered
                                               THEN None ELSE Stored(ip)]
            /\ unusedIPs' = [ip \in IPs |->
                               IF key[ip] = None \/ ip \in released \ unanswered
                               THEN "cooling" ELSE "no"]
      BY <1>10 DEF Start
    <3> QED
      BY <3>1
  <2> QED
    BY <2>1, <1>a DEF MemoryPartition
<1>11. ASSUME NEW h \in Holders,
              \/ RequestIpamAddress(h)
              \/ PlaceForeign(h)
              \/ PlaceElsewhere(h)
              \/ StopElsewhere(h)
       PROVE  MemoryPartition'
  BY <1>11 DEF RequestIpamAddress, PlaceForeign, StartLoop, PlaceElsewhere,
               StopElsewhere, MemoryPartition, memory
<1>12. ASSUME NEW ip \in IPs, AllocateAnswerLost(ip) PROVE MemoryPartition'
  BY <1>12 DEF AllocateAnswerLost, MemoryPartition, memory
<1>13. CASE AllocateError \/ UNCHANGED vars
  BY <1>13 DEF AllocateError, vars, MemoryPartition, memory
<1> QED
  BY <1>1, <1>2, <1>3, <1>4, <1>5, <1>6, <1>7, <1>8, <1>9, <1>10, <1>11, <1>12,
     <1>13 DEF Next

\* No address is lost from the memory of a running pool, and none is on offer
\* while it is allocated.
THEOREM MemoryStaysPartitioned == Spec => []MemoryPartition
<1>1. Init => MemoryPartition
  BY DEF Init, MemoryPartition
<1> QED
  BY <1>1, PartitionStep, TypeCorrect, PTL DEF Spec

-----------------------------------------------------------------------------
(* The memory as etcd's copy.                                              *)

\* An allocation is read back as it was put: no other key of its address
\* survives from an earlier type, which getAllocationsByPrefix would read.
LEMMA PutStored ==
  ASSUME TypeOK, EtcdWellFormed, NEW r \in Requests, NEW ip \in IPs,
         CanAllocate(r, ip), PutAllocation(r, ip)
  PROVE  \A i \in IPs :
           Stored(i)' = IF i = ip THEN [type |-> r.op, data |-> Data(r)] ELSE Stored(i)
<1>1. ASSUME NEW i \in IPs, i # ip PROVE Stored(i)' = Stored(i)
  BY <1>1 DEF PutAllocation, Stored, TypeOK
<1>2. r.op # None
  BY PoolAssumption DEF Requests, Types
<1>3. CASE r.op = "reserved"
  <2>1. macKey[ip] = None /\ serviceIDKey[ip] = None
    BY <1>3, PoolAssumption
    DEF CanAllocate, CanReserve, EtcdWellFormed, TypeOK, Types
  <2> QED
    BY <1>1, <1>2, <1>3, <2>1 DEF PutAllocation, Stored, Data, TypeOK
<1>4. CASE r.op = "container-ip"
  <2>1. serviceIDKey[ip] = None
    BY <1>4, PoolAssumption
    DEF CanAllocate, CanAllocateContainer, EtcdWellFormed, TypeOK, Types
  <2> QED
    BY <1>1, <1>2, <1>4, <2>1 DEF PutAllocation, Stored, Data, TypeOK
<1>5. CASE r.op = "service-vip"
  <2>1. r.holder # None
    BY <1>5, PoolAssumption DEF Requests, Holders
  <2> QED
    BY <1>1, <1>2, <1>5, <2>1 DEF PutAllocation, Stored, Data, TypeOK
<1> QED
  BY <1>3, <1>4, <1>5 DEF Requests

\* After deletes nothing is stored for the addresses deleted, and the others
\* read as before.
LEMMA DeleteStored ==
  ASSUME NEW ips \in SUBSET IPs, DeleteAllocations(ips)
  PROVE  \A i \in IPs : Stored(i)' = IF i \in ips THEN None ELSE Stored(i)
BY DEF DeleteAllocations, Stored

\* With every answer arriving, ReleaseIPIfReserved does to the memory what it
\* does to etcd.
LEMMA ReleaseFollows ==
  ASSUME ~Unreliable, TypeOK, MemoryFollowsEtcd, up,
         NEW ip \in IPs, ReleaseIPIfReserved(ip)
  PROVE  MemoryFollowsEtcd'
<1>1. CASE Released(ip)
  <2>1. DeleteAllocations({ip}) /\ allocatedIPs' = [allocatedIPs EXCEPT ![ip] = None]
    BY <1>1 DEF Released
  <2> QED
    BY <2>1, DeleteStored DEF MemoryFollowsEtcd, TypeOK
<1>2. CASE ReleaseAnswerLost(ip)
  BY <1>2 DEF ReleaseAnswerLost
<1>3. CASE ReleaseRefused(ip)
  BY <1>3 DEF ReleaseRefused, MemoryFollowsEtcd, TypeOK, Stored, etcd
<1>4. CASE ReleaseWithoutEffect(ip)
  BY <1>4 DEF ReleaseWithoutEffect, MemoryFollowsEtcd, Stored, etcd, memory
<1> QED
  BY <1>1, <1>2, <1>3, <1>4 DEF ReleaseIPIfReserved

\* With every answer arriving, every step keeps the memory equal to etcd.
LEMMA FollowsStep ==
  TypeOK /\ EtcdWellFormed /\ MemoryFollowsEtcd /\ [Next]_vars => MemoryFollowsEtcd'
<1> SUFFICES ASSUME TypeOK, EtcdWellFormed, MemoryFollowsEtcd, [Next]_vars, ~Unreliable
             PROVE  MemoryFollowsEtcd'
  BY DEF MemoryFollowsEtcd
<1>a. ASSUME UNCHANGED <<etcd, up, allocatedIPs>> PROVE MemoryFollowsEtcd'
  BY <1>a DEF MemoryFollowsEtcd, Stored, etcd
<1>1. ASSUME NEW h \in Holders, PlaceHere(h) PROVE MemoryFollowsEtcd'
  <2> DEFINE r == HolderRequest(h)
             ip == ipam[h]
  <2>1. r \in Requests /\ ip \in IPs /\ Data(r) = h
    BY <1>1, HolderRequestType DEF PlaceHere, TypeOK, HolderRequest, Data
  <2>2. CASE /\ CanAllocate(r, ip)
             /\ PutAllocation(r, ip)
             /\ allocatedIPs' = [allocatedIPs EXCEPT ![ip] = [type |-> r.op, data |-> h]]
             /\ UNCHANGED up
    <3> HIDE DEF r, ip
    <3>1. \A i \in IPs :
            Stored(i)' = IF i = ip THEN [type |-> r.op, data |-> h] ELSE Stored(i)
      BY <2>1, <2>2, PutStored
    <3> QED
      BY <2>1, <2>2, <3>1 DEF MemoryFollowsEtcd, TypeOK
  <2>3. CASE StartLoop(r)
    BY <2>3, <1>a DEF StartLoop, memory
  <2> QED
    BY <1>1, <2>2, <2>3 DEF PlaceHere
<1>2. ASSUME NEW h \in Holders, StopHere(h) PROVE MemoryFollowsEtcd'
  <2>1. CASE UNCHANGED <<etcd, memory>>
    BY <1>2, <2>1, <1>a DEF StopHere, memory
  <2>2. CASE ReleaseIPIfReserved(actual[h])
    BY <1>2, <2>2, ReleaseFollows DEF StopHere, Ready
  <2> QED
    BY <1>2, <2>1, <2>2 DEF StopHere
<1>3. ASSUME NEW h \in Holders, ReleaseIpamAddress(h) PROVE MemoryFollowsEtcd'
  BY <1>3, ReleaseFollows DEF ReleaseIpamAddress, Ready, TypeOK
<1>4. ASSUME NEW ip \in IPs, AllocateFreeIP(ip) PROVE MemoryFollowsEtcd'
  <2>1. request \in Requests
    BY <1>4 DEF AllocateFreeIP, TypeOK
  <2>2. \A i \in IPs : Stored(i)' = IF i = ip
                                    THEN [type |-> request.op, data |-> Data(request)]
                                    ELSE Stored(i)
    BY <1>4, <2>1, PutStored DEF AllocateFreeIP
  <2> QED
    BY <1>4, <2>2 DEF AllocateFreeIP, Record, MemoryFollowsEtcd, TypeOK
<1>5. ASSUME NEW ip \in IPs, ContainerAdded(ip) PROVE MemoryFollowsEtcd'
  BY <1>5, ReleaseFollows DEF ContainerAdded, Ready
<1>6. ASSUME NEW ip \in IPs, Cool(ip) PROVE MemoryFollowsEtcd'
  BY <1>6, <1>a DEF Cool
<1>7. CASE SyncExhausted
  BY <1>7 DEF SyncExhausted, SyncIPs, MemoryFollowsEtcd, Stored, etcd
<1>8. CASE ReleaseAllIPs
  <2>1. DeleteAllocations(IPs) /\ allocatedIPs' = [ip \in IPs |-> None]
    BY <1>8 DEF ReleaseAllIPs
  <2> QED
    BY <2>1, DeleteStored DEF MemoryFollowsEtcd
<1>9. CASE Crash
  BY <1>9 DEF Crash, MemoryFollowsEtcd
<1>10. CASE Start
  <2>1. \E stale \in SUBSET IPs :
          /\ DeleteAllocations(stale)
          /\ allocatedIPs' = [ip \in IPs |-> IF ip \in stale THEN None ELSE Stored(ip)]
    <3>1. PICK existingServices \in SUBSET Services :
            \E released \in SUBSET StaleAtRestart(existingServices) :
              \E unanswered \in SUBSET released :
                /\ unanswered = {}
                /\ DeleteAllocations(released)
                /\ allocatedIPs' = [ip \in IPs |-> IF ip \in released \ unanswered
                                                   THEN None ELSE Stored(ip)]
      BY <1>10 DEF Start
    <3>2. StaleAtRestart(existingServices) \subseteq IPs
      BY DEF StaleAtRestart
    <3>3. PICK released \in SUBSET IPs :
            /\ DeleteAllocations(released)
            /\ allocatedIPs' = [ip \in IPs |-> IF ip \in released \ {}
                                               THEN None ELSE Stored(ip)]
      BY <3>1, <3>2
    <3> QED
      BY <3>3
  <2> QED
    BY <2>1, DeleteStored DEF MemoryFollowsEtcd
<1>11. ASSUME NEW h \in Holders,
              \/ RequestIpamAddress(h)
              \/ PlaceForeign(h)
              \/ PlaceElsewhere(h)
              \/ StopElsewhere(h)
       PROVE  MemoryFollowsEtcd'
  BY <1>11, <1>a DEF RequestIpamAddress, PlaceForeign, StartLoop, PlaceElsewhere,
                     StopElsewhere, memory
<1>12. ASSUME NEW ip \in IPs, AllocateAnswerLost(ip) PROVE MemoryFollowsEtcd'
  BY <1>12 DEF AllocateAnswerLost
<1>13. CASE AllocateError \/ UNCHANGED vars
  BY <1>13, <1>a DEF AllocateError, vars, memory
<1> QED
  BY <1>1, <1>2, <1>3, <1>4, <1>5, <1>6, <1>7, <1>8, <1>9, <1>10, <1>11, <1>12,
     <1>13 DEF Next

\* With every answer arriving, a running pool's memory is etcd's copy although
\* no watch updates it: the pool's own transactions, syncs and the release of
\* stale allocations at the start tell it all it has to know.
THEOREM MemoryStaysEtcd == Spec => []MemoryFollowsEtcd
<1>1. Init => MemoryFollowsEtcd
  BY DEF Init, MemoryFollowsEtcd, Stored
<1> QED
  BY <1>1, FollowsStep, TypeCorrect, EtcdStaysWellFormed, PTL DEF Spec

-----------------------------------------------------------------------------
(* A node whose pool the swarm allocator does not use.                     *)

\* Nothing is set aside in this pool, so nobody gives an address back but the
\* holder that ran with it.
WorkerInv ==
  /\ \A h \in Holders : ipam[h] = None
  /\ announced = {}
  /\ request # None => request.op # "reserved"
  /\ LiveAddressOwned

\* An allocation for the holder h leaves the other holders their addresses.
LEMMA PutKeepsOwners ==
  ASSUME TypeOK, EtcdWellFormed, NEW r \in Requests, NEW ip \in IPs,
         CanAllocate(r, ip), PutAllocation(r, ip), r.op # "reserved",
         NEW h \in Holders, NEW a \in IPs, Owner(a) = h
  PROVE  Owner(a)' = h
<1>1. CASE a # ip
  BY <1>1 DEF PutAllocation, Owner, TypeOK
<1>2. CASE a = ip /\ r.op = "container-ip"
  BY <1>2, PoolAssumption
  DEF CanAllocate, CanAllocateContainer, PutAllocation, Owner, TypeOK, Requests,
      Types, Holders
<1>3. CASE a = ip /\ r.op = "service-vip"
  BY <1>3, PoolAssumption
  DEF CanAllocate, CanAllocateService, PutAllocation, Owner, TypeOK, Requests,
      Types, Holders
<1> QED
  BY <1>1, <1>2, <1>3 DEF Requests

\* After a put for a holder the address is that holder's.
LEMMA PutOwner ==
  ASSUME TypeOK, NEW r \in Requests, NEW ip \in IPs,
         PutAllocation(r, ip), r.op # "reserved"
  PROVE  Owner(ip)' = r.holder
BY PoolAssumption DEF PutAllocation, Owner, TypeOK, Requests, Types

\* A release touches the keys of its own address only.
LEMMA ReleaseKeepsOwners ==
  ASSUME NEW ip \in IPs, ReleaseIPIfReserved(ip), NEW a \in IPs, a # ip
  PROVE  Owner(a)' = Owner(a)
<1>1. CASE DeleteAllocations({ip})
  BY <1>1 DEF DeleteAllocations, Owner
<1>2. CASE UNCHANGED etcd
  BY <1>2 DEF etcd, Owner
<1> QED
  BY <1>1, <1>2
  DEF ReleaseIPIfReserved, Released, ReleaseAnswerLost, ReleaseRefused,
      ReleaseWithoutEffect

\* Where the swarm allocator does not ask, every step keeps live addresses owned.
LEMMA WorkerStep ==
  ~LeaderIPAM /\ TypeOK /\ EtcdWellFormed /\ WorkerInv /\ [Next]_vars => WorkerInv'
<1> SUFFICES ASSUME ~LeaderIPAM, TypeOK, EtcdWellFormed, WorkerInv, [Next]_vars
             PROVE  WorkerInv'
  OBVIOUS
<1>a. ASSUME UNCHANGED <<ipam, announced, request, etcd, actual>>
      PROVE  WorkerInv'
  BY <1>a DEF WorkerInv, LiveAddressOwned, Owner, etcd
<1>1. ASSUME NEW h \in Holders, RequestIpamAddress(h) PROVE WorkerInv'
  BY <1>1 DEF RequestIpamAddress
<1>2. ASSUME NEW h \in Holders, PlaceForeign(h) PROVE WorkerInv'
  <2>1. request'.op # "reserved"
    BY <1>2 DEF PlaceForeign, StartLoop, HolderRequest
  <2> QED
    BY <1>2, <2>1
    DEF PlaceForeign, StartLoop, WorkerInv, LiveAddressOwned, Owner, etcd, docker
<1>3. ASSUME NEW h \in Holders, PlaceHere(h) PROVE WorkerInv'
  BY <1>3 DEF PlaceHere, WorkerInv
<1>4. ASSUME NEW h \in Holders, StopHere(h) PROVE WorkerInv'
  <2>1. /\ actual[h] \in IPs
        /\ actual' = [actual EXCEPT ![h] = None]
        /\ UNCHANGED <<request, ipam, announced>>
        /\ ReleaseIPIfReserved(actual[h])
    BY <1>4, PoolAssumption DEF StopHere, AfterRun, WorkerInv
  <2>2. ASSUME NEW g \in Holders, NEW a \in IPs, actual'[g] = a
        PROVE  Owner(a)' = g
    <3>1. g # h /\ actual[g] = a
      BY <2>1, <2>2, PoolAssumption DEF TypeOK
    <3>2. Owner(a) = g /\ Owner(actual[h]) = h
      BY <2>1, <2>2, <3>1 DEF WorkerInv, LiveAddressOwned
    <3>3. a # actual[h]
      BY <3>1, <3>2
    <3> QED
      BY <2>1, <2>2, <3>2, <3>3, ReleaseKeepsOwners
  <2> QED
    BY <2>1, <2>2 DEF WorkerInv, LiveAddressOwned, Owner
<1>5. ASSUME NEW h \in Holders, ReleaseIpamAddress(h) PROVE WorkerInv'
  BY <1>5 DEF ReleaseIpamAddress, WorkerInv
<1>6. ASSUME NEW h \in Holders, PlaceElsewhere(h) PROVE WorkerInv'
  BY <1>6 DEF PlaceElsewhere, WorkerInv
<1>7. ASSUME NEW h \in Holders, StopElsewhere(h) PROVE WorkerInv'
  <2>1. ASSUME NEW g \in Holders, actual'[g] \in IPs PROVE actual'[g] = actual[g]
    BY <1>7, <2>1, PoolAssumption DEF StopElsewhere, TypeOK
  <2> QED
    BY <1>7, <2>1 DEF StopElsewhere, WorkerInv, LiveAddressOwned, Owner, etcd
<1>8. ASSUME NEW ip \in IPs, AllocateFreeIP(ip) PROVE WorkerInv'
  <2>1. /\ request \in Requests
        /\ request.op # "reserved"
        /\ request.holder \in Holders
    BY <1>8 DEF AllocateFreeIP, TypeOK, WorkerInv, Requests, Holders
  <2>2. /\ actual' = [actual EXCEPT ![request.holder] = ip]
        /\ UNCHANGED <<ipam, announced>>
        /\ request' = None
    BY <1>8, <2>1 DEF AllocateFreeIP, Grant, WorkerInv
  <2>3. ASSUME NEW g \in Holders, NEW a \in IPs, actual'[g] = a
        PROVE  Owner(a)' = g
    <3>1. CASE g = request.holder
      <4>1. a = ip
        BY <2>1, <2>2, <2>3, <3>1 DEF TypeOK
      <4> QED
        BY <1>8, <2>1, <3>1, <4>1, PutOwner DEF AllocateFreeIP
    <3>2. CASE g # request.holder
      <4>1. actual[g] = a
        BY <2>1, <2>2, <2>3, <3>2 DEF TypeOK
      <4>2. Owner(a) = g
        BY <4>1 DEF WorkerInv, LiveAddressOwned
      <4> QED
        BY <1>8, <2>1, <4>2, PutKeepsOwners DEF AllocateFreeIP
    <3> QED
      BY <3>1, <3>2
  <2> QED
    BY <2>2, <2>3 DEF WorkerInv, LiveAddressOwned, Owner
<1>9. ASSUME NEW ip \in IPs, AllocateAnswerLost(ip) PROVE WorkerInv'
  <2>1. request \in Requests /\ request.op # "reserved"
    BY <1>9 DEF AllocateAnswerLost, TypeOK, WorkerInv
  <2>2. actual' = actual
    BY <1>9 DEF AllocateAnswerLost, docker
  <2>3. ASSUME NEW g \in Holders, NEW a \in IPs, actual'[g] = a
        PROVE  Owner(a)' = g
    <3>1. Owner(a) = g
      BY <2>2, <2>3 DEF WorkerInv, LiveAddressOwned
    <3> QED
      BY <1>9, <2>1, <3>1, PutKeepsOwners DEF AllocateAnswerLost
  <2> QED
    BY <1>9, <2>3 DEF AllocateAnswerLost, WorkerInv, LiveAddressOwned, docker, Owner
<1>10. ASSUME NEW ip \in IPs, ContainerAdded(ip) PROVE WorkerInv'
  BY <1>10 DEF ContainerAdded, WorkerInv
<1>11. CASE ReleaseAllIPs
  BY <1>11, PoolAssumption
  DEF ReleaseAllIPs, WorkerInv, LiveAddressOwned, docker
<1>12. CASE Crash
  BY <1>12 DEF Crash, WorkerInv, LiveAddressOwned, Owner, etcd
<1>13. CASE Start
  <2>1. announced' = {}
    BY <1>13 DEF Start, WorkerInv, Holders
  <2>2. UNCHANGED <<request, ipam, actual>>
    BY <1>13 DEF Start
  <2>3. \A g \in Holders : actual[g] \in IPs => Owner(actual[g])' = g
    BY <1>13, StartKeepsOwner DEF WorkerInv, LiveAddressOwned
  <2> QED
    BY <2>1, <2>2, <2>3 DEF WorkerInv, LiveAddressOwned, Owner
<1>14. ASSUME NEW ip \in IPs, Cool(ip) PROVE WorkerInv'
  BY <1>14, <1>a DEF Cool, docker
<1>15. CASE SyncExhausted \/ AllocateError
  BY <1>15
  DEF SyncExhausted, AllocateError, WorkerInv, LiveAddressOwned, Owner, etcd, docker
<1>16. CASE UNCHANGED vars
  BY <1>16, <1>a DEF vars, docker
<1> QED
  BY <1>1, <1>2, <1>3, <1>4, <1>5, <1>6, <1>7, <1>8, <1>9, <1>10, <1>11, <1>12,
     <1>13, <1>14, <1>15, <1>16 DEF Next

\* On such a node an address in use is its user's in etcd, always: Docker's
\* data and etcd's agree in spite of lost answers and restarts.
THEOREM WorkerAddressesOwned == ASSUME ~LeaderIPAM PROVE Spec => []LiveAddressOwned
<1>1. Init => WorkerInv
  BY PoolAssumption DEF Init, WorkerInv, LiveAddressOwned
<1>2. TypeOK /\ EtcdWellFormed /\ WorkerInv /\ [Next]_vars => WorkerInv'
  BY WorkerStep
<1>3. WorkerInv => LiveAddressOwned
  BY DEF WorkerInv
<1> QED
  BY <1>1, <1>2, <1>3, TypeCorrect, EtcdStaysWellFormed, PTL DEF Spec

\* No two local holders run with the same address of the pool.
AddressesUnique ==
  \A h, g \in Holders : actual[h] \in IPs /\ actual[h] = actual[g] => h = g

\* A node the swarm allocator does not ask never runs two containers or load
\* balancers with one address (Docker and etcd are two stores; allocateFreeIP
\* and the release paths are what keeps them from giving it out twice).
THEOREM WorkerAddressesUnique == ASSUME ~LeaderIPAM PROVE Spec => []AddressesUnique
<1>1. LiveAddressOwned => AddressesUnique
  BY DEF LiveAddressOwned, AddressesUnique
<1> QED
  BY <1>1, WorkerAddressesOwned, PTL

-----------------------------------------------------------------------------
(* The end of an allocation.                                               *)

\* Every address on offer can be allocated, whatever the request asks for.
OffersCanBeAllocated ==
  up => \A ip \in Unused, r \in Requests : CanAllocate(r, ip)

\* While no answer is lost, the first transaction of allocateFreeIP that is
\* tried succeeds: what memory offers is free in etcd, so that its loop never
\* turns on an address that is taken.
THEOREM AllocationsSucceed == ASSUME ~Unreliable PROVE Spec => []OffersCanBeAllocated
<1>1. TypeOK /\ MemoryPartition /\ MemoryFollowsEtcd => OffersCanBeAllocated
  <2> SUFFICES ASSUME TypeOK, MemoryPartition, MemoryFollowsEtcd, up,
                      NEW ip \in Unused, NEW r \in Requests
               PROVE  CanAllocate(r, ip)
    BY DEF OffersCanBeAllocated
  <2>1. ip \in IPs /\ allocatedIPs[ip] = None
    BY DEF MemoryPartition, Unused
  <2>2. key[ip] = None
    BY <2>1, StoredNone DEF MemoryFollowsEtcd
  <2> QED
    BY <2>2
    DEF CanAllocate, CanReserve, CanAllocateContainer, CanAllocateService, Requests
<1> QED
  BY <1>1, TypeCorrect, MemoryStaysPartitioned, MemoryStaysEtcd, PTL
=============================================================================
