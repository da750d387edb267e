--------------------------- MODULE FwmarksProofs ----------------------------
(***************************************************************************)
(* Proofs about Fwmarks for any number of services, networks and marks, any*)
(* faults and any number of starts.                                        *)
(***************************************************************************)
EXTENDS Fwmarks, TLAPS

-----------------------------------------------------------------------------
(* What holds the mutex.                                                   *)

\* A creation asks for a mark where there is no load balancer, and gets to the
\* frontends when there is one in each network.
CreationGoesOn ==
  /\ op # None /\ op.pc \in {"get", "generate", "commit"} =>
       \A n \in Networks \ op.left : lbs[op.service][n] # None
  /\ op # None /\ op.pc \in {"generate", "commit"} =>
       /\ op.network # None /\ op.network \in op.left
       /\ lbs[op.service][op.network] = None
       /\ op.pc = "commit" => op.mark # None
  /\ op # None /\ op.pc = "frontends" => \A n \in Networks : lbs[op.service][n] # None

\* A deletion has the load balancers of the networks whose turn is still to come.
DeletionGoesOn ==
  op # None /\ op.pc \in {"kernel", "release"} =>
    /\ \A n \in op.left : op.lbs[n] # None
    /\ op.pc = "release" =>
         op.network # None /\ op.network \notin op.left /\ op.lbs[op.network] # None

-----------------------------------------------------------------------------
(* What is registered, as long as no service comes or goes while the start *)
(* cleans up.                                                              *)

\* The two keys of a mark agree for the services the node knows, or will know again.
KeysAgree ==
  \A s \in Services, n \in Networks :
    (s \in announced \/ status[s] = "live") /\ byService[n][s] # None =>
      list[n][byService[n][s]] = s

\* A deletion has the registered marks of a service the node no longer knows, and the
\* start does not clean up beside it.
DeletionHolds ==
  op # None /\ op.pc \in {"kernel", "release"} =>
    /\ op.service \notin announced
    /\ status[op.service] = "removed"
    /\ ~CleaningUp
    /\ \A n \in op.left : Registered(op.service, n, op.lbs[n].mark)
    /\ op.pc = "release" => Registered(op.service, op.network, op.lbs[op.network].mark)

\* Nothing is known of a service that does not exist yet, nor by a plugin that is not
\* running; one that runs knows every service.
KnownServices ==
  /\ \A s \in Services : status[s] = "future" =>
       /\ lbs[s] = NoLbs
       /\ s \notin announced /\ s \notin pending
       /\ op # None => op.service # s
       /\ \A n \in Networks : byService[n][s] = None
  /\ phase = "down" =>
       op = None /\ pending = {} /\ announced = {} /\ \A s \in Services : lbs[s] = NoLbs
  /\ phase # "down" => \A s \in Services : status[s] = "live" => s \in announced

\* The clean-up has only keys of services the node does not know.
CleanupSpares ==
  /\ phase = "snapshot" => announced \subseteq existing
  /\ phase # "cleaning" => todo.byService = {} /\ todo.list = {}
  /\ \A k \in todo.byService : k[2] \notin announced
  /\ \A k \in todo.list : list[k[1]][k[2]] # None /\ list[k[1]][k[2]] \notin announced

-----------------------------------------------------------------------------
(* Type correctness.                                                       *)

\* What holds the mutex is a creation or a deletion, as its pc says.
LEMMA Kinds ==
  ASSUME TypeOK, op # None
  PROVE  /\ op.pc \in {"get", "generate", "commit", "frontends"} => op \in Creation
         /\ op.pc \in {"kernel", "release"} => op \in Deletion
BY DEF TypeOK, Creation, Deletion

\* What the mutex's holder changes in etcd is well typed.
LEMMA PutType ==
  ASSUME TypeOK, NEW n \in Networks, NEW s \in Services, NEW m \in Marks, Put(n, s, m)
  PROVE  /\ byService' \in [Networks -> [Services -> Marks \cup {None}]]
         /\ list' \in [Networks -> [Marks -> Services \cup {None}]]
BY DEF TypeOK, Put

\* Deleting the keys of a mark keeps them typed.
LEMMA ReleaseType ==
  ASSUME TypeOK, NEW n \in Networks, NEW s \in Services, NEW m \in Marks, ReleaseKeys(s, n, m)
  PROVE  /\ byService' \in [Networks -> [Services -> Marks \cup {None}]]
         /\ list' \in [Networks -> [Marks -> Services \cup {None}]]
<1>1. CASE /\ byService' = [byService EXCEPT ![n][s] = None]
           /\ list' = [list EXCEPT ![n][m] = None]
  BY <1>1 DEF TypeOK
<1>2. CASE UNCHANGED etcd
  BY <1>2 DEF TypeOK, etcd
<1> QED
  BY <1>1, <1>2 DEF ReleaseKeys

\* The next network's turn.
LEMMA NextNetworkType ==
  ASSUME TypeOK, NEW n \in Networks, op \in Creation, NextNetwork(n)
  PROVE  op' \in Creation
BY DEF NextNetwork, Creation

\* A mark that was got keeps the creation and the load balancers typed.
LEMMA GotType ==
  ASSUME TypeOK, NEW n \in Networks, NEW m \in Marks, op \in Creation, Got(n, m)
  PROVE  /\ op' \in Creation
         /\ lbs' \in [Services -> [Networks -> LoadBalancer \cup {None}]]
<1>1. op.service \in Services
  BY DEF Creation
<1>2. lbs' \in [Services -> [Networks -> LoadBalancer \cup {None}]]
  BY <1>1 DEF TypeOK, Got, LoadBalancer
<1> QED
  BY <1>2, NextNetworkType DEF Got

\* What UpdateFrontendIP makes of a load balancer is one with the same mark.
LEMMA UpdatedLb ==
  ASSUME NEW lb \in LoadBalancer, NEW set \in BOOLEAN, NEW recorded \in BOOLEAN
  PROVE  Updated(lb, set, recorded) \in LoadBalancer /\ Updated(lb, set, recorded).mark = lb.mark
<1>1. lb.mark \in Marks /\ lb.frontend \in BOOLEAN /\ lb.ruled \in BOOLEAN
  BY DEF LoadBalancer
<1>2. (lb.frontend \/ set) \in BOOLEAN /\ (lb.ruled \/ recorded) \in BOOLEAN
  BY <1>1
<1> QED
  BY <1>1, <1>2 DEF Updated, LoadBalancer

\* UpdateFrontendIP replaces one load balancer by another one with its mark, however far
\* it gets.
LEMMA FrontendLb ==
  ASSUME TypeOK, CreationGoesOn, NEW n \in Networks, UpdateFrontendIP(n) \/ FrontendError(n)
  PROVE  /\ op \in Creation /\ op.service \in Services
         /\ lbs[op.service][n] \in LoadBalancer /\ lbs[op.service][n] # None
         /\ lbs' \in [Services -> [Networks -> LoadBalancer \cup {None}]]
         /\ \A s \in Services, i \in Networks :
              (s = op.service /\ i = n) \/ lbs'[s][i] = lbs[s][i]
         /\ lbs'[op.service][n] # None
         /\ lbs'[op.service][n].mark = lbs[op.service][n].mark
<1>1. op \in Creation /\ op.service \in Services
  BY Kinds DEF UpdateFrontendIP, FrontendError, Creating, Creation
<1>2. lbs[op.service][n] \in LoadBalancer /\ lbs[op.service][n] # None
  BY <1>1 DEF UpdateFrontendIP, FrontendError, Creating, TypeOK, CreationGoesOn
<1>3. PICK lb \in LoadBalancer :
        lb.mark = lbs[op.service][n].mark /\ lbs' = [lbs EXCEPT ![op.service][n] = lb]
  <2>1. TRUE \in BOOLEAN
    OBVIOUS
  <2>2. PICK set \in BOOLEAN, recorded \in BOOLEAN :
          lbs' = [lbs EXCEPT ![op.service][n] = Updated(lbs[op.service][n], set, recorded)]
    BY <2>1, Zenon DEF UpdateFrontendIP, FrontendError
  <2> QED
    BY <1>2, <2>2, UpdatedLb
<1>4. lbs'[op.service][n] = lb
  BY <1>1, <1>3 DEF TypeOK
<1>5. /\ lbs' \in [Services -> [Networks -> LoadBalancer \cup {None}]]
      /\ \A s \in Services, i \in Networks :
           (s = op.service /\ i = n) \/ lbs'[s][i] = lbs[s][i]
  BY <1>1, <1>3 DEF TypeOK
<1>6. lb # None
  BY FwmarksAssumption
<1> QED
  BY <1>1, <1>2, <1>3, <1>4, <1>5, <1>6

\* Every step keeps the types.
LEMMA TypeStep == TypeOK /\ CreationGoesOn /\ DeletionGoesOn /\ [Next]_vars => TypeOK'
<1> SUFFICES ASSUME TypeOK, CreationGoesOn, DeletionGoesOn, [Next]_vars
             PROVE  TypeOK'
  OBVIOUS
<1> USE FwmarksAssumption
<1>1. ASSUME NEW s \in Services, ServiceCreated(s)
      PROVE  TypeOK'
  BY <1>1 DEF ServiceCreated, TypeOK, etcd, cleanup, kernel
<1>2. ASSUME NEW s \in Services, ServiceUpdated(s)
      PROVE  TypeOK'
  BY <1>2 DEF ServiceUpdated, TypeOK, etcd, cleanup, kernel
<1>3. ASSUME NEW s \in Services, ServiceRemoved(s)
      PROVE  TypeOK'
  BY <1>3 DEF ServiceRemoved, TypeOK, etcd, memory, cleanup, kernel
<1>4. ASSUME NEW s \in Services, BeginCreation(s)
      PROVE  TypeOK'
  BY <1>4 DEF BeginCreation, TypeOK, Creation, etcd, cleanup, kernel
<1>5. ASSUME NEW s \in Services, BeginDeletion(s)
      PROVE  TypeOK'
  <2>1. op' \in Deletion \cup {None}
    BY <1>5 DEF BeginDeletion, TypeOK, Deletion
  <2>2. lbs' \in [Services -> [Networks -> LoadBalancer \cup {None}]]
    BY <1>5 DEF BeginDeletion, TypeOK, NoLbs
  <2> QED
    BY <1>5, <2>1, <2>2 DEF BeginDeletion, TypeOK, etcd, cleanup, kernel
<1>6. ASSUME NEW s \in Services, NEW n \in Networks, AddBackend(s, n) \/ RemoveBackend(s, n)
      PROVE  TypeOK'
  <2>1. lbs[s][n] \in LoadBalancer /\ lbs[s][n].mark \in Marks
    BY <1>6 DEF AddBackend, RemoveBackend, TypeOK, LoadBalancer
  <2>2. Backends(n, lbs[s][n].mark) \in SUBSET Services
    BY <2>1 DEF Backends, TypeOK
  <2>3. PICK b \in SUBSET Services : ipvs' = [ipvs EXCEPT ![n][lbs[s][n].mark] = b]
    <3>1. /\ Backends(n, lbs[s][n].mark) \cup {s} \in SUBSET Services
          /\ Backends(n, lbs[s][n].mark) \ {s} \in SUBSET Services
      BY <2>2
    <3> QED
      BY <1>6, <3>1 DEF AddBackend, RemoveBackend
  <2>4. ipvs' \in [Networks -> [Marks -> (SUBSET Services) \cup {None}]]
    BY <2>1, <2>3 DEF TypeOK
  <2> QED
    BY <1>6, <2>4 DEF AddBackend, RemoveBackend, TypeOK, etcd, memory, cleanup
<1>7. ASSUME NEW n \in Networks, Lookup(n)
      PROVE  TypeOK'
  <2>1. op \in Creation /\ op.service \in Services
    BY <1>7, Kinds DEF Lookup, Creating, Creation
  <2>2. /\ op' \in Creation
        /\ lbs' \in [Services -> [Networks -> LoadBalancer \cup {None}]]
    <3>1. CASE lbs[op.service][n] # None
      BY <1>7, <2>1, <3>1, NextNetworkType DEF Lookup, TypeOK
    <3>2. CASE lbs[op.service][n] = None /\ byService[n][op.service] # None
      <4>1. byService[n][op.service] \in Marks
        BY <2>1, <3>2 DEF TypeOK
      <4> QED
        BY <1>7, <2>1, <3>2, <4>1, GotType DEF Lookup
    <3>3. CASE lbs[op.service][n] = None /\ byService[n][op.service] = None
      <4>1. op' = [op EXCEPT !.pc = "generate", !.network = n] /\ lbs' = lbs
        BY <1>7, <3>3 DEF Lookup
      <4>2. [op EXCEPT !.pc = "generate", !.network = n] \in Creation
        BY <2>1 DEF Creation
      <4> QED
        BY <4>1, <4>2 DEF TypeOK
    <3> QED
      BY <3>1, <3>2, <3>3
  <2> QED
    BY <1>7, <2>2 DEF Lookup, TypeOK, etcd, cleanup, kernel
<1>8. CASE GenerateFWMARK
  <2>1. op \in Creation
    BY <1>8, Kinds DEF GenerateFWMARK, Creating
  <2>2. op' \in Creation \cup {None}
    BY <1>8, <2>1 DEF GenerateFWMARK, Unused, Creation
  <2> QED
    BY <1>8, <2>2 DEF GenerateFWMARK, TypeOK, etcd, cleanup, kernel
<1>9. CASE Commit
  <2>1. /\ op \in Creation /\ op.service \in Services
        /\ op.network \in Networks /\ op.mark \in Marks
    BY <1>9, Kinds DEF Commit, Creating, Creation, CreationGoesOn
  <2>2. /\ op' \in Creation
        /\ lbs' \in [Services -> [Networks -> LoadBalancer \cup {None}]]
        /\ byService' \in [Networks -> [Services -> Marks \cup {None}]]
        /\ list' \in [Networks -> [Marks -> Services \cup {None}]]
    <3>1. CASE list[op.network][op.mark] = None
      BY <1>9, <2>1, <3>1, GotType, PutType DEF Commit
    <3>2. CASE list[op.network][op.mark] # None
      <4>1. /\ op' = [op EXCEPT !.pc = "generate", !.mark = None]
            /\ UNCHANGED <<byService, list, lbs>>
        BY <1>9, <3>2 DEF Commit, etcd
      <4>2. [op EXCEPT !.pc = "generate", !.mark = None] \in Creation
        BY <2>1 DEF Creation
      <4> QED
        BY <4>1, <4>2 DEF TypeOK
    <3> QED
      BY <3>1, <3>2
  <2> QED
    BY <1>9, <2>2 DEF Commit, TypeOK, cleanup, kernel
<1>10. CASE GetError
  <2>1. /\ byService' \in [Networks -> [Services -> Marks \cup {None}]]
        /\ list' \in [Networks -> [Marks -> Services \cup {None}]]
    <3>1. CASE UNCHANGED etcd
      BY <3>1 DEF TypeOK, etcd
    <3>2. CASE op.pc = "commit" /\ Put(op.network, op.service, op.mark)
      <4>1. /\ op.service \in Services
            /\ op.network \in Networks /\ op.mark \in Marks
        BY <1>10, <3>2, Kinds DEF GetError, Creating, Creation, CreationGoesOn
      <4> QED
        BY <3>2, <4>1, PutType
    <3> QED
      BY <1>10, <3>1, <3>2 DEF GetError
  <2> QED
    BY <1>10, <2>1 DEF GetError, TypeOK, cleanup, kernel
<1>11. ASSUME NEW n \in Networks, UpdateFrontendIP(n) \/ FrontendError(n)
       PROVE  TypeOK'
  <2>1. /\ op \in Creation /\ op.service \in Services /\ lbs[op.service][n] \in LoadBalancer
        /\ lbs' \in [Services -> [Networks -> LoadBalancer \cup {None}]]
    BY <1>11, FrontendLb
  <2>2. PICK m \in Marks : m = lbs[op.service][n].mark
    BY <2>1 DEF LoadBalancer
  <2>3. ipvs' \in [Networks -> [Marks -> (SUBSET Services) \cup {None}]]
    <3>1. EnsureIpvsService(n, m) \in [Networks -> [Marks -> (SUBSET Services) \cup {None}]]
      BY DEF EnsureIpvsService, TypeOK
    <3>2. ipvs' = ipvs \/ ipvs' = EnsureIpvsService(n, m)
      BY <1>11, <2>2, Zenon DEF UpdateFrontendIP, FrontendError
    <3> QED
      BY <3>1, <3>2 DEF TypeOK
  <2>4. rules' \in SUBSET (Services \X Networks \X Marks)
    <3>1. rules \cup {Rule(op.service, n, m)} \in SUBSET (Services \X Networks \X Marks)
      BY <2>1 DEF Rule, TypeOK
    <3>2. rules' = rules \/ rules' = rules \cup {Rule(op.service, n, m)}
      BY <1>11, <2>2, Zenon DEF UpdateFrontendIP, FrontendError
    <3> QED
      BY <3>1, <3>2 DEF TypeOK
  <2>5. op' \in Creation \cup {None}
    <3>1. op' = None \/ op' = [op EXCEPT !.left = op.left \ {n}]
      BY <1>11, Zenon DEF UpdateFrontendIP, FrontendError
    <3> QED
      BY <2>1, <3>1 DEF Creation
  <2>6. UNCHANGED <<status, byService, list, phase, turns, announced, pending, existing, todo,
                    stale, swept>>
    <3>1. UNCHANGED <<status, etcd, phase, turns, announced, pending, cleanup>>
      BY <1>11, Zenon DEF UpdateFrontendIP, FrontendError
    <3> QED
      BY <3>1 DEF etcd, cleanup
  <2> QED
    BY <2>1, <2>3, <2>4, <2>5, <2>6 DEF TypeOK
<1>12. ASSUME NEW n \in Networks, DeleteInKernel(n) \/ DeleteInKernelError(n)
       PROVE  TypeOK'
  <2>1. op \in Deletion /\ op.service \in Services
    BY <1>12, Kinds DEF DeleteInKernel, DeleteInKernelError, Deleting, Deletion
  <2>2. op.lbs[n] \in LoadBalancer /\ op.lbs[n].mark \in Marks
    BY <1>12, <2>1 DEF DeleteInKernel, DeleteInKernelError, Deleting, DeletionGoesOn,
                       Deletion, LoadBalancer
  <2>3. [ipvs EXCEPT ![n][op.lbs[n].mark] = None]
          \in [Networks -> [Marks -> (SUBSET Services) \cup {None}]]
    BY <2>2 DEF TypeOK
  <2>4. DropRules(op.service, n, op.lbs[n]) => rules' \in SUBSET (Services \X Networks \X Marks)
    BY DEF DropRules, TypeOK
  <2>5. CASE DeleteInKernel(n)
    <3>1. op' \in Deletion
      BY <2>1, <2>5 DEF DeleteInKernel, Deletion
    <3> QED
      BY <2>3, <2>4, <2>5, <3>1 DEF DeleteInKernel, KernelDeleted, TypeOK, etcd, cleanup
  <2>6. CASE DeleteInKernelError(n)
    <3>1. /\ rules' \in SUBSET (Services \X Networks \X Marks)
          /\ ipvs' \in [Networks -> [Marks -> (SUBSET Services) \cup {None}]]
      BY <2>3, <2>4, <2>6 DEF DeleteInKernelError, KernelDeleted, TypeOK, kernel
    <3> QED
      BY <2>6, <3>1 DEF DeleteInKernelError, TypeOK, etcd, cleanup
  <2> QED
    BY <1>12, <2>5, <2>6
<1>13. CASE Release \/ ReleaseError
  <2>1. op \in Deletion /\ op.service \in Services /\ op.network \in Networks
    BY <1>13, Kinds DEF Release, ReleaseError, Deleting, Deletion, DeletionGoesOn
  <2>2. op.lbs[op.network].mark \in Marks
    BY <1>13, <2>1 DEF Release, ReleaseError, Deleting, DeletionGoesOn, Deletion, LoadBalancer
  <2>3. /\ byService' \in [Networks -> [Services -> Marks \cup {None}]]
        /\ list' \in [Networks -> [Marks -> Services \cup {None}]]
    <3>1. CASE UNCHANGED etcd
      BY <3>1 DEF TypeOK, etcd
    <3>2. CASE ReleaseKeys(op.service, op.network, op.lbs[op.network].mark)
      BY <2>1, <2>2, <3>2, ReleaseType
    <3> QED
      BY <1>13, <3>1, <3>2 DEF Release, ReleaseError
  <2>4. op' \in Deletion \cup {None}
    BY <1>13, <2>1 DEF Release, ReleaseError, Deletion
  <2> QED
    BY <1>13, <2>3, <2>4 DEF Release, ReleaseError, TypeOK, cleanup, kernel
<1>14. CASE Start
  BY <1>14 DEF Start, TypeOK, etcd, cleanup, kernel
<1>15. CASE TakeServices
  BY <1>15 DEF TakeServices, TypeOK, etcd, memory, kernel
<1>16. CASE ReadKeys
  <2>1. todo' \in [byService : SUBSET (Networks \X Services), list : SUBSET (Networks \X Marks)]
    BY <1>16 DEF ReadKeys
  <2> QED
    BY <1>16, <2>1 DEF ReadKeys, TypeOK, etcd, memory, kernel
<1>17. ASSUME NEW k \in Networks \X Services, DeleteServiceKey(k)
       PROVE  TypeOK'
  <2>1. byService' \in [Networks -> [Services -> Marks \cup {None}]]
    <3>1. k[1] \in Networks /\ k[2] \in Services
      OBVIOUS
    <3>2. CASE byService' = [byService EXCEPT ![k[1]][k[2]] = None]
      BY <3>1, <3>2 DEF TypeOK
    <3> QED
      BY <1>17, <3>2 DEF DeleteServiceKey, TypeOK
  <2>2. todo' \in [byService : SUBSET (Networks \X Services), list : SUBSET (Networks \X Marks)]
    BY <1>17 DEF DeleteServiceKey, TypeOK
  <2> QED
    BY <1>17, <2>1, <2>2 DEF DeleteServiceKey, TypeOK, memory, kernel
<1>18. ASSUME NEW k \in Networks \X Marks, DeleteListKey(k)
       PROVE  TypeOK'
  <2>1. list' \in [Networks -> [Marks -> Services \cup {None}]]
    <3>1. k[1] \in Networks /\ k[2] \in Marks
      OBVIOUS
    <3>2. CASE list' = [list EXCEPT ![k[1]][k[2]] = None]
      BY <3>1, <3>2 DEF TypeOK
    <3> QED
      BY <1>18, <3>2 DEF DeleteListKey, TypeOK
  <2>2. todo' \in [byService : SUBSET (Networks \X Services), list : SUBSET (Networks \X Marks)]
    BY <1>18 DEF DeleteListKey, TypeOK
  <2>3. swept' \in SUBSET (Networks \X Marks)
    BY <1>18 DEF DeleteListKey, TypeOK
  <2> QED
    BY <1>18, <2>1, <2>2, <2>3 DEF DeleteListKey, TypeOK, memory, kernel
<1>19. CASE DeleteStaleInKernel
  <2>1. ipvs' \in [Networks -> [Marks -> (SUBSET Services) \cup {None}]]
    BY <1>19 DEF DeleteStaleInKernel, TypeOK
  <2>2. rules' \in SUBSET (Services \X Networks \X Marks)
    BY <1>19 DEF DeleteStaleInKernel, TypeOK
  <2> QED
    BY <1>19, <2>1, <2>2 DEF DeleteStaleInKernel, TypeOK, etcd, memory, NoneStale
<1>20. CASE Crash \/ Reboot
  <2>1. lbs' \in [Services -> [Networks -> LoadBalancer \cup {None}]]
    BY <1>20 DEF Crash, Reboot, Down, NoLbs
  <2>2. /\ ipvs' \in [Networks -> [Marks -> (SUBSET Services) \cup {None}]]
        /\ rules' \in SUBSET (Services \X Networks \X Marks)
    BY <1>20 DEF Crash, Reboot, TypeOK, kernel
  <2> QED
    BY <1>20, <2>1, <2>2 DEF Crash, Reboot, Down, TypeOK, etcd, NoneStale
<1>21. CASE UNCHANGED vars
  BY <1>21 DEF vars, TypeOK, etcd, memory, cleanup, kernel
<1> QED
  BY <1>1, <1>2, <1>3, <1>4, <1>5, <1>6, <1>7, <1>8, <1>9, <1>10, <1>11, <1>12, <1>13, <1>14,
     <1>15, <1>16, <1>17, <1>18, <1>19, <1>20, <1>21 DEF Next, Holder, Cleaner

\* A new load balancer is one.
LEMMA GotLb ==
  ASSUME TypeOK, op \in Creation, NEW n \in Networks, NEW m \in Marks, Got(n, m)
  PROVE  /\ op.service \in Services
         /\ \A s \in Services, i \in Networks :
              (s = op.service /\ i = n) \/ lbs'[s][i] = lbs[s][i]
         /\ lbs'[op.service][n] # None
         /\ lbs'[op.service][n].mark = m
<1>1. op.service \in Services /\ [mark |-> m, frontend |-> FALSE, ruled |-> FALSE] \in LoadBalancer
  BY DEF Creation, LoadBalancer
<1>2. lbs'[op.service][n] = [mark |-> m, frontend |-> FALSE, ruled |-> FALSE]
  BY <1>1 DEF TypeOK, Got
<1> QED
  BY <1>1, <1>2, FwmarksAssumption DEF TypeOK, Got

\* Where the next network's turn leads to.
LEMMA NextNetworkGoesOn ==
  ASSUME op \in Creation, NEW n \in op.left, NextNetwork(n)
  PROVE  /\ op' # None => op'.service = op.service
         /\ \/ op'.pc = "frontends" /\ op.left = {n}
            \/ op'.pc = "get" /\ op'.left = op.left \ {n}
BY DEF NextNetwork, Creation

\* Every step keeps creations and deletions where they can go on.
LEMMA GoesOnStep ==
  TypeOK /\ CreationGoesOn /\ DeletionGoesOn /\ [Next]_vars => CreationGoesOn' /\ DeletionGoesOn'
<1> SUFFICES ASSUME TypeOK, CreationGoesOn, DeletionGoesOn, [Next]_vars
             PROVE  CreationGoesOn' /\ DeletionGoesOn'
  OBVIOUS
<1> USE FwmarksAssumption
<1>1. CASE UNCHANGED <<op, lbs>>
  BY <1>1 DEF CreationGoesOn, DeletionGoesOn
<1>2. CASE op' = None
  BY <1>2 DEF CreationGoesOn, DeletionGoesOn
<1>3. ASSUME NEW s \in Services, BeginCreation(s)
      PROVE  CreationGoesOn' /\ DeletionGoesOn'
  BY <1>3 DEF BeginCreation, CreationGoesOn, DeletionGoesOn
<1>4. ASSUME NEW s \in Services, BeginDeletion(s)
      PROVE  CreationGoesOn' /\ DeletionGoesOn'
  BY <1>4 DEF BeginDeletion, CreationGoesOn, DeletionGoesOn
<1>5. ASSUME NEW n \in Networks, Lookup(n)
      PROVE  CreationGoesOn' /\ DeletionGoesOn'
  <2>1. op \in Creation /\ op.service \in Services
    BY <1>5, Kinds DEF Lookup, Creating, Creation
  <2>2. op.pc = "get" /\ n \in op.left /\ op # None
    BY <1>5 DEF Lookup, Creating
  <2>3. CASE lbs[op.service][n] # None
    <3>1. NextNetwork(n) /\ UNCHANGED lbs
      BY <1>5, <2>3 DEF Lookup
    <3> QED
      BY <2>1, <2>2, <2>3, <3>1, NextNetworkGoesOn DEF CreationGoesOn, DeletionGoesOn
  <2>4. CASE lbs[op.service][n] = None /\ byService[n][op.service] # None
    <3>1. PICK m \in Marks : Got(n, m)
      BY <1>5, <2>1, <2>4 DEF Lookup, TypeOK
    <3>2. NextNetwork(n)
      BY <3>1 DEF Got
    <3> QED
      BY <2>1, <2>2, <3>1, <3>2, GotLb, NextNetworkGoesOn DEF CreationGoesOn, DeletionGoesOn
  <2>5. CASE lbs[op.service][n] = None /\ byService[n][op.service] = None
    BY <1>5, <2>1, <2>2, <2>5 DEF Lookup, Creation, CreationGoesOn, DeletionGoesOn
  <2> QED
    BY <2>3, <2>4, <2>5
<1>6. CASE GenerateFWMARK
  <2>1. op \in Creation /\ op.pc = "generate" /\ op # None
    BY <1>6, Kinds DEF GenerateFWMARK, Creating
  <2>2. CASE op' = None
    BY <2>2 DEF CreationGoesOn, DeletionGoesOn
  <2>3. ASSUME NEW m \in Marks, op' = [op EXCEPT !.pc = "commit", !.mark = m], lbs' = lbs
        PROVE  CreationGoesOn' /\ DeletionGoesOn'
    <3>1. /\ op' \in Creation /\ op'.pc = "commit" /\ op'.mark = m
          /\ op'.service = op.service /\ op'.network = op.network /\ op'.left = op.left
      BY <2>1, <2>3 DEF Creation
    <3> QED
      BY <2>1, <2>3, <3>1 DEF CreationGoesOn, DeletionGoesOn
  <2> QED
    BY <1>6, <2>2, <2>3 DEF GenerateFWMARK, Unused
<1>7. CASE Commit
  <2>1. /\ op \in Creation /\ op.pc = "commit" /\ op # None
        /\ op.network \in Networks /\ op.network \in op.left /\ op.mark \in Marks
    BY <1>7, Kinds DEF Commit, Creating, CreationGoesOn, Creation
  <2>2. CASE Got(op.network, op.mark)
    <3>1. NextNetwork(op.network)
      BY <2>2 DEF Got
    <3> QED
      BY <2>1, <2>2, <3>1, GotLb, NextNetworkGoesOn DEF CreationGoesOn, DeletionGoesOn
  <2>3. CASE op' = [op EXCEPT !.pc = "generate", !.mark = None] /\ UNCHANGED lbs
    BY <2>1, <2>3 DEF Creation, CreationGoesOn, DeletionGoesOn
  <2> QED
    BY <1>7, <2>2, <2>3 DEF Commit
<1>8. ASSUME NEW n \in Networks, UpdateFrontendIP(n), op' # None
      PROVE  CreationGoesOn' /\ DeletionGoesOn'
  <2>1. op \in Creation /\ op.pc = "frontends" /\ op # None
    BY <1>8, Kinds DEF UpdateFrontendIP, Creating
  <2>2. op' = [op EXCEPT !.left = @ \ {n}]
    BY <1>8 DEF UpdateFrontendIP
  <2>3. op'.pc = "frontends" /\ op'.service = op.service
    BY <2>1, <2>2 DEF Creation
  <2>4. \A i \in Networks : lbs'[op.service][i] # None
    <3>1. \A i \in Networks : lbs[op.service][i] # None
      BY <2>1 DEF CreationGoesOn
    <3>2. /\ op.service \in Services
          /\ \A i \in Networks : i = n \/ lbs'[op.service][i] = lbs[op.service][i]
          /\ lbs'[op.service][n] # None
      BY <1>8, FrontendLb
    <3> QED
      BY <3>1, <3>2
  <2> QED
    BY <2>3, <2>4 DEF CreationGoesOn, DeletionGoesOn
<1>9. ASSUME NEW n \in Networks, DeleteInKernel(n)
      PROVE  CreationGoesOn' /\ DeletionGoesOn'
  <2>1. op \in Deletion /\ op.pc = "kernel"
    BY <1>9, Kinds DEF DeleteInKernel, Deleting
  <2> QED
    BY <1>9, <2>1 DEF DeleteInKernel, Deleting, Deletion, CreationGoesOn, DeletionGoesOn
<1>10. CASE Release
  <2>1. op \in Deletion /\ op.pc = "release"
    BY <1>10, Kinds DEF Release, Deleting
  <2> QED
    BY <1>10, <2>1 DEF Release, Deleting, Deletion, CreationGoesOn, DeletionGoesOn
<1>11. CASE Start \/ Cleaner
  <2>1. UNCHANGED <<op, lbs>>
    BY <1>11 DEF Start, Cleaner, TakeServices, ReadKeys, DeleteStaleInKernel, DeleteServiceKey,
                 DeleteListKey, memory
  <2> QED
    BY <2>1, <1>1
<1>12. ASSUME NEW s \in Services,
              ServiceCreated(s) \/ ServiceUpdated(s) \/ ServiceRemoved(s)
       PROVE  CreationGoesOn' /\ DeletionGoesOn'
  BY <1>1, <1>12 DEF ServiceCreated, ServiceUpdated, ServiceRemoved, memory
<1>13. ASSUME NEW s \in Services, NEW n \in Networks, AddBackend(s, n) \/ RemoveBackend(s, n)
       PROVE  CreationGoesOn' /\ DeletionGoesOn'
  BY <1>1, <1>13 DEF AddBackend, RemoveBackend, memory
<1>14. CASE \/ GetError \/ ReleaseError \/ Crash \/ Reboot
            \/ \E n \in Networks : FrontendError(n) \/ DeleteInKernelError(n)
  BY <1>2, <1>14 DEF GetError, ReleaseError, Crash, Reboot, Down, FrontendError, DeleteInKernelError
<1>15. CASE UNCHANGED vars
  BY <1>1, <1>15 DEF vars, memory
<1> QED
  BY <1>2, <1>3, <1>4, <1>5, <1>6, <1>7, <1>8, <1>9, <1>10, <1>11, <1>12, <1>13, <1>14, <1>15
  DEF Next, Holder

\* The types hold at the start.
LEMMA InitOK == Init => TypeOK /\ CreationGoesOn /\ DeletionGoesOn
<1> SUFFICES ASSUME Init PROVE TypeOK /\ CreationGoesOn /\ DeletionGoesOn
  OBVIOUS
<1>1. TypeOK
  BY FwmarksAssumption DEF Init, TypeOK, NoLbs, NoneStale
<1> QED
  BY <1>1 DEF Init, CreationGoesOn, DeletionGoesOn

\* Every variable keeps its type: in particular a creation never asks for the mark of a
\* load balancer that is not there, and a deletion never deletes one.
THEOREM TypeCorrect == Spec => [](TypeOK /\ CreationGoesOn /\ DeletionGoesOn)
BY InitOK, TypeStep, GoesOnStep, PTL DEF Spec

-----------------------------------------------------------------------------
(* The registered marks.                                                   *)

Typed == TypeOK /\ CreationGoesOn /\ DeletionGoesOn
Safe == MarksRegistered /\ KeysAgree /\ DeletionHolds /\ KnownServices /\ CleanupSpares

\* Steps that change nothing that Safe speaks of, but may end what holds the mutex.
LEMMA SafeFrame ==
  ASSUME Safe,
         UNCHANGED <<status, byService, list, phase, announced, lbs, existing, todo>>,
         pending' \subseteq pending,
         op' = op \/ op' = None
  PROVE  Safe'
<1>1. MarksRegistered' /\ KeysAgree'
  BY DEF Safe, MarksRegistered, Registered, KeysAgree
<1>2. DeletionHolds'
  BY DEF Safe, DeletionHolds, Registered, CleaningUp
<1>3. KnownServices' /\ CleanupSpares'
  BY DEF Safe, KnownServices, CleanupSpares
<1> QED
  BY <1>1, <1>2, <1>3 DEF Safe

\* A mark that is not on the list is registered for a service that has none.
LEMMA SafePut ==
  ASSUME Typed, Safe, NEW n \in Networks, NEW m \in Marks,
         op \in Creation, op # None, list[n][m] = None, lbs[op.service][n] = None,
         Put(n, op.service, m),
         UNCHANGED <<status, phase, announced, pending, lbs, existing, todo>>,
         op' # None => op' \in Creation /\ op'.service = op.service
  PROVE  Safe'
<1> USE FwmarksAssumption
<1> DEFINE s == op.service
<1>1. s \in Services
  BY DEF Creation
<1>2. /\ byService'[n][s] = m /\ list'[n][m] = s
      /\ \A i \in Networks, t \in Services : (i = n /\ t = s) \/ byService'[i][t] = byService[i][t]
      /\ \A i \in Networks, l \in Marks : (i = n /\ l = m) \/ list'[i][l] = list[i][l]
  BY <1>1 DEF Put, Typed, TypeOK
<1>3. MarksRegistered'
  <2> SUFFICES ASSUME NEW t \in announced, NEW i \in Networks, lbs[t][i] # None
               PROVE  Registered(t, i, lbs[t][i].mark)'
    BY DEF MarksRegistered
  <2>1. t \in Services /\ lbs[t][i].mark \in Marks
    BY DEF Typed, TypeOK, LoadBalancer
  <2>2. Registered(t, i, lbs[t][i].mark)
    BY DEF Safe, MarksRegistered
  <2> QED
    BY <1>1, <1>2, <2>1, <2>2 DEF Registered
<1>4. KeysAgree'
  <2> SUFFICES ASSUME NEW t \in Services, NEW i \in Networks,
                      t \in announced \/ status[t] = "live", byService'[i][t] # None
               PROVE  list'[i][byService'[i][t]] = t
    BY DEF KeysAgree
  <2>1. CASE i = n /\ t = s
    BY <1>2, <2>1
  <2>2. CASE ~(i = n /\ t = s)
    <3>1. byService'[i][t] = byService[i][t] /\ byService[i][t] \in Marks
      BY <1>2, <2>2 DEF Typed, TypeOK
    <3>2. list[i][byService[i][t]] = t
      BY <3>1 DEF Safe, KeysAgree
    <3> QED
      BY <1>2, <3>1, <3>2
  <2> QED
    BY <2>1, <2>2
<1>5. DeletionHolds'
  BY DEF DeletionHolds, Creation
<1>6. KnownServices'
  <2>1. status[s] # "future"
    BY <1>1 DEF Safe, KnownServices
  <2>2. phase # "down"
    BY DEF Safe, KnownServices
  <2>3. \A t \in Services, i \in Networks :
          status[t] = "future" => byService'[i][t] = byService[i][t]
    BY <1>2, <2>1
  <2> QED
    BY <2>1, <2>2, <2>3 DEF Safe, KnownServices
<1>7. CleanupSpares'
  <2> SUFFICES ASSUME NEW k \in todo.list
               PROVE  list'[k[1]][k[2]] # None /\ list'[k[1]][k[2]] \notin announced
    BY DEF Safe, CleanupSpares
  <2>1. k[1] \in Networks /\ k[2] \in Marks
    BY DEF Typed, TypeOK
  <2>2. list[k[1]][k[2]] # None /\ list[k[1]][k[2]] \notin announced
    BY DEF Safe, CleanupSpares
  <2> QED
    BY <1>2, <2>1, <2>2
<1> QED
  BY <1>3, <1>4, <1>5, <1>6, <1>7 DEF Safe

\* A creation's service gets a load balancer with a mark that is registered for it.
LEMMA SafeGot ==
  ASSUME Typed, Safe, NEW n \in Networks, NEW m \in Marks,
         op \in Creation, op # None, op.service \in announced => Registered(op.service, n, m),
         Got(n, m),
         UNCHANGED <<status, byService, list, phase, announced, pending, existing, todo>>,
         op' \in Creation, op'.service = op.service
  PROVE  Safe'
<1> DEFINE s == op.service
<1>1. /\ s \in Services
      /\ \A t \in Services, i \in Networks : (t = s /\ i = n) \/ lbs'[t][i] = lbs[t][i]
      /\ lbs'[s][n].mark = m
  BY GotLb DEF Typed
<1>2. MarksRegistered'
  <2> SUFFICES ASSUME NEW t \in announced, NEW i \in Networks, lbs'[t][i] # None
               PROVE  Registered(t, i, lbs'[t][i].mark)
    BY DEF MarksRegistered, Registered
  <2>1. t \in Services
    BY DEF Typed, TypeOK
  <2>2. CASE t = s /\ i = n
    BY <1>1, <2>2
  <2>3. CASE ~(t = s /\ i = n)
    BY <1>1, <2>1, <2>3 DEF Safe, MarksRegistered
  <2> QED
    BY <2>2, <2>3
<1>3. KeysAgree'
  BY DEF Safe, KeysAgree
<1>4. DeletionHolds'
  BY DEF DeletionHolds, Creation
<1>5. KnownServices'
  <2>1. status[s] # "future" /\ phase # "down"
    BY <1>1 DEF Safe, KnownServices
  <2>2. \A t \in Services : status[t] = "future" => lbs'[t] = lbs[t]
    BY <1>1, <2>1 DEF Got, Typed, TypeOK
  <2> QED
    BY <2>1, <2>2 DEF Safe, KnownServices
<1>6. CleanupSpares'
  BY DEF Safe, CleanupSpares
<1> QED
  BY <1>2, <1>3, <1>4, <1>5, <1>6 DEF Safe

\* A release frees the marks of a service the node does not know.
LEMMA SafeRelease ==
  ASSUME Typed, Safe, op \in Deletion, op # None, op.pc = "release",
         ReleaseKeys(op.service, op.network, op.lbs[op.network].mark),
         UNCHANGED <<status, phase, announced, pending, lbs, existing, todo>>,
         \/ op' = None
         \/ op' = [op EXCEPT !.pc = "kernel", !.network = None]
  PROVE  Safe'
<1> USE FwmarksAssumption
<1> DEFINE s == op.service
           n == op.network
           m == op.lbs[n].mark
<1>1. /\ s \in Services /\ n \in Networks /\ m \in Marks
      /\ n \notin op.left /\ op.left \subseteq Networks
  BY DEF Deletion, Typed, DeletionGoesOn, LoadBalancer
<1>2. s \notin announced /\ status[s] = "removed" /\ ~CleaningUp /\ Registered(s, n, m)
  BY DEF Safe, DeletionHolds
<1>3. /\ list[n][m] = s /\ byService'[n][s] = None
      /\ \A i \in Networks, t \in Services : (i = n /\ t = s) \/ byService'[i][t] = byService[i][t]
      /\ \A i \in Networks, l \in Marks : (i = n /\ l = m) \/ list'[i][l] = list[i][l]
  BY <1>1, <1>2 DEF ReleaseKeys, Registered, Typed, TypeOK
<1>4. MarksRegistered'
  <2> SUFFICES ASSUME NEW t \in announced, NEW i \in Networks, lbs[t][i] # None
               PROVE  Registered(t, i, lbs[t][i].mark)'
    BY DEF MarksRegistered
  <2>1. t \in Services /\ lbs[t][i].mark \in Marks
    BY DEF Typed, TypeOK, LoadBalancer
  <2>2. Registered(t, i, lbs[t][i].mark)
    BY DEF Safe, MarksRegistered
  <2> QED
    BY <1>1, <1>2, <1>3, <2>1, <2>2 DEF Registered
<1>5. KeysAgree'
  <2> SUFFICES ASSUME NEW t \in Services, NEW i \in Networks,
                      t \in announced \/ status[t] = "live", byService'[i][t] # None
               PROVE  list'[i][byService'[i][t]] = t
    BY DEF KeysAgree
  <2>1. t # s
    BY <1>2
  <2>2. byService'[i][t] = byService[i][t] /\ byService[i][t] \in Marks
    BY <1>3, <2>1 DEF Typed, TypeOK
  <2>3. list[i][byService[i][t]] = t
    BY <2>2 DEF Safe, KeysAgree
  <2> QED
    BY <1>3, <2>1, <2>2, <2>3
<1>6. DeletionHolds'
  <2> SUFFICES ASSUME op' = [op EXCEPT !.pc = "kernel", !.network = None]
               PROVE  DeletionHolds'
    BY DEF DeletionHolds
  <2>1. /\ op'.pc = "kernel" /\ op'.service = s /\ op'.left = op.left /\ op'.lbs = op.lbs
    BY DEF Deletion
  <2>2. \A i \in op.left : Registered(s, i, op.lbs[i].mark)'
    <3> SUFFICES ASSUME NEW i \in op.left PROVE Registered(s, i, op.lbs[i].mark)'
      OBVIOUS
    <3>1. i \in Networks /\ i # n /\ op.lbs[i].mark \in Marks
      BY <1>1 DEF Deletion, Typed, DeletionGoesOn, LoadBalancer
    <3>2. Registered(s, i, op.lbs[i].mark)
      BY DEF Safe, DeletionHolds
    <3> QED
      BY <1>1, <1>3, <3>1, <3>2 DEF Registered
  <2> QED
    BY <1>2, <2>1, <2>2 DEF DeletionHolds, CleaningUp
<1>7. KnownServices'
  <2>1. op' # None => op'.service = s
    BY DEF Deletion
  <2>2. \A t \in Services : status[t] = "future" => t # s
    BY <1>2
  <2> QED
    BY <1>3, <2>1, <2>2 DEF Safe, KnownServices
<1>8. CleanupSpares'
  BY <1>2 DEF Safe, CleanupSpares, CleaningUp
<1> QED
  BY <1>4, <1>5, <1>6, <1>7, <1>8 DEF Safe

\* The steps of the clean-up.
LEMMA SafeCleanup == Typed /\ Safe /\ ~Overlap /\ Cleaner => Safe'
<1> SUFFICES ASSUME Typed, Safe, ~Overlap, Cleaner PROVE Safe'
  OBVIOUS
<1> USE FwmarksAssumption
<1>1. CASE TakeServices
  <2>1. MarksRegistered' /\ KeysAgree' /\ KnownServices'
    BY <1>1 DEF TakeServices, Safe, MarksRegistered, Registered, KeysAgree, KnownServices,
                etcd, memory
  <2>2. DeletionHolds'
    BY <1>1 DEF TakeServices, Deleting, DeletionHolds, memory
  <2>3. CleanupSpares'
    BY <1>1 DEF TakeServices, Safe, CleanupSpares, etcd, memory
  <2> QED
    BY <2>1, <2>2, <2>3 DEF Safe
<1>2. CASE ReadKeys
  <2>1. MarksRegistered' /\ KeysAgree' /\ KnownServices'
    BY <1>2 DEF ReadKeys, Safe, MarksRegistered, Registered, KeysAgree, KnownServices,
                etcd, memory
  <2>2. DeletionHolds'
    BY <1>2 DEF ReadKeys, Safe, DeletionHolds, CleaningUp, memory
  <2>3. announced \subseteq existing
    BY <1>2 DEF ReadKeys, Safe, CleanupSpares
  <2>4. CleanupSpares'
    BY <1>2, <2>3 DEF ReadKeys, IsStale, CleanupSpares, etcd, memory
  <2> QED
    BY <2>1, <2>2, <2>4 DEF Safe
<1>3. ASSUME NEW k \in Networks \X Services, DeleteServiceKey(k)
      PROVE  Safe'
  <2>1. k[1] \in Networks /\ k[2] \in Services /\ k[2] \notin announced
    BY <1>3 DEF DeleteServiceKey, Safe, CleanupSpares
  <2>2. \A t \in Services, i \in Networks :
          byService'[i][t] = byService[i][t] \/ (t = k[2] /\ byService'[i][t] = None)
    <3>1. CASE byService' = [byService EXCEPT ![k[1]][k[2]] = None]
      BY <2>1, <3>1 DEF Typed, TypeOK
    <3> QED
      BY <1>3, <3>1 DEF DeleteServiceKey
  <2>3. /\ list' = list /\ status' = status /\ phase' = phase /\ announced' = announced
        /\ lbs' = lbs /\ op' = op /\ pending' = pending /\ phase = "cleaning"
    BY <1>3 DEF DeleteServiceKey, memory
  <2>4. MarksRegistered'
    BY <2>1, <2>2, <2>3 DEF Safe, MarksRegistered, Registered, Typed, TypeOK
  <2>5. KeysAgree'
    BY <2>2, <2>3 DEF Safe, KeysAgree
  <2>6. DeletionHolds'
    BY <2>3 DEF Safe, DeletionHolds, CleaningUp
  <2>7. KnownServices'
    BY <2>2, <2>3 DEF Safe, KnownServices
  <2>8. CleanupSpares'
    BY <1>3, <2>3 DEF DeleteServiceKey, Safe, CleanupSpares, Typed, TypeOK
  <2> QED
    BY <2>4, <2>5, <2>6, <2>7, <2>8 DEF Safe
<1>4. ASSUME NEW k \in Networks \X Marks, DeleteListKey(k)
      PROVE  Safe'
  <2>1. k[1] \in Networks /\ k[2] \in Marks /\ list[k[1]][k[2]] \notin announced
    BY <1>4 DEF DeleteListKey, Safe, CleanupSpares
  <2>2. \A l \in Marks, i \in Networks :
          list'[i][l] = list[i][l] \/ (i = k[1] /\ l = k[2] /\ list'[i][l] = None)
    <3>1. CASE list' = [list EXCEPT ![k[1]][k[2]] = None]
      BY <2>1, <3>1 DEF Typed, TypeOK
    <3> QED
      BY <1>4, <3>1 DEF DeleteListKey
  <2>3. /\ byService' = byService /\ status' = status /\ phase' = phase /\ announced' = announced
        /\ lbs' = lbs /\ op' = op /\ pending' = pending /\ phase = "cleaning"
    BY <1>4 DEF DeleteListKey, memory
  <2>4. MarksRegistered'
    <3> SUFFICES ASSUME NEW t \in announced, NEW i \in Networks, lbs[t][i] # None
                 PROVE  Registered(t, i, lbs[t][i].mark)'
      BY <2>3 DEF MarksRegistered
    <3>1. t \in Services /\ lbs[t][i].mark \in Marks
      BY DEF Typed, TypeOK, LoadBalancer
    <3>2. Registered(t, i, lbs[t][i].mark)
      BY DEF Safe, MarksRegistered
    <3> QED
      BY <2>1, <2>2, <2>3, <3>1, <3>2 DEF Registered
  <2>5. KeysAgree'
    <3> SUFFICES ASSUME NEW t \in Services, NEW i \in Networks,
                        t \in announced \/ status[t] = "live", byService[i][t] # None
                 PROVE  list'[i][byService[i][t]] = t
      BY <2>3 DEF KeysAgree
    <3>1. t \in announced
      BY <2>3 DEF Safe, KnownServices
    <3>2. byService[i][t] \in Marks /\ list[i][byService[i][t]] = t
      BY DEF Safe, KeysAgree, Typed, TypeOK
    <3> QED
      BY <2>1, <2>2, <3>1, <3>2
  <2>6. DeletionHolds'
    BY <2>3 DEF Safe, DeletionHolds, CleaningUp
  <2>7. KnownServices'
    BY <2>3 DEF Safe, KnownServices
  <2>8. CleanupSpares'
    <3>1. todo'.byService = todo.byService /\ todo'.list = todo.list \ {k}
      BY <1>4 DEF DeleteListKey, Typed, TypeOK
    <3> SUFFICES ASSUME NEW j \in todo.list \ {k}
                 PROVE  list'[j[1]][j[2]] # None /\ list'[j[1]][j[2]] \notin announced
      BY <2>3, <3>1 DEF Safe, CleanupSpares
    <3>2. j \in Networks \X Marks /\ list[j[1]][j[2]] # None /\ list[j[1]][j[2]] \notin announced
      BY DEF Safe, CleanupSpares, Typed, TypeOK
    <3>3. ~(j[1] = k[1] /\ j[2] = k[2])
      BY <3>2
    <3> QED
      BY <2>2, <3>2, <3>3
  <2> QED
    BY <2>4, <2>5, <2>6, <2>7, <2>8 DEF Safe
<1>5. CASE DeleteStaleInKernel
  <2>1. MarksRegistered' /\ KeysAgree' /\ KnownServices'
    BY <1>5 DEF DeleteStaleInKernel, Safe, MarksRegistered, Registered, KeysAgree, KnownServices,
                etcd, memory
  <2>2. DeletionHolds'
    BY <1>5 DEF DeleteStaleInKernel, Safe, DeletionHolds, CleaningUp, memory
  <2>3. CleanupSpares'
    BY <1>5 DEF DeleteStaleInKernel, Safe, CleanupSpares, etcd, memory
  <2> QED
    BY <2>1, <2>2, <2>3 DEF Safe
<1> QED
  BY <1>1, <1>2, <1>3, <1>4, <1>5 DEF Cleaner

\* Docker's steps, and the start.
LEMMA SafeDocker ==
  ASSUME Typed, Safe, ~Overlap,
         \/ \E s \in Services : ServiceCreated(s) \/ ServiceUpdated(s) \/ ServiceRemoved(s)
         \/ Start
  PROVE  Safe'
<1> USE FwmarksAssumption
<1>1. ASSUME NEW s \in Services, ServiceCreated(s)
      PROVE  Safe'
  <2>1. /\ byService' = byService /\ list' = list /\ lbs' = lbs /\ op' = op /\ phase' = phase
        /\ existing' = existing /\ todo' = todo /\ ~CleaningUp
    BY <1>1 DEF ServiceCreated, etcd, cleanup
  <2>2. /\ lbs[s] = NoLbs /\ \A n \in Networks : byService[n][s] = None
        /\ op # None => op.service # s
    BY <1>1 DEF ServiceCreated, Safe, KnownServices
  <2>3. /\ status'[s] = "live" /\ \A t \in Services : t # s => status'[t] = status[t]
        /\ phase = "down" => announced' = announced /\ pending' = pending
        /\ phase # "down" => announced' = announced \cup {s} /\ pending' = pending \cup {s}
    BY <1>1 DEF ServiceCreated, Typed, TypeOK
  <2>4. MarksRegistered'
    BY <2>1, <2>2, <2>3 DEF Safe, MarksRegistered, Registered, NoLbs
  <2>5. KeysAgree'
    BY <2>1, <2>2, <2>3 DEF Safe, KeysAgree
  <2>6. DeletionHolds'
    <3> SUFFICES ASSUME op # None, op.pc \in {"kernel", "release"}
                 PROVE  DeletionHolds'
      BY <2>1 DEF DeletionHolds
    <3>1. op.service \in Services
      BY Kinds DEF Typed, Deletion
    <3> QED
      BY <2>1, <2>2, <2>3, <3>1 DEF Safe, DeletionHolds, Registered, CleaningUp
  <2>7. KnownServices'
    BY <2>1, <2>3 DEF Safe, KnownServices
  <2>8. CleanupSpares'
    BY <2>1 DEF Safe, CleanupSpares, CleaningUp
  <2> QED
    BY <2>4, <2>5, <2>6, <2>7, <2>8 DEF Safe
<1>2. ASSUME NEW s \in Services, ServiceUpdated(s)
      PROVE  Safe'
  <2>1. MarksRegistered' /\ KeysAgree' /\ CleanupSpares'
    BY <1>2 DEF ServiceUpdated, Safe, MarksRegistered, Registered, KeysAgree, CleanupSpares,
                etcd, cleanup
  <2>2. DeletionHolds'
    BY <1>2 DEF ServiceUpdated, Safe, DeletionHolds, Registered, CleaningUp, etcd
  <2>3. KnownServices'
    BY <1>2 DEF ServiceUpdated, Safe, KnownServices, etcd
  <2> QED
    BY <2>1, <2>2, <2>3 DEF Safe
<1>3. ASSUME NEW s \in Services, ServiceRemoved(s)
      PROVE  Safe'
  <2>1. /\ byService' = byService /\ list' = list /\ lbs' = lbs /\ op' = op /\ phase' = phase
        /\ existing' = existing /\ todo' = todo /\ announced' = announced /\ pending' = pending
    BY <1>3 DEF ServiceRemoved, etcd, memory, cleanup
  <2>2. status[s] = "live" /\ \A t \in Services :
          status'[t] = status[t] \/ (t = s /\ status'[t] = "removed")
    BY <1>3 DEF ServiceRemoved, Typed, TypeOK
  <2>3. MarksRegistered' /\ KeysAgree' /\ CleanupSpares'
    BY <2>1, <2>2 DEF Safe, MarksRegistered, Registered, KeysAgree, CleanupSpares
  <2>4. DeletionHolds'
    <3> SUFFICES ASSUME op # None, op.pc \in {"kernel", "release"}
                 PROVE  DeletionHolds'
      BY <2>1 DEF DeletionHolds
    <3>1. op.service \in Services
      BY Kinds DEF Typed, Deletion
    <3> QED
      BY <2>1, <2>2, <3>1 DEF Safe, DeletionHolds, Registered, CleaningUp
  <2>5. KnownServices'
    BY <2>1, <2>2 DEF Safe, KnownServices
  <2> QED
    BY <2>3, <2>4, <2>5 DEF Safe
<1>4. CASE Start
  <2>1. /\ byService' = byService /\ list' = list /\ lbs' = lbs /\ op' = op /\ status' = status
        /\ existing' = existing /\ todo' = todo /\ phase = "down" /\ phase' = "loaded"
        /\ announced' = {t \in Services : status[t] = "live"} /\ pending' = announced'
    BY <1>4 DEF Start, etcd, cleanup
  <2>2. op = None /\ \A t \in Services : lbs[t] = NoLbs
    BY <2>1 DEF Safe, KnownServices
  <2>3. MarksRegistered'
    BY <2>1, <2>2 DEF MarksRegistered, NoLbs
  <2>4. KeysAgree' /\ DeletionHolds'
    BY <2>1, <2>2 DEF Safe, KeysAgree, DeletionHolds
  <2>5. KnownServices'
    BY <2>1, <2>2 DEF Safe, KnownServices
  <2>6. CleanupSpares'
    BY <2>1 DEF Safe, CleanupSpares
  <2> QED
    BY <2>3, <2>4, <2>5, <2>6 DEF Safe
<1> QED
  BY <1>1, <1>2, <1>3, <1>4

\* A deletion begins with registered marks.
LEMMA SafeBeginDeletion ==
  ASSUME Typed, Safe, ~Overlap, NEW s \in Services, BeginDeletion(s)
  PROVE  Safe'
<1> USE FwmarksAssumption
<1>1. /\ byService' = byService /\ list' = list /\ status' = status /\ phase' = phase
      /\ existing' = existing /\ todo' = todo /\ pending' = pending
      /\ announced' = announced \ {s} /\ s \in announced /\ status[s] = "removed"
      /\ ~CleaningUp
  BY DEF BeginDeletion, etcd, cleanup
<1>2. lbs'[s] = NoLbs /\ \A t \in Services : t # s => lbs'[t] = lbs[t]
  BY DEF BeginDeletion, Typed, TypeOK
<1>3. MarksRegistered'
  BY <1>1, <1>2 DEF Safe, MarksRegistered, Registered, Typed, TypeOK
<1>4. KeysAgree'
  BY <1>1 DEF Safe, KeysAgree
<1>5. DeletionHolds'
  <2> SUFFICES ASSUME op' # None
               PROVE  DeletionHolds'
    BY DEF DeletionHolds
  <2>1. op' = [pc |-> "kernel", service |-> s, left |-> {n \in Networks : lbs[s][n] # None},
               network |-> None, lbs |-> lbs[s]]
    BY DEF BeginDeletion
  <2>2. \A n \in Networks : lbs[s][n] # None => Registered(s, n, lbs[s][n].mark)
    BY <1>1 DEF Safe, MarksRegistered
  <2> QED
    BY <1>1, <2>1, <2>2 DEF DeletionHolds, Registered, CleaningUp
<1>6. KnownServices'
  <2>1. op' # None => op'.service = s
    BY DEF BeginDeletion
  <2> QED
    BY <1>1, <1>2, <2>1 DEF Safe, KnownServices
<1>7. CleanupSpares'
  BY <1>1 DEF Safe, CleanupSpares
<1> QED
  BY <1>3, <1>4, <1>5, <1>6, <1>7 DEF Safe

\* Steps of a creation that change only where it is.
LEMMA SafeCreation ==
  ASSUME Safe, op # None,
         UNCHANGED <<status, byService, list, phase, announced, pending, lbs, existing, todo>>,
         op' # None => op' \in Creation /\ op'.service = op.service
  PROVE  Safe'
<1>1. MarksRegistered' /\ KeysAgree' /\ CleanupSpares'
  BY DEF Safe, MarksRegistered, Registered, KeysAgree, CleanupSpares
<1>2. DeletionHolds'
  BY DEF DeletionHolds, Creation
<1>3. KnownServices'
  BY DEF Safe, KnownServices
<1> QED
  BY <1>1, <1>2, <1>3 DEF Safe

\* A mark is registered and the load balancer has it.
LEMMA SafePutGot ==
  ASSUME Typed, Safe, NEW n \in Networks, NEW m \in Marks,
         op \in Creation, op # None, list[n][m] = None, lbs[op.service][n] = None,
         Put(n, op.service, m), Got(n, m),
         UNCHANGED <<status, phase, announced, pending, existing, todo>>,
         op' \in Creation, op'.service = op.service
  PROVE  Safe'
<1> USE FwmarksAssumption
<1> DEFINE s == op.service
<1>1. /\ s \in Services
      /\ \A t \in Services, i \in Networks : (t = s /\ i = n) \/ lbs'[t][i] = lbs[t][i]
      /\ lbs'[s][n].mark = m
  BY GotLb DEF Typed
<1>2. /\ byService'[n][s] = m /\ list'[n][m] = s
      /\ \A i \in Networks, t \in Services : (i = n /\ t = s) \/ byService'[i][t] = byService[i][t]
      /\ \A i \in Networks, l \in Marks : (i = n /\ l = m) \/ list'[i][l] = list[i][l]
  BY <1>1 DEF Put, Typed, TypeOK
<1>3. MarksRegistered'
  <2> SUFFICES ASSUME NEW t \in announced, NEW i \in Networks, lbs'[t][i] # None
               PROVE  byService'[i][t] = lbs'[t][i].mark /\ list'[i][lbs'[t][i].mark] = t
    BY DEF MarksRegistered, Registered
  <2>1. CASE t = s /\ i = n
    BY <1>1, <1>2, <2>1
  <2>2. CASE ~(t = s /\ i = n)
    <3>1. t \in Services /\ lbs'[t][i] = lbs[t][i]
      BY <1>1, <2>2 DEF Typed, TypeOK
    <3>2. lbs[t][i].mark \in Marks
      BY <3>1 DEF Typed, TypeOK, LoadBalancer
    <3>3. Registered(t, i, lbs[t][i].mark)
      BY <3>1 DEF Safe, MarksRegistered
    <3> QED
      BY <1>1, <1>2, <2>2, <3>1, <3>2, <3>3 DEF Registered
  <2> QED
    BY <2>1, <2>2
<1>4. KeysAgree'
  <2> SUFFICES ASSUME NEW t \in Services, NEW i \in Networks,
                      t \in announced \/ status[t] = "live", byService'[i][t] # None
               PROVE  list'[i][byService'[i][t]] = t
    BY DEF KeysAgree
  <2>1. CASE i = n /\ t = s
    BY <1>2, <2>1
  <2>2. CASE ~(i = n /\ t = s)
    <3>1. byService'[i][t] = byService[i][t] /\ byService[i][t] \in Marks
      BY <1>2, <2>2 DEF Typed, TypeOK
    <3>2. list[i][byService[i][t]] = t
      BY <3>1 DEF Safe, KeysAgree
    <3> QED
      BY <1>2, <3>1, <3>2
  <2> QED
    BY <2>1, <2>2
<1>5. DeletionHolds'
  BY DEF DeletionHolds, Creation
<1>6. KnownServices'
  <2>1. status[s] # "future" /\ phase # "down"
    BY <1>1 DEF Safe, KnownServices
  <2>2. \A t \in Services : status[t] = "future" => lbs'[t] = lbs[t]
    BY <1>1, <2>1 DEF Got, Typed, TypeOK
  <2>3. \A t \in Services, i \in Networks :
          status[t] = "future" => byService'[i][t] = byService[i][t]
    BY <1>2, <2>1
  <2> QED
    BY <2>1, <2>2, <2>3 DEF Safe, KnownServices
<1>7. CleanupSpares'
  <2> SUFFICES ASSUME NEW k \in todo.list
               PROVE  list'[k[1]][k[2]] # None /\ list'[k[1]][k[2]] \notin announced
    BY DEF Safe, CleanupSpares
  <2>1. k[1] \in Networks /\ k[2] \in Marks
    BY DEF Typed, TypeOK
  <2>2. list[k[1]][k[2]] # None /\ list[k[1]][k[2]] \notin announced
    BY DEF Safe, CleanupSpares
  <2> QED
    BY <1>2, <2>1, <2>2
<1> QED
  BY <1>3, <1>4, <1>5, <1>6, <1>7 DEF Safe

\* The steps of what holds the mutex.
LEMMA SafeHolder ==
  ASSUME Typed, Safe, Holder
  PROVE  Safe'
<1> USE FwmarksAssumption
<1>1. ASSUME NEW n \in Networks, Lookup(n)
      PROVE  Safe'
  <2>1. op \in Creation /\ op.service \in Services /\ op # None /\ op.pc = "get"
    BY <1>1, Kinds DEF Lookup, Creating, Creation, Typed
  <2>2. UNCHANGED <<status, byService, list, phase, announced, pending, existing, todo>>
    BY <1>1 DEF Lookup, etcd, cleanup
  <2>3. op' # None => op' \in Creation /\ op'.service = op.service
    <3>1. NextNetwork(n) \/ op' = [op EXCEPT !.pc = "generate", !.network = n]
      BY <1>1 DEF Lookup, Got
    <3>2. n \in op.left
      BY <1>1 DEF Lookup
    <3> QED
      BY <2>1, <3>1, <3>2, NextNetworkType DEF NextNetwork, Creation, Typed
  <2>4. CASE UNCHANGED lbs
    BY <2>1, <2>2, <2>3, <2>4, SafeCreation
  <2>5. CASE /\ lbs[op.service][n] = None /\ byService[n][op.service] # None
             /\ Got(n, byService[n][op.service])
    <3>1. byService[n][op.service] \in Marks
      BY <2>1, <2>5 DEF Typed, TypeOK
    <3>2. op.service \in announced => Registered(op.service, n, byService[n][op.service])
      BY <2>1, <2>5 DEF Safe, KeysAgree, Registered
    <3>3. op' \in Creation /\ op'.service = op.service
      BY <2>1, <2>5 DEF Got, NextNetwork, Creation
    <3> QED
      BY <2>1, <2>2, <2>5, <3>1, <3>2, <3>3, SafeGot
  <2> QED
    BY <1>1, <2>4, <2>5 DEF Lookup
<1>2. CASE GenerateFWMARK
  <2>1. op \in Creation
    BY <1>2, Kinds DEF GenerateFWMARK, Creating, Typed
  <2>2. UNCHANGED <<status, byService, list, phase, announced, pending, lbs, existing, todo>>
    BY <1>2 DEF GenerateFWMARK, etcd, cleanup
  <2>3. op' # None => op' \in Creation /\ op'.service = op.service
    BY <1>2, <2>1 DEF GenerateFWMARK, Unused, Creation
  <2>4. op # None
    BY <1>2 DEF GenerateFWMARK, Creating
  <2> QED
    BY <2>2, <2>3, <2>1, <2>4, SafeCreation
<1>3. CASE Commit
  <2>1. /\ op \in Creation /\ op # None /\ op.pc = "commit"
        /\ op.network \in Networks /\ op.mark \in Marks /\ lbs[op.service][op.network] = None
    BY <1>3, Kinds DEF Commit, Creating, Creation, CreationGoesOn, Typed
  <2>2. UNCHANGED <<status, phase, announced, pending, existing, todo>>
    BY <1>3 DEF Commit, cleanup
  <2>3. CASE list[op.network][op.mark] # None
    <3>1. /\ UNCHANGED <<byService, list, lbs>>
          /\ op' # None => op' \in Creation /\ op'.service = op.service
      BY <1>3, <2>1, <2>3 DEF Commit, etcd, Creation
    <3> QED
      BY <2>1, <2>2, <3>1, SafeCreation
  <2>4. CASE list[op.network][op.mark] = None
    <3>1. Put(op.network, op.service, op.mark) /\ Got(op.network, op.mark)
      BY <1>3, <2>4 DEF Commit
    <3>2. op' \in Creation /\ op'.service = op.service
      BY <2>1, <3>1 DEF Got, NextNetwork, Creation
    <3> QED
      BY <2>1, <2>2, <2>4, <3>1, <3>2, SafePutGot
  <2> QED
    BY <2>3, <2>4
<1>4. CASE GetError
  <2>1. /\ op \in Creation /\ op # None /\ op' = None
        /\ UNCHANGED <<status, phase, announced, pending, lbs, existing, todo>>
    BY <1>4, Kinds DEF GetError, Creating, cleanup, Typed
  <2>2. CASE UNCHANGED etcd
    BY <2>1, <2>2, SafeFrame DEF etcd
  <2>3. CASE /\ op.pc = "commit" /\ list[op.network][op.mark] = None
             /\ Put(op.network, op.service, op.mark)
    <3>1. op.network \in Networks /\ op.mark \in Marks /\ lbs[op.service][op.network] = None
      BY <2>1, <2>3 DEF Creation, CreationGoesOn, Typed
    <3> QED
      BY <2>1, <2>3, <3>1, SafePut
  <2> QED
    BY <1>4, <2>2, <2>3 DEF GetError
<1>5. ASSUME NEW n \in Networks, UpdateFrontendIP(n) \/ FrontendError(n)
      PROVE  Safe'
  <2>1. op \in Creation /\ op # None /\ lbs[op.service][n] # None /\ op.service \in Services
    BY <1>5, Kinds DEF UpdateFrontendIP, FrontendError, Creating, CreationGoesOn, Creation, Typed
  <2>2. UNCHANGED <<status, byService, list, phase, announced, pending, existing, todo>>
    <3>1. UNCHANGED <<status, etcd, phase, announced, pending, cleanup>>
      BY <1>5, Zenon DEF UpdateFrontendIP, FrontendError
    <3> QED
      BY <3>1 DEF etcd, cleanup
  <2>3. op' # None => op' \in Creation /\ op'.service = op.service
    <3>1. op' = None \/ op' = [op EXCEPT !.left = op.left \ {n}]
      BY <1>5, Zenon DEF UpdateFrontendIP, FrontendError
    <3> QED
      BY <2>1, <3>1 DEF Creation
  <2>4. lbs' \in [Services -> [Networks -> LoadBalancer \cup {None}]]
    BY <1>5, FrontendLb DEF Typed
  <2>5. /\ \A s \in Services, i \in Networks :
             (s = op.service /\ i = n) \/ lbs'[s][i] = lbs[s][i]
        /\ lbs'[op.service][n].mark = lbs[op.service][n].mark
    BY <1>5, FrontendLb DEF Typed
  <2>6. MarksRegistered'
    <3> SUFFICES ASSUME NEW t \in announced, NEW i \in Networks, lbs'[t][i] # None
                 PROVE  Registered(t, i, lbs'[t][i].mark)
      BY <2>2 DEF MarksRegistered, Registered
    <3>1. t \in Services
      BY DEF Typed, TypeOK
    <3>2. CASE t = op.service /\ i = n
      BY <2>1, <2>5, <3>2 DEF Safe, MarksRegistered
    <3>3. CASE ~(t = op.service /\ i = n)
      BY <2>5, <3>1, <3>3 DEF Safe, MarksRegistered
    <3> QED
      BY <3>2, <3>3
  <2>7. KeysAgree' /\ CleanupSpares'
    BY <2>2 DEF Safe, KeysAgree, CleanupSpares
  <2>8. DeletionHolds'
    BY <2>3 DEF DeletionHolds, Creation
  <2>9. KnownServices'
    <3>1. status[op.service] # "future" /\ phase # "down"
      BY <2>1 DEF Safe, KnownServices
    <3>2. \A s \in Services : status[s] = "future" => lbs'[s] = lbs[s]
      <4> SUFFICES ASSUME NEW s \in Services, s # op.service PROVE lbs'[s] = lbs[s]
        BY <3>1
      <4>1. lbs[s] \in [Networks -> LoadBalancer \cup {None}] /\ lbs'[s] \in [Networks -> LoadBalancer \cup {None}]
        BY <2>4 DEF Typed, TypeOK
      <4>2. \A i \in Networks : lbs'[s][i] = lbs[s][i]
        BY <2>5
      <4> QED
        BY <4>1, <4>2
    <3> QED
      BY <2>2, <2>3, <3>1, <3>2 DEF Safe, KnownServices
  <2> QED
    BY <2>6, <2>7, <2>8, <2>9 DEF Safe
<1>6. ASSUME NEW n \in Networks, DeleteInKernelError(n)
      PROVE  Safe'
  BY <1>6, SafeFrame DEF DeleteInKernelError, etcd, cleanup
<1>7. ASSUME NEW n \in Networks, DeleteInKernel(n)
      PROVE  Safe'
  <2>1. op \in Deletion /\ op # None /\ op.pc = "kernel" /\ n \in op.left
    BY <1>7, Kinds DEF DeleteInKernel, Deleting, Typed
  <2>2. UNCHANGED <<status, byService, list, phase, announced, pending, lbs, existing, todo>>
    BY <1>7 DEF DeleteInKernel, etcd, cleanup
  <2>3. /\ op'.pc = "release" /\ op'.service = op.service /\ op'.lbs = op.lbs
        /\ op'.left = op.left \ {n} /\ op'.network = n
    BY <1>7, <2>1 DEF DeleteInKernel, Deletion
  <2>4. DeletionHolds'
    BY <2>1, <2>2, <2>3 DEF Safe, DeletionHolds, Registered, CleaningUp
  <2>5. MarksRegistered' /\ KeysAgree' /\ CleanupSpares'
    BY <2>2 DEF Safe, MarksRegistered, Registered, KeysAgree, CleanupSpares
  <2>6. KnownServices'
    BY <2>1, <2>2, <2>3 DEF Safe, KnownServices
  <2> QED
    BY <2>4, <2>5, <2>6 DEF Safe
<1>8. CASE Release \/ ReleaseError
  <2>1. /\ op \in Deletion /\ op # None /\ op.pc = "release"
        /\ UNCHANGED <<status, phase, announced, pending, lbs, existing, todo>>
        /\ op' = None \/ op' = [op EXCEPT !.pc = "kernel", !.network = None]
    BY <1>8, Kinds DEF Release, ReleaseError, Deleting, cleanup, Typed
  <2>2. CASE ReleaseKeys(op.service, op.network, op.lbs[op.network].mark)
    BY <2>1, <2>2, SafeRelease
  <2>3. CASE UNCHANGED etcd /\ op' = None
    BY <2>1, <2>3, SafeFrame DEF etcd
  <2> QED
    BY <1>8, <2>2, <2>3 DEF Release, ReleaseError
<1> QED
  BY <1>1, <1>2, <1>3, <1>4, <1>5, <1>6, <1>7, <1>8 DEF Holder

\* Without a service created during the clean-up, every step keeps the marks safe.
LEMMA SafeStep == ~Overlap /\ Typed /\ Safe /\ [Next]_vars => Safe'
<1> SUFFICES ASSUME ~Overlap, Typed, Safe, [Next]_vars
             PROVE  Safe'
  OBVIOUS
<1>1. ASSUME NEW s \in Services, BeginCreation(s)
      PROVE  Safe'
  <2>1. UNCHANGED <<status, byService, list, phase, announced, lbs, existing, todo>>
    BY <1>1 DEF BeginCreation, etcd, cleanup
  <2>2. s \in pending /\ pending' = pending \ {s} /\ op'.pc = "get" /\ op'.service = s
    BY <1>1 DEF BeginCreation
  <2>3. MarksRegistered' /\ KeysAgree' /\ CleanupSpares' /\ DeletionHolds'
    BY <2>1, <2>2 DEF Safe, MarksRegistered, Registered, KeysAgree, CleanupSpares, DeletionHolds
  <2>4. KnownServices'
    BY <2>1, <2>2 DEF Safe, KnownServices
  <2> QED
    BY <2>3, <2>4 DEF Safe
<1>2. ASSUME NEW s \in Services, NEW n \in Networks, AddBackend(s, n) \/ RemoveBackend(s, n)
      PROVE  Safe'
  BY <1>2, SafeFrame DEF AddBackend, RemoveBackend, etcd, memory, cleanup
<1>3. CASE Crash \/ Reboot
  <2>1. /\ phase' = "down" /\ announced' = {} /\ pending' = {} /\ op' = None
        /\ \A s \in Services : lbs'[s] = NoLbs
        /\ todo' = [byService |-> {}, list |-> {}]
        /\ UNCHANGED <<status, byService, list>>
    BY <1>3 DEF Crash, Reboot, Down, etcd
  <2>2. MarksRegistered' /\ DeletionHolds' /\ CleanupSpares'
    BY <2>1 DEF MarksRegistered, DeletionHolds, CleanupSpares
  <2>3. KeysAgree'
    BY <2>1 DEF Safe, KeysAgree
  <2>4. KnownServices'
    BY <2>1 DEF Safe, KnownServices
  <2> QED
    BY <2>2, <2>3, <2>4 DEF Safe
<1>4. CASE UNCHANGED vars
  BY <1>4, SafeFrame DEF vars, etcd, memory, cleanup
<1> QED
  BY <1>1, <1>2, <1>3, <1>4, SafeDocker, SafeBeginDeletion, SafeHolder, SafeCleanup DEF Next

\* The marks are safe at the start.
LEMMA SafeInit == Init => Safe
<1> SUFFICES ASSUME Init PROVE Safe
  OBVIOUS
<1>1. MarksRegistered /\ DeletionHolds /\ CleanupSpares
  BY DEF Init, MarksRegistered, DeletionHolds, CleanupSpares
<1>2. KeysAgree
  BY DEF Init, KeysAgree
<1>3. KnownServices
  BY DEF Init, KnownServices
<1> QED
  BY <1>1, <1>2, <1>3 DEF Safe

\* While the marks are safe no release is refused.
LEMMA RefusedNever == Typed /\ Safe => ReleaseNotRefused
BY DEF Typed, Safe, DeletionHolds, ReleaseNotRefused, Deleting

\* A mark in use is registered in etcd whatever fails, when no service comes or goes while
\* the start cleans up.
THEOREM RegisteredMarks == ASSUME ~Overlap PROVE Spec => []MarksRegistered
<1>1. Init => Typed /\ Safe
  BY InitOK, SafeInit DEF Typed
<1>2. Typed /\ Safe /\ [Next]_vars => (Typed /\ Safe)'
  BY TypeStep, GoesOnStep, SafeStep DEF Typed
<1>3. Typed /\ Safe => MarksRegistered
  BY DEF Safe
<1> QED
  BY <1>1, <1>2, <1>3, PTL DEF Spec

\* Under the same condition no release is refused.
THEOREM NoReleaseRefused == ASSUME ~Overlap PROVE Spec => []ReleaseNotRefused
<1>1. Init => Typed /\ Safe
  BY InitOK, SafeInit DEF Typed
<1>2. Typed /\ Safe /\ [Next]_vars => (Typed /\ Safe)'
  BY TypeStep, GoesOnStep, SafeStep DEF Typed
<1> QED
  BY <1>1, <1>2, RefusedNever, PTL DEF Spec

-----------------------------------------------------------------------------
(* Who uses a mark.                                                        *)

\* A service uses a mark in a network: in the kernel, in etcd or in the memory.  The
\* rules of a service that is gone do not count.
Uses(s, n, m) ==
  \/ Rule(s, n, m) \in rules /\ ~Gone(s)
  \/ s \in Backends(n, m)
  \/ byService[n][s] = m
  \/ lbs[s][n] # None /\ lbs[s][n].mark = m

\* Whoever uses a mark is on the list with it, unless a clean-up dealt with the mark.
OnlyHolderUses ==
  \A s \in Services, n \in Networks, m \in Marks :
    Uses(s, n, m) /\ <<n, m>> \notin swept => list[n][m] = s

\* A deletion is of a service that is gone, and gives a mark back when the memory has
\* nothing of it and the kernel no backends.
KernelFirst ==
  op # None /\ op.pc \in {"kernel", "release"} =>
    /\ lbs[op.service] = NoLbs /\ Gone(op.service)
    /\ op.pc = "release" => Backends(op.network, op.lbs[op.network].mark) = {}

\* Steps that make no use of a mark new, and take no mark from the list but those a
\* clean-up deals with.
LEMMA FewerUses ==
  ASSUME OnlyHolderUses, swept \subseteq swept',
         \A s \in Services, n \in Networks, m \in Marks : Uses(s, n, m)' => Uses(s, n, m),
         \A n \in Networks, m \in Marks : <<n, m>> \notin swept' => list'[n][m] = list[n][m]
  PROVE  OnlyHolderUses'
BY DEF OnlyHolderUses

\* A change of one mark's backends.
LEMMA BackendsSet ==
  ASSUME NEW n, NEW m, NEW b,
         \A i \in Networks, l \in Marks : ipvs'[i][l] = IF i = n /\ l = m THEN b ELSE ipvs[i][l]
  PROVE  \A i \in Networks, l \in Marks :
           Backends(i, l)' = IF i = n /\ l = m THEN (IF b = None THEN {} ELSE b)
                             ELSE Backends(i, l)
BY DEF Backends

\* The marks of load balancers that are changed in one network.
LEMMA UsesOfLb ==
  ASSUME NEW s \in Services, NEW n \in Networks, NEW m \in Marks,
         \A t \in Services, i \in Networks : (t = s /\ i = n) \/ lbs'[t][i] = lbs[t][i],
         lbs'[s][n].mark = m
  PROVE  \A t \in Services, i \in Networks, l \in Marks :
           lbs'[t][i] # None /\ lbs'[t][i].mark = l =>
             (t = s /\ i = n /\ l = m) \/ (lbs[t][i] # None /\ lbs[t][i].mark = l)
OBVIOUS

\* A service that is gone stays gone.
LEMMA GoneStays == Typed /\ [Next]_vars => \A s \in Services : Gone(s) => Gone(s)'
<1> SUFFICES ASSUME Typed, [Next]_vars, NEW s \in Services, Gone(s) PROVE Gone(s)'
  OBVIOUS
<1> USE DEF Gone
<1>1. status' = status /\ announced' = announced => Gone(s)'
  OBVIOUS
<1>2. ASSUME NEW t \in Services, ServiceCreated(t) \/ ServiceRemoved(t) PROVE Gone(s)'
  BY <1>2 DEF ServiceCreated, ServiceRemoved, memory, Typed, TypeOK
<1>3. ASSUME NEW t \in Services, BeginDeletion(t) PROVE Gone(s)'
  BY <1>3 DEF BeginDeletion
<1>4. Start \/ Crash \/ Reboot => Gone(s)'
  BY DEF Start, Crash, Reboot, Down
<1>5. ASSUME NEW t \in Services, ServiceUpdated(t) \/ BeginCreation(t)
      PROVE  status' = status /\ announced' = announced
  BY <1>5 DEF ServiceUpdated, BeginCreation
<1>6. ASSUME NEW t \in Services, NEW n \in Networks, AddBackend(t, n) \/ RemoveBackend(t, n)
      PROVE  status' = status /\ announced' = announced
  BY <1>6 DEF AddBackend, RemoveBackend, memory
<1>7. Holder => status' = status /\ announced' = announced
  BY DEF Holder, Lookup, UpdateFrontendIP, DeleteInKernel, GenerateFWMARK, Commit, Release,
         GetError, ReleaseError, FrontendError, DeleteInKernelError
<1>8. Cleaner => status' = status /\ announced' = announced
  BY DEF Cleaner, TakeServices, ReadKeys, DeleteStaleInKernel, DeleteServiceKey, DeleteListKey,
         memory
<1>9. UNCHANGED vars => status' = status /\ announced' = announced
  BY DEF vars, memory
<1> QED
  BY <1>1, <1>2, <1>3, <1>4, <1>5, <1>6, <1>7, <1>8, <1>9 DEF Next

\* The steps of Docker, of the handlers and of the backends.
LEMMA HandlersUse ==
  ASSUME Typed, OnlyHolderUses, \A g \in Services : Gone(g) => Gone(g)',
         \/ \E s \in Services : ServiceCreated(s) \/ ServiceUpdated(s) \/ ServiceRemoved(s)
         \/ \E s \in Services : BeginCreation(s) \/ BeginDeletion(s)
         \/ \E s \in Services, n \in Networks : AddBackend(s, n) \/ RemoveBackend(s, n)
         \/ Start \/ Crash \/ Reboot
  PROVE  OnlyHolderUses'
<1> USE FwmarksAssumption DEF etcd, memory, cleanup, kernel
<1>1. ASSUME UNCHANGED <<byService, list, lbs, rules, ipvs, swept>> PROVE OnlyHolderUses'
  BY <1>1 DEF OnlyHolderUses, Uses, Backends
<1>2. ASSUME NEW s \in Services,
             ServiceCreated(s) \/ ServiceUpdated(s) \/ ServiceRemoved(s) \/ BeginCreation(s)
      PROVE  OnlyHolderUses'
  BY <1>1, <1>2 DEF ServiceCreated, ServiceUpdated, ServiceRemoved, BeginCreation
<1>3. ASSUME NEW s \in Services, BeginDeletion(s) PROVE OnlyHolderUses'
  <2>1. UNCHANGED <<byService, list, rules, ipvs, swept>>
    BY <1>3 DEF BeginDeletion
  <2>2. \A t \in Services, n \in Networks : lbs'[t][n] # None => lbs'[t][n] = lbs[t][n]
    BY <1>3 DEF BeginDeletion, NoLbs, Typed, TypeOK
  <2>3. \A t \in Services, n \in Networks, m \in Marks : Uses(t, n, m)' => Uses(t, n, m)
    BY <2>1, <2>2 DEF Uses, Backends
  <2> QED
    BY <2>1, <2>3, FewerUses
<1>4. ASSUME NEW s \in Services, NEW n \in Networks, AddBackend(s, n) \/ RemoveBackend(s, n)
      PROVE  OnlyHolderUses'
  <2>1. UNCHANGED <<byService, list, lbs, rules, swept>> /\ lbs[s][n] # None
    BY <1>4 DEF AddBackend, RemoveBackend
  <2>2. PICK m \in Marks : m = lbs[s][n].mark
    BY <2>1 DEF Typed, TypeOK, LoadBalancer
  <2>3. PICK b \in {Backends(n, m) \cup {s}, Backends(n, m) \ {s}} :
          ipvs' = [ipvs EXCEPT ![n][m] = b]
    BY <1>4, <2>2 DEF AddBackend, RemoveBackend
  <2>4. \A i \in Networks, l \in Marks :
          Backends(i, l)' = IF i = n /\ l = m THEN (IF b = None THEN {} ELSE b)
                            ELSE Backends(i, l)
    <3>1. \A i \in Networks, l \in Marks :
            ipvs'[i][l] = IF i = n /\ l = m THEN b ELSE ipvs[i][l]
      BY <2>3 DEF Typed, TypeOK
    <3> QED
      BY <3>1, BackendsSet
  <2>5. ASSUME NEW t \in Services, NEW i \in Networks, NEW l \in Marks, t \in Backends(i, l)'
        PROVE  t \in Backends(i, l) \/ (t = s /\ i = n /\ l = m)
    <3>1. t \in b => t \in Backends(n, m) \/ t = s
      BY <2>3
    <3>2. CASE i = n /\ l = m
      BY <2>4, <2>5, <3>1, <3>2
    <3>3. CASE ~(i = n /\ l = m)
      BY <2>4, <2>5, <3>3
    <3> QED
      BY <3>2, <3>3
  <2>6. Uses(s, n, m)
    BY <2>1, <2>2 DEF Uses
  <2>7. \A t \in Services, i \in Networks, l \in Marks : Uses(t, i, l)' => Uses(t, i, l)
    BY <2>1, <2>5, <2>6 DEF Uses
  <2> QED
    BY <2>1, <2>7, FewerUses
<1>5. CASE Start
  BY <1>1, <1>5 DEF Start
<1>6. CASE Crash \/ Reboot
  <2>1. UNCHANGED <<byService, list, swept>> /\ rules' \subseteq rules
        /\ lbs' = [s \in Services |-> NoLbs]
    BY <1>6 DEF Crash, Reboot, Down
  <2>2. ASSUME NEW n \in Networks, NEW m \in Marks PROVE Backends(n, m)' \subseteq Backends(n, m)
    <3>1. ipvs'[n][m] = ipvs[n][m] \/ ipvs'[n][m] = None
      BY <1>6 DEF Crash, Reboot
    <3> QED
      BY <3>1 DEF Backends
  <2>3. \A s \in Services, n \in Networks : lbs'[s][n] = None
    BY <2>1 DEF NoLbs
  <2>4. \A s \in Services, n \in Networks, m \in Marks : Uses(s, n, m)' => Uses(s, n, m)
    BY <2>1, <2>2, <2>3 DEF Uses
  <2> QED
    BY <2>1, <2>4, FewerUses
<1> QED
  BY <1>2, <1>3, <1>4, <1>5, <1>6

\* A mark that is registered is nobody else's.
LEMMA PutUse ==
  ASSUME Typed, OnlyHolderUses, \A g \in Services : Gone(g) => Gone(g)',
         NEW s \in Services, NEW n \in Networks, NEW m \in Marks,
         list[n][m] = None, Put(n, s, m), UNCHANGED <<rules, ipvs, swept>>,
         \A t \in Services, i \in Networks, l \in Marks :
           lbs'[t][i] # None /\ lbs'[t][i].mark = l =>
             (t = s /\ i = n /\ l = m) \/ (lbs[t][i] # None /\ lbs[t][i].mark = l)
  PROVE  OnlyHolderUses'
<1>1. /\ \A i \in Networks, t \in Services :
           byService'[i][t] = IF i = n /\ t = s THEN m ELSE byService[i][t]
      /\ \A i \in Networks, l \in Marks :
           list'[i][l] = IF i = n /\ l = m THEN s ELSE list[i][l]
  BY DEF Put, Typed, TypeOK
<1>2. ASSUME NEW t \in Services, NEW i \in Networks, NEW l \in Marks, Uses(t, i, l)'
      PROVE  (t = s /\ i = n /\ l = m) \/ Uses(t, i, l)
  BY <1>1, <1>2 DEF Uses, Backends
<1>3. ASSUME NEW t \in Services, NEW i \in Networks, NEW l \in Marks,
             Uses(t, i, l)', <<i, l>> \notin swept
      PROVE  list'[i][l] = t
  <2>1. CASE t = s /\ i = n /\ l = m
    BY <1>1, <2>1
  <2>2. CASE Uses(t, i, l)
    <3>1. list[i][l] = t
      BY <1>3, <2>2 DEF OnlyHolderUses
    <3>2. t # None
      BY FwmarksAssumption
    <3> QED
      BY <1>1, <3>1, <3>2
  <2> QED
    BY <1>2, <1>3, <2>1, <2>2
<1> QED
  BY <1>3 DEF OnlyHolderUses

\* The steps of a creation.
LEMMA CreationUse ==
  ASSUME Typed, OnlyHolderUses, \A g \in Services : Gone(g) => Gone(g)',
         \/ \E n \in Networks : Lookup(n) \/ UpdateFrontendIP(n) \/ FrontendError(n)
         \/ GenerateFWMARK \/ Commit \/ GetError
  PROVE  OnlyHolderUses'
<1> USE FwmarksAssumption DEF etcd, memory, cleanup, kernel
<1>1. ASSUME UNCHANGED <<byService, list, lbs, rules, ipvs, swept>> PROVE OnlyHolderUses'
  BY <1>1 DEF OnlyHolderUses, Uses, Backends
<1>2. CASE GenerateFWMARK
  BY <1>1, <1>2 DEF GenerateFWMARK
<1>3. ASSUME NEW n \in Networks, Lookup(n) PROVE OnlyHolderUses'
  <2>1. op \in Creation /\ op.service \in Services
    BY <1>3, Kinds DEF Lookup, Creating, Creation, Typed
  <2>2. PICK s \in Services : s = op.service
    BY <2>1
  <2>3. UNCHANGED <<byService, list, rules, ipvs, swept>>
    BY <1>3 DEF Lookup
  <2>4. CASE UNCHANGED lbs
    BY <1>1, <2>3, <2>4
  <2>5. CASE byService[n][s] # None /\ Got(n, byService[n][s])
    <3>1. PICK m \in Marks : m = byService[n][s]
      BY <2>5 DEF Typed, TypeOK
    <3>2. /\ \A t \in Services, i \in Networks : (t = s /\ i = n) \/ lbs'[t][i] = lbs[t][i]
          /\ lbs'[s][n].mark = m
      BY <2>1, <2>2, <2>5, <3>1, GotLb DEF Typed
    <3>3. \A t \in Services, i \in Networks, l \in Marks :
            lbs'[t][i] # None /\ lbs'[t][i].mark = l =>
              (t = s /\ i = n /\ l = m) \/ (lbs[t][i] # None /\ lbs[t][i].mark = l)
      BY <3>2, UsesOfLb
    <3>4. \A t \in Services, i \in Networks, l \in Marks : Uses(t, i, l)' => Uses(t, i, l)
      BY <2>3, <3>1, <3>3 DEF Uses, Backends
    <3> QED
      BY <2>3, <3>4, FewerUses
  <2> QED
    BY <1>3, <2>2, <2>4, <2>5 DEF Lookup
<1>4. CASE Commit
  <2>1. /\ op \in Creation /\ op.service \in Services
        /\ op.network \in Networks /\ op.mark \in Marks
    BY <1>4, Kinds DEF Commit, Creating, Creation, CreationGoesOn, Typed
  <2>2. PICK s \in Services, n \in Networks, m \in Marks :
          s = op.service /\ n = op.network /\ m = op.mark
    BY <2>1
  <2>3. CASE list[n][m] # None
    BY <1>1, <1>4, <2>2, <2>3 DEF Commit
  <2>4. CASE list[n][m] = None
    <3>1. Put(n, s, m) /\ Got(n, m) /\ UNCHANGED <<rules, ipvs, swept>>
      BY <1>4, <2>2, <2>4 DEF Commit
    <3>2. /\ \A t \in Services, i \in Networks : (t = s /\ i = n) \/ lbs'[t][i] = lbs[t][i]
          /\ lbs'[s][n].mark = m
      BY <2>1, <2>2, <3>1, GotLb DEF Typed
    <3>3. \A t \in Services, i \in Networks, l \in Marks :
            lbs'[t][i] # None /\ lbs'[t][i].mark = l =>
              (t = s /\ i = n /\ l = m) \/ (lbs[t][i] # None /\ lbs[t][i].mark = l)
      BY <3>2, UsesOfLb
    <3> QED
      BY <2>4, <3>1, <3>3, PutUse
  <2> QED
    BY <2>3, <2>4
<1>5. CASE GetError
  <2>1. UNCHANGED <<lbs, rules, ipvs, swept>>
    BY <1>5 DEF GetError
  <2>2. CASE UNCHANGED etcd
    BY <1>1, <2>1, <2>2
  <2>3. CASE /\ op.pc = "commit" /\ list[op.network][op.mark] = None
             /\ Put(op.network, op.service, op.mark)
    <3>1. op.service \in Services /\ op.network \in Networks /\ op.mark \in Marks
      BY <1>5, <2>3, Kinds DEF GetError, Creating, Creation, CreationGoesOn, Typed
    <3>2. PICK s \in Services, n \in Networks, m \in Marks :
            s = op.service /\ n = op.network /\ m = op.mark
      BY <3>1
    <3> QED
      BY <2>1, <2>3, <3>2, PutUse
  <2> QED
    BY <1>5, <2>2, <2>3 DEF GetError
<1>6. ASSUME NEW n \in Networks, UpdateFrontendIP(n) \/ FrontendError(n) PROVE OnlyHolderUses'
  <2>1. op \in Creation /\ op.service \in Services /\ lbs[op.service][n] # None
    BY <1>6, Kinds DEF UpdateFrontendIP, FrontendError, Creating, CreationGoesOn, Creation, Typed
  <2>2. lbs[op.service][n] \in LoadBalancer
    BY <2>1 DEF Typed, TypeOK
  <2>3. PICK s \in Services, m \in Marks : s = op.service /\ m = lbs[op.service][n].mark
    BY <2>1, <2>2 DEF LoadBalancer
  <2>4. UNCHANGED <<byService, list, swept>>
    BY <1>6 DEF UpdateFrontendIP, FrontendError
  <2>5. \A t \in Services, i \in Networks : (t = op.service /\ i = n) \/ lbs'[t][i] = lbs[t][i]
    BY <1>6, FrontendLb DEF Typed
  <2>6. /\ \A t \in Services, i \in Networks : (t = s /\ i = n) \/ lbs'[t][i] = lbs[t][i]
        /\ lbs'[s][n].mark = m
    BY <1>6, <2>3, <2>5, FrontendLb DEF Typed
  <2>7. \A t \in Services, i \in Networks, l \in Marks :
          lbs'[t][i] # None /\ lbs'[t][i].mark = l =>
            (t = s /\ i = n /\ l = m) \/ (lbs[t][i] # None /\ lbs[t][i].mark = l)
    BY <2>6, UsesOfLb
  <2>8. \A t \in Services, i \in Networks, l \in Marks :
          Rule(t, i, l) \in rules' => Rule(t, i, l) \in rules \/ (t = s /\ i = n /\ l = m)
    <3>1. rules' = rules \/ rules' = rules \cup {Rule(s, n, m)}
      BY <1>6, <2>3 DEF UpdateFrontendIP, FrontendError
    <3> QED
      BY <3>1 DEF Rule
  <2>9. \A i \in Networks, l \in Marks : Backends(i, l)' = Backends(i, l)
    <3>1. ipvs' = ipvs \/ ipvs' = EnsureIpvsService(n, m)
      BY <1>6, <2>3 DEF UpdateFrontendIP, FrontendError
    <3>2. CASE ipvs' = EnsureIpvsService(n, m)
      <4>1. \A i \in Networks, l \in Marks :
              ipvs'[i][l] = IF i = n /\ l = m THEN (IF ipvs[n][m] = None THEN {} ELSE ipvs[n][m])
                            ELSE ipvs[i][l]
        BY <3>2 DEF EnsureIpvsService, Typed, TypeOK
      <4> QED
        BY <4>1 DEF Backends
    <3> QED
      BY <3>1, <3>2 DEF Backends
  <2>10. Uses(s, n, m)
    BY <2>1, <2>3 DEF Uses
  <2>11. \A t \in Services, i \in Networks, l \in Marks : Uses(t, i, l)' => Uses(t, i, l)
    BY <2>4, <2>7, <2>8, <2>9, <2>10 DEF Uses
  <2> QED
    BY <2>4, <2>11, FewerUses
<1> QED
  BY <1>2, <1>3, <1>4, <1>5, <1>6

\* The steps of a deletion.
LEMMA DeletionUse ==
  ASSUME Typed, OnlyHolderUses, \A g \in Services : Gone(g) => Gone(g)',
         KernelFirst,
         \/ \E n \in Networks : DeleteInKernel(n) \/ DeleteInKernelError(n)
         \/ Release \/ ReleaseError
  PROVE  OnlyHolderUses'
<1> USE FwmarksAssumption DEF etcd, memory, cleanup, kernel
<1>1. ASSUME NEW n \in Networks, DeleteInKernel(n) \/ DeleteInKernelError(n)
      PROVE  OnlyHolderUses'
  <2>1. UNCHANGED <<byService, list, lbs, swept>> /\ rules' \subseteq rules
    BY <1>1 DEF DeleteInKernel, DeleteInKernelError, KernelDeleted, DropRules
  <2>2. ASSUME NEW i \in Networks, NEW l \in Marks PROVE Backends(i, l)' \subseteq Backends(i, l)
    <3>1. op.lbs[n].mark \in Marks
      BY <1>1, Kinds DEF DeleteInKernel, DeleteInKernelError, Deleting, DeletionGoesOn,
                         Deletion, LoadBalancer, Typed
    <3>2. PICK m \in Marks : ipvs' = ipvs \/ ipvs' = [ipvs EXCEPT ![n][m] = None]
      BY <1>1, <3>1 DEF DeleteInKernel, DeleteInKernelError, KernelDeleted
    <3>3. ipvs'[i][l] = ipvs[i][l] \/ ipvs'[i][l] = None
      <4>1. CASE ipvs' = [ipvs EXCEPT ![n][m] = None]
        BY <4>1 DEF Typed, TypeOK
      <4> QED
        BY <3>2, <4>1
    <3> QED
      BY <3>3 DEF Backends
  <2>3. \A s \in Services, i \in Networks, l \in Marks : Uses(s, i, l)' => Uses(s, i, l)
    BY <2>1, <2>2 DEF Uses
  <2> QED
    BY <2>1, <2>3, FewerUses
<1>2. CASE Release \/ ReleaseError
  <2>1. UNCHANGED <<lbs, rules, ipvs, swept>>
    BY <1>2 DEF Release, ReleaseError
  <2>2. CASE UNCHANGED etcd
    BY <2>1, <2>2 DEF OnlyHolderUses, Uses, Backends
  <2>3. CASE /\ Registered(op.service, op.network, op.lbs[op.network].mark)
             /\ ReleaseKeys(op.service, op.network, op.lbs[op.network].mark)
    <3>1. /\ op \in Deletion /\ op # None /\ op.pc = "release"
          /\ op.service \in Services /\ op.network \in Networks
          /\ op.lbs[op.network].mark \in Marks
      BY <1>2, Kinds DEF Release, ReleaseError, Deleting, DeletionGoesOn, Deletion,
                         LoadBalancer, Typed
    <3>2. PICK s \in Services, n \in Networks, m \in Marks :
            s = op.service /\ n = op.network /\ m = op.lbs[op.network].mark
      BY <3>1
    <3>3. /\ \A i \in Networks, t \in Services :
               byService'[i][t] = IF i = n /\ t = s THEN None ELSE byService[i][t]
          /\ \A i \in Networks, l \in Marks :
               list'[i][l] = IF i = n /\ l = m THEN None ELSE list[i][l]
          /\ list[n][m] = s
      BY <2>3, <3>2 DEF ReleaseKeys, Registered, Typed, TypeOK
    <3>4. lbs[s] = NoLbs /\ Gone(s) /\ Backends(n, m) = {}
      BY <3>1, <3>2 DEF KernelFirst
    <3>5. ASSUME NEW t \in Services, NEW i \in Networks, NEW l \in Marks,
                 Uses(t, i, l)', <<i, l>> \notin swept
          PROVE  list'[i][l] = t
      <4>1. Uses(t, i, l)
        BY <2>1, <3>3, <3>5 DEF Uses, Backends
      <4>2. list[i][l] = t
        BY <3>5, <4>1 DEF OnlyHolderUses
      <4>3. ASSUME i = n, l = m PROVE FALSE
        <5>1. t = s
          BY <3>3, <4>2, <4>3
        <5>2. ~Uses(s, n, m)'
          BY <2>1, <3>3, <3>4 DEF Uses, Backends, NoLbs
        <5> QED
          BY <3>5, <4>3, <5>1, <5>2
      <4> QED
        BY <3>3, <4>2, <4>3
    <3> QED
      BY <2>1, <3>5 DEF OnlyHolderUses
  <2> QED
    BY <1>2, <2>2, <2>3 DEF Release, ReleaseError, ReleaseKeys
<1> QED
  BY <1>1, <1>2

\* The steps of the clean-up.
LEMMA CleanupUse ==
  ASSUME Typed, OnlyHolderUses, \A g \in Services : Gone(g) => Gone(g)',
         Cleaner
  PROVE  OnlyHolderUses'
<1> USE FwmarksAssumption DEF etcd, memory, cleanup, kernel
<1>1. CASE TakeServices \/ ReadKeys
  BY <1>1 DEF TakeServices, ReadKeys, OnlyHolderUses, Uses, Backends
<1>2. ASSUME NEW k \in Networks \X Services, DeleteServiceKey(k) PROVE OnlyHolderUses'
  <2>1. UNCHANGED <<list, lbs, rules, ipvs, swept>>
    BY <1>2 DEF DeleteServiceKey
  <2>2. k[1] \in Networks /\ k[2] \in Services
    OBVIOUS
  <2>3. byService' = byService \/ byService' = [byService EXCEPT ![k[1]][k[2]] = None]
    BY <1>2 DEF DeleteServiceKey
  <2>4. \A n \in Networks, s \in Services :
          byService'[n][s] = byService[n][s] \/ byService'[n][s] = None
    <3>1. CASE byService' = [byService EXCEPT ![k[1]][k[2]] = None]
      BY <2>2, <3>1 DEF Typed, TypeOK
    <3> QED
      BY <2>3, <3>1
  <2>5. \A s \in Services, n \in Networks, m \in Marks : Uses(s, n, m)' => Uses(s, n, m)
    BY <2>1, <2>4 DEF Uses, Backends
  <2> QED
    BY <2>1, <2>5, FewerUses
<1>3. ASSUME NEW k \in Networks \X Marks, DeleteListKey(k) PROVE OnlyHolderUses'
  <2>1. UNCHANGED <<byService, lbs, rules, ipvs>> /\ swept' = swept \cup {k}
    BY <1>3 DEF DeleteListKey
  <2>2. k[1] \in Networks /\ k[2] \in Marks /\ k = <<k[1], k[2]>>
    OBVIOUS
  <2>3. list' = list \/ list' = [list EXCEPT ![k[1]][k[2]] = None]
    BY <1>3 DEF DeleteListKey
  <2>4. \A n \in Networks, m \in Marks : (n = k[1] /\ m = k[2]) \/ list'[n][m] = list[n][m]
    BY <2>2, <2>3 DEF Typed, TypeOK
  <2>5. \A n \in Networks, m \in Marks : <<n, m>> \notin swept' => list'[n][m] = list[n][m]
    BY <2>1, <2>2, <2>4
  <2>6. \A s \in Services, n \in Networks, m \in Marks : Uses(s, n, m)' => Uses(s, n, m)
    BY <2>1 DEF Uses, Backends
  <2> QED
    BY <2>1, <2>5, <2>6, FewerUses
<1>4. CASE DeleteStaleInKernel
  <2>1. UNCHANGED <<byService, list, lbs, swept>> /\ rules' \subseteq rules
    BY <1>4 DEF DeleteStaleInKernel
  <2>2. ASSUME NEW n \in Networks, NEW m \in Marks PROVE Backends(n, m)' \subseteq Backends(n, m)
    <3>1. ipvs'[n][m] = ipvs[n][m] \/ ipvs'[n][m] = None
      BY <1>4 DEF DeleteStaleInKernel
    <3> QED
      BY <3>1 DEF Backends
  <2>3. \A s \in Services, n \in Networks, m \in Marks : Uses(s, n, m)' => Uses(s, n, m)
    BY <2>1, <2>2 DEF Uses
  <2> QED
    BY <2>1, <2>3, FewerUses
<1> QED
  BY <1>1, <1>2, <1>3, <1>4 DEF Cleaner

\* No step of a deletion gives a mark back before the kernel's turn.
LEMMA KernelFirstStep == Typed /\ KernelFirst /\ [Next]_vars => KernelFirst'
<1> SUFFICES ASSUME Typed, KernelFirst, [Next]_vars PROVE KernelFirst'
  OBVIOUS
<1> USE FwmarksAssumption DEF etcd, memory, cleanup, kernel
<1>0. /\ \A s \in Services : Gone(s) => Gone(s)'
      /\ op # None /\ op.pc \in {"kernel", "release"} => op.service \in Services
  BY GoneStays, Kinds DEF Deletion, Typed
<1>1. CASE UNCHANGED <<op, lbs, ipvs>>
  BY <1>0, <1>1 DEF KernelFirst, Backends
<1>2. CASE op' = None
  BY <1>2 DEF KernelFirst
<1>3. CASE op' \in Creation
  BY <1>3 DEF KernelFirst, Creation
<1>4. ASSUME NEW s \in Services, BeginCreation(s) PROVE op' \in Creation
  BY <1>4 DEF BeginCreation, Creation
<1>5. ASSUME NEW s \in Services, BeginDeletion(s) PROVE KernelFirst'
  <2>1. op' # None => op'.pc = "kernel" /\ op'.service = s
    BY <1>5 DEF BeginDeletion
  <2>2. lbs'[s] = NoLbs /\ Gone(s)'
    BY <1>5 DEF BeginDeletion, Gone, Typed, TypeOK
  <2> QED
    BY <2>1, <2>2 DEF KernelFirst
<1>6. ASSUME NEW n \in Networks, Lookup(n) \/ UpdateFrontendIP(n) \/ FrontendError(n)
      PROVE  op' \in Creation \cup {None}
  <2>1. op \in Creation
    BY <1>6, Kinds DEF Lookup, UpdateFrontendIP, FrontendError, Creating, Typed
  <2>2. NextNetwork(n) => op' \in Creation
    BY <2>1, NextNetworkType DEF Typed
  <2>3. CASE Lookup(n)
    <3>1. CASE NextNetwork(n)
      BY <2>2, <3>1
    <3>2. CASE op' = [[op EXCEPT !.pc = "generate"] EXCEPT !.network = n]
      BY <2>1, <3>2 DEF Creation
    <3> QED
      BY <2>3, <3>1, <3>2, Zenon DEF Lookup, Got
  <2>4. CASE UpdateFrontendIP(n)
    <3>1. CASE op' = None
      BY <3>1
    <3>2. CASE op' = [op EXCEPT !.left = op.left \ {n}]
      BY <2>1, <3>2 DEF Creation
    <3> QED
      BY <2>4, <3>1, <3>2, Zenon DEF UpdateFrontendIP
  <2>5. CASE FrontendError(n)
    BY <2>5, Zenon DEF FrontendError
  <2> QED
    BY <1>6, <2>3, <2>4, <2>5
<1>7. ASSUME GenerateFWMARK \/ Commit \/ GetError PROVE op' \in Creation \cup {None}
  <2>1. op \in Creation
    BY <1>7, Kinds DEF GenerateFWMARK, Commit, GetError, Creating, Typed
  <2>2. Commit => op' \in Creation
    <3>1. Commit => op.network \in Networks
      BY <2>1 DEF Commit, Creating, Creation, CreationGoesOn, Typed
    <3>2. op.network \in Networks /\ NextNetwork(op.network) => op' \in Creation
      BY <2>1, NextNetworkType DEF Typed
    <3> QED
      BY <2>1, <3>1, <3>2 DEF Commit, Got, Creation
  <2>3. ASSUME GenerateFWMARK PROVE op' \in Creation \cup {None}
    <3>1. CASE op' = None
      BY <3>1
    <3>2. ASSUME NEW m \in Marks, op' = [[op EXCEPT !.pc = "commit"] EXCEPT !.mark = m]
          PROVE  op' \in Creation
      BY <2>1, <3>2 DEF Creation
    <3>3. op' = None \/ \E m \in Marks : op' = [[op EXCEPT !.pc = "commit"] EXCEPT !.mark = m]
      BY <2>3, Zenon DEF GenerateFWMARK, Unused
    <3> QED
      BY <3>1, <3>2, <3>3
  <2> QED
    BY <1>7, <2>2, <2>3 DEF GetError
<1>8. ASSUME NEW n \in Networks, DeleteInKernel(n) PROVE KernelFirst'
  <2>1. op \in Deletion /\ op # None /\ op.pc = "kernel"
    BY <1>8, Kinds DEF DeleteInKernel, Deleting, Typed
  <2>2. PICK m \in Marks : m = op.lbs[n].mark
    BY <1>8, <2>1 DEF DeleteInKernel, DeletionGoesOn, Deletion, LoadBalancer, Typed
  <2>3. /\ op'.pc = "release" /\ op'.service = op.service /\ op'.network = n /\ op'.lbs = op.lbs
        /\ lbs' = lbs
        /\ ipvs' = [ipvs EXCEPT ![n][m] = None]
    BY <1>8, <2>1, <2>2 DEF DeleteInKernel, KernelDeleted, Deletion
  <2>4. ipvs'[n][m] = None
    BY <2>3 DEF Typed, TypeOK
  <2>5. PICK s \in Services : s = op.service /\ lbs[s] = NoLbs /\ Gone(s)'
    BY <1>0, <2>1 DEF KernelFirst
  <2> QED
    BY <2>2, <2>3, <2>4, <2>5 DEF KernelFirst, Backends
<1>9. CASE Release
  <2>1. op \in Deletion /\ op # None /\ op.pc = "release" /\ lbs' = lbs
    BY <1>9, Kinds DEF Release, Deleting, Typed
  <2>2. op' # None => op'.pc = "kernel" /\ op'.service = op.service
    BY <1>9, <2>1 DEF Release, Deletion
  <2> QED
    BY <1>0, <2>1, <2>2 DEF KernelFirst
<1>10. CASE Cleaner
  <2>1. op' = op /\ lbs' = lbs
    BY <1>10 DEF Cleaner, TakeServices, ReadKeys, DeleteServiceKey, DeleteListKey,
                 DeleteStaleInKernel
  <2>2. ASSUME NEW n \in Networks, NEW m \in Marks PROVE Backends(n, m)' \subseteq Backends(n, m)
    <3>1. CASE DeleteStaleInKernel
      <4>1. PICK deleted :
              ipvs' = [k \in Networks |-> [l \in Marks |-> IF <<k, l>> \in deleted
                                                         THEN None ELSE ipvs[k][l]]]
        BY <3>1 DEF DeleteStaleInKernel
      <4>2. ipvs'[n][m] = ipvs[n][m] \/ ipvs'[n][m] = None
        BY <4>1
      <4> QED
        BY <4>2 DEF Backends
    <3>2. CASE ~DeleteStaleInKernel
      <4>1. ipvs' = ipvs
        BY <1>10, <3>2 DEF Cleaner, TakeServices, ReadKeys, DeleteServiceKey, DeleteListKey
      <4> QED
        BY <4>1 DEF Backends
    <3> QED
      BY <3>1, <3>2
  <2>3. op # None /\ op.pc = "release" => op.network \in Networks /\ op.lbs[op.network].mark \in Marks
    BY Kinds DEF DeletionGoesOn, Deletion, LoadBalancer, Typed
  <2> QED
    BY <1>0, <2>1, <2>2, <2>3 DEF KernelFirst
<1>11. ASSUME NEW s \in Services, ServiceCreated(s) \/ ServiceUpdated(s) \/ ServiceRemoved(s)
       PROVE  UNCHANGED <<op, lbs, ipvs>>
  BY <1>11 DEF ServiceCreated, ServiceUpdated, ServiceRemoved
<1>12. ASSUME NEW s \in Services, NEW n \in Networks, AddBackend(s, n) \/ RemoveBackend(s, n)
       PROVE  op' = None
  BY <1>12 DEF AddBackend, RemoveBackend
<1>13. ASSUME NEW n \in Networks, DeleteInKernelError(n) PROVE op' = None
  BY <1>13 DEF DeleteInKernelError
<1>14. Start => UNCHANGED <<op, lbs, ipvs>>
  BY DEF Start
<1>15. ReleaseError \/ Crash \/ Reboot => op' = None
  BY DEF ReleaseError, Crash, Reboot, Down
<1>16. UNCHANGED vars => UNCHANGED <<op, lbs, ipvs>>
  BY DEF vars
<1> QED
  BY <1>1, <1>2, <1>3, <1>4, <1>5, <1>6, <1>7, <1>8, <1>9, <1>10, <1>11, <1>12, <1>13, <1>14,
     <1>15, <1>16
  DEF Next, Holder

\* No step lets a service use a mark of another one.
LEMMA UseStep == Typed /\ OnlyHolderUses /\ KernelFirst /\ [Next]_vars => OnlyHolderUses'
<1> SUFFICES ASSUME Typed, OnlyHolderUses, KernelFirst, [Next]_vars PROVE OnlyHolderUses'
  OBVIOUS
<1>1. CASE UNCHANGED vars
  BY <1>1 DEF vars, etcd, memory, cleanup, kernel, OnlyHolderUses, Uses, Gone, Backends
<1> QED
  BY <1>1, GoneStays, HandlersUse, CreationUse, DeletionUse, CleanupUse DEF Next, Holder

\* The three together are inductive, with and without overlap.
LEMMA UseInvariant == Spec => [](Typed /\ OnlyHolderUses)
<1>1. Init => Typed /\ OnlyHolderUses /\ KernelFirst
  <2> SUFFICES ASSUME Init PROVE Typed /\ OnlyHolderUses /\ KernelFirst
    OBVIOUS
  <2>1. Typed
    BY InitOK DEF Typed
  <2>2. \A s \in Services, n \in Networks, m \in Marks : ~Uses(s, n, m)
    BY FwmarksAssumption DEF Init, Uses, Backends, NoLbs
  <2> QED
    BY <2>1, <2>2 DEF Init, OnlyHolderUses, KernelFirst
<1>2. Typed /\ OnlyHolderUses /\ KernelFirst /\ [Next]_vars
        => (Typed /\ OnlyHolderUses /\ KernelFirst)'
  BY TypeStep, GoesOnStep, KernelFirstStep, UseStep DEF Typed
<1> QED
  BY <1>1, <1>2, PTL DEF Spec

\* UpdateFrontendIP, AddBackend, Delete and Release in any order, beside a clean-up even
\* that overlaps with them: packets to the VIP of a service that is not gone reach its
\* containers only, where no clean-up has freed the mark.
THEOREM PacketsStay == Spec => []TrafficStays
<1>1. Typed /\ OnlyHolderUses => TrafficStays
  <2> SUFFICES ASSUME Typed, OnlyHolderUses, NEW r \in rules,
                      ~Gone(r[1]), <<r[2], r[3]>> \notin swept, ipvs[r[2]][r[3]] # None,
                      NEW t \in ipvs[r[2]][r[3]]
               PROVE  t = r[1]
    BY DEF TrafficStays
  <2>1. PICK s \in Services, n \in Networks, m \in Marks : r = <<s, n, m>>
    BY DEF Typed, TypeOK
  <2>2. r[1] = s /\ r[2] = n /\ r[3] = m
    BY <2>1
  <2>3. t \in Services /\ t \in Backends(n, m)
    BY <2>2 DEF Backends, Typed, TypeOK
  <2>4. Uses(s, n, m) /\ Uses(t, n, m)
    BY <2>1, <2>2, <2>3 DEF Uses, Rule
  <2> QED
    BY <2>2, <2>3, <2>4 DEF OnlyHolderUses
<1> QED
  BY <1>1, UseInvariant, PTL

-----------------------------------------------------------------------------
(* Marks of different services.                                            *)

\* Two load balancers of a network have different marks.  (A mark that a clean-up has
\* freed under the service that uses it is excepted.)
MarksDiffer ==
  \A s, t \in Services, n \in Networks :
    /\ lbs[s][n] # None /\ lbs[t][n] # None
    /\ lbs[s][n].mark = lbs[t][n].mark
    /\ <<n, lbs[s][n].mark>> \notin swept
    => s = t

\* Get never gives a mark to a second service, however creations, deletions, failed
\* releases, restarts and even an overlapping clean-up follow each other.
THEOREM NoMarkIsShared == Spec => []MarksDiffer
<1>1. Typed /\ OnlyHolderUses => MarksDiffer
  <2> SUFFICES ASSUME Typed, OnlyHolderUses, NEW s \in Services, NEW t \in Services,
                      NEW n \in Networks, lbs[s][n] # None, lbs[t][n] # None,
                      lbs[s][n].mark = lbs[t][n].mark, <<n, lbs[s][n].mark>> \notin swept
               PROVE  s = t
    BY DEF MarksDiffer
  <2> DEFINE m == lbs[s][n].mark
  <2>1. m \in Marks
    BY DEF Typed, TypeOK, LoadBalancer
  <2>2. Uses(s, n, m) /\ Uses(t, n, m)
    BY DEF Uses
  <2> QED
    BY <2>1, <2>2 DEF OnlyHolderUses
<1> QED
  BY <1>1, UseInvariant, PTL

\* As long as no service comes or goes while the start cleans up, there is no exception
\* for the services the node knows.
KnownMarksDiffer ==
  \A s, t \in announced, n \in Networks :
    lbs[s][n] # None /\ lbs[t][n] # None /\ lbs[s][n].mark = lbs[t][n].mark => s = t

THEOREM NoKnownMarkIsShared == ASSUME ~Overlap PROVE Spec => []KnownMarksDiffer
<1>1. MarksRegistered => KnownMarksDiffer
  BY DEF MarksRegistered, Registered, KnownMarksDiffer
<1> QED
  BY <1>1, RegisteredMarks, PTL

-----------------------------------------------------------------------------
(* The list as a ledger.                                                   *)

Holding == [k \in Networks \X Marks |-> list[k[1]][k[2]]]

\* The list is a ledger like the one of a pool's addresses; no mark is set aside.
Ledger == INSTANCE IpLedger
            WITH IPs <- Networks \X Marks, Holders <- Services,
                 Free <- None, Reserved <- None, owner <- Holding

SetMark(n, m, x) == list' = [list EXCEPT ![n][m] = x]

\* What a step can do to the list: nothing, put one free mark, or delete one.
ListStep ==
  \/ UNCHANGED list
  \/ \E s \in Services, n \in Networks, m \in Marks :
       list[n][m] = None /\ SetMark(n, m, s)
  \/ \E n \in Networks, m \in Marks : SetMark(n, m, None)

\* Every action does one of these.
LEMMA NextListStep == Typed /\ [Next]_vars => ListStep
<1> SUFFICES ASSUME Typed, [Next]_vars PROVE ListStep
  OBVIOUS
<1>1. CASE Commit \/ GetError
  <2>1. CASE UNCHANGED list
    BY <2>1 DEF ListStep
  <2>2. CASE list' # list
    <3>1. /\ op # None /\ op.pc = "commit"
          /\ list[op.network][op.mark] = None
          /\ SetMark(op.network, op.mark, op.service)
      BY <1>1, <2>2 DEF Commit, GetError, Put, Creating, etcd, SetMark
    <3>2. op \in Creation
      BY <3>1, Kinds DEF Typed
    <3>3. op.service \in Services /\ op.network \in Networks /\ op.mark \in Marks
      BY <3>1, <3>2 DEF Typed, CreationGoesOn, Creation
    <3> QED
      BY <3>1, <3>3 DEF ListStep
  <2> QED
    BY <2>1, <2>2
<1>2. CASE Release \/ ReleaseError
  <2>1. CASE UNCHANGED list
    BY <2>1 DEF ListStep
  <2>2. CASE list' # list
    <3> DEFINE n == op.network
               m == op.lbs[op.network].mark
    <3>1. /\ op # None /\ op.pc = "release"
          /\ SetMark(n, m, None)
      BY <1>2, <2>2 DEF Release, ReleaseError, ReleaseKeys, Deleting, etcd, SetMark
    <3>2. op \in Deletion
      BY <3>1, Kinds DEF Typed
    <3>3. n \in Networks /\ m \in Marks
      BY <3>1, <3>2 DEF Typed, DeletionGoesOn, Deletion, LoadBalancer
    <3> QED
      BY <3>1, <3>3 DEF ListStep
  <2> QED
    BY <2>1, <2>2
<1>3. ASSUME NEW k \in Networks \X Marks, DeleteListKey(k) PROVE ListStep
  BY <1>3 DEF DeleteListKey, ListStep, SetMark
<1>4. CASE UNCHANGED vars
  BY <1>4 DEF vars, etcd, ListStep
<1>5. CASE \/ \E n \in Networks : Lookup(n) \/ UpdateFrontendIP(n) \/ DeleteInKernel(n)
           \/ GenerateFWMARK
           \/ \E n \in Networks : FrontendError(n) \/ DeleteInKernelError(n)
  BY <1>5
  DEF Lookup, UpdateFrontendIP, DeleteInKernel, GenerateFWMARK, FrontendError,
      DeleteInKernelError, etcd, ListStep
<1>6. CASE \/ TakeServices \/ ReadKeys \/ DeleteStaleInKernel
           \/ \E k \in Networks \X Services : DeleteServiceKey(k)
           \/ Start \/ Crash \/ Reboot
  BY <1>6
  DEF TakeServices, ReadKeys, DeleteStaleInKernel, DeleteServiceKey, Start, Crash,
      Reboot, Down, etcd, ListStep
<1>7. ASSUME NEW s \in Services,
             \/ ServiceCreated(s) \/ ServiceUpdated(s) \/ ServiceRemoved(s)
             \/ BeginCreation(s) \/ BeginDeletion(s)
             \/ \E n \in Networks : AddBackend(s, n) \/ RemoveBackend(s, n)
      PROVE  ListStep
  BY <1>7
  DEF ServiceCreated, ServiceUpdated, ServiceRemoved, BeginCreation, BeginDeletion,
      AddBackend, RemoveBackend, etcd, ListStep
<1> QED
  BY <1>1, <1>2, <1>3, <1>4, <1>5, <1>6, <1>7 DEF Next, Holder, Cleaner

\* A change of one entry of the list changes the holding of that mark.
LEMMA OneHolding ==
  ASSUME TypeOK, NEW n \in Networks, NEW m \in Marks, NEW x, SetMark(n, m, x)
  PROVE  \A k \in Networks \X Marks : Holding'[k] = IF k = <<n, m>> THEN x ELSE Holding[k]
<1>1. \A a \in Networks, b \in Marks :
        list'[a][b] = IF a = n /\ b = m THEN x ELSE list[a][b]
  BY DEF TypeOK, SetMark
<1>2. ASSUME NEW k \in Networks \X Marks
      PROVE  list'[k[1]][k[2]] = IF k = <<n, m>> THEN x ELSE list[k[1]][k[2]]
  <2>1. PICK a \in Networks, b \in Marks : k = <<a, b>>
    OBVIOUS
  <2>2. k = <<n, m>> <=> a = n /\ b = m
    BY <2>1
  <2> QED
    BY <1>1, <2>1, <2>2
<1> QED
  BY <1>2 DEF Holding

\* A function that differs from another at one point only.
LEMMA OnePoint ==
  ASSUME NEW D, NEW R, NEW f \in [D -> R], NEW g \in [D -> R], NEW k \in D, NEW x,
         \A i \in D : g[i] = IF i = k THEN x ELSE f[i]
  PROVE  /\ g = [f EXCEPT ![k] = x]
         /\ g = [i \in D |-> IF i \in {k} THEN x ELSE f[i]]
OBVIOUS

\* Such a step is one of the ledger.
LEMMA LedgerStep == TypeOK /\ TypeOK' /\ ListStep => [Ledger!Next]_Holding
<1> SUFFICES ASSUME TypeOK, TypeOK', ListStep PROVE Ledger!Next \/ UNCHANGED Holding
  OBVIOUS
<1>a. /\ Holding \in [Networks \X Marks -> Services \cup {None}]
      /\ Holding' \in [Networks \X Marks -> Services \cup {None}]
  BY DEF Holding, TypeOK
<1>1. CASE UNCHANGED list
  BY <1>1 DEF Holding
<1>2. ASSUME NEW s \in Services, NEW n \in Networks, NEW m \in Marks,
             list[n][m] = None, SetMark(n, m, s)
      PROVE  Ledger!Next
  <2>1. Holding' = [Holding EXCEPT ![<<n, m>>] = s]
    <3>1. \A k \in Networks \X Marks :
            Holding'[k] = IF k = <<n, m>> THEN s ELSE Holding[k]
      BY <1>2, OneHolding
    <3>2. <<n, m>> \in Networks \X Marks
      OBVIOUS
    <3> QED
      BY <3>1, <3>2, <1>a, OnePoint
  <2>2. Holding[<<n, m>>] = None
    BY <1>2 DEF Holding
  <2>3. Ledger!Assign(<<n, m>>, s)
    BY <2>1, <2>2 DEF Ledger!Assign
  <2> QED
    BY <2>3 DEF Ledger!Next
<1>3. ASSUME NEW n \in Networks, NEW m \in Marks, SetMark(n, m, None)
      PROVE  Ledger!Next
  <2>1. Holding' = [k \in Networks \X Marks |->
                      IF k \in {<<n, m>>} THEN None ELSE Holding[k]]
    <3>1. \A k \in Networks \X Marks :
            Holding'[k] = IF k = <<n, m>> THEN None ELSE Holding[k]
      BY <1>3, OneHolding
    <3>2. <<n, m>> \in Networks \X Marks
      OBVIOUS
    <3> QED
      BY <3>1, <3>2, <1>a, OnePoint
  <2>2. Ledger!Release({<<n, m>>})
    BY <2>1 DEF Ledger!Release
  <2> QED
    BY <2>2 DEF Ledger!Next
<1> QED
  BY <1>1, <1>2, <1>3 DEF ListStep

\* A mark passes from one service to another only by being free in between: that a Get
\* checks the list before the transaction and in it, and that a release names the service,
\* is enough beside failures, restarts and clean-ups of any order.
THEOREM MarksImplementLedger == Spec => Ledger!Spec
<1>1. Init => Ledger!Init
  BY DEF Init, Ledger!Init, Holding
<1>2. Typed /\ [Next]_vars => [Ledger!Next]_Holding
  BY NextListStep, LedgerStep, TypeStep DEF Typed
<1> QED
  BY <1>1, <1>2, UseInvariant, PTL DEF Spec, Ledger!Spec
=============================================================================
