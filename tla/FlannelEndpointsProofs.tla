----------------------- MODULE FlannelEndpointsProofs -----------------------
(***************************************************************************)
(* Proofs about the endpoints of FlannelNetwork: containers that joined    *)
(* keep their interfaces, no interfaces are lost unnoticed, and nothing is *)
(* left of what ended.                                                     *)
(***************************************************************************)
EXTENDS FlannelNetworkProofs

\* The network that the events find is there, and is not that of a creation.
LEMMA WorkingObject ==
  ASSUME TypeOK, Structure
  PROVE  /\ Working # None =>
              Working \in Objects /\ object[Working] \in Network /\ object[Working] # None
         /\ \A t \in Threads : task[t] # None =>
              /\ task[t] \in Tasks /\ task[t].o \in Objects
              /\ object[task[t].o] \in Network /\ object[task[t].o] # None
              /\ task[t].pc \in Creating => task[t].o # Working
              /\ \A u \in Threads \ {t} : task[u] # None => task[u].o # task[t].o
<1>1. Working \in {byFlannel, byDocker}
  BY DEF Working, Found
<1>2. Working # None => Working \in Objects /\ object[Working] \in Network
  BY <1>1 DEF TypeOK, Structure
<1>3. ASSUME NEW t \in Threads, task[t] # None
      PROVE  /\ task[t] \in Tasks /\ task[t].o \in Objects
             /\ object[task[t].o] \in Network
             /\ task[t].pc \in Creating => task[t].o # Working
             /\ \A u \in Threads \ {t} : task[u] # None => task[u].o # task[t].o
  BY <1>1, <1>3 DEF TypeOK, Structure, Tasks
<1> QED
  BY <1>2, <1>3, FlannelNetworkAssumption

\* It stays the same where the map does, and where the missing key is added.
LEMMA WorkingKeeps ==
  ASSUME UNCHANGED mapVars \/ \E t \in Threads : Get(t)
  PROVE  Working' = Working
BY DEF mapVars, Working, Found, Get

\* A step of a creation concerns neither the other thread nor the network that is found.
LEMMA CreationApart ==
  ASSUME TypeOK, Structure, NEW t \in Threads, Creation(t)
  PROVE  /\ Working' = Working
         /\ Working # None => object'[Working] = object[Working]
         /\ task[t] # None /\ task[t].pc \in Creating
         /\ \A u \in Threads \ {t} :
              task'[u] = task[u] /\ (task[u] # None => object'[task[u].o] = object[task[u].o])
<1>1. /\ UNCHANGED mapVars /\ task[t] # None /\ task[t].pc \in Creating
      /\ \A u \in Threads \ {t} : task'[u] = task[u]
  BY CreationShape
<1>2. \A o \in Objects \ {task[t].o} : object'[o] = object[o]
  BY CreationSpares
<1> QED
  BY <1>1, <1>2, WorkingObject, WorkingKeeps

\* When a call of Docker is answered no network is being created.
LEMMA CallsAlone ==
  ASSUME TypeOK, Structure, Called, byDocker # None
  PROVE  /\ Working = byDocker /\ byDocker \in Objects
         /\ \A t \in Threads : task[t] # None => task[t].pc \notin Creating
<1>1. task["docker"] = None /\ \A t \in Threads : t = "events" \/ t = "docker"
  BY DEF Called, Idle, Threads
<1>2. Working = byDocker /\ byDocker \in Objects
  BY DEF Working, Found, TypeOK
<1> QED
  BY <1>1, <1>2 DEF Structure

\* An endpoint in use has a network, and what is known of the interfaces of one that joined
\* is what is recorded, unless a list or a clean-up overlooked it.
Joined ==
  /\ \A e \in Endpoints :
       attached[e] \in {"created", "joined", "running", "left"} => docker = "exists"
  /\ \A e \in Endpoints \ overlooked : Plugged(e) =>
       /\ record[e] \in veths
       /\ Working # None => object[Working].endpoints[e] = record[e]
       /\ \A t \in Threads : task[t] # None /\ task[t].pc = "reconcile" =>
            object[task[t].o].endpoints[e] = record[e]

\* No two endpoints share interfaces, in the records or between records and memory.
Distinct ==
  \A e, f \in Endpoints : e # f =>
    /\ record[e] \in Veths => record[e] # record[f]
    /\ \A o \in Objects :
         object[o] # None /\ object[o].endpoints[e] \in Veths
           => object[o].endpoints[e] # record[f]

\* Where objects learn nothing but what is recorded, and records only lose interfaces.
LEMMA DistinctFrame ==
  ASSUME Distinct,
         \A e \in Endpoints : record'[e] \in {record[e], "none", "detached"},
         \A o \in Objects, e \in Endpoints :
           object'[o] # None /\ object'[o].endpoints[e] \in Veths =>
             \/ object[o] # None /\ object'[o].endpoints[e] = object[o].endpoints[e]
             \/ object'[o].endpoints[e] = record[e]
  PROVE  Distinct'
<1>1. "none" \notin Veths /\ "detached" \notin Veths
  BY FlannelNetworkAssumption
<1> QED
  BY <1>1 DEF Distinct

\* Where nothing that joined is touched, and no task gets further but with what is recorded.
LEMMA JoinedFrame ==
  ASSUME Joined, docker' = docker, overlooked \subseteq overlooked',
         \A e \in Endpoints : attached'[e] = attached[e] \/ attached'[e] \in {"none", "gone"},
         \A e \in Endpoints \ overlooked' : Plugged(e) =>
           record'[e] = record[e] /\ record[e] \in veths',
         Working' \in {Working, None},
         Working' # None =>
           \A e \in Endpoints \ overlooked' : Plugged(e) =>
             object'[Working].endpoints[e] = object[Working].endpoints[e],
         \A t \in Threads : task'[t] # None /\ task'[t].pc = "reconcile" =>
           \/ /\ task'[t] = task[t]
              /\ \A e \in Endpoints \ overlooked' : Plugged(e) =>
                   object'[task[t].o].endpoints[e] = object[task[t].o].endpoints[e]
           \/ \A e \in Endpoints \ overlooked' : Plugged(e) =>
                object'[task'[t].o].endpoints[e] = record'[e]
  PROVE  Joined'
<1>1. \A e \in Endpoints :
        attached'[e] \in {"created", "joined", "running", "left"} => docker' = "exists"
  BY DEF Joined
<1>2. ASSUME NEW e \in Endpoints \ overlooked', Plugged(e)'
      PROVE  /\ record'[e] \in veths'
             /\ Working' # None => object'[Working'].endpoints[e] = record'[e]
             /\ \A t \in Threads : task'[t] # None /\ task'[t].pc = "reconcile" =>
                  object'[task'[t].o].endpoints[e] = record'[e]
  <2>0. Plugged(e) /\ e \in Endpoints \ overlooked
    BY <1>2 DEF Plugged
  <2>1. record'[e] = record[e] /\ record[e] \in veths'
    BY <1>2, <2>0
  <2>2. Working' # None => object'[Working'].endpoints[e] = record'[e]
    BY <1>2, <2>0, <2>1 DEF Joined
  <2>3. ASSUME NEW t \in Threads, task'[t] # None, task'[t].pc = "reconcile"
        PROVE  object'[task'[t].o].endpoints[e] = record'[e]
    <3>1. CASE /\ task'[t] = task[t]
               /\ \A f \in Endpoints \ overlooked' : Plugged(f) =>
                    object'[task[t].o].endpoints[f] = object[task[t].o].endpoints[f]
      <4>1. object[task[t].o].endpoints[e] = record[e]
        BY <2>0, <2>3, <3>1 DEF Joined
      <4> QED
        BY <1>2, <2>0, <2>1, <3>1, <4>1
    <3>2. CASE \A f \in Endpoints \ overlooked' : Plugged(f) =>
                 object'[task'[t].o].endpoints[f] = record'[f]
      BY <1>2, <2>0, <3>2
    <3> QED
      BY <2>3, <3>1, <3>2
  <2> QED
    BY <2>1, <2>2, <2>3
<1> QED
  BY <1>1, <1>2 DEF Joined

\* The steps of a creation before endpoints are loaded, which know nothing of them.
LEMMA CreationJoined ==
  ASSUME TypeOK, Structure, Joined, Distinct, NEW t \in Threads,
         \/ ReadConfig(t) \/ CommitConfig(t) \/ RereadConfig(t) \/ StartFlannel(t)
         \/ LoadFlannelConfig(t)
  PROVE  Joined' /\ Distinct'
<1> USE DEF dockerVars, nodeVars, mapVars, etcdVars, kernelVars, historyVars, sweepVars
<1>1. Creation(t)
  BY DEF Creation
<1>2. UNCHANGED <<docker, attached, record, veths, overlooked>>
  BY DEF ReadConfig, CommitConfig, RereadConfig, StartFlannel, LoadFlannelConfig
<1>3. task[t] \in Tasks /\ task[t].o \in Objects /\ object[task[t].o] \in Network
  BY <1>1, CreationShape DEF TypeOK, Structure, Tasks
<1>4. \/ task' = [task EXCEPT ![t] = None]
      \/ \E pc \in {"start", "commit", "reread", "load", "endpoints"} :
           task' = [task EXCEPT ![t].pc = pc]
  BY DEF ReadConfig, CommitConfig, RereadConfig, StartFlannel, LoadFlannelConfig, Fails, Goto
<1>5. task'[t] # None => task'[t].pc # "reconcile"
  BY <1>3, <1>4 DEF TypeOK, Tasks
<1>7. \/ object' = object
      \/ object' = [object EXCEPT ![task[t].o] = None]
      \/ object' = [object EXCEPT ![task[t].o].process = TRUE]
  BY DEF ReadConfig, CommitConfig, RereadConfig, StartFlannel, LoadFlannelConfig, Fails
<1>8. \A o \in Objects : object'[o] # None =>
        object[o] # None /\ object'[o].endpoints = object[o].endpoints
  BY <1>3, <1>7, FlannelNetworkAssumption DEF TypeOK, Network
<1>9. Joined'
  <2>1. /\ Working' = Working /\ (Working # None => object'[Working] = object[Working])
        /\ \A u \in Threads \ {t} :
             task'[u] = task[u] /\ (task[u] # None => object'[task[u].o] = object[task[u].o])
    BY <1>1, CreationApart
  <2>2. \A e \in Endpoints \ overlooked' : Plugged(e) => record[e] \in veths'
    BY <1>2 DEF Joined
  <2>3. \A u \in Threads : task'[u] # None /\ task'[u].pc = "reconcile" =>
          task'[u] = task[u] /\ object'[task[u].o] = object[task[u].o]
    BY <1>5, <2>1
  <2> QED
    BY <1>2, <2>1, <2>2, <2>3, JoinedFrame
<1>10. Distinct'
  BY <1>2, <1>8, DistinctFrame
<1> QED
  BY <1>9, <1>10

\* What the map leads to before a network is created, and after.
LEMMA KeyJoined ==
  ASSUME TypeOK, Structure, Joined, Distinct, NEW t \in Threads,
         AlreadyThere(t) \/ NewNetwork(t) \/ Created(t)
  PROVE  Joined' /\ Distinct'
<1> USE DEF dockerVars, nodeVars, mapVars, etcdVars, kernelVars, historyVars, sweepVars
<1>0. UNCHANGED <<docker, attached, record, veths, overlooked>>
  BY DEF AlreadyThere, NewNetwork, Created, Asked
<1>f. \A e \in Endpoints \ overlooked' : Plugged(e) => record[e] \in veths'
  BY <1>0 DEF Joined
<1>1. CASE UNCHANGED <<object, task>> /\ Working' = Working
  <2>1. Joined'
    BY <1>0, <1>1, <1>f, JoinedFrame
  <2>2. Distinct'
    BY <1>0, <1>1, DistinctFrame
  <2> QED
    BY <2>1, <2>2
<1>2. CASE AlreadyThere(t)
  <2>1. UNCHANGED <<object, task>> /\ Get(t)
    BY <1>2 DEF AlreadyThere
  <2>2. Working' = Working
    BY <2>1, WorkingKeeps
  <2> QED
    BY <1>1, <2>1, <2>2
<1>3. CASE NewNetwork(t)
  <2>1. Working' = Working /\ task[t] = None
    BY <1>3, WorkingKeeps, AskedType DEF NewNetwork
  <2>2. ASSUME NEW o \in Objects, NEW v \in VNIs, object[o] = None,
               object' = [object EXCEPT ![o] =
                  [vni |-> v, process |-> FALSE, endpoints |-> [e \in Endpoints |-> "none"]]],
               task' = [task EXCEPT ![t] = Task("config", o)]
        PROVE  Joined' /\ Distinct'
    <3>1. /\ \A u \in Threads \ {t} : task'[u] = task[u]
          /\ task'[t].pc = "config"
          /\ \A p \in Objects \ {o} : object'[p] = object[p]
          /\ \A e \in Endpoints : object'[o].endpoints[e] = "none"
      BY <2>2 DEF Task, TypeOK
    <3>2. /\ Working # None => object'[Working] = object[Working]
          /\ \A u \in Threads : task[u] # None => object'[task[u].o] = object[task[u].o]
      BY <2>2, <3>1, WorkingObject
    <3>3. \A u \in Threads : task'[u] # None /\ task'[u].pc = "reconcile" =>
            task'[u] = task[u] /\ object'[task[u].o] = object[task[u].o]
      BY <3>1, <3>2
    <3>4. Joined'
      BY <1>0, <1>f, <2>1, <3>2, <3>3, JoinedFrame
    <3>5. Distinct'
      BY <1>0, <3>1, DistinctFrame, FlannelNetworkAssumption
    <3> QED
      BY <3>4, <3>5
  <2> QED
    BY <1>1, <1>3, <2>1, <2>2 DEF NewNetwork
<1>4. CASE Created(t)
  <2>1. /\ UNCHANGED object
        /\ task[t] # None /\ task[t].pc = "reconcile" /\ task[t].todo = {}
        /\ \A u \in Threads : task'[u] # None => task'[u] = task[u]
    BY <1>4 DEF Created, At, TypeOK
  <2>2. Working' \in {Working, task[t].o}
    BY <1>4 DEF Created, Set, Working, Found
  <2>3. \A e \in Endpoints \ overlooked : Plugged(e) =>
          object[task[t].o].endpoints[e] = record[e]
    BY <2>1 DEF Joined
  <2>4. \A e \in Endpoints \ overlooked : Plugged(e) /\ Working' # None =>
          object'[Working'].endpoints[e] = record'[e]
    BY <1>0, <2>1, <2>2, <2>3 DEF Joined
  <2>5. Joined'
    BY <1>0, <2>1, <2>4 DEF Joined, Plugged
  <2> QED
    BY <1>0, <2>1, <2>5, DistinctFrame
<1> QED
  BY <1>2, <1>3, <1>4

\* A deletion takes no interfaces from others.
LEMMA DeletionKeeps ==
  ASSUME TypeOK, NEW e \in Endpoints, NEW memory \in Data,
         \A f \in Endpoints \ {e} : memory \in Veths => memory # record[f],
         NEW r \in DeleteResults(e, memory)
  PROVE  /\ r \in Results
         /\ r.memory \in {memory, "none", "detached"}
         /\ r.record \in {record[e], "none", "detached"}
         /\ \A f \in Endpoints \ {e} : record[f] \in veths => record[f] \in r.veths
<1>1. /\ r \in Results
      /\ r.memory \in {memory, "detached", "none"}
      /\ r.record \in {record[e], "detached", "none"}
      /\ r.veths \in {veths, veths \ {memory}}
  BY DeleteShape
<1> QED
  BY <1>1 DEF TypeOK

\* Endpoints are loaded as they are recorded.
LEMMA LoadedJoined ==
  ASSUME TypeOK, Structure, Joined, Distinct, NEW t \in Threads, LoadEndpoints(t)
  PROVE  Joined' /\ Distinct'
<1> USE DEF dockerVars, nodeVars, mapVars, etcdVars, kernelVars, historyVars, sweepVars
<1>1. Creation(t)
  BY DEF Creation
<1>2. /\ UNCHANGED <<docker, attached, record, veths, overlooked>>
      /\ Working' = Working /\ (Working # None => object'[Working] = object[Working])
      /\ \A u \in Threads \ {t} :
           task'[u] = task[u] /\ (task[u] # None => object'[task[u].o] = object[task[u].o])
      /\ \A e \in Endpoints \ overlooked' : Plugged(e) => record[e] \in veths'
  <2>1. UNCHANGED <<docker, attached, record, veths, overlooked>>
    BY DEF LoadEndpoints
  <2>2. \A e \in Endpoints \ overlooked' : Plugged(e) => record[e] \in veths'
    BY <2>1 DEF Joined
  <2> QED
    BY <1>1, <2>1, <2>2, CreationApart
<1>3. task[t] \in Tasks /\ task[t].o \in Objects /\ object[task[t].o] \in Network
  BY <1>1, CreationShape DEF TypeOK, Structure, Tasks
<1>4. CASE /\ object' = [object EXCEPT ![task[t].o].endpoints = record]
           /\ task' = [task EXCEPT ![t].pc = "reconcile",
                                  ![t].todo = {e \in Endpoints : record[e] # "none"}]
  <2>1. task'[t].o = task[t].o
    BY <1>3, <1>4 DEF TypeOK, Tasks
  <2>2. /\ object'[task[t].o].endpoints = record
        /\ \A o \in Objects \ {task[t].o} : object'[o] = object[o]
    BY <1>3, <1>4 DEF TypeOK, Network
  <2>3. \A u \in Threads : task'[u] # None /\ task'[u].pc = "reconcile" =>
          \/ task'[u] = task[u] /\ object'[task[u].o] = object[task[u].o]
          \/ \A e \in Endpoints : object'[task'[u].o].endpoints[e] = record'[e]
    BY <1>2, <2>1, <2>2
  <2>4. Joined'
    BY <1>2, <2>3, JoinedFrame
  <2>5. \A o \in Objects, e \in Endpoints :
          object'[o] # None /\ object'[o].endpoints[e] \in Veths =>
            \/ object[o] # None /\ object'[o].endpoints[e] = object[o].endpoints[e]
            \/ object'[o].endpoints[e] = record[e]
    BY <2>2
  <2> QED
    BY <1>2, <2>4, <2>5, DistinctFrame
<1>5. CASE Fails(t)
  <2>1. task'[t] = None /\ \A o \in Objects : object'[o] \in {object[o], None}
    BY <1>1, <1>5, CreationShape, FailsStep
  <2>3. \A u \in Threads : task'[u] # None =>
          task'[u] = task[u] /\ object'[task[u].o] = object[task[u].o]
    BY <1>2, <2>1
  <2>2. Joined'
    BY <1>2, <2>3, JoinedFrame
  <2> QED
    BY <1>2, <2>1, <2>2, DistinctFrame
<1> QED
  BY <1>4, <1>5, Zenon DEF LoadEndpoints

\* What an object holds after one endpoint of it is forgotten.
LEMMA EndpointForgotten ==
  ASSUME TypeOK, NEW x \in Objects, object[x] \in Network, NEW e \in Endpoints,
         object' = [object EXCEPT ![x].endpoints[e] = "none"]
  PROVE  /\ object'[x].endpoints[e] = "none" /\ object'[x] \in Network /\ object'[x] # None
         /\ \A f \in Endpoints \ {e} : object'[x].endpoints[f] = object[x].endpoints[f]
         /\ \A o \in Objects \ {x} : object'[o] = object[o]
<1>1. /\ object'[x] = [object[x] EXCEPT !.endpoints[e] = "none"]
      /\ \A o \in Objects \ {x} : object'[o] = object[o]
  BY DEF TypeOK
<1>2. "none" \in Data /\ object[x].endpoints \in [Endpoints -> Data]
  BY DEF Data, Network
<1>3. object'[x].endpoints = [object[x].endpoints EXCEPT ![e] = "none"]
  BY <1>1 DEF Network
<1>4. /\ object'[x].endpoints[e] = "none"
      /\ \A f \in Endpoints \ {e} : object'[x].endpoints[f] = object[x].endpoints[f]
  BY <1>2, <1>3
<1>5. object'[x] \in Network
  BY <1>1, <1>2 DEF Network
<1> QED
  BY <1>1, <1>4, <1>5, FlannelNetworkAssumption

\* The two ways of reconciling: an endpoint is kept, or deleted when it is not listed.
LEMMA ReconcileShape ==
  ASSUME TypeOK, Structure, NEW t \in Threads, NEW e \in Endpoints, Reconcile(t, e)
  PROVE  /\ UNCHANGED <<docker, attached, config, lost>> /\ overlooked \subseteq overlooked'
         /\ Working' = Working /\ (Working # None => object'[Working] = object[Working])
         /\ task[t] # None /\ task[t].pc = "reconcile" /\ e \in task[t].todo
         /\ task[t].o \in Objects /\ object[task[t].o] \in Network /\ object[task[t].o] # None
         /\ object[task[t].o].endpoints[e] \in Data
         /\ task'[t] # None /\ task'[t].pc = "reconcile" /\ task'[t].o = task[t].o
         /\ task'[t].todo = task[t].todo \ {e}
         /\ \A u \in Threads \ {t} :
              task'[u] = task[u] /\ (task[u] # None => object'[task[u].o] = object[task[u].o])
         /\ \/ /\ MayBeListed(e)
               /\ UNCHANGED <<object, record, veths, troubled, overlooked>>
            \/ /\ ~Listed(e) /\ (Starting(e) => e \in overlooked')
               /\ object' = [object EXCEPT ![task[t].o].endpoints[e] = "none"]
               /\ \E r \in DeleteResults(e, object[task[t].o].endpoints[e]) :
                    /\ veths' = r.veths /\ troubled \subseteq troubled'
                    /\ ~r.done => e \in troubled'
                    /\ record'[e] = r.record
                    /\ \A f \in Endpoints \ {e} : record'[f] = record[f]
<1> USE DEF sweepVars
<1>1. Creation(t)
  BY DEF Creation
<1>2. /\ Working' = Working /\ (Working # None => object'[Working] = object[Working])
      /\ \A u \in Threads \ {t} :
           task'[u] = task[u] /\ (task[u] # None => object'[task[u].o] = object[task[u].o])
  BY <1>1, CreationApart
<1>3. task[t] # None /\ task[t].pc = "reconcile" /\ e \in task[t].todo
  BY DEF Reconcile, At
<1>4. /\ task[t] \in Tasks /\ task[t].o \in Objects /\ object[task[t].o] \in Network
      /\ object[task[t].o] # None
  BY <1>3, WorkingObject
<1>5. object[task[t].o].endpoints[e] \in Data
  BY <1>4 DEF Network
<1>6. /\ task'[t] = [task[t] EXCEPT !.todo = @ \ {e}]
      /\ task'[t].pc = "reconcile" /\ task'[t].o = task[t].o
      /\ task'[t].todo = task[t].todo \ {e}
  BY <1>3, <1>4 DEF Reconcile, TypeOK, Tasks
<1>7. task'[t] \in Tasks
  BY <1>4, <1>6 DEF Tasks
<1>8. task'[t] # None
  BY <1>7, FlannelNetworkAssumption
<1>9. UNCHANGED <<docker, attached, config, lost>>
  BY DEF Reconcile, dockerVars
<1>10. CASE MayBeListed(e) /\ UNCHANGED <<object, record, veths, troubled, overlooked>>
  BY <1>2, <1>3, <1>4, <1>5, <1>6, <1>8, <1>9, <1>10
<1>11. CASE /\ ~Listed(e)
            /\ object' = [object EXCEPT ![task[t].o].endpoints[e] = "none"]
            /\ \E r \in DeleteResults(e, object[task[t].o].endpoints[e]) :
                 /\ record' = [record EXCEPT ![e] = r.record] /\ veths' = r.veths
                 /\ troubled' = IF r.done THEN troubled ELSE troubled \cup {e}
            /\ overlooked' = IF Starting(e) THEN overlooked \cup {e} ELSE overlooked
  <2>1. PICK r \in DeleteResults(e, object[task[t].o].endpoints[e]) :
          /\ record' = [record EXCEPT ![e] = r.record] /\ veths' = r.veths
          /\ troubled' = IF r.done THEN troubled ELSE troubled \cup {e}
    BY <1>11
  <2>2. /\ troubled \subseteq troubled' /\ (~r.done => e \in troubled')
        /\ overlooked \subseteq overlooked' /\ (Starting(e) => e \in overlooked')
    BY <1>11, <2>1
  <2>3. record'[e] = r.record /\ \A f \in Endpoints \ {e} : record'[f] = record[f]
    BY <2>1 DEF TypeOK
  <2>4. \E q \in DeleteResults(e, object[task[t].o].endpoints[e]) :
          /\ veths' = q.veths /\ troubled \subseteq troubled'
          /\ ~q.done => e \in troubled'
          /\ record'[e] = q.record
          /\ \A f \in Endpoints \ {e} : record'[f] = record[f]
    BY <2>1, <2>2, <2>3
  <2> QED
    BY <1>2, <1>3, <1>4, <1>5, <1>6, <1>8, <1>9, <1>11, <2>2, <2>4
<1> QED
  BY <1>10, <1>11 DEF Reconcile

\* Reconciling keeps what joined, but for what is not listed as it still starts.
LEMMA ReconciledJoined ==
  ASSUME TypeOK, Structure, Joined, Distinct, NEW t \in Threads, NEW e \in Endpoints,
         Reconcile(t, e)
  PROVE  Joined' /\ Distinct'
<1>1. /\ UNCHANGED <<docker, attached, config>> /\ overlooked \subseteq overlooked'
      /\ Working' = Working /\ (Working # None => object'[Working] = object[Working])
      /\ task[t] # None /\ task[t].pc = "reconcile"
      /\ task[t].o \in Objects /\ object[task[t].o] \in Network /\ object[task[t].o] # None
      /\ object[task[t].o].endpoints[e] \in Data
      /\ task'[t].o = task[t].o
      /\ \A u \in Threads \ {t} :
           task'[u] = task[u] /\ (task[u] # None => object'[task[u].o] = object[task[u].o])
  BY ReconcileShape
<1>2. \A u \in Threads : task'[u] # None =>
        \/ task'[u] = task[u] /\ object'[task[u].o] = object[task[u].o]
        \/ u = t
  BY <1>1
<1>3. CASE UNCHANGED <<object, record, veths, troubled, overlooked>>
  <2>1. \A f \in Endpoints \ overlooked' : Plugged(f) =>
          record[f] \in veths' /\ object'[task'[t].o].endpoints[f] = record'[f]
    BY <1>1, <1>3 DEF Joined
  <2>2. Joined'
    BY <1>1, <1>2, <1>3, <2>1, JoinedFrame
  <2> QED
    BY <1>3, <2>2, DistinctFrame
<1>4. CASE /\ ~Listed(e) /\ (Starting(e) => e \in overlooked')
           /\ object' = [object EXCEPT ![task[t].o].endpoints[e] = "none"]
           /\ \E r \in DeleteResults(e, object[task[t].o].endpoints[e]) :
                /\ veths' = r.veths
                /\ record'[e] = r.record
                /\ \A f \in Endpoints \ {e} : record'[f] = record[f]
  <2>1. PICK r \in DeleteResults(e, object[task[t].o].endpoints[e]) :
          /\ veths' = r.veths
          /\ record'[e] = r.record
          /\ \A f \in Endpoints \ {e} : record'[f] = record[f]
    BY <1>4
  <2>2. \A f \in Endpoints \ {e} :
          object[task[t].o].endpoints[e] \in Veths => object[task[t].o].endpoints[e] # record[f]
    BY <1>1 DEF Distinct
  <2>3. /\ r.record \in {record[e], "none", "detached"}
        /\ \A f \in Endpoints \ {e} : record[f] \in veths => record[f] \in r.veths
    BY <1>1, <2>1, <2>2, DeletionKeeps
  <2>4. /\ object'[task[t].o].endpoints[e] = "none"
        /\ \A f \in Endpoints \ {e} :
             object'[task[t].o].endpoints[f] = object[task[t].o].endpoints[f]
        /\ \A o \in Objects \ {task[t].o} : object'[o] = object[o]
    BY <1>1, <1>4, EndpointForgotten
  <2>5. ~(Plugged(e) /\ e \notin overlooked')
    BY <1>1, <1>4 DEF Listed, Starting, Plugged
  <2>6. \A f \in Endpoints \ overlooked' : Plugged(f) =>
          /\ record'[f] = record[f] /\ record[f] \in veths'
          /\ object'[task'[t].o].endpoints[f] = record'[f]
    <3> SUFFICES ASSUME NEW f \in Endpoints \ overlooked', Plugged(f)
                 PROVE  /\ record'[f] = record[f] /\ record[f] \in veths'
                        /\ object'[task'[t].o].endpoints[f] = record'[f]
      OBVIOUS
    <3>1. f # e /\ f \in Endpoints \ overlooked
      BY <1>1, <2>5
    <3>2. record[f] \in veths /\ object[task[t].o].endpoints[f] = record[f]
      BY <1>1, <3>1 DEF Joined
    <3> QED
      BY <1>1, <2>1, <2>3, <2>4, <3>1, <3>2
  <2>7. Joined'
    BY <1>1, <1>2, <2>6, JoinedFrame
  <2>8. \A o \in Objects, f \in Endpoints :
          object'[o] # None /\ object'[o].endpoints[f] \in Veths =>
            object[o] # None /\ object'[o].endpoints[f] = object[o].endpoints[f]
    BY <1>1, <2>4, FlannelNetworkAssumption
  <2>9. \A f \in Endpoints : record'[f] \in {record[f], "none", "detached"}
    BY <2>1, <2>3
  <2> QED
    BY <2>7, <2>8, <2>9, DistinctFrame
<1> QED
  BY <1>3, <1>4, ReconcileShape

\* An answered call of Docker for one endpoint, where the result takes no interfaces from
\* others, and has those that are recorded when the endpoint has joined.
LEMMA AnsweredJoined ==
  ASSUME TypeOK, Structure, Joined, Distinct, NEW e \in Endpoints, NEW r \in Results,
         Called, byDocker # None, docker = "exists", Answered(e, r), EndpointRest,
         NEW s \in {"created", "joined", "left", "gone"}, Attached(e, s),
         s = "joined" => r.record = r.memory /\ r.record \in r.veths,
         \A f \in Endpoints \ {e} : record[f] \in veths => record[f] \in r.veths,
         \A f \in Endpoints \ {e} :
           /\ r.memory \in Veths => r.memory # record[f]
           /\ r.record \in Veths => r.record # record[f],
         r.record \in Veths => r.record = record[e] \/
           \A f \in Endpoints, o \in Objects : object[o] # None => object[o].endpoints[f] # r.record
  PROVE  Joined' /\ Distinct'
<1> USE DEF dockerVars, nodeVars, mapVars, etcdVars, kernelVars, historyVars, sweepVars
<1>1. /\ UNCHANGED <<docker, byFlannel, byDocker, task, overlooked>>
      /\ byDocker \in Objects
      /\ Working = byDocker /\ Working' = byDocker
  BY CallsAlone, WorkingKeeps DEF EndpointRest
<1>2. /\ object[byDocker] \in Network /\ object[byDocker] # None
      /\ object'[byDocker].endpoints[e] = r.memory
      /\ \A f \in Endpoints \ {e} :
           object'[byDocker].endpoints[f] = object[byDocker].endpoints[f]
      /\ \A o \in Objects \ {byDocker} : object'[o] = object[o]
  <2>1. /\ object[byDocker] \in Network
        /\ object'[byDocker] = [object[byDocker] EXCEPT !.endpoints[e] = r.memory]
        /\ \A o \in Objects \ {byDocker} : object'[o] = object[o]
    BY AnsweredStep
  <2> QED
    BY <2>1, FlannelNetworkAssumption DEF Network
<1>3. /\ record'[e] = r.record /\ veths' = r.veths
      /\ \A f \in Endpoints \ {e} : record'[f] = record[f]
  BY DEF Answered, TypeOK
<1>4. /\ attached'[e] = s
      /\ \A f \in Endpoints \ {e} : attached'[f] = attached[f]
  BY DEF Attached, TypeOK
<1>5. \A t \in Threads : task[t] # None => task[t].pc # "reconcile"
  BY CallsAlone DEF Creating
<1>6. Joined'
  <2>1. \A f \in Endpoints :
          attached'[f] \in {"created", "joined", "running", "left"} => docker' = "exists"
    BY <1>1
  <2>2. ASSUME NEW f \in Endpoints \ overlooked', Plugged(f)'
        PROVE  record'[f] \in veths' /\ object'[byDocker].endpoints[f] = record'[f]
    <3>1. CASE f = e
      <4>1. s = "joined"
        BY <1>4, <2>2, <3>1 DEF Plugged
      <4> QED
        BY <1>2, <1>3, <3>1, <4>1
    <3>2. CASE f # e
      <4>1. Plugged(f) /\ f \in Endpoints \ overlooked
        BY <1>1, <1>4, <2>2, <3>2 DEF Plugged
      <4>2. record[f] \in veths /\ object[byDocker].endpoints[f] = record[f]
        BY <1>1, <4>1 DEF Joined
      <4> QED
        BY <1>2, <1>3, <3>2, <4>2
    <3> QED
      BY <3>1, <3>2
  <2> QED
    BY <1>1, <1>5, <2>1, <2>2 DEF Joined
<1>7. ASSUME NEW f \in Endpoints, NEW g \in Endpoints, f # g
      PROVE  record'[f] \in Veths => record'[f] # record'[g]
  BY <1>3, <1>7 DEF Distinct, TypeOK
<1>8. ASSUME NEW f \in Endpoints, NEW g \in Endpoints, f # g, NEW o \in Objects,
             object'[o] # None, object'[o].endpoints[f] \in Veths
      PROVE  object'[o].endpoints[f] # record'[g]
  <2>1. CASE o = byDocker /\ f = e
    BY <1>2, <1>3, <1>8, <2>1
  <2>2. CASE ~(o = byDocker /\ f = e)
    <3>1. object[o] # None /\ object'[o].endpoints[f] = object[o].endpoints[f]
      BY <1>2, <1>8, <2>2
    <3> QED
      BY <1>3, <1>8, <3>1 DEF Distinct
  <2> QED
    BY <2>1, <2>2
<1>9. Distinct'
  BY <1>7, <1>8 DEF Distinct
<1> QED
  BY <1>6, <1>9

\* A call that changes no endpoint's data, or the end of a container's start.
LEMMA RefusedJoined ==
  ASSUME TypeOK, Structure, Joined, Distinct, NEW e \in Endpoints,
         UNCHANGED <<object, record, veths>>, EndpointRest,
         NEW s \in {"running", "gone", "left"}, Attached(e, s),
         s = "left" => docker = "exists", s = "running" => Plugged(e)
  PROVE  Joined' /\ Distinct'
<1> USE DEF dockerVars, nodeVars, mapVars, etcdVars, kernelVars, historyVars, sweepVars
<1>1. UNCHANGED <<docker, task, object, record, veths, overlooked>> /\ Working' = Working
  BY WorkingKeeps DEF EndpointRest
<1>2. /\ attached'[e] = s
      /\ \A f \in Endpoints \ {e} : attached'[f] = attached[f]
  BY DEF Attached, TypeOK
<1>3. Joined'
  <2>1. \A f \in Endpoints : Plugged(f)' => Plugged(f)
    BY <1>2 DEF Plugged
  <2>2. \A f \in Endpoints :
          attached'[f] \in {"created", "joined", "running", "left"} => docker' = "exists"
    BY <1>1, <1>2 DEF Joined, Plugged
  <2> QED
    BY <1>1, <2>1, <2>2 DEF Joined
<1>4. Distinct'
  BY <1>1, DistinctFrame
<1> QED
  BY <1>3, <1>4

\* A call of Docker for one endpoint keeps the joined ones.
LEMMA EndpointJoined ==
  ASSUME TypeOK, Structure, Joined, Distinct, NEW e \in Endpoints, Endpoint(e)
  PROVE  Joined' /\ Distinct'
<1>1. "none" \notin Veths /\ "detached" \notin Veths /\ veths \subseteq Veths
  BY FlannelNetworkAssumption DEF TypeOK
<1>2. CASE CreateEndpoint(e)
  <2>1. ASSUME Called, byDocker # None, docker = "exists", EndpointRest,
               NEW done \in BOOLEAN, NEW m \in {"none", "detached"},
               NEW q \in {"none", "detached"}, NEW s \in {"created", "gone"},
               Answered(e, Result(done, m, q, veths)), Attached(e, s)
        PROVE  Joined' /\ Distinct'
    <3> DEFINE r == Result(done, m, q, veths)
    <3>1. r \in Results /\ r.memory = m /\ r.record = q /\ r.veths = veths
      BY <1>1, <2>1 DEF Result, Results, Data
    <3>2. Answered(e, r)
      BY <2>1
    <3> HIDE DEF r
    <3> QED
      BY <1>1, <2>1, <3>1, <3>2, AnsweredJoined
  <2>2. CASE Refused(e) /\ Attached(e, "gone")
    BY <1>2, <2>2, RefusedJoined DEF CreateEndpoint, Refused
  <2> QED
    BY <1>2, <2>1, <2>2 DEF CreateEndpoint
<1>3. CASE Join(e)
  <2>1. docker = "exists" /\ EndpointRest /\ Called
    BY <1>3 DEF Join, Joined
  <2>2. ASSUME NEW v \in Veths, Fresh(v), byDocker # None, NEW done \in BOOLEAN,
               NEW q \in {record[e], v}, NEW s \in {"joined", "left"}, s = "joined" => q = v,
               Answered(e, Result(done, v, q, veths \cup {v})), Attached(e, s)
        PROVE  Joined' /\ Distinct'
    <3> DEFINE r == Result(done, v, q, veths \cup {v})
    <3>1. record[e] \in Data /\ veths \cup {v} \subseteq Veths /\ v \in Data
      BY <1>1 DEF TypeOK, Data
    <3>2. r \in Results /\ r.memory = v /\ r.record = q /\ r.veths = veths \cup {v}
      BY <2>2, <3>1 DEF Result, Results
    <3>3. Answered(e, r)
      BY <2>2
    <3> HIDE DEF r
    <3>4. \A f \in Endpoints \ {e} : r.memory # record[f]
      BY <2>2, <3>2 DEF Fresh
    <3>5. CASE q = v
      <4>1. \A f \in Endpoints, o \in Objects :
              object[o] # None => object[o].endpoints[f] # r.record
        BY <2>2, <3>2, <3>5 DEF Fresh
      <4>2. \A f \in Endpoints \ {e} : r.record # record[f]
        BY <3>2, <3>4, <3>5
      <4> QED
        BY <2>1, <2>2, <3>2, <3>3, <3>4, <3>5, <4>1, <4>2, AnsweredJoined
    <3>6. CASE q = record[e]
      <4>1. \A f \in Endpoints \ {e} : r.record \in Veths => r.record # record[f]
        BY <3>2, <3>6 DEF Distinct
      <4> QED
        BY <2>1, <2>2, <3>2, <3>3, <3>4, <3>6, <4>1, AnsweredJoined
    <3> QED
      BY <3>5, <3>6
  <2>3. CASE Refused(e) /\ Attached(e, "left")
    BY <2>1, <2>3, RefusedJoined DEF Refused
  <2> QED
    BY <1>3, <2>2, <2>3 DEF Join, Known
<1>4. ASSUME Called, Known(e), NEW r \in Results, Answered(e, r), EndpointRest, docker = "exists",
             NEW s \in {"gone", "left"}, Attached(e, s),
             r.memory \in {object[byDocker].endpoints[e], "none", "detached"},
             r.record \in {record[e], "none", "detached"},
             \A f \in Endpoints \ {e} : record[f] \in veths => record[f] \in r.veths
      PROVE  Joined' /\ Distinct'
  <2>1. byDocker # None /\ byDocker \in Objects /\ object[byDocker] # None
    BY <1>4, FlannelNetworkAssumption DEF Known, TypeOK, Structure
  <2>2. \A f \in Endpoints \ {e} :
          /\ r.memory \in Veths => r.memory # record[f]
          /\ r.record \in Veths => r.record # record[f]
    BY <1>1, <1>4, <2>1 DEF Distinct
  <2>3. r.record \in Veths => r.record = record[e]
    BY <1>1, <1>4
  <2> QED
    BY <1>4, <2>1, <2>2, <2>3, AnsweredJoined
<1>5. ASSUME Known(e)
      PROVE  /\ object[byDocker].endpoints[e] \in Data
             /\ \A f \in Endpoints \ {e} :
                  object[byDocker].endpoints[e] \in Veths =>
                    object[byDocker].endpoints[e] # record[f]
  <2>1. byDocker \in Objects /\ object[byDocker] \in Network /\ object[byDocker] # None
    BY <1>5, FlannelNetworkAssumption DEF Known, TypeOK, Structure
  <2> QED
    BY <2>1 DEF Network, Distinct
<1>6. CASE Leave(e)
  <2>1. docker = "exists" /\ EndpointRest /\ Attached(e, "left") /\ Called
    BY <1>6 DEF Leave, Joined, Plugged
  <2>2. CASE Known(e)
    <3>1. PICK r \in LeaveResults(e, object[byDocker].endpoints[e]) : Answered(e, r)
      BY <1>6, <2>2 DEF Leave
    <3>2. /\ r \in Results
          /\ r.memory \in {object[byDocker].endpoints[e], "detached"}
          /\ r.record \in {record[e], "detached"}
          /\ r.veths \in {veths, veths \ {object[byDocker].endpoints[e]}}
      BY <1>5, <2>2, <3>1, LeaveShape
    <3>3. \A f \in Endpoints \ {e} : record[f] \in veths => record[f] \in r.veths
      BY <1>1, <1>5, <2>2, <3>2
    <3> QED
      BY <1>4, <2>1, <2>2, <3>1, <3>2, <3>3
  <2>3. CASE ~Known(e)
    BY <1>6, <2>1, <2>3, RefusedJoined DEF Leave, Refused
  <2> QED
    BY <2>2, <2>3
<1>7. CASE DeleteEndpoint(e)
  <2>1. docker = "exists" /\ EndpointRest /\ Attached(e, "gone") /\ Called
    BY <1>7 DEF DeleteEndpoint, Joined
  <2>2. CASE Known(e)
    <3>1. PICK r \in DeleteResults(e, object[byDocker].endpoints[e]) : Answered(e, r)
      BY <1>7, <2>2 DEF DeleteEndpoint
    <3>2. /\ r \in Results
          /\ r.memory \in {object[byDocker].endpoints[e], "none", "detached"}
          /\ r.record \in {record[e], "none", "detached"}
          /\ \A f \in Endpoints \ {e} : record[f] \in veths => record[f] \in r.veths
      BY <1>5, <2>2, <3>1, DeletionKeeps
    <3> QED
      BY <1>4, <2>1, <2>2, <3>1, <3>2
  <2>3. CASE ~Known(e)
    BY <1>7, <2>1, <2>3, RefusedJoined DEF DeleteEndpoint, Refused
  <2> QED
    BY <2>2, <2>3
<1>8. CASE EndUnheard(e)
  BY <1>8, RefusedJoined DEF EndUnheard
<1>9. CASE Run(e)
  BY <1>9, RefusedJoined DEF Run, Plugged
<1> QED
  BY <1>2, <1>3, <1>6, <1>7, <1>8, <1>9 DEF Endpoint

\* A removal, which starts when Docker's containers have left the network.
LEMMA RemovalJoined ==
  ASSUME TypeOK, Structure, Lifecycle, Joined, Distinct, Delete
  PROVE  Joined' /\ Distinct'
<1> USE DEF dockerVars, nodeVars, mapVars, etcdVars, kernelVars, historyVars, sweepVars
<1>1. docker = "removed" /\ UNCHANGED <<docker, attached>>
  <2>1. CASE HandleNetworkRemoved
    <3>1. /\ events # <<>> /\ Head(events) = "removed"
          /\ UNCHANGED <<docker, attached>>
      BY <2>1 DEF HandleNetworkRemoved, Announced
    <3>2. Pending("removed")
      BY <3>1 DEF Pending, TypeOK
    <3> QED
      BY <3>1, <3>2 DEF Lifecycle
  <2>2. CASE ~HandleNetworkRemoved
    <3>1. task["events"] # None /\ task["events"].pc \in Deleting
      BY <2>2 DEF Delete, DeleteProcess, ReadRevision, DeleteConfig, CleanupInterfaces,
                  CleanupEndpoint, RemoveNetwork, Removing, At, Deleting
    <3>2. UNCHANGED <<docker, attached>>
      BY <2>2 DEF Delete, DeleteProcess, ReadRevision, DeleteConfig, CleanupInterfaces,
                  CleanupEndpoint, RemoveNetwork, RemovalRest
    <3> QED
      BY <3>1, <3>2 DEF Lifecycle
  <2> QED
    BY <2>1, <2>2
<1>2. Joined'
  BY <1>1 DEF Joined, Plugged
<1>3. CASE \E e \in Endpoints : CleanupEndpoint(e)
  <2>1. PICK e \in Endpoints : CleanupEndpoint(e)
    BY <1>3
  <2>2. /\ task["events"] # None /\ Removed \in Objects /\ object[Removed] \in Network
    BY <2>1 DEF CleanupEndpoint, Removing, At, Removed, Structure, TypeOK, Tasks, Threads
  <2>3. object[Removed].endpoints[e] \in Data /\ object[Removed] # None
    BY <2>2, FlannelNetworkAssumption DEF Network
  <2>4. PICK r \in DeleteResults(e, object[Removed].endpoints[e]) :
          /\ object' = [object EXCEPT ![Removed].endpoints[e] = r.memory]
          /\ record' = [record EXCEPT ![e] = r.record]
    BY <2>1 DEF CleanupEndpoint
  <2>5. /\ r.memory \in {object[Removed].endpoints[e], "none", "detached"}
        /\ r.record \in {record[e], "none", "detached"}
    BY <2>3, <2>4, DeleteShape
  <2>6. /\ object'[Removed].endpoints[e] = r.memory
        /\ \A f \in Endpoints \ {e} :
             object'[Removed].endpoints[f] = object[Removed].endpoints[f]
        /\ \A o \in Objects \ {Removed} : object'[o] = object[o]
        /\ record'[e] = r.record /\ \A f \in Endpoints \ {e} : record'[f] = record[f]
    BY <2>2, <2>4 DEF TypeOK, Network
  <2>7. \A o \in Objects, f \in Endpoints :
          object'[o] # None /\ object'[o].endpoints[f] \in Veths =>
            object[o] # None /\ object'[o].endpoints[f] = object[o].endpoints[f]
    BY <2>3, <2>5, <2>6, FlannelNetworkAssumption
  <2> QED
    BY <1>2, <2>5, <2>6, <2>7, DistinctFrame
<1>4. CASE ~\E e \in Endpoints : CleanupEndpoint(e)
  <2>1. UNCHANGED record
    BY <1>4 DEF Delete, HandleNetworkRemoved, DeleteProcess, ReadRevision, DeleteConfig,
                CleanupInterfaces, RemoveNetwork
  <2>2. \A o \in Objects : object'[o] # None =>
          object[o] # None /\ object'[o].endpoints = object[o].endpoints
    <3>1. CASE HandleNetworkRemoved
      BY <3>1 DEF HandleNetworkRemoved, Down
    <3>2. CASE ~HandleNetworkRemoved
      <4>1. \/ object' = object
            \/ object' = [object EXCEPT ![Removed].process = FALSE]
            \/ object' = [object EXCEPT ![Removed] = None]
        BY <1>4, <3>2 DEF Delete, DeleteProcess, ReadRevision, DeleteConfig, CleanupInterfaces,
                          RemoveNetwork, EndFlannelDaemonProcess
      <4>2. task["events"] # None
        BY <1>4, <3>2 DEF Delete, DeleteProcess, ReadRevision, DeleteConfig, CleanupInterfaces,
                          RemoveNetwork, Removing, At
      <4>3. Removed \in Objects /\ object[Removed] \in Network
        BY <4>2 DEF Removed, Structure, TypeOK, Tasks, Threads
      <4> QED
        BY <4>1, <4>3, FlannelNetworkAssumption DEF TypeOK, Network
    <3> QED
      BY <3>1, <3>2
  <2> QED
    BY <1>2, <2>1, <2>2, DistinctFrame
<1> QED
  BY <1>3, <1>4

\* Clean-ups, of this node or of others, which overlook all that is plugged when they delete.
LEMMA CleaningShape ==
  ASSUME TypeOK, CleanupStaleNetworks \/ OtherNode
  PROVE  /\ UNCHANGED <<docker, attached, byFlannel, byDocker, object, task, troubled>>
         /\ veths' \subseteq veths /\ overlooked \subseteq overlooked'
         /\ lost \subseteq lost'
         /\ \/ UNCHANGED <<record, veths>>
            \/ UNCHANGED record /\ \A e \in Endpoints : Plugged(e) => e \in overlooked'
            \/ /\ \A e \in Endpoints : record'[e] = "none" /\ (Plugged(e) => e \in overlooked')
               /\ UNCHANGED veths
               /\ \A e \in Endpoints : record[e] \in veths => record[e] \in lost'
<1> USE DEF dockerVars, nodeVars, mapVars, etcdVars, kernelVars, historyVars, sweepVars
<1>1. ASSUME DeleteKeys
      PROVE  /\ overlooked \subseteq overlooked' /\ lost \subseteq lost'
             /\ \A e \in Endpoints : record'[e] = "none" /\ (Plugged(e) => e \in overlooked')
             /\ \A e \in Endpoints : record[e] \in veths => record[e] \in lost'
  BY <1>1 DEF DeleteKeys
<1>2. CASE OtherNode
  <2>1. /\ UNCHANGED <<docker, attached, byFlannel, byDocker, object, task, troubled, veths>>
        /\ DeleteKeys \/ UNCHANGED <<record, lost, overlooked>>
    BY <1>2 DEF OtherNode
  <2> QED
    BY <1>1, <2>1
<1>3. CASE DeleteStaleData
  <2>1. /\ UNCHANGED <<docker, attached, byFlannel, byDocker, object, task, troubled, veths>>
        /\ DeleteKeys \/ UNCHANGED <<record, lost, overlooked>>
    BY <1>3 DEF DeleteStaleData
  <2> QED
    BY <1>1, <2>1
<1>4. CASE DeleteStaleBridge
  BY <1>4 DEF DeleteStaleBridge
<1>5. CASE TakeNetworks \/ ReadNetworks \/ DeleteStaleLinks
  BY <1>5 DEF TakeNetworks, ReadNetworks, DeleteStaleLinks
<1> QED
  BY <1>2, <1>3, <1>4, <1>5 DEF CleanupStaleNetworks

\* Every step keeps what containers have that joined.
LEMMA JoinedStep ==
  ASSUME TypeOK, Structure, Lifecycle, Joined, Distinct, [Next]_vars
  PROVE  Joined' /\ Distinct'
<1> USE DEF dockerVars, nodeVars, mapVars, etcdVars, kernelVars, historyVars, sweepVars
<1>1. ASSUME NEW t \in Threads, Create(t) PROVE Joined' /\ Distinct'
  BY <1>1, CreationJoined, KeyJoined, LoadedJoined, ReconciledJoined DEF Create
<1>2. ASSUME NEW e \in Endpoints, Endpoint(e) PROVE Joined' /\ Distinct'
  BY <1>2, EndpointJoined
<1>3. CASE Delete
  BY <1>3, RemovalJoined
<1>4. CASE NetworkChanges
  <2>1. UNCHANGED <<attached, byFlannel, byDocker, object, task, record, veths, overlooked>>
    BY <1>4 DEF NetworkChanges
  <2>2. \/ docker' = "exists"
        \/ \A e \in Endpoints : attached[e] \in {"none", "gone"}
    BY <1>4 DEF NetworkChanges
  <2>3. Joined'
    BY <2>1, <2>2 DEF Joined, Working, Found, Plugged
  <2>4. Distinct'
    BY <2>1, DistinctFrame
  <2> QED
    BY <2>3, <2>4
<1>5. CASE CleanupStaleNetworks \/ OtherNode
  <2>1. /\ UNCHANGED <<docker, attached, byFlannel, byDocker, object, task>>
        /\ overlooked \subseteq overlooked'
        /\ \/ UNCHANGED <<record, veths>>
           \/ \A e \in Endpoints : Plugged(e) => e \in overlooked'
        /\ \A e \in Endpoints : record'[e] \in {record[e], "none"}
    BY <1>5, CleaningShape
  <2>2. Working' = Working
    BY <2>1 DEF Working, Found
  <2>3. \A e \in Endpoints \ overlooked' : Plugged(e) =>
          record'[e] = record[e] /\ record[e] \in veths'
    BY <2>1 DEF Joined
  <2>4. Joined'
    BY <2>1, <2>2, <2>3, JoinedFrame
  <2>5. Distinct'
    BY <2>1, DistinctFrame
  <2> QED
    BY <2>4, <2>5
<1>6. CASE Crash
  <2>1. /\ UNCHANGED <<docker, record, overlooked>>
        /\ byFlannel' = None /\ byDocker' = None /\ \A t \in Threads : task'[t] = None
        /\ \A o \in Objects : object'[o] = None
    BY <1>6 DEF Crash, Down
  <2>2. \/ UNCHANGED <<attached, veths>>
        \/ \A e \in Endpoints : attached'[e] \in {"none", "gone"}
    BY <1>6 DEF Crash
  <2>3. Joined'
    BY <2>1, <2>2 DEF Joined, Working, Found, Plugged
  <2>4. Distinct'
    BY <2>1, DistinctFrame
  <2> QED
    BY <2>3, <2>4
<1>7. CASE Start \/ ServeEarly \/ LoadDockerData \/ UNCHANGED vars
  <2>1. /\ UNCHANGED <<docker, attached, byFlannel, byDocker, object, task, record, veths>>
        /\ overlooked \subseteq overlooked'
    BY <1>7 DEF Start, ServeEarly, LoadDockerData, vars
  <2>2. Joined'
    BY <2>1 DEF Joined, Working, Found, Plugged
  <2> QED
    BY <2>1, <2>2, DistinctFrame
<1> QED
  BY <1>1, <1>2, <1>3, <1>4, <1>5, <1>6, <1>7 DEF Next

\* At first no endpoint is in use.
LEMMA JoinedInit == Init => Joined /\ Distinct
<1> SUFFICES ASSUME Init PROVE Joined /\ Distinct
  OBVIOUS
<1>1. /\ \A e \in Endpoints : attached[e] = "none" /\ record[e] = "none"
      /\ \A o \in Objects : object[o] = None
  BY DEF Init
<1>2. Joined
  BY <1>1 DEF Joined, Plugged
<1>3. Distinct
  BY <1>1, FlannelNetworkAssumption DEF Distinct
<1> QED
  BY <1>2, <1>3

\* A container that joined keeps its interfaces, and the network that Docker's calls find knows
\* them, through failures, crashes of the plugin and its restarts, unless a start did not list
\* it, as containers are not that still start, or a clean-up had an old list.
THEOREM JoinedKeepsVeth == Spec => []JoinedHasVeth
<1>1. /\ Lifecycle /\ TypeOK /\ Structure /\ Joined /\ Distinct /\ [Next]_vars
      => (Lifecycle /\ Joined /\ Distinct)'
  BY LifecycleStep, JoinedStep
<1>2. Structure /\ Joined => JoinedHasVeth
  BY DEF Structure, Joined, JoinedHasVeth, Working, Found
<1> QED
  BY <1>1, <1>2, AliveInit, JoinedInit, TypeCorrect, PTL DEF Spec

-----------------------------------------------------------------------------
(* No interfaces are lost, and what has ended is forgotten.                *)

\* Before a creation has loaded the endpoints its object knows nothing of them, and then no
\* interfaces but those that are recorded, deleted or lost; and no network is there before the
\* plugin has Docker's data or hears its calls.
Untouched ==
  /\ \A t \in Threads : task[t] # None /\ task[t].pc \in Creating =>
       \A e \in Endpoints :
         IF task[t].pc # "reconcile" THEN object[task[t].o].endpoints[e] = "none"
         ELSE object[task[t].o].endpoints[e] \in veths \ lost =>
                record[e] = object[task[t].o].endpoints[e]
  /\ ~loaded /\ ~ready => byFlannel = None /\ \A t \in Threads : task[t] = None

\* Only an endpoint that joined once has interfaces, and where the record and an object both
\* know some, they are the same.
Traced ==
  \A e \in Endpoints :
    /\ attached[e] \in {"none", "created"} => record[e] \notin Veths
    /\ \A o \in Objects : object[o] # None /\ object[o].endpoints[e] \in Veths =>
         /\ attached[e] \notin {"none", "created"}
         /\ record[e] \in Veths => record[e] = object[o].endpoints[e]

\* Nothing is known any more of an endpoint that ended, by the network that the events find and,
\* once it is reconciled, by one that is being created.
Forgotten ==
  \A e \in Endpoints \ troubled : attached[e] = "gone" =>
    /\ Working # None => record[e] = "none" /\ object[Working].endpoints[e] = "none"
    /\ \A t \in Threads :
         task[t] # None /\ task[t].pc = "reconcile" /\ e \notin task[t].todo =>
           record[e] = "none" /\ object[task[t].o].endpoints[e] = "none"

\* The result r of a deletion comes from the result q of leaving, when there are interfaces.
DeletesThrough(e, memory, q, r) ==
  /\ \/ memory \in {"none", "detached"} /\ q = Result(TRUE, memory, record[e], veths)
     \/ memory \notin {"none", "detached"} /\ q \in LeaveResults(e, memory)
  /\ (q.done /\ r \in DeleteRecord(q)) \/ (~q.done /\ r = q)

\* A deletion leaves first when there are interfaces, and goes on if that was done.
LEMMA DeleteSteps ==
  ASSUME NEW e \in Endpoints, NEW memory \in Data, NEW r \in DeleteResults(e, memory)
  PROVE  \E q : DeletesThrough(e, memory, q, r)
<1> DEFINE left == IF memory \in {"none", "detached"}
                   THEN {Result(TRUE, memory, record[e], veths)} ELSE LeaveResults(e, memory)
<1>1. r \in UNION {IF q.done THEN DeleteRecord(q) ELSE {q} : q \in left}
  BY DEF DeleteResults
<1>2. \A L : r \in UNION {IF q.done THEN DeleteRecord(q) ELSE {q} : q \in L}
               => \E q \in L : r \in (IF q.done THEN DeleteRecord(q) ELSE {q})
  OBVIOUS
<1>3. \A q \in left : \/ memory \in {"none", "detached"} /\ q = Result(TRUE, memory, record[e], veths)
                      \/ memory \notin {"none", "detached"} /\ q \in LeaveResults(e, memory)
  OBVIOUS
<1> HIDE DEF left
<1>4. PICK q \in left : r \in (IF q.done THEN DeleteRecord(q) ELSE {q})
  BY <1>1, <1>2
<1>5. (q.done /\ r \in DeleteRecord(q)) \/ (~q.done /\ r = q)
  <2>1. CASE q.done
    BY <1>4, <2>1
  <2>2. CASE ~q.done
    BY <1>4, <2>2
  <2> QED
    BY <2>1, <2>2
<1> QED
  BY <1>3, <1>5 DEF DeletesThrough

\* Interfaces that are forgotten are deleted, when record and memory agree on them.
LEMMA LeaveForgetsDeleted ==
  ASSUME TypeOK, NEW e \in Endpoints, NEW memory \in Data, NEW r \in LeaveResults(e, memory),
         memory \in Veths, record[e] \in Veths => record[e] = memory
  PROVE  /\ r.veths \subseteq veths
         /\ r.memory = memory \/ memory \notin r.veths
         /\ r.record = record[e] \/ record[e] \notin r.veths
         /\ r.done => r.memory = "detached" /\ r.record = "detached"
<1>1. veths \subseteq Veths
  BY DEF TypeOK
<1>2. \/ r = Result(FALSE, memory, record[e], veths)
      \/ r = Result(TRUE, "detached", "detached", veths \ {memory})
      \/ \E q \in {record[e], "detached"} : r = Result(FALSE, "detached", q, veths \ {memory})
  BY DEF LeaveResults
<1>3. record[e] \in veths => record[e] = memory
  BY <1>1
<1>4. CASE r = Result(FALSE, memory, record[e], veths)
  BY <1>4 DEF Result
<1>5. ASSUME NEW done \in BOOLEAN, NEW q \in {record[e], "detached"}, done => q = "detached",
             r = Result(done, "detached", q, veths \ {memory})
      PROVE  /\ r.veths \subseteq veths
             /\ r.memory = memory \/ memory \notin r.veths
             /\ r.record = record[e] \/ record[e] \notin r.veths
             /\ r.done => r.memory = "detached" /\ r.record = "detached"
  <2>1. r.done = done /\ r.memory = "detached" /\ r.record = q /\ r.veths = veths \ {memory}
    BY <1>5 DEF Result
  <2> QED
    BY <1>3, <1>5, <2>1
<1> QED
  BY <1>2, <1>4, <1>5

\* The same for a deletion, which forgets everything when it is done.
LEMMA DeletionForgetsDeleted ==
  ASSUME TypeOK, NEW e \in Endpoints, NEW memory \in Data, NEW r \in DeleteResults(e, memory),
         memory \in Veths /\ record[e] \in Veths => record[e] = memory
  PROVE  /\ r.veths \subseteq veths
         /\ r.memory = memory \/ memory \notin r.veths
         /\ r.record = record[e] \/ record[e] \notin r.veths
         /\ r.done => r.memory = "none" /\ r.record = "none"
         /\ memory = "none" /\ record[e] = "none" => r.memory = "none" /\ r.record = "none"
<1>0. veths \subseteq Veths /\ "none" \notin Veths /\ "detached" \notin Veths
      /\ (memory \in Veths \/ memory \in {"none", "detached"})
  BY FlannelNetworkAssumption DEF TypeOK, Data
<1>0a. PICK q : DeletesThrough(e, memory, q, r)
  BY DeleteSteps
<1>1. /\ \/ memory \in {"none", "detached"} /\ q = Result(TRUE, memory, record[e], veths)
         \/ memory \notin {"none", "detached"} /\ q \in LeaveResults(e, memory)
      /\ (q.done /\ r \in DeleteRecord(q)) \/ (~q.done /\ r = q)
  BY <1>0a DEF DeletesThrough
<1>2. ASSUME r \in DeleteRecord(q), q.done, q \in Results
      PROVE  /\ r.veths = q.veths
             /\ \/ r.memory = "none" /\ r.record = "none" /\ q.record = q.memory
                \/ r.memory = q.memory /\ r.record = q.record /\ ~r.done
                \/ r.memory = q.memory /\ r.record = "none" /\ q.record = q.memory /\ ~r.done
  <2>1. \/ r = [q EXCEPT !.done = FALSE]
        \/ q.record = q.memory /\ r = Result(TRUE, "none", "none", q.veths)
        \/ q.record = q.memory /\ r = [q EXCEPT !.done = FALSE, !.record = "none"]
    BY <1>2 DEF DeleteRecord
  <2>2. CASE r = [q EXCEPT !.done = FALSE]
    BY <1>2, <2>2 DEF Results
  <2>3. CASE q.record = q.memory /\ r = Result(TRUE, "none", "none", q.veths)
    BY <2>3 DEF Result
  <2>4. CASE q.record = q.memory /\ r = [q EXCEPT !.done = FALSE, !.record = "none"]
    BY <1>2, <2>4 DEF Results
  <2> QED
    BY <2>1, <2>2, <2>3, <2>4
<1>3. CASE memory \in {"none", "detached"}
  <2>1. q = Result(TRUE, memory, record[e], veths)
    BY <1>1, <1>3
  <2>2. q \in Results /\ q.done /\ q.memory = memory /\ q.record = record[e] /\ q.veths = veths
    BY <2>1 DEF Result, Results, TypeOK
  <2>3. r \in DeleteRecord(q)
    BY <1>1, <2>2
  <2> QED
    BY <1>0, <1>2, <1>3, <2>2, <2>3
<1>4. CASE memory \notin {"none", "detached"}
  <2>1. memory \in Veths /\ q \in LeaveResults(e, memory)
    BY <1>0, <1>1, <1>4
  <2>2. /\ q \in Results /\ q.veths \subseteq veths
        /\ q.memory = memory \/ memory \notin q.veths
        /\ q.record = record[e] \/ record[e] \notin q.veths
        /\ q.done => q.memory = "detached" /\ q.record = "detached"
    BY <2>1, LeaveForgetsDeleted, LeaveShape
  <2>3. CASE ~q.done
    <3>1. r = q
      BY <1>1, <2>3
    <3> QED
      BY <1>4, <2>2, <2>3, <3>1
  <2>4. CASE q.done
    <3>1. r \in DeleteRecord(q)
      BY <1>1, <2>4
    <3>2. memory \notin q.veths /\ (record[e] \notin q.veths \/ record[e] = "detached")
      BY <1>4, <2>2, <2>4
    <3> QED
      BY <1>0, <1>2, <1>4, <2>1, <2>2, <2>4, <3>1, <3>2
  <2> QED
    BY <2>3, <2>4
<1> QED
  BY <1>3, <1>4

\* Where nobody gets interfaces, and what is forgotten is deleted or recorded elsewhere.
LEMMA TracedFrame ==
  ASSUME Traced, VethsTracked,
         \A e \in Endpoints : attached'[e] \in {"none", "created"} =>
                              attached[e] \in {"none", "created"},
         \A e \in Endpoints : /\ record'[e] \in {record[e], "none", "detached"}
                              /\ record'[e] = record[e] \/ record[e] \notin veths' \ lost',
         veths' \ lost' \subseteq veths \ lost,
         \A o \in Objects, e \in Endpoints :
           object'[o] # None /\ object'[o].endpoints[e] \in Veths =>
             \/ object[o] # None /\ object[o].endpoints[e] = object'[o].endpoints[e]
             \/ record[e] = object'[o].endpoints[e],
         \A o \in Objects, e \in Endpoints :
           object[o] # None /\ object[o].endpoints[e] \in veths' \ lost' =>
             \/ object'[o] # None /\ object'[o].endpoints[e] = object[o].endpoints[e]
             \/ \E f \in Endpoints : record'[f] = object[o].endpoints[e]
  PROVE  Traced' /\ VethsTracked'
<1>0. "none" \notin Veths /\ "detached" \notin Veths
  BY FlannelNetworkAssumption
<1>1. Traced'
  <2> SUFFICES ASSUME NEW e \in Endpoints
               PROVE  /\ attached'[e] \in {"none", "created"} => record'[e] \notin Veths
                      /\ \A o \in Objects : object'[o] # None /\ object'[o].endpoints[e] \in Veths =>
                           /\ attached'[e] \notin {"none", "created"}
                           /\ record'[e] \in Veths => record'[e] = object'[o].endpoints[e]
    BY DEF Traced
  <2>1. record'[e] \in Veths => record'[e] = record[e]
    BY <1>0
  <2> QED
    BY <2>1 DEF Traced
<1>2. VethsTracked'
  <2> SUFFICES ASSUME NEW v \in veths' \ lost'
               PROVE  \E e \in Endpoints :
                        record'[e] = v \/ \E o \in Objects : object'[o] # None /\ object'[o].endpoints[e] = v
    BY DEF VethsTracked
  <2>1. PICK e \in Endpoints :
          record[e] = v \/ \E o \in Objects : object[o] # None /\ object[o].endpoints[e] = v
    BY DEF VethsTracked
  <2>2. CASE record[e] = v
    BY <2>2
  <2>3. CASE \E o \in Objects : object[o] # None /\ object[o].endpoints[e] = v
    BY <2>3
  <2> QED
    BY <2>1, <2>2, <2>3
<1> QED
  BY <1>1, <1>2

\* Where nothing ends without trouble, and what is forgotten stays so.
LEMMA ForgottenFrame ==
  ASSUME Forgotten,
         troubled \subseteq troubled',
         \A e \in Endpoints \ troubled' : attached'[e] = "gone" => attached[e] = "gone",
         Working' \in {Working, None},
         Working' # None =>
           \A e \in Endpoints \ troubled' :
             attached'[e] = "gone" /\ record[e] = "none" /\ object[Working].endpoints[e] = "none"
               => record'[e] = "none" /\ object'[Working].endpoints[e] = "none",
         \A t \in Threads : task'[t] # None /\ task'[t].pc = "reconcile" =>
           \/ /\ task'[t] = task[t]
              /\ \A e \in Endpoints \ troubled' :
                   attached'[e] = "gone" /\ record[e] = "none"
                     /\ object[task[t].o].endpoints[e] = "none"
                   => record'[e] = "none" /\ object'[task[t].o].endpoints[e] = "none"
           \/ \A e \in Endpoints \ troubled' : attached'[e] = "gone" /\ e \notin task'[t].todo =>
                record'[e] = "none" /\ object'[task'[t].o].endpoints[e] = "none"
  PROVE  Forgotten'
<1> SUFFICES ASSUME NEW e \in Endpoints \ troubled', attached'[e] = "gone"
             PROVE  /\ Working' # None =>
                         record'[e] = "none" /\ object'[Working'].endpoints[e] = "none"
                    /\ \A t \in Threads :
                         task'[t] # None /\ task'[t].pc = "reconcile" /\ e \notin task'[t].todo =>
                           record'[e] = "none" /\ object'[task'[t].o].endpoints[e] = "none"
  BY DEF Forgotten
<1>1. e \in Endpoints \ troubled /\ attached[e] = "gone"
  OBVIOUS
<1>2. Working' # None => record'[e] = "none" /\ object'[Working'].endpoints[e] = "none"
  BY <1>1 DEF Forgotten
<1>3. ASSUME NEW t \in Threads, task'[t] # None, task'[t].pc = "reconcile", e \notin task'[t].todo
      PROVE  record'[e] = "none" /\ object'[task'[t].o].endpoints[e] = "none"
  <2>1. task'[t] = task[t] => record[e] = "none" /\ object[task[t].o].endpoints[e] = "none"
    BY <1>1, <1>3 DEF Forgotten
  <2> QED
    BY <1>3, <2>1
<1> QED
  BY <1>2, <1>3

\* Where a creation goes on with an object it does not touch.
LEMMA UntouchedFrame ==
  ASSUME Untouched,
         \A t \in Threads : task'[t] # None /\ task'[t].pc \in Creating =>
           /\ task[t] # None /\ task[t].pc \in Creating
           /\ task'[t].o = task[t].o
           /\ task'[t].pc = "reconcile" <=> task[t].pc = "reconcile"
           /\ object'[task[t].o].endpoints = object[task[t].o].endpoints,
         \A e \in Endpoints : record'[e] = record[e] \/ record[e] \notin veths' \ lost',
         veths' \ lost' \subseteq veths \ lost,
         ~loaded' /\ ~ready' =>
           \/ byFlannel' = None /\ \A t \in Threads : task'[t] = None
           \/ /\ ~loaded /\ ~ready /\ byFlannel' = byFlannel
              /\ \A t \in Threads : task'[t] = task[t]
  PROVE  Untouched'
<1>1. ~loaded' /\ ~ready' => byFlannel' = None /\ \A t \in Threads : task'[t] = None
  BY DEF Untouched
<1>2. ASSUME NEW t \in Threads, task'[t] # None, task'[t].pc \in Creating, NEW e \in Endpoints
      PROVE  IF task'[t].pc # "reconcile" THEN object'[task'[t].o].endpoints[e] = "none"
             ELSE object'[task'[t].o].endpoints[e] \in veths' \ lost' =>
                    record'[e] = object'[task'[t].o].endpoints[e]
  <2>1. /\ task[t] # None /\ task[t].pc \in Creating
        /\ task'[t].o = task[t].o
        /\ task'[t].pc = "reconcile" <=> task[t].pc = "reconcile"
        /\ object'[task[t].o].endpoints = object[task[t].o].endpoints
    BY <1>2
  <2>2. CASE task[t].pc # "reconcile"
    BY <2>1, <2>2 DEF Untouched
  <2>3. CASE task[t].pc = "reconcile"
    <3>1. object[task[t].o].endpoints[e] \in veths \ lost => record[e] = object[task[t].o].endpoints[e]
      BY <2>1, <2>3 DEF Untouched
    <3> QED
      BY <2>1, <2>3, <3>1
  <2> QED
    BY <2>2, <2>3
<1> QED
  BY <1>1, <1>2 DEF Untouched

\* A task of a creation needs Docker's data or its calls.
LEMMA TaskHeard ==
  ASSUME Untouched, NEW t \in Threads, task[t] # None
  PROVE  loaded \/ ready
BY DEF Untouched

\* The steps of a creation before endpoints are loaded.
LEMMA CreationEndings ==
  ASSUME TypeOK, Structure, Untouched, Traced, VethsTracked, Forgotten, NEW t \in Threads,
         \/ ReadConfig(t) \/ CommitConfig(t) \/ RereadConfig(t) \/ StartFlannel(t)
         \/ LoadFlannelConfig(t) \/ (LoadEndpoints(t) /\ Fails(t))
  PROVE  (Untouched /\ Traced /\ VethsTracked /\ Forgotten)'
<1> USE DEF dockerVars, nodeVars, mapVars, etcdVars, kernelVars, historyVars, sweepVars
<1>1. Creation(t)
  BY DEF Creation
<1>2. UNCHANGED <<attached, record, veths, troubled, lost, loaded, ready>>
  BY DEF ReadConfig, CommitConfig, RereadConfig, StartFlannel, LoadFlannelConfig, LoadEndpoints
<1>2a. /\ Working' = Working /\ (Working # None => object'[Working] = object[Working])
       /\ task[t] # None /\ task[t].pc \in Creating
       /\ \A u \in Threads \ {t} :
            task'[u] = task[u] /\ (task[u] # None => object'[task[u].o] = object[task[u].o])
       /\ task'[t] # None => task'[t].o = task[t].o /\ task'[t].pc \in Creating
  BY <1>1, CreationShape, CreationKeeps, CreationApart
<1>3. /\ task[t] \in Tasks /\ task[t].o \in Objects /\ object[task[t].o] \in Network
      /\ object[task[t].o] # None
  BY <1>2a, FlannelNetworkAssumption DEF TypeOK, Structure, Tasks
<1>4. task[t].pc # "reconcile"
  BY DEF ReadConfig, CommitConfig, RereadConfig, StartFlannel, LoadFlannelConfig, LoadEndpoints, At
<1>5. \A e \in Endpoints : object[task[t].o].endpoints[e] = "none"
  BY <1>2a, <1>4 DEF Untouched
<1>6. \/ /\ task' = [task EXCEPT ![t] = None]
         /\ object' = [object EXCEPT ![task[t].o] = None]
      \/ /\ \E pc \in {"start", "commit", "reread", "load", "endpoints"} :
              task' = [task EXCEPT ![t].pc = pc]
         /\ object' = object \/ object' = [object EXCEPT ![task[t].o].process = TRUE]
  <2>1. CASE Fails(t)
    BY <2>1 DEF Fails
  <2>2. CASE ~Fails(t)
    BY <2>2 DEF ReadConfig, CommitConfig, RereadConfig, StartFlannel, LoadFlannelConfig, Goto
  <2> QED
    BY <2>1, <2>2
<1>6a. task'[t] # None => task'[t].pc # "reconcile"
  BY <1>3, <1>6 DEF TypeOK, Tasks
<1>7. /\ \A o \in Objects \ {task[t].o} : object'[o] = object[o]
      /\ object'[task[t].o] = None \/ object'[task[t].o].endpoints = object[task[t].o].endpoints
      /\ task'[t] # None => object'[task[t].o].endpoints = object[task[t].o].endpoints
  BY <1>3, <1>6 DEF TypeOK, Network
<1>8. \A o \in Objects, e \in Endpoints :
        object'[o] # None /\ object'[o].endpoints[e] \in Veths =>
          object[o] # None /\ object[o].endpoints[e] = object'[o].endpoints[e]
  BY <1>3, <1>7
<1>9. \A o \in Objects, e \in Endpoints :
        object[o] # None /\ object[o].endpoints[e] \in Veths =>
          object'[o] # None /\ object'[o].endpoints[e] = object[o].endpoints[e]
  BY <1>5, <1>7, FlannelNetworkAssumption
<1>10. veths' \subseteq Veths
  BY <1>2 DEF TypeOK
<1>11. Traced' /\ VethsTracked'
  BY <1>2, <1>8, <1>9, <1>10, TracedFrame
<1>12. Untouched'
  <2>1. loaded \/ ready
    BY <1>2a, TaskHeard
  <2> QED
    BY <1>2, <1>2a, <1>4, <1>6a, <1>7, <2>1, UntouchedFrame
<1>13. Forgotten'
  BY <1>2, <1>2a, <1>6a, ForgottenFrame
<1> QED
  BY <1>11, <1>12, <1>13

\* The object learns what is recorded.
LEMMA LoadEndings ==
  ASSUME TypeOK, Structure, Untouched, Traced, VethsTracked, Forgotten, NEW t \in Threads,
         LoadEndpoints(t), ~Fails(t)
  PROVE  (Untouched /\ Traced /\ VethsTracked /\ Forgotten)'
<1> USE DEF dockerVars, nodeVars, mapVars, etcdVars, kernelVars, historyVars, sweepVars
<1>1. /\ object' = [object EXCEPT ![task[t].o].endpoints = record]
      /\ task' = [task EXCEPT ![t].pc = "reconcile",
                             ![t].todo = {e \in Endpoints : record[e] # "none"}]
      /\ UNCHANGED <<attached, record, veths, troubled, lost, loaded, ready, byFlannel>>
      /\ task[t] # None /\ task[t].pc = "endpoints"
  BY DEF LoadEndpoints, At
<1>2. /\ Working' = Working /\ (Working # None => object'[Working] = object[Working])
      /\ task[t].pc \in Creating
      /\ \A u \in Threads \ {t} :
           task'[u] = task[u] /\ (task[u] # None => object'[task[u].o] = object[task[u].o])
  BY CreationApart DEF Creation
<1>3. /\ task[t] \in Tasks /\ task[t].o \in Objects /\ object[task[t].o] \in Network
      /\ object[task[t].o] # None
  BY <1>1, WorkingObject
<1>4. /\ task'[t].pc = "reconcile" /\ task'[t].o = task[t].o
      /\ task'[t].todo = {e \in Endpoints : record[e] # "none"}
  BY <1>1, <1>3 DEF TypeOK, Tasks
<1>5. /\ object'[task[t].o].endpoints = record
      /\ \A o \in Objects \ {task[t].o} : object'[o] = object[o]
  BY <1>1, <1>3 DEF TypeOK, Network
<1>6. \A e \in Endpoints : object[task[t].o].endpoints[e] = "none"
  BY <1>1, <1>2 DEF Untouched
<1>7. Traced' /\ VethsTracked'
  <2>1. \A o \in Objects, e \in Endpoints :
          object'[o] # None /\ object'[o].endpoints[e] \in Veths =>
            \/ object[o] # None /\ object[o].endpoints[e] = object'[o].endpoints[e]
            \/ record[e] = object'[o].endpoints[e]
    BY <1>5
  <2>2. \A o \in Objects, e \in Endpoints :
          object[o] # None /\ object[o].endpoints[e] \in Veths =>
            object'[o] # None /\ object'[o].endpoints[e] = object[o].endpoints[e]
    BY <1>5, <1>6, FlannelNetworkAssumption
  <2>3. veths' \subseteq Veths
    BY <1>1 DEF TypeOK
  <2> QED
    BY <1>1, <2>1, <2>2, <2>3, TracedFrame
<1>8. Untouched'
  <2>1. ASSUME NEW u \in Threads, task'[u] # None, task'[u].pc \in Creating, NEW e \in Endpoints
        PROVE  IF task'[u].pc # "reconcile" THEN object'[task'[u].o].endpoints[e] = "none"
               ELSE object'[task'[u].o].endpoints[e] \in veths' \ lost' =>
                      record'[e] = object'[task'[u].o].endpoints[e]
    <3>1. CASE u = t
      BY <1>1, <1>4, <1>5, <3>1
    <3>2. CASE u # t
      <4>1. /\ task'[u] = task[u] /\ object'[task[u].o] = object[task[u].o]
            /\ task[u] # None /\ task[u].pc \in Creating
        BY <1>2, <2>1, <3>2
      <4>2. IF task[u].pc # "reconcile" THEN object[task[u].o].endpoints[e] = "none"
            ELSE object[task[u].o].endpoints[e] \in veths \ lost =>
                   record[e] = object[task[u].o].endpoints[e]
        BY <4>1 DEF Untouched
      <4> QED
        BY <1>1, <4>1, <4>2
    <3> QED
      BY <3>1, <3>2
  <2>2. loaded \/ ready
    BY <1>1, TaskHeard
  <2> QED
    BY <1>1, <2>1, <2>2 DEF Untouched
<1>9. Forgotten'
  <2>1. \A e \in Endpoints \ troubled' : attached'[e] = "gone" /\ e \notin task'[t].todo =>
          record'[e] = "none" /\ object'[task'[t].o].endpoints[e] = "none"
    BY <1>1, <1>4, <1>5
  <2>2. ASSUME NEW u \in Threads, task'[u] # None
        PROVE  \/ /\ task'[u] = task[u]
                  /\ \A e \in Endpoints \ troubled' :
                       attached'[e] = "gone" /\ record[e] = "none"
                         /\ object[task[u].o].endpoints[e] = "none"
                       => record'[e] = "none" /\ object'[task[u].o].endpoints[e] = "none"
               \/ u = t
    BY <1>1, <1>2, <2>2
  <2>3. Working' # None =>
          \A e \in Endpoints : object[Working].endpoints[e] = "none" =>
                               object'[Working].endpoints[e] = "none"
    BY <1>2
  <2>4. /\ UNCHANGED <<troubled, attached, record>> /\ Working' \in {Working, None}
    BY <1>1, <1>2
  <2> QED
    BY <2>1, <2>2, <2>3, <2>4, ForgottenFrame
<1> QED
  BY <1>7, <1>8, <1>9

\* The first and the last step of a creation.
LEMMA KeyEndings ==
  ASSUME TypeOK, Structure, Lifecycle, Untouched, Traced, VethsTracked, Forgotten, NEW t \in Threads,
         AlreadyThere(t) \/ NewNetwork(t) \/ Created(t)
  PROVE  (Untouched /\ Traced /\ VethsTracked /\ Forgotten)'
<1> USE DEF dockerVars, nodeVars, mapVars, etcdVars, kernelVars, historyVars, sweepVars
<1>1. UNCHANGED <<attached, record, veths, troubled, lost, loaded, ready>> /\ (loaded \/ ready)
  <2>1. UNCHANGED <<attached, record, veths, troubled, lost, loaded, ready>>
    BY DEF AlreadyThere, NewNetwork, Created, Asked
  <2>2. CASE Asked(t)
    <3>1. ready \/ events # <<>>
      BY <2>2 DEF Asked, Announced
    <3> QED
      BY <2>1, <3>1 DEF Lifecycle
  <2>3. CASE Created(t)
    BY <2>1, <2>3, TaskHeard DEF Created, At
  <2> QED
    BY <2>2, <2>3 DEF AlreadyThere, NewNetwork
<1>2. CASE AlreadyThere(t)
  <2>1. UNCHANGED <<object, task>> /\ Working' = Working
    BY <1>2, WorkingKeeps DEF AlreadyThere
  <2>2. Traced' /\ VethsTracked'
    BY <1>1, <2>1, TracedFrame
  <2>3. Untouched'
    BY <1>1, <2>1 DEF Untouched
  <2>4. Forgotten'
    BY <1>1, <2>1, ForgottenFrame
  <2> QED
    BY <2>2, <2>3, <2>4
<1>3. CASE NewNetwork(t)
  <2>1. Working' = Working
    BY <1>3, WorkingKeeps DEF NewNetwork
  <2>2. CASE UNCHANGED <<object, task>>
    <3>1. Traced' /\ VethsTracked'
      BY <1>1, <2>2, TracedFrame
    <3>2. Untouched'
      BY <1>1, <2>2 DEF Untouched
    <3>3. Forgotten'
      BY <1>1, <2>1, <2>2, ForgottenFrame
    <3> QED
      BY <3>1, <3>2, <3>3
  <2>3. ASSUME NEW o \in Objects, NEW v \in VNIs, object[o] = None,
               object' = [object EXCEPT ![o] =
                  [vni |-> v, process |-> FALSE, endpoints |-> [e \in Endpoints |-> "none"]]],
               task' = [task EXCEPT ![t] = Task("config", o)]
        PROVE  (Untouched /\ Traced /\ VethsTracked /\ Forgotten)'
    <3>1. /\ \A e \in Endpoints : object'[o].endpoints[e] = "none"
          /\ \A p \in Objects \ {o} : object'[p] = object[p]
      BY <2>3 DEF TypeOK
    <3>2. /\ task'[t].pc = "config" /\ task'[t].o = o
          /\ \A u \in Threads \ {t} : task'[u] = task[u]
      BY <2>3 DEF TypeOK, Task
    <3>2a. /\ Working # None => object'[Working] = object[Working]
           /\ \A u \in Threads \ {t} : task'[u] # None =>
                task'[u] = task[u] /\ object'[task[u].o] = object[task[u].o]
      BY <2>3, <3>1, <3>2, WorkingObject
    <3>3. \A p \in Objects, e \in Endpoints :
            object'[p] # None /\ object'[p].endpoints[e] \in Veths =>
              object[p] # None /\ object[p].endpoints[e] = object'[p].endpoints[e]
      BY <3>1, FlannelNetworkAssumption
    <3>4. \A p \in Objects, e \in Endpoints : object[p] # None =>
            object'[p] # None /\ object'[p].endpoints[e] = object[p].endpoints[e]
      BY <2>3, <3>1
    <3>5. Traced' /\ VethsTracked'
      BY <1>1, <3>3, <3>4, TracedFrame
    <3>6. Untouched'
      BY <1>1, <3>1, <3>2, <3>2a DEF Untouched
    <3>7. Forgotten'
      BY <1>1, <2>1, <3>2, <3>2a, ForgottenFrame
    <3> QED
      BY <3>5, <3>6, <3>7
  <2> QED
    BY <1>3, <2>2, <2>3 DEF NewNetwork
<1>4. CASE Created(t)
  <2>1. /\ UNCHANGED object
        /\ task[t] # None /\ task[t].pc = "reconcile" /\ task[t].todo = {}
    BY <1>4 DEF Created, At
  <2>1a. Working' \in {Working, task[t].o}
    BY <1>4 DEF Created, Set, Working, Found
  <2>2. \A u \in Threads : task'[u] # None => task'[u] = task[u]
    BY <1>4 DEF Created, TypeOK
  <2>3. Traced' /\ VethsTracked'
    BY <1>1, <2>1, TracedFrame
  <2>4. Untouched'
    BY <1>1, <2>1, <2>2 DEF Untouched
  <2>5. Forgotten'
    BY <1>1, <2>1, <2>1a, <2>2 DEF Forgotten
  <2> QED
    BY <2>3, <2>4, <2>5
<1> QED
  BY <1>2, <1>3, <1>4

\* Reconciling an endpoint: a container's is kept, another one deleted.
LEMMA ReconcileEndings ==
  ASSUME TypeOK, Structure, Untouched, Traced, VethsTracked, Forgotten, NEW t \in Threads,
         NEW e \in Endpoints, Reconcile(t, e)
  PROVE  (Untouched /\ Traced /\ VethsTracked /\ Forgotten)'
<1> USE DEF dockerVars, nodeVars, mapVars, etcdVars, kernelVars, historyVars, sweepVars
<1>1. /\ UNCHANGED <<attached, lost>>
      /\ Working' = Working /\ (Working # None => object'[Working] = object[Working])
      /\ task[t] # None /\ task[t].pc = "reconcile" /\ e \in task[t].todo
      /\ task[t].o \in Objects /\ object[task[t].o] \in Network /\ object[task[t].o] # None
      /\ object[task[t].o].endpoints[e] \in Data
      /\ task'[t] # None /\ task'[t].pc = "reconcile" /\ task'[t].o = task[t].o
      /\ task'[t].todo = task[t].todo \ {e}
      /\ \A u \in Threads \ {t} :
           task'[u] = task[u] /\ (task[u] # None => object'[task[u].o] = object[task[u].o])
  BY ReconcileShape
<1>2. /\ task[t].pc \in Creating /\ UNCHANGED <<loaded, ready, byFlannel>>
      /\ loaded \/ ready
  BY <1>1, TaskHeard DEF Creating, Reconcile
<1>3. \A u \in Threads : task'[u] # None =>
        u = t \/ (task'[u] = task[u] /\ object'[task[u].o] = object[task[u].o])
  BY <1>1
<1>4. CASE MayBeListed(e) /\ UNCHANGED <<object, record, veths, troubled, overlooked>>
  <2>1. Traced' /\ VethsTracked'
    BY <1>1, <1>4, TracedFrame
  <2>2. \A u \in Threads : task'[u] # None /\ task'[u].pc \in Creating =>
          /\ task[u] # None /\ task[u].pc \in Creating
          /\ task'[u].o = task[u].o
          /\ task'[u].pc = "reconcile" <=> task[u].pc = "reconcile"
    BY <1>1, <1>2, <1>3
  <2>3. Untouched'
    BY <1>1, <1>2, <1>4, <2>2, UntouchedFrame
  <2>4. Forgotten'
    <3>1. \A f \in Endpoints \ troubled' : attached'[f] = "gone" /\ f \notin task'[t].todo =>
            record'[f] = "none" /\ object'[task'[t].o].endpoints[f] = "none"
      <4> SUFFICES ASSUME NEW f \in Endpoints \ troubled', attached'[f] = "gone",
                          f \notin task'[t].todo
                   PROVE  record'[f] = "none" /\ object'[task'[t].o].endpoints[f] = "none"
        OBVIOUS
      <4>1. f \in Endpoints \ troubled /\ attached[f] = "gone"
        BY <1>1, <1>4
      <4>2. f # e
        BY <1>4, <4>1 DEF MayBeListed, Listed
      <4>3. f \notin task[t].todo
        BY <1>1, <4>2
      <4>4. record[f] = "none" /\ object[task[t].o].endpoints[f] = "none"
        BY <1>1, <4>1, <4>3 DEF Forgotten
      <4> QED
        BY <1>1, <1>4, <4>4
    <3> QED
      BY <1>1, <1>3, <1>4, <3>1, ForgottenFrame
  <2> QED
    BY <2>1, <2>3, <2>4
<1>5. CASE /\ object' = [object EXCEPT ![task[t].o].endpoints[e] = "none"]
           /\ \E r \in DeleteResults(e, object[task[t].o].endpoints[e]) :
                /\ veths' = r.veths /\ troubled \subseteq troubled'
                /\ ~r.done => e \in troubled'
                /\ record'[e] = r.record
                /\ \A f \in Endpoints \ {e} : record'[f] = record[f]
  <2>1. PICK r \in DeleteResults(e, object[task[t].o].endpoints[e]) :
          /\ veths' = r.veths /\ troubled \subseteq troubled'
          /\ ~r.done => e \in troubled'
          /\ record'[e] = r.record
          /\ \A f \in Endpoints \ {e} : record'[f] = record[f]
    BY <1>5
  <2>2. object[task[t].o].endpoints[e] \in Veths /\ record[e] \in Veths =>
          record[e] = object[task[t].o].endpoints[e]
    BY <1>1 DEF Traced
  <2>3. /\ r.record \in {record[e], "none", "detached"} /\ r.veths \subseteq veths
        /\ r.record = record[e] \/ record[e] \notin r.veths
        /\ r.done => r.record = "none"
    BY <1>1, <2>1, <2>2, DeleteShape, DeletionForgetsDeleted
  <2>4. /\ object'[task[t].o].endpoints[e] = "none" /\ object'[task[t].o] # None
        /\ \A f \in Endpoints \ {e} :
             object'[task[t].o].endpoints[f] = object[task[t].o].endpoints[f]
        /\ \A o \in Objects \ {task[t].o} : object'[o] = object[o]
    BY <1>1, <1>5, EndpointForgotten
  <2>5. \A f \in Endpoints : /\ record'[f] \in {record[f], "none", "detached"}
                             /\ record'[f] = record[f] \/ record[f] \notin veths' \ lost'
    BY <2>1, <2>3
  <2>6. veths' \ lost' \subseteq veths \ lost
    BY <1>1, <2>1, <2>3
  <2>7. \A f \in Endpoints : object[task[t].o].endpoints[f] \in veths \ lost =>
          record[f] = object[task[t].o].endpoints[f]
    BY <1>1, <1>2 DEF Untouched
  <2>8. Traced' /\ VethsTracked'
    <3>1. \A o \in Objects, f \in Endpoints :
            object'[o] # None /\ object'[o].endpoints[f] \in Veths =>
              object[o] # None /\ object[o].endpoints[f] = object'[o].endpoints[f]
      BY <1>1, <2>4, FlannelNetworkAssumption
    <3>2. \A o \in Objects, f \in Endpoints :
            object[o] # None /\ object[o].endpoints[f] \in veths' \ lost' =>
              \/ object'[o] # None /\ object'[o].endpoints[f] = object[o].endpoints[f]
              \/ \E g \in Endpoints : record'[g] = object[o].endpoints[f]
      <4> SUFFICES ASSUME NEW o \in Objects, NEW f \in Endpoints, object[o] # None,
                          object[o].endpoints[f] \in veths' \ lost'
                   PROVE  \/ object'[o] # None /\ object'[o].endpoints[f] = object[o].endpoints[f]
                          \/ \E g \in Endpoints : record'[g] = object[o].endpoints[f]
        OBVIOUS
      <4>1. CASE o = task[t].o /\ f = e
        <5>1. record[f] = object[o].endpoints[f]
          BY <2>6, <2>7, <4>1
        <5>2. record'[f] = record[f]
          BY <2>5, <5>1
        <5> QED
          BY <5>1, <5>2
      <4>2. CASE ~(o = task[t].o /\ f = e)
        BY <2>4, <4>2
      <4> QED
        BY <4>1, <4>2
    <3> QED
      BY <1>1, <2>5, <2>6, <3>1, <3>2, TracedFrame
  <2>9. Untouched'
    <3>1. ASSUME NEW u \in Threads, task'[u] # None, task'[u].pc \in Creating, NEW f \in Endpoints
          PROVE  IF task'[u].pc # "reconcile" THEN object'[task'[u].o].endpoints[f] = "none"
                 ELSE object'[task'[u].o].endpoints[f] \in veths' \ lost' =>
                        record'[f] = object'[task'[u].o].endpoints[f]
      <4>1. CASE u = t
        <5>1. task'[u].pc = "reconcile" /\ task'[u].o = task[t].o
          BY <1>1, <4>1
        <5>2. CASE f = e
          <6>1. "none" \notin veths'
            BY <2>1, <2>3, FlannelNetworkAssumption DEF TypeOK
          <6> QED
            BY <2>4, <5>1, <5>2, <6>1
        <5>3. CASE f # e
          BY <2>1, <2>4, <2>6, <2>7, <5>1, <5>3
        <5> QED
          BY <5>2, <5>3
      <4>2. CASE u # t
        <5>1. /\ task'[u] = task[u] /\ object'[task[u].o] = object[task[u].o]
              /\ task[u] # None /\ task[u].pc \in Creating
          BY <1>1, <3>1, <4>2
        <5>2. CASE task[u].pc # "reconcile"
          BY <5>1, <5>2 DEF Untouched
        <5>3. CASE task[u].pc = "reconcile"
          <6>1. object[task[u].o].endpoints[f] \in veths \ lost =>
                  record[f] = object[task[u].o].endpoints[f]
            BY <5>1, <5>3 DEF Untouched
          <6> QED
            BY <2>5, <2>6, <5>1, <5>3, <6>1
        <5> QED
          BY <5>2, <5>3
      <4> QED
        BY <4>1, <4>2
    <3> QED
      BY <1>2, <3>1 DEF Untouched
  <2>10. Forgotten'
    <3>1. ASSUME NEW f \in Endpoints \ troubled', attached'[f] = "gone", f \notin task'[t].todo
          PROVE  record'[f] = "none" /\ object'[task'[t].o].endpoints[f] = "none"
      <4>1. CASE f = e
        <5>1. r.done
          BY <2>1, <3>1, <4>1
        <5> QED
          BY <1>1, <2>1, <2>3, <2>4, <4>1, <5>1
      <4>2. CASE f # e
        <5>1. f \in Endpoints \ troubled /\ attached[f] = "gone" /\ f \notin task[t].todo
          BY <1>1, <2>1, <3>1, <4>2
        <5>2. record[f] = "none" /\ object[task[t].o].endpoints[f] = "none"
          BY <1>1, <5>1 DEF Forgotten
        <5> QED
          BY <1>1, <2>1, <2>4, <4>2, <5>2
      <4> QED
        BY <4>1, <4>2
    <3>2. \A f \in Endpoints \ troubled' : record[f] = "none" => record'[f] = "none"
      BY <2>1, <2>3
    <3> QED
      BY <1>1, <1>3, <2>1, <3>1, <3>2, ForgottenFrame
  <2> QED
    BY <2>8, <2>9, <2>10
<1> QED
  BY <1>4, <1>5, ReconcileShape

\* An answered call for an endpoint: what it forgets is deleted, and when it is the last one
\* nothing is left, or there is trouble.
LEMMA AnsweredEndings ==
  ASSUME TypeOK, Structure, Untouched, Traced, VethsTracked, Forgotten,
         NEW e \in Endpoints, NEW r \in Results,
         Called, byDocker # None, Answered(e, r), EndpointRest,
         NEW s \in {"created", "left", "gone"}, Attached(e, s),
         s = "created" => attached[e] \in {"none", "created"},
         r.memory \in {object[byDocker].endpoints[e], "none", "detached"},
         r.record \in {record[e], "none", "detached"}, r.veths \subseteq veths,
         r.memory = object[byDocker].endpoints[e] \/ object[byDocker].endpoints[e] \notin r.veths,
         r.record = record[e] \/ record[e] \notin r.veths,
         s = "gone" /\ r.done => r.memory = "none" /\ r.record = "none"
  PROVE  (Untouched /\ Traced /\ VethsTracked /\ Forgotten)'
<1> USE DEF dockerVars, nodeVars, mapVars, etcdVars, kernelVars, historyVars, sweepVars
<1>1. /\ UNCHANGED <<byFlannel, byDocker, task, lost>> /\ byDocker \in Objects
      /\ Working = byDocker /\ Working' = byDocker
      /\ "none" \notin Veths /\ "detached" \notin Veths /\ veths \subseteq Veths
  BY CallsAlone, WorkingKeeps, FlannelNetworkAssumption DEF EndpointRest, TypeOK
<1>2. /\ object[byDocker] # None /\ object'[byDocker] # None
      /\ object'[byDocker].endpoints[e] = r.memory
      /\ \A f \in Endpoints \ {e} :
           object'[byDocker].endpoints[f] = object[byDocker].endpoints[f]
      /\ \A o \in Objects \ {byDocker} : object'[o] = object[o]
  <2>1. /\ object[byDocker] \in Network /\ object'[byDocker] \in Network
        /\ object'[byDocker] = [object[byDocker] EXCEPT !.endpoints[e] = r.memory]
        /\ \A o \in Objects \ {byDocker} : object'[o] = object[o]
    BY AnsweredStep
  <2> QED
    BY <2>1, FlannelNetworkAssumption DEF Network
<1>3. /\ record'[e] = r.record /\ veths' = r.veths
      /\ \A f \in Endpoints \ {e} : record'[f] = record[f]
      /\ troubled' = IF r.done THEN troubled ELSE troubled \cup {e}
  BY DEF Answered, TypeOK
<1>4. /\ attached'[e] = s
      /\ \A f \in Endpoints \ {e} : attached'[f] = attached[f]
  BY DEF Attached, TypeOK
<1>5. \A t \in Threads : task[t] # None => task[t].pc \notin Creating
  BY CallsAlone
<1>6. Untouched'
  BY <1>1, <1>5 DEF Untouched, Called, EndpointRest
<1>7. Traced' /\ VethsTracked'
  <2>1. \A f \in Endpoints : /\ record'[f] \in {record[f], "none", "detached"}
                             /\ record'[f] = record[f] \/ record[f] \notin veths' \ lost'
    BY <1>3
  <2>2. \A f \in Endpoints : attached'[f] \in {"none", "created"} =>
                             attached[f] \in {"none", "created"}
    BY <1>4
  <2>3. \A o \in Objects, f \in Endpoints :
          object'[o] # None /\ object'[o].endpoints[f] \in Veths =>
            object[o] # None /\ object[o].endpoints[f] = object'[o].endpoints[f]
    BY <1>1, <1>2
  <2>4. \A o \in Objects, f \in Endpoints :
          object[o] # None /\ object[o].endpoints[f] \in veths' \ lost' =>
            object'[o] # None /\ object'[o].endpoints[f] = object[o].endpoints[f]
    BY <1>2, <1>3
  <2>5. veths' \ lost' \subseteq veths \ lost
    BY <1>1, <1>3
  <2> QED
    BY <2>1, <2>2, <2>3, <2>4, <2>5, TracedFrame
<1>8. Forgotten'
  <2>1. \A t \in Threads : task'[t] # None => task'[t].pc # "reconcile"
    BY <1>1, <1>5 DEF Creating
  <2>2. ASSUME NEW f \in Endpoints \ troubled', attached'[f] = "gone"
        PROVE  record'[f] = "none" /\ object'[Working'].endpoints[f] = "none"
    <3>1. CASE f = e
      <4>1. r.done /\ s = "gone"
        BY <1>3, <1>4, <2>2, <3>1
      <4> QED
        BY <1>1, <1>2, <1>3, <3>1, <4>1
    <3>2. CASE f # e
      <4>1. f \in Endpoints \ troubled /\ attached[f] = "gone"
        BY <1>3, <1>4, <2>2, <3>2
      <4>2. record[f] = "none" /\ object[Working].endpoints[f] = "none"
        BY <1>1, <4>1 DEF Forgotten
      <4> QED
        BY <1>1, <1>2, <1>3, <3>2, <4>2
    <3> QED
      BY <3>1, <3>2
  <2> QED
    BY <2>1, <2>2 DEF Forgotten
<1> QED
  BY <1>6, <1>7, <1>8

\* A step that changes no data: when it is the last one there is trouble, or no network.
LEMMA RefusedEndings ==
  ASSUME TypeOK, Structure, Untouched, Traced, VethsTracked, Forgotten, NEW e \in Endpoints,
         UNCHANGED <<object, record, veths>>, EndpointRest, troubled \subseteq troubled',
         NEW s \in {"running", "gone", "left"}, Attached(e, s),
         s = "gone" => \/ e \in troubled'
                       \/ byFlannel = None /\ \A t \in Threads : task[t] = None
  PROVE  (Untouched /\ Traced /\ VethsTracked /\ Forgotten)'
<1> USE DEF dockerVars, nodeVars, mapVars, etcdVars, kernelVars, historyVars, sweepVars
<1>1. /\ UNCHANGED <<task, object, record, veths, lost, loaded, ready, byFlannel>>
      /\ Working' = Working
  BY WorkingKeeps DEF EndpointRest
<1>2. attached'[e] = s /\ \A f \in Endpoints \ {e} : attached'[f] = attached[f]
  BY DEF Attached, TypeOK
<1>3. Traced' /\ VethsTracked'
  BY <1>1, <1>2, TracedFrame
<1>4. Untouched'
  BY <1>1 DEF Untouched
<1>5. Forgotten'
  <2>1. CASE byFlannel = None /\ \A t \in Threads : task[t] = None
    BY <1>1, <2>1 DEF Forgotten, Structure, Working, Found
  <2>2. CASE e \in troubled' \/ s # "gone"
    <3>1. \A f \in Endpoints \ troubled' : attached'[f] = "gone" =>
            f \in Endpoints \ troubled /\ attached[f] = "gone"
      BY <1>2, <2>2
    <3> QED
      BY <1>1, <3>1 DEF Forgotten
  <2> QED
    BY <2>1, <2>2
<1> QED
  BY <1>3, <1>4, <1>5

\* A container gets interfaces: its endpoint had none before, and nobody knows the new ones.
LEMMA JoinEndings ==
  ASSUME TypeOK, Structure, Untouched, Traced, VethsTracked, Forgotten, NEW e \in Endpoints,
         Called, byDocker # None, attached[e] = "created", EndpointRest,
         NEW v \in Veths, Fresh(v), NEW done \in BOOLEAN, NEW q \in {record[e], v},
         Answered(e, Result(done, v, q, veths \cup {v})),
         NEW s \in {"joined", "left"}, Attached(e, s)
  PROVE  (Untouched /\ Traced /\ VethsTracked /\ Forgotten)'
<1> USE DEF dockerVars, nodeVars, mapVars, etcdVars, kernelVars, historyVars, sweepVars
<1>1. /\ UNCHANGED <<byFlannel, byDocker, task, lost>> /\ byDocker \in Objects
      /\ Working = byDocker /\ Working' = byDocker
      /\ veths \subseteq Veths /\ record[e] \in Data
  BY CallsAlone, WorkingKeeps DEF EndpointRest, TypeOK
<1> DEFINE r == Result(done, v, q, veths \cup {v})
<1>2. r \in Results /\ r.memory = v /\ r.record = q /\ r.veths = veths \cup {v} /\ r.done = done
  BY <1>1 DEF Result, Results, Data
<1>3. Answered(e, r)
  OBVIOUS
<1> HIDE DEF r
<1>4. /\ object[byDocker] # None /\ object'[byDocker] # None
      /\ object'[byDocker].endpoints[e] = v
      /\ \A f \in Endpoints \ {e} :
           object'[byDocker].endpoints[f] = object[byDocker].endpoints[f]
      /\ \A o \in Objects \ {byDocker} : object'[o] = object[o]
  <2>1. /\ object[byDocker] \in Network /\ object'[byDocker] \in Network
        /\ object'[byDocker] = [object[byDocker] EXCEPT !.endpoints[e] = v]
        /\ \A o \in Objects \ {byDocker} : object'[o] = object[o]
    BY <1>2, <1>3, AnsweredStep
  <2> QED
    BY <2>1, FlannelNetworkAssumption DEF Network
<1>5. /\ record'[e] = q /\ veths' = veths \cup {v}
      /\ \A f \in Endpoints \ {e} : record'[f] = record[f]
      /\ troubled \subseteq troubled'
  BY <1>2, <1>3 DEF Answered, TypeOK
<1>6. /\ attached'[e] = s /\ \A f \in Endpoints \ {e} : attached'[f] = attached[f]
  BY DEF Attached, TypeOK
<1>7. \A t \in Threads : task[t] # None => task[t].pc \notin Creating
  BY CallsAlone
<1>8. record[e] \notin Veths /\ \A o \in Objects : object[o] # None => object[o].endpoints[e] \notin Veths
  BY DEF Traced
<1>9. Untouched'
  BY <1>1, <1>7 DEF Untouched, Called, EndpointRest
<1>10. Traced'
  <2> SUFFICES ASSUME NEW f \in Endpoints
               PROVE  /\ attached'[f] \in {"none", "created"} => record'[f] \notin Veths
                      /\ \A o \in Objects : object'[o] # None /\ object'[o].endpoints[f] \in Veths =>
                           /\ attached'[f] \notin {"none", "created"}
                           /\ record'[f] \in Veths => record'[f] = object'[o].endpoints[f]
    BY DEF Traced
  <2>1. CASE f = e
    BY <1>4, <1>5, <1>6, <1>8, <2>1
  <2>2. CASE f # e
    <3>1. \A o \in Objects : object'[o] # None =>
            object[o] # None /\ object'[o].endpoints[f] = object[o].endpoints[f]
      BY <1>4, <2>2
    <3> QED
      BY <1>5, <1>6, <2>2, <3>1 DEF Traced
  <2> QED
    BY <2>1, <2>2
<1>11. VethsTracked'
  <2> SUFFICES ASSUME NEW w \in veths' \ lost'
               PROVE  \E f \in Endpoints :
                        record'[f] = w \/ \E o \in Objects : object'[o] # None /\ object'[o].endpoints[f] = w
    BY DEF VethsTracked
  <2>1. CASE w = v
    BY <1>1, <1>4, <2>1
  <2>2. CASE w # v
    <3>1. w \in veths \ lost /\ w \in Veths
      BY <1>1, <1>5, <2>2
    <3>2. PICK f \in Endpoints :
            record[f] = w \/ \E o \in Objects : object[o] # None /\ object[o].endpoints[f] = w
      BY <3>1 DEF VethsTracked
    <3>3. f # e
      BY <1>8, <3>1, <3>2
    <3>4. \A o \in Objects : object[o] # None =>
            object'[o] # None /\ object'[o].endpoints[f] = object[o].endpoints[f]
      BY <1>4, <3>3
    <3> QED
      BY <1>5, <3>2, <3>3, <3>4
  <2> QED
    BY <2>1, <2>2
<1>12. Forgotten'
  <2>1. \A t \in Threads : task'[t] # None => task'[t].pc # "reconcile"
    BY <1>1, <1>7 DEF Creating
  <2>2. ASSUME NEW f \in Endpoints \ troubled', attached'[f] = "gone"
        PROVE  record'[f] = "none" /\ object'[Working'].endpoints[f] = "none"
    <3>1. f # e /\ f \in Endpoints \ troubled /\ attached[f] = "gone"
      BY <1>5, <1>6, <2>2
    <3>2. record[f] = "none" /\ object[Working].endpoints[f] = "none"
      BY <1>1, <3>1 DEF Forgotten
    <3> QED
      BY <1>1, <1>4, <1>5, <3>1, <3>2
  <2> QED
    BY <2>1, <2>2 DEF Forgotten
<1> QED
  BY <1>9, <1>10, <1>11, <1>12

\* A call of Docker for an endpoint, or the end of a container that nobody hears.
LEMMA EndpointEndings ==
  ASSUME TypeOK, Structure, Untouched, Traced, VethsTracked, Forgotten,
         NEW e \in Endpoints, Endpoint(e)
  PROVE  (Untouched /\ Traced /\ VethsTracked /\ Forgotten)'
<1>1. /\ "none" \notin Veths /\ "detached" \notin Veths /\ veths \subseteq Veths
      /\ record[e] \in Data
  BY FlannelNetworkAssumption DEF TypeOK
<1>2. EndpointRest
  BY DEF Endpoint, CreateEndpoint, Join, Run, Leave, DeleteEndpoint, EndUnheard
<1>3. ASSUME Refused(e), NEW s \in {"gone", "left"}, Attached(e, s)
      PROVE  (Untouched /\ Traced /\ VethsTracked /\ Forgotten)'
  <2>1. UNCHANGED <<object, record, veths>> /\ troubled \subseteq troubled' /\ e \in troubled'
    BY <1>3 DEF Refused
  <2> QED
    BY <1>2, <1>3, <2>1, RefusedEndings
\* What the network of the map knows.
<1>4. ASSUME byDocker # None
      PROVE  /\ object[byDocker].endpoints[e] \in Data
             /\ object[byDocker].endpoints[e] \in Veths =>
                  /\ attached[e] \notin {"none", "created"}
                  /\ record[e] \in Veths => record[e] = object[byDocker].endpoints[e]
  <2>1. byDocker \in Objects /\ object[byDocker] \in Network /\ object[byDocker] # None
    BY <1>4, FlannelNetworkAssumption DEF TypeOK, Structure
  <2> QED
    BY <2>1 DEF Network, Traced
<1>5. CASE CreateEndpoint(e)
  <2>1. ASSUME Called, byDocker # None, attached[e] = "none",
               NEW done \in BOOLEAN, NEW m \in {"none", "detached"},
               NEW q \in {"none", "detached"}, NEW s \in {"created", "gone"}, s = "gone" => ~done,
               Answered(e, Result(done, m, q, veths)), Attached(e, s)
        PROVE  (Untouched /\ Traced /\ VethsTracked /\ Forgotten)'
    <3> DEFINE r == Result(done, m, q, veths)
    <3>1. r \in Results /\ r.memory = m /\ r.record = q /\ r.veths = veths /\ r.done = done
      BY <1>1, <2>1 DEF Result, Results, Data
    <3>2. Answered(e, r)
      BY <2>1
    <3> HIDE DEF r
    <3>3. object[byDocker].endpoints[e] \notin veths /\ record[e] \notin veths
      BY <1>1, <1>4, <2>1 DEF Traced
    <3> QED
      BY <1>2, <2>1, <3>1, <3>2, <3>3, AnsweredEndings
  <2> QED
    BY <1>3, <1>5, <2>1 DEF CreateEndpoint
<1>6. CASE Join(e)
  BY <1>2, <1>3, <1>6, JoinEndings DEF Join, Known
<1>7. CASE Leave(e)
  <2>1. CASE Known(e)
    <3>1. byDocker # None /\ Called
      BY <1>7, <2>1 DEF Known, Leave
    <3>2. PICK r \in LeaveResults(e, object[byDocker].endpoints[e]) :
            Answered(e, r) /\ Attached(e, "left")
      BY <1>7, <2>1 DEF Leave
    <3>3. /\ r \in Results
          /\ r.memory \in {object[byDocker].endpoints[e], "detached"}
          /\ r.record \in {record[e], "detached"}
          /\ r.veths \subseteq veths
      BY <1>4, <3>1, <3>2, LeaveShape
    <3>4. CASE object[byDocker].endpoints[e] \in Veths
      <4>1. /\ r.memory = object[byDocker].endpoints[e] \/ object[byDocker].endpoints[e] \notin r.veths
            /\ r.record = record[e] \/ record[e] \notin r.veths
        BY <1>4, <3>1, <3>2, <3>4, LeaveForgetsDeleted
      <4> QED
        BY <1>2, <3>1, <3>2, <3>3, <4>1, AnsweredEndings
    <3>5. CASE object[byDocker].endpoints[e] \notin Veths
      <4>1. r = Result(FALSE, object[byDocker].endpoints[e], record[e], veths)
        BY <1>1, <3>2, <3>5 DEF LeaveResults
      <4>2. r.memory = object[byDocker].endpoints[e] /\ r.record = record[e]
        BY <4>1 DEF Result
      <4> QED
        BY <1>2, <3>1, <3>2, <3>3, <4>2, AnsweredEndings
    <3> QED
      BY <3>4, <3>5
  <2> QED
    BY <1>3, <1>7, <2>1 DEF Leave
<1>8. CASE DeleteEndpoint(e)
  <2>1. CASE Known(e)
    <3>1. byDocker # None /\ Called
      BY <1>8, <2>1 DEF Known, DeleteEndpoint
    <3>2. PICK r \in DeleteResults(e, object[byDocker].endpoints[e]) :
            Answered(e, r) /\ Attached(e, "gone")
      BY <1>8, <2>1 DEF DeleteEndpoint
    <3>3. /\ r \in Results
          /\ r.memory \in {object[byDocker].endpoints[e], "none", "detached"}
          /\ r.record \in {record[e], "none", "detached"}
      BY <1>4, <3>1, <3>2, DeleteShape
    <3>4. /\ r.veths \subseteq veths
          /\ r.memory = object[byDocker].endpoints[e] \/ object[byDocker].endpoints[e] \notin r.veths
          /\ r.record = record[e] \/ record[e] \notin r.veths
          /\ r.done => r.memory = "none" /\ r.record = "none"
      BY <1>4, <3>1, <3>2, DeletionForgetsDeleted
    <3> QED
      BY <1>2, <3>1, <3>2, <3>3, <3>4, AnsweredEndings
  <2> QED
    BY <1>3, <1>8, <2>1 DEF DeleteEndpoint
<1>9. CASE EndUnheard(e)
  <2>1. /\ UNCHANGED <<object, record, veths>> /\ Attached(e, "gone")
        /\ troubled' = IF loaded THEN troubled \cup {e} ELSE troubled
        /\ ~ready
    BY <1>9 DEF EndUnheard
  <2>2. ~loaded => byFlannel = None /\ \A t \in Threads : task[t] = None
    BY <2>1 DEF Untouched
  <2> QED
    BY <1>2, <2>1, <2>2, RefusedEndings
<1>10. CASE Run(e)
  BY <1>2, <1>10, RefusedEndings DEF Run
<1> QED
  BY <1>5, <1>6, <1>7, <1>8, <1>9, <1>10 DEF Endpoint

\* A removal deletes or forgets what its network had, and forgets no interfaces without notice.
LEMMA RemovalEndings ==
  ASSUME TypeOK, Structure, Lifecycle, Untouched, Traced, VethsTracked, Forgotten, Delete
  PROVE  (Untouched /\ Traced /\ VethsTracked /\ Forgotten)'
<1> USE DEF dockerVars, nodeVars, mapVars, etcdVars, kernelVars, historyVars, sweepVars
<1>0. /\ "events" \in Threads /\ "docker" \in Threads /\ "docker" # "events"
      /\ Threads = {"events", "docker"}
      /\ \A pc \in Deleting : pc \notin Creating /\ pc # "reconcile"
  BY DEF Threads, Creating, Deleting
<1>1. UNCHANGED <<attached, troubled>>
  BY <1>0 DEF Delete, HandleNetworkRemoved, DeleteProcess, ReadRevision, DeleteConfig,
              CleanupInterfaces, CleanupEndpoint, RemoveNetwork, RemovalRest
<1>2. CASE HandleNetworkRemoved
  <2>1. CASE Conflict
    <3>1. /\ UNCHANGED <<record, veths>>
          /\ byFlannel' = None /\ byDocker' = None /\ \A t \in Threads : task'[t] = None
          /\ \A o \in Objects : object'[o] = None
          /\ lost' = lost \cup {v \in veths : \A e \in Endpoints : record[e] # v}
      BY <1>2, <2>1 DEF HandleNetworkRemoved, Down
    <3>2. \A v \in veths' \ lost' : v \in veths \ lost /\ \E f \in Endpoints : record'[f] = v
      BY <3>1
    <3>3. Traced' /\ VethsTracked'
      BY <1>1, <3>1, <3>2, TracedFrame
    <3>4. Untouched' /\ Forgotten'
      BY <3>1 DEF Untouched, Forgotten, Working, Found
    <3> QED
      BY <3>3, <3>4
  <2>2. CASE ~Conflict
    <3>1. /\ UNCHANGED <<object, record, veths, lost, loaded>> /\ Working' = Working
          /\ loaded
      <4>1. UNCHANGED <<object, record, veths, lost, loaded>> /\ Get("events") /\ events # <<>>
        BY <1>2, <2>2 DEF HandleNetworkRemoved, Announced
      <4> QED
        BY <1>0, <4>1, WorkingKeeps DEF Lifecycle
    <3>2. \A t \in Threads : task'[t] # None => task'[t] = task[t] \/ task'[t].pc = "delete"
      <4>1. task' = task \/ task' = [task EXCEPT !["events"] = Task("delete", Found("events"))]
        BY <1>2, <2>2 DEF HandleNetworkRemoved
      <4> QED
        BY <1>0, <4>1 DEF TypeOK, Task
    <3>3. \A t \in Threads : task'[t] # None /\ (task'[t].pc \in Creating \/ task'[t].pc = "reconcile")
                             => task'[t] = task[t]
      BY <3>2 DEF Creating
    <3>4. Traced' /\ VethsTracked'
      BY <1>1, <3>1, TracedFrame
    <3>5. Untouched'
      BY <3>1, <3>3, UntouchedFrame
    <3>6. Forgotten'
      BY <1>1, <3>1, <3>3, ForgottenFrame
    <3> QED
      BY <3>4, <3>5, <3>6
  <2> QED
    BY <2>1, <2>2
<1>3. CASE RemoveNetwork
  <2>1. /\ task["events"] # None /\ UNCHANGED <<record, veths>>
        /\ task' = [task EXCEPT !["events"] = None]
        /\ object' = object \/ object' = [object EXCEPT ![Removed] = None]
        /\ lost' = lost \cup {v \in veths : \A e \in Endpoints : record[e] # v}
    BY <1>3 DEF RemoveNetwork, Removing, At
  <2>2. Removed \in Objects /\ Removed = task["events"].o
    BY <1>0, <2>1 DEF Removed, TypeOK, Tasks
  <2>3. /\ \A t \in Threads : task'[t] # None => t # "events" /\ task'[t] = task[t]
        /\ \A o \in Objects : object'[o] # None => object[o] # None /\ object'[o] = object[o]
        /\ \A o \in Objects \ {Removed} : object'[o] = object[o]
    BY <1>0, <2>1, <2>2 DEF TypeOK
  <2>4. Working' \in {Working, None} /\ (Working' # None => object' = object)
    BY <1>3, WorkingKeeps DEF RemoveNetwork, Remove, Working, Found
  <2>5. \A t \in Threads : task'[t] # None => task'[t] = task[t] /\ object'[task[t].o] = object[task[t].o]
    <3> SUFFICES ASSUME NEW t \in Threads, task'[t] # None
                 PROVE  task'[t] = task[t] /\ object'[task[t].o] = object[task[t].o]
      OBVIOUS
    <3>1. task[t] # None /\ task'[t] = task[t] /\ t # "events"
      BY <2>3
    <3>2. task[t].o \in Objects /\ task[t].o # Removed
      BY <1>0, <2>1, <2>2, <3>1, WorkingObject
    <3> QED
      BY <2>3, <3>1, <3>2
  <2>6. \A v \in veths' \ lost' : v \in veths \ lost /\ \E f \in Endpoints : record'[f] = v
    BY <2>1
  <2>7. Traced' /\ VethsTracked'
    BY <1>1, <2>1, <2>3, <2>6, TracedFrame
  <2>8. Untouched'
    <3>1. UNCHANGED <<loaded, ready>> /\ (loaded \/ ready)
      BY <1>0, <1>3, <2>1, TaskHeard DEF RemoveNetwork
    <3>2. veths' \ lost' \subseteq veths \ lost
      BY <2>1
    <3> QED
      BY <2>1, <2>5, <3>1, <3>2, UntouchedFrame
  <2>9. Forgotten'
    BY <1>1, <2>1, <2>4, <2>5, ForgottenFrame
  <2> QED
    BY <2>7, <2>8, <2>9
<1>4. CASE Removal
  <2>1. /\ task["events"] # None /\ task'["events"].pc \in Deleting
        /\ task'["docker"] = task["docker"]
        /\ Removed \in Objects /\ object[Removed] \in Network /\ object[Removed] # None
        /\ Removed = task["events"].o
    BY <1>0, <1>4, RemovalKeeps, WorkingObject DEF Removed
  <2>1a. Working = Removed /\ Working' = Working
    <3>1. /\ task["events"].pc \in Deleting /\ UNCHANGED <<byFlannel, byDocker>>
      BY <1>4, RemovalKeeps
    <3>2. byDocker = Removed
      BY <2>1, <3>1 DEF Structure
    <3>3. byDocker # None
      BY <2>1, <3>2, FlannelNetworkAssumption
    <3> QED
      BY <3>1, <3>2, <3>3 DEF Working, Found
  <2>2. \A t \in Threads : task'[t] # None /\ (task'[t].pc \in Creating \/ task'[t].pc = "reconcile") =>
          /\ task'[t] = task[t] /\ task[t] # None
          /\ task[t].o \in Objects \ {Removed}
    <3> SUFFICES ASSUME NEW t \in Threads, task'[t] # None,
                        task'[t].pc \in Creating \/ task'[t].pc = "reconcile"
                 PROVE  task'[t] = task[t] /\ task[t] # None /\ task[t].o \in Objects \ {Removed}
      OBVIOUS
    <3>1. t = "docker"
      BY <1>0, <2>1
    <3>2. task'[t] = task[t] /\ task[t] # None
      BY <2>1, <3>1
    <3> QED
      BY <1>0, <2>1, <3>1, <3>2, WorkingObject
  <2>3. \A o \in Objects \ {Removed} : object'[o] = object[o]
    <3>1. \/ object' = object
          \/ object' = [object EXCEPT ![Removed].process = FALSE]
          \/ \E e \in Endpoints, d \in Data : object' = [object EXCEPT ![Removed].endpoints[e] = d]
      <4>1. CASE \E e \in Endpoints : CleanupEndpoint(e)
        <5>1. PICK e \in Endpoints : CleanupEndpoint(e)
          BY <4>1
        <5>2. object[Removed].endpoints[e] \in Data
          BY <2>1 DEF Network
        <5>3. PICK r \in DeleteResults(e, object[Removed].endpoints[e]) :
                object' = [object EXCEPT ![Removed].endpoints[e] = r.memory]
          BY <5>1 DEF CleanupEndpoint
        <5>4. r.memory \in Data
          BY <5>2, <5>3, DeleteShape DEF Results
        <5> QED
          BY <5>3, <5>4
      <4>2. CASE ~\E e \in Endpoints : CleanupEndpoint(e)
        BY <1>4, <4>2 DEF Removal, DeleteProcess, ReadRevision, DeleteConfig, CleanupInterfaces,
                          EndFlannelDaemonProcess
      <4> QED
        BY <4>1, <4>2
    <3>2. DOMAIN object = Objects
      BY DEF TypeOK
    <3>3. CASE object' = object
      BY <3>3
    <3>4. CASE object' = [object EXCEPT ![Removed].process = FALSE]
      BY <3>2, <3>4
    <3>5. CASE \E e \in Endpoints, d \in Data : object' = [object EXCEPT ![Removed].endpoints[e] = d]
      BY <3>2, <3>5
    <3> QED
      BY <3>1, <3>3, <3>4, <3>5
  <2>3a. \A t \in Threads : task'[t] # None /\ task'[t].pc = "reconcile" =>
           task'[t] = task[t] /\ object'[task[t].o] = object[task[t].o]
    BY <2>2, <2>3
  <2>4. UNCHANGED <<lost, loaded, ready>> /\ (loaded \/ ready)
    <3>1. UNCHANGED <<lost, loaded, ready>>
      BY <1>4 DEF Removal, DeleteProcess, ReadRevision, DeleteConfig, CleanupInterfaces,
                  CleanupEndpoint, RemovalRest
    <3> QED
      BY <1>0, <2>1, <3>1, TaskHeard
  <2>3b. ASSUME veths' \subseteq veths,
                \A e \in Endpoints : record'[e] = record[e] \/ record[e] \notin veths'
         PROVE  Untouched'
    BY <2>2, <2>3, <2>3b, <2>4, UntouchedFrame
  <2>5. CASE \E e \in Endpoints : CleanupEndpoint(e)
    <3>1. PICK e \in Endpoints : CleanupEndpoint(e)
      BY <2>5
    <3>2. /\ object[Removed].endpoints[e] \in Data
          /\ (object[Removed].endpoints[e] \in Veths /\ record[e] \in Veths
                => record[e] = object[Removed].endpoints[e])
      BY <2>1 DEF Network, Traced
    <3>3. PICK r \in DeleteResults(e, object[Removed].endpoints[e]) :
            /\ object' = [object EXCEPT ![Removed].endpoints[e] = r.memory]
            /\ record' = [record EXCEPT ![e] = r.record] /\ veths' = r.veths
      BY <3>1 DEF CleanupEndpoint
    <3>4. /\ r.memory \in {object[Removed].endpoints[e], "none", "detached"}
          /\ r.record \in {record[e], "none", "detached"}
      BY <3>2, DeleteShape
    <3>5. /\ r.veths \subseteq veths
          /\ r.memory = object[Removed].endpoints[e] \/ object[Removed].endpoints[e] \notin r.veths
          /\ r.record = record[e] \/ record[e] \notin r.veths
          /\ (object[Removed].endpoints[e] = "none" /\ record[e] = "none"
                => r.memory = "none" /\ r.record = "none")
      BY <3>2, DeletionForgetsDeleted
    <3>6. /\ object'[Removed].endpoints[e] = r.memory /\ object'[Removed] # None
          /\ \A f \in Endpoints \ {e} :
               object'[Removed].endpoints[f] = object[Removed].endpoints[f]
          /\ \A o \in Objects \ {Removed} : object'[o] = object[o]
          /\ record'[e] = r.record /\ \A f \in Endpoints \ {e} : record'[f] = record[f]
      <4>1. r.memory \in Data
        BY <3>2, <3>4 DEF Data
      <4>2. object'[Removed] = [object[Removed] EXCEPT !.endpoints[e] = r.memory]
        BY <2>1, <3>3 DEF TypeOK
      <4>3. object'[Removed] \in Network
        BY <2>1, <4>1, <4>2 DEF Network
      <4>4. object'[Removed] # None
        BY <4>3, FlannelNetworkAssumption
      <4>5. /\ object'[Removed].endpoints[e] = r.memory
            /\ \A f \in Endpoints \ {e} :
                 object'[Removed].endpoints[f] = object[Removed].endpoints[f]
        BY <2>1, <4>2 DEF Network
      <4> QED
        BY <2>1, <3>3, <4>4, <4>5 DEF TypeOK
    <3>7. \A o \in Objects, f \in Endpoints :
            object'[o] # None /\ object'[o].endpoints[f] \in Veths =>
              object[o] # None /\ object[o].endpoints[f] = object'[o].endpoints[f]
      BY <2>1, <3>4, <3>6, FlannelNetworkAssumption
    <3>8. \A o \in Objects, f \in Endpoints :
            object[o] # None /\ object[o].endpoints[f] \in veths' =>
              object'[o] # None /\ object'[o].endpoints[f] = object[o].endpoints[f]
      BY <3>3, <3>5, <3>6
    <3>9. \A f \in Endpoints : /\ record'[f] \in {record[f], "none", "detached"}
                               /\ record'[f] = record[f] \/ record[f] \notin veths'
      BY <3>3, <3>4, <3>5, <3>6
    <3>10. Traced' /\ VethsTracked'
      BY <1>1, <2>4, <3>3, <3>5, <3>7, <3>8, <3>9, TracedFrame
    <3>11. \A f \in Endpoints \ troubled' : attached'[f] = "gone" =>
             /\ attached[f] = "gone"
             /\ record'[f] = "none" /\ object'[Removed].endpoints[f] = "none"
      <4>1. \A f \in Endpoints \ troubled' : attached'[f] = "gone" =>
              attached[f] = "gone" /\ record[f] = "none" /\ object[Removed].endpoints[f] = "none"
        BY <1>1, <2>1, <2>1a, FlannelNetworkAssumption DEF Forgotten
      <4> QED
        BY <3>5, <3>6, <4>1
    <3>12. Forgotten'
      BY <1>1, <2>1a, <2>3a, <3>11, ForgottenFrame
    <3> QED
      BY <2>3b, <3>3, <3>5, <3>9, <3>10, <3>12
  <2>6. CASE ~\E e \in Endpoints : CleanupEndpoint(e)
    <3>1. /\ UNCHANGED <<record, veths>>
          /\ object' = object \/ object' = [object EXCEPT ![Removed].process = FALSE]
      BY <1>4, <2>6 DEF Removal, DeleteProcess, ReadRevision, DeleteConfig, CleanupInterfaces,
                        EndFlannelDaemonProcess
    <3>2. \A o \in Objects : /\ object'[o] # None <=> object[o] # None
                             /\ object[o] # None => object'[o].endpoints = object[o].endpoints
      <4>1. CASE object' = object
        BY <4>1
      <4>2. CASE object' = [object EXCEPT ![Removed].process = FALSE]
        <5>1. /\ object'[Removed] = [object[Removed] EXCEPT !.process = FALSE]
              /\ \A o \in Objects \ {Removed} : object'[o] = object[o]
          BY <2>1, <4>2 DEF TypeOK
        <5>2. object'[Removed] \in Network /\ object'[Removed].endpoints = object[Removed].endpoints
          BY <2>1, <5>1 DEF Network
        <5> QED
          BY <2>1, <5>1, <5>2, FlannelNetworkAssumption
      <4> QED
        BY <3>1, <4>1, <4>2
    <3>3. Traced' /\ VethsTracked'
      BY <1>1, <2>4, <3>1, <3>2, TracedFrame
    <3>4. Forgotten'
      BY <1>1, <2>1, <2>1a, <2>3a, <3>1, <3>2, ForgottenFrame
    <3> QED
      BY <2>3b, <3>1, <3>3, <3>4
  <2> QED
    BY <2>5, <2>6
<1> QED
  BY <1>2, <1>3, <1>4 DEF Delete, Removal

\* What happens outside, crashes, starts and the clean-up touch no endpoint of an object.
LEMMA OutsideEndings ==
  ASSUME TypeOK, Structure, Untouched, Traced, VethsTracked, Forgotten,
         \/ NetworkChanges \/ OtherNode \/ Crash \/ Start \/ ServeEarly \/ LoadDockerData
         \/ CleanupStaleNetworks \/ UNCHANGED vars
  PROVE  (Untouched /\ Traced /\ VethsTracked /\ Forgotten)'
<1> USE DEF dockerVars, nodeVars, mapVars, etcdVars, kernelVars, historyVars, sweepVars
<1>0. "none" \notin Veths /\ "detached" \notin Veths
  BY FlannelNetworkAssumption
<1>1. CASE NetworkChanges \/ Start \/ ServeEarly \/ LoadDockerData \/ UNCHANGED vars
  <2>1. UNCHANGED <<attached, byFlannel, byDocker, object, task, record, veths, troubled, lost>>
    BY <1>1 DEF NetworkChanges, Start, ServeEarly, LoadDockerData, vars
  <2>1a. UNCHANGED <<loaded, ready>> \/ loaded' \/ ready'
    BY <1>1 DEF NetworkChanges, Start, ServeEarly, LoadDockerData, vars
  <2>2. Traced' /\ VethsTracked'
    BY <2>1, TracedFrame
  <2>3. Untouched'
    BY <2>1, <2>1a DEF Untouched
  <2>4. Forgotten'
    BY <2>1 DEF Forgotten, Working, Found
  <2> QED
    BY <2>2, <2>3, <2>4
<1>2. CASE Crash
  <2>1. /\ UNCHANGED record
        /\ byFlannel' = None /\ byDocker' = None /\ \A t \in Threads : task'[t] = None
        /\ \A o \in Objects : object'[o] = None
    BY <1>2 DEF Crash, Down
  <2>2. \A e \in Endpoints : attached'[e] \in {"none", "created"} => attached[e] \in {"none", "created"}
    BY <1>2 DEF Crash
  <2>3. \A v \in veths' \ lost' : v \in veths \ lost /\ \E f \in Endpoints : record'[f] = v
    BY <1>2, <2>1 DEF Crash
  <2>4. Traced' /\ VethsTracked'
    BY <2>1, <2>2, <2>3, TracedFrame
  <2>5. Untouched' /\ Forgotten'
    BY <2>1 DEF Untouched, Forgotten, Working, Found
  <2> QED
    BY <2>4, <2>5
<1>3. CASE CleanupStaleNetworks \/ OtherNode
  <2>1. /\ UNCHANGED <<attached, byFlannel, byDocker, object, task, troubled>>
        /\ veths' \subseteq veths /\ lost \subseteq lost'
        /\ \/ UNCHANGED record
           \/ /\ \A e \in Endpoints : record'[e] = "none" /\ UNCHANGED veths
              /\ \A e \in Endpoints : record[e] \in veths => record[e] \in lost'
    BY <1>3, CleaningShape
  <2>2. \A e \in Endpoints : /\ record'[e] \in {record[e], "none"}
                             /\ record'[e] = record[e] \/ record[e] \notin veths' \ lost'
    BY <2>1
  <2>3. veths' \ lost' \subseteq veths \ lost
    BY <2>1
  <2>4. Traced' /\ VethsTracked'
    BY <2>1, <2>2, <2>3, TracedFrame
  <2>5. UNCHANGED <<loaded, ready>> \/ loaded' \/ ready'
    BY <1>3 DEF OtherNode, CleanupStaleNetworks,
       TakeNetworks, ReadNetworks, DeleteStaleData, DeleteStaleLinks, DeleteStaleBridge
  <2>6. Untouched'
    BY <2>1, <2>2, <2>3, <2>5, UntouchedFrame
  <2>7. Forgotten'
    BY <2>1 DEF Forgotten, Working, Found
  <2> QED
    BY <2>4, <2>6, <2>7
<1> QED
  BY <1>1, <1>2, <1>3

\* Every step keeps track of the interfaces, and forgets what ends.
LEMMA EndingsStep ==
  ASSUME TypeOK, Structure, Lifecycle, Untouched, Traced, VethsTracked, Forgotten, [Next]_vars
  PROVE  (Lifecycle /\ Untouched /\ Traced /\ VethsTracked /\ Forgotten)'
<1>1. ASSUME NEW t \in Threads, Create(t)
      PROVE  (Untouched /\ Traced /\ VethsTracked /\ Forgotten)'
  <2>1. CASE AlreadyThere(t) \/ NewNetwork(t) \/ Created(t)
    BY <2>1, KeyEndings
  <2>2. CASE LoadEndpoints(t)
    BY <2>2, CreationEndings, LoadEndings
  <2>3. CASE \/ ReadConfig(t) \/ CommitConfig(t) \/ RereadConfig(t) \/ StartFlannel(t)
             \/ LoadFlannelConfig(t)
    BY <2>3, CreationEndings
  <2>4. CASE \E e \in Endpoints : Reconcile(t, e)
    BY <2>4, ReconcileEndings
  <2> QED
    BY <1>1, <2>1, <2>2, <2>3, <2>4 DEF Create
<1>2. ASSUME NEW e \in Endpoints, Endpoint(e)
      PROVE  (Untouched /\ Traced /\ VethsTracked /\ Forgotten)'
  BY <1>2, EndpointEndings
<1>3. Lifecycle'
  BY LifecycleStep
<1>4. CASE Delete
  BY <1>3, <1>4, RemovalEndings
<1>5. CASE \/ NetworkChanges \/ OtherNode \/ Crash \/ Start \/ ServeEarly \/ LoadDockerData
           \/ CleanupStaleNetworks \/ UNCHANGED vars
  BY <1>3, <1>5, OutsideEndings
<1> QED
  BY <1>1, <1>2, <1>3, <1>4, <1>5 DEF Next

\* At first there are no interfaces.
LEMMA EndingsInit == Init => Untouched /\ Traced /\ VethsTracked /\ Forgotten
<1> SUFFICES ASSUME Init PROVE Untouched /\ Traced /\ VethsTracked /\ Forgotten
  OBVIOUS
<1>1. /\ \A e \in Endpoints : attached[e] = "none" /\ record[e] = "none"
      /\ \A o \in Objects : object[o] = None
      /\ byFlannel = None /\ byDocker = None /\ \A t \in Threads : task[t] = None
      /\ veths = {}
  BY DEF Init
<1>2. Untouched /\ Forgotten
  BY <1>1 DEF Untouched, Forgotten, Working, Found
<1>3. Traced /\ VethsTracked
  BY <1>1, FlannelNetworkAssumption DEF Traced, VethsTracked
<1> QED
  BY <1>2, <1>3

\* Somebody knows of every pair of interfaces and can delete it, through failures, crashes and
\* restarts, but for those that a crash or the network's removal found without a record, or whose
\* record a clean-up deleted.
THEOREM VethsStayTracked == Spec => []VethsTracked
<1>1. /\ Lifecycle /\ Untouched /\ Traced /\ VethsTracked /\ Forgotten
      /\ TypeOK /\ Structure /\ [Next]_vars
      => (Lifecycle /\ Untouched /\ Traced /\ VethsTracked /\ Forgotten)'
  BY EndingsStep
<1> QED
  BY <1>1, AliveInit, EndingsInit, TypeCorrect, PTL DEF Spec

\* An endpoint that ended leaves nothing when no call for it failed, neither a record nor
\* anything the network's object knows, also when its end was not heard.
THEOREM EndedIsForgotten == Spec => []GoneIsForgotten
<1>1. /\ Lifecycle /\ Untouched /\ Traced /\ VethsTracked /\ Forgotten
      /\ TypeOK /\ Structure /\ [Next]_vars
      => (Lifecycle /\ Untouched /\ Traced /\ VethsTracked /\ Forgotten)'
  BY EndingsStep
<1>2. Forgotten => GoneIsForgotten
  BY DEF Forgotten, GoneIsForgotten, Working, Found
<1> QED
  BY <1>1, <1>2, AliveInit, EndingsInit, TypeCorrect, PTL DEF Spec

-----------------------------------------------------------------------------
(* A container's interfaces stay the same.                                 *)

\* No step gives a container that stays joined other interfaces, in the record or in the
\* network that is found before and after, unless it was overlooked.
JoinedStays(e) ==
  Plugged(e) /\ Plugged(e)' /\ e \notin overlooked' =>
    /\ record'[e] = record[e] /\ record[e] \in veths'
    /\ byDocker # None /\ byDocker' # None =>
         object'[byDocker'].endpoints[e] = object[byDocker].endpoints[e]

InterfacesStay == [][\A e \in Endpoints : JoinedStays(e)]_vars

\* Reconciling writes no record but that of an endpoint that is not listed.
LEMMA ReconcileWrites ==
  ASSUME TypeOK, Structure, NEW t \in Threads, NEW f \in Endpoints, Reconcile(t, f)
  PROVE  /\ overlooked \subseteq overlooked'
         /\ \/ UNCHANGED record
            \/ /\ ~Listed(f) /\ (Starting(f) => f \in overlooked')
               /\ \A g \in Endpoints \ {f} : record'[g] = record[g]
<1>1. CASE MayBeListed(f) /\ UNCHANGED <<object, record, veths, troubled, overlooked>>
  BY <1>1
<1>2. CASE /\ ~Listed(f)
           /\ \E r : record' = [record EXCEPT ![f] = r]
           /\ overlooked' = IF Starting(f) THEN overlooked \cup {f} ELSE overlooked
  BY <1>2 DEF TypeOK
<1> QED
  BY <1>1, <1>2 DEF Reconcile

\* The record of an endpoint that stays joined is written by nobody, and once it was overlooked
\* it is so for good.
LEMMA RecordStays ==
  ASSUME TypeOK, Structure, Lifecycle, Joined, [Next]_vars, NEW e \in Endpoints,
         Plugged(e), Plugged(e)', e \notin overlooked'
  PROVE  record'[e] = record[e] /\ e \notin overlooked
<1> USE DEF dockerVars, nodeVars, mapVars, etcdVars, kernelVars, historyVars, sweepVars
<1>1. docker = "exists"
  BY DEF Joined, Plugged
<1>2. ASSUME NEW t \in Threads, Create(t) PROVE record'[e] = record[e] /\ e \notin overlooked
  <2>1. CASE \E f \in Endpoints : Reconcile(t, f)
    <3>1. PICK f \in Endpoints : Reconcile(t, f)
      BY <2>1
    <3>2. /\ overlooked \subseteq overlooked'
          /\ \/ UNCHANGED record
             \/ /\ ~Listed(f) /\ (Starting(f) => f \in overlooked')
                /\ \A g \in Endpoints \ {f} : record'[g] = record[g]
      BY <3>1, ReconcileWrites
    <3>3. ASSUME f # e PROVE record'[e] = record[e]
      <4>1. e \in Endpoints \ {f}
        BY <3>3
      <4>2. CASE record' = record
        BY <4>2
      <4>3. CASE \A g \in Endpoints \ {f} : record'[g] = record[g]
        BY <4>1, <4>3
      <4> QED
        BY <3>2, <4>2, <4>3
    <3>4. f = e => record' = record
      BY <3>2 DEF Listed, Starting, Plugged
    <3> QED
      BY <3>2, <3>3, <3>4
  <2>2. CASE ~\E f \in Endpoints : Reconcile(t, f)
    BY <1>2, <2>2 DEF Create, AlreadyThere, NewNetwork, Asked, ReadConfig, CommitConfig,
       RereadConfig, StartFlannel, LoadFlannelConfig, LoadEndpoints, Created
  <2> QED
    BY <2>1, <2>2
<1>3. ASSUME NEW f \in Endpoints, Endpoint(f)
      PROVE  record'[e] = record[e] /\ e \notin overlooked
  <2>1. f # e \/ record' = record
    <3>1. CASE Join(f)
      BY <3>1 DEF Join, Plugged
    <3>2. CASE Run(f) \/ EndUnheard(f)
      BY <3>2 DEF Run, EndUnheard
    <3>3. CASE CreateEndpoint(f) \/ Leave(f) \/ DeleteEndpoint(f)
      <4>1. \E s \in {"created", "left", "gone"} : Attached(f, s)
        BY <3>3 DEF CreateEndpoint, Leave, DeleteEndpoint
      <4> QED
        BY <4>1 DEF Attached, TypeOK, Plugged
    <3> QED
      BY <1>3, <3>1, <3>2, <3>3 DEF Endpoint
  <2>2. record' = record \/ \E r : record' = [record EXCEPT ![f] = r]
    BY <1>3 DEF Endpoint, CreateEndpoint, Join, Run, Leave, DeleteEndpoint, EndUnheard,
       Answered, Refused
  <2>3. EndpointRest
    BY <1>3 DEF Endpoint, CreateEndpoint, Join, Run, Leave, DeleteEndpoint, EndUnheard
  <2>4. e \notin overlooked
    BY <2>3 DEF EndpointRest
  <2> QED
    BY <2>1, <2>2, <2>4 DEF TypeOK
<1>4. CASE Delete
  <2>1. docker = "removed" \/ (record' = record /\ overlooked' = overlooked)
    <3>1. CASE HandleNetworkRemoved
      BY <3>1 DEF HandleNetworkRemoved
    <3>2. CASE ~HandleNetworkRemoved
      <4>1. task["events"] # None /\ task["events"].pc \in Deleting
        BY <1>4, <3>2 DEF Delete, DeleteProcess, ReadRevision, DeleteConfig, CleanupInterfaces,
                          CleanupEndpoint, RemoveNetwork, Removing, At, Deleting
      <4> QED
        BY <4>1 DEF Lifecycle
    <3> QED
      BY <3>1, <3>2
  <2> QED
    BY <1>1, <2>1
<1>5. CASE OtherNode \/ CleanupStaleNetworks
  BY <1>5, CleaningShape
<1>6. CASE NetworkChanges \/ Crash \/ Start \/ ServeEarly \/ LoadDockerData \/ UNCHANGED vars
  BY <1>6 DEF NetworkChanges, Crash, Start, ServeEarly, LoadDockerData, vars
<1> QED
  BY <1>2, <1>3, <1>4, <1>5, <1>6 DEF Next

\* As long as a container runs nothing changes its interfaces: no stale call, no reload, no
\* removal and no clean-up that knows of it, in whatever order the threads get there.
THEOREM ContainersKeepTheirInterfaces == Spec => InterfacesStay
<1>1. /\ TypeOK /\ Structure /\ Lifecycle /\ Joined /\ Joined' /\ [Next]_vars
      => \A e \in Endpoints : JoinedStays(e)
  <2> SUFFICES ASSUME TypeOK, Structure, Lifecycle, Joined, Joined', [Next]_vars,
                      NEW e \in Endpoints, Plugged(e), Plugged(e)', e \notin overlooked'
               PROVE  JoinedStays(e)
    BY DEF JoinedStays
  <2>1. record'[e] = record[e] /\ e \notin overlooked
    BY RecordStays
  <2>2. byDocker # None => object[byDocker].endpoints[e] = record[e]
    BY <2>1 DEF Joined, Working, Found
  <2>3. /\ record'[e] \in veths'
        /\ byDocker' # None => object'[byDocker'].endpoints[e] = record'[e]
    BY DEF Joined, Working, Found
  <2> QED
    BY <2>1, <2>2, <2>3 DEF JoinedStays
<1>2. /\ Lifecycle /\ TypeOK /\ Structure /\ Joined /\ Distinct /\ [Next]_vars
      => (Lifecycle /\ Joined /\ Distinct)'
  BY LifecycleStep, JoinedStep
<1>3. Spec => [](Lifecycle /\ TypeOK /\ Structure /\ Joined /\ Distinct)
  BY <1>2, AliveInit, JoinedInit, TypeCorrect, PTL DEF Spec
<1> QED
  BY <1>1, <1>3, PTL DEF Spec, InterfacesStay
=============================================================================
