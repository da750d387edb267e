------------------------ MODULE FlannelNetworkProofs ------------------------
(***************************************************************************)
(* Proofs about FlannelNetwork, for any number of endpoints, interfaces,   *)
(* crashes and changes, and whatever the two threads do at the same time.  *)
(* Only that the map's keys agree and that a removal is complete need that *)
(* one thread at a time is busy with the network.                          *)
(***************************************************************************)
EXTENDS FlannelNetwork, TLAPS

Results == [done : BOOLEAN, memory : Data, record : Data, veths : SUBSET Veths]

-----------------------------------------------------------------------------
(* What calls for endpoints can return.                                    *)

\* Leave forgets the interfaces it deletes, and touches no others.
LEMMA LeaveShape ==
  ASSUME TypeOK, NEW e \in Endpoints, NEW memory \in Data, NEW r \in LeaveResults(e, memory)
  PROVE  /\ r \in Results
         /\ r.memory \in {memory, "detached"}
         /\ r.record \in {record[e], "detached"}
         /\ r.veths \in {veths, veths \ {memory}}
<1>1. record[e] \in Data /\ "detached" \in Data /\ veths \in SUBSET Veths
      /\ veths \ {memory} \in SUBSET Veths
  BY DEF TypeOK, Data
<1>2. \/ r = Result(FALSE, memory, record[e], veths)
      \/ r = Result(TRUE, "detached", "detached", veths \ {memory})
      \/ \E q \in {record[e], "detached"} : r = Result(FALSE, "detached", q, veths \ {memory})
  BY DEF LeaveResults
<1>3. CASE r = Result(FALSE, memory, record[e], veths)
  BY <1>1, <1>3 DEF Result, Results
<1>4. CASE r = Result(TRUE, "detached", "detached", veths \ {memory})
  BY <1>1, <1>4 DEF Result, Results
<1>5. CASE \E q \in {record[e], "detached"} : r = Result(FALSE, "detached", q, veths \ {memory})
  BY <1>1, <1>5 DEF Result, Results
<1> QED
  BY <1>2, <1>3, <1>4, <1>5

\* Deleting the record changes nothing else but what is known.
LEMMA RecordShape ==
  ASSUME NEW q \in Results, NEW r \in DeleteRecord(q)
  PROVE  /\ r \in Results
         /\ r.memory \in {q.memory, "none"}
         /\ r.record \in {q.record, "none"}
         /\ r.veths = q.veths
<1>1. \/ r = [q EXCEPT !.done = FALSE]
      \/ r = Result(TRUE, "none", "none", q.veths)
      \/ r = [q EXCEPT !.done = FALSE, !.record = "none"]
  BY DEF DeleteRecord
<1>2. CASE r = [q EXCEPT !.done = FALSE]
  BY <1>2 DEF Results
<1>3. CASE r = Result(TRUE, "none", "none", q.veths)
  BY <1>3 DEF Result, Results, Data
<1>4. CASE r = [q EXCEPT !.done = FALSE, !.record = "none"]
  BY <1>4 DEF Results, Data
<1> QED
  BY <1>1, <1>2, <1>3, <1>4

\* The same for a deletion, which may have to leave first.
LEMMA DeleteShape ==
  ASSUME TypeOK, NEW e \in Endpoints, NEW memory \in Data, NEW r \in DeleteResults(e, memory)
  PROVE  /\ r \in Results
         /\ r.memory \in {memory, "detached", "none"}
         /\ r.record \in {record[e], "detached", "none"}
         /\ r.veths \in {veths, veths \ {memory}}
<1> DEFINE left == IF memory \in {"none", "detached"}
                   THEN {Result(TRUE, memory, record[e], veths)} ELSE LeaveResults(e, memory)
<1>1. ASSUME NEW q \in left
      PROVE  /\ q \in Results
             /\ q.memory \in {memory, "detached"}
             /\ q.record \in {record[e], "detached"}
             /\ q.veths \in {veths, veths \ {memory}}
  <2>1. CASE memory \in {"none", "detached"}
    <3>1. q = Result(TRUE, memory, record[e], veths)
      BY <1>1, <2>1
    <3>2. record[e] \in Data /\ veths \in SUBSET Veths
      BY DEF TypeOK
    <3> QED
      BY <2>1, <3>1, <3>2 DEF Result, Results
  <2>2. CASE memory \notin {"none", "detached"}
    BY <1>1, <2>2, LeaveShape
  <2> QED
    BY <2>1, <2>2
<1>2. PICK q \in left : r \in (IF q.done THEN DeleteRecord(q) ELSE {q})
  <2>1. r \in UNION {IF q.done THEN DeleteRecord(q) ELSE {q} : q \in left}
    BY DEF DeleteResults
  <2>2. \A L : r \in UNION {IF q.done THEN DeleteRecord(q) ELSE {q} : q \in L}
               => \E q \in L : r \in (IF q.done THEN DeleteRecord(q) ELSE {q})
    OBVIOUS
  <2> HIDE DEF left
  <2>3. \E q \in left : r \in (IF q.done THEN DeleteRecord(q) ELSE {q})
    BY <2>1, <2>2
  <2> QED
    BY <2>3
<1> HIDE DEF left
<1>3. CASE q.done
  <2>1. r \in DeleteRecord(q)
    BY <1>2, <1>3
  <2> QED
    BY <1>1, <2>1, RecordShape
<1>4. CASE ~q.done
  <2>1. r = q
    BY <1>2, <1>4
  <2> QED
    BY <1>1, <2>1
<1> QED
  BY <1>3, <1>4

-----------------------------------------------------------------------------
(* Types and the driver's map.                                             *)

\* The threads work on different objects that are there.  One that is being created is not
\* in the map, and the events create one only when the map has none for them, or remove
\* the one that it has for them.
Structure ==
  /\ byDocker # None => byFlannel # None /\ object[byDocker] \in Network
  /\ byFlannel # None => object[byFlannel] \in Network
  /\ \A t \in Threads : task[t] # None =>
       /\ object[task[t].o] \in Network
       /\ task[t].pc \in Creating => task[t].o # byFlannel /\ task[t].o # byDocker
       /\ t = "docker" => task[t].pc \in Creating
  /\ \A t, u \in Threads : task[t] # None /\ task[u] # None /\ t # u => task[t].o # task[u].o
  /\ task["events"] # None =>
       /\ task["events"].pc \in Creating => byDocker = None
       /\ task["events"].pc \in Deleting => byDocker = task["events"].o
  /\ ~up => byFlannel = None /\ \A t \in Threads : task[t] = None

\* A task goes on with the same object.
LEMMA GotoType ==
  ASSUME TypeOK, NEW t \in Threads, task[t] # None, NEW pc \in Creating \cup Deleting, Goto(t, pc)
  PROVE  /\ task' \in [Threads -> Tasks \cup {None}]
         /\ task'[t] = [pc |-> pc, o |-> task[t].o, todo |-> task[t].todo, seen |-> task[t].seen]
         /\ task[t] \in Tasks
         /\ \A u \in Threads \ {t} : task'[u] = task[u]
BY DEF TypeOK, Goto, Tasks, Creating, Deleting

\* A task that goes on or ends, and takes its object along when it fails to create it.
LEMMA TaskStructure ==
  ASSUME TypeOK, Structure, NEW t \in Threads, task[t] # None,
         task' \in [Threads -> Tasks \cup {None}],
         \A u \in Threads \ {t} : task'[u] = task[u],
         task'[t] # None =>
           /\ task'[t].o = task[t].o
           /\ task'[t].pc \in Creating <=> task[t].pc \in Creating,
         UNCHANGED mapVars, up',
         \A o \in Objects : object[o] \in Network =>
           \/ object'[o] \in Network
           \/ o = task[t].o /\ task'[t] = None /\ task[t].pc \in Creating
  PROVE  Structure'
<1> USE DEF mapVars
<1>1. /\ task[t] \in Tasks /\ task[t].o \in Objects
      /\ byFlannel \in Objects \cup {None} /\ byDocker \in Objects \cup {None}
      /\ "events" \in Threads /\ Creating \cap Deleting = {}
  BY DEF TypeOK, Tasks, Threads, Creating, Deleting
<1>2. /\ byDocker' # None => byFlannel' # None /\ object'[byDocker'] \in Network
      /\ byFlannel' # None => object'[byFlannel'] \in Network
  BY <1>1 DEF Structure
<1>3. ASSUME NEW u \in Threads, task'[u] # None
      PROVE  /\ task[u] # None /\ task'[u].o = task[u].o /\ task[u].o \in Objects
             /\ task'[u].pc \in Creating <=> task[u].pc \in Creating
             /\ object'[task[u].o] \in Network
  <2>1. task[u] # None /\ task'[u].o = task[u].o /\ (task'[u].pc \in Creating <=> task[u].pc \in Creating)
    BY <1>3
  <2>2. task[u].o \in Objects /\ object[task[u].o] \in Network
    BY <2>1 DEF TypeOK, Tasks, Structure
  <2>3. u # t => task[u].o # task[t].o
    BY <2>1 DEF Structure
  <2> QED
    BY <1>3, <2>1, <2>2, <2>3
<1>4. \A u \in Threads : task'[u] # None =>
        /\ object'[task'[u].o] \in Network
        /\ task'[u].pc \in Creating => task'[u].o # byFlannel' /\ task'[u].o # byDocker'
        /\ u = "docker" => task'[u].pc \in Creating
  BY <1>3 DEF Structure
<1>5. \A u, w \in Threads : task'[u] # None /\ task'[w] # None /\ u # w => task'[u].o # task'[w].o
  BY <1>3 DEF Structure
<1>6. task'["events"] # None =>
        /\ task'["events"].pc \in Creating => byDocker' = None
        /\ task'["events"].pc \in Deleting => byDocker' = task'["events"].o
  <2>1. \A u \in Threads : task[u] # None => task[u].pc \in Creating \cup Deleting
    BY DEF TypeOK, Tasks
  <2> QED
    BY <1>1, <1>3, <2>1 DEF Structure
<1> QED
  BY <1>2, <1>4, <1>5, <1>6 DEF Structure

\* A creation that failed leaves the map and the other thread as they were.
LEMMA FailsStep ==
  ASSUME TypeOK, Structure, NEW t \in Threads, task[t] # None, task[t].pc \in Creating, Fails(t)
  PROVE  /\ task' \in [Threads -> Tasks \cup {None}] /\ task'[t] = None
         /\ \A u \in Threads \ {t} : task'[u] = task[u]
         /\ object' \in [Objects -> Network \cup {None}]
         /\ object'[task[t].o] = None
         /\ \A o \in Objects \ {task[t].o} : object'[o] = object[o]
         /\ spoilt'
         /\ task[t].o # byFlannel /\ task[t].o # byDocker
         /\ \A u \in Threads \ {t} : task[u] # None => task[u].o # task[t].o
<1>1. task[t].o \in Objects
  BY DEF TypeOK, Tasks
<1>2. /\ task' \in [Threads -> Tasks \cup {None}] /\ task'[t] = None
      /\ \A u \in Threads \ {t} : task'[u] = task[u]
  BY DEF TypeOK, Fails
<1>3. /\ object' \in [Objects -> Network \cup {None}]
      /\ object'[task[t].o] = None
      /\ \A o \in Objects \ {task[t].o} : object'[o] = object[o]
  BY <1>1 DEF TypeOK, Fails
<1> QED
  BY <1>2, <1>3 DEF Structure, Fails

\* An answered call changes what is known of one endpoint, and no object comes or goes.
LEMMA AnsweredStep ==
  ASSUME TypeOK, Structure, NEW e \in Endpoints, NEW r \in Results, byDocker # None,
         Answered(e, r)
  PROVE  /\ object' \in [Objects -> Network \cup {None}]
         /\ object[byDocker] \in Network
         /\ object'[byDocker] = [object[byDocker] EXCEPT !.endpoints[e] = r.memory]
         /\ \A o \in Objects \ {byDocker} : object'[o] = object[o]
         /\ object'[byDocker] \in Network
         /\ record' \in [Endpoints -> Data] /\ veths' \subseteq Veths
         /\ troubled' \subseteq Endpoints
<1>1. byDocker \in Objects /\ object[byDocker] \in Network
  BY DEF TypeOK, Structure
<1>2. r.memory \in Data /\ r.record \in Data /\ r.veths \subseteq Veths
  BY DEF Results
<1>3. [object[byDocker] EXCEPT !.endpoints[e] = r.memory] \in Network
  BY <1>1, <1>2 DEF Network
<1>4. object'[byDocker] = [object[byDocker] EXCEPT !.endpoints[e] = r.memory]
  BY <1>1 DEF Answered, TypeOK
<1> QED
  BY <1>1, <1>2, <1>3, <1>4 DEF Answered, TypeOK

\* Nothing of the threads changes while a call for an endpoint is answered.
LEMMA EndpointStructure ==
  ASSUME TypeOK, Structure, EndpointRest, object' \in [Objects -> Network \cup {None}],
         \A o \in Objects : object[o] \in Network => object'[o] \in Network
  PROVE  Structure'
<1>1. /\ byFlannel \in Objects \cup {None} /\ byDocker \in Objects \cup {None}
      /\ \A t \in Threads : task[t] # None => task[t].o \in Objects
  BY DEF TypeOK, Tasks
<1>2. UNCHANGED <<byFlannel, byDocker, task, up>>
  BY DEF EndpointRest, nodeVars, mapVars
<1> QED
  BY <1>1, <1>2 DEF Structure

\* A call of Docker for an endpoint keeps the types and the structure.
LEMMA EndpointStep ==
  ASSUME TypeOK, Structure, NEW e \in Endpoints, Endpoint(e)
  PROVE  TypeOK' /\ Structure'
<1>1. ASSUME NEW r \in Results, byDocker # None, Answered(e, r),
             NEW s \in {"created", "joined", "running", "left", "gone"}, Attached(e, s), EndpointRest
      PROVE  TypeOK' /\ Structure'
  <2>1. TypeOK'
    <3>1. /\ object' \in [Objects -> Network \cup {None}]
          /\ record' \in [Endpoints -> Data] /\ veths' \subseteq Veths
          /\ troubled' \subseteq Endpoints
      BY <1>1, AnsweredStep
    <3>2. attached' \in [Endpoints -> {"none", "created", "joined", "running", "left", "gone"}]
      BY <1>1 DEF Attached, TypeOK
    <3> QED
      BY <1>1, <3>1, <3>2 DEF Attached, EndpointRest, nodeVars, mapVars, sweepVars, TypeOK
  <2>2. \A o \in Objects : object[o] \in Network => object'[o] \in Network
    BY <1>1, AnsweredStep
  <2> QED
    BY <1>1, <2>1, <2>2, AnsweredStep, EndpointStructure
<1>2. ASSUME Refused(e), NEW s \in {"created", "joined", "running", "left", "gone"}, Attached(e, s),
             EndpointRest
      PROVE  TypeOK' /\ Structure'
  <2>1. TypeOK'
    BY <1>2 DEF Refused, Attached, EndpointRest, nodeVars, mapVars, sweepVars, TypeOK
  <2>2. object' = object
    BY <1>2 DEF Refused
  <2> QED
    BY <1>2, <2>1, <2>2, EndpointStructure DEF TypeOK
<1>3. CASE CreateEndpoint(e)
  <2>1. Result(TRUE, "detached", "detached", veths) \in Results
        /\ Result(FALSE, "none", "none", veths) \in Results
        /\ Result(FALSE, "none", "detached", veths) \in Results
    BY DEF TypeOK, Result, Results, Data
  <2> QED
    BY <1>1, <1>2, <1>3, <2>1 DEF CreateEndpoint
<1>4. CASE Join(e)
  <2>1. ASSUME NEW v \in Veths, NEW q \in {record[e], v}
        PROVE  /\ Result(TRUE, v, v, veths \cup {v}) \in Results
               /\ Result(FALSE, v, q, veths \cup {v}) \in Results
    BY DEF TypeOK, Result, Results, Data
  <2>2. CASE /\ Known(e)
             /\ \E v \in Veths :
                  \/ Answered(e, Result(TRUE, v, v, veths \cup {v})) /\ Attached(e, "joined")
                  \/ /\ \E r \in {record[e], v} : Answered(e, Result(FALSE, v, r, veths \cup {v}))
                     /\ Attached(e, "left")
    BY <1>1, <1>4, <2>1, <2>2 DEF Join, Known
  <2>3. CASE Refused(e) /\ Attached(e, "left")
    BY <1>2, <1>4, <2>3 DEF Join
  <2> QED
    BY <1>4, <2>2, <2>3 DEF Join
<1>5. ASSUME Known(e) PROVE byDocker # None /\ object[byDocker].endpoints[e] \in Data
  BY <1>5 DEF Known, TypeOK, Structure, Network
<1>6. CASE Leave(e)
  <2>1. CASE Known(e)
    BY <1>1, <1>5, <1>6, <2>1, LeaveShape DEF Leave
  <2>2. CASE ~Known(e)
    BY <1>2, <1>6, <2>2 DEF Leave
  <2> QED
    BY <2>1, <2>2
<1>7. CASE DeleteEndpoint(e)
  <2>1. CASE Known(e)
    BY <1>1, <1>5, <1>7, <2>1, DeleteShape DEF DeleteEndpoint
  <2>2. CASE ~Known(e)
    BY <1>2, <1>7, <2>2 DEF DeleteEndpoint
  <2> QED
    BY <2>1, <2>2
<1>8. CASE EndUnheard(e) \/ Run(e)
  <2>1. TypeOK'
    BY <1>8 DEF EndUnheard, Run, Attached, EndpointRest, nodeVars, mapVars, sweepVars, TypeOK
  <2>2. object' = object /\ EndpointRest
    BY <1>8 DEF EndUnheard, Run
  <2> QED
    BY <2>1, <2>2, EndpointStructure DEF TypeOK
<1> QED
  BY <1>3, <1>4, <1>6, <1>7, <1>8 DEF Endpoint

\* The bounds are numbers.
LEMMA Bounds == MaxOutside \in Nat
BY FlannelNetworkAssumption

\* The events that are left when one is taken are events.
LEMMA TailType ==
  ASSUME TypeOK, events # <<>>
  PROVE  Tail(events) \in Seq({"added", "changed", "removed", "cleanup"})
BY DEF TypeOK

\* The steps of a creation that go on, that fail and that end it.
LEMMA AskedType ==
  ASSUME TypeOK, NEW t \in Threads, Asked(t)
  PROVE  /\ events' \in Seq({"added", "changed", "removed", "cleanup"})
         /\ outside' \in 0 .. MaxOutside
         /\ \A u \in Threads \ {t} : Overlap \/ task[u] = None
         /\ task[t] = None
<1>1. CASE t = "docker"
  <2>1. outside' = outside + 1 /\ outside < MaxOutside /\ events' = events
    BY <1>1 DEF Asked, FromOutside
  <2>2. outside \in 0 .. MaxOutside /\ events \in Seq({"added", "changed", "removed", "cleanup"})
    BY DEF TypeOK
  <2> QED
    BY <2>1, <2>2, Bounds DEF Asked, Idle, Alone
<1>2. CASE t = "events"
  <2>1. events # <<>> /\ events' = Tail(events) /\ outside' = outside
    BY <1>2 DEF Asked, Announced
  <2> QED
    BY <2>1, TailType DEF TypeOK, Asked, Idle, Alone
<1> QED
  BY <1>1, <1>2 DEF Threads

\* The type of the state where a task changes its object, the configuration and the kernel.
LEMMA TaskTypeFrame ==
  ASSUME TypeOK,
         UNCHANGED <<dockerVars, nodeVars, mapVars, record, veths, troubled, lost, sweepVars>>,
         task' \in [Threads -> Tasks \cup {None}], object' \in [Objects -> Network \cup {None}],
         config' \in Config \cup {None}, processes' \subseteq Objects, links' \subseteq VNIs,
         bridge' \in BOOLEAN, spoilt' \in BOOLEAN
  PROVE  TypeOK'
BY DEF TypeOK, dockerVars, nodeVars, mapVars, sweepVars

\* A creation that only moves on keeps the types and the structure.
LEMMA CreateGoto ==
  ASSUME TypeOK, Structure, NEW t \in Threads, task[t] # None, task[t].pc \in Creating,
         NEW pc \in Creating, Goto(t, pc),
         object' \in [Objects -> Network \cup {None}],
         \A o \in Objects : object[o] \in Network => object'[o] \in Network,
         UNCHANGED mapVars, up'
  PROVE  task' \in [Threads -> Tasks \cup {None}] /\ Structure'
<1>1. /\ task' \in [Threads -> Tasks \cup {None}]
      /\ task'[t].o = task[t].o /\ task'[t].pc \in Creating
      /\ \A u \in Threads \ {t} : task'[u] = task[u]
  <2>1. pc \in Creating \cup Deleting
    OBVIOUS
  <2> HIDE DEF Goto
  <2>2. /\ task' \in [Threads -> Tasks \cup {None}]
        /\ task'[t] = [pc |-> pc, o |-> task[t].o, todo |-> task[t].todo, seen |-> task[t].seen]
        /\ \A u \in Threads \ {t} : task'[u] = task[u]
    BY <2>1, GotoType
  <2> QED
    BY <2>2
<1> QED
  BY <1>1, TaskStructure

\* A creation that fails keeps the structure.
LEMMA CreateFails ==
  ASSUME TypeOK, Structure, NEW t \in Threads, task[t] # None, task[t].pc \in Creating,
         Fails(t), UNCHANGED mapVars, up'
  PROVE  Structure'
<1>1. /\ task' \in [Threads -> Tasks \cup {None}] /\ task'[t] = None
      /\ \A u \in Threads \ {t} : task'[u] = task[u]
      /\ \A o \in Objects \ {task[t].o} : object'[o] = object[o]
  BY FailsStep
<1> QED
  BY <1>1, TaskStructure

\* Every step of a creation keeps the types and the structure.
LEMMA CreateStep ==
  ASSUME TypeOK, Structure, NEW t \in Threads, Create(t)
  PROVE  TypeOK' /\ Structure'
<1> USE DEF dockerVars, nodeVars, mapVars, etcdVars, kernelVars, historyVars, sweepVars
<1>0. ASSUME NEW pc \in Creating, At(t, pc)
      PROVE  /\ task[t] # None /\ task[t] \in Tasks /\ task[t].pc = pc /\ task[t].o \in Objects
             /\ object[task[t].o] \in Network /\ up
  BY <1>0 DEF At, TypeOK, Structure, Tasks
<1>c. /\ "config" \in Creating /\ "commit" \in Creating /\ "reread" \in Creating
      /\ "start" \in Creating /\ "load" \in Creating /\ "endpoints" \in Creating
      /\ "reconcile" \in Creating
  BY DEF Creating
<1>1. CASE AlreadyThere(t)
  <2>1. TypeOK'
    <3>1. Asked(t) /\ UNCHANGED <<object, task, spoilt>>
          /\ byFlannel' \in {byFlannel, byDocker} /\ byDocker' \in {byFlannel, byDocker}
      BY <1>1 DEF AlreadyThere, Get
    <3>2. events' \in Seq({"added", "changed", "removed", "cleanup"}) /\ outside' \in 0 .. MaxOutside
      BY <3>1, AskedType
    <3> QED
      BY <3>1, <3>2 DEF Asked, TypeOK
  <2>2. /\ task[t] = None /\ up /\ up' = up /\ UNCHANGED <<object, task, byFlannel>>
        /\ byDocker' = byDocker \/ (t = "events" /\ byDocker = None /\ byDocker' = byFlannel)
    BY <1>1, AskedType DEF AlreadyThere, Asked, Idle, Get, Structure
  <2>3. Structure'
    BY <2>2 DEF Structure
  <2> QED
    BY <2>1, <2>3
<1>2. CASE NewNetwork(t)
  <2>1. events' \in Seq({"added", "changed", "removed", "cleanup"}) /\ outside' \in 0 .. MaxOutside
    BY <1>2, AskedType DEF NewNetwork
  <2>2. /\ task[t] = None /\ up /\ up' = up /\ UNCHANGED <<byFlannel, byDocker>>
        /\ t = "events" => byDocker = None
    BY <1>2, AskedType DEF NewNetwork, Asked, Idle, Missing, Found
  <2>4. ASSUME NEW o \in Objects, NEW v \in VNIs,
               object' = [object EXCEPT ![o] =
                  [vni |-> v, process |-> FALSE, endpoints |-> [e \in Endpoints |-> "none"]]],
               task' = [task EXCEPT ![t] = Task("config", o)]
        PROVE  /\ object' \in [Objects -> Network \cup {None}] /\ object'[o] \in Network
               /\ \A p \in Objects \ {o} : object'[p] = object[p]
               /\ task' \in [Threads -> Tasks \cup {None}]
               /\ task'[t].o = o /\ task'[t].pc = "config"
               /\ \A u \in Threads \ {t} : task'[u] = task[u]
    <3>1. [vni |-> v, process |-> FALSE, endpoints |-> [e \in Endpoints |-> "none"]] \in Network
      BY DEF Network, Data
    <3>2. Task("config", o) \in Tasks
      BY DEF Task, Tasks, Creating
    <3>3. Task("config", o).o = o /\ Task("config", o).pc = "config"
      BY DEF Task
    <3> QED
      BY <2>4, <3>1, <3>2, <3>3 DEF TypeOK
  <2>t. ASSUME object' \in [Objects -> Network \cup {None}], task' \in [Threads -> Tasks \cup {None}]
        PROVE  TypeOK'
    <3>1. spoilt' \in BOOLEAN
      BY <1>2 DEF NewNetwork, TypeOK
    <3>2. /\ UNCHANGED <<docker, attached, up, loaded, ready, cleaner, config, record>>
          /\ UNCHANGED <<processes, links, bridge, veths, troubled, lost, overlooked, swept>>
      BY <1>2 DEF NewNetwork, Asked
    <3> QED
      BY <2>1, <2>2, <2>t, <3>1, <3>2 DEF TypeOK
  <2>5. CASE UNCHANGED <<object, task>>
    <3>1. TypeOK'
      BY <2>5, <2>t DEF TypeOK
    <3>2. Structure'
      BY <2>2, <2>5 DEF Structure
    <3> QED
      BY <3>1, <3>2
  <2>6. ASSUME NEW o \in Objects, NEW v \in VNIs, object[o] = None,
               object' = [object EXCEPT ![o] =
                  [vni |-> v, process |-> FALSE, endpoints |-> [e \in Endpoints |-> "none"]]],
               task' = [task EXCEPT ![t] = Task("config", o)]
        PROVE  TypeOK' /\ Structure'
    <3>1. /\ object' \in [Objects -> Network \cup {None}] /\ object'[o] \in Network
          /\ \A p \in Objects \ {o} : object'[p] = object[p]
          /\ task' \in [Threads -> Tasks \cup {None}]
          /\ task'[t].o = o /\ task'[t].pc = "config"
          /\ \A u \in Threads \ {t} : task'[u] = task[u]
      BY <2>4, <2>6
    <3>2. TypeOK'
      BY <2>t, <3>1
    <3>3. /\ \A p \in Objects : object[p] \in Network => p # o /\ object'[p] \in Network
          /\ "config" \notin Deleting /\ "events" \in Threads
      BY <2>6, <3>1, FlannelNetworkAssumption DEF Deleting, Threads
    <3>4. /\ byFlannel \in Objects \cup {None} /\ byDocker \in Objects \cup {None}
          /\ \A u \in Threads : task[u] # None => task[u].o \in Objects
          /\ o # byFlannel /\ o # byDocker /\ \A u \in Threads : task[u] # None => task[u].o # o
      BY <2>6, <3>3, FlannelNetworkAssumption DEF TypeOK, Tasks, Structure
    <3>5. Structure'
      BY <1>c, <2>2, <3>1, <3>3, <3>4 DEF Structure
    <3> QED
      BY <3>2, <3>5
  <2> QED
    BY <1>2, <2>5, <2>6 DEF NewNetwork
<1>3. CASE ReadConfig(t)
  <2>1. CASE Fails(t)
    <3>1. Structure' /\ task' \in [Threads -> Tasks \cup {None}] /\ spoilt'
          /\ object' \in [Objects -> Network \cup {None}]
      BY <1>0, <1>c, <1>3, <2>1, FailsStep, CreateFails DEF ReadConfig
    <3>2. TypeOK'
      BY <1>3, <3>1 DEF ReadConfig, TypeOK
    <3> QED
      BY <3>1, <3>2
  <2>2. CASE Goto(t, IF config # None THEN "start" ELSE "commit") /\ UNCHANGED <<object, spoilt>>
    BY <1>0, <1>c, <1>3, <2>2, CreateGoto DEF ReadConfig, TypeOK
  <2> QED
    BY <1>3, <2>1, <2>2 DEF ReadConfig
<1>4. CASE CommitConfig(t)
  <2>0. [vni |-> object[task[t].o].vni, by |-> 0] \in Config
    BY <1>0, <1>c, <1>4, Bounds DEF CommitConfig, Network, Config
  <2>1. CASE Fails(t)
    <3>1. Structure' /\ task' \in [Threads -> Tasks \cup {None}] /\ spoilt'
          /\ object' \in [Objects -> Network \cup {None}]
      BY <1>0, <1>c, <1>4, <2>1, FailsStep, CreateFails DEF CommitConfig
    <3>2. /\ UNCHANGED <<dockerVars, nodeVars, mapVars, record, kernelVars, troubled, lost, sweepVars>>
          /\ config' \in {config, [vni |-> object[task[t].o].vni, by |-> 0]}
      BY <1>4 DEF CommitConfig
    <3>3. /\ UNCHANGED veths /\ config' \in Config \cup {None}
          /\ processes' \subseteq Objects /\ links' \subseteq VNIs /\ bridge' \in BOOLEAN
      BY <2>0, <3>2 DEF TypeOK, kernelVars
    <3>4. TypeOK'
      BY <3>1, <3>2, <3>3, TaskTypeFrame
    <3> QED
      BY <3>1, <3>4
  <2>2. CASE (Goto(t, "start") \/ Goto(t, "reread")) /\ UNCHANGED <<object, spoilt>>
    <3>1. task' \in [Threads -> Tasks \cup {None}] /\ Structure'
      BY <1>0, <1>c, <1>4, <2>2, CreateGoto DEF CommitConfig, TypeOK
    <3> QED
      BY <1>4, <2>0, <2>2, <3>1 DEF CommitConfig, TypeOK
  <2> QED
    BY <1>4, <2>1, <2>2 DEF CommitConfig
<1>5. CASE RereadConfig(t)
  <2>1. CASE Fails(t)
    <3>1. Structure' /\ task' \in [Threads -> Tasks \cup {None}] /\ spoilt'
          /\ object' \in [Objects -> Network \cup {None}]
      BY <1>0, <1>c, <1>5, <2>1, FailsStep, CreateFails DEF RereadConfig
    <3>2. TypeOK'
      BY <1>5, <3>1 DEF RereadConfig, TypeOK
    <3> QED
      BY <3>1, <3>2
  <2>2. CASE Goto(t, "start") /\ UNCHANGED <<object, spoilt>>
    BY <1>0, <1>c, <1>5, <2>2, CreateGoto DEF RereadConfig, TypeOK
  <2> QED
    BY <1>5, <2>1, <2>2 DEF RereadConfig
<1>6. CASE StartFlannel(t)
  <2>0. processes' \subseteq Objects /\ links' \subseteq VNIs
    BY <1>0, <1>c, <1>6 DEF StartFlannel, TypeOK, Config
  <2>1. CASE Fails(t)
    <3>1. Structure' /\ task' \in [Threads -> Tasks \cup {None}] /\ spoilt'
          /\ object' \in [Objects -> Network \cup {None}]
      BY <1>0, <1>c, <1>6, <2>1, FailsStep, CreateFails DEF StartFlannel
    <3>2. TypeOK'
      BY <1>6, <2>0, <3>1 DEF StartFlannel, TypeOK
    <3> QED
      BY <3>1, <3>2
  <2>2. CASE Goto(t, "load") /\ UNCHANGED <<object, spoilt>>
    BY <1>0, <1>c, <1>6, <2>0, <2>2, CreateGoto
    DEF StartFlannel, TypeOK
  <2> QED
    BY <1>6, <2>1, <2>2 DEF StartFlannel
<1>7. CASE LoadFlannelConfig(t)
  <2>1. CASE Fails(t)
    <3>1. Structure' /\ task' \in [Threads -> Tasks \cup {None}] /\ spoilt'
          /\ object' \in [Objects -> Network \cup {None}]
      BY <1>0, <1>c, <1>7, <2>1, FailsStep, CreateFails DEF LoadFlannelConfig
    <3>2. /\ UNCHANGED <<dockerVars, nodeVars, mapVars, etcdVars, links, veths, troubled, lost, sweepVars>>
          /\ bridge' \in {bridge, TRUE} /\ processes' \subseteq processes
      BY <1>7 DEF LoadFlannelConfig
    <3>3. /\ UNCHANGED record /\ config' \in Config \cup {None}
          /\ processes' \subseteq Objects /\ links' \subseteq VNIs /\ bridge' \in BOOLEAN
      BY <1>0, <1>c, <3>2 DEF TypeOK, etcdVars
    <3>4. TypeOK'
      BY <3>1, <3>2, <3>3, TaskTypeFrame
    <3> QED
      BY <3>1, <3>4
  <2>2. CASE /\ object' = [object EXCEPT ![task[t].o].process = TRUE]
             /\ Goto(t, "endpoints") /\ UNCHANGED <<processes, spoilt>> /\ bridge' = TRUE
    <3>1. [object[task[t].o] EXCEPT !.process = TRUE] \in Network
      BY <1>0, <1>c, <1>7 DEF LoadFlannelConfig, Network
    <3>2. /\ object' \in [Objects -> Network \cup {None}]
          /\ \A o \in Objects : object[o] \in Network => object'[o] \in Network
      BY <1>0, <1>c, <1>7, <2>2, <3>1 DEF LoadFlannelConfig, TypeOK
    <3>3. task' \in [Threads -> Tasks \cup {None}] /\ Structure'
      BY <1>0, <1>c, <1>7, <2>2, <3>2, CreateGoto DEF LoadFlannelConfig
    <3> QED
      BY <1>7, <2>2, <3>2, <3>3 DEF LoadFlannelConfig, TypeOK
  <2> QED
    BY <1>7, <2>1, <2>2 DEF LoadFlannelConfig
<1>8. CASE LoadEndpoints(t)
  <2>1. CASE Fails(t)
    <3>1. Structure' /\ task' \in [Threads -> Tasks \cup {None}] /\ spoilt'
          /\ object' \in [Objects -> Network \cup {None}]
      BY <1>0, <1>c, <1>8, <2>1, FailsStep, CreateFails DEF LoadEndpoints
    <3>2. TypeOK'
      BY <1>8, <3>1 DEF LoadEndpoints, TypeOK
    <3> QED
      BY <3>1, <3>2
  <2>2. CASE /\ task' = [task EXCEPT ![t].pc = "reconcile",
                                     ![t].todo = {e \in Endpoints : record[e] # "none"}]
             /\ object' = [object EXCEPT ![task[t].o].endpoints = record]
             /\ UNCHANGED spoilt
    <3> DEFINE next == [task[t] EXCEPT !.pc = "reconcile",
                                       !.todo = {e \in Endpoints : record[e] # "none"}]
    <3>a. [object[task[t].o] EXCEPT !.endpoints = record] \in Network
      BY <1>0, <1>c, <1>8 DEF LoadEndpoints, Network, TypeOK
    <3>b. /\ object' \in [Objects -> Network \cup {None}]
          /\ \A o \in Objects : object[o] \in Network => object'[o] \in Network
      BY <2>2, <3>a DEF TypeOK
    <3>0. task[t] \in Tasks /\ next \in Tasks /\ next.o = task[t].o /\ next.pc \in Creating
      BY <1>0, <1>c, <1>8 DEF LoadEndpoints, Tasks
    <3>1. /\ task' \in [Threads -> Tasks \cup {None}]
          /\ task'[t].o = task[t].o /\ task'[t].pc \in Creating
          /\ \A u \in Threads \ {t} : task'[u] = task[u]
      <4>1. task' = [task EXCEPT ![t] = next] /\ task \in [Threads -> Tasks \cup {None}]
        BY <2>2 DEF TypeOK
      <4>2. task'[t] = next /\ \A u \in Threads \ {t} : task'[u] = task[u]
        BY <4>1
      <4>3. task' \in [Threads -> Tasks \cup {None}]
        BY <3>0, <4>1
      <4> QED
        BY <3>0, <4>2, <4>3
    <3>2. Structure'
      <4>1. task[t] # None /\ task[t].pc \in Creating /\ up
        BY <1>0, <1>c, <1>8 DEF LoadEndpoints
      <4>2. UNCHANGED <<mapVars, up>>
        BY <1>8, <2>2 DEF LoadEndpoints
      <4> HIDE DEF dockerVars, nodeVars, mapVars, etcdVars, kernelVars, historyVars, sweepVars
      <4> QED
        BY <3>1, <3>b, <4>1, <4>2, TaskStructure
    <3> QED
      BY <1>8, <2>2, <3>1, <3>b, <3>2 DEF LoadEndpoints, TypeOK
  <2> QED
    BY <1>8, <2>1, <2>2 DEF LoadEndpoints
<1>9. CASE Created(t)
  <2>1. /\ task' \in [Threads -> Tasks \cup {None}] /\ task'[t] = None
        /\ \A u \in Threads \ {t} : task'[u] = task[u]
        /\ UNCHANGED <<object, up>> /\ byFlannel' = task[t].o
        /\ IF t = "events" THEN byDocker' = task[t].o ELSE byDocker' = byDocker
    BY <1>9 DEF Created, Set, TypeOK
  <2>2. task[t].o \in Objects /\ object[task[t].o] \in Network /\ up
        /\ task[t].o # None /\ task[t].pc \in Creating /\ task[t] # None
    BY <1>0, <1>c, <1>9, FlannelNetworkAssumption DEF Created
  <2>3. TypeOK'
    BY <1>9, <2>1, <2>2 DEF Created, TypeOK
  <2>4. \A u \in Threads : task'[u] # None =>
          u # t /\ task[u] # None /\ task'[u] = task[u] /\ task[u].o # task[t].o
    BY <2>1, <2>2 DEF Structure
  <2>5. "events" \in Threads
    BY DEF Threads
  <2>6. /\ byDocker' # None => byFlannel' # None /\ object'[byDocker'] \in Network
        /\ byFlannel' # None => object'[byFlannel'] \in Network
    BY <2>1, <2>2 DEF Structure
  <2>7. /\ \A u \in Threads : task'[u] # None =>
             /\ object'[task'[u].o] \in Network
             /\ task'[u].pc \in Creating => task'[u].o # byFlannel' /\ task'[u].o # byDocker'
             /\ u = "docker" => task'[u].pc \in Creating
        /\ \A u, w \in Threads :
             task'[u] # None /\ task'[w] # None /\ u # w => task'[u].o # task'[w].o
    BY <2>1, <2>2, <2>4 DEF Structure
  <2>8. task'["events"] # None =>
          /\ task'["events"].pc \in Creating => byDocker' = None
          /\ task'["events"].pc \in Deleting => byDocker' = task'["events"].o
    BY <2>1, <2>4, <2>5 DEF Structure
  <2>9. Structure'
    BY <2>1, <2>2, <2>6, <2>7, <2>8 DEF Structure
  <2> QED
    BY <2>3, <2>9
<1>10. ASSUME NEW e \in Endpoints, Reconcile(t, e) PROVE TypeOK' /\ Structure'
  <2>1. /\ task' \in [Threads -> Tasks \cup {None}]
        /\ task'[t].o = task[t].o /\ task'[t].pc \in Creating
        /\ \A u \in Threads \ {t} : task'[u] = task[u]
    <3> DEFINE next == [task[t] EXCEPT !.todo = @ \ {e}]
    <3>1. task[t] \in Tasks /\ next \in Tasks /\ next.o = task[t].o /\ next.pc \in Creating
      BY <1>0, <1>c, <1>10 DEF Reconcile, Tasks
    <3>2. task' = [task EXCEPT ![t] = next]
      BY <1>10 DEF Reconcile
    <3> QED
      BY <3>1, <3>2 DEF TypeOK
  <2>2. object[task[t].o].endpoints[e] \in Data
    BY <1>0, <1>c, <1>10 DEF Reconcile, Network
  <2>a. /\ task[t] # None /\ task[t].pc \in Creating /\ up /\ up' = up
        /\ UNCHANGED <<byFlannel, byDocker>>
    BY <1>0, <1>c, <1>10 DEF Reconcile
  <2>s. ASSUME object' \in [Objects -> Network \cup {None}],
               \A o \in Objects : object[o] \in Network => object'[o] \in Network
        PROVE  Structure'
    <3> HIDE DEF dockerVars, nodeVars, etcdVars, kernelVars, historyVars, sweepVars
    <3> QED
      BY <2>s, <2>1, <2>a, TaskStructure DEF mapVars
  <2>3. CASE UNCHANGED <<object, record, veths, troubled, overlooked>>
    <3>1. Structure'
      BY <2>s, <2>3 DEF TypeOK
    <3> QED
      BY <1>10, <2>1, <2>3, <3>1 DEF Reconcile, TypeOK
  <2>4. CASE /\ object' = [object EXCEPT ![task[t].o].endpoints[e] = "none"]
             /\ \E r \in DeleteResults(e, object[task[t].o].endpoints[e]) :
                  /\ record' = [record EXCEPT ![e] = r.record] /\ veths' = r.veths
                  /\ troubled' = IF r.done THEN troubled ELSE troubled \cup {e}
             /\ overlooked' = IF Starting(e) THEN overlooked \cup {e} ELSE overlooked
    <3>1. PICK r \in DeleteResults(e, object[task[t].o].endpoints[e]) :
            /\ record' = [record EXCEPT ![e] = r.record] /\ veths' = r.veths
            /\ troubled' = IF r.done THEN troubled ELSE troubled \cup {e}
      BY <2>4
    <3>2. r \in Results
      BY <2>2, DeleteShape
    <3>3. /\ record' \in [Endpoints -> Data] /\ veths' \subseteq Veths
          /\ troubled' \subseteq Endpoints /\ overlooked' \subseteq Endpoints
      BY <2>4, <3>1, <3>2 DEF TypeOK, Results
    <3>4. [object[task[t].o] EXCEPT !.endpoints[e] = "none"] \in Network
      BY <1>0, <1>c, <1>10 DEF Reconcile, Network, Data
    <3>5. /\ object' \in [Objects -> Network \cup {None}]
          /\ \A o \in Objects : object[o] \in Network => object'[o] \in Network
      BY <2>4, <3>4 DEF TypeOK
    <3>6. Structure'
      BY <2>s, <3>5
    <3> QED
      BY <1>10, <2>1, <3>3, <3>5, <3>6 DEF Reconcile, TypeOK
  <2> QED
    BY <1>10, <2>3, <2>4 DEF Reconcile
<1> QED
  BY <1>1, <1>2, <1>3, <1>4, <1>5, <1>6, <1>7, <1>8, <1>9, <1>10 DEF Create

\* What a removal leaves alone, and the type of the state where it deletes the configuration.
RemovalFrame == <<dockerVars, nodeVars, mapVars, troubled, lost, sweepVars>>

LEMMA RemovalTypeFrame ==
  ASSUME TypeOK, UNCHANGED <<object, record, kernelVars, RemovalFrame>>,
         task' \in [Threads -> Tasks \cup {None}], config' \in {config, None},
         spoilt' \in {spoilt, TRUE, FALSE}
  PROVE  TypeOK'
<1>1. /\ UNCHANGED <<dockerVars, nodeVars, mapVars, record, veths, troubled, lost, sweepVars>>
      /\ UNCHANGED <<object, processes, links, bridge>>
  BY DEF RemovalFrame, kernelVars
<1>2. /\ object' \in [Objects -> Network \cup {None}] /\ config' \in Config \cup {None}
      /\ processes' \subseteq Objects /\ links' \subseteq VNIs /\ bridge' \in BOOLEAN
      /\ spoilt' \in BOOLEAN
  BY <1>1 DEF TypeOK
<1> QED
  BY <1>1, <1>2, TaskTypeFrame

\* A removal that goes on, and a crash.
LEMMA DeleteGoesOn ==
  ASSUME TypeOK, Structure, task["events"] # None, task["events"].pc \in Deleting,
         task' \in [Threads -> Tasks \cup {None}],
         task'["events"].o = task["events"].o, task'["events"].pc \in Deleting,
         task'["docker"] = task["docker"],
         object' \in [Objects -> Network \cup {None}],
         \A o \in Objects : object[o] \in Network => object'[o] \in Network,
         UNCHANGED mapVars, up'
  PROVE  Structure'
<1>1. /\ "events" \in Threads /\ Creating \cap Deleting = {}
      /\ \A u \in Threads \ {"events"} : task'[u] = task[u]
  BY DEF Threads, Creating, Deleting
<1>2. task["events"].pc \notin Creating /\ task'["events"].pc \notin Creating
  BY <1>1
<1> QED
  BY <1>1, <1>2, TaskStructure

\* A process that ends leaves a typed and structured state.
LEMMA DownStep ==
  ASSUME TypeOK, Down
  PROVE  /\ up' \in BOOLEAN /\ loaded' \in BOOLEAN /\ ready' \in BOOLEAN
         /\ cleaner' = None /\ swept' \in BOOLEAN
         /\ events' \in Seq({"added", "changed", "removed", "cleanup"})
         /\ byFlannel' = None /\ byDocker' = None
         /\ object' \in [Objects -> Network \cup {None}]
         /\ task' \in [Threads -> Tasks \cup {None}]
         /\ processes' \subseteq Objects /\ spoilt' \in BOOLEAN
         /\ Structure'
<1>1. /\ byFlannel' = None /\ byDocker' = None
      /\ object' = [o \in Objects |-> None] /\ task' = [t \in Threads |-> None]
      /\ up' = FALSE /\ loaded' = FALSE /\ ready' = FALSE /\ events' = <<>> /\ cleaner' = None
      /\ processes' = {} /\ spoilt' = FALSE /\ swept' = FALSE
  BY DEF Down
<1>2. Structure'
  <2>1. "events" \in Threads /\ \A t \in Threads : task'[t] = None
    BY <1>1 DEF Threads
  <2>2. byFlannel' = None /\ byDocker' = None
    BY <1>1
  <2> QED
    BY <2>1, <2>2 DEF Structure
<1>3. <<>> \in Seq({"added", "changed", "removed", "cleanup"})
  OBVIOUS
<1>4. /\ object' \in [Objects -> Network \cup {None}]
      /\ task' \in [Threads -> Tasks \cup {None}]
  BY <1>1
<1> QED
  BY <1>1, <1>2, <1>3, <1>4

\* Every step of a deletion keeps the types and the structure.
LEMMA DeleteStep ==
  ASSUME TypeOK, Structure, Delete
  PROVE  TypeOK' /\ Structure'
<1> USE DEF dockerVars, nodeVars, mapVars, etcdVars, kernelVars, historyVars, sweepVars
<1>c. /\ "events" \in Threads /\ "docker" \in Threads
      /\ \A t \in Threads : t = "events" \/ t = "docker"
      /\ "delete" \in Deleting /\ "revision" \in Deleting /\ "commit deletion" \in Deleting
      /\ "interfaces" \in Deleting /\ "cleanup" \in Deleting /\ "remove" \in Deleting
  BY DEF Threads, Deleting
<1>0. ASSUME NEW pc \in Deleting, Removing(pc)
      PROVE  /\ task["events"] # None /\ task["events"] \in Tasks /\ Removed \in Objects
             /\ object[Removed] \in Network /\ task["events"].pc = pc /\ up
             /\ byDocker = Removed /\ Removed # None
  BY <1>0, <1>c, FlannelNetworkAssumption DEF Removing, At, Removed, TypeOK, Structure, Tasks
\* Where the object stays as it is.
<1>1. ASSUME NEW pc \in Deleting, Removing(pc), NEW next \in Deleting, Goto("events", next),
             object' \in [Objects -> Network \cup {None}],
             \A o \in Objects : object[o] \in Network => object'[o] \in Network,
             UNCHANGED <<mapVars, up>>
      PROVE  task' \in [Threads -> Tasks \cup {None}] /\ Structure'
  <2>1. /\ task' \in [Threads -> Tasks \cup {None}]
        /\ task'["events"].o = task["events"].o /\ task'["events"].pc \in Deleting
        /\ task'["docker"] = task["docker"]
    <3>1. next \in Creating \cup Deleting
      BY <1>1
    <3>2. /\ task' \in [Threads -> Tasks \cup {None}]
          /\ task'["events"] = [pc |-> next, o |-> task["events"].o,
                                todo |-> task["events"].todo, seen |-> task["events"].seen]
          /\ \A u \in Threads \ {"events"} : task'[u] = task[u]
      BY <1>0, <1>1, <1>c, <3>1, GotoType
    <3>3. task'["docker"] = task["docker"]
      BY <1>c, <3>2
    <3>4. task'["events"].o = task["events"].o /\ task'["events"].pc = next
      BY <3>2
    <3> QED
      BY <1>1, <3>2, <3>3, <3>4
  <2> QED
    BY <1>0, <1>1, <2>1, DeleteGoesOn
<1>2. CASE HandleNetworkRemoved
  <2>0. task["events"] = None /\ up
    BY <1>2 DEF HandleNetworkRemoved, Idle
  <2>1. CASE Conflict
    <3>1. Down /\ lost' \subseteq Veths
      BY <1>2, <2>1 DEF HandleNetworkRemoved, TypeOK
    <3> QED
      BY <1>2, <3>1, DownStep DEF HandleNetworkRemoved, TypeOK
  <2>2. CASE ~Conflict
    <3>1. /\ events' \in Seq({"added", "changed", "removed", "cleanup"})
          /\ UNCHANGED <<up, loaded, ready, cleaner, object, processes, spoilt, swept, lost>>
          /\ byFlannel' = byFlannel
          /\ byDocker' = Found("events") /\ Found("events") \in {byFlannel, byDocker}
          /\ task' = IF Found("events") = None THEN task
                     ELSE [task EXCEPT !["events"] = Task("delete", Found("events"))]
      BY <1>2, <2>2, TailType DEF HandleNetworkRemoved, Announced, Get, Found, Structure
    <3>2. Found("events") # None =>
            Task("delete", Found("events")) \in Tasks /\ object[Found("events")] \in Network
      <4>1. ASSUME Found("events") # None
            PROVE  Found("events") \in Objects /\ object[Found("events")] \in Network
        BY <3>1, <4>1 DEF TypeOK, Structure
      <4>2. \A o \in Objects : Task("delete", o) \in Tasks
        BY <1>c DEF Task, Tasks
      <4> QED
        BY <4>1, <4>2
    <3>3. task' \in [Threads -> Tasks \cup {None}]
      BY <1>c, <3>1, <3>2 DEF TypeOK
    <3>4. TypeOK'
      BY <1>2, <3>1, <3>3 DEF HandleNetworkRemoved, TypeOK
    <3>5. CASE Found("events") = None
      <4>1. task' = task /\ byFlannel = None /\ byDocker = None
        BY <3>1, <3>5 DEF Found, Structure
      <4>2. Structure'
        BY <2>0, <3>1, <3>5, <4>1 DEF Structure
      <4> QED
        BY <3>4, <4>2
    <3>6. CASE Found("events") # None
      <4>1. /\ task'["events"] # None /\ task'["docker"] = task["docker"]
            /\ task'["events"].o = Found("events") /\ task'["events"].pc = "delete"
            /\ "delete" \notin Creating /\ "docker" # "events"
        BY <1>c, <3>1, <3>2, <3>6, FlannelNetworkAssumption DEF TypeOK, Task, Creating
      <4>2. byFlannel # None /\ (Found("events") = byFlannel \/ Found("events") = byDocker)
        BY <3>1, <3>6 DEF Structure
      <4>3. task["docker"] # None => /\ task["docker"].pc \in Creating
                                     /\ object[task["docker"].o] \in Network
                                     /\ task["docker"].o # byFlannel /\ task["docker"].o # byDocker
        BY <1>c DEF Structure
      <4>4. \A t \in Threads : task'[t] # None =>
              /\ object'[task'[t].o] \in Network
              /\ task'[t].pc \in Creating => task'[t].o # byFlannel' /\ task'[t].o # byDocker'
              /\ t = "docker" => task'[t].pc \in Creating
        BY <1>c, <3>1, <3>2, <3>6, <4>1, <4>2, <4>3
      <4>5. \A t, u \in Threads :
              task'[t] # None /\ task'[u] # None /\ t # u => task'[t].o # task'[u].o
        BY <1>c, <4>1, <4>2, <4>3
      <4>6. Structure'
        BY <2>0, <3>1, <3>2, <3>6, <4>1, <4>2, <4>4, <4>5 DEF Structure
      <4> QED
        BY <3>4, <4>6
    <3> QED
      BY <3>5, <3>6
  <2> QED
    BY <2>1, <2>2
<1>3. CASE DeleteProcess
  <2>1. CASE EndFlannelDaemonProcess /\ Goto("events", "revision") /\ UNCHANGED spoilt
    <3>1. [object[Removed] EXCEPT !.process = FALSE] \in Network
      BY <1>0, <1>3, <1>c DEF DeleteProcess, Network
    <3>2. /\ object' \in [Objects -> Network \cup {None}]
          /\ \A o \in Objects : object[o] \in Network => object'[o] \in Network
          /\ processes' \subseteq Objects
      BY <1>0, <1>3, <1>c, <2>1, <3>1 DEF DeleteProcess, EndFlannelDaemonProcess, TypeOK
    <3>3. task' \in [Threads -> Tasks \cup {None}] /\ Structure'
      BY <1>1, <1>3, <1>c, <2>1, <3>2 DEF DeleteProcess, RemovalRest
    <3> QED
      BY <1>3, <2>1, <3>2, <3>3 DEF DeleteProcess, RemovalRest, TypeOK
  <2>2. CASE DeletionFails /\ UNCHANGED <<object, processes>>
    <3>1. task' \in [Threads -> Tasks \cup {None}] /\ Structure'
      BY <1>1, <1>3, <1>c, <2>2 DEF DeleteProcess, RemovalRest, DeletionFails, TypeOK
    <3> QED
      BY <1>3, <2>2, <3>1 DEF DeleteProcess, RemovalRest, DeletionFails, TypeOK
  <2> QED
    BY <1>3, <2>1, <2>2 DEF DeleteProcess
<1>4. CASE ReadRevision
  <2>1. CASE /\ task' = [task EXCEPT !["events"].pc = "commit deletion", !["events"].seen = config]
             /\ UNCHANGED spoilt
    <3> DEFINE next == [task["events"] EXCEPT !.pc = "commit deletion", !.seen = config]
    <3>1. next \in Tasks /\ next.o = task["events"].o /\ next.pc \in Deleting
      BY <1>0, <1>4, <1>c DEF ReadRevision, Tasks, TypeOK
    <3>2. /\ task' \in [Threads -> Tasks \cup {None}]
          /\ task'["events"].o = task["events"].o /\ task'["events"].pc \in Deleting
          /\ task'["docker"] = task["docker"]
      BY <1>c, <2>1, <3>1 DEF TypeOK
    <3>3. Structure'
      BY <1>0, <1>4, <1>c, <3>2, DeleteGoesOn DEF ReadRevision, RemovalRest, TypeOK
    <3>4. UNCHANGED <<object, config, record, kernelVars, RemovalFrame>>
      BY <1>4 DEF ReadRevision, RemovalRest, RemovalFrame
    <3> QED
      BY <2>1, <3>2, <3>3, <3>4, RemovalTypeFrame
  <2>2. CASE DeletionFails
    <3>1. task' \in [Threads -> Tasks \cup {None}] /\ Structure'
      BY <1>1, <1>4, <1>c, <2>2 DEF ReadRevision, RemovalRest, DeletionFails, TypeOK
    <3>2. UNCHANGED <<object, config, record, kernelVars, RemovalFrame>>
      BY <1>4 DEF ReadRevision, RemovalRest, RemovalFrame
    <3>3. spoilt' \in BOOLEAN
      BY <2>2 DEF DeletionFails
    <3> QED
      BY <3>1, <3>2, <3>3, RemovalTypeFrame
  <2> QED
    BY <1>4, <2>1, <2>2 DEF ReadRevision
<1>5. CASE DeleteConfig
  <2>1. \E next \in Deleting : Goto("events", next)
    BY <1>5, <1>c DEF DeleteConfig, DeletionFails
  <2>2. task' \in [Threads -> Tasks \cup {None}] /\ Structure'
    BY <1>1, <1>5, <1>c, <2>1 DEF DeleteConfig, RemovalRest, TypeOK
  <2>3. config' \in {config, None} /\ spoilt' \in BOOLEAN
    BY <1>5 DEF DeleteConfig, DeletionFails, TypeOK
  <2>4. UNCHANGED <<object, record, kernelVars, RemovalFrame>>
    BY <1>5 DEF DeleteConfig, RemovalRest, RemovalFrame
  <2>5. TypeOK'
    BY <2>2, <2>3, <2>4, RemovalTypeFrame
  <2> QED
    BY <2>2, <2>5
<1>6. CASE CleanupInterfaces
  <2>1. links' \subseteq VNIs /\ bridge' \in BOOLEAN /\ spoilt' \in BOOLEAN
    BY <1>6 DEF CleanupInterfaces, DeletionFails, TypeOK
  <2>2. CASE DeletionFails
    <3>1. task' \in [Threads -> Tasks \cup {None}] /\ Structure'
      BY <1>1, <1>6, <1>c, <2>2 DEF CleanupInterfaces, RemovalRest, DeletionFails, TypeOK
    <3> QED
      BY <1>6, <2>1, <3>1 DEF CleanupInterfaces, RemovalRest, TypeOK
  <2>3. CASE task' = [task EXCEPT !["events"].pc = "cleanup", !["events"].todo =
                       {e \in Endpoints : object[Removed].endpoints[e] # "none"}]
    <3> DEFINE next == [task["events"] EXCEPT !.pc = "cleanup", !.todo =
                          {e \in Endpoints : object[Removed].endpoints[e] # "none"}]
    <3>1. next \in Tasks /\ next.o = task["events"].o /\ next.pc \in Deleting
      BY <1>0, <1>6, <1>c DEF CleanupInterfaces, Tasks
    <3>2. /\ task' \in [Threads -> Tasks \cup {None}]
          /\ task'["events"].o = task["events"].o /\ task'["events"].pc \in Deleting
          /\ task'["docker"] = task["docker"]
      BY <1>c, <2>3, <3>1 DEF TypeOK
    <3>3. Structure'
      BY <1>0, <1>6, <1>c, <3>2, DeleteGoesOn DEF CleanupInterfaces, RemovalRest, TypeOK
    <3> QED
      BY <1>6, <2>1, <3>2, <3>3 DEF CleanupInterfaces, RemovalRest, TypeOK
  <2> QED
    BY <1>6, <2>2, <2>3 DEF CleanupInterfaces
<1>7. CASE RemoveNetwork
  <2>0. /\ task["events"] # None /\ Removed \in Objects /\ byDocker = Removed /\ up /\ up' = up
        /\ byDocker # None /\ byFlannel # None
    BY <1>0, <1>7, <1>c DEF RemoveNetwork, Structure
  <2>1. /\ task' \in [Threads -> Tasks \cup {None}] /\ task'["events"] = None
        /\ task'["docker"] = task["docker"]
    BY <1>7, <1>c DEF RemoveNetwork, TypeOK
  <2>2. IF Conflict THEN UNCHANGED <<byFlannel, byDocker, object>>
        ELSE /\ byDocker' = None /\ byFlannel' = None
             /\ object' = [object EXCEPT ![Removed] = None]
    BY <1>7, Zenon DEF RemoveNetwork, Remove
  <2>3. object' \in [Objects -> Network \cup {None}] /\ lost' \subseteq Veths
    BY <1>7, <2>0, <2>2 DEF RemoveNetwork, TypeOK
  <2>4. TypeOK'
    BY <1>7, <2>1, <2>2, <2>3 DEF RemoveNetwork, TypeOK
  <2>5. task["docker"] # None =>
          /\ task["docker"].o \in Objects /\ task["docker"].o # Removed
          /\ task["docker"].pc \in Creating /\ object'[task["docker"].o] \in Network
    <3>1. task["docker"] # None =>
            /\ task["docker"].o \in Objects /\ task["docker"].o # byDocker
            /\ task["docker"].pc \in Creating /\ object[task["docker"].o] \in Network
      BY <1>c DEF Structure, TypeOK, Tasks
    <3>2. \A o \in Objects \ {Removed} : object'[o] = object[o]
      BY <2>0, <2>2 DEF TypeOK
    <3> QED
      BY <2>0, <3>1, <3>2
  <2>6. Structure'
    <3>1. CASE Conflict
      BY <1>c, <2>0, <2>1, <2>2, <2>5, <3>1 DEF Structure
    <3>2. CASE ~Conflict
      <4>1. byDocker' = None /\ byFlannel' = None
        BY <2>2, <3>2
      <4>2. task["docker"] # None => task["docker"].o # None
        BY <2>5, FlannelNetworkAssumption
      <4> QED
        BY <1>c, <2>0, <2>1, <2>5, <4>1, <4>2 DEF Structure
    <3> QED
      BY <3>1, <3>2
  <2> QED
    BY <2>4, <2>6
<1>8. ASSUME NEW e \in Endpoints, CleanupEndpoint(e) PROVE TypeOK' /\ Structure'
  <2>0. object[Removed].endpoints[e] \in Data
    BY <1>0, <1>8, <1>c DEF CleanupEndpoint, Network
  <2>1. PICK r \in DeleteResults(e, object[Removed].endpoints[e]) :
          /\ object' = [object EXCEPT ![Removed].endpoints[e] = r.memory]
          /\ record' = [record EXCEPT ![e] = r.record] /\ veths' = r.veths
          /\ IF r.done THEN task' = [task EXCEPT !["events"].todo = @ \ {e}] /\ UNCHANGED spoilt
             ELSE DeletionFails
    BY <1>8 DEF CleanupEndpoint
  <2>2. r \in Results
    BY <2>0, DeleteShape
  <2>3. [object[Removed] EXCEPT !.endpoints[e] = r.memory] \in Network
    BY <1>0, <1>8, <1>c, <2>2 DEF CleanupEndpoint, Network, Results
  <2>4. /\ object' \in [Objects -> Network \cup {None}]
        /\ \A o \in Objects : object[o] \in Network => object'[o] \in Network
        /\ record' \in [Endpoints -> Data] /\ veths' \subseteq Veths /\ spoilt' \in BOOLEAN
    BY <1>0, <1>8, <1>c, <2>1, <2>2, <2>3 DEF CleanupEndpoint, DeletionFails, TypeOK, Results
  <2>5. CASE task' = [task EXCEPT !["events"].todo = @ \ {e}]
    <3> DEFINE next == [task["events"] EXCEPT !.todo = @ \ {e}]
    <3>1. next \in Tasks /\ next.o = task["events"].o /\ next.pc \in Deleting
      BY <1>0, <1>8, <1>c DEF CleanupEndpoint, Tasks, Removing, At
    <3>2. /\ task' \in [Threads -> Tasks \cup {None}]
          /\ task'["events"].o = task["events"].o /\ task'["events"].pc \in Deleting
          /\ task'["docker"] = task["docker"]
      BY <1>c, <2>5, <3>1 DEF TypeOK
    <3>3. Structure'
      BY <1>0, <1>8, <1>c, <2>4, <3>2, DeleteGoesOn DEF CleanupEndpoint, RemovalRest
    <3> QED
      BY <1>8, <2>4, <3>2, <3>3 DEF CleanupEndpoint, RemovalRest, TypeOK
  <2>6. CASE DeletionFails
    <3>1. task' \in [Threads -> Tasks \cup {None}] /\ Structure'
      BY <1>1, <1>8, <1>c, <2>4, <2>6 DEF CleanupEndpoint, RemovalRest, DeletionFails
    <3> QED
      BY <1>8, <2>4, <3>1 DEF CleanupEndpoint, RemovalRest, TypeOK
  <2> QED
    BY <2>1, <2>5, <2>6
<1> QED
  BY <1>2, <1>3, <1>4, <1>5, <1>6, <1>7, <1>8 DEF Delete

\* A step that leaves the threads and their objects alone keeps the structure.
LEMMA StructureFrame ==
  ASSUME Structure, UNCHANGED <<mapVars, object, task>>, up' = up \/ up'
  PROVE  Structure'
BY DEF Structure, mapVars

\* A clean-up that deletes the network's keys leaves typed data.
LEMMA DeleteKeysType ==
  ASSUME TypeOK, DeleteKeys
  PROVE  /\ config' \in Config \cup {None} /\ record' \in [Endpoints -> Data]
         /\ overlooked' \subseteq Endpoints /\ lost' \subseteq Veths
BY DEF DeleteKeys, TypeOK, Data

\* What Docker, other nodes, a crash or a start do keeps the types and the structure.
LEMMA OutsideStep ==
  ASSUME TypeOK, Structure,
         NetworkChanges \/ OtherNode \/ Crash \/ Start \/ ServeEarly \/ LoadDockerData
  PROVE  TypeOK' /\ Structure'
<1> USE DEF dockerVars, nodeVars, mapVars, etcdVars, kernelVars, historyVars, sweepVars
<1> DEFINE Events == {"added", "changed", "removed", "cleanup"}
<1>1. CASE NetworkChanges
  <2>1. ASSUME NEW event \in Events, Emit(event) PROVE events' \in Seq(Events)
    BY <2>1 DEF Emit, TypeOK
  <2>2. /\ events' \in Seq(Events) /\ docker' \in {"none", "exists", "removed"}
        /\ spoilt' \in BOOLEAN
    BY <1>1, <2>1 DEF NetworkChanges, TypeOK
  <2>3. outside' \in 0 .. MaxOutside
    BY <1>1, Bounds DEF NetworkChanges, FromOutside, TypeOK
  <2>4. Structure'
    BY <1>1, StructureFrame DEF NetworkChanges
  <2> QED
    BY <1>1, <2>2, <2>3, <2>4 DEF NetworkChanges, TypeOK
<1>2. CASE OtherNode
  <2>1. outside' \in 0 .. MaxOutside
    BY <1>2, Bounds DEF OtherNode, FromOutside, TypeOK
  <2>2. /\ config' \in Config \cup {None} /\ record' \in [Endpoints -> Data]
        /\ overlooked' \subseteq Endpoints /\ lost' \subseteq Veths /\ swept' \in BOOLEAN
    <3>1. CASE DeleteKeys /\ swept' = (swept \/ InUse \/ cleaner # None)
      BY <3>1, DeleteKeysType
    <3>2. CASE config' = None \/ \E v \in VNIs : config' = [vni |-> v, by |-> outside']
      BY <1>2, <2>1, <3>1, <3>2 DEF OtherNode, Config, TypeOK
    <3> QED
      BY <1>2, <3>1, <3>2 DEF OtherNode
  <2>3. Structure'
    BY <1>2, StructureFrame DEF OtherNode
  <2> QED
    BY <1>2, <2>1, <2>2, <2>3 DEF OtherNode, TypeOK
<1>3. CASE Crash
  <2>1. outside' \in 0 .. MaxOutside
    BY <1>3, Bounds DEF Crash, FromOutside, TypeOK
  <2>2. Down
    BY <1>3 DEF Crash
  <2>3. /\ attached' \in [Endpoints -> {"none", "created", "joined", "running", "left", "gone"}]
        /\ links' \subseteq VNIs /\ bridge' \in BOOLEAN /\ veths' \subseteq Veths
        /\ lost' \subseteq Veths /\ troubled' \subseteq Endpoints
    BY <1>3 DEF Crash, TypeOK
  <2> QED
    BY <1>3, <2>1, <2>2, <2>3, DownStep DEF Crash, TypeOK
<1>4. CASE Start \/ ServeEarly
  <2>1. Structure'
    BY <1>4, StructureFrame DEF Start, ServeEarly
  <2> QED
    BY <1>4, <2>1 DEF Start, ServeEarly, TypeOK
<1>5. CASE LoadDockerData
  <2>1. events' \in Seq(Events)
    <3>1. events' \in {<<"added", "cleanup">>, <<"cleanup">>}
      BY <1>5 DEF LoadDockerData
    <3>2. <<"added", "cleanup">> \in Seq(Events) /\ <<"cleanup">> \in Seq(Events)
      OBVIOUS
    <3> QED
      BY <3>1, <3>2
  <2>2. cleaner' \in Cleaners \cup {None} /\ spoilt' \in BOOLEAN
    <3>1. PICK listed \in BOOLEAN :
            /\ cleaner' = [pc |-> "listed", existing |-> listed, known |-> None, named |-> FALSE]
            /\ spoilt' = (spoilt \/ listed # (docker = "exists"))
      BY <1>5 DEF LoadDockerData
    <3> QED
      BY <3>1 DEF Cleaners
  <2>3. overlooked' \subseteq Endpoints
    BY <1>5 DEF LoadDockerData, TypeOK
  <2>4. Structure'
    BY <1>5, StructureFrame DEF LoadDockerData
  <2> QED
    BY <1>5, <2>1, <2>2, <2>3, <2>4 DEF LoadDockerData, TypeOK
<1> QED
  BY <1>1, <1>2, <1>3, <1>4, <1>5

\* The start's clean-up keeps the types and the structure.
LEMMA CleanupStep ==
  ASSUME TypeOK, Structure, CleanupStaleNetworks
  PROVE  TypeOK' /\ Structure'
<1> USE DEF dockerVars, nodeVars, mapVars, etcdVars, kernelVars, historyVars, sweepVars
<1>1. Structure'
  BY StructureFrame DEF CleanupStaleNetworks, TakeNetworks, ReadNetworks, DeleteStaleData,
                        DeleteStaleLinks, DeleteStaleBridge
<1>2. ASSUME NEW pc, Cleaning(pc) PROVE cleaner \in Cleaners
  BY <1>2 DEF Cleaning, TypeOK
<1>3. ASSUME NEW pc \in {"listed", "read", "delete", "links", "bridges"}, cleaner \in Cleaners,
             CleansOn(pc)
      PROVE  cleaner' \in Cleaners
  BY <1>3 DEF CleansOn, Cleaners
<1>4. CASE TakeNetworks
  <2>1. cleaner' \in Cleaners
    BY <1>2, <1>4 DEF TakeNetworks, Cleaners
  <2>2. events' \in Seq({"added", "changed", "removed", "cleanup"})
    BY <1>4, TailType DEF TakeNetworks, Announced
  <2> QED
    BY <1>1, <1>4, <2>1, <2>2 DEF TakeNetworks, TypeOK
<1>5. CASE ReadNetworks
  <2>1. cleaner' \in Cleaners
    <3>1. CASE cleaner.existing /\ config # None
      <4>1. PICK named \in BOOLEAN : cleaner' = [pc |-> "links", existing |-> TRUE,
                                                known |-> config.vni, named |-> named]
        BY <1>5, <3>1 DEF ReadNetworks
      <4>2. config.vni \in VNIs
        BY <3>1 DEF Config, TypeOK
      <4> QED
        BY <4>1, <4>2 DEF Cleaners
    <3>2. CASE ~(cleaner.existing /\ config # None)
      BY <1>2, <1>3, <1>5, <3>2 DEF ReadNetworks
    <3> QED
      BY <3>1, <3>2
  <2> QED
    BY <1>1, <1>5, <2>1 DEF ReadNetworks, TypeOK
<1>6. CASE DeleteStaleData
  <2>1. cleaner' \in Cleaners
    BY <1>2, <1>3, <1>6 DEF DeleteStaleData
  <2>2. /\ config' \in Config \cup {None} /\ record' \in [Endpoints -> Data]
        /\ overlooked' \subseteq Endpoints /\ lost' \subseteq Veths /\ swept' \in BOOLEAN
    BY <1>6, DeleteKeysType DEF DeleteStaleData, TypeOK
  <2> QED
    BY <1>1, <1>6, <2>1, <2>2 DEF DeleteStaleData, TypeOK
<1>7. CASE DeleteStaleLinks
  <2>1. cleaner' \in Cleaners
    BY <1>2, <1>3, <1>7 DEF DeleteStaleLinks
  <2>2. links' \subseteq VNIs /\ swept' \in BOOLEAN
    BY <1>7 DEF DeleteStaleLinks, ValidLinks, TypeOK
  <2> QED
    BY <1>1, <1>7, <2>1, <2>2 DEF DeleteStaleLinks, TypeOK
<1>8. CASE DeleteStaleBridge
  <2>1. /\ bridge' \in BOOLEAN /\ veths' \subseteq Veths /\ spoilt' \in BOOLEAN
        /\ overlooked' \subseteq Endpoints /\ swept' \in BOOLEAN
    BY <1>8 DEF DeleteStaleBridge, TypeOK
  <2> QED
    BY <1>1, <1>8, <2>1 DEF DeleteStaleBridge, TypeOK
<1> QED
  BY <1>4, <1>5, <1>6, <1>7, <1>8 DEF CleanupStaleNetworks

\* The types and the structure hold at the start.
LEMMA InitOK == Init => TypeOK /\ Structure
<1> SUFFICES ASSUME Init PROVE TypeOK /\ Structure
  OBVIOUS
<1>1. <<>> \in Seq({"added", "changed", "removed", "cleanup"})
  OBVIOUS
<1>2. /\ record \in [Endpoints -> Data] /\ attached \in [Endpoints -> {"none", "created", "joined", "running", "left", "gone"}]
      /\ object \in [Objects -> Network \cup {None}] /\ task \in [Threads -> Tasks \cup {None}]
  BY DEF Init, Data
<1>3. outside \in 0 .. MaxOutside
  BY Bounds DEF Init
<1>4. events \in Seq({"added", "changed", "removed", "cleanup"})
  BY <1>1 DEF Init
<1>5. TypeOK
  BY <1>2, <1>3, <1>4 DEF Init, TypeOK
<1>6. /\ "events" \in Threads /\ \A t \in Threads : task[t] = None
      /\ byFlannel = None /\ byDocker = None /\ up
  BY DEF Init, Threads
<1>7. Structure
  BY <1>6 DEF Structure
<1> QED
  BY <1>5, <1>7

\* Every step keeps the types and the structure.
LEMMA TypeStep ==
  ASSUME TypeOK, Structure, [Next]_vars
  PROVE  TypeOK' /\ Structure'
<1>1. CASE \E t \in Threads : Create(t)
  BY <1>1, CreateStep
<1>2. CASE \E e \in Endpoints : Endpoint(e)
  BY <1>2, EndpointStep
<1>3. CASE Delete
  BY <1>3, DeleteStep
<1>4. CASE NetworkChanges \/ OtherNode \/ Crash \/ Start \/ ServeEarly \/ LoadDockerData
  BY <1>4, OutsideStep
<1>6. CASE CleanupStaleNetworks
  BY <1>6, CleanupStep
<1>5. CASE UNCHANGED vars
  BY <1>5 DEF vars, dockerVars, nodeVars, mapVars, etcdVars, kernelVars, historyVars, sweepVars,
             TypeOK, Structure
<1> QED
  BY <1>1, <1>2, <1>3, <1>4, <1>5, <1>6 DEF Next

\* Every variable has its type in all reachable states.
THEOREM TypeCorrect == Spec => [](TypeOK /\ Structure)
<1>1. TypeOK /\ Structure /\ [Next]_vars => (TypeOK /\ Structure)'
  BY TypeStep
<1> QED
  BY <1>1, InitOK, PTL DEF Spec

-----------------------------------------------------------------------------
(* Networks that are registered work.                                      *)

\* What a call can use.
Works(o) ==
  /\ object[o].process /\ o \in processes /\ bridge
  /\ config # None /\ config.vni \in links

Pending(event) == \E i \in 1 .. Len(events) : events[i] = event

\* Removal goes with Docker's removal; events and the clean-up come with Docker's data; and
\* the clean-up knows a number only when it has read it, of a network that is Docker's.
Lifecycle ==
  /\ Pending("removed") => docker = "removed"
  /\ task["events"] # None /\ task["events"].pc \in Deleting => docker = "removed"
  /\ ~up => ~loaded
  /\ ~loaded => events = <<>> /\ cleaner = None
  /\ cleaner # None =>
       /\ cleaner.named => cleaner.existing
       /\ cleaner.named \/ cleaner.known # None => cleaner.pc \in {"links", "bridges"}

\* What a creation has got so far.
Underway(t) ==
  /\ task[t].pc \in {"start", "reread"} => config # None
  /\ task[t].pc = "load" =>
       config # None /\ config.vni \in links /\ task[t].o \in processes
  /\ task[t].pc \in {"endpoints", "reconcile"} => Works(task[t].o)

\* What the map leads to works, and what is to be put into it does so far, until a clean-up
\* takes the network for stale; the number that a clean-up knows is the network's.
Alive ==
  docker # "removed" /\ ~swept =>
    /\ byFlannel # None => Works(byFlannel)
    /\ byDocker # None => Works(byDocker)
    /\ \A t \in Threads : task[t] # None => Underway(t)
    /\ cleaner # None /\ cleaner.known # None => config # None /\ config.vni = cleaner.known

\* The head of the events is pending, and what is pending behind it was before.
LEMMA TailPending ==
  ASSUME TypeOK, events # <<>>, events' = Tail(events)
  PROVE  /\ Pending(Head(events))
         /\ \A event : Pending(event)' => Pending(event)
         /\ Len(events') = Len(events) - 1
         /\ \A i \in 1 .. Len(events') : i + 1 \in 1 .. Len(events) /\ events'[i] = events[i + 1]
<1>1. events \in Seq({"added", "changed", "removed", "cleanup"})
  BY DEF TypeOK
<1>2. /\ Len(events) \in Nat /\ Len(events) > 0 /\ Head(events) = events[1]
      /\ Len(events') = Len(events) - 1
      /\ \A i \in 1 .. Len(events') : i + 1 \in 1 .. Len(events) /\ events'[i] = events[i + 1]
  BY <1>1
<1> QED
  BY <1>2 DEF Pending

\* With one event more, that one is pending and the others are as before.
LEMMA AppendPending ==
  ASSUME TypeOK, NEW event, events' = Append(events, event)
  PROVE  /\ \A other : Pending(other)' => other = event \/ Pending(other)
         /\ Len(events') = Len(events) + 1
         /\ events'[Len(events')] = event
         /\ \A i \in 1 .. Len(events) : events'[i] = events[i]
<1>1. events \in Seq({"added", "changed", "removed", "cleanup"})
  BY DEF TypeOK
<1>2. /\ Len(events) \in Nat /\ Len(events') = Len(events) + 1
      /\ events'[Len(events')] = event
      /\ \A i \in 1 .. Len(events) : events'[i] = events[i]
  BY <1>1
<1> QED
  BY <1>2 DEF Pending

\* No step of a creation but its first and last touches the map or the events, and it
\* works on the same object or ends.
Creation(t) ==
  \/ ReadConfig(t) \/ CommitConfig(t) \/ RereadConfig(t)
  \/ StartFlannel(t) \/ LoadFlannelConfig(t) \/ LoadEndpoints(t)
  \/ \E e \in Endpoints : Reconcile(t, e)

\* What a step of a creation leaves alone.
LEMMA CreationShape ==
  ASSUME TypeOK, NEW t \in Threads, Creation(t)
  PROVE  /\ UNCHANGED <<docker, attached, up, loaded, ready, events, cleaner, mapVars, swept>>
         /\ task[t] # None /\ task[t].pc \in Creating
         /\ \A u \in Threads \ {t} : task'[u] = task[u]
         /\ task'[t] # None => task'[t].pc \in Creating
<1> USE DEF dockerVars, nodeVars, mapVars, etcdVars, kernelVars, historyVars, sweepVars
<1>c. /\ "config" \in Creating /\ "commit" \in Creating /\ "reread" \in Creating
      /\ "start" \in Creating /\ "load" \in Creating /\ "endpoints" \in Creating
      /\ "reconcile" \in Creating
  BY DEF Creating
<1>1. UNCHANGED <<docker, attached, up, loaded, ready, events, cleaner, mapVars, swept>>
  BY DEF Creation, ReadConfig, CommitConfig, RereadConfig, StartFlannel, LoadFlannelConfig,
         LoadEndpoints, Reconcile
<1>2. task[t] # None /\ task[t].pc \in Creating
  BY <1>c DEF Creation, ReadConfig, CommitConfig, RereadConfig, StartFlannel,
              LoadFlannelConfig, LoadEndpoints, Reconcile, At
<1>3. task[t] \in Tasks
  BY <1>2 DEF TypeOK
<1>4. \/ task' = [task EXCEPT ![t] = None]
      \/ \E pc \in Creating : task' = [task EXCEPT ![t].pc = pc]
      \/ \E pc \in Creating, todo \in SUBSET Endpoints :
           task' = [task EXCEPT ![t].pc = pc, ![t].todo = todo]
      \/ \E e \in Endpoints : task' = [task EXCEPT ![t].todo = @ \ {e}]
  BY <1>c DEF Creation, ReadConfig, CommitConfig, RereadConfig, StartFlannel,
              LoadFlannelConfig, LoadEndpoints, Reconcile, Fails, Goto
<1>5. \A u \in Threads \ {t} : task'[u] = task[u]
  BY <1>4 DEF TypeOK
<1>6. task'[t] # None => task'[t].pc \in Creating
  <2>1. task \in [Threads -> Tasks \cup {None}]
    BY DEF TypeOK
  <2> QED
    BY <1>2, <1>3, <1>4, <2>1 DEF Tasks
<1> QED
  BY <1>1, <1>2, <1>3, <1>5, <1>6

\* What the clean-up knows stays when it takes the networks.
LEMMA CleanerKeeps ==
  ASSUME NEW c \in Cleaners, NEW d, NEW x \in BOOLEAN, d = [c EXCEPT !.pc = "read", !.existing = x]
  PROVE  d.named = c.named /\ d.known = c.known
BY DEF Cleaners

\* Where the events, Docker's network and the plugin stay as they are, or it starts.
LEMMA LifecycleFrame ==
  ASSUME Lifecycle, UNCHANGED <<docker, loaded, events, cleaner>>, up' = up \/ up',
         task'["events"] # None =>
           /\ task["events"] # None
           /\ task'["events"].pc \in Deleting => task["events"].pc \in Deleting \/ docker = "removed"
  PROVE  Lifecycle'
<1>1. \A event : Pending(event)' <=> Pending(event)
  BY DEF Pending
<1> QED
  BY <1>1 DEF Lifecycle

\* Where an event is taken.
LEMMA LifecycleTail ==
  ASSUME TypeOK, Lifecycle, events # <<>>, events' = Tail(events),
         UNCHANGED <<docker, up, loaded, cleaner>>,
         task'["events"] # None /\ task'["events"].pc \in Deleting => docker = "removed"
  PROVE  Lifecycle'
<1>1. \A event : Pending(event)' => Pending(event)
  BY TailPending
<1> QED
  BY <1>1 DEF Lifecycle

\* Every step keeps the order of a network's life.
LEMMA LifecycleStep ==
  ASSUME TypeOK, Structure, Lifecycle, [Next]_vars
  PROVE  Lifecycle'
<1> USE DEF dockerVars, nodeVars, mapVars, etcdVars, kernelVars, historyVars, sweepVars
<1>c. "events" \in Threads /\ "docker" \in Threads /\ Creating \cap Deleting = {}
  BY DEF Threads, Creating, Deleting
\* What the end of the plugin leaves.
<1>d. ASSUME Down PROVE Lifecycle'
  <2>1. /\ up' = FALSE /\ loaded' = FALSE /\ events' = <<>> /\ cleaner' = None
        /\ task'["events"] = None
    BY <1>c, <1>d DEF Down
  <2>2. \A event : ~Pending(event)'
    BY <2>1 DEF Pending
  <2> QED
    BY <2>1, <2>2 DEF Lifecycle
<1>1. ASSUME NEW t \in Threads, Asked(t),
             task' = task \/ task' = [task EXCEPT ![t] = Task("config", task'[t].o)]
      PROVE  Lifecycle'
  <2>1. UNCHANGED <<docker, up, loaded, cleaner>> /\ "config" \notin Deleting
    BY <1>1 DEF Asked, Deleting
  <2>2. CASE t = "docker"
    <3>1. events' = events /\ task'["events"] = task["events"]
      BY <1>1, <1>c, <2>2 DEF Asked, TypeOK
    <3> QED
      BY <2>1, <3>1, LifecycleFrame
  <2>3. CASE t = "events"
    <3>1. events # <<>> /\ events' = Tail(events) /\ task["events"] = None
      BY <1>1, <2>3 DEF Asked, Announced, Idle
    <3>2. task'["events"] # None => task'["events"].pc = "config"
      BY <1>1, <1>c, <2>3, <3>1 DEF Task, TypeOK
    <3> QED
      BY <2>1, <3>1, <3>2, LifecycleTail
  <2> QED
    BY <2>2, <2>3 DEF Threads
<1>2. ASSUME NEW t \in Threads, AlreadyThere(t) PROVE Lifecycle'
  BY <1>1, <1>2 DEF AlreadyThere
<1>3. ASSUME NEW t \in Threads, NewNetwork(t) PROVE Lifecycle'
  <2>1. \A o \in Objects : Task("config", o).o = o
    BY DEF Task
  <2>2. task' = task \/ task' = [task EXCEPT ![t] = Task("config", task'[t].o)]
    BY <1>3, <2>1 DEF NewNetwork, TypeOK
  <2> QED
    BY <1>1, <1>3, <2>2 DEF NewNetwork
<1>4. ASSUME NEW t \in Threads, Creation(t) PROVE Lifecycle'
  <2>1. \A u \in Threads : task'[u] # None =>
          task[u] # None /\ (task'[u].pc \in Deleting => task[u].pc \in Deleting)
    BY <1>4, <1>c, CreationShape
  <2> QED
    BY <1>4, <1>c, <2>1, CreationShape, LifecycleFrame
<1>5. ASSUME NEW t \in Threads, Created(t) PROVE Lifecycle'
  <2>1. \A u \in Threads : task'[u] # None => task'[u] = task[u]
    BY <1>5 DEF Created, At, TypeOK
  <2> QED
    BY <1>5, <1>c, <2>1, LifecycleFrame DEF Created
<1>6. ASSUME NEW e \in Endpoints, Endpoint(e) PROVE Lifecycle'
  <2>1. UNCHANGED <<docker, up, loaded, events, cleaner, task>>
    BY <1>6 DEF Endpoint, CreateEndpoint, Join, Run, Leave, DeleteEndpoint, EndUnheard, EndpointRest
  <2> QED
    BY <2>1, LifecycleFrame
<1>7. CASE HandleNetworkRemoved
  <2>1. CASE Conflict
    BY <1>7, <1>d, <2>1 DEF HandleNetworkRemoved
  <2>2. CASE ~Conflict
    <3>1. /\ events # <<>> /\ Head(events) = "removed" /\ events' = Tail(events)
          /\ UNCHANGED <<docker, up, loaded, cleaner>>
      BY <1>7, <2>2 DEF HandleNetworkRemoved, Announced
    <3>2. docker = "removed"
      BY <3>1, TailPending DEF Lifecycle
    <3> QED
      BY <3>1, <3>2, LifecycleTail
  <2> QED
    BY <2>1, <2>2
<1>8. ASSUME Delete, ~HandleNetworkRemoved PROVE Lifecycle'
  <2>1. UNCHANGED <<docker, up, loaded, events, cleaner>>
        /\ task["events"] # None /\ task["events"].pc \in Deleting
    BY <1>8 DEF Delete, DeleteProcess, ReadRevision, DeleteConfig, CleanupInterfaces, CleanupEndpoint,
                RemoveNetwork, RemovalRest, Removing, At, Deleting
  <2>2. docker = "removed"
    BY <2>1 DEF Lifecycle
  <2> QED
    BY <2>1, <2>2, LifecycleFrame
<1>9. CASE NetworkChanges
  <2>1. /\ UNCHANGED <<up, loaded, cleaner, task>> /\ docker # "removed"
        /\ \/ docker' = "exists" /\ Emit("added")
           \/ docker' = "exists" /\ Emit("changed")
           \/ docker' = "removed" /\ Emit("removed")
    BY <1>9 DEF NetworkChanges
  <2>2. CASE loaded
    <3>1. PICK event \in {"added", "changed", "removed"} :
            /\ events' = Append(events, event)
            /\ event = "removed" => docker' = "removed"
      BY <2>1, <2>2 DEF Emit
    <3>2. \A other : Pending(other)' => other = event \/ Pending(other)
      BY <3>1, AppendPending
    <3> QED
      BY <2>1, <2>2, <3>1, <3>2 DEF Lifecycle
  <2>3. CASE ~loaded
    <3>1. events' = events /\ events = <<>>
      BY <2>1, <2>3 DEF Emit, Lifecycle
    <3>2. \A event : ~Pending(event)'
      BY <3>1 DEF Pending
    <3> QED
      BY <2>1, <2>3, <3>1, <3>2 DEF Lifecycle
  <2> QED
    BY <2>2, <2>3
<1>10. CASE OtherNode \/ Start \/ ServeEarly
  BY <1>10, LifecycleFrame DEF OtherNode, Start, ServeEarly
<1>11. CASE Crash
  BY <1>11, <1>d DEF Crash
<1>12. CASE LoadDockerData
  <2>1. /\ up' /\ loaded' /\ UNCHANGED <<docker, task>>
        /\ events' = <<"added", "cleanup">> \/ events' = <<"cleanup">>
        /\ \E listed \in BOOLEAN :
             cleaner' = [pc |-> "listed", existing |-> listed, known |-> None, named |-> FALSE]
    BY <1>12 DEF LoadDockerData
  <2>2. ~Pending("removed")'
    BY <2>1 DEF Pending
  <2> QED
    BY <2>1, <2>2 DEF Lifecycle
<1>13. CASE CleanupStaleNetworks
  <2>0. UNCHANGED <<docker, up, loaded, task>>
    BY <1>13 DEF CleanupStaleNetworks, TakeNetworks, ReadNetworks, DeleteStaleData,
                 DeleteStaleLinks, DeleteStaleBridge
  <2>1. /\ cleaner # None /\ loaded
        /\ cleaner' # None =>
             /\ cleaner'.named => cleaner'.existing
             /\ cleaner'.named \/ cleaner'.known # None => cleaner'.pc \in {"links", "bridges"}
    <3>1. cleaner # None /\ cleaner \in Cleaners
      BY <1>13 DEF CleanupStaleNetworks, TakeNetworks, ReadNetworks, DeleteStaleData,
                   DeleteStaleLinks, DeleteStaleBridge, Cleaning, TypeOK
    <3>2. /\ cleaner.named => cleaner.existing
          /\ cleaner.named \/ cleaner.known # None => cleaner.pc \in {"links", "bridges"}
      BY <3>1 DEF Lifecycle
    <3>3. ASSUME NEW pc \in {"links", "bridges"}, CleansOn(pc)
          PROVE  /\ cleaner'.named => cleaner'.existing
                 /\ cleaner'.named \/ cleaner'.known # None => cleaner'.pc \in {"links", "bridges"}
      BY <3>1, <3>2, <3>3 DEF CleansOn, Cleaners
    <3>4. CASE TakeNetworks
      <4>1. PICK existing \in BOOLEAN :
              cleaner' = [cleaner EXCEPT !.pc = "read", !.existing = existing]
        BY <3>1, <3>4 DEF TakeNetworks, Cleaners
      <4>2. cleaner.pc = "listed" /\ cleaner.known = None /\ ~cleaner.named
        BY <3>1, <3>2, <3>4 DEF TakeNetworks, Cleaning, Cleaners
      <4>3. cleaner'.named = cleaner.named /\ cleaner'.known = cleaner.known
        BY <3>1, <4>1, CleanerKeeps
      <4> QED
        BY <3>1, <4>2, <4>3 DEF Lifecycle
    <3>5. CASE ReadNetworks
      <4>1. cleaner.pc = "read" /\ cleaner.known = None /\ ~cleaner.named
        BY <3>1, <3>2, <3>5 DEF ReadNetworks, Cleaning, Cleaners
      <4>2. CASE CleansOn("delete") \/ CleansOn("links")
        <5>1. cleaner'.known = cleaner.known /\ cleaner'.named = cleaner.named
          BY <3>1, <4>2 DEF CleansOn, Cleaners
        <5> QED
          BY <3>1, <4>1, <5>1 DEF Lifecycle
      <4>3. CASE \E named \in BOOLEAN :
                   cleaner' = [pc |-> "links", existing |-> TRUE, known |-> config.vni, named |-> named]
        BY <3>1, <4>3 DEF Lifecycle
      <4> QED
        BY <3>5, <4>2, <4>3 DEF ReadNetworks
    <3>6. CASE DeleteStaleData \/ DeleteStaleLinks
      BY <3>1, <3>3, <3>6 DEF DeleteStaleData, DeleteStaleLinks, Lifecycle
    <3>7. CASE DeleteStaleBridge
      BY <3>1, <3>7 DEF DeleteStaleBridge, Lifecycle
    <3> QED
      BY <1>13, <3>4, <3>5, <3>6, <3>7 DEF CleanupStaleNetworks
  <2>2. \A event : Pending(event)' => Pending(event)
    <3>1. CASE TakeNetworks
      BY <3>1, TailPending DEF TakeNetworks, Announced
    <3>2. CASE events' = events
      BY <3>2 DEF Pending
    <3> QED
      BY <1>13, <3>1, <3>2 DEF CleanupStaleNetworks, ReadNetworks, DeleteStaleData,
                               DeleteStaleLinks, DeleteStaleBridge
  <2>3. up /\ up' /\ loaded'
    BY <2>0, <2>1 DEF Lifecycle, TypeOK
  <2>4. /\ Pending("removed")' => docker' = "removed"
        /\ task'["events"] # None /\ task'["events"].pc \in Deleting => docker' = "removed"
    BY <2>0, <2>2 DEF Lifecycle
  <2> QED
    BY <2>1, <2>3, <2>4 DEF Lifecycle
<1>14. CASE UNCHANGED vars
  BY <1>14, LifecycleFrame DEF vars
<1> QED
  BY <1>2, <1>3, <1>4, <1>5, <1>6, <1>7, <1>8, <1>9, <1>10, <1>11, <1>12, <1>13, <1>14
  DEF Next, Create, Creation

\* What a step of a creation makes of its task and of the processes.
LEMMA CreationKeeps ==
  ASSUME TypeOK, NEW t \in Threads, Creation(t)
  PROVE  /\ up
         /\ task'[t] # None => task'[t].o = task[t].o
         /\ task'[t] = None => spoilt'
         /\ spoilt => spoilt'
         /\ processes' \subseteq processes \cup {task[t].o}
<1> USE DEF dockerVars, nodeVars, mapVars, etcdVars, kernelVars, historyVars, sweepVars
<1>1. task[t] \in Tasks /\ task \in [Threads -> Tasks \cup {None}] /\ up
  <2>1. up
    BY DEF Creation, At, ReadConfig, CommitConfig, RereadConfig,
           StartFlannel, LoadFlannelConfig, LoadEndpoints, Reconcile
  <2> QED
    BY <2>1, CreationShape DEF TypeOK
<1>2. Fails(t) \/ (spoilt' = spoilt /\ task'[t] # None /\ task'[t].o = task[t].o)
  <2>1. ASSUME NEW pc \in Creating, Goto(t, pc)
        PROVE  task'[t] # None /\ task'[t].o = task[t].o
    BY <1>1, <2>1, FlannelNetworkAssumption DEF Goto, Tasks
  <2>2. CASE \/ ReadConfig(t) \/ CommitConfig(t) \/ RereadConfig(t) \/ StartFlannel(t)
             \/ LoadFlannelConfig(t)
    <3>1. Fails(t) \/ (spoilt' = spoilt /\ \E pc \in Creating : Goto(t, pc))
      BY <2>2 DEF ReadConfig, CommitConfig, RereadConfig, StartFlannel, LoadFlannelConfig,
                  Creating
    <3> QED
      BY <2>1, <3>1
  <2>3. CASE LoadEndpoints(t)
    <3>1. CASE /\ task' = [task EXCEPT ![t].pc = "reconcile",
                                       ![t].todo = {e \in Endpoints : record[e] # "none"}]
               /\ spoilt' = spoilt
      <4>1. task'[t] \in Tasks /\ task'[t].o = task[t].o
        BY <1>1, <3>1 DEF Tasks, Creating
      <4> QED
        BY <3>1, <4>1, FlannelNetworkAssumption
    <3> QED
      BY <2>3, <3>1, Zenon DEF LoadEndpoints
  <2>4. ASSUME NEW e \in Endpoints, Reconcile(t, e)
        PROVE  spoilt' = spoilt /\ task'[t] # None /\ task'[t].o = task[t].o
    <3>1. task' = [task EXCEPT ![t].todo = @ \ {e}] /\ spoilt' = spoilt
      BY <2>4 DEF Reconcile
    <3>2. task'[t] \in Tasks /\ task'[t].o = task[t].o
      BY <1>1, <3>1 DEF Tasks
    <3> QED
      BY <3>1, <3>2, FlannelNetworkAssumption
  <2> QED
    BY <2>2, <2>3, <2>4 DEF Creation
<1>3. Fails(t) => task'[t] = None /\ spoilt'
  BY <1>1 DEF Fails
<1>4. processes' \subseteq processes \cup {task[t].o}
  BY DEF Creation, ReadConfig, CommitConfig, RereadConfig, StartFlannel,
         LoadFlannelConfig, LoadEndpoints, Reconcile
<1> QED
  BY <1>1, <1>2, <1>3, <1>4

\* What a step of a creation spares: everything but its own object, its process and its task.
LEMMA CreationSpares ==
  ASSUME TypeOK, NEW t \in Threads, Creation(t)
  PROVE  /\ \A o \in Objects \ {task[t].o} :
              object'[o] = object[o] /\ (o \in processes => o \in processes')
         /\ (bridge => bridge') /\ links \subseteq links'
         /\ config # None => config' = config
<1> USE DEF dockerVars, nodeVars, mapVars, etcdVars, kernelVars, historyVars, sweepVars
<1>1. \A o \in Objects \ {task[t].o} : object'[o] = object[o]
  <2>1. Fails(t) => \A o \in Objects \ {task[t].o} : object'[o] = object[o]
    BY DEF Fails, TypeOK
  <2>2. CASE ReadConfig(t) \/ CommitConfig(t) \/ RereadConfig(t) \/ StartFlannel(t)
    <3>1. Fails(t) \/ object' = object
      BY <2>2, Zenon DEF ReadConfig, CommitConfig, RereadConfig, StartFlannel
    <3> QED
      BY <2>1, <3>1
  <2>5. CASE LoadEndpoints(t)
    <3>1. Fails(t) \/ object' = [object EXCEPT ![task[t].o].endpoints = record]
      BY <2>5, Zenon DEF LoadEndpoints
    <3> QED
      BY <2>1, <3>1 DEF TypeOK
  <2>3. CASE LoadFlannelConfig(t)
    BY <2>1, <2>3 DEF LoadFlannelConfig, TypeOK
  <2>4. CASE \E e \in Endpoints : Reconcile(t, e)
    <3>1. \A o \in Objects \ {task[t].o} : UNCHANGED object => object'[o] = object[o]
      OBVIOUS
    <3>2. \A e \in Endpoints : object' = [object EXCEPT ![task[t].o].endpoints[e] = "none"] =>
            \A o \in Objects \ {task[t].o} : object'[o] = object[o]
      BY DEF TypeOK
    <3> QED
      BY <2>4, <3>1, <3>2 DEF Reconcile
  <2> QED
    BY <2>2, <2>3, <2>4, <2>5 DEF Creation
<1>2. /\ \A o \in Objects \ {task[t].o} : o \in processes => o \in processes'
      /\ links \subseteq links' /\ (config # None => config' = config)
  BY DEF Creation, ReadConfig, CommitConfig, RereadConfig, StartFlannel, LoadFlannelConfig,
         LoadEndpoints, Reconcile
<1>3. bridge' = bridge \/ bridge' = TRUE
  BY DEF Creation, ReadConfig, CommitConfig, RereadConfig, StartFlannel, LoadFlannelConfig,
         LoadEndpoints, Reconcile
<1>4. bridge => bridge'
  BY <1>3
<1> QED
  BY <1>1, <1>2, <1>4

\* Where what one thread does spares all but the object that it creates.
LEMMA AliveOthers ==
  ASSUME TypeOK, Structure, Alive,
         docker' = docker \/ docker # "removed",
         byFlannel' \in {byFlannel, byDocker, None}, byDocker' \in {byFlannel, byDocker, None},
         NEW t \in Threads, \A u \in Threads \ {t} : task'[u] = task[u],
         \A o \in Objects :
           object[o] \in Network /\ ~(task[t] # None /\ task[t].pc \in Creating /\ task[t].o = o)
             => object'[o].process = object[o].process /\ (o \in processes => o \in processes'),
         bridge => bridge', links \subseteq links', config # None => config' = config,
         UNCHANGED <<cleaner, swept>>,
         docker # "removed" /\ ~swept /\ task'[t] # None => Underway(t)'
  PROVE  Alive'
<1>1. ASSUME NEW o \in Objects, object[o] \in Network,
             ~(task[t] # None /\ task[t].pc \in Creating /\ task[t].o = o), Works(o)
      PROVE  Works(o)'
  BY <1>1 DEF Works
<1> SUFFICES ASSUME docker' # "removed", ~swept' PROVE Alive'
  BY DEF Alive
<1>2. docker # "removed" /\ ~swept
  OBVIOUS
<1>3. ASSUME NEW o \in {byFlannel, byDocker}, o # None PROVE Works(o)'
  <2>1. /\ o \in Objects /\ object[o] \in Network /\ Works(o)
        /\ ~(task[t] # None /\ task[t].pc \in Creating /\ task[t].o = o)
    BY <1>2, <1>3 DEF TypeOK, Structure, Alive
  <2> QED
    BY <1>1, <2>1
<1>4. ASSUME NEW u \in Threads, task'[u] # None PROVE Underway(u)'
  <2>1. CASE u = t
    BY <1>2, <1>4, <2>1
  <2>2. CASE u # t
    <3>1. task'[u] = task[u] /\ task[u] # None
      BY <1>4, <2>2
    <3>2. /\ task[u].o \in Objects /\ object[task[u].o] \in Network /\ Underway(u)
          /\ ~(task[t] # None /\ task[t].pc \in Creating /\ task[t].o = task[u].o)
      BY <1>2, <2>2, <3>1 DEF TypeOK, Tasks, Structure, Alive
    <3>3. task[u].o \in processes => task[u].o \in processes'
      BY <3>2
    <3>4. Works(task[u].o) => Works(task[u].o)'
      <4> DEFINE o == task[u].o
      <4>1. o \in Objects /\ object[o] \in Network
            /\ ~(task[t] # None /\ task[t].pc \in Creating /\ task[t].o = o)
        BY <3>2
      <4> HIDE DEF o
      <4>2. Works(o) => object'[o].process /\ o \in processes' /\ bridge' /\ config' # None
                        /\ config'.vni \in links'
        BY <4>1 DEF Works
      <4>3. task'[u].o = o /\ task[u].o = o
        BY <3>1 DEF o
      <4> QED
        BY <4>2, <4>3 DEF Works
    <3> QED
      BY <3>1, <3>2, <3>3, <3>4 DEF Underway
  <2> QED
    BY <2>1, <2>2
<1>5. cleaner' # None /\ cleaner'.known # None => config' # None /\ config'.vni = cleaner'.known
  BY <1>2 DEF Alive
<1> QED
  BY <1>3, <1>4, <1>5 DEF Alive

\* Where what the network needs stays, and no task gets further than its start.
LEMMA AliveFrame ==
  ASSUME TypeOK, Structure, Alive,
         docker' = docker \/ docker # "removed",
         byFlannel' \in {byFlannel, byDocker, None}, byDocker' \in {byFlannel, byDocker, None},
         \A o \in Objects : object[o] \in Network => object'[o].process = object[o].process,
         processes' = processes, bridge' = bridge, links' = links,
         config # None => config' = config,
         \A t \in Threads : task'[t] = task[t] \/ (task'[t] # None => task'[t].pc = "config"),
         swept => swept',
         cleaner' # None /\ cleaner'.known # None =>
           \/ cleaner # None /\ cleaner.known = cleaner'.known
           \/ config # None /\ config.vni = cleaner'.known
  PROVE  Alive'
<1>1. \A o \in Objects : object[o] \in Network /\ Works(o) => Works(o)'
  BY DEF Works
<1>2. ASSUME NEW t \in Threads, task'[t] # None, docker # "removed", ~swept PROVE Underway(t)'
  <2>1. CASE task'[t].pc = "config"
    BY <2>1 DEF Underway
  <2>2. CASE task'[t] = task[t]
    <3>1. task[t].o \in Objects /\ object[task[t].o] \in Network /\ Underway(t)
      BY <1>2, <2>2 DEF TypeOK, Tasks, Structure, Alive
    <3>2. Works(task[t].o) => Works(task[t].o)'
      <4> DEFINE o == task[t].o
      <4>1. o \in Objects /\ object[o] \in Network /\ task'[t].o = o /\ task[t].o = o
        BY <2>2, <3>1
      <4> HIDE DEF o
      <4> QED
        BY <4>1 DEF Works
    <3> QED
      BY <2>2, <3>1, <3>2 DEF Underway
  <2> QED
    BY <1>2, <2>1, <2>2
<1> SUFFICES ASSUME docker' # "removed", ~swept' PROVE Alive'
  BY DEF Alive
<1>3. docker # "removed" /\ ~swept
  OBVIOUS
<1>4. (byFlannel' # None => Works(byFlannel)') /\ (byDocker' # None => Works(byDocker)')
  BY <1>1, <1>3 DEF Alive, TypeOK, Structure
<1>5. cleaner' # None /\ cleaner'.known # None => config' # None /\ config'.vni = cleaner'.known
  BY <1>3 DEF Alive
<1> QED
  BY <1>2, <1>3, <1>4, <1>5 DEF Alive

\* Every step keeps a registered network whole.
LEMMA AliveStep ==
  ASSUME TypeOK, Structure, Lifecycle, Alive, [Next]_vars
  PROVE  Alive'
<1> USE DEF dockerVars, nodeVars, mapVars, etcdVars, kernelVars, historyVars, sweepVars
<1>c. "events" \in Threads /\ "docker" \in Threads
  BY DEF Threads
\* The object of a task that a step concerns, and the end of a task.
<1>0. ASSUME NEW t \in Threads, NEW pc \in Creating, At(t, pc)
      PROVE  /\ task[t] # None /\ task[t] \in Tasks /\ task[t].pc = pc /\ task[t].o \in Objects
             /\ object[task[t].o] \in Network
  BY <1>0 DEF At, TypeOK, Structure, Tasks
<1>d. /\ "config" \in Creating /\ "commit" \in Creating /\ "reread" \in Creating
      /\ "start" \in Creating /\ "load" \in Creating /\ "endpoints" \in Creating
      /\ "reconcile" \in Creating
  BY DEF Creating
\* A creation gets further, which concerns nobody else, or fails.
<1>e. ASSUME NEW t \in Threads, Creation(t),
             docker # "removed" /\ ~swept /\ task'[t] # None => Underway(t)'
      PROVE  Alive'
  <2>1. /\ UNCHANGED <<docker, byFlannel, byDocker, cleaner, swept>> /\ \A u \in Threads \ {t} : task'[u] = task[u]
        /\ task[t] # None /\ task[t].pc \in Creating
    BY <1>e, CreationShape
  <2>2. /\ \A o \in Objects \ {task[t].o} :
             object'[o] = object[o] /\ (o \in processes => o \in processes')
        /\ (bridge => bridge') /\ links \subseteq links' /\ (config # None => config' = config)
    BY <1>e, CreationSpares
  <2> QED
    BY <1>e, <2>1, <2>2, AliveOthers
<1>g. ASSUME NEW t \in Threads, Creation(t), Fails(t) PROVE Alive'
  <2>1. task'[t] = None
    BY <1>g DEF Fails, TypeOK
  <2> QED
    BY <1>e, <1>g, <2>1
<1>f. ASSUME NEW t \in Threads, task[t] \in Tasks, NEW pc \in Creating, Goto(t, pc)
      PROVE  task'[t].pc = pc /\ task'[t].o = task[t].o
  BY <1>f DEF Goto, TypeOK, Tasks
\* A clean-up takes the network for stale: whatever is in use here is swept.
<1>u. ASSUME UNCHANGED <<byFlannel, byDocker, object, task>>, ~swept' => ~InUse,
             cleaner' = None \/ cleaner'.known = None \/ (~swept' => cleaner' = None)
      PROVE  Alive'
  <2>1. ~InUse => /\ byFlannel = None /\ byDocker = None
                  /\ \A t \in Threads : task[t] = None
    BY FlannelNetworkAssumption DEF InUse, Structure, TypeOK, Tasks
  <2> QED
    BY <1>u, <2>1 DEF Alive
<1>1. ASSUME NEW t \in Threads, AlreadyThere(t) PROVE Alive'
  <2>1. /\ UNCHANGED <<docker, object, task, processes, bridge, config, links, cleaner, swept>>
        /\ byFlannel' \in {byFlannel, byDocker} /\ byDocker' \in {byFlannel, byDocker}
    BY <1>1 DEF AlreadyThere, Asked, Get
  <2> QED
    BY <2>1, AliveFrame
<1>2. ASSUME NEW t \in Threads, NewNetwork(t) PROVE Alive'
  <2>1. UNCHANGED <<docker, byFlannel, byDocker, processes, bridge, config, links, cleaner, swept>>
    BY <1>2 DEF NewNetwork, Asked
  <2>2. \A u \in Threads : task'[u] = task[u] \/ (task'[u] # None => task'[u].pc = "config")
    BY <1>2 DEF NewNetwork, Task, TypeOK
  <2>3. \A o \in Objects : object[o] \in Network => object'[o].process = object[o].process
    <3>1. \A o \in Objects : object[o] \in Network => object'[o] = object[o]
      BY <1>2, FlannelNetworkAssumption DEF NewNetwork, TypeOK
    <3> QED
      BY <3>1
  <2> QED
    BY <2>1, <2>2, <2>3, AliveFrame
<1>3. ASSUME NEW t \in Threads, ReadConfig(t) PROVE Alive'
  <2>1. Creation(t)
    BY <1>3 DEF Creation
  <2>2. CASE Goto(t, IF config # None THEN "start" ELSE "commit")
    <3>1. task'[t].pc = (IF config # None THEN "start" ELSE "commit") /\ config' = config
      BY <1>0, <1>3, <1>d, <1>f, <2>2 DEF ReadConfig
    <3>2. Underway(t)'
      BY <3>1 DEF Underway
    <3> QED
      BY <1>e, <2>1, <3>2
  <2> QED
    BY <1>3, <1>g, <2>1, <2>2 DEF ReadConfig
<1>4. ASSUME NEW t \in Threads, CommitConfig(t) PROVE Alive'
  <2>1. Creation(t)
    BY <1>4 DEF Creation
  <2>2. CASE /\ config = None /\ config' = [vni |-> object[task[t].o].vni, by |-> 0]
             /\ Goto(t, "start")
    <3>1. config' \in Config
      BY <1>0, <1>4, <1>d, <2>2, Bounds DEF CommitConfig, Network, Config
    <3>2. config' # None /\ task'[t].pc = "start"
      BY <1>0, <1>4, <1>d, <1>f, <2>2, <3>1, FlannelNetworkAssumption DEF CommitConfig
    <3>3. Underway(t)'
      BY <3>2 DEF Underway
    <3> QED
      BY <1>e, <2>1, <3>3
  <2>3. CASE config # None /\ Goto(t, "reread") /\ UNCHANGED config
    <3>1. config' # None /\ task'[t].pc = "reread"
      BY <1>0, <1>4, <1>d, <1>f, <2>3 DEF CommitConfig
    <3>2. Underway(t)'
      BY <3>1 DEF Underway
    <3> QED
      BY <1>e, <2>1, <3>2
  <2> QED
    BY <1>4, <1>g, <2>1, <2>2, <2>3 DEF CommitConfig
<1>5. ASSUME NEW t \in Threads, RereadConfig(t) PROVE Alive'
  <2>1. Creation(t)
    BY <1>5 DEF Creation
  <2>2. CASE Goto(t, "start")
    <3>1. docker # "removed" /\ ~swept => config' # None
      BY <1>0, <1>5, <1>d DEF RereadConfig, Alive, Underway
    <3>2. task'[t].pc = "start"
      BY <1>0, <1>5, <1>d, <1>f, <2>2 DEF RereadConfig
    <3>3. docker # "removed" /\ ~swept => Underway(t)'
      BY <3>1, <3>2 DEF Underway
    <3> QED
      BY <1>e, <2>1, <3>3
  <2> QED
    BY <1>5, <1>g, <2>1, <2>2 DEF RereadConfig
<1>6. ASSUME NEW t \in Threads, StartFlannel(t) PROVE Alive'
  <2>1. Creation(t)
    BY <1>6 DEF Creation
  <2>2. CASE /\ config # None
             /\ processes' = processes \cup {task[t].o} /\ links' = links \cup {config.vni}
             /\ Goto(t, "load")
    <3>1. task'[t].pc = "load" /\ task'[t].o = task[t].o /\ config' = config
      BY <1>0, <1>6, <1>d, <1>f, <2>2 DEF StartFlannel
    <3>2. Underway(t)'
      BY <2>2, <3>1 DEF Underway
    <3> QED
      BY <1>e, <2>1, <3>2
  <2> QED
    BY <1>6, <1>g, <2>1, <2>2 DEF StartFlannel
<1>7. ASSUME NEW t \in Threads, LoadFlannelConfig(t) PROVE Alive'
  <2>1. Creation(t)
    BY <1>7 DEF Creation
  <2>2. CASE /\ bridge' = TRUE
             /\ object' = [object EXCEPT ![task[t].o].process = TRUE]
             /\ Goto(t, "endpoints") /\ UNCHANGED processes
    <3>1. object'[task[t].o].process
      BY <1>0, <1>7, <1>d, <2>2 DEF LoadFlannelConfig, TypeOK, Network
    <3>2. docker # "removed" /\ ~swept => config # None /\ config.vni \in links /\ task[t].o \in processes
      BY <1>0, <1>7, <1>d DEF LoadFlannelConfig, Alive, Underway
    <3>3. task'[t].pc = "endpoints" /\ task'[t].o = task[t].o /\ UNCHANGED <<config, links>>
      BY <1>0, <1>7, <1>d, <1>f, <2>2 DEF LoadFlannelConfig
    <3>4. docker # "removed" /\ ~swept => Underway(t)'
      BY <2>2, <3>1, <3>2, <3>3 DEF Underway, Works
    <3> QED
      BY <1>e, <2>1, <3>4
  <2> QED
    BY <1>7, <1>g, <2>1, <2>2 DEF LoadFlannelConfig
<1>8. ASSUME NEW t \in Threads, LoadEndpoints(t) PROVE Alive'
  <2>1. Creation(t)
    BY <1>8 DEF Creation
  <2>2. CASE /\ object' = [object EXCEPT ![task[t].o].endpoints = record]
             /\ task' = [task EXCEPT ![t].pc = "reconcile",
                                     ![t].todo = {e \in Endpoints : record[e] # "none"}]
    <3>1. task'[t].pc = "reconcile" /\ task'[t].o = task[t].o
      BY <1>0, <1>8, <1>d, <2>2 DEF LoadEndpoints, TypeOK, Tasks
    <3>2. docker # "removed" /\ ~swept => Works(task[t].o)
      BY <1>0, <1>8, <1>d DEF LoadEndpoints, Alive, Underway
    <3>3. UNCHANGED <<config, processes, links, bridge>>
      BY <1>8, <2>2 DEF LoadEndpoints
    <3>5. object'[task[t].o].process = object[task[t].o].process
      BY <1>0, <1>8, <1>d, <2>2 DEF LoadEndpoints, TypeOK, Network
    <3>4. docker # "removed" /\ ~swept => Underway(t)'
      BY <3>1, <3>2, <3>3, <3>5 DEF Underway, Works
    <3> QED
      BY <1>e, <2>1, <3>4
  <2>3. CASE Fails(t)
    BY <1>g, <2>1, <2>3
  <2> QED
    BY <1>8, <2>2, <2>3, Zenon DEF LoadEndpoints
<1>9. ASSUME NEW t \in Threads, NEW e \in Endpoints, Reconcile(t, e) PROVE Alive'
  <2>1. Creation(t)
    BY <1>9 DEF Creation
  <2>2. task'[t].pc = "reconcile" /\ task'[t].o = task[t].o
    BY <1>0, <1>9, <1>d DEF Reconcile, TypeOK, Tasks
  <2>3. docker # "removed" /\ ~swept => Works(task[t].o)
    BY <1>0, <1>9, <1>d DEF Reconcile, Alive, Underway
  <2>4. object'[task[t].o].process = object[task[t].o].process
    <3>1. object' = [object EXCEPT ![task[t].o].endpoints[e] = "none"] =>
            object'[task[t].o].process = object[task[t].o].process
      BY <1>0, <1>9, <1>d DEF Reconcile, TypeOK, Network
    <3> QED
      BY <1>9, <3>1 DEF Reconcile
  <2>5. UNCHANGED <<config, processes, links, bridge>>
    BY <1>9 DEF Reconcile
  <2>6. docker # "removed" /\ ~swept => Underway(t)'
    BY <2>2, <2>3, <2>4, <2>5 DEF Underway, Works
  <2> QED
    BY <1>e, <2>1, <2>6
<1>10. ASSUME NEW t \in Threads, Created(t) PROVE Alive'
  <2>1. /\ UNCHANGED <<docker, object, processes, bridge, config, links, cleaner, swept>>
        /\ byFlannel' = task[t].o /\ byDocker' \in {byDocker, task[t].o}
        /\ \A u \in Threads : task'[u] # None => task'[u] = task[u]
    BY <1>0, <1>10, <1>d DEF Created, Set, TypeOK
  <2>2. docker # "removed" /\ ~swept => Works(task[t].o)
    BY <1>0, <1>10, <1>d DEF Created, Alive, Underway
  <2>3. \A o \in Objects : Works(o)' <=> Works(o)
    BY <2>1 DEF Works
  <2>4. task[t].o \in Objects
    BY <1>0, <1>10, <1>d DEF Created
  <2>5. docker' # "removed" /\ ~swept' =>
          (byFlannel' # None => Works(byFlannel)') /\ (byDocker' # None => Works(byDocker)')
    BY <2>1, <2>2, <2>4 DEF Alive, Works
  <2>6. ASSUME NEW u \in Threads, task'[u] # None, docker' # "removed", ~swept' PROVE Underway(u)'
    <3>1. task'[u] = task[u] /\ Underway(u)
      BY <2>1, <2>6 DEF Alive
    <3> QED
      BY <2>1, <3>1 DEF Underway, Works
  <2>7. docker' # "removed" /\ ~swept' /\ cleaner' # None /\ cleaner'.known # None =>
          config' # None /\ config'.vni = cleaner'.known
    BY <2>1 DEF Alive
  <2> QED
    BY <2>5, <2>6, <2>7 DEF Alive
<1>11. ASSUME NEW e \in Endpoints, Endpoint(e) PROVE Alive'
  <2>1. EndpointRest
    BY <1>11 DEF Endpoint, CreateEndpoint, Join, Run, Leave, DeleteEndpoint, EndUnheard
  <2>2. \/ UNCHANGED object
        \/ /\ byDocker # None
           /\ \E memory : object' = [object EXCEPT ![byDocker].endpoints[e] = memory]
    BY <1>11 DEF Endpoint, CreateEndpoint, Join, Run, Leave, DeleteEndpoint, EndUnheard, Known,
                 Answered, Refused
  <2>3. CASE UNCHANGED object
    BY <2>1, <2>3, AliveFrame DEF EndpointRest, TypeOK
  <2>4. ASSUME byDocker # None, NEW memory,
               object' = [object EXCEPT ![byDocker].endpoints[e] = memory]
        PROVE  Alive'
    <3>1. byDocker \in Objects /\ object[byDocker] \in Network
      BY <2>4 DEF Structure, TypeOK
    <3>2. /\ object'[byDocker].process = object[byDocker].process
          /\ \A o \in Objects \ {byDocker} : object'[o] = object[o]
      BY <2>4, <3>1 DEF TypeOK, Network
    <3>3. object'[byDocker] \in Network
      BY <1>11, <3>1, EndpointStep, <2>1, <2>4 DEF Structure, EndpointRest
    <3> QED
      BY <2>1, <3>1, <3>2, <3>3, AliveFrame DEF EndpointRest
  <2> QED
    BY <2>2, <2>3, <2>4
<1>12. CASE Delete
  <2>1. docker' = "removed"
    <3>1. CASE HandleNetworkRemoved
      <4>1. events # <<>> /\ Head(events) = "removed" /\ docker' = docker
        BY <3>1 DEF HandleNetworkRemoved, Announced
      <4>2. Pending("removed")
        BY <4>1 DEF Pending, TypeOK
      <4> QED
        BY <4>1, <4>2 DEF Lifecycle
    <3>2. CASE ~HandleNetworkRemoved
      <4>1. task["events"] # None /\ task["events"].pc \in Deleting
        BY <1>12, <3>2 DEF Delete, DeleteProcess, ReadRevision, DeleteConfig, CleanupInterfaces,
                           CleanupEndpoint, RemoveNetwork, Removing, At, Deleting
      <4>2. docker' = docker
        BY <1>12, <3>2 DEF Delete, DeleteProcess, ReadRevision, DeleteConfig, CleanupInterfaces,
                           CleanupEndpoint, RemoveNetwork, RemovalRest
      <4> QED
        BY <4>1, <4>2 DEF Lifecycle
    <3> QED
      BY <3>1, <3>2
  <2> QED
    BY <2>1 DEF Alive
<1>13. CASE NetworkChanges
  BY <1>13, AliveFrame DEF NetworkChanges, TypeOK
<1>14. CASE OtherNode
  <2>1. CASE config = None /\ UNCHANGED <<swept, record>>
    BY <1>14, <2>1, AliveFrame DEF OtherNode, TypeOK
  <2>2. CASE docker = "removed"
    BY <1>14, <2>2 DEF OtherNode, Alive
  <2>3. CASE swept' = (swept \/ InUse \/ cleaner # None)
    BY <1>14, <1>u, <2>3 DEF OtherNode
  <2> QED
    BY <1>14, <2>1, <2>2, <2>3, Zenon DEF OtherNode
<1>15. CASE Crash
  <2>1. /\ byFlannel' = None /\ byDocker' = None /\ cleaner' = None
        /\ \A t \in Threads : task'[t] = None
    BY <1>15 DEF Crash, Down
  <2> QED
    BY <2>1 DEF Alive
<1>16. CASE Start \/ ServeEarly
  BY <1>16, AliveFrame DEF Start, ServeEarly, TypeOK
<1>17. CASE LoadDockerData
  <2>1. cleaner'.known = None
    BY <1>17 DEF LoadDockerData
  <2> QED
    BY <1>17, <2>1, AliveFrame DEF LoadDockerData, TypeOK
<1>19. CASE TakeNetworks
  <2>1. cleaner # None /\ cleaner'.known = cleaner.known
    BY <1>19 DEF TakeNetworks, Cleaning, TypeOK, Cleaners
  <2> QED
    BY <1>19, <2>1, AliveFrame DEF TakeNetworks, TypeOK
<1>20. CASE ReadNetworks
  <2>1. CASE cleaner.existing /\ config # None
    <3>4. PICK named \in BOOLEAN : cleaner' = [pc |-> "links", existing |-> TRUE,
                                              known |-> config.vni, named |-> named]
      BY <1>20, <2>1 DEF ReadNetworks
    <3>1. config # None /\ cleaner'.known = config.vni
      BY <2>1, <3>4
    <3>2. UNCHANGED <<docker, byFlannel, byDocker, object, task, processes, bridge, links, config, swept>>
      BY <1>20 DEF ReadNetworks
    <3> QED
      BY <3>1, <3>2, AliveFrame DEF TypeOK
  <2>2. CASE ~(cleaner.existing /\ config # None)
    <3>1. cleaner # None /\ cleaner'.known = cleaner.known
      BY <1>20, <2>2 DEF ReadNetworks, Cleaning, CleansOn, TypeOK, Cleaners
    <3> QED
      BY <1>20, <3>1, AliveFrame DEF ReadNetworks, TypeOK
  <2> QED
    BY <2>1, <2>2
<1>21. CASE DeleteStaleData
  <2>1. /\ cleaner # None /\ cleaner.pc = "delete" /\ cleaner'.known = cleaner.known
        /\ UNCHANGED <<docker, byFlannel, byDocker, object, task, processes, bridge, links>>
    BY <1>21 DEF DeleteStaleData, Cleaning, CleansOn, TypeOK, Cleaners
  <2>2. cleaner'.known = None
    BY <2>1 DEF Lifecycle
  <2>3. CASE swept' = (swept \/ InUse)
    BY <1>u, <2>1, <2>2, <2>3
  <2>4. CASE UNCHANGED <<config, swept>>
    BY <2>1, <2>4, AliveFrame DEF TypeOK
  <2> QED
    BY <1>21, <2>3, <2>4 DEF DeleteStaleData
<1>22. CASE DeleteStaleLinks
  <2>1. /\ cleaner # None /\ cleaner'.known = cleaner.known
        /\ swept' = (swept \/ (cleaner.known = None /\ InUse))
        /\ UNCHANGED <<docker, byFlannel, byDocker, object, task, processes, bridge, config>>
    BY <1>22 DEF DeleteStaleLinks, Cleaning, CleansOn, TypeOK, Cleaners
  <2>2. CASE UNCHANGED links
    BY <2>1, <2>2, AliveFrame DEF TypeOK
  <2>3. CASE links' = ValidLinks(cleaner.known)
    <3>1. CASE cleaner.known = None
      BY <1>u, <2>1, <3>1
    <3>2. CASE cleaner.known # None
      <4> SUFFICES ASSUME docker' # "removed", ~swept' PROVE Alive'
        BY DEF Alive
      <4>1. /\ config # None /\ config.vni = cleaner.known
            /\ docker # "removed" /\ ~swept
        BY <2>1, <3>2 DEF Alive
      <4>2. config.vni \in links => config'.vni \in links'
        BY <2>1, <2>3, <4>1 DEF ValidLinks
      <4>3. \A o : Works(o) => Works(o)'
        BY <2>1, <4>2 DEF Works
      <4>4. ASSUME NEW t \in Threads, task'[t] # None PROVE Underway(t)'
        <5>1. task'[t] = task[t] /\ Underway(t)
          BY <2>1, <4>1, <4>4 DEF Alive
        <5> QED
          BY <2>1, <4>2, <4>3, <5>1 DEF Underway, Works
      <4> QED
        BY <2>1, <4>1, <4>3, <4>4 DEF Alive, Works
    <3> QED
      BY <3>1, <3>2
  <2> QED
    BY <1>22, <2>2, <2>3 DEF DeleteStaleLinks
<1>23. CASE DeleteStaleBridge
  <2>1. /\ cleaner' = None
        /\ UNCHANGED <<docker, byFlannel, byDocker, object, task, processes, config, links>>
    BY <1>23 DEF DeleteStaleBridge
  <2>2. CASE UNCHANGED <<bridge, swept>>
    BY <2>1, <2>2, AliveFrame DEF TypeOK
  <2>3. CASE swept' = (swept \/ InUse)
    BY <1>u, <2>1, <2>3
  <2> QED
    BY <1>23, <2>2, <2>3, Zenon DEF DeleteStaleBridge
<1>18. CASE UNCHANGED vars
  BY <1>18, AliveFrame DEF vars, TypeOK
<1> QED
  BY <1>1, <1>2, <1>3, <1>4, <1>5, <1>6, <1>7, <1>8, <1>9, <1>10, <1>11, <1>12, <1>13, <1>14,
     <1>15, <1>16, <1>17, <1>18, <1>19, <1>20, <1>21, <1>22, <1>23
  DEF Next, Create, CleanupStaleNetworks

\* The order of life and the whole network hold at the start.
LEMMA AliveInit == Init => Lifecycle /\ Alive
<1>1. Init => Lifecycle
  BY DEF Init, Lifecycle, Pending, Threads
<1>2. Init => Alive
  BY DEF Init, Alive
<1> QED
  BY <1>1, <1>2

\* While Docker has the network, the object that its calls and the events find has a running
\* flanneld on the shared configuration and its bridge, through all failures, crashes and
\* restarts, also when both threads created one at the same time; until a clean-up with an old
\* list, here or elsewhere, takes the network for stale.
THEOREM RegisteredNetworksWork == Spec => []RegisteredWorks
<1>1. Lifecycle /\ Alive /\ TypeOK /\ Structure /\ [Next]_vars => (Lifecycle /\ Alive)'
  BY LifecycleStep, AliveStep
<1>2. Structure /\ Alive => RegisteredWorks
  <2> SUFFICES ASSUME Structure, Alive, Registered, docker = "exists", ~swept
               PROVE  Works(Working)
    BY DEF RegisteredWorks, Works
  <2>1. Working # None /\ Working \in {byFlannel, byDocker}
    BY DEF Registered, Working, Found
  <2> QED
    BY <2>1 DEF Alive
<1> QED
  BY <1>1, <1>2, AliveInit, TypeCorrect, PTL DEF Spec

\* The nodes agree on the number of the VXLAN once: while Docker has a network that is found for
\* calls, the configuration in etcd stays what it is, unless a clean-up takes it for stale.
ConfigStays ==
  [][docker = "exists" /\ Registered /\ ~swept' => config' = config]_vars

\* Neither another creation, on this node or elsewhere, nor a removal that comes late, nor a
\* crash, nor a clean-up that knows the network touches its configuration once calls find it.
THEOREM ConfigIsFinal == Spec => ConfigStays
<1> USE DEF dockerVars, nodeVars, mapVars, etcdVars, kernelVars, historyVars, sweepVars
<1>1. ASSUME TypeOK, Structure, Lifecycle, Alive, [Next]_vars,
             docker = "exists", Registered, ~swept'
      PROVE  config' = config
  <2>0. InUse /\ (~swept => config # None)
    <3>1. PICK o \in Objects : o \in {byFlannel, byDocker} /\ object[o] \in Network
      BY <1>1 DEF Registered, Structure, TypeOK
    <3>2. o # None
      BY <3>1, FlannelNetworkAssumption
    <3> QED
      BY <1>1, <3>1, <3>2, FlannelNetworkAssumption DEF InUse, Alive, Works
  <2>1. ASSUME NEW t \in Threads, Create(t) PROVE config' = config
    <3>1. CASE Creation(t)
      BY <1>1, <2>0, <3>1, CreationSpares, CreationShape
    <3>2. CASE ~Creation(t)
      BY <2>1, <3>2 DEF Create, Creation, AlreadyThere, NewNetwork, Created, Asked
    <3> QED
      BY <3>1, <3>2
  <2>2. ASSUME NEW e \in Endpoints, Endpoint(e) PROVE config' = config
    BY <2>2 DEF Endpoint, CreateEndpoint, Join, Run, Leave, DeleteEndpoint, EndUnheard, EndpointRest
  <2>3. CASE Delete
    <3>1. CASE DeleteConfig
      <4>1. task["events"] # None /\ task["events"].pc \in Deleting
        BY <3>1 DEF DeleteConfig, Removing, At, Deleting
      <4> QED
        BY <1>1, <4>1 DEF Lifecycle
    <3>2. CASE ~DeleteConfig
      BY <2>3, <3>2 DEF Delete, HandleNetworkRemoved, DeleteProcess, ReadRevision,
         CleanupInterfaces, CleanupEndpoint, RemoveNetwork
    <3> QED
      BY <3>1, <3>2
  <2>4. CASE OtherNode
    BY <1>1, <2>0, <2>4 DEF OtherNode
  <2>5. CASE DeleteStaleData
    BY <1>1, <2>0, <2>5 DEF DeleteStaleData
  <2>6. CASE \/ NetworkChanges \/ Crash \/ Start \/ ServeEarly \/ LoadDockerData
             \/ TakeNetworks \/ ReadNetworks \/ DeleteStaleLinks \/ DeleteStaleBridge
             \/ UNCHANGED vars
    BY <2>6 DEF NetworkChanges, Crash, Start, ServeEarly, LoadDockerData, TakeNetworks,
                ReadNetworks, DeleteStaleLinks, DeleteStaleBridge, vars
  <2> QED
    BY <1>1, <2>1, <2>2, <2>3, <2>4, <2>5, <2>6 DEF Next, CleanupStaleNetworks
<1>2. Lifecycle /\ Alive /\ TypeOK /\ Structure /\ [Next]_vars => (Lifecycle /\ Alive)'
  BY LifecycleStep, AliveStep
<1>3. Spec => [](TypeOK /\ Structure /\ Lifecycle /\ Alive)
  BY <1>2, AliveInit, TypeCorrect, PTL DEF Spec
<1> QED
  BY <1>1, <1>3, PTL DEF Spec, ConfigStays

-----------------------------------------------------------------------------
(* Threads that do not overlap.                                            *)

\* A removal before its end.
Removal ==
  \/ DeleteProcess \/ ReadRevision \/ DeleteConfig \/ CleanupInterfaces
  \/ \E e \in Endpoints : CleanupEndpoint(e)

\* A removal stays with its object, and takes things away in the order of its steps, or fails.
LEMMA RemovalKeeps ==
  ASSUME TypeOK, Removal
  PROVE  /\ up /\ UNCHANGED <<docker, up, loaded, ready, events, cleaner, byFlannel, byDocker>>
         /\ task["events"] \in Tasks /\ task["events"] # None /\ task["events"].pc \in Deleting
         /\ task'["docker"] = task["docker"]
         /\ task'["events"] # None /\ task'["events"].o = task["events"].o
         /\ task'["events"].pc \in Deleting
         /\ processes' \subseteq processes /\ (bridge' => bridge)
         /\ \/ spoilt'
            \/ /\ spoilt' = spoilt /\ task'["events"].pc \notin {"delete", "remove"}
               /\ task["events"].pc = "delete" => task["events"].o \notin processes'
               /\ task'["events"].pc = "cleanup" => task["events"].pc = "cleanup" \/ ~bridge'
<1> USE DEF dockerVars, nodeVars, mapVars, etcdVars, kernelVars, historyVars, sweepVars
<1>c. /\ "events" \in Threads /\ "docker" \in Threads /\ "docker" # "events"
      /\ "delete" \in Deleting /\ "revision" \in Deleting /\ "commit deletion" \in Deleting
      /\ "interfaces" \in Deleting /\ "cleanup" \in Deleting /\ "remove" \in Deleting
  BY DEF Threads, Deleting
<1>1. /\ up /\ task["events"] # None /\ task["events"].pc \in Deleting
      /\ UNCHANGED <<docker, up, loaded, ready, events, cleaner, byFlannel, byDocker>>
  BY DEF Removal, DeleteProcess, ReadRevision, DeleteConfig, CleanupInterfaces, CleanupEndpoint,
         RemovalRest, Removing, At, Deleting
<1>2. task \in [Threads -> Tasks \cup {None}] /\ task["events"] \in Tasks
  BY <1>1, <1>c DEF TypeOK
\* How the task goes on.
<1>p. ASSUME NEW next \in Tasks, next.o = task["events"].o, task' = [task EXCEPT !["events"] = next]
      PROVE  /\ task'["docker"] = task["docker"] /\ task'["events"] # None
             /\ task'["events"].o = task["events"].o /\ task'["events"].pc = next.pc
  BY <1>2, <1>p, <1>c, FlannelNetworkAssumption
<1>s. ASSUME NEW pc \in Deleting,
             task' = [task EXCEPT !["events"].pc = pc, !["events"].seen = config]
      PROVE  /\ task'["docker"] = task["docker"] /\ task'["events"] # None
             /\ task'["events"].o = task["events"].o /\ task'["events"].pc = pc
  <2>1. PICK next \in Tasks : next = [task["events"] EXCEPT !.pc = pc, !.seen = config]
    BY <1>2 DEF Tasks, TypeOK
  <2>2. task' = [task EXCEPT !["events"] = next] /\ next.o = task["events"].o /\ next.pc = pc
    BY <1>2, <1>s, <1>c, <2>1 DEF Tasks
  <2> QED
    BY <1>p, <2>2
<1>t. ASSUME NEW pc \in Deleting, NEW todo \in SUBSET Endpoints,
             task' = [task EXCEPT !["events"].pc = pc, !["events"].todo = todo]
      PROVE  /\ task'["docker"] = task["docker"] /\ task'["events"] # None
             /\ task'["events"].o = task["events"].o /\ task'["events"].pc = pc
  <2>1. PICK next \in Tasks : next = [task["events"] EXCEPT !.pc = pc, !.todo = todo]
    BY <1>2 DEF Tasks
  <2>2. task' = [task EXCEPT !["events"] = next] /\ next.o = task["events"].o /\ next.pc = pc
    BY <1>2, <1>t, <1>c, <2>1 DEF Tasks
  <2> QED
    BY <1>p, <2>2
<1>4. ASSUME NEW pc \in Deleting, Goto("events", pc)
      PROVE  /\ task'["docker"] = task["docker"] /\ task'["events"] # None
             /\ task'["events"].o = task["events"].o /\ task'["events"].pc = pc
  <2>1. PICK next \in Tasks : next = [task["events"] EXCEPT !.pc = pc]
    BY <1>2 DEF Tasks
  <2>2. task' = [task EXCEPT !["events"] = next] /\ next.o = task["events"].o /\ next.pc = pc
    BY <1>2, <1>4, <1>c, <2>1 DEF Tasks, Goto
  <2> QED
    BY <1>p, <2>2
<1>5. DeletionFails => spoilt' /\ \E pc \in Deleting : Goto("events", pc)
  BY <1>c DEF DeletionFails
<1>6. ASSUME DeletionFails, processes' \subseteq processes, bridge' => bridge
      PROVE  /\ task'["docker"] = task["docker"] /\ task'["events"] # None
             /\ task'["events"].o = task["events"].o /\ task'["events"].pc \in Deleting
             /\ processes' \subseteq processes /\ (bridge' => bridge)
             /\ spoilt'
  BY <1>4, <1>5, <1>6
<1>7. CASE DeleteProcess
  <2>1. CASE EndFlannelDaemonProcess /\ Goto("events", "revision") /\ UNCHANGED spoilt
    <3>1. processes' = processes \ {task["events"].o} /\ bridge' = bridge
      BY <1>7, <2>1 DEF DeleteProcess, EndFlannelDaemonProcess, Removed
    <3> QED
      BY <1>1, <1>2, <1>4, <1>c, <2>1, <3>1
  <2>2. CASE DeletionFails /\ UNCHANGED <<object, processes>>
    BY <1>1, <1>2, <1>6, <1>7, <2>2 DEF DeleteProcess
  <2> QED
    BY <1>7, <2>1, <2>2 DEF DeleteProcess
<1>8. CASE ReadRevision
  <2>1. UNCHANGED <<processes, bridge>> /\ task["events"].pc = "revision"
    BY <1>8 DEF ReadRevision, Removing, At
  <2>2. CASE /\ task' = [task EXCEPT !["events"].pc = "commit deletion", !["events"].seen = config]
             /\ UNCHANGED spoilt
    BY <1>1, <1>2, <1>s, <1>c, <2>1, <2>2, Zenon
  <2>3. CASE DeletionFails
    BY <1>1, <1>2, <1>6, <2>1, <2>3
  <2> QED
    BY <1>8, <2>2, <2>3 DEF ReadRevision
<1>9. CASE DeleteConfig
  <2>1. UNCHANGED <<processes, bridge>> /\ task["events"].pc = "commit deletion"
    BY <1>9 DEF DeleteConfig, Removing, At
  <2>2. CASE Goto("events", "interfaces") /\ UNCHANGED spoilt
    BY <1>1, <1>2, <1>4, <1>c, <2>1, <2>2
  <2>3. CASE DeletionFails
    BY <1>1, <1>2, <1>6, <2>1, <2>3
  <2> QED
    BY <1>9, <2>2, <2>3 DEF DeleteConfig
<1>10. CASE CleanupInterfaces
  <2>1. /\ UNCHANGED processes /\ bridge' \in {bridge, FALSE} /\ bridge \in BOOLEAN
        /\ task["events"].pc = "interfaces"
    BY <1>10 DEF CleanupInterfaces, Removing, At, TypeOK
  <2>4. processes' \subseteq processes /\ (bridge' => bridge)
    <3>1. processes' = processes /\ (bridge' = bridge \/ bridge' = FALSE)
      BY <2>1
    <3>2. CASE bridge' = bridge
      BY <3>1, <3>2
    <3>3. CASE bridge' = FALSE
      BY <3>1, <3>3
    <3> QED
      BY <3>1, <3>2, <3>3
  <2>2. CASE /\ bridge' = FALSE /\ UNCHANGED spoilt
             /\ task' = [task EXCEPT !["events"].pc = "cleanup", !["events"].todo =
                           {e \in Endpoints : object[Removed].endpoints[e] # "none"}]
    <3>1. PICK todo \in SUBSET Endpoints :
            task' = [task EXCEPT !["events"].pc = "cleanup", !["events"].todo = todo]
      BY <2>2
    <3>2. /\ task'["docker"] = task["docker"] /\ task'["events"] # None
          /\ task'["events"].o = task["events"].o /\ task'["events"].pc = "cleanup"
      BY <1>t, <1>c, <3>1
    <3>3. processes' = processes /\ ~bridge' /\ spoilt' = spoilt
      BY <2>1, <2>2
    <3> QED
      BY <1>1, <1>2, <1>c, <2>1, <3>2, <3>3
  <2>3. CASE DeletionFails
    BY <1>1, <1>2, <1>6, <2>3, <2>4
  <2> QED
    BY <1>10, <2>2, <2>3 DEF CleanupInterfaces
<1>11. ASSUME NEW e \in Endpoints, CleanupEndpoint(e)
       PROVE  /\ task'["docker"] = task["docker"] /\ task'["events"] # None
              /\ task'["events"].o = task["events"].o /\ task'["events"].pc \in Deleting
              /\ UNCHANGED <<processes, bridge>> /\ task["events"].pc = "cleanup"
              /\ spoilt' \/ (spoilt' = spoilt /\ task'["events"].pc = "cleanup")
  <2>1. UNCHANGED <<processes, bridge>> /\ task["events"].pc = "cleanup"
    BY <1>11 DEF CleanupEndpoint, Removing, At
  <2>2. CASE task' = [task EXCEPT !["events"].todo = @ \ {e}] /\ UNCHANGED spoilt
    <3>1. PICK next \in Tasks : next = [task["events"] EXCEPT !.todo = @ \ {e}]
      BY <1>2 DEF Tasks
    <3>2. /\ task' = [task EXCEPT !["events"] = next] /\ next.o = task["events"].o
          /\ next.pc = task["events"].pc
      BY <1>2, <2>2, <1>c, <3>1 DEF Tasks
    <3> QED
      BY <1>p, <1>c, <2>1, <2>2, <3>2
  <2>3. CASE DeletionFails
    BY <1>6, <2>1, <2>3
  <2> QED
    BY <1>11, <2>2, <2>3 DEF CleanupEndpoint
<1>12. CASE \E e \in Endpoints : CleanupEndpoint(e)
  BY <1>1, <1>2, <1>11, <1>12
<1> QED
  BY <1>7, <1>8, <1>9, <1>10, <1>12 DEF Removal

\* One thread at a time is busy with the network, which is created only when the map has none,
\* and both keys lead to the same one.
Apart ==
  /\ byDocker # None => byDocker = byFlannel
  /\ \A t, u \in Threads : task[t] # None /\ task[u] # None => t = u
  /\ \A t \in Threads : task[t] # None /\ task[t].pc \in Creating => byFlannel = None

\* A creation is alone.
LEMMA CreationAlone ==
  ASSUME TypeOK, Apart, NEW t \in Threads, Creation(t)
  PROVE  /\ byFlannel = None /\ byFlannel' = None
         /\ \A u \in Threads \ {t} : task[u] = None /\ task'[u] = None
<1>1. /\ task[t] # None /\ task[t].pc \in Creating /\ byFlannel' = byFlannel
      /\ \A u \in Threads \ {t} : task'[u] = task[u]
  BY CreationShape DEF mapVars
<1> QED
  BY <1>1 DEF Apart

\* So is a removal.
LEMMA RemovalAlone ==
  ASSUME TypeOK, Apart, Removal
  PROVE  task["docker"] = None /\ task'["docker"] = None
<1>1. task["events"] # None /\ task'["docker"] = task["docker"]
  BY RemovalKeeps
<1>2. "events" \in Threads /\ "docker" \in Threads /\ "events" # "docker"
  BY DEF Threads
<1> QED
  BY <1>1, <1>2 DEF Apart

\* Every step keeps the threads apart.
LEMMA ApartStep ==
  ASSUME ~Overlap, TypeOK, Structure, Apart, [Next]_vars
  PROVE  Apart'
<1> USE DEF dockerVars, nodeVars, mapVars, etcdVars, kernelVars, historyVars, sweepVars
<1>c. /\ "events" \in Threads /\ "docker" \in Threads
      /\ \A t \in Threads : t = "events" \/ t = "docker"
  BY DEF Threads
\* Where the map stays, as does what the threads do.
<1>f. ASSUME UNCHANGED <<byFlannel, byDocker, task>> PROVE Apart'
  BY <1>f DEF Apart
\* Where no thread has anything to do, and the map agrees.
<1>n. ASSUME \A u \in Threads : task'[u] = None, byDocker' \in {byFlannel', None} PROVE Apart'
  BY <1>n DEF Apart
<1>1. ASSUME NEW t \in Threads, AlreadyThere(t) PROVE Apart'
  <2>1. \A u \in Threads : task'[u] = None
    BY <1>1, AskedType DEF AlreadyThere
  <2>2. byFlannel' = byFlannel /\ byDocker' \in {byFlannel, None}
    BY <1>1 DEF AlreadyThere, Get, Structure, Apart
  <2> QED
    BY <1>n, <2>1, <2>2
<1>2. ASSUME NEW t \in Threads, NewNetwork(t) PROVE Apart'
  <2>1. /\ byFlannel' = None /\ byDocker' = None /\ \A u \in Threads : task[u] = None
    BY <1>2, AskedType DEF NewNetwork, Missing, Found, Structure
  <2>2. \A u \in Threads \ {t} : task'[u] = None
    BY <1>2, <2>1 DEF NewNetwork, TypeOK
  <2> QED
    BY <2>1, <2>2 DEF Apart
<1>3. ASSUME NEW t \in Threads, Creation(t) PROVE Apart'
  <2>1. /\ byFlannel' = None /\ byDocker' = None /\ \A u \in Threads \ {t} : task'[u] = None
    BY <1>3, CreationShape, CreationAlone DEF Structure
  <2> QED
    BY <2>1 DEF Apart
<1>4. ASSUME NEW t \in Threads, Created(t) PROVE Apart'
  <2>1. task[t] # None /\ task[t].pc = "reconcile" /\ "reconcile" \in Creating
    BY <1>4 DEF Created, At, Creating
  <2>2. byDocker = None /\ \A u \in Threads \ {t} : task[u] = None
    BY <2>1 DEF Apart, Structure
  <2>3. \A u \in Threads : task'[u] = None
    BY <1>4, <2>2 DEF Created, TypeOK
  <2>4. byFlannel' = task[t].o /\ byDocker' \in {byFlannel', None}
    BY <1>4, <2>2 DEF Created, Set
  <2> QED
    BY <1>n, <2>3, <2>4
<1>5. ASSUME NEW e \in Endpoints, Endpoint(e) PROVE Apart'
  BY <1>5, <1>f DEF Endpoint, CreateEndpoint, Join, Run, Leave, DeleteEndpoint, EndUnheard, EndpointRest
<1>6. CASE HandleNetworkRemoved
  <2>1. ~Conflict /\ \A u \in Threads : task[u] = None
    BY <1>6, <1>c DEF HandleNetworkRemoved, Idle, Alone, Apart, Conflict
  <2>2. /\ byFlannel' = byFlannel /\ byDocker' \in {byFlannel, None}
        /\ task' = task \/ task' = [task EXCEPT !["events"] = Task("delete", Found("events"))]
    BY <1>6, <2>1 DEF HandleNetworkRemoved, Get, Structure, Apart
  <2>3. \A u \in Threads : task'[u] # None => u = "events" /\ task'[u].pc = "delete"
    BY <2>1, <2>2 DEF Task, TypeOK
  <2> QED
    BY <2>2, <2>3 DEF Apart, Creating
<1>7. CASE Removal
  <2>1. /\ UNCHANGED <<byFlannel, byDocker>> /\ task'["docker"] = None
        /\ task'["events"].pc \in Deleting
    BY <1>7, RemovalKeeps, RemovalAlone
  <2>2. \A u \in Threads : task'[u] # None => u = "events" /\ task'[u].pc \in Deleting
    BY <1>c, <2>1
  <2> QED
    BY <2>1, <2>2 DEF Apart, Creating, Deleting
<1>8. CASE RemoveNetwork
  <2>1. task["events"] # None /\ ~Conflict
    BY <1>8 DEF RemoveNetwork, Removing, At, Apart, Conflict
  <2>2. byFlannel' = None /\ byDocker' = None
    BY <1>8, <2>1 DEF RemoveNetwork, Remove
  <2>3. \A u \in Threads : task'[u] = None
    BY <1>8, <1>c, <2>1 DEF RemoveNetwork, Apart, TypeOK
  <2> QED
    BY <1>n, <2>2, <2>3
<1>9. CASE \/ NetworkChanges \/ OtherNode \/ Start \/ ServeEarly \/ LoadDockerData
           \/ CleanupStaleNetworks \/ UNCHANGED vars
  BY <1>9, <1>f DEF NetworkChanges, OtherNode, Start, ServeEarly, LoadDockerData, vars,
     CleanupStaleNetworks, TakeNetworks, ReadNetworks, DeleteStaleData, DeleteStaleLinks,
     DeleteStaleBridge
<1>10. CASE Crash
  <2>1. byFlannel' = None /\ byDocker' = None /\ \A u \in Threads : task'[u] = None
    BY <1>10 DEF Crash, Down
  <2> QED
    BY <1>n, <2>1
<1> QED
  BY <1>1, <1>2, <1>3, <1>4, <1>5, <1>6, <1>7, <1>8, <1>9, <1>10
  DEF Next, Create, Creation, Delete, Removal

\* At first no thread has anything to do.
LEMMA ApartInit == Init => Apart
BY DEF Init, Apart

\* When the threads do not overlap no call and no event finds another network than the one
\* that is registered, and no removal meets a map that disagrees.
THEOREM MapsStayAgreed == ASSUME ~Overlap PROVE Spec => []MapsAgree
<1>1. Apart /\ TypeOK /\ Structure /\ [Next]_vars => Apart'
  BY ApartStep
<1>2. Apart => MapsAgree
  BY DEF Apart, MapsAgree, Conflict
<1> QED
  BY <1>1, <1>2, ApartInit, TypeCorrect, PTL DEF Spec

-----------------------------------------------------------------------------
(* Networks that are removed leave nothing.                                *)

\* The last that is to be announced is that Docker removed the network.
Ends == Len(events) > 0 /\ events[Len(events)] = "removed"

Busy == byFlannel # None \/ \E t \in Threads : task[t] # None

\* What is created, or still to be created, when Docker has removed the network, is removed
\* afterwards, unless something failed; a removal concerns the network of the map; nothing
\* survives the plugin.
RemovalOrder ==
  /\ /\ docker = "removed" /\ ~spoilt
     /\ \/ Pending("added") \/ Pending("changed")
        \/ byFlannel # None /\ task["events"] = None
        \/ \E t \in Threads : task[t] # None /\ task[t].pc \in Creating
     => Ends
  /\ task["events"] # None /\ task["events"].pc \in Deleting => task["events"].o = byFlannel
  /\ ~up => processes = {} /\ ~Busy

\* As long as nothing failed, every flanneld and the bridge belong to the network of the map or
\* to one that is being created or removed, or will once the events are heard; or the bridge
\* is one that the clean-up still has to look at, and that it leaves only to such a network.
Accounted ==
  ~spoilt =>
    /\ \A o \in processes : o = byFlannel \/ \E t \in Threads : task[t] # None /\ task[t].o = o
    /\ up /\ bridge => Busy \/ Pending("added") \/ ~loaded \/ cleaner # None
    /\ cleaner # None /\ cleaner.existing /\ bridge => Busy \/ Pending("added")
    /\ cleaner # None /\ cleaner.pc = "listed" /\ docker = "exists" => Busy \/ Pending("added")
    /\ task["events"] # None =>
         /\ task["events"].pc # "remove"
         /\ task["events"].pc \in Deleting \ {"delete"} => task["events"].o \notin processes
         /\ task["events"].pc = "cleanup" => ~bridge

\* What is left when an event is taken.
LEMMA TailEnds ==
  ASSUME TypeOK, events # <<>>, events' = Tail(events)
  PROVE  /\ \A event : Pending(event) /\ event # Head(events) => Pending(event)'
         /\ Ends /\ Head(events) # "removed" => Ends'
         /\ \A event : Ends /\ Pending(event)' => Ends'
<1>1. events \in Seq({"added", "changed", "removed", "cleanup"})
  BY DEF TypeOK
<1>2. /\ Len(events) \in Nat /\ Len(events) > 0 /\ Head(events) = events[1]
      /\ Len(events') = Len(events) - 1
      /\ \A i \in 1 .. Len(events') : events'[i] = events[i + 1]
  BY <1>1
<1>3. ASSUME NEW i \in 1 .. Len(events), i # 1
      PROVE  i - 1 \in 1 .. Len(events') /\ events'[i - 1] = events[i]
  <2>1. i - 1 \in 1 .. Len(events') /\ (i - 1) + 1 = i
    BY <1>2, <1>3
  <2> QED
    BY <1>2, <2>1
<1>4. \A event : Pending(event) /\ event # Head(events) => Pending(event)'
  <2> SUFFICES ASSUME NEW event, Pending(event), event # Head(events) PROVE Pending(event)'
    OBVIOUS
  <2>1. PICK i \in 1 .. Len(events) : events[i] = event
    BY DEF Pending
  <2>2. i - 1 \in 1 .. Len(events') /\ events'[i - 1] = event
    BY <1>2, <1>3, <2>1
  <2> QED
    BY <2>2 DEF Pending
<1>5. Ends /\ Len(events') > 0 => Ends'
  <2> SUFFICES ASSUME Ends, Len(events') > 0 PROVE Ends'
    OBVIOUS
  <2>1. Len(events) \in 1 .. Len(events) /\ Len(events) # 1
    BY <1>2
  <2>2. events'[Len(events) - 1] = events[Len(events)]
    BY <1>3, <2>1
  <2> QED
    BY <1>2, <2>2 DEF Ends
<1>6. Ends /\ Head(events) # "removed" => Len(events') > 0
  BY <1>2 DEF Ends
<1>7. \A event : Pending(event)' => Len(events') > 0
  BY <1>2 DEF Pending
<1> QED
  BY <1>4, <1>5, <1>6, <1>7

\* Every step keeps the order of a network's removal.
LEMMA RemovalOrderStep ==
  ASSUME ~Overlap, TypeOK, Structure, Apart, Lifecycle, RemovalOrder, [Next]_vars
  PROVE  RemovalOrder'
<1> USE DEF dockerVars, nodeVars, mapVars, etcdVars, kernelVars, historyVars, sweepVars
<1>c. /\ "events" \in Threads /\ "docker" \in Threads /\ Creating \cap Deleting = {}
      /\ \A t \in Threads : t = "events" \/ t = "docker"
  BY DEF Threads, Creating, Deleting
\* Where the order of events and what there is to remove stay.
<1>f. ASSUME UNCHANGED <<docker, events, byFlannel, task>>, up => up', spoilt => spoilt',
             ~up => processes' = processes
      PROVE  RemovalOrder'
  BY <1>f DEF RemovalOrder, Ends, Pending, Busy
<1>1. ASSUME NEW t \in Threads, Asked(t), byFlannel' = byFlannel, spoilt => spoilt',
             task' = task \/ task' = [task EXCEPT ![t] = Task("config", task'[t].o)]
      PROVE  RemovalOrder'
  <2>1. up /\ UNCHANGED <<docker, up>> /\ task[t] = None /\ \A u \in Threads : task[u] = None
    BY <1>1, AskedType DEF Asked, Idle
  <2>2. \A u \in Threads : task'[u] # None => u = t /\ task'[u].pc = "config"
    BY <1>1, <2>1 DEF Task, TypeOK
  <2>3. task'["events"] # None => task'["events"].pc \notin Deleting
    BY <1>c, <2>2 DEF Deleting
  <2>4. CASE t = "docker"
    <3>1. docker # "removed"
      BY <1>1, <2>4 DEF Asked
    <3> QED
      BY <2>1, <2>3, <3>1 DEF RemovalOrder
  <2>5. CASE t = "events"
    <3>1. events # <<>> /\ events' = Tail(events) /\ Head(events) \in {"added", "changed"}
      BY <1>1, <2>5 DEF Asked, Announced
    <3>2. Pending("added") \/ Pending("changed")
      BY <3>1, TailPending
    <3>3. docker = "removed" /\ ~spoilt => Ends
      BY <2>1, <3>2 DEF RemovalOrder
    <3>4. docker' = "removed" /\ ~spoilt' => Ends'
      BY <1>1, <2>1, <3>1, <3>3, TailEnds
    <3> QED
      BY <2>1, <2>3, <3>4 DEF RemovalOrder
  <2> QED
    BY <1>c, <2>4, <2>5
<1>2. ASSUME NEW t \in Threads, AlreadyThere(t) PROVE RemovalOrder'
  <2>1. byFlannel' = byFlannel
    BY <1>2 DEF AlreadyThere, Get, Structure, Apart
  <2> QED
    BY <1>1, <1>2, <2>1 DEF AlreadyThere
<1>3. ASSUME NEW t \in Threads, NewNetwork(t) PROVE RemovalOrder'
  <2>1. \A o \in Objects : Task("config", o).o = o
    BY DEF Task
  <2>2. task' = task \/ task' = [task EXCEPT ![t] = Task("config", task'[t].o)]
    BY <1>3, <2>1 DEF NewNetwork, TypeOK
  <2> QED
    BY <1>1, <1>3, <2>2 DEF NewNetwork
<1>4. ASSUME NEW t \in Threads, Creation(t) PROVE RemovalOrder'
  <2>1. /\ up /\ UNCHANGED <<docker, up, events, byFlannel>> /\ byFlannel = None
        /\ task[t] # None /\ task[t].pc \in Creating
        /\ \A u \in Threads \ {t} : task'[u] = None
        /\ task'[t] # None => task'[t].pc \in Creating
        /\ spoilt => spoilt'
    BY <1>4, CreationShape, CreationKeeps, CreationAlone
  <2>2. docker = "removed" /\ ~spoilt => Ends
    BY <2>1 DEF RemovalOrder
  <2>3. docker' = "removed" /\ ~spoilt' => Ends'
    BY <2>1, <2>2 DEF Ends
  <2> QED
    BY <1>c, <2>1, <2>3 DEF RemovalOrder
<1>5. ASSUME NEW t \in Threads, Created(t) PROVE RemovalOrder'
  <2>1. /\ up /\ UNCHANGED <<docker, up, events, spoilt>>
        /\ task[t] # None /\ task[t].pc \in Creating
    BY <1>5 DEF Created, At, Creating
  <2>2. \A u \in Threads : task'[u] = None
    BY <1>5, <2>1 DEF Created, Structure, Apart, TypeOK
  <2>3. docker = "removed" /\ ~spoilt => Ends
    BY <2>1 DEF RemovalOrder
  <2>4. docker' = "removed" /\ ~spoilt' => Ends'
    BY <2>1, <2>3 DEF Ends
  <2> QED
    BY <1>c, <2>1, <2>2, <2>4 DEF RemovalOrder
<1>6. ASSUME NEW e \in Endpoints, Endpoint(e) PROVE RemovalOrder'
  <2>1. UNCHANGED <<docker, up, events, byFlannel, task, processes, spoilt>>
    BY <1>6 DEF Endpoint, CreateEndpoint, Join, Run, Leave, DeleteEndpoint, EndUnheard,
                EndpointRest
  <2> QED
    BY <1>f, <2>1
<1>7. CASE HandleNetworkRemoved
  <2>0. ~Conflict
    BY DEF Structure, Apart, Conflict
  <2>1. /\ events # <<>> /\ Head(events) = "removed" /\ events' = Tail(events)
        /\ UNCHANGED <<docker, up, spoilt>> /\ up /\ byFlannel' = byFlannel
        /\ \A t \in Threads : task[t] = None
        /\ task' = IF Found("events") = None THEN task
                   ELSE [task EXCEPT !["events"] = Task("delete", Found("events"))]
    BY <1>7, <1>c, <2>0 DEF HandleNetworkRemoved, Announced, Get, Structure, Apart, Idle, Alone
  <2>2. Found("events") = byFlannel
    BY DEF Found, Structure, Apart
  <2>3. /\ task'["docker"] = None
        /\ byFlannel # None => /\ task'["events"].pc = "delete" /\ task'["events"].o = byFlannel
                               /\ task'["events"] # None
        /\ byFlannel = None => task'["events"] = None
    <3>1. byFlannel # None => Task("delete", byFlannel) \in Tasks
      BY DEF Task, Tasks, Deleting, TypeOK
    <3>4. Task("delete", byFlannel).pc = "delete" /\ Task("delete", byFlannel).o = byFlannel
      BY DEF Task
    <3>2. CASE byFlannel = None
      BY <1>c, <2>1, <2>2, <3>2
    <3>3. CASE byFlannel # None
      <4>1. task' = [task EXCEPT !["events"] = Task("delete", byFlannel)]
        BY <2>1, <2>2, <3>3
      <4>2. task'["events"] = Task("delete", byFlannel) /\ task'["docker"] = task["docker"]
        BY <1>c, <4>1 DEF TypeOK
      <4> QED
        BY <1>c, <2>1, <3>1, <3>3, <3>4, <4>2, FlannelNetworkAssumption
    <3> QED
      BY <3>2, <3>3
  <2>4. ASSUME docker' = "removed", ~spoilt', Pending("added")' \/ Pending("changed")' PROVE Ends'
    <3>1. Pending("added") \/ Pending("changed")
      BY <2>1, <2>4, TailPending
    <3>2. Ends
      BY <2>1, <2>4, <3>1 DEF RemovalOrder
    <3> QED
      BY <2>1, <2>4, <3>2, TailEnds
  <2>5. \A t \in Threads : task'[t] # None => task'[t].pc \notin Creating
    BY <1>c, <2>3 DEF Creating
  <2> QED
    BY <2>1, <2>3, <2>4, <2>5 DEF RemovalOrder
<1>8. CASE RemoveNetwork
  <2>1. /\ UNCHANGED <<docker, up, events, spoilt>> /\ up
        /\ task["events"] # None /\ task["events"].pc \in Deleting
    BY <1>8 DEF RemoveNetwork, Removing, At, Deleting
  <2>2. byFlannel' = None /\ \A t \in Threads : task'[t] = None
    BY <1>8, <1>c, <2>1 DEF RemoveNetwork, Remove, Conflict, Structure, Apart, TypeOK
  <2>3. (\A event : Pending(event)' <=> Pending(event)) /\ (Ends' <=> Ends)
    BY <2>1 DEF Pending, Ends
  <2> QED
    BY <1>c, <2>1, <2>2, <2>3 DEF RemovalOrder
<1>9. CASE Removal
  <2>1. /\ up /\ UNCHANGED <<docker, up, events, byFlannel>>
        /\ task["events"] # None /\ task["events"].pc \in Deleting
        /\ task'["docker"] = None /\ task'["events"] # None
        /\ task'["events"].o = task["events"].o /\ task'["events"].pc \in Deleting
        /\ spoilt => spoilt'
    BY <1>9, RemovalKeeps, RemovalAlone
  <2>2. (\A event : Pending(event)' <=> Pending(event)) /\ (Ends' <=> Ends)
    BY <2>1 DEF Pending, Ends
  <2> QED
    BY <1>c, <2>1, <2>2 DEF RemovalOrder
<1>10. CASE NetworkChanges
  <2>1. /\ UNCHANGED <<up, loaded, byFlannel, task, processes>>
        /\ \/ docker' # "removed"
           \/ docker # "removed" /\ Emit("removed") /\ spoilt' = (spoilt \/ (up /\ ~loaded))
    BY <1>10 DEF NetworkChanges
  <2>2. CASE loaded /\ docker' = "removed"
    <3>1. docker # "removed" /\ events' = Append(events, "removed")
      BY <2>1, <2>2 DEF Emit
    <3>2. Len(events) \in Nat
      BY DEF TypeOK
    <3>3. Ends'
      BY <3>1, <3>2, AppendPending DEF Ends
    <3>4. up'
      BY <2>1, <2>2 DEF Lifecycle, TypeOK
    <3> QED
      BY <2>1, <2>2, <3>3, <3>4 DEF RemovalOrder
  <2>3. CASE docker' # "removed" \/ (up /\ ~loaded)
    BY <2>1, <2>3 DEF RemovalOrder, Busy
  <2>4. CASE ~up /\ docker' = "removed"
    <3>1. events' = <<>>
      BY <2>1, <2>4 DEF Lifecycle, Emit
    <3>2. \A event : ~Pending(event)'
      BY <3>1 DEF Pending
    <3> QED
      BY <1>c, <2>1, <2>4, <3>2 DEF RemovalOrder, Busy
  <2> QED
    BY <2>2, <2>3, <2>4
<1>11. CASE OtherNode \/ Start \/ ServeEarly
  BY <1>11, <1>f DEF OtherNode, Start, ServeEarly
<1>12. CASE Crash
  <2>1. /\ up' = FALSE /\ byFlannel' = None /\ processes' = {} /\ events' = <<>>
        /\ \A t \in Threads : task'[t] = None
    BY <1>12 DEF Crash, Down
  <2>2. \A event : ~Pending(event)'
    BY <2>1 DEF Pending
  <2> QED
    BY <1>c, <2>1, <2>2 DEF RemovalOrder, Busy
<1>13. CASE LoadDockerData
  <2>1. /\ up /\ up' /\ UNCHANGED <<docker, byFlannel, task>> /\ (spoilt => spoilt')
        /\ events = <<>> /\ ~loaded
    BY <1>13 DEF LoadDockerData, Lifecycle
  <2>2. CASE docker = "removed"
    <3>1. events' = <<"cleanup">>
      BY <1>13, <2>2 DEF LoadDockerData
    <3>2. ~Pending("added")' /\ ~Pending("changed")' /\ ~Ends
      BY <2>1, <3>1 DEF Pending, Ends
    <3> QED
      BY <2>1, <2>2, <3>2 DEF RemovalOrder
  <2>3. CASE docker # "removed"
    BY <2>1, <2>3 DEF RemovalOrder
  <2> QED
    BY <2>2, <2>3
<1>14. CASE TakeNetworks
  <2>1. /\ events # <<>> /\ Head(events) = "cleanup" /\ events' = Tail(events)
        /\ up /\ UNCHANGED <<docker, up, byFlannel, task, spoilt>>
    BY <1>14 DEF TakeNetworks, Announced, Idle
  <2>2. \A event : Pending(event)' => Pending(event)
    BY <2>1, TailPending
  <2>3. Ends => Ends'
    BY <2>1, TailEnds
  <2> QED
    BY <2>1, <2>2, <2>3 DEF RemovalOrder
<1>16. CASE ReadNetworks \/ DeleteStaleData \/ DeleteStaleLinks \/ DeleteStaleBridge
  <2>1. UNCHANGED <<docker, up, events, byFlannel, task, processes>>
    BY <1>16 DEF ReadNetworks, DeleteStaleData, DeleteStaleLinks, DeleteStaleBridge
  <2>2. spoilt => spoilt'
    BY <1>16 DEF ReadNetworks, DeleteStaleData, DeleteStaleLinks, DeleteStaleBridge
  <2> QED
    BY <1>f, <2>1, <2>2
<1>15. CASE UNCHANGED vars
  BY <1>15, <1>f DEF vars
<1> QED
  BY <1>2, <1>3, <1>4, <1>5, <1>6, <1>7, <1>8, <1>9, <1>10, <1>11, <1>12, <1>13, <1>14, <1>15,
     <1>16
  DEF Next, Create, Creation, Delete, Removal, CleanupStaleNetworks

\* Every step accounts for the flannelds and the bridge.
LEMMA AccountedStep ==
  ASSUME ~Overlap, TypeOK, Structure, Apart, Lifecycle, RemovalOrder, Accounted, [Next]_vars
  PROVE  Accounted'
<1> USE DEF dockerVars, nodeVars, mapVars, etcdVars, kernelVars, historyVars, sweepVars
<1>c. /\ "events" \in Threads /\ "docker" \in Threads /\ Creating \cap Deleting = {}
      /\ \A t \in Threads : t = "events" \/ t = "docker"
  BY DEF Threads, Creating, Deleting
<1>n. None \notin processes
  BY FlannelNetworkAssumption DEF TypeOK
\* Where the object of each task, the events and what runs stay.
<1>f. ASSUME UNCHANGED <<loaded, cleaner, byFlannel, task, processes, bridge>>, spoilt => spoilt',
             docker' = docker \/ docker' # "exists" \/ Pending("added")',
             up' => up, Pending("added") => Pending("added")'
      PROVE  Accounted'
  BY <1>f DEF Accounted, Busy
\* Where the clean-up goes on.
<1>k. ASSUME UNCHANGED <<docker, byFlannel, task, processes, bridge>>, spoilt' = spoilt,
             Pending("added") => Pending("added")', cleaner # None, cleaner' # None,
             cleaner'.pc # "listed",
             cleaner'.existing => cleaner.existing \/ (cleaner.pc = "listed" /\ docker = "exists")
      PROVE  Accounted'
  BY <1>k DEF Accounted, Busy
<1>1. ASSUME NEW t \in Threads, AlreadyThere(t) PROVE Accounted'
  <2>1. /\ byFlannel' = byFlannel /\ byFlannel # None
        /\ UNCHANGED <<task, processes, spoilt>> /\ \A u \in Threads : task[u] = None
    BY <1>1, <1>c, AskedType DEF AlreadyThere, Asked, Get, Missing, Found, Structure, Apart
  <2> QED
    BY <1>c, <2>1 DEF Accounted, Busy
<1>2. ASSUME NEW t \in Threads, NewNetwork(t) PROVE Accounted'
  <2>1. /\ byFlannel' = byFlannel /\ byFlannel = None /\ UNCHANGED processes
        /\ \A u \in Threads : task[u] = None
    BY <1>2, <1>c, AskedType DEF NewNetwork, Asked, Missing, Found, Structure, Apart
  <2>2. CASE spoilt'
    BY <2>2 DEF Accounted
  <2>3. CASE ~spoilt'
    <3>1. PICK o \in Objects : task' = [task EXCEPT ![t] = Task("config", o)] /\ spoilt' = spoilt
      BY <1>2, <2>3 DEF NewNetwork
    <3>2. Task("config", o) \in Tasks /\ Task("config", o).pc = "config"
      BY DEF Task, Tasks, Creating
    <3>3. task'[t] # None /\ task'[t].pc = "config" /\ \A u \in Threads \ {t} : task'[u] = None
      BY <2>1, <3>1, <3>2, FlannelNetworkAssumption DEF TypeOK
    <3>4. processes' = {} /\ Busy'
      BY <1>n, <2>1, <2>3, <3>1, <3>3 DEF Accounted, Busy
    <3>5. "config" \notin Deleting /\ "config" # "remove" /\ "config" # "cleanup"
      BY DEF Deleting
    <3> QED
      BY <1>c, <3>3, <3>4, <3>5 DEF Accounted
  <2> QED
    BY <2>2, <2>3
<1>3. ASSUME NEW t \in Threads, Creation(t) PROVE Accounted'
  <2>1. /\ byFlannel = None /\ byFlannel' = None
        /\ task[t] # None /\ task[t].pc \in Creating
        /\ \A u \in Threads \ {t} : task[u] = None /\ task'[u] = None
        /\ task'[t] # None => task'[t].pc \in Creating /\ task'[t].o = task[t].o
        /\ task'[t] = None => spoilt'
        /\ spoilt => spoilt'
        /\ processes' \subseteq processes \cup {task[t].o}
    BY <1>3, CreationShape, CreationKeeps, CreationAlone
  <2>2. CASE spoilt'
    BY <2>2 DEF Accounted
  <2>3. CASE ~spoilt'
    <3>1. \A o \in processes' : o = task'[t].o
      BY <1>n, <2>1, <2>3 DEF Accounted
    <3>2. task'[t] # None /\ Busy'
      BY <2>1, <2>3 DEF Busy
    <3>3. task'["events"] # None => task'["events"].pc \in Creating
      BY <1>c, <2>1
    <3>4. "remove" \notin Creating /\ "cleanup" \notin Creating
      BY DEF Creating
    <3> QED
      BY <1>c, <3>1, <3>2, <3>3, <3>4 DEF Accounted
  <2> QED
    BY <2>2, <2>3
<1>4. ASSUME NEW t \in Threads, Created(t) PROVE Accounted'
  <2>1. /\ task[t] # None /\ task[t] \in Tasks /\ byFlannel' = task[t].o
        /\ UNCHANGED <<processes, bridge, spoilt>> /\ task[t].pc = "reconcile"
    BY <1>4 DEF Created, At, Set, TypeOK
  <2>2. byFlannel = None /\ byFlannel' \in Objects
        /\ \A u \in Threads : task'[u] = None /\ (u # t => task[u] = None)
    <3>1. byFlannel = None /\ \A u \in Threads : u # t => task[u] = None
      BY <2>1 DEF Structure, Apart, Creating
    <3>2. task' = [task EXCEPT ![t] = None]
      BY <1>4 DEF Created
    <3> QED
      BY <2>1, <3>1, <3>2 DEF TypeOK, Tasks
  <2>3. Busy'
    BY <2>2, FlannelNetworkAssumption DEF Busy
  <2>4. ~spoilt' => \A o \in processes' : o = byFlannel'
    BY <1>n, <2>1, <2>2 DEF Accounted
  <2> QED
    BY <1>c, <2>2, <2>3, <2>4 DEF Accounted
<1>5. ASSUME NEW e \in Endpoints, Endpoint(e) PROVE Accounted'
  <2>1. UNCHANGED <<docker, up, loaded, events, cleaner, byFlannel, task, processes, bridge, spoilt>>
    BY <1>5 DEF Endpoint, CreateEndpoint, Join, Run, Leave, DeleteEndpoint, EndUnheard, EndpointRest
  <2>2. \A event : Pending(event)' <=> Pending(event)
    BY <2>1 DEF Pending
  <2> QED
    BY <1>f, <2>1, <2>2
<1>6. CASE HandleNetworkRemoved
  <2>0. ~Conflict
    BY DEF Structure, Apart, Conflict
  <2>1. /\ events # <<>> /\ Head(events) = "removed" /\ events' = Tail(events)
        /\ UNCHANGED <<docker, up, loaded, cleaner, processes, bridge, spoilt>>
        /\ byFlannel' = byFlannel
        /\ \A t \in Threads : task[t] = None
        /\ task' = IF Found("events") = None THEN task
                   ELSE [task EXCEPT !["events"] = Task("delete", Found("events"))]
    BY <1>6, <1>c, <2>0 DEF HandleNetworkRemoved, Announced, Get, Structure, Apart, Idle, Alone
  <2>2. \A event : /\ Pending(event)' => Pending(event)
                   /\ Pending(event) /\ event # "removed" => Pending(event)'
    BY <2>1, TailPending, TailEnds
  <2>3. docker = "removed"
    BY <2>1, TailPending DEF Lifecycle
  <2>4. CASE byFlannel = None
    <3>1. task' = task
      BY <2>1, <2>4 DEF Found, Structure, Apart
    <3>2. Pending("added") => Pending("added")'
      BY <2>2
    <3> QED
      BY <2>1, <3>1, <3>2, <1>f
  <2>5. CASE byFlannel # None
    <3>1. task' = [task EXCEPT !["events"] = Task("delete", byFlannel)]
      BY <2>1, <2>5 DEF Found, Structure, Apart
    <3>2. Task("delete", byFlannel).pc = "delete"
      BY DEF Task
    <3>3. task'["events"].pc = "delete"
      BY <1>c, <3>1, <3>2 DEF TypeOK
    <3>4. ~spoilt' => \A o \in processes' : o = byFlannel'
      BY <2>1 DEF Accounted
    <3>5. Busy'
      BY <2>1, <2>5 DEF Busy
    <3> QED
      BY <3>3, <3>4, <3>5 DEF Accounted
  <2> QED
    BY <2>4, <2>5
<1>7. CASE RemoveNetwork
  <2>1. /\ task["events"] # None /\ task["events"].pc \in {"remove", "cleanup"}
        /\ UNCHANGED <<docker, up, events, processes, bridge, spoilt>>
        /\ "remove" \in Deleting /\ "cleanup" \in Deleting
    BY <1>7 DEF RemoveNetwork, Removing, At, Deleting
  <2>2. /\ task["events"].o = byFlannel /\ task["docker"] = None /\ docker = "removed"
    BY <1>c, <2>1 DEF RemovalOrder, Structure, Apart, Lifecycle
  <2>3. \A t \in Threads : task'[t] = None
    BY <1>7, <1>c, <2>2 DEF RemoveNetwork, TypeOK
  <2>4. ~spoilt => task["events"].pc = "cleanup" /\ byFlannel \notin processes /\ ~bridge
    BY <2>1, <2>2 DEF Accounted
  <2>5. ~spoilt => processes = {}
    BY <1>c, <2>1, <2>2, <2>4 DEF Accounted
  <2> QED
    BY <1>c, <2>1, <2>2, <2>3, <2>4, <2>5 DEF Accounted
<1>8. CASE Removal
  <2>1. /\ UNCHANGED <<docker, up, loaded, ready, events, cleaner, byFlannel, byDocker>>
        /\ task["events"] # None /\ task["events"].pc \in Deleting
        /\ task["docker"] = None /\ task'["docker"] = None
        /\ task'["events"] # None /\ task'["events"].o = task["events"].o
        /\ processes' \subseteq processes
        /\ \/ spoilt'
           \/ /\ spoilt' = spoilt /\ task'["events"].pc \notin {"delete", "remove"}
              /\ task["events"].pc = "delete" => task["events"].o \notin processes'
              /\ task'["events"].pc = "cleanup" => task["events"].pc = "cleanup" \/ ~bridge'
        /\ (bridge' => bridge)
    BY <1>8, RemovalKeeps, RemovalAlone
  <2>2. CASE spoilt'
    BY <2>2 DEF Accounted
  <2>3. CASE ~spoilt'
    <3>1. Busy'
      BY <1>c, <2>1 DEF Busy
    <3>2. task["events"].o = byFlannel
      BY <2>1 DEF RemovalOrder
    <3>3. \A o \in processes' : o = byFlannel'
      BY <1>c, <2>1, <2>3, <3>2 DEF Accounted
    <3>4. task'["events"].o \notin processes'
      BY <2>1, <2>3 DEF Accounted
    <3>5. task'["events"].pc = "cleanup" => ~bridge'
      BY <2>1, <2>3 DEF Accounted
    <3>6. task'["events"].pc # "remove"
      BY <2>1, <2>3
    <3> QED
      BY <3>1, <3>3, <3>4, <3>5, <3>6 DEF Accounted
  <2> QED
    BY <2>2, <2>3
<1>9. CASE NetworkChanges
  <2>0. spoilt => spoilt'
    BY <1>9 DEF NetworkChanges
  <2>1. /\ UNCHANGED <<up, loaded, cleaner, byFlannel, task, processes, bridge>>
        /\ \/ docker = "none" /\ docker' = "exists" /\ Emit("added")
           \/ docker = "exists" /\ docker' = "exists" /\ Emit("changed")
           \/ docker = "exists" /\ docker' = "removed" /\ Emit("removed")
    BY <1>9 DEF NetworkChanges
  <2>2. CASE loaded
    <3>1. PICK event \in {"added", "changed", "removed"} :
            /\ events' = Append(events, event)
            /\ event = "added" \/ docker' = docker \/ docker' = "removed"
      BY <2>1, <2>2 DEF Emit
    <3>2. \A other : Pending(other) => Pending(other)'
      <4> SUFFICES ASSUME NEW other, Pending(other) PROVE Pending(other)'
        OBVIOUS
      <4>1. PICK i \in 1 .. Len(events) : events[i] = other
        BY DEF Pending
      <4>2. /\ Len(events') = Len(events) + 1 /\ events'[i] = events[i] /\ Len(events) \in Nat
        BY <3>1, AppendPending DEF TypeOK
      <4>3. i \in 1 .. Len(events') /\ events'[i] = other
        BY <4>1, <4>2
      <4> QED
        BY <4>3 DEF Pending
    <3>4. event = "added" => Pending("added")'
      <4>1. Len(events') \in 1 .. Len(events') /\ events'[Len(events')] = event
        BY <3>1, AppendPending DEF TypeOK
      <4> QED
        BY <4>1 DEF Pending
    <3>5. docker' = docker \/ docker' # "exists" \/ Pending("added")'
      BY <3>1, <3>4
    <3> QED
      BY <1>f, <2>0, <2>1, <3>2, <3>5
  <2>3. CASE ~loaded
    <3>1. cleaner = None
      BY <2>3 DEF Lifecycle
    <3> QED
      BY <2>0, <2>1, <2>3, <3>1 DEF Accounted, Busy
  <2> QED
    BY <2>2, <2>3
<1>10. CASE OtherNode \/ ServeEarly
  <2>1. UNCHANGED <<docker, up, loaded, events, cleaner, byFlannel, task, processes, bridge, spoilt>>
    BY <1>10 DEF OtherNode, ServeEarly
  <2>2. \A event : Pending(event)' <=> Pending(event)
    BY <2>1 DEF Pending
  <2> QED
    BY <1>f, <2>1, <2>2
<1>11. CASE Crash
  <2>1. /\ up' = FALSE /\ cleaner' = None /\ processes' = {}
        /\ \A t \in Threads : task'[t] = None
    BY <1>11 DEF Crash, Down
  <2> QED
    BY <1>c, <2>1 DEF Accounted
<1>12. CASE Start
  <2>1. /\ UNCHANGED <<loaded, cleaner, task, processes>> /\ processes = {}
        /\ ~loaded /\ cleaner = None
        /\ \A t \in Threads : task[t] = None
    BY <1>12 DEF Start, RemovalOrder, Busy, Lifecycle
  <2> QED
    BY <1>c, <2>1 DEF Accounted
<1>13. CASE LoadDockerData
  <2>1. UNCHANGED <<docker, byFlannel, task, processes, bridge>>
    BY <1>13 DEF LoadDockerData
  <2>2. PICK listed \in BOOLEAN :
          /\ events' = IF listed THEN <<"added", "cleanup">> ELSE <<"cleanup">>
          /\ cleaner' = [pc |-> "listed", existing |-> listed, known |-> None, named |-> FALSE]
          /\ spoilt' = (spoilt \/ listed # (docker = "exists"))
    BY <1>13 DEF LoadDockerData
  <2>3. CASE spoilt'
    BY <2>3 DEF Accounted
  <2>4. CASE ~spoilt'
    <3>1. ~spoilt /\ (listed <=> docker = "exists") /\ cleaner'.existing = listed
      BY <2>2, <2>4
    <3>2. cleaner' # None
      <4>1. cleaner' \in Cleaners
        BY <2>2 DEF Cleaners
      <4> QED
        BY <4>1, FlannelNetworkAssumption
    <3>3. ASSUME events' = <<"added", "cleanup">> PROVE Pending("added")'
      BY <3>3 DEF Pending
    <3>4. docker' = "exists" \/ cleaner'.existing => Pending("added")'
      BY <2>1, <2>2, <3>1, <3>3
    <3> QED
      BY <2>1, <3>1, <3>2, <3>4 DEF Accounted, Busy
  <2> QED
    BY <2>3, <2>4
<1>15. CASE TakeNetworks
  <2>1. /\ events # <<>> /\ Head(events) = "cleanup" /\ events' = Tail(events)
        /\ UNCHANGED <<docker, byFlannel, task, processes, bridge, spoilt>>
        /\ cleaner # None /\ cleaner \in Cleaners /\ cleaner.pc = "listed"
    BY <1>15 DEF TakeNetworks, Announced, Cleaning, TypeOK
  <2>2. Pending("added") => Pending("added")'
    BY <2>1, TailEnds
  <2>3. PICK existing \in BOOLEAN :
          /\ cleaner' = [cleaner EXCEPT !.pc = "read", !.existing = existing]
          /\ existing => cleaner.existing \/ docker = "exists"
    BY <1>15, <2>1 DEF TakeNetworks, Cleaners
  <2>4. cleaner' \in Cleaners /\ cleaner'.pc = "read" /\ cleaner'.existing = existing
    BY <2>1, <2>3 DEF Cleaners
  <2>5. cleaner' # None
    BY <2>4, FlannelNetworkAssumption
  <2> QED
    BY <1>k, <2>1, <2>2, <2>3, <2>4, <2>5
<1>16. CASE ReadNetworks \/ DeleteStaleData \/ DeleteStaleLinks
  <2>1. /\ UNCHANGED <<docker, events, byFlannel, task, processes, bridge, spoilt>>
        /\ cleaner # None /\ cleaner \in Cleaners
    BY <1>16 DEF ReadNetworks, DeleteStaleData, DeleteStaleLinks, Cleaning, TypeOK
  <2>2. Pending("added") => Pending("added")'
    BY <2>1 DEF Pending
  <2>3. /\ cleaner' \in Cleaners /\ cleaner'.pc # "listed"
        /\ cleaner'.existing => cleaner.existing
    <3>1. ASSUME NEW pc \in {"delete", "links", "bridges"}, CleansOn(pc)
          PROVE  /\ cleaner' \in Cleaners /\ cleaner'.pc # "listed"
                 /\ cleaner'.existing => cleaner.existing
      BY <2>1, <3>1 DEF CleansOn, Cleaners
    <3>2. CASE ReadNetworks /\ cleaner.existing /\ config # None
      <4>1. PICK named \in BOOLEAN : cleaner' = [pc |-> "links", existing |-> TRUE,
                                                known |-> config.vni, named |-> named]
        BY <3>2 DEF ReadNetworks
      <4>2. config.vni \in VNIs
        BY <3>2 DEF Config, TypeOK
      <4>3. cleaner' \in Cleaners /\ cleaner'.pc = "links"
        BY <4>1, <4>2 DEF Cleaners
      <4> QED
        BY <3>2, <4>3
    <3>3. CASE ReadNetworks /\ ~(cleaner.existing /\ config # None)
      BY <3>1, <3>3 DEF ReadNetworks
    <3>4. CASE DeleteStaleData \/ DeleteStaleLinks
      BY <3>1, <3>4 DEF DeleteStaleData, DeleteStaleLinks
    <3> QED
      BY <1>16, <3>2, <3>3, <3>4
  <2>4. cleaner' # None
    BY <2>3, FlannelNetworkAssumption
  <2> QED
    BY <1>k, <2>1, <2>2, <2>3, <2>4
<1>17. CASE DeleteStaleBridge
  <2>1. /\ UNCHANGED <<events, byFlannel, task, processes>>
        /\ cleaner # None /\ cleaner' = None
    BY <1>17 DEF DeleteStaleBridge, Cleaning
  <2>2. Pending("added")' <=> Pending("added")
    BY <2>1 DEF Pending
  <2>3. CASE (cleaner.named \/ ~bridge) /\ UNCHANGED <<bridge, spoilt>>
    <3>1. cleaner.named => cleaner.existing
      BY <2>1 DEF Lifecycle
    <3>2. ~spoilt /\ bridge => Busy \/ Pending("added")
      BY <2>1, <2>3, <3>1 DEF Accounted
    <3> QED
      BY <2>1, <2>2, <2>3, <3>2 DEF Accounted, Busy
  <2>4. CASE /\ ~cleaner.named /\ bridge /\ spoilt' = (spoilt \/ bridge')
    <3>1. ~spoilt' => ~bridge' /\ ~spoilt
      BY <2>4
    <3> QED
      BY <2>1, <2>4, <3>1 DEF Accounted, Busy
  <2> QED
    BY <1>17, <2>3, <2>4 DEF DeleteStaleBridge
<1>14. CASE UNCHANGED vars
  <2>1. UNCHANGED <<docker, up, loaded, events, cleaner, byFlannel, task, processes, bridge, spoilt>>
    BY <1>14 DEF vars
  <2>2. \A event : Pending(event)' <=> Pending(event)
    BY <2>1 DEF Pending
  <2> QED
    BY <1>f, <2>1, <2>2
<1> QED
  BY <1>1, <1>2, <1>3, <1>4, <1>5, <1>6, <1>7, <1>8, <1>9, <1>10, <1>11, <1>12, <1>13, <1>14,
     <1>15, <1>16, <1>17
  DEF Next, Create, Creation, Delete, Removal, CleanupStaleNetworks

\* At first there is nothing to remove.
LEMMA AccountedInit == Init => RemovalOrder /\ Accounted
<1> SUFFICES ASSUME Init PROVE RemovalOrder /\ Accounted
  OBVIOUS
<1>1. /\ docker = "none" /\ up /\ processes = {} /\ ~bridge /\ byFlannel = None
      /\ cleaner = None
      /\ events = <<>> /\ \A t \in Threads : task[t] = None
  BY DEF Init
<1>2. \A event : ~Pending(event)
  BY <1>1 DEF Pending
<1> QED
  BY <1>1, <1>2 DEF RemovalOrder, Accounted, Threads

\* Once everything is done for a network that Docker removed, and nothing failed, no flanneld
\* runs, the driver knows no network and the bridge is gone, also when the network was
\* removed while it was still being created or cleaned up, or while the plugin was down.
THEOREM RemovalIsComplete == ASSUME ~Overlap PROVE Spec => []RemovedLeavesNothing
<1>1. /\ Apart /\ Lifecycle /\ RemovalOrder /\ Accounted /\ TypeOK /\ Structure /\ [Next]_vars
      => (Apart /\ Lifecycle /\ RemovalOrder /\ Accounted)'
  BY ApartStep, LifecycleStep, RemovalOrderStep, AccountedStep
<1>2. TypeOK /\ Structure /\ Lifecycle /\ RemovalOrder /\ Accounted => RemovedLeavesNothing
  <2> SUFFICES ASSUME TypeOK, Structure, Lifecycle, RemovalOrder, Accounted,
                      docker = "removed", loaded, events = <<>>, cleaner = None, ~spoilt,
                      \A t \in Threads : task[t] = None
               PROVE  ~Registered /\ processes = {} /\ ~bridge
    BY DEF RemovedLeavesNothing
  <2>1. up /\ task["events"] = None
    BY DEF Lifecycle, Threads
  <2>2. ~Ends /\ \A event : ~Pending(event)
    BY DEF Ends, Pending
  <2>3. byFlannel = None
    BY <2>1, <2>2 DEF RemovalOrder
  <2>4. ~Busy /\ byDocker = None
    BY <2>3 DEF Busy, Structure, Apart
  <2>5. None \notin processes
    BY FlannelNetworkAssumption DEF TypeOK
  <2>6. processes = {}
    BY <2>3, <2>5 DEF Accounted
  <2>7. ~bridge
    BY <2>1, <2>2, <2>4 DEF Accounted
  <2> QED
    BY <2>3, <2>4, <2>6, <2>7 DEF Registered
<1> QED
  BY <1>1, <1>2, AliveInit, ApartInit, AccountedInit, TypeCorrect, PTL DEF Spec
=============================================================================
