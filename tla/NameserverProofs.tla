-------------------------- MODULE NameserverProofs ---------------------------
(***************************************************************************)
(* Proofs about Nameserver for any set of networks, any number of joins and*)
(* crashes and any set of faults.                                          *)
(***************************************************************************)
EXTENDS Nameserver, SequenceTheorems, TLAPS

-----------------------------------------------------------------------------
(* Type correctness.                                                       *)

\* Docker's events go to the end of the queue while the plugin runs.
LEMMA EmittedType ==
  ASSUME NEW S, events \in Seq(S), NEW e \in S, Emitted(e)
  PROVE  events' \in Seq(S)
BY AppendProperties DEF Emitted

\* The event that is handled leaves the queue.
LEMMA TailType ==
  ASSUME NEW S, events \in Seq(S), events # <<>>
  PROVE  Tail(events) \in Seq(S)
BY HeadTailProperties

\* The networks a container keeps are networks.
LEMMA NetworksChangedType ==
  ASSUME TypeOK, NEW current \in SUBSET Networks, stored # None, NetworksChanged(current)
  PROVE  byEndpoint' \in SUBSET Networks /\ valid' \in SUBSET Networks
BY DEF TypeOK, NetworksChanged

\* A new nameserver is known, and its activation called.
LEMMA NewNameserverType ==
  ASSUME TypeOK, NewNameserver
  PROVE  /\ known' \in BOOLEAN /\ sandboxFile' \in BOOLEAN
         /\ activation' \in {"none", "called", "waiting", "finished"}
BY DEF TypeOK, NewNameserver

\* Every step keeps the types.
LEMMA TypeStep == TypeOK /\ [Next]_vars => TypeOK'
<1> SUFFICES ASSUME TypeOK, [Next]_vars PROVE TypeOK'
  OBVIOUS
<1> USE DEF dockerVars, hookVars, pluginVars, initVars, serverVars
<1>a. events \in Seq(Events)
  BY DEF TypeOK
<1>1. ASSUME NEW n \in Networks, Join(n) PROVE TypeOK'
  <2>1. events' \in Seq(Events)
    BY <1>1, <1>a, EmittedType DEF Join, Event, Events, Connections
  <2>2. joins' \in 0 .. MaxJoins
    <3>1. joins < MaxJoins /\ joins' = joins + 1 /\ joins \in 0 .. MaxJoins
      BY <1>1 DEF Join, TypeOK
    <3> QED
      BY <3>1, NameserverAssumption
  <2>3. registering' \in [Networks -> Registrations]
    BY <1>1 DEF Join, TypeOK, Registrations
  <2>4. /\ known' \in BOOLEAN /\ sandboxFile' \in BOOLEAN
        /\ activation' \in {"none", "called", "waiting", "finished"}
    BY <1>1, NewNameserverType DEF Join, TypeOK
  <2>5. container' \in {"none", "starting", "running", "gone"} /\ joined' \in SUBSET Networks
        /\ valid' \in SUBSET Networks /\ hasty' \in SUBSET Networks
    BY <1>1 DEF Join, TypeOK
  <2>6. UNCHANGED <<hook, isHookAvailable, readyFile, up, crashes, stored, byEndpoint, init,
                    links, initErr, cancelled, serverVars, deact>>
    BY <1>1 DEF Join
  <2> QED
    BY <2>1, <2>2, <2>3, <2>4, <2>5, <2>6 DEF TypeOK
<1>2. ASSUME NEW n \in Networks, Leave(n) PROVE TypeOK'
  <2>1. events' \in Seq(Events)
    BY <1>2, <1>a, EmittedType DEF Leave, Event, Events, Connections
  <2>2. registering' \in [Networks -> Registrations]
    BY <1>2 DEF Leave, TypeOK, Registrations
  <2> QED
    BY <1>2, <2>1, <2>2 DEF Leave, LeaveNameserver, TypeOK
<1>3. CASE Stop
  <2>1. events' \in Seq(Events)
    BY <1>3, <1>a, EmittedType DEF Stop, Events
  <2> QED
    BY <1>3, <2>1 DEF Stop, TypeOK
<1>4. CASE HookStarts \/ HookFindsFile \/ HookTimeout
  <2>1. /\ container' \in {"none", "starting", "running", "gone"}
        /\ hook' \in {"none", "waiting", "ready", "timeout"}
        /\ sandboxFile' \in BOOLEAN /\ readyFile' \in BOOLEAN
    BY <1>4 DEF HookStarts, HookFindsFile, HookTimeout, TypeOK
  <2>2. UNCHANGED <<joined, joins, events, isHookAvailable, pluginVars, valid, initVars,
                    serverVars, deact, hasty>>
    BY <1>4 DEF HookStarts, HookFindsFile, HookTimeout
  <2> QED
    BY <2>1, <2>2 DEF TypeOK
<1>5. CASE CallInit \/ ActivationFinished
  BY <1>5 DEF CallInit, ActivationFinished, TypeOK
<1>6. CASE SetNamespace \/ StartDNSServer \/ ReplaceDNATSNATRules
  <2>1. init' \in {"tcp", "udp", "rules", "links", "done"} /\ initErr' \in BOOLEAN
    BY <1>6 DEF SetNamespace, StartDNSServer, StartServer, ReplaceDNATSNATRules, InitFails,
                TypeOK
  <2>2. rules' \in {"docker", "ours", "dead"}
    BY <1>6 DEF SetNamespace, StartDNSServer, ReplaceDNATSNATRules, TypeOK
  <2>3. listening' \in SUBSET Servers
    BY <1>6 DEF SetNamespace, StartDNSServer, StartServer, ReplaceDNATSNATRules, TypeOK, Servers
  <2>4. UNCHANGED <<dockerVars, hookVars, pluginVars, valid, activation, links, cancelled,
                    serving, deact, hasty>>
    BY <1>6 DEF SetNamespace, StartDNSServer, ReplaceDNATSNATRules
  <2> QED
    BY <2>1, <2>2, <2>3, <2>4 DEF TypeOK
<1>7. CASE ListLinks \/ AddFoundNetwork
  BY <1>7 DEF ListLinks, AddFoundNetwork, TypeOK
<1>8. ASSUME NEW n \in Networks, Register(n) PROVE TypeOK'
  <2>1. registering' \in [Networks -> Registrations]
    BY <1>8 DEF Register, TypeOK, Registrations
  <2>2. byEndpoint' \in SUBSET Networks /\ valid' \in SUBSET Networks
    BY <1>8 DEF Register, TypeOK
  <2>3. UNCHANGED <<dockerVars, hookVars, up, crashes, stored, known, initVars, serverVars,
                    deact, hasty>>
    BY <1>8 DEF Register
  <2> QED
    BY <2>1, <2>2, <2>3 DEF TypeOK
<1>9. ASSUME NEW server \in Servers, Serve(server) PROVE TypeOK'
  BY <1>9 DEF Serve, TypeOK
<1>10. CASE HandleConnected
  <2>1. events' \in Seq(Events)
    BY <1>10, <1>a, TailType DEF HandleConnected, Handling
  <2>2. byEndpoint' \in SUBSET Networks /\ valid' \in SUBSET Networks
    BY <1>10, NetworksChangedType DEF HandleConnected, TypeOK
  <2> QED
    BY <1>10, <2>1, <2>2 DEF HandleConnected, TypeOK
<1>11. CASE HandleDisconnected
  <2>1. events' \in Seq(Events)
    BY <1>11, <1>a, TailType DEF HandleDisconnected, Handling
  <2>2. /\ byEndpoint' \in SUBSET Networks /\ valid' \in SUBSET Networks
        /\ stored' \in (SUBSET Networks) \cup {None}
    BY <1>11, NetworksChangedType DEF HandleDisconnected, TypeOK
  <2> QED
    BY <1>11, <2>1, <2>2 DEF HandleDisconnected, TypeOK
<1>12. CASE HandleDied
  <2>1. events' \in Seq(Events)
    BY <1>12, <1>a, TailType DEF HandleDied, Handling
  <2>2. known' \in BOOLEAN /\ cancelled' \in BOOLEAN
        /\ deact' \in {"none", "waiting", "shutdown", "done", "failed"}
    BY <1>12 DEF HandleDied, Cancel, TypeOK
  <2>3. stored' = None
        /\ UNCHANGED <<container, joined, joins, hookVars, up, crashes, byEndpoint, registering,
                       valid, activation, init, links, initErr, serverVars, hasty>>
    BY <1>12 DEF HandleDied
  <2> QED
    BY <2>1, <2>2, <2>3 DEF TypeOK
<1>13. CASE DeactivationWaited \/ Shutdown
  BY <1>13 DEF DeactivationWaited, Shutdown, TypeOK
<1>14. CASE Crash
  <2>1. crashes' \in 0 .. MaxCrashes
    BY <1>14, NameserverAssumption DEF Crash, TypeOK
  <2>2. events' \in Seq(Events)
    BY <1>14, EmptySeq DEF Crash
  <2>3. registering' \in [Networks -> Registrations]
    BY <1>14 DEF Crash, Registrations
  <2> QED
    BY <1>14, <2>1, <2>2, <2>3 DEF Crash, TypeOK
<1>15. CASE Start
  <2>1. registering' \in [Networks -> Registrations]
    BY <1>15 DEF Start, TypeOK, Registrations
  <2>2. /\ known' \in BOOLEAN /\ sandboxFile' \in BOOLEAN
        /\ activation' \in {"none", "called", "waiting", "finished"}
    BY <1>15, NewNameserverType DEF Start, TypeOK
  <2>3. up' \in BOOLEAN /\ stored' \in (SUBSET Networks) \cup {None}
    BY <1>15 DEF Start, TypeOK
  <2>4. UNCHANGED <<dockerVars, hook, isHookAvailable, readyFile, crashes, byEndpoint, valid,
                    init, links, initErr, cancelled, serverVars, deact, hasty>>
    BY <1>15 DEF Start
  <2> QED
    BY <2>1, <2>2, <2>3, <2>4 DEF TypeOK
<1>16. CASE UNCHANGED vars
  BY <1>16 DEF vars, TypeOK
<1> QED
  BY <1>1, <1>2, <1>3, <1>4, <1>5, <1>6, <1>7, <1>8, <1>9, <1>10, <1>11, <1>12,
     <1>13, <1>14, <1>15, <1>16 DEF Next, Initialise, HandleEvent

\* Every variable keeps its type, in every execution.
THEOREM TypeCorrect == Spec => []TypeOK
<1>1. Init => TypeOK
  <2> SUFFICES ASSUME Init PROVE TypeOK
    OBVIOUS
  <2>1. joins \in 0 .. MaxJoins /\ crashes \in 0 .. MaxCrashes
    BY NameserverAssumption DEF Init
  <2>2. events \in Seq(Events)
    BY EmptySeq DEF Init
  <2>3. registering \in [Networks -> Registrations]
    BY DEF Init, Registrations
  <2> QED
    BY <2>1, <2>2, <2>3 DEF Init, TypeOK
<1> QED
  BY <1>1, TypeStep, PTL DEF Spec

-----------------------------------------------------------------------------
(* The life of a nameserver.                                               *)

\* A sandbox has one nameserver at most, and when it is deactivated its container is gone,
\* so that no second one is made over it: what the driver keeps of it, its activation
\* and its initialisation begin and end together.
LifeInv ==
  /\ ~up => /\ activation = "none" /\ ~known /\ deact = "none" /\ stored = None
            /\ valid = {} /\ byEndpoint = {} /\ events = <<>>
            /\ \A n \in Networks : registering[n] = "no"
  /\ known => deact = "none"
  /\ deact # "none" => container = "gone"
  /\ container = "none" => joined = {}
  /\ hook = "waiting" => container = "starting"
  /\ ~known /\ container # "gone" =>
       /\ activation = "none" /\ stored = None /\ valid = {} /\ byEndpoint = {}
       /\ up => joined = {}
       /\ \A n \in Networks : registering[n] = "no"
  /\ activation \in {"none", "called"} <=> init = "none"
  /\ activation = "finished" => init = "done"
  /\ container # "gone" => events \in Seq(Connections)

\* A container's end is the last thing Docker reports of it.
LEMMA DieIsLast ==
  ASSUME LifeInv, container # "gone", events # <<>>
  PROVE  /\ Head(events).type # "die"
         /\ Tail(events) \in Seq(Connections)
<1>1. events \in Seq(Connections)
  BY DEF LifeInv
<1>2. Head(events) \in Connections /\ Tail(events) \in Seq(Connections)
  BY <1>1, HeadTailProperties
<1> QED
  BY <1>2 DEF Connections

\* Every step keeps the parts of a nameserver's life together.
LEMMA LifeStep == TypeOK /\ LifeInv /\ [Next]_vars => LifeInv'
<1> SUFFICES ASSUME TypeOK, LifeInv, [Next]_vars PROVE LifeInv'
  OBVIOUS
<1> USE DEF dockerVars, hookVars, pluginVars, initVars, serverVars
<1>1. ASSUME NEW n \in Networks, Join(n) PROVE LifeInv'
  <2>1. /\ up /\ up' /\ container # "gone" /\ deact = "none" /\ deact' = "none"
        /\ container' \in {"starting", "running"}
    BY <1>1 DEF Join, LifeInv
  <2>2. events' \in Seq(Connections)
    BY <1>1, <2>1, EmittedType DEF Join, Event, LifeInv, Connections
  <2>3. /\ known' /\ init' = init
        /\ hook' = "waiting" => container' = "starting"
    BY <1>1 DEF Join, NewNameserver, LifeInv
  <2>4. /\ activation' \in {"none", "called"} <=> init = "none"
        /\ activation' = "finished" => init = "done"
    BY <1>1, <2>1 DEF Join, NewNameserver, LifeInv
  <2> QED
    BY <2>1, <2>2, <2>3, <2>4 DEF LifeInv
<1>2. ASSUME NEW n \in Networks, Leave(n) PROVE LifeInv'
  <2>1. container' # "gone" => events' \in Seq(Connections)
    BY <1>2, EmittedType DEF Leave, Event, LifeInv, Connections
  <2>2. ~up => events' = <<>> /\ valid' = {} /\ byEndpoint' = {}
    BY <1>2 DEF Leave, Emitted, LifeInv
  <2>3. ~known /\ container # "gone" => valid' = {} /\ byEndpoint' = {}
    BY <1>2 DEF Leave, LeaveNameserver, LifeInv
  <2>4. \A m \in Networks : registering[m] = "no" => registering'[m] = "no"
    BY <1>2 DEF Leave, TypeOK
  <2>5. joined = {} => joined' = {}
    BY <1>2 DEF Leave
  <2>6. UNCHANGED <<container, hook, up, stored, known, initVars, deact>>
    BY <1>2 DEF Leave
  <2> QED
    BY <2>1, <2>2, <2>3, <2>4, <2>5, <2>6 DEF LifeInv
<1>3. CASE Stop
  <2>1. ~up => events' = <<>>
    BY <1>3 DEF Stop, Emitted, LifeInv
  <2> QED
    BY <1>3, <2>1 DEF Stop, LifeInv
<1>4. CASE HookStarts \/ HookFindsFile \/ HookTimeout
  <2>1. /\ container # "gone" \/ container' = container
        /\ container' # "none" \/ container' = container
        /\ UNCHANGED <<joined, joins, events, pluginVars, valid, initVars, deact>>
    BY <1>4 DEF HookStarts, HookFindsFile, HookTimeout, LifeInv
  <2>2. hook' = "waiting" => container' = "starting"
    BY <1>4 DEF HookStarts, HookFindsFile, HookTimeout
  <2> QED
    BY <2>1, <2>2 DEF LifeInv
<1>5. CASE CallInit \/ ActivationFinished
  BY <1>5 DEF CallInit, ActivationFinished, Wait, LifeInv
<1>6. CASE SetNamespace \/ StartDNSServer \/ ReplaceDNATSNATRules
  <2>1. /\ up /\ init \notin {"none", "done"} /\ init' # "none"
        /\ UNCHANGED <<dockerVars, hook, pluginVars, valid, activation, deact>>
    BY <1>6 DEF SetNamespace, StartDNSServer, StartServer, ReplaceDNATSNATRules, InitFails
  <2> QED
    BY <2>1 DEF LifeInv
<1>7. CASE ListLinks \/ AddFoundNetwork
  <2>1. /\ up /\ init \notin {"none", "done"} /\ init' # "none"
        /\ UNCHANGED <<dockerVars, hook, pluginVars, activation, deact>>
    BY <1>7 DEF ListLinks, AddFoundNetwork
  <2>2. known \/ container = "gone"
    BY <2>1 DEF LifeInv
  <2> QED
    BY <2>1, <2>2 DEF LifeInv
<1>8. ASSUME NEW n \in Networks, Register(n) PROVE LifeInv'
  <2>1. up /\ (known \/ container = "gone")
    BY <1>8 DEF Register, LifeInv
  <2> QED
    BY <1>8, <2>1 DEF Register, LifeInv
<1>9. ASSUME NEW server \in Servers, Serve(server) PROVE LifeInv'
  BY <1>9 DEF Serve, LifeInv
<1>10. CASE HandleConnected
  <2>1. container # "gone" => events' \in Seq(Connections)
    BY <1>10, DieIsLast DEF HandleConnected, Handling
  <2>2. /\ up /\ up' /\ UNCHANGED <<container, joined, hook, known, registering, initVars, deact>>
    BY <1>10 DEF HandleConnected, Handling
  <2>3. ~known /\ container # "gone" => UNCHANGED <<stored, byEndpoint, valid>>
    BY <1>10, <2>2 DEF HandleConnected, LifeInv
  <2> QED
    BY <2>1, <2>2, <2>3 DEF LifeInv
<1>11. CASE HandleDisconnected
  <2>1. container # "gone" => events' \in Seq(Connections)
    BY <1>11, DieIsLast DEF HandleDisconnected, Handling
  <2>2. /\ up /\ up' /\ UNCHANGED <<container, joined, hook, known, registering, initVars, deact>>
    BY <1>11 DEF HandleDisconnected, Handling
  <2>3. ~known /\ container # "gone" => UNCHANGED <<stored, byEndpoint, valid>>
    BY <1>11, <2>2 DEF HandleDisconnected, LifeInv
  <2> QED
    BY <2>1, <2>2, <2>3 DEF LifeInv
<1>12. CASE HandleDied
  <2>1. container = "gone" /\ container' = "gone" /\ up'
    BY <1>12, DieIsLast DEF HandleDied, Handling
  <2>2. known' => deact' = "none"
    BY <1>12 DEF HandleDied, LifeInv
  <2>3. UNCHANGED <<joined, hook, activation, init>>
    BY <1>12 DEF HandleDied
  <2> QED
    BY <2>1, <2>2, <2>3 DEF LifeInv
<1>13. CASE DeactivationWaited \/ Shutdown
  <2>1. /\ up /\ deact # "none"
        /\ UNCHANGED <<dockerVars, hook, pluginVars, valid, activation, init>>
    BY <1>13 DEF DeactivationWaited, Shutdown
  <2> QED
    BY <2>1 DEF LifeInv
<1>14. CASE Crash
  <2>1. events' \in Seq(Connections)
    BY <1>14, EmptySeq DEF Crash
  <2> QED
    BY <1>14, <2>1 DEF Crash, LifeInv
<1>15. CASE Start
  <2>1. ~up /\ up' /\ container # "starting" /\ deact' = "none"
        /\ UNCHANGED <<dockerVars, hook, byEndpoint, valid, init>>
    BY <1>15 DEF Start, LifeInv
  <2>2. CASE container = "running" /\ joined # {}
    <3>1. known' /\ activation' = "called"
      BY <1>15, <2>2 DEF Start, NewNameserver
    <3> QED
      BY <2>1, <2>2, <3>1 DEF LifeInv
  <2>3. CASE ~(container = "running" /\ joined # {})
    <3>1. UNCHANGED <<stored, known, activation, registering>>
      BY <1>15, <2>3 DEF Start
    <3>2. container # "gone" => joined = {}
      BY <2>1, <2>3 DEF LifeInv, TypeOK
    <3> QED
      BY <2>1, <3>1, <3>2 DEF LifeInv
  <2> QED
    BY <2>2, <2>3
<1>16. CASE UNCHANGED vars
  BY <1>16 DEF vars, LifeInv
<1> QED
  BY <1>1, <1>2, <1>3, <1>4, <1>5, <1>6, <1>7, <1>8, <1>9, <1>10, <1>11, <1>12,
     <1>13, <1>14, <1>15, <1>16 DEF Next, Initialise, HandleEvent

\* The same for every execution.
LEMMA LifeCorrect == Spec => []LifeInv
<1>1. Init => LifeInv
  BY EmptySeq DEF Init, LifeInv
<1> QED
  BY <1>1, LifeStep, TypeCorrect, PTL DEF Spec
-----------------------------------------------------------------------------
(* The servers and the rules.                                              *)

\* What each stage of the initialisation has done before it, and that the clean-up waits
\* for the last one: it shuts down servers that are not started later.
StageInv ==
  /\ init = "udp" => "tcp" \in listening
  /\ init = "rules" => listening = Servers
  /\ init \in {"links", "valid"} => listening = Servers /\ rules = "ours"
  /\ init = "done" /\ ~initErr =>
       /\ rules = "ours"
       /\ deact \in {"none", "waiting", "shutdown"} => listening = Servers
  /\ deact \in {"shutdown", "done", "failed"} => init = "done"
  /\ deact = "done" => listening = {}

\* Every step keeps the stages in order.
LEMMA StageStep == TypeOK /\ LifeInv /\ StageInv /\ [Next]_vars => StageInv'
<1> SUFFICES ASSUME TypeOK, LifeInv, StageInv, [Next]_vars PROVE StageInv'
  OBVIOUS
<1> USE DEF dockerVars, hookVars, pluginVars, initVars, serverVars
<1>a. ASSUME UNCHANGED <<init, initErr, listening, rules, deact>> PROVE StageInv'
  BY <1>a DEF StageInv
<1>1. ASSUME NEW n \in Networks, Join(n) \/ Leave(n) \/ Register(n) PROVE StageInv'
  BY <1>1, <1>a DEF Join, Leave, Register
<1>2. CASE Stop \/ HookStarts \/ HookFindsFile \/ HookTimeout
  BY <1>2, <1>a DEF Stop, HookStarts, HookFindsFile, HookTimeout
<1>3. CASE CallInit
  <2>1. init = "none" /\ init' = "namespace" /\ UNCHANGED <<listening, rules, deact>>
    BY <1>3 DEF CallInit, LifeInv
  <2> QED
    BY <2>1 DEF StageInv
<1>4. CASE ActivationFinished
  BY <1>4, <1>a DEF ActivationFinished
<1>5. CASE SetNamespace
  BY <1>5 DEF SetNamespace, InitFails, StageInv
<1>6. CASE StartDNSServer
  BY <1>6 DEF StartDNSServer, StartServer, InitFails, StageInv, TypeOK, Servers
<1>7. CASE ReplaceDNATSNATRules
  BY <1>7 DEF ReplaceDNATSNATRules, InitFails, StageInv
<1>8. CASE ListLinks \/ AddFoundNetwork
  BY <1>8 DEF ListLinks, AddFoundNetwork, StageInv
<1>9. ASSUME NEW server \in Servers, Serve(server) PROVE StageInv'
  BY <1>9, <1>a DEF Serve
<1>10. CASE HandleConnected \/ HandleDisconnected
  BY <1>10, <1>a DEF HandleConnected, HandleDisconnected
<1>11. CASE HandleDied
  <2>1. UNCHANGED <<init, initErr, listening, rules>>
    BY <1>11 DEF HandleDied
  <2>2. \/ deact' = deact
        \/ deact = "none" /\ deact' = "waiting"
        \/ deact = "none" /\ deact' = "shutdown" /\ init = "done"
    BY <1>11 DEF HandleDied, Cancel, LifeInv
  <2> QED
    BY <2>1, <2>2 DEF StageInv
<1>12. CASE DeactivationWaited \/ Shutdown
  BY <1>12 DEF DeactivationWaited, Shutdown, StageInv
<1>13. CASE Crash
  BY <1>13 DEF Crash, StageInv
<1>14. CASE Start
  BY <1>14, <1>a DEF Start
<1>15. CASE UNCHANGED vars
  BY <1>15, <1>a DEF vars
<1> QED
  BY <1>1, <1>2, <1>3, <1>4, <1>5, <1>6, <1>7, <1>8, <1>9, <1>10, <1>11, <1>12,
     <1>13, <1>14, <1>15 DEF Next, Initialise, HandleEvent

\* The same for every execution.
LEMMA StagesCorrect == Spec => []StageInv
<1>1. Init => StageInv
  BY DEF Init, StageInv
<1> QED
  BY <1>1, StageStep, TypeCorrect, LifeCorrect, PTL DEF Spec

\* When Activate has returned without an error, queries go to servers that listen, until
\* the container is removed, whichever crashes, faults and cancellations there were.
THEOREM ActivationServes == Spec => []ActiveMeansServed
<1>1. LifeInv /\ StageInv => ActiveMeansServed
  BY DEF LifeInv, StageInv, ActiveMeansServed
<1> QED
  BY <1>1, LifeCorrect, StagesCorrect, PTL

\* A DeactivateAndCleanup that succeeded left no server behind, and none is started after
\* it by an initialisation it cancelled.
THEOREM CleanupLeavesNoServer == Spec => []NoServerLeft
<1>1. StageInv => NoServerLeft
  BY DEF StageInv, NoServerLeft
<1> QED
  BY <1>1, StagesCorrect, PTL
-----------------------------------------------------------------------------
(* The networks in which names are found.                                  *)

\* Nothing is valid, or about to be, but what is joined or was left in a hurry.
KeptInv ==
  /\ valid \subseteq joined \cup hasty
  /\ links \subseteq joined \cup hasty
  /\ init # "valid" => links = {}
  /\ \A n \in Networks : registering[n] = "inject" => n \in joined \cup hasty

\* Every step keeps what is left from staying valid.
LEMMA KeptStep == TypeOK /\ LifeInv /\ KeptInv /\ [Next]_vars => KeptInv'
<1> SUFFICES ASSUME TypeOK, LifeInv, KeptInv, [Next]_vars PROVE KeptInv'
  OBVIOUS
<1> USE DEF dockerVars, hookVars, pluginVars, initVars, serverVars
<1>a. ASSUME UNCHANGED <<valid, joined, hasty, links, registering>>,
             init' = init \/ (init # "valid" /\ init' # "valid")
      PROVE  KeptInv'
  BY <1>a DEF KeptInv
<1>b. ASSUME NEW current, stored # None, NetworksChanged(current), current \subseteq joined \cup stored,
             UNCHANGED <<joined, hasty, links, registering, init>>
      PROVE  KeptInv'
  <2>1. valid' \subseteq valid \cup joined
    BY <1>b DEF NetworksChanged
  <2> QED
    BY <1>b, <2>1 DEF KeptInv
<1>1. ASSUME NEW n \in Networks, Join(n) PROVE KeptInv'
  <2>1. /\ joined' = joined \cup {n} /\ valid' = valid \cup {n} /\ hasty' = hasty \ {n}
        /\ UNCHANGED <<init, links>>
        /\ \A m \in Networks : registering'[m] = "inject" => registering[m] = "inject"
    BY <1>1 DEF Join, TypeOK
  <2> QED
    BY <2>1 DEF KeptInv
<1>2. ASSUME NEW n \in Networks, Leave(n) PROVE KeptInv'
  <2>1. /\ joined' = joined \ {n} /\ valid' \subseteq valid
        /\ UNCHANGED <<init, links>>
        /\ \A m \in Networks : registering'[m] = "inject" => registering[m] = "inject"
    BY <1>2 DEF Leave, LeaveNameserver, TypeOK
  <2>2. CASE hasty' = hasty \cup {n}
    BY <2>1, <2>2 DEF KeptInv
  <2>3. CASE n \in byEndpoint /\ init = "done" /\ registering[n] = "no" /\ hasty' = hasty
    <3>1. up
      BY <2>3 DEF LifeInv
    <3>2. valid' = valid \ {n}
      BY <1>2, <2>3, <3>1 DEF Leave, LeaveNameserver
    <3>3. links = {} /\ registering'[n] # "inject"
      BY <2>1, <2>3 DEF KeptInv
    <3> QED
      BY <2>1, <2>3, <3>2, <3>3 DEF KeptInv
  <2> QED
    BY <1>2, <2>2, <2>3 DEF Leave
<1>3. CASE Stop \/ HookStarts \/ HookFindsFile \/ HookTimeout
  BY <1>3, <1>a DEF Stop, HookStarts, HookFindsFile, HookTimeout
<1>4. CASE CallInit \/ ActivationFinished
  BY <1>4, <1>a DEF CallInit, ActivationFinished, LifeInv
<1>5. CASE SetNamespace \/ StartDNSServer \/ ReplaceDNATSNATRules
  BY <1>5, <1>a DEF SetNamespace, StartDNSServer, StartServer, ReplaceDNATSNATRules, InitFails
<1>6. CASE ListLinks \/ AddFoundNetwork
  BY <1>6 DEF ListLinks, AddFoundNetwork, KeptInv
<1>7. ASSUME NEW n \in Networks, Register(n) PROVE KeptInv'
  <2>1. /\ UNCHANGED <<joined, hasty, links, init>>
        /\ valid' = valid \/ (valid' = valid \cup {n} /\ registering[n] = "inject")
        /\ \A m \in Networks : registering'[m] = "inject" => registering[m] = "inject"
    BY <1>7 DEF Register, TypeOK
  <2> QED
    BY <2>1 DEF KeptInv
<1>8. ASSUME NEW server \in Servers, Serve(server) PROVE KeptInv'
  BY <1>8, <1>a DEF Serve
<1>9. CASE HandleConnected
  <2>1. CASE UNCHANGED valid
    BY <1>9, <2>1, <1>a DEF HandleConnected
  <2>2. CASE stored # None /\ NetworksChanged(joined)
    BY <1>9, <2>2, <1>b DEF HandleConnected
  <2> QED
    BY <1>9, <2>1, <2>2 DEF HandleConnected
<1>10. CASE HandleDisconnected
  <2>1. CASE UNCHANGED valid
    BY <1>10, <2>1, <1>a DEF HandleDisconnected
  <2>2. CASE stored # None /\ NetworksChanged(stored \ {Head(events).n})
    BY <1>10, <2>2, <1>b DEF HandleDisconnected
  <2> QED
    BY <1>10, <2>1, <2>2 DEF HandleDisconnected
<1>11. CASE HandleDied \/ DeactivationWaited \/ Shutdown
  BY <1>11, <1>a DEF HandleDied, DeactivationWaited, Shutdown
<1>12. CASE Crash
  BY <1>12 DEF Crash, KeptInv
<1>13. CASE Start
  <2>1. /\ UNCHANGED <<valid, joined, hasty, links, init>>
        /\ \A m \in Networks : registering'[m] = "inject" =>
             m \in joined \/ registering[m] = "inject"
    BY <1>13 DEF Start, TypeOK
  <2> QED
    BY <2>1 DEF KeptInv
<1>14. CASE UNCHANGED vars
  BY <1>14, <1>a DEF vars
<1> QED
  BY <1>1, <1>2, <1>3, <1>4, <1>5, <1>6, <1>7, <1>8, <1>9, <1>10, <1>11, <1>12,
     <1>13, <1>14 DEF Next, Initialise, HandleEvent

\* The same for every execution.
LEMMA KeptCorrect == Spec => []KeptInv
<1>1. Init => KeptInv
  BY DEF Init, KeptInv
<1> QED
  BY <1>1, KeptStep, TypeCorrect, LifeCorrect, PTL DEF Spec

\* An event of this kind about the network n is at a place of the queue.
IsEvent(s, i, type, n) == s[i].type = type /\ s[i].n = n

\* In a queue: every disconnection from n is followed by a connection; there is one.
Reconnected(s, n) ==
  \A i \in 1 .. Len(s) :
    IsEvent(s, i, "disconnect", n) =>
      \E j \in i + 1 .. Len(s) : IsEvent(s, j, "connect", n)
Connecting(s, n) == \E i \in 1 .. Len(s) : IsEvent(s, i, "connect", n)

\* A network that was left and joined again has the connection's event behind the
\* disconnection's; and a joined network in which names are not found is still to be
\* added, by the injection or when its connection is handled.
MissingInv ==
  container # "gone" =>
    /\ \A n \in joined : Reconnected(events, n)
    /\ up /\ ~initErr =>
         \A n \in joined \ valid :
           \/ registering[n] = "inject"
           \/ stored # None /\ n \notin stored /\ Connecting(events, n)

\* Another network's event at the end changes nothing for n.
LEMMA AppendOther ==
  ASSUME NEW s \in Seq(Connections), NEW e \in Connections, NEW n, e.n # n
  PROVE  /\ Reconnected(s, n) => Reconnected(Append(s, e), n)
         /\ Connecting(s, n) => Connecting(Append(s, e), n)
<1> DEFINE t == Append(s, e)
<1>1. /\ Len(s) \in Nat /\ Len(t) = Len(s) + 1
      /\ \A i \in 1 .. Len(s) : t[i] = s[i]
      /\ t[Len(t)] = e
  BY AppendProperties, LenProperties
<1> HIDE DEF t
<1>2. ASSUME Reconnected(s, n), NEW i \in 1 .. Len(t), IsEvent(t, i, "disconnect", n)
      PROVE  \E j \in i + 1 .. Len(t) : IsEvent(t, j, "connect", n)
  <2>1. i \in 1 .. Len(s) /\ IsEvent(s, i, "disconnect", n)
    BY <1>1, <1>2 DEF IsEvent
  <2>2. PICK j \in i + 1 .. Len(s) : IsEvent(s, j, "connect", n)
    BY <1>2, <2>1 DEF Reconnected
  <2>3. j \in i + 1 .. Len(t) /\ IsEvent(t, j, "connect", n)
    BY <1>1, <2>1, <2>2 DEF IsEvent
  <2> QED
    BY <2>3
<1>3. ASSUME Connecting(s, n) PROVE Connecting(t, n)
  BY <1>1, <1>3 DEF Connecting, IsEvent
<1> QED
  BY <1>2, <1>3 DEF Reconnected, t

\* A connection at the end makes up for every disconnection before it.
LEMMA AppendConnect ==
  ASSUME NEW s \in Seq(Connections), NEW n \in Networks
  PROVE  Reconnected(Append(s, Event("connect", n)), n)
<1> DEFINE e == Event("connect", n)
           t == Append(s, e)
<1>1. e \in Connections /\ e.type = "connect" /\ e.n = n
  BY DEF Event, Connections
<1>2. /\ Len(s) \in Nat /\ Len(t) = Len(s) + 1
      /\ t[Len(t)] = e
  BY <1>1, AppendProperties, LenProperties
<1> HIDE DEF t, e
<1>3. ASSUME NEW i \in 1 .. Len(t), IsEvent(t, i, "disconnect", n)
      PROVE  \E j \in i + 1 .. Len(t) : IsEvent(t, j, "connect", n)
  BY <1>1, <1>2, <1>3 DEF IsEvent
<1> QED
  BY <1>3 DEF Reconnected, t, e

\* Once the first event is handled: what comes after a disconnection is still there, and
\* so is every connection that was not the first.
LEMMA TailEvents ==
  ASSUME NEW s \in Seq(Connections), s # <<>>, NEW n
  PROVE  /\ Reconnected(s, n) => Reconnected(Tail(s), n)
         /\ Connecting(s, n) /\ ~(Head(s).type = "connect" /\ Head(s).n = n)
              => Connecting(Tail(s), n)
         /\ Reconnected(s, n) /\ Head(s).type = "disconnect" /\ Head(s).n = n
              => Connecting(Tail(s), n)
<1> DEFINE t == Tail(s)
<1>1. /\ Len(s) \in Nat /\ Len(s) > 0 /\ Len(t) = Len(s) - 1
      /\ \A i \in 1 .. Len(t) : t[i] = s[i + 1]
      /\ Head(s) = s[1]
  BY HeadTailProperties, LenProperties, EmptySeq
<1>2. \A i \in 2 .. Len(s) : i - 1 \in 1 .. Len(t) /\ t[i - 1] = s[i]
  BY <1>1
<1> HIDE DEF t
<1>3. ASSUME Reconnected(s, n), NEW i \in 1 .. Len(t), IsEvent(t, i, "disconnect", n)
      PROVE  \E j \in i + 1 .. Len(t) : IsEvent(t, j, "connect", n)
  <2>1. i + 1 \in 1 .. Len(s) /\ IsEvent(s, i + 1, "disconnect", n)
    BY <1>1, <1>3 DEF IsEvent
  <2>2. PICK j \in (i + 1) + 1 .. Len(s) : IsEvent(s, j, "connect", n)
    BY <1>3, <2>1 DEF Reconnected
  <2>3. j - 1 \in i + 1 .. Len(t) /\ IsEvent(t, j - 1, "connect", n)
    BY <1>1, <1>2, <2>2 DEF IsEvent
  <2> QED
    BY <2>3
<1>4. ASSUME NEW i \in 2 .. Len(s), IsEvent(s, i, "connect", n)
      PROVE  Connecting(t, n)
  <2>1. i - 1 \in 1 .. Len(t) /\ IsEvent(t, i - 1, "connect", n)
    BY <1>2, <1>4 DEF IsEvent
  <2> QED
    BY <2>1 DEF Connecting
<1>5. ASSUME Connecting(s, n), ~(Head(s).type = "connect" /\ Head(s).n = n)
      PROVE  Connecting(t, n)
  <2>1. PICK i \in 1 .. Len(s) : IsEvent(s, i, "connect", n)
    BY <1>5 DEF Connecting
  <2>2. i # 1
    BY <1>1, <1>5, <2>1 DEF IsEvent
  <2>3. i \in 2 .. Len(s)
    BY <1>1, <2>1, <2>2
  <2> QED
    BY <1>4, <2>1, <2>3
<1>6. ASSUME Reconnected(s, n), Head(s).type = "disconnect", Head(s).n = n
      PROVE  Connecting(t, n)
  <2>1. 1 \in 1 .. Len(s) /\ IsEvent(s, 1, "disconnect", n)
    BY <1>1, <1>6 DEF IsEvent
  <2>2. PICK j \in 1 + 1 .. Len(s) : IsEvent(s, j, "connect", n)
    BY <1>6, <2>1 DEF Reconnected
  <2>3. j \in 2 .. Len(s)
    BY <1>1, <2>2
  <2> QED
    BY <1>4, <2>2, <2>3
<1> QED
  BY <1>3, <1>5, <1>6 DEF Reconnected, t

\* Nothing is to be shown when the queue, the networks and what is known of them stay.
LEMMA MissingKept ==
  ASSUME MissingInv, container' # "gone" => container # "gone",
         UNCHANGED <<events, joined, stored>>, up' => up, initErr => initErr',
         valid \subseteq valid',
         \A n \in joined : registering[n] = "inject" => registering'[n] = "inject" \/ n \in valid' \/ initErr'
  PROVE  MissingInv'
BY DEF MissingInv

\* Handling an event of one network's keeps the queue in order, and shortens it.
LEMMA HandledEvents ==
  ASSUME LifeInv, MissingInv, container # "gone", events # <<>>, events' = Tail(events), joined' = joined
  PROVE  \A n \in joined : Reconnected(events', n)
<1>1. events \in Seq(Connections)
  BY DEF LifeInv
<1>2. ASSUME NEW n \in joined PROVE Reconnected(Tail(events), n)
  BY <1>1, <1>2, TailEvents DEF MissingInv
<1> QED
  BY <1>2

\* Every step leaves a missing network to be added.
LEMMA MissingStep == TypeOK /\ LifeInv /\ MissingInv /\ [Next]_vars => MissingInv'
<1> SUFFICES ASSUME TypeOK, LifeInv, MissingInv, [Next]_vars PROVE MissingInv'
  OBVIOUS
<1> USE DEF dockerVars, hookVars, pluginVars, initVars, serverVars
<1>a. container # "gone" => events \in Seq(Connections)
  BY DEF LifeInv
<1>1. ASSUME NEW n \in Networks, Join(n) PROVE MissingInv'
  <2> DEFINE e == Event("connect", n)
  <2>1. /\ container # "gone" /\ e \in Connections /\ e.n = n
        /\ events' = Append(events, e)
        /\ events \in Seq(Connections)
    BY <1>1, <1>a DEF Join, Emitted, Event, Connections
  <2>2. /\ joined' = joined \cup {n} /\ valid' = valid \cup {n}
        /\ UNCHANGED <<up, initErr, stored>>
        /\ \A m \in Networks : m # n => registering'[m] = registering[m]
    BY <1>1 DEF Join, TypeOK
  <2>3. Reconnected(events', n)
    BY <2>1, AppendConnect
  <2>4. ASSUME NEW m \in joined, m # n
        PROVE  /\ Reconnected(events', m)
               /\ Connecting(events, m) => Connecting(events', m)
    <3>1. Reconnected(events, m)
      BY <2>1 DEF MissingInv
    <3> HIDE DEF e
    <3> QED
      BY <2>1, <2>4, <3>1, AppendOther
  <2>5. joined \subseteq Networks
    BY DEF TypeOK
  <2> QED
    BY <2>1, <2>2, <2>3, <2>4, <2>5 DEF MissingInv
<1>2. ASSUME NEW n \in Networks, Leave(n) PROVE MissingInv'
  <2> SUFFICES ASSUME container # "gone" PROVE MissingInv'
    BY <1>2 DEF Leave, MissingInv
  <2> DEFINE e == Event("disconnect", n)
  <2>1. /\ e \in Connections /\ e.n = n
        /\ events' = Append(events, e) \/ events' = events
        /\ events \in Seq(Connections)
    BY <1>2, <1>a DEF Leave, Emitted, Event, Connections
  <2>2. /\ joined' = joined \ {n} /\ valid \ {n} \subseteq valid'
        /\ UNCHANGED <<up, initErr, stored>>
        /\ \A m \in Networks : m # n => registering'[m] = registering[m]
    BY <1>2 DEF Leave, LeaveNameserver, TypeOK
  <2>3. ASSUME NEW m \in joined, m # n
        PROVE  /\ Reconnected(events', m)
               /\ Connecting(events, m) => Connecting(events', m)
    <3>1. Reconnected(events, m)
      BY DEF MissingInv
    <3> HIDE DEF e
    <3> QED
      BY <2>1, <2>3, <3>1, AppendOther
  <2>4. joined \subseteq Networks
    BY DEF TypeOK
  <2> QED
    BY <2>2, <2>3, <2>4 DEF MissingInv
<1>3. CASE Stop
  BY <1>3 DEF Stop, MissingInv
<1>4. CASE HookStarts \/ HookFindsFile \/ HookTimeout
  <2>1. container # "gone" \/ container' = container
    BY <1>4 DEF HookStarts, HookFindsFile, HookTimeout, LifeInv
  <2>2. UNCHANGED <<joined, joins, events, pluginVars, valid, initVars>>
    BY <1>4 DEF HookStarts, HookFindsFile, HookTimeout
  <2> QED
    BY <2>1, <2>2, MissingKept
<1>5. CASE CallInit \/ ActivationFinished
  BY <1>5, MissingKept DEF CallInit, ActivationFinished
<1>6. CASE SetNamespace \/ StartDNSServer \/ ReplaceDNATSNATRules
  <2>1. UNCHANGED <<dockerVars, pluginVars, valid>> /\ (initErr => initErr')
    BY <1>6 DEF SetNamespace, StartDNSServer, StartServer, ReplaceDNATSNATRules, InitFails, TypeOK
  <2> QED
    BY <2>1, MissingKept
<1>7. CASE ListLinks \/ AddFoundNetwork
  <2>1. UNCHANGED <<dockerVars, pluginVars, initErr>> /\ valid \subseteq valid'
    BY <1>7 DEF ListLinks, AddFoundNetwork
  <2> QED
    BY <2>1, MissingKept
<1>8. ASSUME NEW n \in Networks, Register(n) PROVE MissingInv'
  <2>1. UNCHANGED <<dockerVars, up, stored, initErr>> /\ valid \subseteq valid'
    BY <1>8 DEF Register
  <2>2. ASSUME NEW m \in joined, registering[m] = "inject"
        PROVE  registering'[m] = "inject" \/ m \in valid' \/ initErr'
    BY <1>8, <2>2 DEF Register, TypeOK
  <2> QED
    BY <2>1, <2>2, MissingKept
<1>9. ASSUME NEW server \in Servers, Serve(server) PROVE MissingInv'
  BY <1>9, MissingKept DEF Serve
<1>10. CASE HandleConnected
  <2> SUFFICES ASSUME container # "gone" PROVE MissingInv'
    BY <1>10 DEF HandleConnected, MissingInv
  <2>1. /\ up /\ events # <<>> /\ events' = Tail(events) /\ container # "starting"
        /\ UNCHANGED <<container, joined, registering, initErr, up>>
    BY <1>10 DEF HandleConnected, Handling
  <2>2. \A n \in joined : Reconnected(events', n)
    BY <2>1, HandledEvents
  <2>3. CASE joined = {}
    BY <2>1, <2>2, <2>3 DEF MissingInv
  <2>4. CASE joined # {}
    <3>1. container = "running" /\ known
      BY <2>1, <2>4 DEF LifeInv, TypeOK
    <3>2. ASSUME ~initErr, NEW n \in joined, registering[n] # "inject" PROVE n \in valid'
      <4>1. n \in valid \/ (stored # None /\ n \notin stored)
        BY <2>1, <3>2 DEF MissingInv
      <4>2. CASE stored = None
        BY <1>10, <4>1, <4>2 DEF HandleConnected
      <4>3. CASE stored # None
        BY <1>10, <2>4, <3>1, <4>1, <4>3 DEF HandleConnected, NetworksChanged
      <4> QED
        BY <4>2, <4>3
    <3> QED
      BY <2>1, <2>2, <3>2 DEF MissingInv
  <2> QED
    BY <2>3, <2>4
<1>11. CASE HandleDisconnected
  <2> SUFFICES ASSUME container # "gone" PROVE MissingInv'
    BY <1>11 DEF HandleDisconnected, MissingInv
  <2>1. /\ up /\ events # <<>> /\ events' = Tail(events) /\ Head(events).type = "disconnect"
        /\ UNCHANGED <<container, joined, registering, initErr, up>>
    BY <1>11 DEF HandleDisconnected, Handling
  <2>2. \A n \in joined : Reconnected(events', n)
    BY <2>1, HandledEvents
  <2>3. ASSUME NEW n \in joined, Connecting(events, n) PROVE Connecting(events', n)
    BY <1>a, <2>1, <2>3, TailEvents
  <2>4. ASSUME NEW n \in joined, Head(events).n = n PROVE Connecting(events', n)
    BY <1>a, <2>1, <2>4, TailEvents DEF MissingInv
  <2>5. CASE stored = None
    BY <1>11, <2>1, <2>2, <2>3, <2>5 DEF HandleDisconnected, MissingInv
  <2>6. CASE stored # None
    <3>1. /\ stored' = stored \ {Head(events).n}
          /\ valid \ {Head(events).n} \subseteq valid'
          /\ Head(events).n \notin stored => valid \subseteq valid'
      BY <1>11, <2>6 DEF HandleDisconnected, NetworksChanged
    <3>2. stored' \in SUBSET Networks
      BY <2>6, <3>1 DEF TypeOK
    <3>3. stored' # None
      BY <3>2, NameserverAssumption
    <3>4. ASSUME ~initErr, NEW n \in joined, n \notin valid', registering[n] # "inject"
          PROVE  n \notin stored' /\ Connecting(events', n)
      <4>1. CASE n = Head(events).n
        BY <2>4, <3>1, <4>1
      <4>2. CASE n # Head(events).n
        <5>1. n \notin valid
          BY <3>1, <3>4, <4>2
        <5>2. n \notin stored /\ Connecting(events, n)
          BY <2>1, <3>4, <5>1 DEF MissingInv
        <5> QED
          BY <2>3, <3>1, <5>2
      <4> QED
        BY <4>1, <4>2
    <3> QED
      BY <2>1, <2>2, <3>3, <3>4 DEF MissingInv
  <2> QED
    BY <2>5, <2>6
<1>12. CASE HandleDied
  <2>1. container = "gone" /\ container' = "gone"
    BY <1>12, DieIsLast DEF HandleDied, Handling
  <2> QED
    BY <2>1 DEF MissingInv
<1>13. CASE DeactivationWaited \/ Shutdown
  BY <1>13, MissingKept DEF DeactivationWaited, Shutdown
<1>14. CASE Crash
  <2>1. \A n : Reconnected(<<>>, n)
    BY DEF Reconnected
  <2> QED
    BY <1>14, <2>1 DEF Crash, MissingInv
<1>15. CASE Start
  <2> SUFFICES ASSUME container # "gone" PROVE MissingInv'
    BY <1>15 DEF Start, MissingInv
  <2>1. UNCHANGED dockerVars /\ container # "starting"
    BY <1>15 DEF Start
  <2>2. \A n \in joined : Reconnected(events', n)
    BY <2>1 DEF MissingInv
  <2>3. ASSUME NEW n \in joined PROVE registering'[n] = "inject"
    <3>1. container = "running" /\ joined # {} /\ n \in Networks
      BY <2>1 DEF LifeInv, TypeOK
    <3> QED
      BY <1>15, <3>1 DEF Start
  <2> QED
    BY <2>1, <2>2, <2>3 DEF MissingInv
<1>16. CASE UNCHANGED vars
  BY <1>16, MissingKept DEF vars
<1> QED
  BY <1>1, <1>2, <1>3, <1>4, <1>5, <1>6, <1>7, <1>8, <1>9, <1>10, <1>11, <1>12,
     <1>13, <1>14, <1>15, <1>16 DEF Next, Initialise, HandleEvent

\* When all events are handled and nobody is about to note an endpoint, a container finds
\* names in exactly the networks it is in, but for those it left while its nameserver was
\* set up: whatever the order of joins, leaves, events, goroutines and crashes was.
THEOREM NetworksFollow == Spec => []ValidFollowsJoined
<1>1. Init => MissingInv
  BY DEF Init, MissingInv
<1>2. TypeOK /\ KeptInv /\ MissingInv => ValidFollowsJoined
  <2> SUFFICES ASSUME TypeOK, KeptInv, MissingInv, Quiet, NEW n \in joined, n \notin valid
               PROVE  FALSE
    BY DEF KeptInv, ValidFollowsJoined
  <2>1. Connecting(events, n)
    <3>1. n \in Networks
      BY DEF TypeOK
    <3> QED
      BY <3>1 DEF MissingInv, Quiet
  <2>2. Len(events) = 0
    BY DEF Quiet
  <2> QED
    BY <2>1, <2>2 DEF Connecting
<1> QED
  BY <1>1, <1>2, MissingStep, TypeCorrect, LifeCorrect, KeptCorrect, PTL DEF Spec
=============================================================================
