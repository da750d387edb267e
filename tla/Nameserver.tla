----------------------------- MODULE Nameserver ------------------------------
(***************************************************************************)
(* The nameserver of one container's sandbox (pkg/dns/server.go), from the *)
(* driver's Join over its initialisation (common.InitManager) to its end,  *)
(* with the hook that keeps the container waiting for it (src/hook).       *)
(*                                                                         *)
(* Five goroutines share a nameserver: the driver's calls, the goroutine of*)
(* Activate, the one that initialises, those that note endpoints once that *)
(* is done, and the one that handles Docker's events.  The nameserver's    *)
(* mutex is held for an instant everywhere but in DeactivateAndCleanup,    *)
(* which keeps it while it waits for the initialisation.                   *)
(***************************************************************************)
EXTENDS Naturals, Sequences

CONSTANTS
  Networks,
  MaxJoins,   \* bound: Docker's joins of networks
  MaxCrashes, \* bound: crashes of the plugin
  Faults,     \* of "init" and "shutdown"
  None

ASSUME NameserverAssumption ==
  /\ MaxJoins \in Nat /\ MaxCrashes \in Nat
  /\ \A networks \in SUBSET Networks : networks # None

VARIABLES
  container,   \* Docker: what becomes of the container
  joined,      \* Docker: the networks with an endpoint in the sandbox
  joins,       \* Docker's joins so far
  events,      \* Docker's events that are not yet handled
  hook,        \* the hook's process
  isHookAvailable,
  sandboxFile, readyFile,
  rules,       \* where the sandbox's rules send queries
  up,          \* whether the plugin runs
  crashes,     \* crashes so far
  stored,      \* the networks of the container in the store of containers
  known,       \* nameserversBySandboxKey has the nameserver
  byEndpoint,  \* nameserversByEndpointID has it for the endpoint in a network
  registering, \* what goroutines will put there, from Join or from the injection
  valid,       \* validNetworkIDs
  activation,  \* Activate's goroutine
  init,        \* the initialisation's goroutine
  links,       \* the networks it found and still has to add
  initErr, cancelled,
  listening, serving, \* the servers that have a socket, that answer
  deact,       \* DeactivateAndCleanup
  hasty        \* history: networks left before the nameserver was done with them

dockerVars == <<container, joined, joins, events>>
hookVars == <<hook, isHookAvailable, sandboxFile, readyFile>>
pluginVars == <<up, crashes, stored, known, byEndpoint, registering>>
initVars == <<activation, init, links, initErr, cancelled>>
serverVars == <<listening, serving, rules>>
vars == <<dockerVars, hookVars, pluginVars, valid, initVars, serverVars, deact, hasty>>

Servers == {"tcp", "udp"}

\* What Docker reports of a container's networks, and of the container itself.
Connections == [type : {"connect", "disconnect"}, n : Networks]
Events == Connections \cup [type : {"die"}]

\* Who waits to note an endpoint: nobody, a Join that found the nameserver, the one
\* that created it, or the injection.
Registrations == {"no", "join", "first join", "inject"}

TypeOK ==
  /\ container \in {"none", "starting", "running", "gone"}
  /\ joined \in SUBSET Networks /\ joins \in 0 .. MaxJoins
  /\ events \in Seq(Events)
  /\ hook \in {"none", "waiting", "ready", "timeout"}
  /\ isHookAvailable \in BOOLEAN /\ sandboxFile \in BOOLEAN /\ readyFile \in BOOLEAN
  /\ rules \in {"docker", "ours", "dead"}
  /\ up \in BOOLEAN /\ crashes \in 0 .. MaxCrashes
  /\ stored \in (SUBSET Networks) \cup {None}
  /\ known \in BOOLEAN
  /\ byEndpoint \in SUBSET Networks
  /\ registering \in [Networks -> Registrations]
  /\ valid \in SUBSET Networks
  /\ activation \in {"none", "called", "waiting", "finished"}
  /\ init \in {"none", "namespace", "tcp", "udp", "rules", "links", "valid", "done"}
  /\ links \in SUBSET Networks
  /\ initErr \in BOOLEAN /\ cancelled \in BOOLEAN
  /\ listening \in SUBSET Servers /\ serving \in SUBSET Servers
  /\ deact \in {"none", "waiting", "shutdown", "done", "failed"}
  /\ hasty \in SUBSET Networks

\* The nameserver's mutex, kept by DeactivateAndCleanup.
Locked == deact \in {"waiting", "shutdown"}
\* The events are handled one by one, and the removal of a container is one of them.
Handling(type) == up /\ ~Locked /\ events # <<>> /\ Head(events).type = type

-----------------------------------------------------------------------------
(* Docker's calls of the driver.                                           *)

Event(type, n) == [type |-> type, n |-> n]
Emitted(e) == events' = IF up THEN Append(events, e) ELSE events

\* NewNameserver and Activate.
NewNameserver ==
  /\ known' = TRUE
  /\ activation' = "called"
  /\ sandboxFile' = (sandboxFile \/ isHookAvailable)

\* Join: the nameserver is created with the first one; its endpoint is noted when the
\* initialisation is over, those of the others at once.
Join(n) ==
  /\ up /\ joins < MaxJoins /\ joins' = joins + 1
  /\ n \notin joined /\ joined' = joined \cup {n}
  /\ \/ container = "none" /\ container' = "starting"
     \/ container \in {"starting", "running"} /\ UNCHANGED container
  /\ IF known
     THEN /\ UNCHANGED <<known, activation, sandboxFile>>
          /\ registering' = [registering EXCEPT ![n] = "join"]
     ELSE /\ NewNameserver
          /\ registering' = [registering EXCEPT ![n] = "first join"]
  /\ ~Locked
  /\ valid' = valid \cup {n}
  /\ Emitted(Event("connect", n))
  /\ hasty' = hasty \ {n}
  /\ UNCHANGED <<hook, isHookAvailable, readyFile, up, crashes, stored, byEndpoint, init, links,
                 initErr, cancelled, serverVars, deact>>

\* Of a network whose endpoint is not noted the nameserver hears nothing.
LeaveNameserver(n) ==
  /\ byEndpoint' = byEndpoint \ {n}
  /\ IF n \in byEndpoint THEN ~Locked /\ valid' = valid \ {n} ELSE UNCHANGED valid

\* Leave, of a container that runs or that has stopped.
Leave(n) ==
  /\ container \in {"running", "gone"} /\ n \in joined
  /\ joined' = joined \ {n}
  /\ IF up THEN LeaveNameserver(n) ELSE UNCHANGED <<byEndpoint, valid>>
  /\ registering' = [registering EXCEPT ![n] = IF @ = "inject" THEN @ ELSE "no"]
  /\ hasty' = IF n \in byEndpoint /\ init = "done" /\ registering[n] = "no"
              THEN hasty ELSE hasty \cup {n}
  /\ Emitted(Event("disconnect", n))
  /\ UNCHANGED <<container, joins, hookVars, up, crashes, stored, known, initVars, serverVars, deact>>

Stop ==
  /\ container = "running"
  /\ container' = "gone"
  /\ Emitted([type |-> "die"])
  /\ UNCHANGED <<joined, joins, hookVars, pluginVars, valid, initVars, serverVars, deact, hasty>>

-----------------------------------------------------------------------------
(* The hook.  It runs in the sandbox before the container does.            *)

HookStarts ==
  /\ container = "starting" /\ hook = "none"
  /\ IF sandboxFile
     THEN hook' = "waiting" /\ UNCHANGED container
     ELSE hook' = "ready" /\ container' = "running"
  /\ UNCHANGED <<joined, joins, events, isHookAvailable, sandboxFile, readyFile, pluginVars,
                 valid, initVars, serverVars, deact, hasty>>

\* watchForFile; then both files are removed.
HookFindsFile ==
  /\ hook = "waiting" /\ readyFile
  /\ hook' = "ready" /\ container' = "running"
  /\ readyFile' = FALSE /\ sandboxFile' = FALSE
  /\ UNCHANGED <<joined, joins, events, isHookAvailable, pluginVars, valid, initVars,
                 serverVars, deact, hasty>>

\* After twenty seconds; the files stay.
HookTimeout ==
  /\ hook = "waiting"
  /\ hook' = "timeout" /\ container' = "running"
  /\ UNCHANGED <<joined, joins, events, isHookAvailable, sandboxFile, readyFile, pluginVars,
                 valid, initVars, serverVars, deact, hasty>>

-----------------------------------------------------------------------------
(* Activation and initialisation.                                          *)

CallInit ==
  /\ up /\ activation = "called"
  /\ activation' = "waiting" /\ init' = "namespace"
  /\ UNCHANGED <<dockerVars, hookVars, pluginVars, valid, links, initErr, cancelled, serverVars,
                 deact, hasty>>

\* Mutation: the activation does not wait.
WaitNot == init # "none"

Wait == init = "done"

\* The ready file is written after an error as well.
ActivationFinished ==
  /\ up /\ activation = "waiting" /\ Wait
  /\ activation' = "finished"
  /\ readyFile' = (readyFile \/ isHookAvailable)
  /\ UNCHANGED <<dockerVars, hook, isHookAvailable, sandboxFile, pluginVars, valid, init, links,
                 initErr, cancelled, serverVars, deact, hasty>>

\* A goroutine that waited for the activation's result notes the endpoint; that of the
\* injection adds the network too, as it was when the plugin started.
Register(n) ==
  /\ up /\ registering[n] # "no"
  /\ registering[n] \in {"first join", "inject"} => activation = "finished"
  /\ registering' = [registering EXCEPT ![n] = "no"]
  /\ IF registering[n] # "join" /\ initErr
     THEN UNCHANGED <<byEndpoint, valid>>
     ELSE /\ byEndpoint' = byEndpoint \cup {n}
          /\ IF registering[n] = "inject" THEN ~Locked /\ valid' = valid \cup {n}
             ELSE UNCHANGED valid
  /\ UNCHANGED <<dockerVars, hookVars, up, crashes, stored, known, initVars, serverVars, deact, hasty>>

\* Mutation: those who wait are not woken after an error.
InitFailsUndone == init' = "failed" /\ initErr' = TRUE

InitFails ==
  /\ init' = "done" /\ initErr' = TRUE

\* setNamespace fails after ten seconds, or when it is cancelled while it tries again.
SetNamespace ==
  /\ up /\ init = "namespace"
  /\ \/ init' = "tcp" /\ UNCHANGED initErr
     \/ ("init" \in Faults \/ cancelled) /\ InitFails
  /\ UNCHANGED <<dockerVars, hookVars, pluginVars, valid, activation, links, cancelled, serverVars,
                 deact, hasty>>

StartServer(server, next) ==
  \/ ~cancelled /\ listening' = listening \cup {server} /\ init' = next /\ UNCHANGED initErr
  \/ (cancelled \/ "init" \in Faults) /\ InitFails /\ UNCHANGED listening

\* startDNSServer for TCP, then for UDP.
StartDNSServer ==
  /\ up
  /\ \/ init = "tcp" /\ StartServer("tcp", "udp")
     \/ init = "udp" /\ StartServer("udp", "rules")
  /\ UNCHANGED <<dockerVars, hookVars, pluginVars, valid, activation, links, cancelled, serving,
                 rules, deact, hasty>>

\* The goroutine of a server that listens.
Serve(server) ==
  /\ up /\ server \in listening \ serving
  /\ serving' = serving \cup {server}
  /\ UNCHANGED <<dockerVars, hookVars, pluginVars, valid, initVars, listening, rules, deact, hasty>>

\* replaceDNATSNATRules: our rules come first, then Docker's are waited for and deleted;
\* when it fails or is cancelled some of ours may stay.
ReplaceDNATSNATRules ==
  /\ up /\ init = "rules"
  /\ \/ ~cancelled /\ rules' = "ours" /\ init' = "links" /\ UNCHANGED initErr
     \/ /\ cancelled \/ "init" \in Faults
        /\ rules' \in {rules, "ours"}
        /\ InitFails
  /\ UNCHANGED <<dockerVars, hookVars, pluginVars, valid, activation, links, cancelled, listening,
                 serving, deact, hasty>>

\* setAllNetworksAsValid lists the sandbox's interfaces, which come some time after Join ...
ListLinks ==
  /\ up /\ init = "links"
  /\ links' \in SUBSET joined
  /\ init' = "valid"
  /\ UNCHANGED <<dockerVars, hookVars, pluginVars, valid, activation, initErr, cancelled,
                 serverVars, deact, hasty>>

\* ... and adds their networks, for which it needs the mutex.  It cannot be cancelled.
AddFoundNetwork ==
  /\ up /\ init = "valid"
  /\ \/ \E n \in links : ~Locked /\ valid' = valid \cup {n} /\ links' = links \ {n} /\ UNCHANGED init
     \/ links = {} /\ init' = "done" /\ UNCHANGED <<valid, links>>
  /\ UNCHANGED <<dockerVars, hookVars, pluginVars, activation, initErr, cancelled, serverVars,
                 deact, hasty>>

-----------------------------------------------------------------------------
(* Docker's events, and the driver's handlers.                             *)

\* Mutation: the networks' two lists are taken for one another.
NetworksSwapped(current) ==
  IF known
  THEN /\ byEndpoint' = (byEndpoint \ (current \ stored)) \cup (stored \ current)
       /\ valid' = (valid \ (current \ stored)) \cup (stored \ current)
  ELSE UNCHANGED <<byEndpoint, valid>>

\* handleContainersChanged.
NetworksChanged(current) ==
  IF known
  THEN /\ byEndpoint' = (byEndpoint \ (stored \ current)) \cup (current \ stored)
       /\ valid' = (valid \ (stored \ current)) \cup (current \ stored)
  ELSE UNCHANGED <<byEndpoint, valid>>

\* A container that starts keeps the one who asks for it waiting.
HandleConnected ==
  /\ Handling("connect") /\ container # "starting"
  /\ events' = Tail(events)
  /\ IF container = "running" /\ joined # {}
     THEN /\ stored' = joined
          /\ IF stored = None THEN UNCHANGED <<byEndpoint, valid>> ELSE NetworksChanged(joined)
     ELSE UNCHANGED <<stored, byEndpoint, valid>>
  /\ UNCHANGED <<container, joined, joins, hookVars, up, crashes, known, registering, initVars,
                 serverVars, deact, hasty>>

HandleDisconnected ==
  /\ Handling("disconnect")
  /\ events' = Tail(events)
  /\ IF stored = None THEN UNCHANGED <<stored, byEndpoint, valid>>
     ELSE LET current == stored \ {Head(events).n} IN
          stored' = current /\ NetworksChanged(current)
  /\ UNCHANGED <<container, joined, joins, hookVars, up, crashes, known, registering, initVars,
                 serverVars, deact, hasty>>

\* Mutation: the initialisation is not waited for.
CancelOnly == cancelled' = (init # "none") /\ deact' = "shutdown"

\* DeactivateAndCleanup: nothing is there to cancel before Init was called.
Cancel ==
  IF init = "done" THEN deact' = "shutdown" /\ UNCHANGED cancelled
  ELSE deact' = "waiting" /\ cancelled' = (init # "none")

\* handleContainersRemoved, for a container that was stored.
HandleDied ==
  /\ Handling("die")
  /\ events' = Tail(events)
  /\ stored' = None
  /\ IF stored # None /\ known
     THEN known' = FALSE /\ Cancel
     ELSE UNCHANGED <<known, deact, cancelled>>
  /\ UNCHANGED <<container, joined, joins, hookVars, up, crashes, byEndpoint, registering, valid,
                 activation, init, links, initErr, serverVars, hasty>>

DeactivationWaited ==
  /\ up /\ deact = "waiting" /\ init = "done"
  /\ deact' = "shutdown"
  /\ UNCHANGED <<dockerVars, hookVars, pluginVars, valid, initVars, serverVars, hasty>>

\* UDP, then TCP; a server whose goroutine has not begun cannot be shut down, which
\* ends the clean-up.
Shutdown ==
  /\ up /\ deact = "shutdown"
  /\ \/ /\ listening \subseteq serving
        /\ listening' = {} /\ serving' = {} /\ deact' = "done"
     \/ /\ ~ listening \subseteq serving \/ "shutdown" \in Faults
        /\ \/ UNCHANGED <<listening, serving>>
           \/ /\ "udp" \in serving
              /\ listening' = listening \ {"udp"} /\ serving' = serving \ {"udp"}
        /\ deact' = "failed"
  /\ UNCHANGED <<dockerVars, hookVars, pluginVars, valid, initVars, rules, hasty>>

-----------------------------------------------------------------------------
(* The plugin's crash and start.                                           *)

Crash ==
  /\ up /\ crashes < MaxCrashes /\ crashes' = crashes + 1
  /\ up' = FALSE
  /\ events' = <<>>
  /\ stored' = None /\ known' = FALSE
  /\ byEndpoint' = {} /\ registering' = [n \in Networks |-> "no"] /\ valid' = {}
  /\ activation' = "none" /\ init' = "none" /\ links' = {}
  /\ initErr' = FALSE /\ cancelled' = FALSE
  /\ listening' = {} /\ serving' = {}
  /\ rules' = IF rules = "docker" THEN "docker" ELSE "dead"
  /\ deact' = "none" /\ hasty' = {}
  /\ UNCHANGED <<container, joined, joins, hookVars>>

\* Docker's containers are stored, and injectNameserverIntoAlreadyRunningContainers.
Start ==
  /\ ~up /\ container # "starting"
  /\ up' = TRUE
  /\ IF container = "running" /\ joined # {}
     THEN /\ stored' = joined /\ NewNameserver
          /\ registering' = [n \in Networks |-> IF n \in joined THEN "inject" ELSE "no"]
     ELSE UNCHANGED <<stored, known, activation, sandboxFile, registering>>
  /\ UNCHANGED <<dockerVars, hook, isHookAvailable, readyFile, crashes, byEndpoint, valid, init,
                 links, initErr, cancelled, serverVars, deact, hasty>>

-----------------------------------------------------------------------------
Init ==
  /\ container = "none" /\ joined = {} /\ joins = 0 /\ events = <<>>
  /\ hook = "none" /\ isHookAvailable \in BOOLEAN
  /\ sandboxFile = FALSE /\ readyFile = FALSE
  /\ rules = "docker"
  /\ up = TRUE /\ crashes = 0
  /\ stored = None /\ known = FALSE
  /\ byEndpoint = {} /\ registering = [n \in Networks |-> "no"] /\ valid = {}
  /\ activation = "none" /\ init = "none" /\ links = {}
  /\ initErr = FALSE /\ cancelled = FALSE
  /\ listening = {} /\ serving = {}
  /\ deact = "none" /\ hasty = {}

Initialise ==
  \/ SetNamespace \/ StartDNSServer \/ ReplaceDNATSNATRules \/ ListLinks \/ AddFoundNetwork

HandleEvent ==
  \/ HandleConnected \/ HandleDisconnected \/ HandleDied
  \/ DeactivationWaited \/ Shutdown

Next ==
  \/ \E n \in Networks : Join(n) \/ Leave(n)
  \/ Stop
  \/ HookStarts \/ HookFindsFile \/ HookTimeout
  \/ CallInit \/ ActivationFinished \/ Initialise
  \/ \E n \in Networks : Register(n)
  \/ \E server \in Servers : Serve(server)
  \/ HandleEvent
  \/ Crash \/ Start

Spec == Init /\ [][Next]_vars

\* Goroutines that are not blocked go on.
FairSpec ==
  /\ Spec
  /\ WF_vars(CallInit) /\ WF_vars(ActivationFinished) /\ WF_vars(Initialise)
  /\ WF_vars(HandleEvent)
  /\ \A server \in Servers : WF_vars(Serve(server))
  /\ \A n \in Networks : WF_vars(Register(n))

-----------------------------------------------------------------------------
(* Properties.                                                             *)

\* Once the activation reports success, which is what the hook waits for, queries go to
\* servers of the plugin that runs, until the container's removal: also when
\* the rules of a crashed plugin were there.
ActiveMeansServed ==
  activation = "finished" /\ ~initErr /\ deact = "none" =>
    rules = "ours" /\ listening = Servers

\* All that the goroutines and the events had to do is done.
Quiet ==
  /\ up /\ container = "running" /\ events = <<>> /\ deact = "none"
  /\ activation = "finished" /\ ~initErr
  /\ \A n \in Networks : registering[n] = "no"

\* A container finds names in all networks it is in, and in none that it left, whatever
\* order Docker's calls, their events and the goroutines come in: the late event of an
\* old disconnection takes no network away for good, and what is registered late comes
\* back only when the nameserver was still being set up when the container left.
ValidFollowsJoined == Quiet => joined \subseteq valid /\ valid \subseteq joined \cup hasty

\* A deactivation that succeeded leaves no server behind.
NoServerLeft == deact = "done" => listening = {}

\* What is cancelled ends: "Wait blocks until the initialization is complete or the
\* context is canceled" (init_manager.go:58).
CancelledWaitEnds == deact = "waiting" /\ cancelled ~> deact # "waiting"
=============================================================================
