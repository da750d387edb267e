# A verification of FlannelNetworkPlugin

These modules model the Docker network plugin whose Go source is under `src/`.
TLC checks the models on small instances, TLAPS proves what matters most for
every size.  Paths below are relative to `src/plugin/pkg/` unless they start
with `src/`.

## The system

One plugin process runs on every node of a Docker swarm.  The processes share
nothing but an etcd cluster; each talks to its local Docker engine.  A *flannel
network* gets a subnet of the global address space; every node gets a host
subnet of it from flanneld, and hands out addresses of that host subnet.

| component | state | operations | made correct by |
|---|---|---|---|
| global address space (`ipam/address_space*.go`) | etcd key per subnet; per node `pools` and the list `unusedSubnets` | GetNewOrExistingPool, ReleasePool, the watch, the first load | a subnet has one network; a network has one subnet on all nodes; no subnet is lost |
| address pool (`ipam/pool*.go`) | etcd keys per address (type, mac, service-id); `allocatedIPs`, `unusedIPs` | ReserveIP, AllocateContainerIP, AllocateServiceVIP, ReleaseIP, ReleaseIPIfReserved, ReleaseAllIPs | an address has one holder at a time; who runs with an address owns it; allocation comes to an end |
| arithmetic (`ipam/util.go`) | none | subnets, next address, last reserved address | agrees with a definition by sets of addresses |
| driver (`driver/*.go`) | networks, services, nameservers by ID | Docker's IPAM and network calls; handlers of the stores' events | one network object per ID; every event handled; nothing kept for what is gone |
| flannel network (`flannel_network/*.go`) | flanneld process, flannel's and its own etcd keys, endpoints | Init, Delete, Ensure, endpoint create/join/leave/delete | at most one flanneld per network; endpoints survive restarts |
| load balancers (`service_lb/service_lbs_management.go`, `common/service.go`, `common/event.go`) | load balancers per service and network, stored VIPs, the services' events | create, update, delete; add and remove backends | every vip service gets one; none for other services; VIPs neither leak nor are lost |
| fwmarks (`service_lb/fwmarks.go`) | two etcd keys per mark | Get, Release, clean-up | a mark has one service |
| nameserver and hook (`dns/server.go`, `src/hook/main.go`) | per sandbox: servers, valid networks, the rules that lead to them, the files of the hook | activate, add/remove networks, deactivate | no deadlock; the hook is always answered or gives up |
| resolver (`dns/resolver.go`) | networks, services, containers by name | add/update/remove, resolve | answers only what exists, in the documented order |
| stores (`etcd/*store.go`) | memory, local and remote shards, etcd | init, sync, watch, add/update/delete | memory and the handlers' view follow etcd |
| Docker data (`docker/*.go`) | the three stores | init, sync, events | the stores follow Docker |
| etcd client, helpers, kernel networking, HTTP API | little or none | | |

How they interact: Docker calls the driver over HTTP (concurrently).  Docker
events and etcd watches change the stores; the stores call the driver's
handlers, which call the address space, the networks, the load balancers, the
resolver and the nameservers.  A network owns its address pool.

What is hard: requests, store events and other nodes' transactions interleave;
memory is a copy of etcd that may be stale; an etcd call has a timeout of five
seconds, after which nobody knows whether it was executed; the plugin can be
killed anywhere; Docker releases an IPAM address through another node than the
one that uses it.  `PROJECT.json` lists each hazard at its line.

## The modules

| module | models | role |
|---|---|---|
| `IpLedger` | - | what a pool promises, and the list of the marks: who owns which address or mark |
| `AddressPool` | `ipam/pool.go`, `pool_etcd.go`, their callers | one network's pool on one node |
| `AddressPoolProofs` | | its theorems |
| `SubnetLedger` | - | what the address space promises: which network owns which subnet |
| `AddressSpace` | `ipam/address_space.go`, `address_space_etcd.go`, their callers | all nodes and etcd |
| `AddressSpaceProofs` | | its theorems |
| `ServiceLb` | `service_lb/service_lbs_management.go`, `common/service.go`, `common/event.go`, the driver's handlers | the load balancers of one service on one node, and their locks |
| `ServiceLbProofs` | | its theorems |
| `Fwmarks` | `service_lb/fwmarks.go`, `network_specific_service_lb.go`, `CleanUpStaleLoadBalancers` | the marks of several services, in etcd and in the kernel |
| `FwmarksProofs` | | its theorems |
| `ContainerData` | `etcd/sharded_distributed_store.go`, `docker/containers.go`, `data.go`, `events.go`, the containers of `dns/resolver.go` | containers, from Docker to the resolvers of all nodes |
| `ContainerDataProofs` | | its theorems |
| `Nameserver` | `dns/server.go`, `common/init_manager.go`, `src/hook/main.go`, the driver's `Join`, `Leave` and container events | one sandbox's nameserver |
| `NameserverProofs` | | its theorems |
| `FlannelNetwork` | `flannel_network/network.go`, `endpoint.go`, `bridge/*.go`, `common/dualkey_concurrent_map.go`, the driver's networks | one network on one node: flanneld, configuration, interfaces, endpoints |
| `FlannelNetworkProofs`, `FlannelEndpointsProofs` | | its theorems |

`MCAddressPool` and so on instantiate them for TLC (symmetry, sets of faults).

How they fit together.  `AddressSpace` gives a network its subnet, `FlannelNetwork`
its flanneld and its place in the driver's map, `AddressPool` its addresses.
`ContainerData` is where the container events come from that `AddressPool`,
`ServiceLb` and `Nameserver` react to.  `ServiceLb` and `Fwmarks` look at the same
code twice: `ServiceLb` at the goroutines of one service and their locks,
without failures; `Fwmarks` takes the mutex for granted and looks at several
services, failures and restarts.  The modules are not conjoined: each has its
neighbours as an environment that may do what the code lets them do.

### AddressPool

State.  `key`, `macKey` and `serviceIDKey` are the etcd keys
`allocated-ips/<ip>`, `.../mac` and `.../service-id`; `allocatedIPs` and
`unusedIPs` the maps of `etcdPool`, where the time an address became unused is
reduced to whether five minutes have passed; `request` is the `allocateFreeIP`
loop in progress, which holds the pool's lock, so that no other operation is
enabled meanwhile.  `ipam`, `actual` and `announced` are Docker's side: the
address the swarm allocator set aside for a task or service, the address it
runs with on this node, and the IPAM addresses that `handleContainersAdded`
still has to release.

Actions.  A call that is one etcd transaction is one action with one disjunct
per outcome (executed, refused, failed, executed with the answer lost).  The
loop of `allocateFreeIP` is one action per turn.  The plugin can be killed in
every state; `Start` is `NewEtcdBasedAddressPool` with the clean-up of
`network.Init`.

Three things of the code shape the module.  The watch on `allocated-ips` has no
action, because `WithConnection` closes its connection right after `Watch`
returned (`ipam/pool.go:329`, `etcd/connection.go:51`).  A refused release of a
key that is gone indexes an empty result and panics (`ipam/pool_etcd.go:91`):
in an HTTP handler the panic is recovered, in an event handler it ends the
process, which `Crash` covers.  The random choice among the unused addresses is
any choice.

Assumed of Docker: a task is placed once; a network is removed only when no
task or service is left on it; a service has one VIP per network.

### AddressSpace

State.  `reservedFor` is etcd; `pools`, `unusedSubnets` and `op` (the
`getOrAddPool` that holds the lock) are a node's; `watch` the reservations that
a node's watch has still to deliver, in the order etcd executed them.
`changes` counts how often Docker created (odd) or deleted (even) a network and
`handled` how many of these a node has handled, so that nodes lag behind
Docker and behind each other.

Actions.  `RequestPool` and `NetworkAdded` start a search or find the pool,
`Turn` is one pass of the loop in `getOrAddPool`, `NetworkRemoved` is
`ReleasePool`, `SubnetUsageChanged` the PUT branch of the watch's handler.  The
DELETE branch looks up the empty value of a deletion and does nothing, so it
has no action.  `Load` and `StartWatch` are two steps: what happens in between
is not delivered.

### ServiceLb

State.  `service` is the service object, `hasLbs`, `lbs` and `stored` the
management's `loadBalancers` and `loadBalancersData` for it, `owned` what the
networks' pools have allocated to it, `subs` how many handlers each of its
events has.  `calls` are the goroutines of `createOrUpdateLoadBalancer`, each
with the part of `serviceInfo` it read; `services` is where the goroutine of the
services' store is (in `SetNetworks`, in `DeleteLoadBalancer`), `raising` the
container event the containers' goroutine is raising.  `m` is the mutex; that
an event's lock is held while it is raised follows from `raising` and
`services`, that the lock of `networksChanged` is held from `calls`.

Actions.  `SetEndpointMode`, `SetNetworks` and `SetIpamVIPs` are
`handleServicesAdded` and `handleServicesChanged`; `SetNetworks` replaces two
fields that `GetInfo` reads without a lock, hence two actions there and two
(`Start`, `Read`) in a call.  `Check` and `Wait` are the wait for networks,
`Ensure` and `Publish` the two halves of what a call does with the mutex, so
that networks may go in between; `Subscribe` is one subscription.  `Delete`,
`Unsubscribe` and `Dismantle` are `DeleteLoadBalancer`.  Errors that come from
the order of things end a call where the code returns; errors of etcd and of
the kernel are left out, and so is the sharing of the mutex between services.

`Hasty` says whether Docker's changes wait for the node.  In `lb_calm` they do,
and everything agrees; the theorems of `ServiceLbProofs` say so for every instance.
`lb_hasty.cfg` is the same instance with `Hasty = TRUE`;
there TLC refutes each of its invariants, in ways the code's own messages call
bugs:

- `GetInfo` reads the new networks and the old IPAM VIPs, so that a VIP has no
  load balancer (`service_lbs_management.go:387`), after others were put up and
  before anything was stored: `VipsAgree`.
- A call that was on its way when the service was removed puts a load balancer up again, on
  the VIP that is still stored and no longer allocated: `FrontendOwned`.
- A call waits for the networks the service has now and goes on with those it
  had before (`:312`): `NetworksKnown`.
- The mode changes before the handler of that event is subscribed, and the
  service in mode dnsrr keeps its load balancer, against `common/service.go:27`:
  `OnlyForVip`.
- A call that read the VIPs while the mode was dnsrr stores that there are none, while load
  balancers that another call put up stay; the next call gives them other VIPs (`:387`):
  `FrontendStable`, in `lb_flips.cfg`.  It takes four changes and three calls at a time.

What is left in haste is `FrontendOwned`, as long as the service keeps its networks
(`FrontendsOwnedInHaste`).

### Fwmarks

State.  `byService` and `list` are the two keys of a mark in etcd.  `announced`,
`pending`, `lbs` are the plugin's memory, `op` the creation or deletion that
holds the management's mutex, with the network it is at.  `existing`, `todo` and
`stale` are the locals of `CleanUpStaleLoadBalancers` and `cleanUpStaleFwmarks`,
which hold no lock.  `rules` and `ipvs` are the kernel's: they survive a crash
and not a reboot.  What a load balancer's object knows is less: `frontend` says that its
VIP is set, `ruled` that it has recorded its rules, and neither survives a crash.

Actions.  One per call of etcd in `Get` (`Lookup`, `GenerateFWMARK`, `Commit`),
so that other goroutines come between the list that was read and the transaction;
`UpdateFrontendIP`, `AddBackend`, `RemoveBackend`, and `DeleteInKernel` with
`Release` for each network of a deletion.  Each has its way to fail, with
whatever part of it was done: `FrontendError` may come after the VIP was set and before
the rules were recorded (`network_specific_service_lb.go:259`).  `DropRules` deletes the
rules the object has recorded (`:320`) and not those the kernel has.  The clean-up deletes
key by key.

Assumed: Docker never uses a service's ID twice, and two networks do not draw the
same mark (the code asks only for the marks of its own network).  `Overlap`
says whether services come and go while the start cleans up.  It is `FALSE` in
the run and in the theorems that need it: the clean-up takes the services the driver knew
when it began (`driver/flannel_driver.go`) for all there are, so with an overlap
it deletes the keys of a service that has just come.

Facts of the code that shaped the module: a refused release counts as success,
because `WithMessagef` of no error is no error (`fwmarks.go:148`);
`ReleaseNotRefused` shows that none is refused.  The clean-up keeps one mark per
service (`fwmarks.go:239`), so for a service in several networks it leaves rules and IPVS
services behind; `TrafficStays` exempts what a clean-up dealt with (`swept`).
Besides, the clean-up looks for rules by the mark in eight hexadecimal digits, which a
listed rule has only if its mark needs them all (`service_lbs_management.go:474`): in
`DeleteStaleInKernel` rules may stay.

A rule may outlive its service altogether: the plugin crashes, the creation that follows fails
before it records the rules, the service is removed.  The deletion succeeds, because an
object without rules has none to delete, and gives the mark back.  Another service may draw
it, and then packets to the VIP of the service that is gone reach its containers.  So
`TrafficStays` speaks of the VIPs of services that are not gone (`Gone`): those that
somebody uses.

### ContainerData

State.  `docker` is the truth; `events`, `inspected`, `listed` and `memory` belong
to the node that runs the containers (the owner of the shard), `etcd` is the
shard, `view`, `watch` and `snapshot` belong to the readers, `table` is what each
node's resolver knows.  All containers answer to one name in all networks, the
case in which `ResolveName` has to tell them apart.  It is given the order in which it looks
at the asker's networks, and whether `dockerCompatibilityMode` is set, in which it stops at the first
that has an answer (`dns/resolver.go:235`); `NamesResolve` is about both modes and about every
order, because the code's sort compares the names of other elements than those it moves
(`:223`).  Left out: a name of several parts, the last of which may be a network's.

Actions.  Docker starts, connects, disconnects and stops containers; the owner
handles the events one by one and asks Docker for the present state when it
does (`Inspect`, then `Store`); `List`, `Sync` and `Announce` are its start,
`Load`, `Watch`, `TakeSnapshot` and `AnnounceSnapshot` a reader's.  The first
start stores nothing in etcd, because a shard that is not there is not
synced (`sharded_distributed_store.go:221`).

The code has no second way to learn what it missed, so that any statement about all
containers would be false.  `missed` notes, per node, the containers that one
of the following happened to since its start: an event with no subscription,
a subscription that broke (`docker/events.go:15`), a list or an inspection that
failed (`docker/containers.go:21`), a write that failed after the memory was set, a
change between a reader's load and its watch, or one handled between the
reader's snapshot and its announcement.  The properties are about the others:
there the present state that `Inspect` reads and the past that events tell
come out right.

### Nameserver

State.  `container`, `joined` and `events` are Docker's; `hook`, the two files and
`rules` are the sandbox's, and survive a crash of the plugin.  `activation`,
`init`, `registering` and `deact` say where the goroutines are: that of
`Activate`, that of `InitManager`, those which wait for the result to note an
endpoint, and `DeactivateAndCleanup`, which keeps the nameserver's lock while it
waits.  `valid` is `validNetworkIDs`.

Actions.  `Join`, `Leave` and the three event handlers change `valid`, and so do
`AddFoundNetwork` (from the interfaces found in the sandbox) and `Register`
(after a restart).  Each step of the initialisation can fail; the ready file is
written all the same.  `Crash` and `Start` are a restart of the plugin, after
which `injectNameserverIntoAlreadyRunningContainers` takes over.

`ValidFollowsJoined` allows a network that was left before the nameserver was done
with it (`hasty`): what the initialisation lists, or a goroutine adds, may be late.
`CancelledWaitEnds` is false: `Wait` ignores the context that
`InitManager` promises to look at (`init_manager.go:58`), and the initialisation
cannot be cancelled once it adds networks, for which it needs the lock that
`DeactivateAndCleanup` has.  `nameserver_wait.cfg` shows the two waiting for each
other.

### FlannelNetwork

State.  `task` says what the two threads do that create and remove the network:
Docker's calls, under the driver's mutex, and the events of the networks' store.
`cleaner` is the goroutine of `Init`, with what `CleanupStaleNetworks` has in its locals; `events`
what the store has still to announce.
`byFlannel` and `byDocker` are the driver's map with two keys, `object` the
network objects, `processes` the flannelds, `config` and `record` etcd (the
network's configuration, shared by all nodes, and the node's endpoints), `links`,
`bridge` and `veths` the kernel.  `loaded` says whether the plugin has Docker's data, `ready`
whether it answers Docker's calls.

Actions.  A creation goes from `NewNetwork` over the configuration (`ReadConfig`,
`CommitConfig`, `RereadConfig`), `StartFlannel`, `LoadFlannelConfig` and the
endpoints (`LoadEndpoints`, `Reconcile`) to `Created`, a removal from
`HandleNetworkRemoved` to `RemoveNetwork`; every step may fail and leave what it
did.  `CreateEndpoint`, `Join`, `Leave`, `DeleteEndpoint` are Docker's calls;
`LeaveResults` and `DeleteResults` are the outcomes of `endpoint.Leave` and
`Delete`, which reconciling and removal use as well.  `Run` is the end of the container's start,
of which `Join` is a part.

A start is `Start`, `LoadDockerData`, the events that announce the networks and, beside
them and Docker's calls, the clean-up in five steps: `TakeNetworks` (`driver/flannel_driver.go:169`),
`ReadNetworks`, `DeleteStaleData`, `DeleteStaleLinks`, `DeleteStaleBridge`.  It works with the
networks it took, whatever is created meanwhile.  Docker's calls are heard when the clean-up is
over, or after five seconds (`ServeEarly`, `:215`); one that comes before Docker's data is there
finds no container, or no data at all.  `Crash` may be one of the plugin or of the node.
`OtherNode` is what the plugins of other nodes do to the network's data in etcd, their own
clean-ups with an old list included.

What Docker's data has: the containers that run (`Listed`), not those that still start
(`docker/containers.go:49`), and with the fault "docker" not those whose inspection failed, or no
network at all.  A network that is created then deletes the endpoint of a container that has
joined and is not listed.  The fault "twin" is another network with the same VXLAN number, of
which the clean-up's map keeps one (`flannel_network/network.go:714`), so that the other one's bridge
counts as stale; "stale" lets another node clean up with an old list.

Assumed: the goroutine of `Init` and the one that handles Docker's events hand the network
events over one after the other, and none is lost once the data is loaded; the node's own subnet
lease has the configuration's number; an endpoint is used once; a network is
removed when it has no endpoints.  `Overlap` says whether
both threads may be busy with the network at a time.  It is `FALSE` in the run; the clean-up
overlaps with both in any case.  With `TRUE`,
`getOrCreateNetwork` (`driver/flannel_driver.go:299`) checks in both threads before either
creates: `network_twice.cfg`.  Then the map's keys may lead to two networks, and nothing
removes the second one, which refutes `MapsAgree` and `RemovedLeavesNothing`; the other
properties are proved for both values.  A removal that meets such a conflict uses
a network that is nil and ends the plugin: `HandleNetworkRemoved` does then what `Crash` does.

The code does not protect a network against a clean-up that does not know it, nor a container
against a start that does not list it.  History variables name these and the other
exceptions, so that the properties say what holds for the rest:

- `swept`: since the last start a clean-up took the network for stale while this node used it
  (`RegisteredWorks`, `ConfigIsFinal`).
- `overlooked`: the endpoints of containers that a start did not list, or whose network a
  clean-up took for stale (`JoinedHasVeth`).
- `spoilt`: a creation or removal failed since the start: the code does not undo it, e.g.
  `network.go:496` (`RemovedLeavesNothing`).
- `troubled`: a call for the endpoint failed; e.g. after a reboot the pair is gone and `Delete`
  fails for ever (`GoneIsForgotten`).
- `lost`: a pair without a record, left by a crash, a removal or a clean-up (`VethsTracked`).

## The runs

| run | instance | states | shows |
|---|---|---|---|
| `pool_leader` | 2 addresses, 2 containers, 1 service; etcd fails; restarts | 1,137,564 | the pool implements `IpLedger`; memory is a partition; a restart takes no address from a running holder |
| `pool_worker` | 3 addresses, 3 containers, 1 service; etcd answers; restarts | 569 | who runs with an address owns it; memory equals etcd without a watch; allocation ends |
| `space_faults` | 2 nodes, 2 networks, 3 subnets, each network created and deleted once; crashes; etcd fails | 1,425,124 | the space implements `SubnetLedger`; until the first deletion: one subnet per network, no subnet lost, live pools reserved |
| `space_second_subnet` | as above, etcd answers | | finding: one network gets two subnets (`ipam/address_space.go:190`) |
| `lb_calm` | 2 networks, one registered later; 4 changes of every kind, one after the other | 32,121 | frontends, stored and allocated VIPs agree; a load balancer keeps its VIP |
| `lb_mode` | both networks known; 3 changes of mode or removals at any time | 221,615 | a service that stays in mode vip gets a load balancer |
| `lb_networks` | 2 changes of the service's networks at any time; a network registered later; networks deleted; the ingress network | 259,824 | every container event gets the mutex, whatever errors calls end in |
| `lb_removal` | a removal, after the last change | | finding: deletion and a container's event wait for each other (`driver/flannel_driver.go:504`) |
| `marks` | 2 services, 1 network, 2 marks, 2 starts or updates; everything fails | 755,533 | a load balancer's mark is registered; no release is refused; packets to a service that is not gone reach no other service's containers; the mutex is released |
| `store` | 1 container, 2 networks, 2 addresses, 1 reader; 3 changes, 1 crash; everything fails | 1,524,271 | memory, etcd and the names of the owner follow Docker, in both modes of the resolver, the reader's names follow etcd, a stopped container is forgotten by all nodes |
| `nameserver` | 2 networks, 3 joins, 1 crash; everything fails | 2,516,060 | an active nameserver serves the sandbox; its networks are the container's; a deactivation leaves no server |
| `network` | 2 objects, 1 endpoint, 1 pair of interfaces, 2 VNIs, 3 calls, changes, crashes, reboots or steps of other nodes; everything fails | 3,649,348 | with the clean-up beside everything else: a network that is found works; the map's keys agree; joined containers keep their interfaces; nothing is leaked, nothing is left |

"Everything fails" means all that the module's `Faults` can name.

Further configurations, for `tlc` by hand:

| configuration | module | result |
|---|---|---|
| `pool_reliable.cfg` | `MCAddressPool` | passes: on the leader's node too, memory equals etcd and allocation ends while etcd answers |
| `pool_docker_trumps.cfg` | `MCAddressPool` | violates `LiveAddressOwned`: on the leader's node the second `ReleaseAddress` for one task frees another task's live address, against `src/README.md:132` |
| `space_request.cfg` | `MCAddressSpace` | passes: a search for a subnet ends (`PoolRequestEnds`) |
| `lb_waits.cfg` | `MCServiceLb` | violates `WaitsForMissing`: a lost wake-up (`service_lbs_management.go:291`) |
| `lb_hasty.cfg` | `MCServiceLb` | violates each of its invariants: changes that do not wait for each other |
| `lb_flips.cfg` | `MCServiceLb` | violates `FrontendStable`: four changes of the mode, with three calls on their way |
| `network_twice.cfg` | `MCFlannelNetwork` | violates `OneFlanneld`: two flannelds for one network, against `src/README.md:139` |
| `nameserver_wait.cfg` | `MCNameserver` | violates `CancelledWaitEnds`: a cancelled wait that never ends, against `init_manager.go:58` |

Bounds.  Two addresses for three holders (`pool_leader`) make the pool run out and make
every address change hands; a third address in `pool_worker` lets a holder be
given an address by preference while the others compete.  Two nodes are enough
for a race, a missed reservation and a lost answer; three subnets for two
networks leave one over, without which a second subnet could not be taken.
`MaxChanges` bounds the histories: two changes let a network come and go while
the other one stays.  In `ServiceLb` two calls at a time are enough for one to
overtake another; a change waits while both are busy.  Four changes let a
service leave a network and come back, or change its mode there and back, and
be removed.  In `Fwmarks` two services compete for two marks, so a mark that is freed
too early or left behind is met again; two turns are a restart, or an update of a
service that has load balancers.  In `ContainerData` one container in two networks
with two addresses can move, be renumbered, stop and start within three changes,
around one crash of either node.  In `Nameserver` three joins for two networks let one be
left and joined again.  In `FlannelNetwork` two objects and processes let an orphan and
its successor exist and two VNIs let the nodes disagree.  One counter, `MaxOutside`,
bounds what comes from outside: three let a restart fail and be repeated after a call,
or another node clean up between two of them.  The endpoint goes its whole way once; that two
endpoints do not disturb each other is left to the proofs (`Distinct`).  Deadlock is not checked in the runs: a system that nobody asks for
anything rests, and so does one whose changes are used up.

Fairness.  `AddressPool!FairSpec` and `AddressSpace!FairSpec` assume that a
goroutine that runs a loop gets on with it (weak fairness of the loop's turns);
nothing is assumed of Docker, the other nodes, the watch or etcd.
`ServiceLb!FairSpec` assumes it of the goroutines of the services' store, of
each call and of the containers' store, and that each network is registered at
some time; changes and containers' comings and goings need not happen.  The
mutex is only contended by finitely many calls, so weak fairness is enough.
`Fwmarks!FairSpec` assumes it of the goroutine that holds the mutex,
`ContainerData!FairSpec` of each node's handling of its start and its events
(Docker restarts a plugin that exits), `Nameserver!FairSpec` of each goroutine.  In
`AddressPool` fairness leaves out one behaviour: that `allocateFreeIP` picks, at
random and for ever, addresses that others have taken in etcd without the
memory knowing.  A turn that finds its address taken changes nothing and so is
not a step; `AllocationEnds` is checked where memory equals etcd.  `MutexReleased`
has no such gap: a mark that was taken meanwhile sends `Get` back to read the list.

Each property has a mutant in `PROJECT.json`: a plausible bug in a mapped
definition that makes the property fail in its run.

## The proofs

Each theorem is for every value of the constants, from the named assumption of its
module: the types and distinctness of the constants, and where a proof needs it that
`Networks`, `Containers` or `Calls` is finite or `Vips` not empty.  Every invariant
and every action property of a passing run is a theorem.  What a theorem assumes
besides is said below; the constants of its run satisfy it.

In all of them a few invariants are proved together and the property follows from
them.  The property alone is not inductive: what follows says what had to be added,
and why.

### AddressPoolProofs

- `TypeCorrect`, `EtcdStaysWellFormed`: the mac and service-id keys fit the type.  It is
  what makes `CanRelease` mean "etcd holds what memory holds".
- `PoolImplementsLedger`: every step of the pool is a step of `IpLedger` or
  stutters, by refinement under `owner <- [ip \in IPs |-> Owner(ip)]`.  It needs the
  well-formedness: only then a condition on two keys says who the owner is.
- `RestartIsSafe`, `MemoryStaysPartitioned`.
- `MemoryStaysEtcd`, while etcd answers: a change of the memory and the transaction
  before it put the same value there.  With the well-formedness a release that memory
  takes for possible is one that etcd executes.
- `WorkerAddressesOwned`, for a node that is not the allocator's, with an etcd that
  fails or not: needs that no IPAM address is of this pool and that memory
  knows an address as a holder's only if etcd does or nobody runs with it.
  `WorkerAddressesUnique` is what it is good for: no two local holders run with one
  address.
- `AllocationsSucceed`, while etcd answers: what is on offer can be allocated, so that no turn
  of `allocateFreeIP` ends on an address that is taken.

### AddressSpaceProofs

- `TypeCorrect`; `SpaceImplementsLedger`: with any number of nodes, a subnet is taken when
  free and given back only after a network was deleted that owned it.
- `LivePoolsStayReserved`, `OneSubnet`, `SubnetsKept`: the inductive invariant
  says that, before the first deletion, every node's list is ordered, offers
  every subnet that is free, and what stands before a reserved subnet is
  reserved as well.  So all nodes run into a network's reservation before they
  reach a free subnet.  `NetworksGetTheirOwnSubnets` follows from the first: networks
  that were never deleted have different subnets, whatever two nodes miss of each other.
- `RequestsRunOut`, an action property: a turn of `getOrAddPool` that goes on takes a
  subnet off its node's list, to which nobody adds one meanwhile.  The list is finite, so
  that every request is over after as many turns, also for lists longer than that of
  `space_request.cfg`.

### ServiceLbProofs

- `TypeCorrect`, whatever the order of things.  That numbers of subscriptions stay natural
  needs `Subscribed` (an unsubscriber finds a subscription to every event, as each call
  subscribes to one after the other), and that needs `Held`: the mutex is held by whoever
  is in a critical section.
- `FrontendsOwned`, `VipsStayAgreed`, `FrontendsStable`, `CalmKeepsPromises`, when each
  change comes after the last one is dealt with (`~Hasty`).  The inductive invariant is
  `Steady`.  `Calm` says that there is one call at most, and what of the last version the
  service object has at each step of the services' goroutine; `UpToDate`, that what a
  call read is still so.  `Serving` says at each step which load balancers the service has
  and which VIPs are stored; `Agreed`, that these and the allocated ones are the same but
  for what the call with the mutex has still to store.
- `VipsStayAgreed` needs `~Preferred` too: where the service's IPAM VIP is an address of the
  node's pool, the load balancer gets it, and `ReleasesVip` leaves it allocated.
- `FrontendsOwnedInHaste`, which has no run of its own: changes of the mode, a removal and deletions of networks come
  at any time.  `Fixed` says that all calls have the same networks; `Owning`, that a stored VIP
  is allocated until a network of the service is gone, and that after that no call
  passes the check that stands before the load balancers are put up.

### FwmarksProofs

- `TypeCorrect` needs where the creation and the deletion are (`CreationGoesOn`,
  `DeletionGoesOn`).
- `RegisteredMarks`, `NoReleaseRefused`, without `Overlap`.  The inductive invariant `Safe`
  adds that the two keys agree for every service that is or will be known (`KeysAgree`),
  that a deletion has registered marks of a service that nobody will know again
  (`DeletionHolds`), that the node knows what Docker has unless it is down
  (`KnownServices`), and that the clean-up's list has no key of those (`CleanupSpares`).
- `PacketsStay`, with `Overlap` or without.  `OnlyHolderUses` says that who uses a mark in the
  kernel, in etcd or in memory is on the mark's list, but for rules of a service that is
  gone; `KernelFirst`, that a deletion gives a
  mark back after the kernel has no backends for it.  Services that come and go during a
  clean-up do no harm here, since the marks it frees are those excepted.
- `NoMarkIsShared`, from `OnlyHolderUses`, and `NoKnownMarkIsShared`, from `RegisteredMarks`:
  the same without an exception, as long as nothing overlaps.
- `MarksImplementLedger`, with `Overlap` or without: the lists of the marks in etcd implement
  the ledger that the address pools implement (`IpLedger`, with marks of networks for
  addresses and services for owners).  That a mark is free before it has another service
  is the work of the two checks in `Get` and of the condition in `Release`; a clean-up frees
  many at once.

### ContainerDataProofs

- `TypeCorrect`.
- `MemoryIsDockers`, `NamesAreDockers`, `EtcdIsMemory`, from `OwnerInv`.  Docker is asked about
  the present, the events are of the past, so while events are queued the memory
  may be ahead of some and behind others.  `Queued` says what is true all the same: an event
  that takes a network from a container which is in it now has one behind it that gives
  it back; where the memory has too much or too little, an event is in the queue
  that mends it.  `Tabled` says the same of the resolver's table.  An empty queue gives the
  properties; `OwnerAddresses` takes it from the table to the addresses in each network, from
  which both modes of `ResolveName` follow.
- `ReadersAreEtcds`, from `ReadersInv`: the last change of a container that the watch has to
  deliver is what etcd has (`Brings`), and the table has the networks of the reader's copy, all of
  them once they are announced.
- `ReadersAreDockers` puts the three together, end to end: when all is delivered, another node
  has a container in the networks that Docker has it in, and in no others.

### NameserverProofs

- `TypeCorrect`.
- `ActivationServes`, `CleanupLeavesNoServer`: `LifeInv` says that a sandbox has one nameserver,
  whose deactivation comes after the container's end; `StageInv`, what each stage of the
  initialisation finds done, and that the clean-up waits for the last one.
- `NetworksFollow`: `KeptInv` bounds what goroutines are about to add; `MissingInv` says that a
  joined network in which names are not found is to be added by the injection or by an event in
  the queue, with no disconnection behind it.

### FlannelNetworkProofs, FlannelEndpointsProofs

With `Overlap` or without, but for `MapsStayAgreed` and `RemovalIsComplete`, which are false
with it; always with the clean-up beside everything else.

- `TypeCorrect`.  `Structure`, proved with it, says that the threads work on different objects,
  that the map does not lead to one that is being created, and that a removal
  concerns the network under Docker's key.  Both threads may create a network, and the map's
  keys may lead to two; a removal that meets that takes the plugin down.
- `RegisteredNetworksWork`.  `Lifecycle` says which of Docker's events are still to come and
  when the clean-up has read what; `Alive`, that whatever the map leads to,
  and what each creation has reached, works, until the network is swept.  The hard
  case is the configuration: a removal that comes late must not delete that of the network Docker
  has now.  `ConfigIsFinal` says so as an action property.
- `MapsStayAgreed`, without `Overlap`.  `Apart` says that one thread at a time has a task and that
  the map is empty while a network is being created.
- `RemovalIsComplete`, without `Overlap`.  `RemovalOrder` says that what exists or is being
  created when Docker has removed the network has the removal's event behind it; `Accounted`,
  that as long as nothing failed every flanneld and the bridge belong to a network of the map or
  of a task, or the clean-up has still to take the bridge, so that nothing is left in the end.
- `JoinedKeepsVeth`.  `Joined` says that what the network that is found, and each creation behind
  its reload, has in memory of a joined endpoint that was not overlooked is its record; `Distinct` that no two endpoints
  share a pair, so that the deletion of a stale one takes nothing from a container that runs.
  With two keys that lead to two networks, calls and events both find that of Docker's
  key, and it is the one the invariants are about (`Working`): while a call for an
  endpoint is answered no network is being created (`CallsAlone`), because the event that
  would create one finds Docker's key.
- `ContainersKeepTheirInterfaces`, an action property: `JoinedKeepsVeth` would allow another
  pair after each step.
- `VethsStayTracked`, `EndedIsForgotten`, which need each other: what is deleted from memory
  was that of the record (`Traced`), an object knows nothing of an endpoint before it
  reconciled it, and there is no network before Docker's calls are heard or its data is there
  (`Untouched`), and what it reconciled is forgotten when the endpoint ended
  (`Forgotten`).

### Only model-checked

The liveness properties, which are out of the provers' reach: `AllocationEnds`,
`LoadBalancerComes`, `EventsHandled`, `MutexReleased` and `StoppedIsForgotten`, and
`PoolRequestEnds` beside the runs.  A part of their safety half is proved: `AllocationsSucceed`
and `RequestsRunOut`.  TLC's
refutations (`space_second_subnet`, `lb_removal` and the further configurations) need no
proof.

## What the code does that a reader may not expect

Met while modelling, part of the models, and stated by no property that holds:

- A container's address that changes while it stays in a network is not updated in the resolver
  (`dns/resolver.go:163`).
- `Activate` writes the ready file after an error as well, so that the hook lets the
  container start (`dns/server.go`); `Cancel` before `Init` does nothing.
- A sandbox file that cannot be written (`dns/server.go:71`) leaves `Join` without a nameserver,
  which it uses all the same (`driver/network.go:122`): the panic is recovered by the HTTP server.
  The model has the writing of that file always succeed.
- A server whose goroutine has not begun cannot be shut down, which ends the
  clean-up of a nameserver with its sockets open; a container that dies before it
  was stored never has its nameserver deactivated.
- A flanneld that takes too long to start is given up but not ended
  (`flannel_network/network.go:496`); a failed `loadEndpointsFromEtcd` drops the
  object and leaves its flanneld running.
- An endpoint whose record could not be written keeps a memory that etcd does not
  have, and every later `Delete` is refused.
- The network's removal looks for the interface by the VNI this node proposed, which
  is not the configuration's when another node was first.

## Plan

All modules are written.  Every invariant and every action property of a passing run is
proved, what the two ledgers give their users is proved of the users (`WorkerAddressesUnique`,
`NetworksGetTheirOwnSubnets`, `NoMarkIsShared`), and the theorems of `FlannelNetwork` and
`Fwmarks` that hold with `Overlap` are proved with it.  Left, in this order:

1. `Fwmarks`: `RegisteredMarks` with `Overlap`, for the services that did not come or go
   during the clean-up.
2. `ServiceLb`: which of the promises hold in haste from when the last change is dealt with.
3. `FlannelNetwork`: what is left with `Overlap` when a removal is over; a second flanneld
   at least, as `network_twice.cfg` shows.

## Not modelled

- The arithmetic of `ipam/util.go`: pure functions, whose results the models take
  as constants.
- The resolver's tables of networks and services and the candidates of a qualified
  name: one table per handler, changed by one goroutine each, whose interesting part is the
  matching of strings.
- `ReadOnlyStore` and `WriteOnlyStore`: the reading and the writing half of the sharded
  store, which is modelled; `Sync` with its handlers is never called.
- The forwarding of DNS queries (`ServeDNS`) keeps no state.
- In `ServiceLb`, failures of etcd and the kernel, and the load balancer of the ingress
  network.
- In `FlannelNetwork`, a flanneld that dies by itself, which nothing in the code
  notices, and a pair of interfaces that could neither be attached to the bridge nor be deleted
  after that (`bridge/veth.go:67`).
- Netlink, iptables and ipvs as such, the HTTP API, the reading of the environment and
  logging: I/O without state of its own.
