# A TLA+ model of flannel-rust

flannel gives every node of a Kubernetes cluster a subnet for its pods and
makes the nodes reach each other's subnets. This directory holds TLA+ modules
translated from the Rust source (`src/crates/...`; below, paths without a crate
are under `src/crates/flannel-core/src/`), TLC configurations that check them
on small instances, and proofs checked by TLAPS. `PROJECT.json` maps every
definition to the lines it stands for and lists components, hazards, runs,
findings and theorems.

How to run, in this directory:

    tlc -workers 2 -config MCEventHub.cfg MCEventHub      # any run below
    tlapm EventHubProofs.tla                              # any ...Proofs module

Contents: [the system](#the-system) · [modules and code](#modules-and-code) ·
[runs](#runs) · [bounds](#bounds) · [fairness](#fairness) ·
[proofs](#proofs) · [where the code is weaker than it
sounds](#where-the-code-is-weaker-than-it-sounds) · [not
modelled](#not-modelled) · [plan](#plan)

## The system

One process per node, `flanneld`. It chooses an interface, takes a *lease* (the
node's pod CIDR plus the attributes other nodes need: public IP, backend type,
backend data such as a MAC or a public key), publishes it as annotations of its
Kubernetes node, sets up its device and its firewall rules, and follows the
nodes of all others. Everything runs as tokio tasks that end when one
cancellation token fires. The CNI plugin is a separate, short-lived process per
command that shares one file with flanneld, `subnet.env`.

    API server --list/watch--> node informer --try_send/retry--> events channel
       --fan_out--> EventHub --one channel per watcher--> watch_leases
       --LeaseWatcher, one batch--> a backend's run loop --netlink--> kernel

    flags, interface --> subnet manager --> backend: register_network (device,
       key, AcquireLease) --> firewall rules --> subnet.env --> ready --> run
                                                    |
                         kubelet --ADD/DEL/CHECK--> flannel-cni --> delegate

| component | state | operations | hard behaviour |
|---|---|---|---|
| node informer (`subnet/kube/informer.rs`, `events.rs`) | node cache, resource version, synced flag | list, relist reconciliation, watch dispatch, add/update handlers | watch gaps replayed as a diff in another order; deletions and re-creations that collapse |
| lease event channel (`events.rs`, `mod.rs`) | bounded channel, retry slots, retry tasks | `enqueue_lease_event`, retry, cancel | full channel, all slots taken, events overtaking each other |
| event hub (`subnet/kube/mod.rs`, `watch_ops.rs`) | backlog, list of senders | `publish`, `subscribe`, watcher reads or leaves | a subscription while `publish` awaits another watcher |
| lease watcher (`lease/mod.rs`, `subnet/watch.rs`) | own lease, peers' leases, session, back-off | `update`, `reset`, `watch_leases` | updates and snapshots mixed; errors, drained results, back-off against the token |
| route network: host-gw, ipip (`backend/route_network.rs`) | tracked routes, kernel routes | event loop, 10-second route check | the check works on a copy and a dump while the loop changes both |
| vxlan network (`backend/vxlan/network.rs`) | `NetState` (device), two channels of one, detached tasks | run loop, device watcher, rebuild | overlapping rebuilds, signals dropped, shutdown with a blocked sender |
| vxlan events (`backend/vxlan/events.rs`) | kernel ARP, FDB and routes per family | added, removed, with undo | one of several requests fails; reachability asked twice; two families decoded one after the other |
| wireguard (`backend/wireguard/*`) | peers and allowed IPs of one or two devices | run loop, handler, key file | peers known by key, one device for two families |
| ipsec (`backend/ipsec/*`) | kernel policies, charon's keys and connections | run loop, handler | three policies and two loads per peer; a charon that dies |
| udp (`backend/udp/*`) | control socket, route table of the proxy thread | run loop, handler, proxy | a thread that reads commands between bursts of packets |
| extension (`backend/extension/*`) | commands | run loop, handler | commands that exist for some events only |
| registration (`register_network` of every backend) | links, key file, annotations, cloud routes | parse, create or adopt a device, key, lease, address, up | leftovers, kills, reboots, udev, operators |
| lease acquisition (`subnet/kube/acquire.rs`) | annotations, cached node | poll, patch, retry, deadline | cached node older than the patched one; an answer that is lost |
| traffic manager (`trafficmngr/*`) | iptables or nftables rules | clean up, recycle, set up, resync | others change the rules meanwhile; restarts with another subnet or manager |
| interface selection (`ipmatch/*`, `flanneld/src/iface_select.rs`) | none | by name, address, expression, route, default | branches for two families that may pick different interfaces |
| daemon (`flanneld/src/daemon.rs`) | task list, token, readiness, `subnet.env` | start-up, drain at exit | an exit path that waits for what nobody ends; a file of an earlier run |
| CNI plugin (`flannel-cni/src`) | `subnet.env`, delegate, masquerade rules | ADD, DEL, CHECK | concurrent commands, kills, pipes of two processes |

What makes each correct: the informer's cache is a revision of the API server;
the channel loses nothing and reorders only what it had to retry; each watcher
sees one unbroken run of events; the backend knows exactly the leases that
exist; kernel, charon or proxy hold what the leases call for and nothing else,
or it is on its way; a node announces the device it has; packets get the
decision the rules are for; readiness means that the file on disk is the one of
this lease; a pod that goes gives its address back; and `run` returns when the
token fires, and only then.

## Modules and code

Names follow the source. A conjunct is a condition or an early return, an
action is one stretch of code between two awaits (or one netlink request, one
command, or one critical section): what other tasks can see in between is a
state.

### From the API server to the leases

**EventHub** - `fan_out`, `EventHub::publish`, `EventHub::subscribe`.
`PublishBegin` is the critical section of `publish` (push on the backlog, clone
the senders); `SendOk(s)`/`SendClosed(s)` is the await on one sender, in the
list's order (`ticket` numbers subscriptions); `PublishEnd` removes the closed
ones. `Subscribe(s)` gives a channel of the backlog's length plus the capacity,
with the backlog in it. `Receive`, `Drop` are the watcher. Events are numbers.

**Broadcast** - what the hub promises, without lock, channels or loop: a
watcher gets the last `Capacity` events and then every later one, once, in
order. `EventHub!Promise` is the refinement mapping; a send and its channel are
stutters.

**EventQueue** - `enqueue_lease_event`. The informer sends, or finds the
channel full and waits for one of the slots, racing the token; a task per
retried event races the token too. History variables record what was received,
retried and dropped.

**LeaseSync** - the composition: API server with its log (external), informer
and handlers, the channel with its retry tasks, the hub (by the abstract
broadcast with one watcher, which `EventHub` is proved to implement), and
`LeaseWatcher` through the operators of `Leases`. IPv4. `Converts` is the
success of `node_to_lease`: of a node whose public IP or CIDR does not parse
nothing is announced, neither an update nor a removal.

### From the leases to the kernel

**Leases / LeaseWatcher** - `LWAdd`, `LWRemove`, `LWUpdate`, `LWReset` are the
methods of `LeaseWatcher` as operators on the stored list; `LeaseWatcher` is
`reduce` and `handle_batch_results` over arbitrary results, in the four family
modes of `same_subnet`, handing events to a handler one at a time. `told` is
what a backend that applies every event believes. Attributes are a node's data
and address with a kind that says how they decode.

**VxlanEvents, WireguardPeers, IpsecPolicies, UdpProxy, Extension** - the
handlers of `LeaseWatcher`'s events, one request per action. `Fault` is a
request that failed for good. VxlanEvents has both families, direct routing and
the undo of every request; WireguardPeers the four modes, peers by key, and the
routes of the network, one request each; IpsecPolicies the three policies,
`get_client`, which dials charon until it answers or the token fires, the load
of the key, repeated until it succeeds or the token fires, the load of the
connection, tried once, and charon itself, which may die, is not started again
and gets its SIGTERM at the token; UdpProxy the control socket, the table
`find_route` reorders, and the proxy thread's bursts, which need not end.

**Backends** - the composition: one lease watch, the handler of the configured
backend (`BackendManager::create`) and what runs beside it (`Helper`: the proxy's
thread, the task that stops charon).

**RouteNetwork** - `run_route_network`: event loop (`Recv...`, `ListForReplace`,
`Replace`, `ListForAdd`, `AddRoute`, `DeleteRoute`) and route check (`CheckBegin`
copies the list, `CheckDump` dumps the table, `CheckAdd` adds one route). The
two share `tracked` under a short lock and the kernel table.

**VxlanNetwork** - `VXLANNetwork::run` (biased select over batches, then the
signal channel; the token reaches it only through the closing of either),
`watch_leases` as its feeder, `watch_vxlan_device`, and one task per signal
through the steps of `recreate_vxlan`. A device is a generation number.

**RunLoop** - `watch_leases` with its sessions (`SessionEnd`, `DrainEnd`,
`BackoffEnd`) under the three shapes of the other backends' loops: "drain"
(extension, ipsec), "select" (wireguard), "inline" (udp).

### The node itself

**AcquireLease** - `acquire_lease` of the kube subnet manager: the poll for the
node and its CIDRs, the patch as the difference between the copy read and what
is wanted, its retries and its deadline, while controllers and operators write
to the same node. A request fails, or succeeds and its answer is lost.

**ExtIface** - which interface and addresses: `iface_select.rs`,
`lookup_ext_iface` and the queries, as operators on a host (its interfaces in
kernel order, its routes). The code sorts addresses before it drops those that
cannot be used; the model ranks the usable ones.

**Daemon** - `run` and `run_inner`: every step of the start with its failure,
the tasks it records and the ones it detaches, the choice of `ExtIface`, the
lease of `AcquireLease`, `subnet.env`, readiness, signals or an embedder's
token, the drains, a kill and the next start. A traffic rule that could not be
set up ends the start only where the code returns the error (masquerading with
nftables, recycling with iptables); elsewhere the failure is logged (`unset`) and
the start goes on. A backend's `run` ends at the token, returns early, or never
returns (`BackendBlocks`: what `vxlan_v6` and `RunLoop!RunReturns` show of vxlan
and wireguard).

**Registration** - `register_network` of every backend on a host with
leftovers: the `Backend` section, stored MACs, link creation and adoption, the
key file, the lease, addresses, link up, the MAC check, tencentvpc's routes. An
error ends the process as a kill does; it is started again. A device's
parameters are what identifies its network, its port, and what is only tuned
(MTU, learning): `VxlanCompat` compares the first and, where both are given, the
second, as `vxlan_links_incompat` does. Others reboot the host, change the
configuration, the CIDR or a MAC, delete links, or let a startup command of the
extension backend fail.

**Traffic** - the traffic managers, one address family and one table ("nat" or
"filter"): flannel's chain and the jump to it, checked and restored one command
at a time (the look at a rule is up to three: `AskChain`, `AskClear`, `AskRule`,
each of which may fail), the nftables transaction, recycling of an earlier
subnet's rules, resync, against another program that flushes or deletes. The
properties ask what happens to a packet, not which rules exist.

**Cni** - one process per command: load of `subnet.env`, the delegate with a
pipe in and a pipe out, the masquerade rules one iptables call at a time. A
plugin that is killed leaves its delegate running (`orphans`), which may reserve
or release an address later. Delegate, kernel and kubelet are external.

**...Proofs** - the proofs, listed [below](#proofs). **MC...** - instances.
Operators whose comment starts with "Mutant:" are not part of any
specification: each is the definition that follows it with a plausible bug,
and the property named for it in `PROJECT.json` fails with it.

## Runs

| run | checks | shows |
|---|---|---|
| `hub` | ContiguousDelivery, ImplementsBroadcast, EventuallyDelivered | two watchers that join and leave while `publish` waits: no gap, no duplicate, nobody starved; the hub implements `Broadcast` |
| `queue` | Conserved, BackpressureNotLoss, OvertakenOnlyIfRetried, EventuallyQueued | no event is lost at full channel and full slots; only retried events are overtaken; every event gets in unless the token fires |
| `sync` | StoreIsRevision, LeasesFollowNodes, Settles | API server to leases: two nodes created, annotated, deleted, annotations that do not convert, CIDRs that pass from one to the other, one broken watch, an overflowing channel |
| `route` | RoutesFollowPeers, Healed, RunReturns | loop against check, a flushed route, a failed request, a peer that changes gateway |
| `vxlan` | LossNoticed, Ends, AllHandled, DeviceRestored | three deletions, overlapping rebuilds, a watcher that may end, cancellation anywhere |
| `vxlan_v6` | RunReturns *(violated)* | IPv6 only: the loop stops at once and shutdown blocks |
| `runloop` | ErrorsNeverEndRun, Progress | failing sessions, drained results and back-off under all three loops: every result is handled, and `run` returns unless wireguard's watch waits to send |
| `backends` | BackendKnows, VxFollows, WgFollows, IpsecFollows, UdpInSync, BackendEnds | the lease watch and each handler, in every family mode, with snapshots, refreshed, foreign and undecodable attributes, a failing request, a changing network: what kernel, charon or proxy hold follows the leases, and handler, charon and proxy end after the token as long as traffic pauses |
| `daemon` | AnnotationsFollow, ReadyMeansServing, ExitsClean, InterfaceFits, Stops | flanneld from its flags to its exit, with the lease acquired while informer, controllers and operators change the node, faults at any step, signals, an embedder's token, a kill and a restart; `run` returns once asked unless the backend's `run` blocks |
| `registration` | AnnouncedIsDevice, IdentityKept, RegisteredFits, Registers | every backend over leftovers, kills at any request, reboots, changed configurations and CIDRs, a MAC changed by udev, links deleted by an operator, failing startup commands |
| `traffic` | MasqDecisions, ManagersAgree, Resynced | restarts with another subnet or manager, while another program changes the table: packets get the decision the rules are for, what is left of the other manager decides none of them otherwise, the resync repairs |
| `cni` | Released, AddedIsMasqueraded, CommandsEnd | commands of two pods, concurrent, killed (the delegate runs on) or failing, a delegate that writes before it reads, a `subnet.env` that comes, changes and goes, a flushed firewall |

Each property is stated in words above its definition; the conditions in those
comments are part of the statement. Where a property is a conjunction
(`LeasesFollowNodes`, `RoutesFollowPeers`, `VxFollows`, `WgFollows`,
`IpsecFollows`, `Ends`, `Progress`, `ExitsClean`, `AnnotationsFollow`), the
parts have names and comments of their own. Deadlock checking is off where a
system may stop: all bounded events have happened, or `run` has returned. In
`registration` it is on: a node that has registered can always be restarted.

The state spaces, in distinct states: hub 20 thousand, queue 5, sync 986,
route 296, vxlan 192, runloop 3, backends 812, daemon 791, registration 664,
traffic 141, cni 607 thousand; the longest takes about three and a half minutes.

## Bounds

Every bound is a constant named `Max...`, or a capacity of the code scaled
down.

- `hub`: the real capacity is 5000; 2 with 4 events overflows backlog and
  channel, and two watchers suffice for one to hold up, overtake or join beside
  the other (the theorems hold for any number).
- `queue`: depth 2, 2 slots, 6 events fill channel and slots with one event
  more in the informer's hands (the theorems hold for any number).
- `sync`: 5 changes are create, annotate, delete, create, annotate of one node,
  or the same spread over two nodes and two CIDRs; three versions of the
  annotations, one of which does not convert; one break gives list, watch,
  relist; depth 2 and one slot overflow.
- `route`: 3 events (add, change, remove) against one flush and one fault; one
  peer keeps its gateway, the other has two and a lease of another backend.
- `vxlan`: 3 losses give two overlapping rebuilds while a third signal waits; 2
  batches fill the channel with one more in the sender.
- `runloop`: 4 results, 2 failures: one in the channel of the session, one in
  that of the loop, one being sent, one handled.
- `backends`: the own subnet, one stable peer and one whose attributes take
  every kind (good, without ports, foreign, half readable); 3 results of one
  event or a snapshot each give add, refresh, remove; one fault, one change of
  what is reachable; the control socket holds 2 commands, so that a third
  blocks.
- `daemon`: 6 backend configurations, 4 option sets, 3 hosts, 11 sets of
  interface options, 5 kinds of CIDR assignment; 2 writes by others (before the
  read, and between read and patch), one fault, one restart.
- `registration`: 21 configurations, 6 leftovers (a vxlan link with another port
  and MTU, or of another network, same and other parameters,
  other kind of link, other address, two IPv6 addresses), 2 subnets, one kill,
  2 outside events; 17 identities, so that a fresh one is always at hand: at
  most 16 are in use, by 8 links, 2 announcements, 2 devices and 2 MACs in
  memory, the key file and the key.
- `traffic`: 2 subnets, 3 changes by others, one failed command, one restart
  with any subnet and manager, both tables.
- `cni`: 2 pods, so that two commands meet at any two calls; a dual-stack and
  an IPv4 file; one fault or kill, one change of file or flush.

No symmetry is used: in the larger models the members of the sets differ.

## Fairness

Weak fairness of the tasks: tokio polls a task that can make progress, and the
kernel runs a process or thread that can. Not assumed: that nodes change, that
errors or faults happen or stop by themselves (they are bounded), that anybody
cancels, kills, flushes or reboots.

- `hub` assumes that watchers read: `watch_leases` is a loop with nothing else
  to do than read and hand on (that a backend's loop reads is what the other
  runs check).
- `route`, `vxlan`, `runloop`, `registration`, `traffic`: fairness per task
  (`LoopStep`, `CheckStep`, `RunStep`, `WatchStep`, `DevStep`, each rebuild,
  `Register`, `Manager`), not per action.
- `backends`: the handler, the reading of commands by the proxy thread, and the
  task that stops charon. Nothing is assumed of packets: that a burst ends again
  and again is a premise of `BackendEnds`, as the code does not ensure it.
- `daemon`: the steps of `run`, the informer's list, the acquisition, its
  deadline, and the end of each task after the token, except that of a backend
  whose `run` blocks (`stuck`): `Stops` then promises nothing.
- `cni`: each plugin process together with its delegate; not the delegate of a
  plugin that was killed.

A biased select is modelled by its priority where a property depends on it
(wireguard's token first). No strong fairness is used.

## Proofs

Each theorem holds for every value of the constants its module's assumptions
admit: any number of watchers, nodes, pods, subnets, events, faults and
restarts. Every invariant the runs check is proved. Where one module proves
about several, their specifications have names of their own (`SyncSpec`,
`LoopSpec`, `TrafficSpec`).

| module | about | theorems (property) |
|---|---|---|
| EventHubProofs | EventHub, and the ends it lies between: LeaseSync, RunLoop | HubTyped, HubContiguous (ContiguousDelivery), HubNeverEvicts, HubRefines (ImplementsBroadcast), CacheIsRevision (StoreIsRevision), LeasesAreFollowing (LeasesFollowNodes), ErrorsAreRetried (ErrorsNeverEndRun) |
| EventQueueProofs | EventQueue | QueueConserves (Conserved), QueueBackpressure (BackpressureNotLoss), QueueOrder (OvertakenOnlyIfRetried) |
| BackendProofs | Backends: lease watch and handlers | BackendIsTold (BackendKnows), VxlanIsFollowing (VxFollows), WireguardIsFollowing (WgFollows), IpsecIsFollowing (IpsecFollows), ProxyIsInSync (UdpInSync) |
| RouteProofs | RouteNetwork | TypeCorrect, TableFollows (RoutesFollowPeers) |
| VxlanProofs | VxlanNetwork | TypeCorrect, LossIsNoticed (LossNoticed) |
| DaemonProofs | Daemon with AcquireLease and ExtIface | TypeCorrect, AnnotationsAreOwn (AnnotationsFollow), ReadyIsServing (ReadyMeansServing), ExitIsClean (ExitsClean), InterfaceAlwaysFits (InterfaceFits) |
| RegistrationProofs | Registration | TypeCorrect, AnnouncedTruly (AnnouncedIsDevice), RegistrationFits (RegisteredFits), IdentityIsKept (IdentityKept, of every step) |
| PodProofs | Cni, Traffic | TypeCorrect, AddressesReleased (Released), MasqueradeComplete (AddedIsMasqueraded), SwitchIsHarmless (ManagersAgree), MasqueradeDecides (MasqDecisions) |

### Assumptions

They stand beside the constants and TLC evaluates them in every run. Most say
that capacities are positive, bounds natural, and marks such as `None` not among
the values they stand beside. The others say something about the world:

- `LeaseWatcher!IdsAssumption`: a key or MAC belongs to one subnet. A node that
  comes back under another subnet with its old key, which the key file of
  wireguard makes possible, is outside it; there the removal of the old subnet,
  handled after the addition of the new one, takes the peer of the new one.
- `LeaseWatcher!OwnAssumption`: the own subnet is one of the subnets.
- `RouteNetwork!GatewayAssumption`: `Foreign`, a lease of another backend, is not
  a gateway.
- `Registration!ConfigsAssumption`: what the daemon admits (modes are
  wireguard's; backends without IPv6 serve IPv4). `IdsAssumption`: more
  identities than can be in use at a time, so a new key or MAC is new.
- `LeaseSync!NodesAssumption`: there are finitely many nodes.
  `OwnCidrAssumption`: no other node has the own node's CIDR.
- `Daemon!HostsAssumption`: the kernel's routes lead to interfaces it has, and a
  route prefers a source that is on its interface and of its family.
  `OptionsAssumption`: what the options name is an address where it has to be
  one, or does not parse.
- `Traffic!SubnetsAssumption`: packets from outside and to multicast addresses
  are not a subnet's.

### Arguments

*EventHub.* `ContiguousDelivery` alone is not inductive: a new watcher's replay
is consecutive only because the backlog is the last `Capacity` events
(`BacklogInv`), a send continues a watcher's run only because `publish` owes
the current event to registered watchers and to nobody between two events
(`PublishInv`), and a watcher is owed an event only if it was registered
before it was pushed. Three lemmas about sequences carry the arithmetic: adding
the next number, taking the first, pushing on a bounded backlog. Refinement
follows step by step: `PublishBegin` is `Publish`, `Subscribe` is `Join`,
`Receive` reads the next number by contiguity, the rest are stutters.

*EventQueue.* Received events followed by the channel's are one sequence,
`Stream`; a receive leaves it alone and a send appends to it. `RetryInv` adds
that every retry task's event is recorded as retried and that a waiting
informer holds the last event it produced.

*LeaseSync.* `ServerInv`: the API server is its own log at its last revision; a
list copies that state, and a watch event moves cache and position by one entry
of the log (`StoreInv`), in which every change finds the object it is about
(`LogInv`). `LeasesFollowNodes` speaks of settled states only and needs what
holds on the way to them: the events the watcher has not read, those in the
channel and those the informer has still to send are one sequence, `Pipe`, as
long as no event goes through a retry task. `Holds` and `Silent` say what will
be left of a lease, or of a subnet, once the pipe has been applied; `PipeInv`
that this is what the cache says. An event that moves on leaves the pipe alone
(`MoveLemma`), the watcher takes its first event (`FrontLemma`), and what a watch
event or a relist appends is what the change of the cache calls for
(`DispatchEvents`, `RelistLemma`, whatever the order of the list). That no node is
missing needs CIDRs that stay with their nodes; that none is left over needs an
unbroken watch and annotations that convert (`NoGap`): exactly the conditions of
the property.

*Lease watch.* `LWUpdate` and `LWReset` are loops over a batch or a snapshot,
written as recursive functions of the number of elements handled. What a run
of the loop does is proved from the least index at which it would be wrong
(`UpdateTells`, `ResetTells`): the stored list has one entry per key, and its
keys without the own one are what the events so far tell (`PushAgree`).
`KnowInv` says this of the batch under way: what was told, followed by the
events still queued, agrees with the list.

*Handlers.* `HandInv`: the event in hand is about a subnet that is, or is no
longer, among the announced ones, and names attributes its owner may have. Each
handler has its own invariant over one subnet at a time: what the requests made
so far have put in place at this step, and that a step about another subnet
leaves it alone. `IpsecInv` relates policies, connections and charon's life, which
the token may end before the batch in hand is handled;
`WgInv` needs that entries of one key belong to one node (`EntryOwner`), which is
where `IdsAssumption` is used; `VxInv` follows each request and its undo under
both kinds of reach. `UdpInv`: for each subnet the last command in the control
socket about it or, without one, the proxy's table says what was announced
last; `find_route` only permutes the table.

*RouteNetwork.* The list has a stable peer's route as soon as its event is
received (`TrackedInv`), the kernel as soon as `route_add` is done (`KernelInv`);
`StepInv` says that a replace concerns another gateway of the same owner and a
delete a peer that has left, so neither disturbs a stable peer. The check only
adds what the list had.

*VxlanNetwork.* Who owes the signal: `LossInv` names the notice, the full
channel, or a task at a step that will still find the device gone; a task that
has only to store its device will not. `CountInv` keeps tasks and signals within
the number of deletions. *RunLoop.* `ManagerInv` reads off the step of
`watch_leases` whether the manager's watch runs, and that it is over only after
a clean end or the token.

*AcquireLease and Daemon.* `AnnotationsInv`: the copy read is right in the
annotations only this daemon writes until it writes them, and from then on the
API server has the copy's value or the wanted one, however many patches were
applied with their answer lost. `ServingInv` and `TasksInv` list, per step of
`run_inner`, what is set up, or was logged as not set up, and which tasks run;
`AskedInv` says the token fires
because somebody asked, until `run_inner` has returned.

*ExtIface.* No induction: a lemma for each way of asking. The preference among
addresses is a rank, so there is a first one wherever there is one at all
(`FirstLemma`). Each query answers nothing, or an interface of the host with
addresses that are on it and of their family (`Proper`); here the exceptions of
the property appear: an IPv4 address that an expression matched elsewhere
(`ByRegexLemma`), the source of a route to an IPv6 address (`ByReachLemma`). Filling
in leaves no enabled family out (`FillLemma`), and `DefaultLemma` follows a host
without options to the end.

*Registration.* By step, which devices the process holds (`HandInv`), and that
they fit the configuration (`LinkInv`, by `Fits`: a kept device need not have the
asked MTU); `IdentityInv`: what is
announced is what the host would announce again unless others took it away;
`VxlanInv` and `WireguardInv`: MAC found or restored, key in memory equal to the
file's; `AddressInv`, `RouteInv`: addresses and VPC routes. One lemma per
action. A fresh identity exists by counting the ones in use (`FreshLemma`).

*Cni.* Per pod: what its process knows (`ProcInv`), whether the address it may
hold will be released, is recorded as leaked, or may still be reserved by an
orphan (`AddressInv`), which rules its ADD has seen or made
(`MasqInv`); others only add rules (`OthersKeep`), until the table is flushed.

*Traffic.* `ModeInv` and `CleanInv`: without a fault, the set-up of one manager
removed the other's masquerading rules, and what stays in the filter table
accepts what nftables accepts. `ChainInv`: from the creation of the chain on, its
rules are this subnet's and every masquerading rule stands once and behind every
returning one, and a rule looked for and not found in a pass is still not there.
`RestoreOrdered` shows that the pass keeps this order, `OrderedDecides` that the
order decides packets as documented.

### Only model-checked

- All liveness: the prover has neither fairness nor `ENABLED`.
- `vxlan_v6` and the definitions marked † below: violated.

## Where the code is weaker than it sounds

`vxlan_v6` is recorded as a finding. Other properties hold under a condition;
the condition is the interesting part, and stands in the property's comment.
Definitions marked † state the wish without the condition; TLC refutes them in
the same models, and no run checks them.

Leases:

- The hub replays only its last events: what came earlier, before anybody
  watched, is dropped (`Broadcast!Missed`).
- A snapshot stores the own lease, and a later one may announce its removal;
  a snapshot keeps a known subnet without looking at its attributes. (The
  Kubernetes manager sends no snapshots.)
- A CIDR that passes to another node while the watch is broken may end without
  a lease (`NoMissingPeer` †): the relist announces the new owner first and the
  old one's removal after it.
- A managed node deleted and re-created during a watch gap leaves its lease
  behind, and so does one whose annotations or CIDR no longer parse when it is
  deleted: `handle_add_lease_event` returns before it announces the removal. A
  retried event may be applied after a newer one of the same node.

Backends:

- The route check may add the route of a peer that was removed between its copy
  and its request (`NoRouteWithoutPeer` †), or keep an old gateway.
- Two vxlan rebuilds may store their devices in the wrong order. Rebuilds are
  not joined: they end by themselves, not before `run` returns; the new device
  lacks the entries of the known peers; a deletion before the multicast
  subscription exists goes unnoticed.
- When the FDB request of a refreshed vxlan lease fails, the ARP entry is taken
  back under the first announcement's route. Removal asks `direct_routing`
  anew. A peer with a new MAC leaves the old FDB entry behind.
- wireguard's `run` leaves its loop with the batch receiver open and joins a
  watch that may be blocked in its send (`RunLoop!RunReturns` †).
- In wireguard's single-device modes the route of a family that is not enabled
  is added too, for the empty network (`NoZeroRoute` †). A key that moves to
  another subnet may lose its peer (`IdsAssumption`).
- The extension backend writes a command's standard input before it reads its
  output; nothing bounds the wait for a charon that hangs. The udp proxy reads
  no command, STOP included, while packets keep coming (`proxy.rs:376-384`), so
  under a steady stream it does not stop. A charon that dies is not restarted:
  the next peer's load waits for it until the token fires.

Node:

- The informer, the fan-out and the iptables resync are in no list that is
  drained at exit (`NoTaskLeaked` †), though `daemon.rs:12-15` says that every
  spawned task is. A backend whose `run` blocks keeps `run` from returning.
- Readiness does not wait for rules whose set-up failed and was only logged
  (`ip_tables.rs:47-95`, `nftables.rs:174-190`), though `daemon.rs:329` says
  "Traffic rules are set up and subnet.env is written: ready".
- The check that the CIDR lies in the network comes after the patch.
- With two families, an interface expression may pair the IPv4 address of one
  interface with another interface chosen by name; the source of
  `--iface-can-reach` counts as an IPv4 address whatever its family
  (`InterfaceFits` leaves both out: `Mistakable`). host-gw
  with only IPv6, selected by address, is refused as behind NAT.
- wireguard's key file is created and then written: a kill in between blocks
  every later start. A foreign link named `flannel.ipip` blocks too. A reused
  vxlan device keeps its MTU and its learning, and its port if none is asked for. Devices of a former backend stay.
  udev is assumed to change a MAC only before the link is up.
- `ensure_v6_address_on_link` returns at the first address that is the wanted
  one and leaves those after it, though its comment says that it keeps exactly
  one (`ip/iface/config.rs:119-146`).
- A `null` Backend section is refused by ipip, udp and tencentvpc and accepted
  by vxlan, wireguard and extension.
- `clean_up` looks for FLANNEL-FWD in the nat table: after a switch to nftables
  the chain and the jump to it stay in the filter table, against the "clean
  state" of `daemon.rs:232`. `ManagersAgree` shows that they accept only what
  nftables accepts. A missing iptables binary fails the clean-up and ends
  the daemon, though nothing of iptables is in use.
- With nftables packets from the host to another node's subnet are not
  masqueraded, though `nftables_masq.rs:69` says "Masquerade anything headed
  towards flannel from the host" (`HostMasqueraded` †): the rule for external
  traffic, which asks for another source than the own pods where iptables asks
  for one outside the network, returns before it.
- The jump to flannel's chain is appended, though its comment wants it before
  others.

CNI plugin:

- The delegate of a plugin that is killed has no death signal: that of an ADD
  may reserve an address after the pod's DEL has finished.
- DEL with an unusable `subnet.env` or a failing delegate succeeds and leaks
  the address; a delegate that is not found fails DEL, though its comment says
  it always succeeds. Masquerade rules of earlier subnets are never removed.

## Not modelled

Wire formats and clients: netlink, generic netlink, VICI, XFRM, HTTP, TLS and
JSON; packet headers, checksums and ICMP of the udp proxy; signing and paths of
the Tencent API; command line, environment expansion and logging; prefix
arithmetic and the parsing of `net-conf.json` (`check_network_config` has no
caller but tests). They are data and I/O without control of their own. In
modelled components: the back-off between lists, the dual-stack branches of the
informer's update handler and the decoding of a watch frame; the second family
of the route network (the same steps again); the start of charon; the node
condition, whose failure is only logged; `watch_lease`, the same watcher with a
filter. The udp proxy stops at once after reading its stop command. The binary
`flannel` calls the daemon; `e2e` is test code.

## Plan

Done: all modules and proofs above.

To model, in this order: the dual-stack update handler in `LeaseSync`, the
second family of `RouteNetwork`, the start of charon, and the arithmetic of
prefixes and ranges over a small width against a reference definition.
