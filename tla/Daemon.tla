------------------------------- MODULE Daemon -------------------------------
(***************************************************************************)
(* flanneld's run (flanneld/src/daemon.rs): the steps of its start, the    *)
(* tasks it spawns, readiness, the lease (AcquireLease), and the two ways  *)
(* it ends: drained after the token, or cancelled and drained after an     *)
(* error. The process may be killed at any point and is started again;     *)
(* the subnet file and the node object survive it.                         *)
(***************************************************************************)
EXTENDS AcquireLease, Sequences

CONSTANTS
  OptsSet,      (* option records: [margin, signals, healthz, masq,        *)
                (*   forward, blackhole, nft]                              *)
  Hosts,        (* interfaces and routes the host may have (ExtIface)      *)
  IfaceOpts,    (* interface options: [queries, public, stored]            *)
  Bad,          (* an address or an expression that does not parse         *)
  MaxRestarts   (* bound: starts after the first                           *)

ASSUME RestartsAssumption == MaxRestarts \in Nat

VARIABLES
  opts,         (* the command line of this incarnation                    *)
  pc,           (* the step run is at                                      *)
  token,        (* the cancellation token has fired                        *)
  asked,        (* ... because a signal or the embedder asked for it       *)
  live,         (* tasks that are running                                  *)
  tasks,        (* handles recorded in the task list                       *)
  ei,           (* the external interface that was found: "direct", or     *)
                (*   "natted" if its public address is not its own; or None *)
  synced,       (* the informer has listed the nodes                       *)
  rules,        (* traffic rules this incarnation has set up               *)
  unset,        (* those it failed to set up, which was only logged        *)
  stuck,        (* the backend's run waits for something that never comes  *)
  file,         (* families in the subnet file, None if there is no file   *)
  ready,        (* what /readyz answers                                    *)
  exit,         (* exit code                                               *)
  restarts

runVars == <<opts, token, asked, live, tasks, ei, synced, rules, unset, stuck, file, ready, exit,
             restarts>>
vars == <<api, cache, writes, faults, acquireVars, pc, runVars>>
leaseVars == <<api, cache, writes, acquireVars>>

Ifaces == INSTANCE ExtIface

\* Addresses, and the kernel's answers about a host: default routes and
\* routes lead to interfaces it has, and a route prefers a source of the
\* interface and of its own family, if any.
Addresses ==
  [f : {4, 6}, n : Nat, scope : STRING, deprecated : BOOLEAN, permanent : BOOLEAN,
   temporary : BOOLEAN]
IsHost(h) ==
  /\ h.ifaces \in Seq([name : STRING, mtu : Nat, addrs : Seq(Addresses)])
  /\ \A f \in {4, 6} : h.default[f] \in 0..Len(h.ifaces)
  /\ \A ip \in DOMAIN h.route :
       LET r == h.route[ip]
       IN  /\ r.oif \in 0..Len(h.ifaces)
           /\ r.oif # 0 /\ r.src # None =>
                /\ r.src.f = ip.f
                /\ \E k \in DOMAIN h.ifaces[r.oif].addrs : h.ifaces[r.oif].addrs[k] = r.src

\* What the options name, as far as it parses.
IsQuery(h, q) ==
  /\ q.by \in {"address", "name", "regex", "reach"}
  /\ q.by = "address" => q.what \in Addresses
  /\ q.by = "reach" => q.what = Bad \/ q.what \in DOMAIN h.route \cap Addresses
IsOption(o) ==
  /\ \A f \in {4, 6} : {o.public[f], o.stored[f]} \subseteq Addresses \cup {None, Bad}
  /\ Len(o.queries) \in Nat /\ DOMAIN o.queries = 1..Len(o.queries)
  /\ \A h \in Hosts, k \in DOMAIN o.queries : IsQuery(h, o.queries[k])

ASSUME HostsAssumption == \A h \in Hosts : IsHost(h)
ASSUME OptionsAssumption == \A o \in IfaceOpts : IsOption(o)
\* Nothing is told apart from something that was found.
ASSUME NothingAssumption ==
  LET found == [{4, 6} -> Addresses \cup {None}]
  IN  /\ None # Bad /\ {None, Bad} \cap Addresses = {}
      /\ None \notin [iface : Nat, a : found]
      /\ None \notin [iface : Nat, a : found, ext : found]

Init ==
  /\ AcquireInit
  /\ opts \in OptsSet
  /\ pc = "flags"
  /\ token = FALSE /\ asked = FALSE
  /\ live = {} /\ tasks = {}
  /\ ei = None
  /\ synced = FALSE
  /\ rules = {} /\ unset = {}
  /\ stuck = FALSE
  /\ file = None
  /\ ready = FALSE
  /\ exit = None
  /\ restarts = 0

-----------------------------------------------------------------------------
(* Steps of run_inner *)

\* A step that does nothing but go on.
Goto(from, to) == pc = from /\ pc' = to

\* run_inner returns: run cancels the token and drains what was recorded.
Return(code) == pc' = "cancel" /\ exit' = code

\* A step that returns exit code 1 (or an error) when it fails.
MayFail(from, to) ==
  /\ pc = from
  /\ \/ pc' = to /\ UNCHANGED <<exit, faults>>
     \/ Return(1) /\ Fault

\* An invalid renew margin ends run before anything is spawned.
ValidateFlags ==
  /\ pc = "flags"
  /\ IF opts.margin THEN pc' = "manager" /\ UNCHANGED exit
                    ELSE pc' = "exited" /\ exit' = 1
  /\ UNCHANGED <<leaseVars, faults, opts, token, asked, live, tasks, ei, synced, rules, unset,
                 stuck, file, ready, restarts>>

\* create_subnet_manager up to the wait for the informer, which alloc does
\* not have. Informer and fan-out are not recorded.
CreateManager ==
  /\ pc = "manager"
  /\ \/ /\ IF Informer
           THEN pc' = "sync" /\ live' = live \cup {"informer", "fanout"}
           ELSE pc' = "signals" /\ UNCHANGED live
        /\ UNCHANGED <<exit, faults>>
     \/ Return(1) /\ Fault /\ UNCHANGED live
  /\ UNCHANGED <<leaseVars, opts, token, asked, tasks, ei, synced, rules, unset, stuck, file,
                 ready, restarts>>

\* The informer's first list.
InformerList ==
  /\ "informer" \in live /\ ~synced
  /\ synced' = TRUE
  /\ cache' = api
  /\ UNCHANGED <<api, writes, faults, acquireVars, pc, opts, token, asked, live, tasks, ei, rules,
                 unset, stuck, file, ready, exit, restarts>>

\* wait_synced: ten minutes, or the token.
WaitSynced ==
  /\ pc = "sync"
  /\ \/ synced /\ pc' = "signals" /\ UNCHANGED <<exit, faults>>
     \/ ~synced /\ Return(1) /\ (IF token THEN UNCHANGED faults ELSE Fault)
  /\ UNCHANGED <<leaseVars, opts, token, asked, live, tasks, ei, synced, rules, unset, stuck,
                 file, ready, restarts>>

InstallShutdownHandler ==
  /\ pc = "signals"
  /\ \/ /\ pc' = "healthz"
        /\ live' = IF opts.signals THEN live \cup {"signal"} ELSE live
        /\ UNCHANGED <<exit, faults>>
     \/ opts.signals /\ Return(1) /\ Fault /\ UNCHANGED live
  /\ UNCHANGED <<leaseVars, opts, token, asked, tasks, ei, synced, rules, unset, stuck, file,
                 ready, restarts>>

\* The port is out of range ("bad"), cannot be bound, or served by a task.
StartHealthz ==
  /\ pc = "healthz"
  /\ \/ opts.healthz = "off" /\ pc' = "probe" /\ UNCHANGED <<exit, faults, live, tasks>>
     \/ /\ opts.healthz = "on" /\ pc' = "probe" /\ UNCHANGED <<exit, faults>>
        /\ live' = live \cup {"healthz"} /\ tasks' = tasks \cup {"healthz"}
     \/ opts.healthz = "on" /\ Return(1) /\ Fault /\ UNCHANGED <<live, tasks>>
     \/ opts.healthz = "bad" /\ Return(1) /\ UNCHANGED <<faults, live, tasks>>
  /\ UNCHANGED <<leaseVars, opts, token, asked, ei, synced, rules, unset, stuck, file, ready,
                 restarts>>

\* The parsed net-conf, which the kube manager always answers at once:
\* get_config's loop ends in its first round.
GetConfig == [fams |-> attrs.fams, type |-> attrs.type]

\* get_ip_family: there is none to serve if no family is enabled.
GetIpFamily == GetConfig.fams # {}

\* Without nftables the bridge filter of every enabled family must exist.
CheckBrNetfilter ==
  /\ pc = "probe"
  /\ \/ GetIpFamily /\ pc' = "iface" /\ UNCHANGED <<exit, faults>>
     \/ ~GetIpFamily /\ Return(1) /\ UNCHANGED faults
     \/ GetIpFamily /\ ~opts.nft /\ Return(1) /\ Fault
  /\ UNCHANGED <<leaseVars, opts, token, asked, live, tasks, ei, synced, rules, unset, stuck,
                 file, ready, restarts>>

\* The public addresses: those stored on the node (none if the GET fails)
\* take the place of the command line's.
PublicIps(o) ==
  [f \in {4, 6} |-> IF o.stored[f] # None THEN o.stored[f] ELSE o.public[f]]

\* What the search finds, and what later steps tell apart of it.
Search(h, o, fams) == Ifaces!SelectExternalIface(h, o.queries, fams, PublicIps(o))

Outcome(found) ==
  IF found = None THEN "none"
  ELSE IF found.ext[4] = found.a[4] THEN "direct" ELSE "natted"

Outcomes ==
  {<<fams, Outcome(Search(h, o, fams))>> :
     fams \in (SUBSET {4, 6}) \ {{}}, h \in Hosts, o \in IfaceOpts}

\* The only place that reads the interface options and the host's
\* interfaces, which are therefore chosen here.
SelectIface ==
  /\ pc = "iface"
  /\ \E out \in {"none", "direct", "natted"} :
       /\ <<GetConfig.fams, out>> \in Outcomes
       /\ IF out # "none" THEN ei' = out /\ pc' = "create" /\ UNCHANGED exit
                          ELSE Return(1) /\ UNCHANGED ei
  /\ UNCHANGED <<leaseVars, faults, opts, token, asked, live, tasks, synced, rules, unset, stuck,
                 file, ready, restarts>>

\* The backends of default_registry, by their type; alloc has no type of its
\* own on the node. host-gw refuses a public address behind NAT.
Registered ==
  {"", "vxlan", "host-gw", "ipip", "ipsec", "udp", "wireguard", "extension", "tencentvpc"}

CreateBackend ==
  /\ pc = "create"
  /\ IF /\ GetConfig.type \in Registered
        /\ GetConfig.type = "host-gw" => ei = "direct"
     THEN pc' = "register" /\ UNCHANGED exit
     ELSE Return(1)
  /\ ei' = None
  /\ UNCHANGED <<leaseVars, faults, opts, token, asked, live, tasks, synced, rules, unset, stuck,
                 file, ready, restarts>>

\* register_network: it acquires the lease and sets up the backend.
RegisterBegin ==
  /\ pc = "register" /\ Begin
  /\ UNCHANGED <<pc, runVars>>

RegisterEnd ==
  /\ \/ phase = "held" /\ MayFail("register", "clean")
     \/ phase = "failed" /\ pc = "register" /\ Return(1) /\ UNCHANGED faults
  /\ UNCHANGED <<leaseVars, opts, token, asked, live, tasks, ei, synced, rules, unset, stuck,
                 file, ready, restarts>>

\* clean_up of the other traffic manager, then init of the one in use.
CleanAndInit ==
  /\ MayFail("clean", "masq")
  /\ UNCHANGED <<leaseVars, opts, token, asked, live, tasks, ei, synced, rules, unset, stuck,
                 file, ready, restarts>>

\* iptables rules are kept up by a resync task that is not recorded.
Resync == IF opts.nft THEN {} ELSE {"resync"}

\* The masquerade rules. With nftables a failure ends the start, with
\* iptables only one of the recycling of older rules does: any other is
\* logged (unset) and the start goes on, with the resync task if the binaries
\* were found.
SetupMasq ==
  /\ \/ ~opts.masq /\ Goto("masq", "forward") /\ UNCHANGED <<exit, faults, live, rules, unset>>
     \/ /\ opts.masq /\ MayFail("masq", "forward")
        /\ IF pc' = "forward"
           THEN rules' = rules \cup {"masq"} /\ live' = live \cup Resync
           ELSE UNCHANGED <<rules, live>>
        /\ UNCHANGED unset
     \/ /\ opts.masq /\ ~opts.nft /\ Goto("masq", "forward") /\ Fault
        /\ unset' = unset \cup {"masq"} /\ live' \in {live, live \cup Resync}
        /\ UNCHANGED <<exit, rules>>
  /\ UNCHANGED <<leaseVars, opts, token, asked, tasks, ei, synced, stuck, file, ready, restarts>>

\* Failures of the forward rules are only logged.
SetupForward ==
  /\ Goto("forward", "blackhole")
  /\ \/ ~opts.forward /\ UNCHANGED <<faults, live, rules, unset>>
     \/ /\ opts.forward /\ rules' = rules \cup {"forward"} /\ live' = live \cup Resync
        /\ UNCHANGED <<faults, unset>>
     \/ /\ opts.forward /\ Fault
        /\ unset' = unset \cup {"forward"} /\ live' \in {live, live \cup Resync}
        /\ UNCHANGED rules
  /\ UNCHANGED <<leaseVars, opts, token, asked, tasks, ei, synced, stuck, file, ready, exit, restarts>>

SpawnBlackhole ==
  /\ Goto("blackhole", "file")
  /\ IF opts.blackhole
     THEN live' = live \cup {"blackhole"} /\ tasks' = tasks \cup {"blackhole"}
     ELSE UNCHANGED <<live, tasks>>
  /\ UNCHANGED <<leaseVars, faults, opts, token, asked, ei, synced, rules, unset, stuck, file,
                 ready, exit, restarts>>

\* Mutant: ready whether or not the file could be written.
WriteSubnetFileAnyway ==
  /\ Goto("file", "run")
  /\ \/ file' = lease /\ UNCHANGED faults
     \/ UNCHANGED file /\ Fault
  /\ ready' = TRUE
  /\ UNCHANGED <<leaseVars, opts, token, asked, live, tasks, ei, synced, rules, unset, stuck,
                 exit, restarts>>

\* handle_subnet_file: written to a temporary file and renamed, so that the
\* old contents stay if it fails; run goes on without being ready.
WriteSubnetFile ==
  /\ Goto("file", "run")
  /\ \/ file' = lease /\ ready' = TRUE /\ UNCHANGED faults
     \/ UNCHANGED <<file, ready>> /\ Fault
  /\ UNCHANGED <<leaseVars, opts, token, asked, live, tasks, ei, synced, rules, unset, stuck,
                 exit, restarts>>

\* The network runs in a task; systemd is told; complete_lease may patch the
\* node's condition. Its error is logged and changes nothing (only a revoked
\* etcd lease would cancel the token).
RunBackend ==
  /\ Goto("run", "await")
  /\ live' = live \cup {"backend"}
  /\ UNCHANGED <<leaseVars, faults, opts, token, asked, tasks, ei, synced, rules, unset, stuck,
                 file, ready, exit, restarts>>

AwaitBackend ==
  /\ Goto("await", "innerDrain")
  /\ "backend" \notin live
  /\ UNCHANGED <<leaseVars, faults, runVars>>

\* run_inner's own drain of the list, then of the signal task, and exit 0.
InnerDrain ==
  /\ Goto("innerDrain", "innerSignal")
  /\ tasks \cap live = {}
  /\ tasks' = {}
  /\ UNCHANGED <<leaseVars, faults, opts, token, asked, live, ei, synced, rules, unset, stuck,
                 file, ready, exit, restarts>>

InnerDrainSignal ==
  /\ pc = "innerSignal"
  /\ "signal" \notin live
  /\ Return(0)
  /\ UNCHANGED <<leaseVars, faults, opts, token, asked, live, tasks, ei, synced, rules, unset,
                 stuck, file, ready, restarts>>

-----------------------------------------------------------------------------
(* run, after run_inner *)

\* Mutant: an error returns without waiting for the tasks.
CancelNoDrain ==
  /\ Goto("cancel", "exited")
  /\ token' = TRUE
  /\ UNCHANGED <<leaseVars, faults, opts, asked, live, tasks, ei, synced, rules, unset, stuck,
                 file, ready, exit, restarts>>

Cancel ==
  /\ Goto("cancel", "drain")
  /\ token' = TRUE
  /\ UNCHANGED <<leaseVars, faults, opts, asked, live, tasks, ei, synced, rules, unset, stuck,
                 file, ready, exit, restarts>>

Drain ==
  /\ Goto("drain", "drainSignal")
  /\ tasks \cap live = {}
  /\ tasks' = {}
  /\ UNCHANGED <<leaseVars, faults, opts, token, asked, live, ei, synced, rules, unset, stuck,
                 file, ready, exit, restarts>>

DrainSignal ==
  /\ Goto("drainSignal", "exited")
  /\ "signal" \notin live
  /\ UNCHANGED <<leaseVars, faults, runVars>>

-----------------------------------------------------------------------------
(* Tasks, signals and the process *)

Ending == {"cancel", "drain", "drainSignal", "exited"}

\* A task sees the token and ends. The fan-out ends when the last sender of
\* its channel is gone: the informer's, and that of the manager, which
\* run_inner and the backend hold.
TaskEnds(t) ==
  /\ t \in live
  /\ token
  /\ t = "backend" => ~stuck
  /\ t = "fanout" => pc \in Ending /\ {"informer", "backend"} \cap live = {}
  /\ live' = live \ {t}
  /\ UNCHANGED <<leaseVars, faults, pc, opts, token, asked, tasks, ei, synced, rules, unset,
                 stuck, file, ready, exit, restarts>>

\* The network's run returns by itself (it cannot open netlink); nothing is
\* told of it.
BackendGivesUp ==
  /\ "backend" \in live /\ ~stuck /\ Fault
  /\ live' = live \ {"backend"}
  /\ UNCHANGED <<leaseVars, pc, opts, token, asked, tasks, ei, synced, rules, unset, stuck, file,
                 ready, exit, restarts>>

\* Two backends' run may never return, token or not: vxlan's waits for its
\* feeder once the device watcher has ended (VxlanNetwork), wireguard's for a
\* lease watch blocked in its send (RunLoop).
BackendBlocks ==
  /\ "backend" \in live /\ ~stuck
  /\ attrs.type \in {"vxlan", "wireguard"}
  /\ stuck' = TRUE
  /\ UNCHANGED <<leaseVars, faults, pc, opts, token, asked, live, tasks, ei, synced, rules, unset,
                 file, ready, exit, restarts>>

\* Mutant: the shutdown handler ends without cancelling the token.
AskToStopDeaf ==
  /\ ~asked
  /\ pc # "exited"
  /\ opts.signals /\ "signal" \in live /\ live' = live \ {"signal"}
  /\ asked' = TRUE
  /\ UNCHANGED <<leaseVars, faults, pc, opts, token, tasks, ei, synced, rules, unset, stuck, file,
                 ready, exit, restarts>>

\* SIGINT or SIGTERM, which the shutdown handler turns into the token; or
\* the embedder, which owns the token, cancels it.
AskToStop ==
  /\ ~asked
  /\ pc # "exited"
  /\ \/ opts.signals /\ "signal" \in live /\ live' = live \ {"signal"}
     \/ ~opts.signals /\ UNCHANGED live
  /\ token' = TRUE /\ asked' = TRUE
  /\ UNCHANGED <<leaseVars, faults, pc, opts, tasks, ei, synced, rules, unset, stuck, file, ready,
                 exit, restarts>>

\* The process dies: killed at any point (also by a signal that comes before
\* the handler is installed) or after its exit; it is started again, with
\* the configuration of then.
Restart ==
  /\ restarts < MaxRestarts
  /\ restarts' = restarts + 1
  /\ pc' = "flags"
  /\ opts' \in OptsSet /\ attrs' \in AttrsSet
  /\ token' = FALSE /\ asked' = FALSE
  /\ live' = {} /\ tasks' = {} /\ ei' = None /\ synced' = FALSE
  /\ rules' = {} /\ unset' = {} /\ stuck' = FALSE
  /\ ready' = FALSE /\ exit' = None
  /\ cache' = None /\ node' = FreshNode /\ patch' = <<>> /\ phase' = "idle" /\ lease' = {}
  /\ UNCHANGED <<api, writes, faults, file>>

Acquire ==
  /\ Poll \/ PatchOk \/ PatchError \/ PatchTimeout
  /\ UNCHANGED <<pc, runVars>>

\* acquire_lease stops waiting at its deadline or at the token.
AcquireTimeout ==
  /\ PollTimeout
  /\ UNCHANGED <<pc, runVars>>

Cluster ==
  /\ Write \/ (synced /\ Sync)
  /\ UNCHANGED <<pc, runVars>>

Step ==
  \/ ValidateFlags \/ CreateManager \/ WaitSynced \/ InstallShutdownHandler \/ StartHealthz
  \/ CheckBrNetfilter \/ SelectIface \/ CreateBackend \/ RegisterBegin \/ RegisterEnd \/ CleanAndInit \/ SetupMasq \/ SetupForward
  \/ SpawnBlackhole \/ WriteSubnetFile \/ RunBackend \/ AwaitBackend \/ InnerDrain
  \/ InnerDrainSignal \/ Cancel \/ Drain \/ DrainSignal

Tasks == {"informer", "fanout", "signal", "healthz", "resync", "blackhole", "backend"}

Next ==
  \/ Step \/ InformerList \/ Acquire \/ AcquireTimeout \/ Cluster
  \/ \E t \in Tasks : TaskEnds(t)
  \/ BackendGivesUp \/ BackendBlocks \/ AskToStop \/ Restart

Spec == Init /\ [][Next]_vars

\* The runtime polls run and every task; acquire_lease's deadline passes.
FairSpec ==
  /\ Spec
  /\ WF_vars(Step)
  /\ WF_vars(InformerList)
  /\ WF_vars(Acquire)
  /\ WF_vars(AcquireTimeout)
  /\ \A t \in Tasks : WF_vars(TaskEnds(t))

-----------------------------------------------------------------------------
(* Properties *)

Steps ==
  {"flags", "manager", "sync", "signals", "healthz", "probe", "iface", "create", "register",
   "clean", "masq", "forward", "blackhole", "file", "run", "await", "innerDrain", "innerSignal"}

TypeOK ==
  /\ AcquireTypeOK
  /\ opts \in OptsSet
  /\ pc \in Steps \cup Ending
  /\ token \in BOOLEAN /\ asked \in BOOLEAN
  /\ live \subseteq Tasks /\ tasks \subseteq {"healthz", "blackhole"}
  /\ ei \in {None, "direct", "natted"}
  /\ synced \in BOOLEAN
  /\ rules \subseteq {"masq", "forward"} /\ unset \subseteq {"masq", "forward"}
  /\ stuck \in BOOLEAN
  /\ file \in {None} \cup UNION {SUBSET a.fams : a \in AttrsSet}
  /\ ready \in BOOLEAN
  /\ exit \in {None, 0, 1}
  /\ restarts \in 0..MaxRestarts

\* /readyz answers 200 only while the subnet file on disk, which survives
\* restarts and failed writes, is the one of the lease this incarnation
\* holds, and each traffic rule that was asked for is set up, or else its
\* set-up failed and the failure was logged, which never happens to
\* masquerading with nftables. (daemon.rs:329 says "Traffic rules are set up
\* and subnet.env is written: ready"; the logged failures of iptables and of
\* forwarding do not keep readiness back.)
ReadyMeansServing ==
  ready => /\ phase = "held" /\ file = lease
           /\ opts.masq => "masq" \in rules \/ (~opts.nft /\ "masq" \in unset)
           /\ opts.forward => "forward" \in rules \cup unset

\* "run cancels the token and drains every spawned task on EVERY exit path":
\* of the tasks that run records or awaits none is left when it returns,
\* at whatever step the start failed.
DrainedOnExit ==
  pc = "exited" => live \cap {"signal", "healthz", "blackhole", "backend"} = {}

\* The same of every task that was spawned.
NoTaskLeaked == pc = "exited" => live = {}

\* Exit code 0 means that somebody asked flanneld to stop; unless its
\* backend gave up by itself and no other task was left to wait for.
CleanExitWasAsked ==
  pc = "exited" /\ exit = 0 =>
    asked \/ (~opts.signals /\ opts.healthz = "off" /\ ~opts.blackhole)

\* Both: how run leaves the process, at whatever step it was.
ExitsClean == DrainedOnExit /\ CleanExitWasAsked

\* Once asked to stop, or when its start has failed, run returns (or the
\* process is gone), unless the backend's run blocks, as that of vxlan and of
\* wireguard may: no other step or task waits for something that the token
\* does not end. After that also the tasks nobody waits for come to an end.
Stops ==
  (asked \/ exit # None) ~>
    ((pc = "exited" /\ live = {}) \/ (~asked /\ exit = None) \/ stuck)

\* Queries after which an address is taken for one that it is not. An
\* expression may match addresses of one interface and the name of another:
\* in dual stack the two are then combined. And the source of the route to
\* an IPv6 address is taken for the IPv4 address of its interface.
Ambiguous(h, q) ==
  /\ q.by = "regex" /\ q.what # Bad
  /\ \E i, j \in Ifaces!Indices(h) :
       /\ i # j /\ h.ifaces[i].name \in q.what.names
       /\ \E k \in DOMAIN h.ifaces[j].addrs : h.ifaces[j].addrs[k] \in q.what.addrs
ReachesV6(q, fams) == q.by = "reach" /\ q.what # Bad /\ q.what.f = 6 /\ 4 \in fams
Mistakable(h, o, fams) ==
  \E k \in DOMAIN o.queries : Ambiguous(h, o.queries[k]) \/ ReachesV6(o.queries[k], fams)

Fits(h, o, fams) ==
  LET r == Search(h, o, fams)
      on(i) == {h.ifaces[i].addrs[k] : k \in DOMAIN h.ifaces[i].addrs}
  IN  /\ r # None /\ ~Mistakable(h, o, fams) =>
           \A f \in fams :
             /\ r.a[f] \in on(r.iface) /\ r.a[f].f = f
             /\ r.ext[f] \in {r.a[f], PublicIps(o)[f]} \ {None}
      /\ r = None /\ o.queries = <<>> /\ PublicIps(o) = [f \in {4, 6} |-> None] =>
           \A i \in Ifaces!Indices(h) :
             \/ h.ifaces[i].mtu = 0
             \/ \E f \in fams :
                  \/ h.default[f] # i
                  \/ \A a \in on(i) : a.f = f => ~Ifaces!Usable(a)

Misfits ==
  {fams \in (SUBSET {4, 6}) \ {{}} : \E h \in Hosts, o \in IfaceOpts : ~Fits(h, o, fams)}

\* Whatever the interfaces and options: the interface that the search finds
\* has, in every enabled family, the address that will be used on it, and
\* peers are told that address or the public one; and without options a host
\* whose default routes share an interface with usable addresses is not
\* refused (lookup_ext_iface; queries that can be mistaken are left out).
InterfaceFits == pc = "iface" => GetConfig.fams \notin Misfits
=============================================================================
