---------------------------- MODULE RouteNetwork ----------------------------
(***************************************************************************)
(* The run loop of the route backends host-gw and ipip                     *)
(* (backend/route_network.rs): the event loop programs one kernel route    *)
(* per peer subnet, the route-check task re-adds tracked routes that went  *)
(* missing. They share the list of tracked routes, one short lock at a     *)
(* time, and the kernel's table, one netlink request at a time.            *)
(*                                                                         *)
(* One address family (the code keeps one list for each and treats them    *)
(* alike). A route is a destination and a gateway; the interface is fixed. *)
(* A lease whose backend type is another one is a lease with no usable     *)
(* gateway here: Foreign.                                                  *)
(***************************************************************************)
EXTENDS Naturals, Sequences, SequencesExt

CONSTANTS
  Subnets,      (* peer subnets: destinations                              *)
  Gateways,     (* public IPs of peers                                     *)
  GatewaysOf(_),(* the gateways the owner of a subnet may have             *)
  NoGateway,    (* not a gateway: no such lease, no such route             *)
  Foreign,      (* the owner runs another backend                          *)
  MaxEvents,    (* bound: lease events                                     *)
  MaxFlushes,   (* bound: routes deleted behind flannel's back             *)
  MaxFaults     (* bound: netlink requests that fail                       *)

ASSUME GatewayAssumption ==
  /\ NoGateway \notin Gateways \cup {Foreign}
  /\ Foreign \notin Gateways
  /\ \A d \in Subnets : GatewaysOf(d) \subseteq Gateways \cup {Foreign}

VARIABLES
  peers,        (* the watcher's leases: gateway of each subnet's owner    *)
  events,       (* lease events so far                                     *)
  inbox,        (* channel of event batches (capacity 1, one event each)   *)
  run,          (* run_route_network: "start", "loop", "join" or "done"    *)
  loop,         (* step of the event loop                                  *)
  route,        (* route of the event in hand                              *)
  seen,         (* gateway of the first route its last dump listed         *)
  tracked,      (* RouteList: sequence of routes                           *)
  kernel,       (* kernel table: gateway of the route to each subnet       *)
  check,        (* route_check: "off", "sleep", "dump", "add" or "done"    *)
  missing,      (* route_check: routes still to look at                    *)
  dump,         (* route_check: the table it dumped                        *)
  cancelled,    (* the token                                               *)
  flushes,
  faults

chanVars == <<peers, events, inbox>>
loopVars == <<loop, route, seen>>
checkVars == <<check, missing, dump>>
envVars == <<flushes, faults>>
vars == <<chanVars, run, loopVars, tracked, kernel, checkVars, cancelled, envVars>>

Empty == [d \in Subnets |-> NoGateway]
Route(d, g) == [dst |-> d, gw |-> g]

Init ==
  /\ peers = Empty
  /\ events = 0
  /\ inbox = <<>>
  /\ run = "start"
  /\ loop = "recv"
  /\ route = [dst |-> CHOOSE d \in Subnets : TRUE, gw |-> NoGateway]
  /\ seen = NoGateway
  /\ tracked = <<>>
  /\ kernel = Empty
  /\ check = "off"
  /\ missing = <<>>
  /\ dump = Empty
  /\ cancelled = FALSE
  /\ flushes = 0
  /\ faults = 0

\* A netlink request may fail.
Fault == faults < MaxFaults /\ faults' = faults + 1
NoFault == UNCHANGED faults

-----------------------------------------------------------------------------
(* watch_leases: events for the loop (external to this module) *)

Announce(type, d, g) ==
  /\ ~cancelled
  /\ events < MaxEvents
  /\ inbox = <<>>
  /\ events' = events + 1
  /\ inbox' = <<[type |-> type, route |-> Route(d, g)]>>
  /\ peers' = [peers EXCEPT ![d] = IF type = "Added" THEN g ELSE NoGateway]
  /\ UNCHANGED <<run, loopVars, tracked, kernel, checkVars, cancelled, envVars>>

\* A peer joins, or its lease is refreshed, perhaps with another public IP.
PeerAdded(d) == \E g \in GatewaysOf(d) : Announce("Added", d, g)

\* A peer leaves; LeaseWatcher announces the lease it had stored.
PeerRemoved(d) == peers[d] # NoGateway /\ Announce("Removed", d, peers[d])

-----------------------------------------------------------------------------
(* run_route_network *)

\* Mutant: without a netlink connection run still waits for both tasks.
StartJoin ==
  /\ run = "start"
  /\ \/ run' = "loop" /\ check' = "sleep" /\ NoFault
     \/ run' = "join" /\ UNCHANGED check /\ Fault
  /\ UNCHANGED <<chanVars, loopVars, tracked, kernel, missing, dump, cancelled, flushes>>

\* The netlink connection opens and both tasks start; or it does not, and
\* run returns at once, leaving the watch task to itself.
Start ==
  /\ run = "start"
  /\ \/ run' = "loop" /\ check' = "sleep" /\ NoFault
     \/ run' = "done" /\ UNCHANGED check /\ Fault
  /\ UNCHANGED <<chanVars, loopVars, tracked, kernel, missing, dump, cancelled, flushes>>

\* The loop has an event of this type to handle, of a lease of its backend.
Received(type) ==
  /\ run = "loop" /\ loop = "recv" /\ inbox # <<>>
  /\ Head(inbox).type = type /\ Head(inbox).route.gw # Foreign

\* Events of leases of other backends are skipped.
SkipForeign ==
  /\ run = "loop" /\ loop = "recv" /\ inbox # <<>>
  /\ Head(inbox).route.gw = Foreign
  /\ inbox' = Tail(inbox)
  /\ UNCHANGED <<peers, events, run, loopVars, tracked, kernel, checkVars, cancelled, envVars>>

\* The loop takes the next event. Added: route_add tracks the route first.
RecvAdded ==
  /\ Received("Added")
  /\ route' = Head(inbox).route
  /\ tracked' = IF Contains(tracked, route') THEN tracked ELSE Append(tracked, route')
  /\ loop' = "list"
  /\ inbox' = Tail(inbox)
  /\ UNCHANGED <<peers, events, run, seen, kernel, checkVars, cancelled, envVars>>

\* Removed: taken off the list first.
RecvRemoved ==
  /\ Received("Removed")
  /\ route' = Head(inbox).route
  /\ tracked' = RemoveFirst(tracked, route')
  /\ loop' = "remove"
  /\ inbox' = Tail(inbox)
  /\ UNCHANGED <<peers, events, run, seen, kernel, checkVars, cancelled, envVars>>

\* route_add lists the routes to the subnet; a failed dump counts as none.
\* One to another gateway has to go first.
ListForReplace ==
  /\ loop = "list"
  /\ \/ seen' = kernel[route.dst] /\ NoFault
     \/ seen' = NoGateway /\ Fault
  /\ loop' = IF seen' \in {NoGateway, route.gw} THEN "relist" ELSE "replace"
  /\ UNCHANGED <<chanVars, run, route, tracked, kernel, checkVars, cancelled, flushes>>

\* It is deleted and untracked; if it cannot be deleted (or is no longer
\* there) route_add gives up.
Replace ==
  /\ loop = "replace"
  /\ \/ /\ kernel[route.dst] = seen
        /\ kernel' = [kernel EXCEPT ![route.dst] = NoGateway]
        /\ tracked' = RemoveFirst(tracked, Route(route.dst, seen))
        /\ loop' = "relist"
        /\ NoFault
     \/ /\ UNCHANGED <<kernel, tracked>>
        /\ loop' = "recv"
        /\ \/ kernel[route.dst] # seen /\ NoFault
           \/ kernel[route.dst] = seen /\ Fault
  /\ UNCHANGED <<chanVars, run, route, seen, checkVars, cancelled, flushes>>

\* The second listing: an equal route is kept.
ListForAdd ==
  /\ loop = "relist"
  /\ \/ seen' = kernel[route.dst] /\ NoFault
     \/ seen' = NoGateway /\ Fault
  /\ loop' = IF seen' = route.gw THEN "recv" ELSE "add"
  /\ UNCHANGED <<chanVars, run, route, tracked, kernel, checkVars, cancelled, flushes>>

\* The kernel refuses a route to a destination that has one.
KernelAdd(r) ==
  kernel' = IF kernel[r.dst] = NoGateway THEN [kernel EXCEPT ![r.dst] = r.gw] ELSE kernel

\* Mutant: the route is tracked and never added.
AddRouteSkip ==
  /\ loop = "add"
  /\ loop' = "recv"
  /\ UNCHANGED <<chanVars, run, route, seen, tracked, kernel, checkVars, cancelled, envVars>>

\* The route is added. (A refusal is logged; the third listing is unused.)
AddRoute ==
  /\ loop = "add"
  /\ \/ KernelAdd(route) /\ NoFault
     \/ UNCHANGED kernel /\ Fault
  /\ loop' = "recv"
  /\ UNCHANGED <<chanVars, run, route, seen, tracked, checkVars, cancelled, flushes>>

\* Removed: the kernel deletes exactly this route, if it has it.
DeleteRoute ==
  /\ loop = "remove"
  /\ \/ /\ kernel' = IF kernel[route.dst] = route.gw
                     THEN [kernel EXCEPT ![route.dst] = NoGateway] ELSE kernel
        /\ NoFault
     \/ UNCHANGED kernel /\ Fault
  /\ loop' = "recv"
  /\ UNCHANGED <<chanVars, run, route, seen, tracked, checkVars, cancelled, flushes>>

\* The token makes watch_leases return, which closes the channel; the loop
\* drains it and ends.
CloseEvents ==
  /\ run = "loop" /\ loop = "recv" /\ inbox = <<>>
  /\ cancelled
  /\ run' = "join"
  /\ UNCHANGED <<chanVars, loopVars, tracked, kernel, checkVars, cancelled, envVars>>

Join ==
  /\ run = "join"
  /\ check = "done"
  /\ run' = "done"
  /\ UNCHANGED <<chanVars, loopVars, tracked, kernel, checkVars, cancelled, envVars>>

-----------------------------------------------------------------------------
(* route_check, every ROUTE_CHECK_RETRIES seconds *)

\* check_subnet_exist_in_routes copies the list ... (The select is biased:
\* a cancelled token wins over the timer.)
CheckBegin ==
  /\ check = "sleep"
  /\ ~cancelled
  /\ check' = "dump"
  /\ missing' = tracked
  /\ UNCHANGED <<chanVars, run, loopVars, tracked, kernel, dump, cancelled, envVars>>

\* ... dumps the table (giving up until the next round if it cannot) ...
CheckDump ==
  /\ check = "dump"
  /\ \/ check' = "add" /\ dump' = kernel /\ UNCHANGED missing /\ NoFault
     \/ check' = "sleep" /\ missing' = <<>> /\ UNCHANGED dump /\ Fault
  /\ UNCHANGED <<chanVars, run, loopVars, tracked, kernel, cancelled, flushes>>

\* Mutant: only a subnet without any route counts as missing, and the round
\* stops at the first route that is there.
CheckAddStop ==
  /\ check = "add" /\ missing # <<>>
  /\ IF dump[Head(missing).dst] # NoGateway
     THEN UNCHANGED kernel /\ missing' = <<>>
     ELSE KernelAdd(Head(missing)) /\ missing' = Tail(missing)
  /\ UNCHANGED <<chanVars, run, loopVars, tracked, check, dump, cancelled, envVars>>

\* ... and adds each route the dump does not show.
CheckAdd ==
  /\ check = "add" /\ missing # <<>>
  /\ LET r == Head(missing)
     IN  \/ dump[r.dst] = r.gw /\ UNCHANGED kernel /\ NoFault
         \/ dump[r.dst] # r.gw /\ KernelAdd(r) /\ NoFault
         \/ dump[r.dst] # r.gw /\ UNCHANGED kernel /\ Fault
  /\ missing' = Tail(missing)
  /\ UNCHANGED <<chanVars, run, loopVars, tracked, check, dump, cancelled, flushes>>

CheckEnd ==
  /\ check = "add" /\ missing = <<>>
  /\ check' = "sleep"
  /\ UNCHANGED <<chanVars, run, loopVars, tracked, kernel, missing, dump, cancelled, envVars>>

\* The token ends the task, between rounds.
CheckStop ==
  /\ check = "sleep"
  /\ cancelled
  /\ check' = "done"
  /\ UNCHANGED <<chanVars, run, loopVars, tracked, kernel, missing, dump, cancelled, envVars>>

-----------------------------------------------------------------------------
(* Environment *)

\* A link flap or an operator deletes a route.
Flush(d) ==
  /\ flushes < MaxFlushes
  /\ kernel[d] # NoGateway
  /\ kernel' = [kernel EXCEPT ![d] = NoGateway]
  /\ flushes' = flushes + 1
  /\ UNCHANGED <<chanVars, run, loopVars, tracked, checkVars, cancelled, faults>>

Cancel ==
  /\ ~cancelled
  /\ cancelled' = TRUE
  /\ UNCHANGED <<chanVars, run, loopVars, tracked, kernel, checkVars, envVars>>

LoopStep ==
  \/ Start \/ SkipForeign \/ RecvAdded \/ RecvRemoved \/ ListForReplace \/ Replace
  \/ ListForAdd \/ AddRoute \/ DeleteRoute \/ CloseEvents \/ Join

CheckStep == CheckBegin \/ CheckDump \/ CheckAdd \/ CheckEnd \/ CheckStop

Next ==
  \/ LoopStep
  \/ CheckStep
  \/ Cancel
  \/ \E d \in Subnets : PeerAdded(d) \/ PeerRemoved(d) \/ Flush(d)

Spec == Init /\ [][Next]_vars

\* Both tasks run on, and the check's timer fires.
FairSpec == Spec /\ WF_vars(LoopStep) /\ WF_vars(CheckStep)

-----------------------------------------------------------------------------
(* Properties *)

\* The routes flannel may program, and the tables they may lead to.
Routes == {r \in [dst : Subnets, gw : Gateways] : r.gw \in GatewaysOf(r.dst)}
Kernels ==
  {k \in [Subnets -> Gateways \cup {NoGateway}] :
     \A d \in Subnets : k[d] \in GatewaysOf(d) \cup {NoGateway}}

\* Types: a route of the loop, the list, the check or the kernel leads to a
\* gateway the owner of its subnet may have.
TypeOK ==
  /\ peers \in [Subnets -> Gateways \cup {Foreign, NoGateway}]
  /\ events \in Nat /\ flushes \in Nat /\ faults \in Nat /\ cancelled \in BOOLEAN
  /\ Len(inbox) <= 1
  /\ inbox \in Seq([type : {"Added", "Removed"},
                    route : [dst : Subnets, gw : Gateways \cup {Foreign}]])
  /\ run \in {"start", "loop", "join", "done"}
  /\ loop \in {"recv", "list", "replace", "relist", "add", "remove"}
  /\ loop # "recv" => route \in Routes
  /\ seen \in Gateways \cup {NoGateway}
  /\ tracked \in Seq(Routes) /\ missing \in Seq(Routes)
  /\ kernel \in Kernels /\ dump \in Kernels
  /\ check \in {"off", "sleep", "dump", "add", "done"}

\* The loop has applied every event.
Idle == run = "loop" /\ loop = "recv" /\ inbox = <<>>

\* The owner of the subnet keeps its gateway and its backend.
Stable(d) == \E g \in GatewaysOf(d) : GatewaysOf(d) = {g}

\* The gateways the list has for a subnet.
TrackedGateways(d) ==
  {tracked[i].gw : i \in {j \in 1..Len(tracked) : tracked[j].dst = d}}

\* Whatever the check does in between, when the loop has caught up the
\* route of every peer with a stable gateway is in the kernel, unless it
\* was deleted from outside or a request failed. (A peer whose public IP
\* changes may lose its route for good: route_add deletes the old one, the
\* check, which copied the list before, re-adds it, and the kernel refuses
\* the new one.)
PeersRouted ==
  Idle /\ flushes = 0 /\ faults = 0 =>
    \A d \in Subnets : Stable(d) /\ peers[d] \in Gateways => kernel[d] = peers[d]

\* The list agrees with the peers, so a check re-adds nothing else.
TrackedArePeers ==
  Idle => \A d \in Subnets : Stable(d) => TrackedGateways(d) = {peers[d]} \cap Gateways

\* Both: table and list follow the peers' events, whatever the check does
\* concurrently from its older copy of the list.
RoutesFollowPeers == PeersRouted /\ TrackedArePeers

\* RouteNetwork "maintains one static route per peer subnet": none is left
\* for a subnet that is no longer a peer's. (Refuted: the check re-adds a
\* route from its copy of the list after the loop has removed it.)
NoRouteWithoutPeer ==
  Idle /\ check = "sleep" /\ flushes = 0 /\ faults = 0 =>
    \A d \in Subnets : peers[d] \notin Gateways => kernel[d] = NoGateway

\* route_check repairs what was deleted behind flannel's back or failed:
\* once events, flushes and faults stop, the route of every peer with a
\* stable gateway is there for good, unless the network shuts down.
Healed ==
  <>[](\A d \in Subnets : Stable(d) /\ peers[d] \in Gateways => kernel[d] = peers[d])
    \/ <>(cancelled \/ run = "done")

\* run waits for both tasks and returns after the token is cancelled, even
\* if it fires in the middle of a check or of a route_add.
RunReturns == cancelled ~> run = "done"
=============================================================================
