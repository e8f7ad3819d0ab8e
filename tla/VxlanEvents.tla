---------------------------- MODULE VxlanEvents -----------------------------
(***************************************************************************)
(* handle_subnet_events of the vxlan backend (backend/vxlan/events.rs):    *)
(* what a lease event programs into the kernel, one netlink request at a   *)
(* time: for each enabled family in turn the ARP entry of the peer         *)
(* subnet's gateway, the FDB entry of the peer's VTEP, and the route; or   *)
(* only a direct route when the peer is on the same network.               *)
(*                                                                         *)
(* A request stands for all attempts of retry_do; its failure (Fault)      *)
(* means that ten attempts failed, or one after the token was cancelled.   *)
(***************************************************************************)
EXTENDS LeaseWatcher, Naturals

CONSTANTS
  DirectIps,    (* sets of public IPs that may be on this network at first *)
  MaxMoves      (* bound: changes of what is directly reachable            *)

\* No entry, a direct route and a tunnelled one are different things.
ASSUME VxNoneAssumption == None \notin Ids /\ "vxlan" \notin Ips \cup {None}

VARIABLES
  fam,          (* the family of the request                               *)
  direct,       (* direct_ok, v6_direct_ok of the event in hand            *)
  arp,          (* kernel: MAC of each subnet's gateway, per family        *)
  fdb,          (* kernel: remote IP of each MAC                           *)
  route,        (* kernel: None, "vxlan" or the gateway of a direct route  *)
  near,         (* public IPs that are directly reachable now              *)
  moves

vxKernel == <<arp, fdb, route>>
vxVars == <<fam, direct, vxKernel, near, moves>>

Families == {"v4", "v6"}
Sn == Key(ev.lease)
Mac == ev.lease.attrs.id
Ip == ev.lease.attrs.ip

\* The families of the node's leases.
FamEnabled(f) == mode \in {f, "dual"}

VxlanInit ==
  /\ fam = "v4"
  /\ direct = [f \in Families |-> FALSE]
  /\ arp = [p \in Families \X Subnets |-> None]
  /\ fdb = [p \in Families \X Ids |-> None]
  /\ route = [p \in Families \X Subnets |-> None]
  /\ \E ips \in DirectIps : near = {f \in Families : FamEnabled(f)} \X ips
  /\ moves = 0

\* The families of a lease in the order of the handler, and its first step
\* in one of them.
FirstFam(l) == IF l.v4 THEN "v4" ELSE "v6"
AddStart(d, f) == IF d[f] THEN "direct" ELSE "arp"
RemoveStart(d, f) == IF d[f] THEN "delDirect" ELSE "delArp"
StartOf(e, d, f) == IF e.type = "Added" THEN AddStart(d, f) ELSE RemoveStart(d, f)

\* The data of every enabled family must decode before anything is done.
Decodes(l) == \/ l.attrs.kind \in {"good", "noport"}
              \/ l.attrs.kind = "half" /\ ~l.v6

-----------------------------------------------------------------------------
(* Events *)

\* A lease of another backend, or one that does not decode: continue.
VxSkip ==
  /\ Take
  /\ ~Decodes(ev'.lease)
  /\ UNCHANGED <<step, faults, vxVars>>

\* direct_routing(public_ip) is asked anew for every event and family,
\* before the first request; an error is "no".
VxBegin ==
  /\ Take
  /\ Decodes(ev'.lease)
  /\ \/ direct' = [f \in Families |-> <<f, ev'.lease.attrs.ip>> \in near]
        /\ UNCHANGED faults
     \/ \E f \in Families :
          /\ <<f, ev'.lease.attrs.ip>> \in near
          /\ direct' = [g \in Families |-> g # f /\ <<g, ev'.lease.attrs.ip>> \in near]
          /\ Fault
  /\ fam' = FirstFam(ev'.lease)
  /\ step' = StartOf(ev', direct', fam')
  /\ UNCHANGED <<vxKernel, near, moves>>

\* The family in hand is done: the same requests once more for IPv6, or the
\* next event. A failure of an addition is a continue: the other family is
\* not reached.
AddedDone ==
  IF fam = "v4" /\ ev.lease.v6
  THEN fam' = "v6" /\ step' = AddStart(direct, "v6")
  ELSE step' = "idle" /\ UNCHANGED fam
RemovedDone ==
  IF fam = "v4" /\ ev.lease.v6
  THEN fam' = "v6" /\ step' = RemoveStart(direct, "v6")
  ELSE step' = "idle" /\ UNCHANGED fam
GiveUp == step' = "idle" /\ UNCHANGED fam
At(s) == step = s /\ UNCHANGED <<watcherVars, eventVars, direct, near, moves>>

-----------------------------------------------------------------------------
(* Added *)

SetRoute(r) == route' = [route EXCEPT ![<<fam, Sn>>] = r]

AddDirect ==
  /\ At("direct")
  /\ \/ SetRoute(Ip) /\ AddedDone /\ UNCHANGED faults
     \/ UNCHANGED route /\ GiveUp /\ Fault
  /\ UNCHANGED <<arp, fdb>>

AddArp ==
  /\ At("arp")
  /\ \/ arp' = [arp EXCEPT ![<<fam, Sn>>] = Mac] /\ step' = "fdb" /\ UNCHANGED <<fam, faults>>
     \/ UNCHANGED arp /\ GiveUp /\ Fault
  /\ UNCHANGED <<fdb, route>>

\* Mutant: an existing entry is kept.
AddFdbKeep ==
  /\ At("fdb")
  /\ fdb' = [fdb EXCEPT ![<<fam, Mac>>] = IF @ = None THEN Ip ELSE @]
  /\ step' = "route"
  /\ UNCHANGED <<fam, arp, route, faults>>

\* On failure the ARP entry is taken back.
AddFdb ==
  /\ At("fdb")
  /\ \/ fdb' = [fdb EXCEPT ![<<fam, Mac>>] = Ip] /\ step' = "route" /\ UNCHANGED faults
     \/ UNCHANGED fdb /\ step' = "undoArp" /\ Fault
  /\ UNCHANGED <<fam, arp, route>>

\* The route comes last. On failure both entries are taken back.
AddRoute ==
  /\ At("route")
  /\ \/ SetRoute("vxlan") /\ AddedDone /\ UNCHANGED faults
     \/ UNCHANGED <<route, fam>> /\ step' = "undoBoth" /\ Fault
  /\ UNCHANGED <<arp, fdb>>

\* del_arp: the kernel deletes the gateway's entry, whatever its MAC.
DelArp(next) ==
  /\ \/ arp' = [arp EXCEPT ![<<fam, Sn>>] = None] /\ UNCHANGED faults
     \/ UNCHANGED arp /\ Fault
  /\ step' = next
  /\ UNCHANGED <<fam, fdb, route>>

\* del_fdb: it deletes the entry of the MAC to this very IP.
DelFdb(next) ==
  /\ \/ fdb' = [fdb EXCEPT ![<<fam, Mac>>] = IF @ = Ip THEN None ELSE @] /\ UNCHANGED faults
     \/ UNCHANGED fdb /\ Fault
  /\ step' = next
  /\ UNCHANGED <<fam, arp, route>>

UndoArp == At("undoArp") /\ DelArp("idle")
UndoBothArp == At("undoBoth") /\ DelArp("undoFdb")
UndoFdb == At("undoFdb") /\ DelFdb("idle")

-----------------------------------------------------------------------------
(* Removed: every entry is tried, failures are only logged *)

\* route_del: it deletes the subnet's route if it is the one given.
DelRoute(r) ==
  /\ \/ route' = [route EXCEPT ![<<fam, Sn>>] = IF @ = r THEN None ELSE @] /\ UNCHANGED faults
     \/ UNCHANGED route /\ Fault
  /\ RemovedDone
  /\ UNCHANGED <<arp, fdb>>

RemoveDirect == At("delDirect") /\ DelRoute(Ip)
RemoveArp == At("delArp") /\ DelArp("delFdb")

RemoveFdb == At("delFdb") /\ DelFdb("delRoute")
RemoveRoute == At("delRoute") /\ DelRoute("vxlan")

-----------------------------------------------------------------------------
\* The host's own routing changes: the address of a peer becomes directly
\* reachable or no longer is.
Move(f, ip) ==
  /\ moves < MaxMoves
  /\ FamEnabled(f)
  /\ \E d \in Subnets \ {OwnSubnet} : \E a \in AttrsOf(d) : a.ip = ip
  /\ moves' = moves + 1
  /\ near' = IF <<f, ip>> \in near THEN near \ {<<f, ip>>} ELSE near \cup {<<f, ip>>}
  /\ UNCHANGED <<watcherVars, eventVars, step, fam, direct, vxKernel, faults>>

VxlanHandler ==
  \/ VxSkip \/ VxBegin
  \/ AddDirect \/ AddArp \/ AddFdb \/ AddRoute
  \/ UndoArp \/ UndoBothArp \/ UndoFdb
  \/ RemoveDirect \/ RemoveArp \/ RemoveFdb \/ RemoveRoute

-----------------------------------------------------------------------------
(* Properties *)

VxMine(d) == told[d] # None /\ Decodes(LeaseOf(mode, d, told[d]))

\* "Set the route last: the kernel would ARP for Gw if it were not already
\* set above": a peer's subnet that is tunnelled has its ARP entry, in every
\* state and in both families, also for peers that come back with another
\* MAC or from another backend, while no request fails. (When the FDB
\* request of a peer that is announced again fails, the ARP entry is taken
\* back under the route of the first announcement.)
RouteHasArp ==
  faults = 0 => \A p \in Families \X Subnets :
                  VxMine(p[2]) /\ route[p] = "vxlan" => arp[p] # None

\* Between events every peer of this backend is reachable at its current
\* attributes in every family, through the tunnel (all three entries) or
\* directly, however often it changed its MAC, IP or network, as long as no
\* request failed.
PeersReachable ==
  backend = "vxlan" /\ step = "idle" /\ faults = 0 =>
    \A p \in Families \X Subnets : VxMine(p[2]) /\ FamEnabled(p[1]) =>
      LET a == told[p[2]]
      IN  \/ route[p] = a.ip
          \/ route[p] = "vxlan" /\ arp[p] = a.id /\ fdb[<<p[1], a.id>>] = a.ip

\* Nothing half done and nothing left, while a subnet's owner keeps its
\* attributes and its network: between events a peer's subnet has a route
\* or no entry at all in a family if at most one request has failed (the
\* cleanup of a failed addition is complete), and a subnet that is no
\* longer a peer's has no entry if none has ("Remove all entries"). (If the
\* peer's address has become, or stopped being, directly reachable since,
\* removal asks direct_routing anew and deletes the entries of the other
\* kind.)
NothingLeft ==
  backend = "vxlan" /\ step = "idle" /\ moves = 0 =>
    \A p \in Families \X Subnets : Stable(p[2]) =>
      LET bare == /\ arp[p] = None
                  /\ \A a \in AttrsOf(p[2]) : fdb[<<p[1], a.id>>] = None
      IN  /\ VxMine(p[2]) /\ faults <= 1 /\ route[p] = None => bare
          /\ ~VxMine(p[2]) /\ faults = 0 => bare /\ route[p] = None

\* All three: what the kernel has for the vxlan device follows the peers.
VxFollows == RouteHasArp /\ PeersReachable /\ NothingLeft
=============================================================================
