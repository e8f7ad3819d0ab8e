--------------------------- MODULE WireguardPeers ---------------------------
(***************************************************************************)
(* The event handler of the wireguard backend (wireguard/network.rs) on    *)
(* the devices of wireguard/device.rs. In "separate" mode each enabled     *)
(* family has a device of its own; in the others one device carries both   *)
(* and a peer is reached at one endpoint, of the family the mode (or       *)
(* select_mode) picks. All devices share the key file, so a node has one   *)
(* key. A failed request is only logged.                                   *)
(*                                                                         *)
(* A peer entry of a device is [ep, ips]: its endpoint <<family, ip, port>> *)
(* and its allowed IPs, pairs of a family and a subnet.                    *)
(***************************************************************************)
EXTENDS LeaseWatcher

CONSTANTS
  WgModes,      (* modes to look at                                        *)
  Public        (* <<family, ip>>: addresses that are not private; the     *)
                (* own ones are <<family, "own">>                          *)

Devices == {"dev", "v6dev"}
Fams == {"v4", "v6"}
WgEntries ==
  [ep : Fams \X Ips \X {"ListenPort", "ListenPortV6", "0"}, ips : SUBSET (Fams \X Subnets)]

ASSUME WgModesAssumption == WgModes \subseteq {"separate", "auto", "ipv4", "ipv6"}
ASSUME WgNoneAssumption == None \notin WgEntries

VARIABLES
  wgMode,       (* Mode of the backend config                              *)
  wgPeers,      (* kernel: the peers of the devices "dev" and "v6dev"      *)
  wgRoutes      (* kernel: families whose network is routed to its device  *)

wgVars == <<wgMode, wgPeers, wgRoutes>>

EnabledFams(l) == {f \in Fams : (f = "v4" /\ l.v4) \/ (f = "v6" /\ l.v6)}

\* register_network: which devices exist, and their listen ports. The
\* routes are those of configure and configure_v6.
DeviceExists(dev) ==
  IF wgMode = "separate" THEN IF dev = "dev" THEN mode \in {"v4", "dual"}
                                             ELSE mode \in {"v6", "dual"}
  ELSE dev = "dev"
ListenPort(dev) == IF dev = "dev" THEN "ListenPort" ELSE "ListenPortV6"

WireguardInit ==
  /\ wgMode \in WgModes
  /\ wgPeers = [p \in Devices \X Ids |-> None]
  /\ wgRoutes = {f \in Fams : mode \in {f, "dual"}}

-----------------------------------------------------------------------------
(* What a lease says of its node *)

\* new_subnet_attrs announces both ports; a port of 0 (older versions) is
\* taken to be that of the own device of the family, if there is one.
PortOf(a, f) ==
  LET dev == IF f = "v4" THEN "dev" ELSE "v6dev"
  IN  IF a.kind # "noport" THEN ListenPort(dev)
      ELSE IF DeviceExists(dev) THEN ListenPort(dev) ELSE "0"
Endpoint(a, f) == <<f, a.ip, PortOf(a, f)>>

\* select_mode; every node has both addresses.
SelectMode(ip) ==
  IF <<"v4", ip>> \in Public THEN "v4"
  ELSE IF <<"v6", ip>> \in Public /\ <<"v6", "own">> \in Public THEN "v6"
  ELSE "v4"
EndpointFam(ip) ==
  CASE wgMode = "auto" -> SelectMode(ip)
    [] wgMode = "ipv6" -> "v6"
    [] OTHER -> "v4"

-----------------------------------------------------------------------------
(* Requests to the kernel *)

\* Mutant: allowed IPs are added to those the peer had, and stay with the
\* peer that had them.
PeerAddedKeep(peers, dev, key, ep, ips) ==
  [peers EXCEPT ![<<dev, key>>] = [ep |-> ep, ips |-> IF @ = None THEN ips ELSE {}]]

\* add_peer: WGPEER_F_REPLACE_ALLOWEDIPS on the peer of this key; an allowed
\* IP belongs to one peer of a device, the last that asked for it.
PeerAdded(peers, dev, key, ep, ips) ==
  [p \in Devices \X Ids |->
     IF p = <<dev, key>> THEN [ep |-> ep, ips |-> ips]
     ELSE IF p[1] = dev /\ peers[p] # None
          THEN [peers[p] EXCEPT !.ips = @ \ ips] ELSE peers[p]]

\* remove_peer: WGPEER_F_REMOVE_ME; a key the device does not have is none.
RemovePeer(dev, key) ==
  \/ wgPeers' = [wgPeers EXCEPT ![<<dev, key>>] = None] /\ UNCHANGED faults
  \/ UNCHANGED wgPeers /\ Fault

AddPeer(dev, key, ep, ips) ==
  \/ wgPeers' = PeerAdded(wgPeers, dev, key, ep, ips) /\ UNCHANGED faults
  \/ UNCHANGED wgPeers /\ Fault

\* add_net_route: the link up and the network's route on it; or the network
\* config cannot be read.
AddNetRoute(f) ==
  \/ wgRoutes' = wgRoutes \cup {f} /\ UNCHANGED faults
  \/ UNCHANGED wgRoutes /\ Fault

-----------------------------------------------------------------------------
(* handle_added, handle_removed *)

Attrs == ev.lease.attrs
Allowed(fs) == {<<f, Key(ev.lease)>> : f \in fs}
WgAt(s) == step = s /\ UNCHANGED <<watcherVars, eventVars, wgMode>>

\* Not ours, or added with data that does not decode: return.
WgIgnored(e) ==
  \/ e.lease.attrs.kind = "foreign"
  \/ e.lease.attrs.kind = "half" /\ e.lease.v6 /\ (e.type = "Added" \/ ~e.lease.v4)
WgSkip ==
  /\ Take
  /\ WgIgnored(ev')
  /\ UNCHANGED <<step, faults, wgVars>>

WgBegin ==
  /\ Take
  /\ ~WgIgnored(ev')
  /\ step' = IF ev'.type = "Removed" THEN IF ev'.lease.v4 THEN "wgDel4" ELSE "wgDel6"
             ELSE IF wgMode # "separate" THEN "wgAdd"
             ELSE IF ev'.lease.v4 THEN "wgAdd4" ELSE "wgAdd6"
  /\ UNCHANGED <<faults, wgVars>>

\* Separate: the family's peer, then its route.
WgAdd4 ==
  /\ WgAt("wgAdd4")
  /\ AddPeer("dev", Attrs.id, Endpoint(Attrs, "v4"), Allowed({"v4"}))
  /\ step' = "wgRoute4"
  /\ UNCHANGED wgRoutes
WgRoute4 ==
  /\ WgAt("wgRoute4")
  /\ AddNetRoute("v4")
  /\ step' = IF ev.lease.v6 THEN "wgAdd6" ELSE "idle"
  /\ UNCHANGED wgPeers
WgAdd6 ==
  /\ WgAt("wgAdd6")
  /\ AddPeer("v6dev", Attrs.id, Endpoint(Attrs, "v6"), Allowed({"v6"}))
  /\ step' = "wgRoute6"
  /\ UNCHANGED wgRoutes
WgRoute6 ==
  /\ WgAt("wgRoute6")
  /\ AddNetRoute("v6")
  /\ step' = "idle"
  /\ UNCHANGED wgPeers

\* One device: the subnets of all enabled families, one endpoint, then the
\* routes of both networks of the config, enabled or not, one after the
\* other; if the config cannot be read neither.
WgAdd ==
  /\ WgAt("wgAdd")
  /\ AddPeer("dev", Attrs.id, Endpoint(Attrs, EndpointFam(Attrs.ip)),
             Allowed(EnabledFams(ev.lease)))
  /\ step' = "wgNet4"
  /\ UNCHANGED wgRoutes
WgAddNet4 ==
  /\ WgAt("wgNet4")
  /\ \/ AddNetRoute("v4") /\ step' = "wgNet6"
     \/ UNCHANGED wgRoutes /\ Fault /\ step' = "idle"
  /\ UNCHANGED wgPeers
WgAddNet6 ==
  /\ WgAt("wgNet6")
  /\ AddNetRoute("v6")
  /\ step' = "idle"
  /\ UNCHANGED wgPeers

\* The second family's data is decoded only now.
WgDel4 ==
  /\ WgAt("wgDel4")
  /\ RemovePeer("dev", Attrs.id)
  /\ step' = IF ev.lease.v6 /\ Attrs.kind # "half" THEN "wgDel6" ELSE "idle"
  /\ UNCHANGED wgRoutes
WgDel6 ==
  /\ WgAt("wgDel6")
  /\ RemovePeer(IF wgMode = "separate" THEN "v6dev" ELSE "dev", Attrs.id)
  /\ step' = "idle"
  /\ UNCHANGED wgRoutes

\* The host's administration: the link of a family is set down and the
\* kernel drops its routes.
WgLinkDown(f) ==
  /\ f \in wgRoutes
  /\ wgRoutes' = wgRoutes \ {f}
  /\ Fault
  /\ UNCHANGED <<watcherVars, eventVars, step, wgMode, wgPeers>>

WireguardHandler ==
  \/ WgSkip \/ WgBegin
  \/ WgAdd4 \/ WgRoute4 \/ WgAdd6 \/ WgRoute6 \/ WgAdd \/ WgAddNet4 \/ WgAddNet6
  \/ WgDel4 \/ WgDel6

-----------------------------------------------------------------------------
(* Properties *)

WgMine(d) == told[d] # None /\ ~WgIgnored(Added(LeaseOf(mode, d, told[d])))
WgDevice(f) == IF wgMode = "separate" /\ f = "v6" THEN "v6dev" ELSE "dev"

\* Cryptokey routing follows the leases: between events, and while no
\* request has failed, the subnet of every peer of this backend, in every
\* enabled family, is an allowed IP of exactly the key its lease announces,
\* and that key's endpoint is at the announced address, also for a peer
\* that came back with another key.
WgServed ==
  \A d \in Subnets, f \in Fams, k \in Ids : WgMine(d) /\ mode \in {f, "dual"} =>
    LET p == wgPeers[<<WgDevice(f), k>>]
    IN  /\ (p # None /\ <<f, d>> \in p.ips) <=> k = told[d].id
        /\ k = told[d].id => p.ep[2] = told[d].ip

\* A node that left is cut off: no device has its key, or an allowed IP in
\* its subnet, if its owner kept its attributes (Removed carries the stored
\* key).
WgCutOff ==
  \A d \in Subnets, p \in Devices \X Ids :
    told[d] = None /\ Stable(d) /\ wgPeers[p] # None =>
      /\ \A f \in Fams : <<f, d>> \notin wgPeers[p].ips
      /\ \A a \in AttrsOf(d) : p[2] # a.id

\* The devices serve exactly the peers: WgServed and WgCutOff between
\* events, while no request has failed.
WgFollows == backend = "wireguard" /\ step = "idle" /\ faults = 0 => WgServed /\ WgCutOff

\* "on `GetNetworkConfig` error Go still adds routes for the zero-valued
\* config; the Rust port logs and skips the routes": a network that is not
\* configured is never routed to a device. (The zero-valued IPv6 network of
\* an IPv4 cluster is ::/0.)
NoZeroRoute == backend = "wireguard" => wgRoutes \subseteq {f \in Fams : mode \in {f, "dual"}}
=============================================================================
