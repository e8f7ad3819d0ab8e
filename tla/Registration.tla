---------------------------- MODULE Registration ----------------------------
(***************************************************************************)
(* register_network of every backend: how a node gets its device, its key  *)
(* and its address, through restarts, reconfiguration, reboots and others  *)
(* who touch the same links.                                               *)
(*                                                                         *)
(* A device has the name of its backend and family; a link is its kind,    *)
(* its parameters, its identity (MAC or key), its addresses inside the     *)
(* flannel network and its state. The identity is what peers must know:    *)
(* vxlan announces the MAC, wireguard the public key, in the backend-data  *)
(* annotations of the node, which survive the host. An error in any step   *)
(* ends the process, as a kill does, and the process is started again.     *)
(***************************************************************************)
EXTENDS Naturals, FiniteSetsExt

CONSTANTS
  Configs,    (* [be, section, mode, fams, p]: backend, what the Backend
                 section of the configuration is ("absent", "null", "bad",
                 "badpsk" or "ok"), wireguard's mode, the families the
                 backend serves, and the parameters the section and the
                 interface give a link: [net, port, tune], where net is
                 what makes two links one network (the VNI, the underlying
                 interface and address, GBP, the end points of a tunnel)
                 and tune the MTU and whether it learns                    *)
  Subnets,    (* CIDRs the node may be given, each with its first address  *)
  Leftovers,  (* links a predecessor may have left: [name, link]           *)
  MaxIds,     (* bound: identities in use at a time                        *)
  MaxKills,   (* bound: how often the process is stopped from outside      *)
  MaxEvents,  (* bound: what others do                                     *)
  Defaults,   (* the parameters of a link when no section gives any        *)
  EnvKeys,    (* tencentvpc: the environment has the access keys           *)
  None

Families == {4, 6}
WithDevice == {"vxlan", "wireguard", "ipip", "udp"}
Backends == WithDevice \cup {"ipsec", "tencentvpc", "extension", "host-gw", "alloc"}
Names == WithDevice \X Families

\* Identities, and what a link may be.
Ids == 1..MaxIds
Kinds == WithDevice \cup {l.link.kind : l \in Leftovers}
Asked == {Defaults} \cup {c.p : c \in Configs}

\* The port the kernel gives a vxlan link that names none.
KernelPort == 8472
AsCreated(p) ==
  [net |-> p.net, port |-> IF p.port = 0 THEN KernelPort ELSE p.port, tune |-> p.tune]

Params == Asked \cup {AsCreated(p) : p \in Asked} \cup {l.link.p : l \in Leftovers}
Links ==
  [kind : Kinds, p : Params, up : BOOLEAN, id : Ids \cup {None},
   addrs : [Families -> SUBSET Subnets]]
Hands == [id : Ids \cup {None}, held : BOOLEAN]

\* Only wireguard has modes; the backends without IPv6 serve IPv4 whatever
\* the configuration enables.
ASSUME ConfigsAssumption ==
  \A c \in Configs :
    /\ c.be \in Backends /\ c.fams \subseteq Families /\ c.fams # {}
    /\ c.be # "wireguard" => c.mode = "separate"
    /\ c.be \notin {"vxlan", "wireguard", "host-gw", "extension"} => c.fams = {4}

ASSUME LeftoversAssumption ==
  \A l \in Leftovers : l.name \in Names /\ l.link \in Links /\ l.link.id \in Ids

\* At most 16 identities are in use at a time: of 8 links, 2 announcements,
\* 2 devices and 2 MACs in memory, the key file and the key.
ASSUME IdsAssumption == MaxIds \in Nat /\ MaxIds > 16

ASSUME NoneAssumption == None \notin Nat /\ None \notin Links /\ None \notin Hands

VARIABLES
  cfg, subnet,
  links,      (* the kernel's links, by name                               *)
  keyfile,    (* /run/flannel/wgkey: None, Empty or a key                  *)
  ann,        (* backend data announced on the node, by family             *)
  routes,     (* tencentvpc: routes to this node, enabled and disabled     *)
  pc, fam,    (* the step of register_network and its family               *)
  parm,       (* the parsed parameters                                     *)
  got,        (* MACs found on the node                                    *)
  key,        (* the key of setup_keys                                     *)
  hand,       (* the devices as the process remembers them                 *)
  lease,      (* the acquired subnet                                       *)
  seen,       (* the route table as it was described                       *)
  excused,    (* history: the families whose identity others took away     *)
  kills, events

host == <<cfg, subnet, kills, events>>
memory == <<parm, got, key, hand, lease, seen>>
vars == <<cfg, subnet, links, keyfile, ann, routes, pc, fam, parm, got, key, hand,
          lease, seen, excused, kills, events>>

Empty == 0    (* a key file that was created and not written *)
NoHand == [f \in Families |-> None]
NoRoutes == [on |-> 0, off |-> 0]

\* An identity that is in use nowhere: what a random one amounts to.
Used ==
  {links[n].id : n \in {m \in Names : links[m] # None}}
    \cup {ann[f].id : f \in {g \in Families : ann[g] # None}}
    \cup {hand[f].id : f \in {g \in Families : hand[g] # None}}
    \cup {got[f] : f \in Families} \cup {keyfile, key}
Fresh == CHOOSE i \in Ids : i \notin Used

-----------------------------------------------------------------------------
(* The configuration *)

\* The families that have a device of their own: wireguard's other modes
\* share one, and ipip and udp know IPv4 only.
DeviceFams(c) ==
  IF c.be \in {"ipip", "udp"} \/ c.mode = "single" THEN {4} ELSE c.fams

DeviceFam(f) == IF f \in DeviceFams(cfg) THEN f ELSE 4
Name(f) == <<cfg.be, DeviceFam(f)>>
FirstFam(fs) == Min(fs)
LaterFams(fs) == {f \in fs : f > fam}

\* host-gw and alloc read no section.
FirstStep(c) == IF c.be \in {"host-gw", "alloc"} THEN "acquire" ELSE "parse"

-----------------------------------------------------------------------------

Init ==
  /\ cfg \in Configs
  /\ subnet \in Subnets
  /\ \E l \in Leftovers \cup {None} :
       links = [n \in Names |-> IF l # None /\ l.name = n THEN l.link ELSE None]
  /\ keyfile = None
  /\ ann = [f \in Families |-> None]
  /\ routes \in [Subnets -> {NoRoutes, [on |-> 0, off |-> 1]}]
  /\ cfg.be # "tencentvpc" => routes = [s \in Subnets |-> NoRoutes]
  /\ pc = "down" /\ fam = 4
  /\ parm = None /\ got = NoHand /\ key = None /\ hand = NoHand
  /\ lease = None /\ seen = NoRoutes
  /\ excused = {}
  /\ kills = 0 /\ events = 0

\* The process is gone, and with it what it remembers and its tun device.
Down(ls) ==
  /\ pc' = "down" /\ fam' = 4
  /\ links' = [ls EXCEPT ![<<"udp", 4>>] = None]
  /\ parm' = None /\ got' = NoHand /\ key' = None /\ hand' = NoHand
  /\ lease' = None /\ seen' = NoRoutes

Bail == Down(links) /\ UNCHANGED <<cfg, subnet, keyfile, ann, routes, excused, kills, events>>

\* What is not this process's doing.
Event == events < MaxEvents /\ events' = events + 1

Start ==
  /\ pc = "down"
  /\ pc' = FirstStep(cfg)
  /\ fam' = FirstFam(DeviceFams(cfg))
  /\ UNCHANGED <<host, memory, links, keyfile, ann, routes, excused>>

Goto(from, to) == pc = from /\ pc' = to

\* After the step of a family: the same step of the next one, or on.
EachFam(fs, again, next) ==
  IF LaterFams(fs) # {}
    THEN pc' = again /\ fam' = FirstFam(LaterFams(fs))
    ELSE pc' = next /\ fam' = FirstFam(cfg.fams)

-----------------------------------------------------------------------------
(* The Backend section *)

Parsed(be, ok, p, next) ==
  /\ pc = "parse" /\ cfg.be = be
  /\ \/ ~ok /\ Bail
     \/ /\ ok
        /\ parm' = p /\ pc' = next
        /\ UNCHANGED <<host, links, keyfile, ann, routes, fam, got, key, hand, lease, seen,
                       excused>>

\* Fields that the section lacks keep their defaults; one of a wrong type is
\* an error. No section, or null, means the defaults.
Given == IF cfg.section \in {"absent", "null"} THEN Defaults ELSE cfg.p

ParseVxlanConfig == Parsed("vxlan", cfg.section # "bad", Given, "stored")

\* An invalid mode is an error of its own.
ParseWgConfig == Parsed("wireguard", cfg.section # "bad", Given, "keys")

\* These decode whatever is there: null is no object. The endpoint of the
\* ipip tunnel is the interface's address.
ParseIpipConfig == Parsed("ipip", cfg.section \in {"absent", "ok"}, cfg.p, "acquire")
ParseUdpConfig == Parsed("udp", cfg.section \in {"absent", "ok"}, cfg.p, "acquire")
ParseTencentConfig == Parsed("tencentvpc", cfg.section \in {"absent", "ok"}, cfg.p, "acquire")

\* The default is no PSK, and one that is too short is refused.
ParseIpsecConfig == Parsed("ipsec", cfg.section = "ok", cfg.p, "acquire")

ParseExtensionConfig == Parsed("extension", cfg.section # "bad", cfg.p, "pre")

-----------------------------------------------------------------------------
(* vxlan: the stored MAC *)

\* extract_mac: what another backend announced holds no MAC.
ExtractMac(a) == IF a # None /\ a.be = "vxlan" THEN a.id ELSE None

\* Mutant: the annotations are not asked for.
GetStoredMacAddressesNot ==
  /\ Goto("stored", "add")
  /\ got' = NoHand
  /\ UNCHANGED <<host, links, keyfile, ann, routes, fam, parm, key, hand, lease, seen, excused>>

\* get_stored_mac_addresses: a node that cannot be read has no MACs.
GetStoredMacAddresses ==
  /\ Goto("stored", "add")
  /\ \/ got' = [f \in Families |-> ExtractMac(ann[f])] /\ UNCHANGED <<excused, events>>
     \/ /\ events < MaxEvents /\ events' = events + 1
        /\ got' = NoHand /\ excused' = Families
  /\ UNCHANGED <<cfg, subnet, kills, links, keyfile, ann, routes, fam, parm, key, hand, lease, seen>>

(* wireguard: the key file *)

\* setup_keys creates the file and writes it in a second step; a file that is
\* there but holds no key is an error.
SetupKeys ==
  /\ pc = "keys"
  /\ \/ /\ keyfile = None
        /\ keyfile' = Empty /\ key' = Fresh
        /\ pc' = "writekey"
        /\ UNCHANGED <<host, links, ann, routes, fam, parm, got, hand, lease, seen, excused>>
     \/ keyfile = Empty /\ Bail
     \/ /\ keyfile \notin {None, Empty}
        /\ key' = keyfile
        /\ pc' = "psk"
        /\ UNCHANGED <<host, links, keyfile, ann, routes, fam, parm, got, hand, lease, seen,
                       excused>>

WritePrivateKey ==
  /\ Goto("writekey", "psk")
  /\ keyfile' = key
  /\ UNCHANGED <<host, memory, links, ann, routes, fam, excused>>

ParsePsk ==
  /\ pc = "psk"
  /\ \/ cfg.section = "badpsk" /\ Bail
     \/ /\ cfg.section # "badpsk"
        /\ pc' = "add"
        /\ UNCHANGED <<host, memory, links, keyfile, ann, routes, fam, excused>>

-----------------------------------------------------------------------------
(* The device *)

BareLink(be, p) ==
  [kind |-> be, p |-> p, up |-> FALSE, id |-> None, addrs |-> [f \in Families |-> {}]]

\* new_vxlan_device: the stored MAC, or a random one.
VxlanMac(f) == IF got[f] # None THEN got[f] ELSE Fresh

\* build_vxlan_link, which leaves out a port of zero, and its counterparts.
VxlanLink == [BareLink("vxlan", AsCreated(parm)) EXCEPT !.id = VxlanMac(fam)]
WireguardLink == BareLink("wireguard", parm)
IpipLink == BareLink("ipip", parm)

\* The device is added; that it exists is no error.
AddLink(be, l) ==
  /\ pc = "add" /\ cfg.be = be
  /\ IF links[Name(fam)] = None
       THEN links' = [links EXCEPT ![Name(fam)] = l] /\ pc' = "lookup"
       ELSE pc' = "exists" /\ UNCHANGED links
  /\ UNCHANGED <<host, memory, keyfile, ann, routes, fam, excused>>

\* Mutant: a device that exists is an error.
VxlanLinkAddOnce ==
  /\ pc = "add" /\ cfg.be = "vxlan"
  /\ \/ links[Name(fam)] = None /\ AddLink("vxlan", VxlanLink)
     \/ links[Name(fam)] # None /\ Bail

VxlanLinkAdd == AddLink("vxlan", VxlanLink)
WireguardLinkAdd == AddLink("wireguard", WireguardLink)
IpipLinkAdd == AddLink("ipip", IpipLink)

\* vxlan_links_incompat, negated: ports differ only when both are given, and
\* MTU and learning are not compared.
SamePort(p, q) == p.port = 0 \/ q.port = 0 \/ p.port = q.port
VxlanCompat(l) == l.kind = "vxlan" /\ l.p.net = parm.net /\ SamePort(parm, l.p)

\* One device is there: its MAC is the one the link has, asked for or not.
\* Then the device of the other family, or the lease.
Remember(again) ==
  /\ hand' = [hand EXCEPT ![fam] = [id |-> links[Name(fam)].id, held |-> TRUE]]
  /\ EachFam(DeviceFams(cfg), again, "acquire")

\* ensure_link, the device exists: it is looked up by name; a compatible one
\* is taken as it is, another one is to be replaced.
VxlanLinkExists ==
  /\ pc = "exists" /\ cfg.be = "vxlan"
  /\ LET l == links[Name(fam)] IN
     \/ l = None /\ Bail
     \/ /\ l # None /\ VxlanCompat(l)
        /\ Remember("add")
        /\ UNCHANGED <<host, links, keyfile, ann, routes, parm, got, key, lease, seen, excused>>
     \/ /\ l # None /\ ~VxlanCompat(l)
        /\ pc' = "delete"
        /\ UNCHANGED <<host, memory, links, keyfile, ann, routes, fam, excused>>

\* wireguard always replaces it.
WireguardLinkExists ==
  /\ pc = "exists" /\ cfg.be = "wireguard"
  /\ \/ links[Name(fam)] = None /\ Bail
     \/ /\ links[Name(fam)] # None
        /\ pc' = "delete"
        /\ UNCHANGED <<host, memory, links, keyfile, ann, routes, fam, excused>>

\* ipip refuses a link of another kind, and replaces a tunnel with other
\* endpoints.
IpipLinkExists ==
  /\ pc = "exists" /\ cfg.be = "ipip"
  /\ LET l == links[Name(fam)] IN
     \/ l = None /\ Bail
     \/ l # None /\ l.kind # "ipip" /\ Bail
     \/ /\ l # None /\ l.kind = "ipip"
        /\ pc' = IF l.p.net = parm.net THEN "lookup" ELSE "delete"
        /\ UNCHANGED <<host, memory, links, keyfile, ann, routes, fam, excused>>

LinkDel ==
  /\ pc = "delete"
  /\ \/ /\ links[Name(fam)] # None
        /\ links' = [links EXCEPT ![Name(fam)] = None]
        /\ pc' = "readd"
        /\ UNCHANGED <<host, memory, keyfile, ann, routes, fam, excused>>
     \/ links[Name(fam)] = None /\ Bail

LinkAddAgain ==
  /\ Goto("readd", "lookup")
  /\ links' = [links EXCEPT ![Name(fam)] =
                 CASE cfg.be = "vxlan" -> VxlanLink
                   [] cfg.be = "wireguard" -> WireguardLink
                   [] cfg.be = "ipip" -> IpipLink]
  /\ UNCHANGED <<host, memory, keyfile, ann, routes, fam, excused>>

\* The created device is looked up by name.
VxlanLinkLookup ==
  /\ pc = "lookup" /\ cfg.be = "vxlan"
  /\ \/ links[Name(fam)] = None /\ Bail
     \/ /\ links[Name(fam)] # None
        /\ Remember("add")
        /\ UNCHANGED <<host, links, keyfile, ann, routes, parm, got, key, lease, seen, excused>>

WireguardLinkLookup ==
  /\ pc = "lookup" /\ cfg.be = "wireguard"
  /\ \/ links[Name(fam)] = None /\ Bail
     \/ /\ links[Name(fam)] # None
        /\ hand' = [hand EXCEPT ![fam] = [id |-> None, held |-> TRUE]]
        /\ pc' = "configure"
        /\ UNCHANGED <<host, links, keyfile, ann, routes, fam, parm, got, key, lease, seen,
                       excused>>

\* The MTU is lowered here to 20 below the interface's; a lower one stays.
IpipLinkLookup ==
  /\ pc = "lookup" /\ cfg.be = "ipip"
  /\ \/ links[Name(fam)] = None /\ Bail
     \/ /\ links[Name(fam)] # None
        /\ hand' = [hand EXCEPT ![fam] = [id |-> None, held |-> TRUE]]
        /\ pc' = "address"
        /\ UNCHANGED <<host, links, keyfile, ann, routes, fam, parm, got, key, lease, seen,
                       excused>>

\* wireguard: the private key and the port are set on the device, by name,
\* and the task is spawned that removes the device at cancellation.
ConfigureDevice ==
  /\ pc = "configure"
  /\ \/ links[Name(fam)] = None /\ Bail
     \/ /\ links[Name(fam)] # None
        /\ links' = [links EXCEPT ![Name(fam)].id = key]
        /\ hand' = [hand EXCEPT ![fam].id = key]
        /\ EachFam(DeviceFams(cfg), "keys", "acquire")
        /\ UNCHANGED <<host, keyfile, ann, routes, parm, got, key, lease, seen, excused>>

-----------------------------------------------------------------------------
(* The lease *)

\* new_subnet_attrs, and which annotations acquire_lease writes: those of
\* IPv4 always but for vxlan without an IPv4 device, those of IPv6 only when
\* there is something to write. wireguard announces one key for both.
VxlanAttrs(f) == IF f \in cfg.fams THEN [be |-> "vxlan", id |-> hand[f].id] ELSE ann[f]
WireguardAttrs(f) ==
  IF f \in cfg.fams THEN [be |-> "wireguard", id |-> key]
  ELSE IF f = 4 THEN None ELSE ann[f]
NoData(f) ==
  IF f = 4 \/ (f \in cfg.fams /\ cfg.be \in {"host-gw", "extension"}) THEN None ELSE ann[f]

AcquireLease(be, attrs, next) ==
  /\ pc = "acquire" /\ cfg.be = be
  /\ ann' = attrs
  /\ lease' = subnet
  /\ excused' = {f \in excused : \/ f \notin cfg.fams
                                 \/ cfg.be = "vxlan" /\ links[Name(f)] # None
                                      /\ links[Name(f)].id # hand[f].id}
  /\ pc' = next
  /\ UNCHANGED <<host, links, keyfile, routes, fam, parm, got, key, hand, seen>>

VxlanAcquire == AcquireLease("vxlan", [f \in Families |-> VxlanAttrs(f)], "address")
WireguardAcquire == AcquireLease("wireguard", [f \in Families |-> WireguardAttrs(f)], "address")

Bare == [f \in Families |-> NoData(f)]
IpipAcquire == AcquireLease("ipip", Bare, "add")
UdpAcquire == AcquireLease("udp", Bare, "tun")
TencentAcquire == AcquireLease("tencentvpc", Bare, "secrets")
ExtensionAcquire == AcquireLease("extension", Bare, "post")
HostgwAcquire == AcquireLease("host-gw", Bare, "done")
AllocAcquire == AcquireLease("alloc", Bare, "done")

\* The IKE daemon is found, or attached to, after the lease.
IpsecAcquire == AcquireLease("ipsec", Bare, "done")

\* extension: the commands before and after the lease. One that fails fails
\* the registration, after the lease with the lease held.
StartupCommand(from, to) ==
  \/ Goto(from, to) /\ UNCHANGED <<host, memory, links, keyfile, ann, routes, fam, excused>>
  \/ /\ pc = from
     /\ Event
     /\ Down(links)
     /\ UNCHANGED <<cfg, subnet, keyfile, ann, routes, excused, kills>>

PreStartupCommand == StartupCommand("pre", "acquire")
PostStartupCommand == StartupCommand("post", "done")

-----------------------------------------------------------------------------
(* The address *)

Held(f) == hand[DeviceFam(f)].held
Addrs(f) == links[Name(f)].addrs[f]
SetAddrs(f, as) == links' = [links EXCEPT ![Name(f)].addrs[f] = as]

\* Mutant: the address is added to what is there.
EnsureV4AddressOnLinkKeep ==
  /\ pc = "address" /\ fam = 4
  /\ \/ ~Held(4) /\ Bail
     \/ /\ Held(4)
        /\ SetAddrs(4, Addrs(4) \cup {lease})
        /\ pc' = "up"
        /\ UNCHANGED <<host, memory, keyfile, ann, routes, fam, excused>>

\* ensure_v4_address_on_link: other addresses of the network are removed one
\* by one, then the wanted one is added unless it was there.
EnsureV4AddressOnLink ==
  /\ pc = "address" /\ fam = 4
  /\ \/ ~Held(4) /\ Bail
     \/ /\ Held(4)
        /\ \/ \E a \in Addrs(4) \ {lease} : SetAddrs(4, Addrs(4) \ {a}) /\ UNCHANGED pc
           \/ Addrs(4) \subseteq {lease} /\ SetAddrs(4, {lease}) /\ pc' = "up"
        /\ UNCHANGED <<host, memory, keyfile, ann, routes, fam, excused>>

\* ensure_v6_address_on_link: done as soon as the wanted one is met.
EnsureV6AddressOnLink ==
  /\ pc = "address" /\ fam = 6
  /\ \/ ~Held(6) /\ Bail
     \/ /\ Held(6)
        /\ \/ \E a \in Addrs(6) \ {lease} : SetAddrs(6, Addrs(6) \ {a}) /\ UNCHANGED pc
           \/ Addrs(6) = {} /\ SetAddrs(6, {lease}) /\ pc' = "up"
           \/ lease \in Addrs(6) /\ UNCHANGED links /\ pc' = "up"
        /\ UNCHANGED <<host, memory, keyfile, ann, routes, fam, excused>>

\* set_link_up, through the index that is remembered.
SetLinkUp(be) ==
  /\ pc = "up" /\ cfg.be = be /\ Held(fam)
  /\ links' = [links EXCEPT ![Name(fam)].up = TRUE]
  /\ UNCHANGED <<host, memory, keyfile, ann, routes, excused>>
LinkGone(be) == pc = "up" /\ cfg.be = be /\ ~Held(fam) /\ Bail

VxlanUp == LinkGone("vxlan") \/ (SetLinkUp("vxlan") /\ pc' = "check" /\ UNCHANGED fam)

\* wireguard adds the route of the flannel network with it.
WireguardUp ==
  LinkGone("wireguard") \/ (SetLinkUp("wireguard") /\ EachFam(cfg.fams, "address", "done"))

IpipUp == LinkGone("ipip") \/ (SetLinkUp("ipip") /\ pc' = "done" /\ UNCHANGED fam)

\* Mutant: the MAC is not looked at again.
CheckMacNot ==
  /\ pc = "check"
  /\ EachFam(cfg.fams, "address", "done")
  /\ UNCHANGED <<host, memory, links, keyfile, ann, routes, excused>>

\* check_mac: a device that is gone, or no vxlan device, is not looked at.
CheckMac ==
  /\ pc = "check"
  /\ LET l == links[Name(fam)]
         other == l # None /\ l.kind = "vxlan" /\ l.id # hand[fam].id IN
     \/ other /\ Bail
     \/ /\ ~other
        /\ EachFam(cfg.fams, "address", "done")
        /\ UNCHANGED <<host, memory, links, keyfile, ann, routes, excused>>

-----------------------------------------------------------------------------
(* udp and tencentvpc *)

\* open_tun: a new device, which ends with the process.
OpenTun ==
  /\ Goto("tun", "iface")
  /\ links' = [links EXCEPT ![<<"udp", 4>>] = BareLink("udp", parm)]
  /\ hand' = [hand EXCEPT ![4] = [id |-> None, held |-> TRUE]]
  /\ UNCHANGED <<host, keyfile, ann, routes, fam, parm, got, key, lease, seen, excused>>

\* configure_iface, by a name lookup, and the sockets.
ConfigureIface ==
  /\ pc = "iface"
  /\ \/ links[Name(4)] = None /\ Bail
     \/ /\ links[Name(4)] # None
        /\ links' = [links EXCEPT ![Name(4)].addrs[4] = {lease}, ![Name(4)].up = TRUE]
        /\ pc' = "done"
        /\ UNCHANGED <<host, memory, keyfile, ann, routes, fam, excused>>

\* Keys that the section does not give come from the environment; without
\* them registration fails, the lease being held.
ResolveKeys ==
  /\ pc = "secrets"
  /\ \/ ~(cfg.section = "ok" \/ EnvKeys) /\ Bail
     \/ /\ cfg.section = "ok" \/ EnvKeys
        /\ pc' = "describe"
        /\ UNCHANGED <<host, memory, links, keyfile, ann, routes, fam, excused>>

\* The region and the VPC are asked of the metadata service, then the route
\* tables of the VPC; the first one counts.
DescribeRouteTables ==
  /\ Goto("describe", "reconcile")
  /\ seen' = routes[lease]
  /\ UNCHANGED <<host, links, keyfile, ann, routes, fam, parm, got, key, hand, lease, excused>>

\* reconcile_routes: disabled routes are deleted ...
DeleteRoutes ==
  /\ pc = "reconcile" /\ seen.off > 0
  /\ seen' = [seen EXCEPT !.off = @ - 1]
  /\ routes' = [routes EXCEPT ![lease].off = @ - 1]
  /\ UNCHANGED <<host, links, keyfile, ann, pc, fam, parm, got, key, hand, lease, excused>>

\* ... and the route is created unless an enabled one was seen.
CreateRoutes ==
  /\ Goto("reconcile", "done")
  /\ seen.off = 0
  /\ IF seen.on = 0 THEN routes' = [routes EXCEPT ![lease].on = @ + 1] ELSE UNCHANGED routes
  /\ UNCHANGED <<host, memory, links, keyfile, ann, fam, excused>>

-----------------------------------------------------------------------------
(* The others *)

\* The process is stopped. wireguard's detached tasks delete the devices at
\* cancellation, if they still get to run.
Stop ==
  /\ pc # "down"
  /\ kills < MaxKills /\ kills' = kills + 1
  /\ \E gone \in SUBSET {Name(f) : f \in {g \in DeviceFams(cfg) :
                          cfg.be = "wireguard" /\ hand[g] # None /\ hand[g].held}} :
       Down([n \in Names |-> IF n \in gone THEN None ELSE links[n]])
  /\ UNCHANGED <<cfg, subnet, keyfile, ann, routes, excused, events>>

\* udev gives a device it sees for the first time a MAC of its own.
ChangeMac(n) ==
  /\ Event
  /\ n[1] = "vxlan" /\ links[n] # None /\ ~links[n].up
  /\ links' = [links EXCEPT ![n].id = Fresh]
  /\ excused' = excused \cup {n[2]}
  /\ UNCHANGED <<cfg, subnet, kills, memory, keyfile, ann, routes, pc, fam>>

\* An operator deletes a link.
DeleteLink(n) ==
  /\ Event
  /\ links[n] # None
  /\ links' = [links EXCEPT ![n] = None]
  /\ hand' = [f \in Families |->
                IF hand[f] # None /\ n = <<cfg.be, f>> THEN [hand[f] EXCEPT !.held = FALSE]
                ELSE hand[f]]
  /\ UNCHANGED <<cfg, subnet, kills, keyfile, ann, routes, pc, fam, parm, got, key, lease, seen, excused>>

\* The host reboots: links and /run are gone, the annotations stay.
Reboot ==
  /\ Event
  /\ keyfile' = None
  /\ excused' = IF keyfile # None THEN Families ELSE excused
  /\ Down([n \in Names |-> None])
  /\ UNCHANGED <<cfg, subnet, kills, ann, routes>>

\* Between two starts the configuration, the node's CIDR or the state of a
\* route changes.
Reconfigure ==
  /\ Event /\ pc = "down"
  /\ \/ cfg' \in Configs /\ UNCHANGED <<subnet, routes>>
     \/ subnet' \in Subnets /\ UNCHANGED <<cfg, routes>>
     \/ \E s \in Subnets : /\ routes[s].on > 0
                           /\ routes' = [routes EXCEPT ![s] = [on |-> @.on - 1, off |-> @.off + 1]]
                           /\ UNCHANGED <<cfg, subnet>>
  /\ UNCHANGED <<kills, memory, links, keyfile, ann, pc, fam, excused>>

-----------------------------------------------------------------------------

Register ==
  \/ Start
  \/ ParseVxlanConfig \/ ParseWgConfig \/ ParseIpipConfig \/ ParseUdpConfig
  \/ ParseIpsecConfig \/ ParseTencentConfig \/ ParseExtensionConfig
  \/ GetStoredMacAddresses \/ SetupKeys \/ WritePrivateKey \/ ParsePsk
  \/ VxlanLinkAdd \/ WireguardLinkAdd \/ IpipLinkAdd
  \/ VxlanLinkExists \/ WireguardLinkExists \/ IpipLinkExists
  \/ LinkDel \/ LinkAddAgain
  \/ VxlanLinkLookup \/ WireguardLinkLookup \/ IpipLinkLookup
  \/ ConfigureDevice
  \/ VxlanAcquire \/ WireguardAcquire \/ IpipAcquire \/ UdpAcquire \/ IpsecAcquire
  \/ TencentAcquire \/ ExtensionAcquire \/ HostgwAcquire \/ AllocAcquire
  \/ PreStartupCommand \/ PostStartupCommand
  \/ EnsureV4AddressOnLink \/ EnsureV6AddressOnLink
  \/ VxlanUp \/ WireguardUp \/ IpipUp \/ CheckMac
  \/ OpenTun \/ ConfigureIface
  \/ ResolveKeys \/ DescribeRouteTables \/ DeleteRoutes \/ CreateRoutes

Others == Stop \/ Reboot \/ Reconfigure \/ \E n \in Names : ChangeMac(n) \/ DeleteLink(n)

\* Registered: the network runs, which is the other modules' part.
Running == pc = "done" /\ UNCHANGED vars

Next == Register \/ Others \/ Running

Spec == Init /\ [][Next]_vars

\* The process is started again whenever it ends, and its steps are taken.
FairSpec == Spec /\ WF_vars(Register)

-----------------------------------------------------------------------------
(* Properties *)

\* The steps of each backend's register_network.
StepsOf(be) ==
  CASE be = "vxlan" -> {"parse", "stored", "add", "exists", "delete", "readd", "lookup",
                        "acquire", "address", "up", "check", "done"}
    [] be = "wireguard" -> {"parse", "keys", "writekey", "psk", "add", "exists", "delete", "readd",
                            "lookup", "configure", "acquire", "address", "up", "done"}
    [] be = "ipip" -> {"parse", "acquire", "add", "exists", "delete", "readd", "lookup",
                       "address", "up", "done"}
    [] be = "udp" -> {"parse", "acquire", "tun", "iface", "done"}
    [] be = "tencentvpc" -> {"parse", "acquire", "secrets", "describe", "reconcile", "done"}
    [] be = "extension" -> {"parse", "pre", "acquire", "post", "done"}
    [] OTHER -> {"parse", "acquire", "done"}

\* Types; a vxlan link has a MAC, and the VPC never two enabled routes of the
\* node.
TypeOK ==
  /\ cfg \in Configs /\ subnet \in Subnets
  /\ links \in [Names -> Links \cup {None}]
  /\ \A f \in Families : links[<<"vxlan", f>>] # None => links[<<"vxlan", f>>].id \in Ids
  /\ keyfile \in Ids \cup {None, Empty}
  /\ ann \in [Families -> [be : {"vxlan", "wireguard"}, id : Ids] \cup {None}]
  /\ routes \in [Subnets -> [on : {0, 1}, off : Nat]]
  /\ pc \in {"down"} \cup StepsOf(cfg.be) /\ fam \in Families
  /\ parm \in Asked \cup {None}
  /\ got \in [Families -> Ids \cup {None}] /\ key \in Ids \cup {None}
  /\ hand \in [Families -> Hands \cup {None}]
  /\ lease \in Subnets \cup {None} /\ seen \in [on : {0, 1}, off : Nat]
  /\ excused \subseteq Families
  /\ kills \in Nat /\ events \in Nat

\* What the backends do not accept as their section.
Refused(c) ==
  \/ c.section \in {"bad", "badpsk"}
  \/ c.section = "null" /\ c.be \in {"ipip", "udp", "tencentvpc"}
  \/ c.section # "ok" /\ (c.be = "ipsec" \/ (c.be = "tencentvpc" /\ ~EnvKeys))

Devices == {f \in cfg.fams : cfg.be \in {"vxlan", "wireguard"} /\ links[Name(f)] # None}

\* A node that has registered announces the identity its device really has:
\* the MAC of the vxlan device, the key of the wireguard device (vxlan/mod.rs
\* new_subnet_attrs and device.rs check_mac, after flannel issue 1795;
\* wireguard/mod.rs).
AnnouncedIsDevice ==
  pc = "done" => \A f \in Devices : ann[f] = [be |-> cfg.be, id |-> links[Name(f)].id]

\* Peers never have to learn a new MAC or key from a node that restarts, is
\* reconfigured or rebooted, as long as the old one was there to be restored
\* (vxlan/mod.rs create_vxlan_device: "flannel restart stability").
IdentityKept ==
  [][\A f \in Families :
       (ann[f] # None /\ ann'[f] # None /\ ann[f].be = ann'[f].be /\ ann'[f] # ann[f]) => f \in excused]_vars

\* The device is one of the network the configuration asks for. One that was
\* made new (wireguard, udp) has all that was asked for; a vxlan link or an
\* ipip tunnel that was found and kept may have another MTU, or learn.
Fits(c, p, l) ==
  /\ l.kind = c.be
  /\ l.p.net = p.net
  /\ c.be = "vxlan" => SamePort(p, l.p)
  /\ c.be \in {"wireguard", "udp"} => l.p = p

\* A node that has registered has a device of the network its configuration
\* asks for, whatever it found (vxlan/device.rs ensure_link and its
\* counterparts), with the address of its lease and no other IPv4 one of the
\* network, and one enabled route of its own in the VPC. Two things are not
\* claimed, as the code does not keep them: a kept device may have an MTU of
\* an earlier configuration (vxlan_links_incompat compares neither MTU nor
\* learning), and of IPv6 another address may stay, against "keep exactly one"
\* of ip/iface/config.rs:119, as ensure_v6_address_on_link returns when it
\* meets the wanted one, before it has looked at those listed after it.
RegisteredFits ==
  pc = "done" =>
    /\ \A f \in cfg.fams :
         (cfg.be \in WithDevice /\ hand[DeviceFam(f)] # None /\ Held(f)) =>
           LET l == links[Name(f)] IN
             /\ Fits(cfg, parm, l) /\ l.up
             /\ lease \in l.addrs[f]
             /\ f = 4 => l.addrs[f] = {lease}
    /\ cfg.be = "tencentvpc" => routes[lease] = [on |-> 1, off |-> 0]

\* Registration is taken up again until it succeeds: no state that a failure,
\* a stop or a leftover link leaves behind blocks it, but for a section that
\* the backend refuses, a key file that was created and not written, and a
\* foreign link called flannel.ipip. (Others, and the startup commands of an
\* extension, get in its way at most MaxEvents times: a command that always
\* fails keeps the node from registering.)
Registers ==
  <>[](\/ pc = "done"
       \/ Refused(cfg)
       \/ cfg.be = "wireguard" /\ keyfile = Empty
       \/ cfg.be = "ipip" /\ links[<<"ipip", 4>>] # None /\ links[<<"ipip", 4>>].kind # "ipip")
=============================================================================
