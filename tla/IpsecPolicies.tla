--------------------------- MODULE IpsecPolicies ----------------------------
(***************************************************************************)
(* The event handler of the ipsec backend (ipsec/network.rs): per peer     *)
(* three kernel policies (ipsec/xfrm.rs) and, in charon, the shared key of *)
(* the peer's address and a connection (ipsec/charon.rs over the VICI      *)
(* client of ipsec/vici.rs). Errors are logged and the next part tried;    *)
(* waiting for charon ends only with charon or the token.                  *)
(***************************************************************************)
EXTENDS LeaseWatcher

VARIABLES
  policy,       (* kernel: tunnel address of each <<direction, subnet>>    *)
  charon,       (* the child process: "up" or "dead"                       *)
  shared,       (* charon: addresses whose key is loaded                   *)
  conns         (* charon: the connections loaded, <<subnet, address>> (the *)
                (* rest of format_connection_name is the own lease)        *)

ipsecVars == <<policy, charon, shared, conns>>

Directions == {"out", "in", "fwd"}
Peer == Key(ev.lease)
PeerIp == ev.lease.attrs.ip

\* run has loaded the own key; charon was started by register_network.
IpsecInit ==
  /\ policy = [p \in Directions \X Subnets |-> None]
  /\ charon = "up"
  /\ shared = {} /\ conns = {}

IpsecAt(s) == step = s /\ UNCHANGED <<watcherVars, eventVars>>

-----------------------------------------------------------------------------
(* handle_subnet_events *)

\* Another backend's lease, or the own one.
IpsecSkip ==
  /\ Take
  /\ ev'.lease.attrs.kind = "foreign" \/ Key(ev'.lease) = OwnSubnet
  /\ UNCHANGED <<step, faults, ipsecVars>>

IpsecBegin ==
  /\ Take
  /\ ev'.lease.attrs.kind # "foreign" /\ Key(ev'.lease) # OwnSubnet
  /\ step' = IF ev'.type = "Added" THEN "polOut" ELSE "unload"
  /\ UNCHANGED <<faults, ipsecVars>>

\* add_xfrm_policy: GET, then NEW or UPD; either way the peer's address is
\* the tunnel's. A failure ends add_ipsec_policies, not the handler.
AddPolicy(dir, next) ==
  /\ \/ policy' = [policy EXCEPT ![<<dir, Peer>>] = PeerIp] /\ step' = next /\ UNCHANGED faults
     \/ UNCHANGED policy /\ step' = "key" /\ Fault
  /\ UNCHANGED <<charon, shared, conns>>

AddOut == IpsecAt("polOut") /\ AddPolicy("out", "polIn")
AddIn == IpsecAt("polIn") /\ AddPolicy("in", "polFwd")
AddFwd == IpsecAt("polFwd") /\ AddPolicy("fwd", "key")

\* Mutant: the wait for the client does not look at the token.
GetClientDeaf(next, giveUp) ==
  /\ charon = "up" /\ step' = next
  /\ UNCHANGED <<ipsecVars, faults>>

\* get_client: the socket is dialled every second, until charon answers or
\* the token fires.
GetClient(next, giveUp) ==
  /\ \/ charon = "up" /\ step' = next
     \/ charon = "dead" /\ cancelled /\ step' = giveUp
  /\ UNCHANGED <<ipsecVars, faults>>

GetKeyClient == IpsecAt("key") /\ GetClient("loadKey", "conn")
GetConnClient == IpsecAt("conn") /\ GetClient("loadConn", "idle")

\* load_shared_key: the request is repeated every second on the same client
\* until it succeeds; after one that failed the token ends it.
LoadSharedKey ==
  /\ IpsecAt("loadKey")
  /\ \/ charon = "up" /\ shared' = shared \cup {PeerIp} /\ step' = "conn" /\ UNCHANGED faults
     \/ charon = "up" /\ UNCHANGED shared /\ Fault
        /\ step' \in {"loadKey"} \cup (IF cancelled THEN {"conn"} ELSE {})
     \/ charon = "dead" /\ cancelled /\ step' = "conn" /\ UNCHANGED <<shared, faults>>
  /\ UNCHANGED <<policy, charon, conns>>

\* load_connection: one request; charon may have died since it was dialled.
LoadConnection ==
  /\ IpsecAt("loadConn")
  /\ \/ charon = "up" /\ conns' = conns \cup {<<Peer, PeerIp>>} /\ UNCHANGED faults
     \/ charon = "up" /\ UNCHANGED conns /\ Fault
     \/ charon = "dead" /\ UNCHANGED <<conns, faults>>
  /\ step' = "idle"
  /\ UNCHANGED <<policy, charon, shared>>

\* Mutant: the policies are deleted first, the connection not at all.
UnloadConnectionSkip ==
  /\ IpsecAt("unload")
  /\ step' = "delOut"
  /\ UNCHANGED <<policy, charon, shared, conns, faults>>

\* unload_charon_connection: no waiting; unloading what is not loaded is an
\* error like any other.
UnloadConnection ==
  /\ IpsecAt("unload")
  /\ \/ conns' = conns \ {<<Peer, PeerIp>>} /\ UNCHANGED faults
     \/ charon = "up" /\ UNCHANGED conns /\ Fault
  /\ step' = "delOut"
  /\ UNCHANGED <<policy, charon, shared>>

\* del_xfrm_policy: a policy that is not there is an error, and the first
\* error ends delete_ipsec_policies.
DelPolicy(dir, next) ==
  /\ \/ policy' = [policy EXCEPT ![<<dir, Peer>>] = None] /\ UNCHANGED faults
        /\ step' = IF policy[<<dir, Peer>>] = None THEN "idle" ELSE next
     \/ UNCHANGED policy /\ step' = "idle" /\ Fault
  /\ UNCHANGED <<charon, shared, conns>>

DelOut == IpsecAt("delOut") /\ DelPolicy("out", "delIn")
DelIn == IpsecAt("delIn") /\ DelPolicy("in", "delFwd")
DelFwd == IpsecAt("delFwd") /\ DelPolicy("fwd", "idle")

\* The end of charon takes what was loaded with it; nobody starts it again.
CharonEnds ==
  /\ charon = "up" /\ charon' = "dead"
  /\ shared' = {} /\ conns' = {}
  /\ UNCHANGED <<watcherVars, eventVars, step, policy>>

\* By itself, or by the task of spawn_charon, which sends SIGTERM at the
\* token and waits for the process.
CharonDies == CharonEnds /\ Fault
StopCharon == cancelled /\ CharonEnds /\ UNCHANGED faults

IpsecHandler ==
  \/ IpsecSkip \/ IpsecBegin
  \/ AddOut \/ AddIn \/ AddFwd
  \/ GetKeyClient \/ LoadSharedKey \/ GetConnClient \/ LoadConnection
  \/ UnloadConnection \/ DelOut \/ DelIn \/ DelFwd

-----------------------------------------------------------------------------
(* Properties *)

IpsecMine(d) == told[d] # None /\ told[d].kind # "foreign"

\* Traffic to a peer is protected end to end: a peer has its three
\* policies, all with its current address, and in charon, while it runs, the
\* key of that address and the connection.
IpsecProtected ==
  \A d \in Subnets : IpsecMine(d) =>
    /\ \A dir \in Directions : policy[<<dir, d>>] = told[d].ip
    /\ charon = "up" => told[d].ip \in shared /\ <<d, told[d].ip>> \in conns

\* Nothing of a subnet that is no longer a peer's is left, if its owner
\* kept its attributes.
IpsecForgets ==
  \A d \in Subnets : ~IpsecMine(d) /\ Stable(d) =>
    /\ \A dir \in Directions : policy[<<dir, d>>] = None
    /\ \A c \in conns : c[1] # d

\* A peer that keeps its address accepts tunnelled traffic (policies in and
\* fwd) only if it also sends its own through the tunnel (out): after a
\* failed request too, as the handler adds out first.
IpsecOutFirst ==
  \A d \in Subnets : IpsecMine(d) /\ Stable(d) =>
    \A dir \in {"in", "fwd"} : policy[<<dir, d>>] # None => policy[<<"out", d>>] # None

\* Kernel and charon follow the leases: between events a peer is never half
\* protected the wrong way round, even after one failed request or a charon
\* that died; without failure exactly the peers are protected, until the
\* token ends charon (their policies stay, so that nothing leaves in clear).
IpsecFollows ==
  backend = "ipsec" /\ step = "idle" =>
    /\ faults <= 1 => IpsecOutFirst
    /\ faults = 0 => IpsecProtected /\ IpsecForgets
=============================================================================
