------------------------------ MODULE Backends ------------------------------
(***************************************************************************)
(* The lease watch in front of the backends that follow lease events       *)
(* without a table of their own. A node runs the backend its network       *)
(* config names (backend/manager.rs: create), so in a behaviour only one   *)
(* of the handlers takes steps and the state of the others stays as it is. *)
(***************************************************************************)
EXTENDS VxlanEvents, WireguardPeers, IpsecPolicies, UdpProxy, Extension

backendVars == <<vxVars, wgVars, ipsecVars, udpVars, extVars>>
vars == <<watcherVars, eventVars, step, faults, backendVars>>

Init ==
  /\ WatcherInit
  /\ VxlanInit /\ WireguardInit /\ IpsecInit /\ UdpInit /\ ExtensionInit
  /\ backend # "vxlan" => near = {}
  /\ backend # "wireguard" => wgMode = CHOOSE m \in WgModes : TRUE
  /\ backend # "extension" => extCmds = {}

\* BackendManager::create: the constructor of the configured type.
Handler ==
  \/ /\ backend = "vxlan" /\ VxlanHandler
     /\ UNCHANGED <<wgVars, ipsecVars, udpVars, extVars>>
  \/ /\ backend = "wireguard" /\ WireguardHandler
     /\ UNCHANGED <<vxVars, ipsecVars, udpVars, extVars>>
  \/ /\ backend = "ipsec" /\ IpsecHandler
     /\ UNCHANGED <<vxVars, wgVars, udpVars, extVars>>
  \/ /\ backend = "udp" /\ UdpHandler
     /\ UNCHANGED <<vxVars, wgVars, ipsecVars, extVars>>
  \/ /\ backend = "extension" /\ ExtensionNext
     /\ UNCHANGED <<vxVars, wgVars, ipsecVars, udpVars>>

\* What runs beside the handler: the proxy's thread, and the task that
\* stops charon.
Helper ==
  \/ /\ backend = "udp" /\ ProcessCmd
     /\ UNCHANGED <<vxVars, wgVars, ipsecVars, extVars>>
  \/ /\ backend = "ipsec" /\ StopCharon
     /\ UNCHANGED <<vxVars, wgVars, udpVars, extVars>>

\* What happens to the backend from outside.
Environment ==
  \/ /\ backend = "vxlan" /\ \E f \in Families, ip \in Ips : Move(f, ip)
     /\ UNCHANGED <<wgVars, ipsecVars, udpVars, extVars>>
  \/ /\ backend = "wireguard" /\ \E f \in Fams : WgLinkDown(f)
     /\ UNCHANGED <<vxVars, ipsecVars, udpVars, extVars>>
  \/ /\ backend = "ipsec" /\ CharonDies
     /\ UNCHANGED <<vxVars, wgVars, udpVars, extVars>>
  \/ /\ backend = "udp" /\ (BurstBegins \/ BurstEnds \/ \E d \in Subnets : RoutePacket(d))
     /\ UNCHANGED <<vxVars, wgVars, ipsecVars, extVars>>

Next ==
  \/ (Update \/ Reset \/ Cancel) /\ UNCHANGED backendVars
  \/ Handler \/ Helper
  \/ Environment

\* The executor polls the tasks, and the proxy's thread runs. Packets may
\* keep coming: a burst need not end.
Spec == Init /\ [][Next]_vars /\ WF_vars(Handler) /\ WF_vars(Helper)

-----------------------------------------------------------------------------
\* A backend comes to an end after the token: the batch in hand is handled
\* (waiting for a dead charon gives up, a write to the proxy's socket is
\* read), charon is stopped and the proxy's thread has ended. This takes the
\* traffic to pause again and again: the proxy's inner loop reads no command
\* while packets keep coming ("the ctl socket may wait", proxy.rs:376).
Ended ==
  /\ Settled
  /\ backend = "ipsec" => charon = "dead"
  /\ backend = "udp" => proxy = "done"
BackendEnds == []<>(proxy # "burst") => (cancelled ~> Ended)
=============================================================================
