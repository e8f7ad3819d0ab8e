----------------------------- MODULE MCBackends -----------------------------
(* A finite instance of Backends: n0 is the own subnet; the owner of d1    *)
(* keeps its attributes and is directly reachable at first; that of d2 may *)
(* come back with another key, MAC or address, from another backend, with  *)
(* data that does not decode or from an older version.                     *)
EXTENDS Backends

CONSTANTS n0, d1, d2, k0, k1, k2, k3, i0, i1, i2, i3

AllBackends == {"vxlan", "wireguard", "ipsec", "udp", "extension"}
SomeModes(b) ==
  CASE b = "vxlan" -> {"v4", "dual"}
    [] b = "wireguard" -> {"dual", "v6"}
    [] b = "extension" -> {"none"}
    [] OTHER -> {"v4"}

AllSubnets == {n0, d1, d2}
AllIds == {k0, k1, k2, k3}
AllIps == {i0, i1, i2, i3}
A(kind, id, ip) == [kind |-> kind, id |-> id, ip |-> ip]
MixedAttrs(d) ==
  CASE d = n0 -> {A("good", k0, i0)}
    [] d = d1 -> {A("good", k1, i1)}
    [] OTHER -> {A("good", k2, i2), A("noport", k3, i3), A("foreign", k2, i2), A("half", k3, i2)}

SomeSnapshots(b) == CASE b = "extension" -> 2 [] b = "vxlan" -> 0 [] OTHER -> 1
NoneOrOneNear == {{}, {i1}}
AllWgModes == {"separate", "auto", "ipv4", "ipv6"}
SomePublic == {<<"v4", i1>>, <<"v6", i2>>, <<"v6", "own">>}
=============================================================================
