--------------------------- MODULE MCRegistration ---------------------------
EXTENDS Registration

\* The section is empty; a port and an MTU are given; another network.
P1 == [net |-> "a", port |-> 0, tune |-> "t1"]
P2 == [net |-> "a", port |-> 4789, tune |-> "t2"]
P3 == [net |-> "b", port |-> 0, tune |-> "t1"]

Conf(be, section, mode, fams, p) ==
  [be |-> be, section |-> section, mode |-> mode, fams |-> fams, p |-> p]

MCConfigs ==
  {Conf("vxlan", "null", "separate", {4, 6}, P1), Conf("vxlan", "ok", "separate", {4}, P2),
   Conf("vxlan", "bad", "separate", {4}, P1),
   Conf("wireguard", "ok", "separate", {4, 6}, P1),
   Conf("wireguard", "absent", "single", {4, 6}, P1),
   Conf("wireguard", "badpsk", "separate", {4}, P1),
   Conf("wireguard", "bad", "separate", {4}, P1),
   Conf("ipip", "absent", "separate", {4}, P1), Conf("ipip", "ok", "separate", {4}, P3),
   Conf("ipip", "null", "separate", {4}, P1),
   Conf("udp", "absent", "separate", {4}, P1), Conf("udp", "null", "separate", {4}, P1),
   Conf("tencentvpc", "ok", "separate", {4}, P1), Conf("tencentvpc", "absent", "separate", {4}, P1),
   Conf("tencentvpc", "bad", "separate", {4}, P1),
   Conf("ipsec", "ok", "separate", {4}, P1), Conf("ipsec", "absent", "separate", {4}, P1),
   Conf("alloc", "absent", "separate", {4}, P1),
   Conf("host-gw", "absent", "separate", {4, 6}, P1),
   Conf("extension", "null", "separate", {4, 6}, P1), Conf("extension", "bad", "separate", {4}, P1)}

Left(name, kind, p, a4, a6) ==
  [name |-> name,
   link |-> [kind |-> kind, p |-> p, id |-> 9, up |-> TRUE,
             addrs |-> [f \in Families |-> IF f = 4 THEN a4 ELSE a6]]]

\* What earlier runs under other configurations left: a vxlan link that fits
\* without a given port and not with one, and has another MTU; one of another
\* network; both with two addresses; and links of another kind under flannel's
\* names.
MCLeftovers ==
  {Left(<<"vxlan", 4>>, "vxlan", [P2 EXCEPT !.port = KernelPort], {"s1", "s2"}, {}),
   Left(<<"vxlan", 6>>, "vxlan", AsCreated(P3), {}, {"s1", "s2"}),
   Left(<<"vxlan", 4>>, "dummy", P1, {"s1"}, {}),
   Left(<<"wireguard", 4>>, "wireguard", P2, {"s1"}, {"s2"}),
   Left(<<"ipip", 4>>, "ipip", P3, {"s1"}, {}),
   Left(<<"ipip", 4>>, "dummy", P1, {}, {})}
=============================================================================
