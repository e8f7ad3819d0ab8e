------------------------------- MODULE MCDaemon -----------------------------
(* A finite instance of Daemon: a dual-stack vxlan daemon that comes back   *)
(* with another MAC, an alloc daemon, which has no informer, a host-gw one  *)
(* for IPv6 only, and configurations that cannot start.                     *)
EXTENDS Daemon, TLC

CONSTANT ipx

Config(type, data, v6, fams) ==
  [type |-> type, data |-> data, data6 |-> data, v6 |-> v6, fams |-> fams]

BackendAttrs ==
  { Config("vxlan", "m1", TRUE, {4, 6}), Config("vxlan", "m2", TRUE, {4, 6}),
    Config("", "null", FALSE, {4}), Config("host-gw", "null", TRUE, {6}),
    Config("nosuch", "null", FALSE, {4}), Config("", "null", FALSE, {}) }

SomeCidrs == {"unassigned", "v4", "dual", "malformed", "outside"}
OneIp == {ipx}

Plain == [margin |-> TRUE, signals |-> TRUE, healthz |-> "on", masq |-> TRUE,
          forward |-> TRUE, blackhole |-> TRUE, nft |-> FALSE]

AllOpts ==
  { Plain,
    [Plain EXCEPT !.margin = FALSE],
    [Plain EXCEPT !.healthz = "bad"],
    [Plain EXCEPT !.signals = FALSE, !.healthz = "off", !.nft = TRUE, !.masq = FALSE,
                  !.forward = FALSE, !.blackhole = FALSE] }

Addr(f, n, scope, permanent) ==
  [f |-> f, n |-> n, scope |-> scope, deprecated |-> FALSE, permanent |-> permanent,
   temporary |-> FALSE]
A4 == Addr(4, 1, "global", TRUE)
B4 == Addr(4, 2, "global", TRUE)
R4 == Addr(4, 9, "global", TRUE)
R6 == Addr(6, 9, "global", TRUE)
L6 == Addr(6, 1, "link", TRUE)
T6 == [Addr(6, 2, "global", FALSE) EXCEPT !.temporary = TRUE]
A6 == Addr(6, 3, "global", FALSE)
B6 == Addr(6, 4, "global", TRUE)
Old6 == [Addr(6, 5, "global", TRUE) EXCEPT !.deprecated = TRUE]

\* Both families on both interfaces; one family each, with the default
\* routes apart; an interface without a usable IPv6 address.
TwoIfaces(as, bs, d4, d6) ==
  [ifaces |-> <<[name |-> "eth0", mtu |-> 1, addrs |-> as],
                [name |-> "eth1", mtu |-> 1, addrs |-> bs]>>,
   default |-> (4 :> d4) @@ (6 :> d6),
   route |-> (R4 :> [oif |-> 1, src |-> as[1]]) @@ (R6 :> [oif |-> 2, src |-> B6])]
SomeHosts ==
  { TwoIfaces(<<A4, L6, T6, A6>>, <<B4, B6>>, 1, 1),
    TwoIfaces(<<A4>>, <<B4, B6>>, 1, 2),
    TwoIfaces(<<A4, Old6>>, <<B6>>, 1, 1) }

Ask(by, what) == [by |-> by, what |-> what]
Match(names, addrs) == Ask("regex", [names |-> names, addrs |-> addrs])
Nothing == [f \in {4, 6} |-> None]
Bare == [queries |-> <<>>, public |-> Nothing, stored |-> Nothing]
SomeIfaceOpts ==
  { Bare,
    [Bare EXCEPT !.public[4] = A4],
    [Bare EXCEPT !.public[4] = A4, !.public[6] = B6],
    [Bare EXCEPT !.public[4] = Bad, !.stored[4] = B4],
    [Bare EXCEPT !.public[6] = Bad],
    [Bare EXCEPT !.public[6] = B6],
    [Bare EXCEPT !.queries = <<Ask("name", "eth9"), Match({}, {A4, B4, A6, T6, B6})>>],
    [Bare EXCEPT !.queries = <<Ask("address", B4), Match({"eth0", "eth1"}, {})>>,
                 !.public[6] = A6],
    [Bare EXCEPT !.queries = <<Match({"eth1"}, {A4})>>],
    [Bare EXCEPT !.queries = <<Ask("name", "eth0")>>, !.public[4] = R4],
    [Bare EXCEPT !.queries = <<Ask("regex", Bad), Ask("reach", R4)>>],
    [Bare EXCEPT !.queries = <<Ask("reach", R6)>>],
    [Bare EXCEPT !.public[4] = A4, !.public[6] = A4] }
=============================================================================
