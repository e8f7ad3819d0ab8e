--------------------------- MODULE MCRouteNetwork ---------------------------
(* A finite instance of RouteNetwork: the owner of d1 has a fixed gateway, *)
(* that of d2 may change its gateway or its backend.                       *)
EXTENDS RouteNetwork

CONSTANTS d1, d2, g1, g2

TwoSubnets == {d1, d2}
TwoGateways == {g1, g2}
OneStable(d) == IF d = d1 THEN {g1} ELSE {g1, g2, Foreign}
=============================================================================
