------------------------------ MODULE MCTraffic -----------------------------
(* A finite instance of Traffic: two subnets, both tables.                 *)
EXTENDS Traffic

CONSTANTS s1, s2

TwoSubnets == {s1, s2}
BothTables == {"nat", "filter"}
=============================================================================
