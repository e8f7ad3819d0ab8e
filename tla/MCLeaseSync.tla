----------------------------- MODULE MCLeaseSync ----------------------------
(* A finite instance of LeaseSync: two peers, two CIDRs, three versions of *)
(* a node's annotations. A node may get any CIDR when it is created.       *)
EXTENDS LeaseSync

CONSTANTS n1, n2, c1, c2

TwoNodes == {n1, n2}
TwoCidrs == {c1, c2}
AnyCidr(n) == {c1, c2}
\* The third version has no public IP that parses.
ThreeVersions == {1, 2, 3}
NoAddress == {3}
=============================================================================
