-------------------------------- MODULE MCCni --------------------------------
EXTENDS Cni

Dual(s, t) == [f \in {4, 6} |-> IF f = 4 THEN s ELSE t]

\* Dual stack, and another IPv4 subnet with no network for IPv6.
MCEnvs ==
  {[sub |-> Dual("s1", "t1"), nets |-> {4, 6}, masq |-> TRUE],
   [sub |-> Dual("s2", "t1"), nets |-> {4}, masq |-> TRUE]}
=============================================================================
