------------------------------ MODULE ExtIface ------------------------------
(***************************************************************************)
(* Which interface flanneld uses, and with which addresses: the selection  *)
(* of flanneld/src/iface_select.rs, lookup_ext_iface of ipmatch/mod.rs and *)
(* the queries of ip/iface/query.rs, as operators on a host.               *)
(*                                                                         *)
(* A host is its interfaces in the order of the kernel, each with a name,  *)
(* an MTU and addresses, the interface of each default route (0 if there   *)
(* is none), and the route to every address that may be asked for. An      *)
(* address is its family f, a number, its scope ("global", "link" or       *)
(* another) and flags; a regular expression is the sets of the names and   *)
(* of the addresses that it matches.                                       *)
(***************************************************************************)
EXTENDS Naturals, SequencesExt, FiniteSetsExt

CONSTANTS None, Bad   (* nothing; a value that does not parse *)

Indices(h) == 1..Len(h.ifaces)
FirstOf(is) == IF is = {} THEN 0 ELSE Min(is)

-----------------------------------------------------------------------------
(* Queries *)

Usable(a) == a.scope \in {"global", "link"} /\ ~a.deprecated

\* compare_addrs, Less: global before link-local, permanent before
\* generated, other before temporary.
Before(a, b) ==
  \/ a.scope = "global" /\ b.scope = "link"
  \/ /\ ~(a.scope = "link" /\ b.scope = "global")
     /\ \/ a.permanent /\ ~b.permanent
        \/ a.permanent = b.permanent /\ ~a.temporary /\ b.temporary

\* get_iface_ip4_addrs and get_iface_ip6_addrs: where the usable addresses
\* of the family are; the first of ks in the order of preference; the first
\* that an expression matches. (The code sorts before it drops addresses
\* that cannot be used. A loopback or multicast one compares by its flags
\* with all others and may disturb their order: left out.)
IfaceAddrs(h, i, f) ==
  {k \in DOMAIN h.ifaces[i].addrs : LET a == h.ifaces[i].addrs[k] IN a.f = f /\ Usable(a)}

First(h, i, ks) ==
  LET as == h.ifaces[i].addrs
  IN  IF ks = {} THEN None
      ELSE as[Min({k \in ks : \A j \in ks : ~Before(as[j], as[k])})]

MatchIp(h, re, i, f) ==
  First(h, i, {k \in IfaceAddrs(h, i, f) : h.ifaces[i].addrs[k] \in re.addrs})

\* get_interface_by_ip and get_interface_by_ip6: any address of the family.
IfaceByIp(h, ip) ==
  FirstOf({i \in Indices(h) : \E k \in DOMAIN h.ifaces[i].addrs : h.ifaces[i].addrs[k] = ip})

IfaceByName(h, name) == FirstOf({i \in Indices(h) : h.ifaces[i].name = name})

\* get_default_gateway_interface and its IPv6 counterpart.
DefaultIface(h, f) == h.default[f]

\* get_interface_by_specific_ip_routing: interface and preferred source.
RouteTo(h, ip) == h.route[ip]

-----------------------------------------------------------------------------
(* lookup_ext_iface: the interface and the addresses that the way of asking *)
(* determines; stack is the set of enabled families                         *)

Found(i, a4, a6) ==
  IF i = 0 THEN None ELSE [iface |-> i, a |-> [f \in {4, 6} |-> IF f = 4 THEN a4 ELSE a6]]

\* The interface of the public IPv6 address, which may be one of IPv4 by
\* mistake (iface_by_ip6).
IfaceByPublic6(h, pub) ==
  IF pub[6] \in {None, Bad} THEN 0 ELSE IF pub[6].f = 4 THEN 0 ELSE IfaceByIp(h, pub[6])

\* Mutant: the interfaces of the two addresses are not compared.
ByAddressUnchecked(h, ip, stack, pub) ==
  LET i == IfaceByIp(h, ip)
      j == IfaceByPublic6(h, pub)
  IN  IF stack # {4, 6} \/ pub[6] \in {None, Bad}
      THEN IF ip.f = Min(stack) THEN Found(i, ip, IF stack = {6} THEN ip ELSE None) ELSE None
      ELSE IF ip.f = 6 THEN Found(j, None, pub[6])
      ELSE Found(i, ip, pub[6])

\* By an address, of IPv4 if it is enabled. With a public IPv6 address in dual
\* stack that is the other one, and must be on the same interface; it stands
\* alone if the address asked for is of IPv6.
ByAddress(h, ip, stack, pub) ==
  LET i == IfaceByIp(h, ip)
      j == IfaceByPublic6(h, pub)
  IN  IF stack # {4, 6} \/ pub[6] \in {None, Bad}
      THEN IF ip.f = Min(stack) THEN Found(i, ip, IF stack = {6} THEN ip ELSE None) ELSE None
      ELSE IF ip.f = 6 THEN Found(j, None, pub[6])
      ELSE IF i = j THEN Found(i, ip, pub[6]) ELSE None

\* By a regular expression: addresses first, then names. In dual stack both
\* families must match on one interface; an IPv4 address that matched on an
\* interface without such an IPv6 address stays behind when a name decides.
ByRegex(h, re, stack) ==
  LET match(i, f) == MatchIp(h, re, i, f)
      both == {i \in Indices(h) : \A f \in stack : match(i, f) # None}
      left == {i \in Indices(h) : match(i, 4) # None /\ IfaceAddrs(h, i, 6) # {}}
      named == {i \in Indices(h) : h.ifaces[i].name \in re.names}
      at(f, i) == IF f \in stack THEN match(i, f) ELSE None
  IN  IF both # {} THEN Found(Min(both), at(4, Min(both)), at(6, Min(both)))
      ELSE Found(FirstOf(named),
                 IF stack = {4, 6} /\ left # {} THEN match(Max(left), 4) ELSE None, None)

\* By an address that must be reachable: its source counts as the IPv4 one.
ByReach(h, ip) == Found(RouteTo(h, ip).oif, RouteTo(h, ip).src, None)

\* By the default routes, which must be those of one interface.
ByDefault(h, stack) ==
  IF \A f, g \in stack : DefaultIface(h, f) = DefaultIface(h, g)
  THEN Found(DefaultIface(h, Min(stack)), None, None)
  ELSE None

ByName(h, name) == Found(IfaceByName(h, name), None, None)

\* Addresses that are still open are the preferred ones of the interface.
Fill(h, r, stack) ==
  LET a == [f \in {4, 6} |-> IF f \in stack /\ r.a[f] = None
                             THEN First(h, r.iface, IfaceAddrs(h, r.iface, f)) ELSE r.a[f]]
  IN  IF (\E f \in stack : a[f] = None) \/ h.ifaces[r.iface].mtu = 0
      THEN None ELSE [r EXCEPT !.a = a]

\* The external addresses: the public ones, or those of the interface.
External(r, stack, pub) ==
  IF Bad \in {pub[4], pub[6]} THEN None
  ELSE [iface |-> r.iface, a |-> r.a,
        ext |-> [f \in {4, 6} |-> IF pub[f] # None THEN pub[f]
                                  ELSE IF f \in stack THEN r.a[f] ELSE None]]

LookupExtIface(h, q, stack, pub) ==
  LET r == CASE q.by = "address" -> ByAddress(h, q.what, stack, pub)
             [] q.by = "name" -> ByName(h, q.what)
             [] q.by = "regex" -> IF q.what = Bad THEN None ELSE ByRegex(h, q.what, stack)
             [] q.by = "reach" -> IF q.what = Bad THEN None ELSE ByReach(h, q.what)
             [] q.by = "default" -> ByDefault(h, stack)
      full == IF r = None THEN None ELSE Fill(h, r, stack)
  IN  IF full = None THEN None ELSE External(full, stack, pub)

\* select_external_iface: without --iface, --iface-regex and
\* --iface-can-reach the public address or the default route; otherwise the
\* first that is found, in this order (queries holds them in it).
SelectExternalIface(h, queries, stack, pub) ==
  LET first == IF pub[4] # None THEN pub[4] ELSE pub[6]
      only == [by |-> IF first = None THEN "default"
                      ELSE IF first = Bad THEN "name" ELSE "address",
               what |-> first]
      at(k) == LookupExtIface(h, queries[k], stack, pub)
      found == {k \in DOMAIN queries : at(k) # None}
  IN  IF queries = <<>> THEN LookupExtIface(h, only, stack, pub)
      ELSE IF found = {} THEN None ELSE at(Min(found))
=============================================================================
