------------------------- MODULE RegistrationProofs -------------------------
(***************************************************************************)
(* Proofs about Registration, for every set of configurations, subnets and *)
(* leftover links and any number of stops, reboots, reconfigurations and   *)
(* changes by others.                                                      *)
(***************************************************************************)
EXTENDS Registration, FiniteSetTheorems, TLAPS

DFams == DeviceFams(cfg)
Dev(f) == links[<<cfg.be, f>>]

\* Steps before the device of the current family is there, and steps on the
\* device after the lease.
Making == {"parse", "stored", "keys", "writekey", "psk", "add", "exists", "delete", "readd", "lookup"}
Placing == {"address", "up", "check"}
Leased == Placing \cup {"done"}

\* The families whose device is in its final state.
Processed(f) == pc = "done" \/ (pc \in Placing /\ f < fam)

\* Which devices the process has, by its step: those of the families before
\* the current one, then all.
HandInv ==
  /\ pc \in {"down", "parse", "stored", "pre"} => hand = NoHand
  /\ \A f \in Families : hand[f] # None => f \in DFams /\ cfg.be \in WithDevice
  /\ pc \in Making \cup {"configure"} => fam \in DFams
  /\ pc \in Making => \A f \in DFams : hand[f] # None <=> f < fam
  /\ pc = "configure" => \A f \in DFams : hand[f] # None <=> f <= fam
  /\ pc = "acquire" =>
       IF cfg.be \in {"vxlan", "wireguard"}
         THEN fam = FirstFam(cfg.fams) /\ \A f \in DFams : hand[f] # None
         ELSE hand = NoHand /\ (cfg.be = "ipip" => fam = 4)
  /\ pc \in Placing => fam \in cfg.fams
  /\ pc \in Placing \cup {"iface", "done"} /\ cfg.be \in WithDevice => \A f \in DFams : hand[f] # None

\* A device the process holds is as the configuration wants it, and one it no
\* longer holds is not there: nobody makes links behind its back.
LinkInv ==
  /\ \A f \in Families : hand[f] # None =>
       IF hand[f].held THEN Dev(f) # None /\ Fits(cfg, parm, Dev(f))
       ELSE Dev(f) = None
  /\ pc = "lookup" /\ Dev(fam) # None => Fits(cfg, parm, Dev(fam))
  /\ cfg.be \in WithDevice /\ pc \notin {"down", "parse"} => parm \in Asked

\* What is announced is what the host would announce again, unless others
\* took it away: the MAC of a device that exists, the key in the file.
IdentityInv ==
  \A f \in Families : ann[f] # None /\ f \notin excused =>
    /\ ann[f].be = "vxlan" /\ links[<<"vxlan", f>>] # None => links[<<"vxlan", f>>].id = ann[f].id
    /\ ann[f].be = "wireguard" => keyfile = ann[f].id

\* vxlan: the process has found the announced MAC, or its device has it; a
\* device that is up keeps its MAC.
VxlanInv ==
  cfg.be = "vxlan" =>
    /\ \A f \in Families \ excused : ann[f] # None /\ ann[f].be = "vxlan" =>
         /\ pc \in {"add", "exists", "delete", "readd", "lookup"} => got[f] = ann[f].id
         /\ hand[f] # None => hand[f].id = ann[f].id
    /\ \A f \in Families \ excused : hand[f] # None /\ Dev(f) # None => Dev(f).id = hand[f].id
    /\ \A f \in Families : hand[f] # None => hand[f].id \in Ids
    /\ pc \in Leased => \A f \in cfg.fams : ann[f] = [be |-> "vxlan", id |-> hand[f].id]
    /\ pc = "check" /\ hand[fam] # None /\ hand[fam].held => Dev(fam).up
    /\ \A f \in cfg.fams : Processed(f) /\ hand[f] # None /\ hand[f].held =>
         Dev(f).up /\ Dev(f).id = hand[f].id

\* wireguard: the key in memory is the one in the file, and the devices have it.
WireguardInv ==
  cfg.be = "wireguard" =>
    /\ pc = "writekey" => keyfile = Empty /\ key \in Ids
    /\ (pc \notin {"down", "parse", "keys", "writekey"} \/ hand # NoHand) => key = keyfile /\ key \in Ids
    /\ \A f \in Families : hand[f] # None /\ hand[f].held /\ ~(pc = "configure" /\ f = fam) =>
         Dev(f).id = key
    /\ pc \in Leased => \A f \in cfg.fams : ann[f] = [be |-> "wireguard", id |-> key]

\* The address of the lease.
Placed(f) ==
  lease \in links[Name(f)].addrs[f] /\ (f = 4 => links[Name(f)].addrs[f] = {lease})

AddressInv ==
  /\ pc \in Leased \cup {"post", "tun", "iface", "secrets", "describe", "reconcile"} => lease \in Subnets
  /\ cfg.be = "ipip" /\ pc \in Making \ {"parse"} => lease \in Subnets
  /\ cfg.be \in WithDevice =>
       \A f \in cfg.fams : hand[DeviceFam(f)] # None /\ Held(f) =>
         /\ Processed(f) => Placed(f) /\ links[Name(f)].up
         /\ pc \in {"up", "check"} /\ f = fam => Placed(f)
         /\ pc = "check" /\ f = fam => links[Name(f)].up

\* tencentvpc: the table is as it was described, or as the process left it.
RouteInv ==
  /\ pc = "reconcile" => seen = routes[lease]
  /\ pc = "done" /\ cfg.be = "tencentvpc" => routes[lease] = [on |-> 1, off |-> 0]

IInv ==
  /\ TypeOK /\ HandInv /\ LinkInv /\ IdentityInv /\ VxlanInv /\ WireguardInv
  /\ AddressInv /\ RouteInv
-----------------------------------------------------------------------------
(* A fresh identity *)

LEMMA ImageSize ==
  ASSUME NEW S, IsFiniteSet(S), NEW g, NEW n \in Nat, Cardinality(S) <= n
  PROVE  /\ IsFiniteSet({g[x] : x \in S})
         /\ Cardinality({g[x] : x \in S}) \in Nat /\ Cardinality({g[x] : x \in S}) <= n
<1> DEFINE T == {g[x] : x \in S}
           h == [x \in S |-> g[x]]
<1>1. h \in Surjection(S, T)
  BY DEF Surjection
<1> HIDE DEF T, h
<1>2. IsFiniteSet(T) /\ Cardinality(T) <= Cardinality(S)
  BY <1>1, FS_Surjection
<1>3. Cardinality(S) \in Nat /\ Cardinality(T) \in Nat
  BY <1>2, FS_CardinalityType
<1>4. Cardinality(T) <= n
  BY <1>2, <1>3
<1> QED
  BY <1>2, <1>3, <1>4 DEF T

LEMMA UnionSize ==
  ASSUME NEW S, NEW T, IsFiniteSet(S), IsFiniteSet(T)
  PROVE  /\ IsFiniteSet(S \cup T) /\ Cardinality(S \cup T) <= Cardinality(S) + Cardinality(T)
         /\ Cardinality(S) \in Nat /\ Cardinality(T) \in Nat /\ Cardinality(S \cup T) \in Nat
<1>1. IsFiniteSet(S \cup T) /\ IsFiniteSet(S \cap T)
  BY FS_Union, FS_Intersection
<1>2. Cardinality(S \cup T) = Cardinality(S) + Cardinality(T) - Cardinality(S \cap T)
  BY FS_Union
<1>3. Cardinality(S) \in Nat /\ Cardinality(T) \in Nat /\ Cardinality(S \cap T) \in Nat
      /\ Cardinality(S \cup T) \in Nat
  BY <1>1, FS_CardinalityType
<1> QED
  BY <1>1, <1>2, <1>3

LEMMA PairSize ==
  ASSUME NEW a, NEW b
  PROVE  IsFiniteSet({a, b}) /\ Cardinality({a, b}) <= 2
<1>1. IsFiniteSet({a}) /\ Cardinality({a}) = 1 /\ IsFiniteSet({b}) /\ Cardinality({b}) = 1
  BY FS_Singleton
<1>2. {a, b} = {a} \cup {b}
  OBVIOUS
<1>3. IsFiniteSet({a} \cup {b}) /\ Cardinality({a} \cup {b}) <= 2
  BY <1>1, UnionSize
<1> QED
  BY <1>2, <1>3

\* There is always an identity that nobody uses.
LEMMA FreshLemma == Fresh \in Ids /\ Fresh \notin Used
<1> DEFINE LinkId == [n \in Names |-> links[n].id]
           AnnId == [f \in Families |-> ann[f].id]
           HandId == [f \in Families |-> hand[f].id]
           A == {LinkId[n] : n \in Names}
           B == {AnnId[f] : f \in Families}
           C == {HandId[f] : f \in Families}
           D == {got[f] : f \in Families}
           E == {keyfile, key}
<1>1. Used \subseteq (A \cup B) \cup ((C \cup D) \cup E)
  BY DEF Used
<1>2. IsFiniteSet(Families) /\ Cardinality(Families) <= 2
  BY PairSize DEF Families
<1>3. IsFiniteSet(Names) /\ Cardinality(Names) <= 8
  <2>1. IsFiniteSet({"vxlan", "wireguard"}) /\ Cardinality({"vxlan", "wireguard"}) <= 2
    BY PairSize
  <2>2. IsFiniteSet({"ipip", "udp"}) /\ Cardinality({"ipip", "udp"}) <= 2
    BY PairSize
  <2>3. WithDevice = {"vxlan", "wireguard"} \cup {"ipip", "udp"}
    BY DEF WithDevice
  <2>4. IsFiniteSet(WithDevice) /\ Cardinality(WithDevice) <= 4
    BY <2>1, <2>2, <2>3, UnionSize
  <2>5. Cardinality(WithDevice) \in Nat /\ Cardinality(Families) \in Nat
    BY <1>2, <2>4, FS_CardinalityType
  <2>6. IsFiniteSet(Names) /\ Cardinality(Names) = Cardinality(WithDevice) * Cardinality(Families)
    BY <1>2, <2>4, FS_Product DEF Names
  <2>7. Cardinality(WithDevice) \in 0..4 /\ Cardinality(Families) \in 0..2
    BY <1>2, <2>4, <2>5
  <2> QED
    BY <2>6, <2>7
<1>4. IsFiniteSet(A) /\ Cardinality(A) <= 8
  BY <1>3, ImageSize
<1>5. IsFiniteSet(B) /\ Cardinality(B) <= 2
  BY <1>2, ImageSize
<1>6. IsFiniteSet(C) /\ Cardinality(C) <= 2
  BY <1>2, ImageSize
<1>7. IsFiniteSet(D) /\ Cardinality(D) <= 2
  BY <1>2, ImageSize
<1>8. IsFiniteSet(E) /\ Cardinality(E) <= 2
  BY PairSize
<1> HIDE DEF A, B, C, D, E
<1> DEFINE AB == A \cup B
           CD == C \cup D
           CDE == CD \cup E
           U == AB \cup CDE
<1>9. IsFiniteSet(AB) /\ Cardinality(AB) <= 10
  BY <1>4, <1>5, UnionSize
<1>10. IsFiniteSet(CD) /\ Cardinality(CD) <= 4
  BY <1>6, <1>7, UnionSize
<1> HIDE DEF AB, CD
<1>11. IsFiniteSet(CDE) /\ Cardinality(CDE) <= 6
  BY <1>8, <1>10, UnionSize
<1> HIDE DEF CDE
<1>12. IsFiniteSet(U) /\ Cardinality(U) <= 16
  BY <1>9, <1>11, UnionSize
<1> HIDE DEF U
<1>13. ~(Ids \subseteq U)
  <2> SUFFICES ASSUME Ids \subseteq U PROVE FALSE
    OBVIOUS
  <2>1. Cardinality(Ids) = MaxIds
    BY IdsAssumption, FS_Interval DEF Ids
  <2>2. Cardinality(Ids) <= Cardinality(U) /\ Cardinality(U) \in Nat
    BY <1>12, FS_Subset, FS_CardinalityType
  <2> QED
    BY <1>12, <2>1, <2>2, IdsAssumption
<1>14. \E i \in Ids : i \notin Used
  BY <1>1, <1>13 DEF U, AB, CD, CDE
<1> QED
  BY <1>14 DEF Fresh
-----------------------------------------------------------------------------
(* Families and steps *)

LEMMA MinLemma ==
  ASSUME NEW S \in SUBSET Families, S # {}
  PROVE  FirstFam(S) = IF 4 \in S THEN 4 ELSE 6
<1>1. CASE 4 \in S
  <2>1. 4 \in S /\ \A y \in S : 4 <= y
    BY <1>1 DEF Families
  <2>2. \A x \in S : (\A y \in S : x <= y) => x = 4
    BY <1>1 DEF Families
  <2> QED
    BY <1>1, <2>1, <2>2 DEF FirstFam, Min
<1>2. CASE 4 \notin S
  <2>1. S = {6}
    BY <1>2 DEF Families
  <2> QED
    BY <2>1 DEF FirstFam, Min
<1> QED
  BY <1>1, <1>2

LEMMA FamsLemma ==
  ASSUME cfg \in Configs
  PROVE  /\ cfg.be \in Backends
         /\ cfg.fams \subseteq Families /\ cfg.fams # {}
         /\ DFams \subseteq Families /\ DFams # {}
         /\ cfg.be = "vxlan" => DFams = cfg.fams
         /\ cfg.be \in Backends \ {"vxlan", "wireguard", "host-gw", "extension"} =>
              DFams = {4} /\ cfg.fams = {4}
         /\ \A f \in cfg.fams : DeviceFam(f) \in DFams /\ Name(f) = <<cfg.be, DeviceFam(f)>>
         /\ \A f \in DFams : DeviceFam(f) = f /\ Name(f) = <<cfg.be, f>>
         /\ \A f \in Families : cfg.be \in WithDevice => <<cfg.be, f>> \in Names
         /\ \A f \in Families : <<"vxlan", f>> \in Names
<1>1. /\ cfg.be \in Backends /\ cfg.fams \subseteq Families /\ cfg.fams # {}
      /\ cfg.be # "wireguard" => cfg.mode = "separate"
      /\ cfg.be \notin {"vxlan", "wireguard", "host-gw", "extension"} => cfg.fams = {4}
  BY ConfigsAssumption
<1>2. DFams \in {{4}, cfg.fams} /\ (cfg.be = "vxlan" => DFams = cfg.fams)
  BY <1>1 DEF DFams, DeviceFams
<1>3. \A f \in cfg.fams : DeviceFam(f) \in DFams
  BY <1>2 DEF DeviceFam, DFams
<1>4. \A f \in DFams : DeviceFam(f) = f
  BY DEF DeviceFam, DFams
<1>5. \A f \in Families : (cfg.be \in WithDevice => <<cfg.be, f>> \in Names) /\ <<"vxlan", f>> \in Names
  BY DEF Names, WithDevice
<1>6. DFams \subseteq Families /\ DFams # {}
  BY <1>1, <1>2 DEF Families
<1>7. cfg.be \in Backends \ {"vxlan", "wireguard", "host-gw", "extension"} =>
        DFams = {4} /\ cfg.fams = {4}
  BY <1>1, <1>2
<1>8. \A f : Name(f) = <<cfg.be, DeviceFam(f)>>
  BY DEF Name
<1> HIDE DEF DFams, Backends
<1> QED
  BY <1>1, <1>2, <1>3, <1>4, <1>5, <1>6, <1>7, <1>8

LEMMA EachFamLemma ==
  ASSUME cfg \in Configs, NEW fs \in {DFams, cfg.fams}, fam \in fs, NEW again, NEW next,
         EachFam(fs, again, next)
  PROVE  \/ fam = 4 /\ 6 \in fs /\ pc' = again /\ fam' = 6
         \/ (fam = 6 \/ 6 \notin fs) /\ pc' = next /\ fam' = FirstFam(cfg.fams) /\ fam' \in cfg.fams
<1>1. fs \subseteq Families /\ cfg.fams \subseteq Families /\ cfg.fams # {}
  BY FamsLemma
<1>2. LaterFams(fs) = IF fam = 4 /\ 6 \in fs THEN {6} ELSE {}
  <2>1. LaterFams(fs) = {f \in fs : f > fam} /\ fam \in {4, 6} /\ fs \subseteq {4, 6}
    BY <1>1 DEF LaterFams, Families
  <2>2. \A x \in {4, 6} : x > fam <=> x = 6 /\ fam = 4
    BY <2>1
  <2>3. \A x : x \in LaterFams(fs) <=> x = 6 /\ fam = 4 /\ 6 \in fs
    BY <2>1, <2>2
  <2> QED
    BY <2>3
<1>3. FirstFam(cfg.fams) \in cfg.fams
  BY <1>1, MinLemma DEF Families
<1>4. FirstFam({6}) = 6
  BY MinLemma DEF Families
<1> QED
  BY <1>1, <1>2, <1>3, <1>4 DEF EachFam, Families

\* Whose steps they are.
LEMMA WhoseStep ==
  ASSUME TypeOK
  PROVE  /\ pc \in {"stored", "check"} => cfg.be = "vxlan"
         /\ pc \in {"keys", "writekey", "psk", "configure"} => cfg.be = "wireguard"
         /\ pc \in {"add", "exists", "delete", "readd", "lookup", "address", "up"} =>
              cfg.be \in {"vxlan", "wireguard", "ipip"}
         /\ pc \in {"tun", "iface"} => cfg.be = "udp"
         /\ pc \in {"secrets", "describe", "reconcile"} => cfg.be = "tencentvpc"
         /\ pc \in {"pre", "post"} => cfg.be = "extension"
BY FamsLemma DEF TypeOK, StepsOf, Backends, WithDevice

\* What a write to a link changes.
LEMMA WriteLink ==
  ASSUME links \in [Names -> Links \cup {None}], NEW n \in Names, NEW l \in Links \cup {None},
         n[1] = "vxlan" /\ l # None => l.id \in Ids,
         \A f \in Families : links[<<"vxlan", f>>] # None => links[<<"vxlan", f>>].id \in Ids,
         links' = [links EXCEPT ![n] = l]
  PROVE  /\ links' \in [Names -> Links \cup {None}]
         /\ links'[n] = l /\ \A m \in Names : m # n => links'[m] = links[m]
         /\ \A f \in Families : links'[<<"vxlan", f>>] # None => links'[<<"vxlan", f>>].id \in Ids
<1>1. /\ links' \in [Names -> Links \cup {None}]
      /\ links'[n] = l /\ \A m \in Names : m # n => links'[m] = links[m]
  OBVIOUS
<1>2. ASSUME NEW f \in Families, links'[<<"vxlan", f>>] # None
      PROVE  links'[<<"vxlan", f>>].id \in Ids
  <2>1. <<"vxlan", f>> \in Names /\ <<"vxlan", f>>[1] = "vxlan"
    BY DEF Names, WithDevice
  <2>2. CASE n = <<"vxlan", f>>
    BY <1>1, <1>2, <2>1, <2>2
  <2>3. CASE n # <<"vxlan", f>>
    BY <1>1, <1>2, <2>1, <2>3
  <2> QED
    BY <2>2, <2>3
<1> QED
  BY <1>1, <1>2
LEMMA SetId ==
  ASSUME NEW l \in Links, NEW i \in Ids \cup {None}
  PROVE  LET m == [l EXCEPT !.id = i] IN
           /\ m \in Links /\ m # None
           /\ m.id = i /\ m.kind = l.kind /\ m.p = l.p /\ m.up = l.up /\ m.addrs = l.addrs
BY NoneAssumption DEF Links

LEMMA SetUp ==
  ASSUME NEW l \in Links
  PROVE  LET m == [l EXCEPT !.up = TRUE] IN
           /\ m \in Links /\ m # None
           /\ m.up /\ m.id = l.id /\ m.kind = l.kind /\ m.p = l.p /\ m.addrs = l.addrs
BY NoneAssumption DEF Links

WithAddrs(l, f, as) == [l EXCEPT !.addrs[f] = as]

LEMMA SetAddr ==
  ASSUME NEW l \in Links, NEW f \in Families, NEW as \in SUBSET Subnets
  PROVE  LET m == WithAddrs(l, f, as) IN
           /\ m \in Links /\ m # None
           /\ m.id = l.id /\ m.kind = l.kind /\ m.p = l.p /\ m.up = l.up
           /\ m.addrs[f] = as /\ \A g \in Families : g # f => m.addrs[g] = l.addrs[g]
<1>1. ASSUME NEW a \in [Families -> SUBSET Subnets]
      PROVE  LET m == [l EXCEPT !.addrs = a] IN
               /\ m \in Links /\ m # None
               /\ m.id = l.id /\ m.kind = l.kind /\ m.p = l.p /\ m.up = l.up /\ m.addrs = a
  BY NoneAssumption DEF Links
<1> DEFINE b == [l.addrs EXCEPT ![f] = as]
<1>2. l.addrs \in [Families -> SUBSET Subnets]
  BY DEF Links
<1>3. /\ b \in [Families -> SUBSET Subnets]
      /\ b[f] = as /\ \A g \in Families : g # f => b[g] = l.addrs[g]
  BY <1>2
<1>4. WithAddrs(l, f, as) = [l EXCEPT !.addrs = b]
  BY DEF WithAddrs
<1> HIDE DEF b
<1> QED
  BY <1>1, <1>3, <1>4

\* A part of a link is written.
LEMMA WritePart ==
  ASSUME links \in [Names -> Links \cup {None}], NEW n \in Names, NEW i
  PROVE  /\ [links EXCEPT ![n].id = i] = [links EXCEPT ![n] = [links[n] EXCEPT !.id = i]]
         /\ [links EXCEPT ![n].up = TRUE] = [links EXCEPT ![n] = [links[n] EXCEPT !.up = TRUE]]
OBVIOUS

\* Whether a link fits depends on its kind and its parameters.
LEMMA SameFits ==
  ASSUME NEW c, NEW p, NEW l, NEW m, m.kind = l.kind, m.p = l.p, Fits(c, p, l)
  PROVE  Fits(c, p, m)
BY DEF Fits
-----------------------------------------------------------------------------
(* The process ends or starts *)

LEMMA DownStep ==
  ASSUME IInv, NEW ls \in [Names -> Links \cup {None}], \A n \in Names : ls[n] \in {None, links[n]},
         Down(ls), UNCHANGED <<cfg, subnet, ann, routes>>, kills' \in Nat, events' \in Nat,
         excused \subseteq excused', excused' \subseteq Families,
         keyfile' = keyfile \/ (keyfile' = None /\ excused' = Families)
  PROVE  IInv'
<1>1. /\ pc' = "down" /\ fam' = 4 /\ parm' = None /\ got' = NoHand /\ key' = None /\ hand' = NoHand
      /\ lease' = None /\ seen' = NoRoutes
      /\ links' = [ls EXCEPT ![<<"udp", 4>>] = None]
  BY DEF Down
<1>2. /\ links' \in [Names -> Links \cup {None}]
      /\ \A n \in Names : links'[n] \in {None, links[n]}
  BY <1>1 DEF Names, WithDevice, Families
<1>3. \A f \in Families : links'[<<"vxlan", f>>] \in {None, links[<<"vxlan", f>>]}
  BY <1>2, FamsLemma DEF IInv, TypeOK
<1>4. \A f \in Families : NoHand[f] = None
  BY DEF NoHand
<1>5. NoRoutes \in [on : {0, 1}, off : Nat]
  BY DEF NoRoutes
<1>6. TypeOK'
  <2>1. got' \in [Families -> Ids \cup {None}] /\ hand' \in [Families -> Hands \cup {None}]
    BY <1>1 DEF NoHand
  <2>2. keyfile' \in Ids \cup {None, Empty}
    BY DEF IInv, TypeOK
  <2> QED
    BY <1>1, <1>2, <1>3, <1>5, <2>1, <2>2 DEF IInv, TypeOK, Families
<1>7. HandInv'
  BY <1>1, <1>4 DEF HandInv, Making, Placing
<1>8. LinkInv' /\ RouteInv'
  BY <1>1, <1>4 DEF LinkInv, RouteInv
<1>9. IdentityInv'
  BY <1>3 DEF IInv, IdentityInv
<1>10. VxlanInv' /\ WireguardInv'
  <2>1. cfg.fams \subseteq Families
    BY FamsLemma DEF IInv, TypeOK
  <2> QED
    BY <1>1, <1>4, <2>1 DEF VxlanInv, WireguardInv, Leased, Placing, Processed
<1>11. AddressInv'
  <2>1. \A f \in cfg.fams : DeviceFam(f) \in Families /\ DeviceFam(f)' = DeviceFam(f)
    BY FamsLemma DEF IInv, TypeOK, DeviceFam
  <2> QED
    BY <1>1, <1>4, <2>1 DEF AddressInv, Leased, Placing, Making
<1> QED
  BY <1>6, <1>7, <1>8, <1>9, <1>10, <1>11 DEF IInv

LEMMA BailStep ==
  ASSUME IInv, Bail
  PROVE  IInv'
<1>1. /\ links \in [Names -> Links \cup {None}] /\ kills \in Nat /\ events \in Nat /\ excused \subseteq Families
  BY DEF IInv, TypeOK
<1> QED
  BY <1>1, DownStep DEF Bail

LEMMA StopStep ==
  ASSUME IInv, Stop
  PROVE  IInv'
<1>1. PICK gone : Down([n \in Names |-> IF n \in gone THEN None ELSE links[n]])
  BY DEF Stop
<1>2. /\ links \in [Names -> Links \cup {None}] /\ kills \in Nat /\ events \in Nat /\ excused \subseteq Families
  BY DEF IInv, TypeOK
<1> DEFINE ls == [n \in Names |-> IF n \in gone THEN None ELSE links[n]]
<1>3. ls \in [Names -> Links \cup {None}] /\ \A n \in Names : ls[n] \in {None, links[n]}
  BY <1>2
<1>4. UNCHANGED <<cfg, subnet, keyfile, ann, routes, excused, events>> /\ kills' = kills + 1
  BY DEF Stop
<1> HIDE DEF ls
<1> QED
  BY <1>1, <1>2, <1>3, <1>4, DownStep DEF ls

LEMMA RebootStep ==
  ASSUME IInv, Reboot
  PROVE  IInv'
<1> DEFINE ls == [n \in Names |-> None]
<1>1. ls \in [Names -> Links \cup {None}] /\ \A n \in Names : ls[n] \in {None, links[n]}
  OBVIOUS
<1>2. /\ Down(ls) /\ UNCHANGED <<cfg, subnet, kills, ann, routes>> /\ events' = events + 1
      /\ keyfile' = None /\ excused' = IF keyfile # None THEN Families ELSE excused
  BY DEF Reboot, Event
<1>3. kills \in Nat /\ events \in Nat /\ excused \subseteq Families
  BY DEF IInv, TypeOK
<1> HIDE DEF ls
<1> QED
  BY <1>1, <1>2, <1>3, DownStep

LEMMA ReconfigureStep ==
  ASSUME IInv, Reconfigure
  PROVE  IInv'
<1>1. /\ pc = "down" /\ events' = events + 1
      /\ UNCHANGED <<kills, parm, got, key, hand, lease, seen, links, keyfile, ann, pc, fam, excused>>
      /\ cfg' \in Configs /\ subnet' \in Subnets
      /\ routes' \in [Subnets -> [on : {0, 1}, off : Nat]]
  <2>1. /\ pc = "down" /\ events' = events + 1
        /\ UNCHANGED <<kills, parm, got, key, hand, lease, seen, links, keyfile, ann, pc, fam, excused>>
    BY DEF Reconfigure, Event, memory
  <2>2. cfg \in Configs /\ subnet \in Subnets /\ routes \in [Subnets -> [on : {0, 1}, off : Nat]]
    BY DEF IInv, TypeOK
  <2>3. ASSUME NEW s \in Subnets, routes[s].on > 0,
               routes' = [routes EXCEPT ![s] = [on |-> @.on - 1, off |-> @.off + 1]]
        PROVE  routes' \in [Subnets -> [on : {0, 1}, off : Nat]]
    <3>1. routes[s].on = 1 /\ routes[s].off \in Nat
      BY <2>2, <2>3
    <3> QED
      BY <2>2, <2>3, <3>1
  <2> QED
    BY <2>1, <2>2, <2>3 DEF Reconfigure
<1>2. hand = NoHand /\ \A f \in Families : NoHand[f] = None
  BY <1>1 DEF IInv, HandInv, NoHand
<1>3. TypeOK'
  BY <1>1 DEF IInv, TypeOK
<1>4. HandInv' /\ LinkInv' /\ RouteInv'
  BY <1>1, <1>2 DEF HandInv, LinkInv, RouteInv, Making, Placing
<1>5. IdentityInv'
  BY <1>1 DEF IInv, IdentityInv
<1>6. \A f \in cfg'.fams : DeviceFam(f)' \in Families /\ f \in Families
  BY <1>1, ConfigsAssumption DEF DeviceFam, DeviceFams, Families
<1>7. VxlanInv' /\ WireguardInv'
  BY <1>1, <1>2, <1>6 DEF VxlanInv, WireguardInv, Leased, Placing, Processed
<1>8. AddressInv'
  BY <1>1, <1>2, <1>6 DEF AddressInv, Leased, Placing, Making
<1> QED
  BY <1>3, <1>4, <1>5, <1>7, <1>8 DEF IInv
-----------------------------------------------------------------------------
(* Before the device *)

LEMMA BeforeLease ==
  ASSUME UNCHANGED <<cfg, lease>>,
         pc' \notin Leased \cup {"post", "tun", "iface", "secrets", "describe", "reconcile"},
         cfg.be = "ipip" /\ pc' \in Making \ {"parse"} => lease \in Subnets
  PROVE  AddressInv' /\ RouteInv'
BY DEF AddressInv, RouteInv, Leased, Placing, Processed

LEMMA NoHandLemma ==
  ASSUME TypeOK
  PROVE  hand = NoHand <=> \A f \in Families : hand[f] = None
BY DEF TypeOK, NoHand

LEMMA StartStep ==
  ASSUME IInv, Start
  PROVE  IInv'
<1>1. /\ pc = "down" /\ pc' = FirstStep(cfg) /\ fam' = FirstFam(DFams)
      /\ UNCHANGED <<cfg, subnet, kills, events, parm, got, key, hand, lease, seen, links, keyfile,
                     ann, routes, excused>>
  BY DEF Start, host, memory, DFams
<1>2. cfg \in Configs /\ hand = NoHand /\ \A f \in Families : hand[f] = None
  BY <1>1, NoHandLemma DEF IInv, TypeOK, HandInv
<1>3. fam' \in DFams /\ fam' \in Families /\ \A f \in DFams : ~(f < fam')
  BY <1>1, <1>2, FamsLemma, MinLemma DEF Families
<1>4. pc' = (IF cfg.be \in {"host-gw", "alloc"} THEN "acquire" ELSE "parse")
  BY <1>1 DEF FirstStep
<1>5. TypeOK'
  <2>1. pc' \in StepsOf(cfg.be)
    BY <1>4 DEF StepsOf
  <2> QED
    BY <1>1, <1>3, <2>1 DEF IInv, TypeOK
<1>6. HandInv'
  <2>1. DFams' = DFams /\ DFams \subseteq Families
    BY <1>1, <1>2, FamsLemma DEF DFams
  <2> HIDE DEF DFams
  <2> QED
    BY <1>1, <1>2, <1>3, <1>4, <2>1 DEF HandInv, Making, Placing
<1>7. LinkInv' /\ IdentityInv'
  BY <1>1, <1>2, <1>4 DEF IInv, LinkInv, IdentityInv, WithDevice
<1>8. VxlanInv' /\ WireguardInv'
  <2>1. cfg.fams \subseteq Families
    BY <1>2, FamsLemma
  <2> QED
    BY <1>1, <1>2, <1>4, <2>1 DEF VxlanInv, WireguardInv, Leased, Placing, Processed
<1>9. AddressInv' /\ RouteInv'
  BY <1>1, <1>4, BeforeLease DEF Leased, Placing, Making
<1> QED
  BY <1>5, <1>6, <1>7, <1>8, <1>9 DEF IInv

LEMMA ParsedStep ==
  ASSUME IInv, NEW be, NEW ok, NEW p \in Asked, NEW next, Parsed(be, ok, p, next),
         \/ be = "vxlan" /\ next = "stored"
         \/ be = "wireguard" /\ next = "keys"
         \/ be \in {"ipip", "udp", "tencentvpc", "ipsec"} /\ next = "acquire"
         \/ be = "extension" /\ next = "pre"
  PROVE  IInv'
<1>1. CASE Bail
  BY <1>1, BailStep
<1>2. CASE ~Bail
  <2>1. /\ pc = "parse" /\ cfg.be = be /\ parm' = p /\ pc' = next
        /\ UNCHANGED <<cfg, subnet, kills, events, links, keyfile, ann, routes, fam, got, key, hand,
                       lease, seen, excused>>
    BY <1>2 DEF Parsed, host
  <2>2. cfg \in Configs /\ hand = NoHand /\ \A f \in Families : hand[f] = None
    BY <2>1, NoHandLemma DEF IInv, TypeOK, HandInv
  <2>3. TypeOK'
    <3>1. pc' \in StepsOf(cfg.be)
      BY <2>1 DEF StepsOf
    <3> QED
      BY <2>1, <3>1 DEF IInv, TypeOK
  <2>4. HandInv'
    <3>1. DFams' = DFams /\ DFams \subseteq Families /\ fam \in DFams /\ (be = "ipip" => DFams = {4})
      BY <2>1, <2>2, FamsLemma DEF DFams, IInv, HandInv, Making, Backends, WithDevice
    <3>2. \A f \in DFams : ~(f < fam)
      BY <2>1, <2>2, <3>1 DEF IInv, HandInv, Making
    <3> HIDE DEF DFams
    <3> QED
      BY <2>1, <2>2, <3>1, <3>2 DEF HandInv, Making, Placing
  <2>5. LinkInv' /\ IdentityInv'
    BY <2>1, <2>2 DEF IInv, LinkInv, IdentityInv
  <2>6. VxlanInv' /\ WireguardInv'
    <3>1. cfg.fams \subseteq Families
      BY <2>2, FamsLemma
    <3> QED
      BY <2>1, <2>2, <3>1 DEF VxlanInv, WireguardInv, Leased, Placing, Processed
  <2>7. AddressInv' /\ RouteInv'
    BY <2>1, BeforeLease DEF Leased, Placing, Making
  <2> QED
    BY <2>3, <2>4, <2>5, <2>6, <2>7 DEF IInv
<1> QED
  BY <1>1, <1>2

LEMMA ParseSteps ==
  ASSUME IInv,
         \/ ParseVxlanConfig \/ ParseWgConfig \/ ParseIpipConfig \/ ParseUdpConfig
         \/ ParseIpsecConfig \/ ParseTencentConfig \/ ParseExtensionConfig
  PROVE  IInv'
<1>1. cfg.p \in Asked /\ Given \in Asked
  BY DEF Given, Asked, IInv, TypeOK
<1> QED
  BY <1>1, ParsedStep DEF ParseVxlanConfig, ParseWgConfig, ParseIpipConfig, ParseUdpConfig,
     ParseIpsecConfig, ParseTencentConfig, ParseExtensionConfig

\* The process remembers which MACs are announced.
LEMMA StoredStep ==
  ASSUME IInv, GetStoredMacAddresses
  PROVE  IInv'
<1>1. /\ pc = "stored" /\ pc' = "add"
      /\ UNCHANGED <<cfg, subnet, kills, links, keyfile, ann, routes, fam, parm, key, hand, lease, seen>>
      /\ \/ got' = [f \in Families |-> ExtractMac(ann[f])] /\ UNCHANGED <<excused, events>>
         \/ events' = events + 1 /\ got' = NoHand /\ excused' = Families
  BY DEF GetStoredMacAddresses, Goto
<1>2. /\ cfg \in Configs /\ hand = NoHand /\ \A f \in Families : hand[f] = None
      /\ cfg.be = "vxlan"
  BY <1>1, NoHandLemma, WhoseStep DEF IInv, TypeOK, HandInv
<1>3. got' \in [Families -> Ids \cup {None}]
  BY <1>1 DEF IInv, TypeOK, ExtractMac, NoHand
<1>4. \A f \in Families \ excused' : ann[f] # None /\ ann[f].be = "vxlan" => got'[f] = ann[f].id
  BY <1>1 DEF ExtractMac
<1>5. excused \subseteq excused' /\ excused' \subseteq Families /\ events' \in Nat
  BY <1>1 DEF IInv, TypeOK
<1>6. TypeOK'
  <2>1. pc' \in StepsOf(cfg.be)
    BY <1>1, <1>2 DEF StepsOf
  <2> QED
    BY <1>1, <1>3, <1>5, <2>1 DEF IInv, TypeOK
<1>7. HandInv'
  <2>1. DFams' = DFams /\ DFams \subseteq Families
    BY <1>1, <1>2, FamsLemma DEF DFams
  <2> HIDE DEF DFams
  <2> QED
    BY <1>1, <1>2, <2>1 DEF IInv, HandInv, Making, Placing
<1>8. LinkInv' /\ IdentityInv'
  BY <1>1, <1>2, <1>5 DEF IInv, LinkInv, IdentityInv
<1>9. VxlanInv' /\ WireguardInv'
  <2>1. cfg.fams \subseteq Families
    BY <1>2, FamsLemma
  <2> QED
    BY <1>1, <1>2, <1>4, <2>1 DEF VxlanInv, WireguardInv, Leased, Placing, Processed
<1>10. AddressInv' /\ RouteInv'
  BY <1>1, <1>2, BeforeLease DEF Leased, Placing
<1> QED
  BY <1>6, <1>7, <1>8, <1>9, <1>10 DEF IInv

Device == {"keys", "writekey", "psk", "add", "exists", "delete", "readd", "lookup"}

LEMMA HandKept ==
  ASSUME HandInv, pc \in Device, pc' \in Device, UNCHANGED <<cfg, fam, hand>>
  PROVE  HandInv'
<1>1. DFams' = DFams
  BY DEF DFams
<1> HIDE DEF DFams
<1> QED
  BY <1>1 DEF HandInv, Making, Placing, Device

LEMMA KeySteps ==
  ASSUME IInv, SetupKeys \/ WritePrivateKey \/ ParsePsk
  PROVE  IInv'
<1>1. CASE Bail
  BY <1>1, BailStep
<1>2. CASE ~Bail
  <2>1. /\ pc \in {"keys", "writekey", "psk"} /\ pc' \in {"writekey", "psk", "add"}
        /\ UNCHANGED <<cfg, subnet, kills, events, links, ann, routes, fam, parm, got, hand, lease, seen,
                       excused>>
        /\ \/ pc = "keys" /\ keyfile = None /\ keyfile' = Empty /\ key' = Fresh /\ pc' = "writekey"
           \/ pc = "keys" /\ keyfile \notin {None, Empty} /\ key' = keyfile /\ keyfile' = keyfile
                /\ pc' = "psk"
           \/ pc = "writekey" /\ keyfile' = key /\ key' = key /\ pc' = "psk"
           \/ pc = "psk" /\ UNCHANGED <<key, keyfile>> /\ pc' = "add"
    BY <1>2 DEF SetupKeys, WritePrivateKey, ParsePsk, Goto, host, memory
  <2>2. cfg \in Configs /\ cfg.be = "wireguard"
    BY <2>1, WhoseStep DEF IInv, TypeOK
  <2>3. Empty \notin Ids /\ None \notin Ids /\ Fresh \in Ids
    BY FreshLemma, IdsAssumption, NoneAssumption DEF Empty, Ids
  <2>4. \A f \in Families : hand[f] # None => hand # NoHand
    BY DEF NoHand
  <2>5. /\ key' \in Ids /\ keyfile' \in Ids \cup {Empty}
        /\ pc' # "writekey" => keyfile' = key'
        /\ pc' = "writekey" => keyfile' = Empty
        /\ hand # NoHand => UNCHANGED <<key, keyfile>> /\ pc' # "writekey" /\ keyfile' = key'
    BY <2>1, <2>2, <2>3 DEF IInv, TypeOK, WireguardInv
  <2>6. TypeOK'
    <3>1. pc' \in StepsOf(cfg.be)
      BY <2>1, <2>2 DEF StepsOf
    <3> QED
      BY <2>1, <2>5, <3>1 DEF IInv, TypeOK
  <2>7. HandInv'
    BY <2>1, HandKept DEF IInv, Device
  <2>8. LinkInv'
    BY <2>1 DEF IInv, LinkInv, Dev
  <2>9. IdentityInv'
    <3>1. \A f \in Families : ann[f] # None => ann[f].id \in Ids
      BY DEF IInv, TypeOK
    <3>2. \A f \in Families : ann[f] # None /\ f \notin excused /\ ann[f].be = "wireguard" =>
            keyfile' = keyfile
      BY <3>1, <2>1, <2>2, <2>3 DEF IInv, IdentityInv, WireguardInv
    <3> QED
      BY <3>2, <2>1 DEF IInv, IdentityInv
  <2>10. VxlanInv' /\ WireguardInv'
    <3>1. VxlanInv'
      BY <2>1, <2>2 DEF VxlanInv
    <3>2. \A f \in Families : hand[f] # None /\ hand[f].held => Dev(f).id = key
      BY <2>1, <2>2 DEF IInv, WireguardInv
    <3>3. \A f \in Families : hand[f] # None /\ hand[f].held => Dev(f)'.id = key'
      BY <2>1, <2>4, <2>5, <3>2 DEF Dev
    <3>4. pc' \notin Leased
      BY <2>1 DEF Leased, Placing
    <3>5. WireguardInv'
      BY <2>1, <2>2, <2>5, <3>3, <3>4 DEF WireguardInv
    <3> QED
      BY <3>1, <3>5
  <2>11. AddressInv' /\ RouteInv'
    BY <2>1, <2>2, BeforeLease DEF Leased, Placing
  <2> QED
    BY <2>6, <2>7, <2>8, <2>9, <2>10, <2>11 DEF IInv
<1> QED
  BY <1>1, <1>2
-----------------------------------------------------------------------------
(* The device *)

\* A new link of the backend.
LEMMA NewLink ==
  ASSUME IInv, pc \in {"add", "readd"}
  PROVE  /\ VxlanLink \in Links /\ VxlanLink.id = VxlanMac(fam) /\ VxlanMac(fam) \in Ids
         /\ WireguardLink \in Links /\ IpipLink \in Links
         /\ cfg.be = "vxlan" => Fits(cfg, parm, VxlanLink)
         /\ cfg.be = "wireguard" => Fits(cfg, parm, WireguardLink)
         /\ cfg.be = "ipip" => Fits(cfg, parm, IpipLink)
<1>1. parm \in Asked /\ parm \in Params /\ AsCreated(parm) \in Params
  BY WhoseStep DEF IInv, LinkInv, WithDevice, Params
<1>2. VxlanMac(fam) \in Ids
  BY FreshLemma DEF VxlanMac, IInv, TypeOK
<1>3. ASSUME NEW be \in WithDevice, NEW p \in Params
      PROVE  BareLink(be, p) \in Links /\ BareLink(be, p).kind = be /\ BareLink(be, p).p = p
  BY DEF BareLink, Links, Kinds
<1>4. /\ VxlanLink \in Links /\ VxlanLink.id = VxlanMac(fam)
      /\ VxlanLink.kind = "vxlan" /\ VxlanLink.p = AsCreated(parm)
  BY <1>1, <1>2, <1>3, SetId DEF VxlanLink, WithDevice
<1>5. cfg.be = "vxlan" => Fits(cfg, parm, VxlanLink)
  <2>1. AsCreated(parm).net = parm.net /\ SamePort(parm, AsCreated(parm))
    BY DEF AsCreated, SamePort
  <2> QED
    BY <1>4, <2>1 DEF Fits
<1>6. /\ WireguardLink \in Links /\ WireguardLink.kind = "wireguard" /\ WireguardLink.p = parm
      /\ IpipLink \in Links /\ IpipLink.kind = "ipip" /\ IpipLink.p = parm
  BY <1>1, <1>3 DEF WireguardLink, IpipLink, WithDevice
<1> QED
  BY <1>2, <1>4, <1>5, <1>6 DEF Fits

\* The link of the current family is made or removed.
LEMMA MakeStep ==
  ASSUME IInv, cfg.be \in {"vxlan", "wireguard", "ipip"},
         pc \in {"add", "exists", "delete", "readd"}, pc' \in {"exists", "delete", "readd", "lookup"},
         UNCHANGED <<cfg, subnet, kills, events, keyfile, ann, routes, fam, parm, got, key, hand, lease,
                     seen, excused>>,
         NEW l \in Links \cup {None}, links' = [links EXCEPT ![Name(fam)] = l],
         l # None /\ cfg.be = "vxlan" =>
           /\ l.id \in Ids
           /\ fam \notin excused /\ ann[fam] # None /\ ann[fam].be = "vxlan" => l.id = ann[fam].id,
         l # None /\ pc' = "lookup" => Fits(cfg, parm, l)
  PROVE  IInv'
<1> DEFINE n == <<cfg.be, fam>>
<1>1. /\ cfg \in Configs /\ fam \in DFams /\ fam \in Families /\ hand[fam] = None
      /\ DFams \subseteq Families /\ Name(fam) = n /\ n \in Names /\ n[1] = cfg.be
      /\ \A f \in Families : hand[f] # None => f # fam
  <2>1. cfg \in Configs /\ fam \in Families /\ fam \in DFams /\ hand[fam] = None
    BY DEF IInv, TypeOK, HandInv, Making, Families
  <2> HIDE DEF DFams
  <2> QED
    BY <2>1, FamsLemma DEF WithDevice
<1>2. /\ links' \in [Names -> Links \cup {None}]
      /\ links'[n] = l /\ \A m \in Names : m # n => links'[m] = links[m]
      /\ \A f \in Families : links'[<<"vxlan", f>>] # None => links'[<<"vxlan", f>>].id \in Ids
  BY <1>1, WriteLink DEF IInv, TypeOK
<1>3. \A f \in Families : f # fam => Dev(f)' = Dev(f)
  BY <1>1, <1>2 DEF Dev, Names, WithDevice
<1>4. Dev(fam)' = l
  BY <1>1, <1>2 DEF Dev
<1>5. \A f \in Families : ~(cfg.be = "vxlan" /\ f = fam) =>
        links'[<<"vxlan", f>>] = links[<<"vxlan", f>>]
  BY <1>1, <1>2 DEF Names, WithDevice
<1>6. TypeOK'
  <2>1. pc' \in StepsOf(cfg.be)
    BY DEF StepsOf
  <2> QED
    BY <1>2, <2>1 DEF IInv, TypeOK
<1>7. HandInv'
  BY HandKept DEF IInv, Device
<1>8. LinkInv'
  BY <1>1, <1>3, <1>4 DEF IInv, LinkInv
<1>9. IdentityInv'
  <2>1. ASSUME NEW f \in Families, ann[f] # None, f \notin excused
        PROVE  /\ ann[f].be = "vxlan" /\ links'[<<"vxlan", f>>] # None =>
                    links'[<<"vxlan", f>>].id = ann[f].id
               /\ ann[f].be = "wireguard" => keyfile = ann[f].id
    <3>1. CASE cfg.be = "vxlan" /\ f = fam
      BY <1>1, <1>2, <2>1, <3>1 DEF IInv, IdentityInv
    <3>2. CASE ~(cfg.be = "vxlan" /\ f = fam)
      BY <1>5, <2>1, <3>2 DEF IInv, IdentityInv
    <3> QED
      BY <3>1, <3>2
  <2> QED
    BY <2>1 DEF IdentityInv
<1>10. VxlanInv'
  <2>1. pc' \notin Leased /\ \A f : ~Processed(f)'
    BY DEF Leased, Placing, Processed
  <2> QED
    BY <1>1, <1>3, <2>1 DEF IInv, VxlanInv
<1>11. WireguardInv'
  <2>1. pc' \notin Leased
    BY DEF Leased, Placing
  <2> QED
    BY <1>1, <1>3, <2>1 DEF IInv, WireguardInv
<1>12. AddressInv' /\ RouteInv'
  <2>1. cfg.be = "ipip" => lease \in Subnets
    BY DEF IInv, AddressInv, Making
  <2> QED
    BY <2>1, BeforeLease DEF Leased, Placing
<1> QED
  BY <1>6, <1>7, <1>8, <1>9, <1>10, <1>11, <1>12 DEF IInv

\* The MAC of a new vxlan device is the announced one.
LEMMA MacKept ==
  ASSUME IInv, cfg.be = "vxlan", pc \in {"add", "readd"}, fam \notin excused,
         ann[fam] # None, ann[fam].be = "vxlan"
  PROVE  VxlanMac(fam) = ann[fam].id
<1>1. fam \in Families /\ got[fam] = ann[fam].id /\ ann[fam].id \in Ids
  BY DEF IInv, TypeOK, VxlanInv
<1>2. got[fam] # None
  BY <1>1, NoneAssumption DEF Ids
<1> QED
  BY <1>1, <1>2 DEF VxlanMac

\* The link of the current family is there, or not.
LEMMA TheLink ==
  ASSUME IInv, cfg.be \in {"vxlan", "wireguard", "ipip"}, fam \in DFams
  PROVE  /\ Name(fam) = <<cfg.be, fam>> /\ Name(fam) \in Names /\ links[Name(fam)] = Dev(fam)
         /\ links[Name(fam)] \in Links \cup {None}
         /\ links = [links EXCEPT ![Name(fam)] = links[Name(fam)]]
         /\ links[Name(fam)] # None /\ cfg.be = "vxlan" =>
              /\ links[Name(fam)].id \in Ids
              /\ fam \notin excused /\ ann[fam] # None /\ ann[fam].be = "vxlan" =>
                   links[Name(fam)].id = ann[fam].id
<1>1. fam \in Families /\ cfg \in Configs /\ links \in [Names -> Links \cup {None}]
  BY DEF IInv, TypeOK
<1>2. Name(fam) = <<cfg.be, fam>> /\ Name(fam) \in Names
  BY <1>1, FamsLemma DEF WithDevice
<1> QED
  BY <1>1, <1>2 DEF Dev, IInv, TypeOK, IdentityInv

LEMMA AddStep ==
  ASSUME IInv, VxlanLinkAdd \/ WireguardLinkAdd \/ IpipLinkAdd
  PROVE  IInv'
<1>1. PICK l : /\ AddLink(cfg.be, l)
               /\ \/ cfg.be = "vxlan" /\ l = VxlanLink
                  \/ cfg.be = "wireguard" /\ l = WireguardLink
                  \/ cfg.be = "ipip" /\ l = IpipLink
  BY DEF AddLink, VxlanLinkAdd, WireguardLinkAdd, IpipLinkAdd
<1>2. /\ pc = "add"
      /\ UNCHANGED <<cfg, subnet, kills, events, keyfile, ann, routes, fam, parm, got, key, hand, lease,
                     seen, excused>>
  BY <1>1 DEF AddLink, host, memory
<1>3. /\ l \in Links /\ Fits(cfg, parm, l)
      /\ cfg.be = "vxlan" =>
           /\ l.id \in Ids
           /\ fam \notin excused /\ ann[fam] # None /\ ann[fam].be = "vxlan" => l.id = ann[fam].id
  BY <1>1, <1>2, NewLink, MacKept
<1>4. fam \in DFams
  BY <1>2 DEF IInv, HandInv, Making
<1>5. CASE links' = [links EXCEPT ![Name(fam)] = l] /\ pc' = "lookup"
  BY <1>1, <1>2, <1>3, <1>5, MakeStep
<1>6. CASE links' = links /\ pc' = "exists"
  BY <1>1, <1>2, <1>4, <1>6, TheLink, MakeStep
<1> QED
  BY <1>1, <1>5, <1>6 DEF AddLink

LEMMA ReplaceStep ==
  ASSUME IInv, LinkDel \/ LinkAddAgain
  PROVE  IInv'
<1>1. CASE Bail
  BY <1>1, BailStep
<1>2. CASE LinkDel /\ ~Bail
  <2>1. /\ pc = "delete" /\ pc' = "readd" /\ links' = [links EXCEPT ![Name(fam)] = None]
        /\ UNCHANGED <<cfg, subnet, kills, events, keyfile, ann, routes, fam, parm, got, key, hand, lease,
                       seen, excused>>
    BY <1>2 DEF LinkDel, host, memory
  <2> QED
    BY <2>1, MakeStep, WhoseStep DEF IInv
<1>3. CASE LinkAddAgain
  <2>1. /\ pc = "readd" /\ pc' = "lookup"
        /\ UNCHANGED <<cfg, subnet, kills, events, keyfile, ann, routes, fam, parm, got, key, hand, lease,
                       seen, excused>>
    BY <1>3 DEF LinkAddAgain, Goto, host, memory
  <2>2. cfg.be \in {"vxlan", "wireguard", "ipip"}
    BY <2>1, WhoseStep DEF IInv
  <2>3. PICK l : /\ links' = [links EXCEPT ![Name(fam)] = l]
                 /\ \/ cfg.be = "vxlan" /\ l = VxlanLink
                    \/ cfg.be = "wireguard" /\ l = WireguardLink
                    \/ cfg.be = "ipip" /\ l = IpipLink
    BY <1>3, <2>2 DEF LinkAddAgain
  <2>4. /\ l \in Links /\ Fits(cfg, parm, l)
        /\ cfg.be = "vxlan" =>
             /\ l.id \in Ids
             /\ fam \notin excused /\ ann[fam] # None /\ ann[fam].be = "vxlan" => l.id = ann[fam].id
    BY <2>1, <2>3, NewLink, MacKept
  <2> QED
    BY <2>1, <2>2, <2>3, <2>4, MakeStep
<1> QED
  BY <1>1, <1>2, <1>3

\* The process takes the device of the current family into its hands.
LEMMA HoldStep ==
  ASSUME IInv, pc \in {"exists", "lookup"}, cfg.be \in {"vxlan", "wireguard", "ipip"},
         Dev(fam) # None, Fits(cfg, parm, Dev(fam)),
         UNCHANGED <<cfg, subnet, kills, events, links, keyfile, ann, routes, parm, got, key, lease, seen,
                     excused>>,
         NEW i, hand' = [hand EXCEPT ![fam] = [id |-> i, held |-> TRUE]],
         \/ cfg.be = "vxlan" /\ i = Dev(fam).id /\ EachFam(DFams, "add", "acquire")
         \/ cfg.be = "wireguard" /\ i = None /\ pc' = "configure" /\ fam' = fam
         \/ cfg.be = "ipip" /\ i = None /\ pc' = "address" /\ fam' = fam
  PROVE  IInv'
<1>1. /\ cfg \in Configs /\ fam \in DFams /\ fam \in Families /\ hand \in [Families -> Hands \cup {None}]
      /\ \A f \in DFams : hand[f] # None <=> f < fam
      /\ \A f \in Families : hand[f] # None => f \in DFams
  BY DEF IInv, TypeOK, HandInv, Making
<1>2. /\ DFams \subseteq Families /\ cfg.fams \subseteq Families
      /\ cfg.be = "vxlan" => DFams = cfg.fams
      /\ cfg.be = "ipip" => DFams = {4} /\ cfg.fams = {4}
      /\ DFams' = DFams
  BY <1>1, FamsLemma DEF Backends, WithDevice, DFams
<1>3. i \in Ids \cup {None} /\ (cfg.be = "vxlan" => i \in Ids)
  BY <1>1 DEF IInv, TypeOK, Dev
<1>4. /\ hand' \in [Families -> Hands \cup {None}]
      /\ hand'[fam] = [id |-> i, held |-> TRUE] /\ hand'[fam] # None
      /\ \A f \in Families : f # fam => hand'[f] = hand[f]
  <2>1. [id |-> i, held |-> TRUE] \in Hands
    BY <1>3 DEF Hands
  <2> QED
    BY <1>1, <2>1, NoneAssumption
<1>5. \/ /\ cfg.be = "vxlan" /\ fam = 4 /\ 6 \in DFams /\ pc' = "add" /\ fam' = 6
      \/ /\ cfg.be = "vxlan" /\ (fam = 6 \/ 6 \notin DFams) /\ pc' = "acquire"
         /\ fam' = FirstFam(cfg.fams) /\ fam' \in cfg.fams
      \/ cfg.be = "wireguard" /\ pc' = "configure" /\ fam' = fam
      \/ cfg.be = "ipip" /\ pc' = "address" /\ fam' = 4 /\ fam = 4
  <2>1. CASE cfg.be = "vxlan"
    BY <1>1, <2>1, EachFamLemma
  <2>2. CASE cfg.be # "vxlan"
    BY <1>1, <1>2, <2>2
  <2> QED
    BY <2>1, <2>2
<1> HIDE DEF DFams
<1>6. TypeOK'
  <2>1. pc' \in StepsOf(cfg.be) /\ fam' \in Families
    BY <1>1, <1>2, <1>5 DEF StepsOf, Families
  <2> QED
    BY <1>4, <2>1 DEF IInv, TypeOK
<1>7. HandInv'
  <2>1. \A f \in Families : hand'[f] # None => f \in DFams
    BY <1>1, <1>4
  <2>2. \A f \in DFams : hand'[f] # None <=> f <= fam
    BY <1>1, <1>2, <1>4 DEF Families
  <2> QED
    BY <1>1, <1>2, <1>5, <2>1, <2>2 DEF HandInv, Making, Placing, Families, WithDevice
<1>8. \A f \in Families : Dev(f)' = Dev(f)
  BY DEF Dev
<1>9. LinkInv'
  <2>1. ASSUME NEW f \in Families, hand'[f] # None
        PROVE  IF hand'[f].held THEN Dev(f) # None /\ Fits(cfg, parm, Dev(f))
               ELSE Dev(f) = None
    <3>1. CASE f = fam
      BY <1>4, <3>1
    <3>2. CASE f # fam
      BY <1>4, <2>1, <3>2 DEF IInv, LinkInv
    <3> QED
      BY <3>1, <3>2
  <2> QED
    BY <1>5, <1>8, <2>1 DEF IInv, LinkInv
<1>10. IdentityInv'
  BY DEF IInv, IdentityInv
<1>11. VxlanInv'
  <2> SUFFICES ASSUME cfg.be = "vxlan" PROVE VxlanInv'
    BY DEF VxlanInv
  <2>1. ASSUME NEW f \in Families \ excused, ann[f] # None, ann[f].be = "vxlan"
        PROVE  got[f] = ann[f].id /\ (hand'[f] # None => hand'[f].id = ann[f].id)
    <3>1. got[f] = ann[f].id /\ (hand[f] # None => hand[f].id = ann[f].id)
      BY <2>1 DEF IInv, VxlanInv
    <3>2. f = fam => i = ann[f].id
      BY <2>1 DEF IInv, IdentityInv, Dev
    <3> QED
      BY <1>4, <3>1, <3>2
  <2>2. ASSUME NEW f \in Families \ excused, hand'[f] # None, Dev(f) # None
        PROVE  Dev(f).id = hand'[f].id
    BY <1>4, <2>2 DEF IInv, VxlanInv
  <2>3. \A f \in Families : hand'[f] # None => hand'[f].id \in Ids
    BY <1>3, <1>4 DEF IInv, VxlanInv
  <2>4. pc' \notin Leased /\ (\A f : ~Processed(f)') /\ pc' # "check"
    BY <1>5 DEF Leased, Placing, Processed
  <2> QED
    BY <1>8, <2>1, <2>2, <2>3, <2>4 DEF VxlanInv
<1>12. WireguardInv'
  <2> SUFFICES ASSUME cfg.be = "wireguard" PROVE WireguardInv'
    BY DEF WireguardInv
  <2>1. pc' = "configure" /\ fam' = fam /\ pc' \notin Leased
    BY <1>5 DEF Leased, Placing
  <2> QED
    BY <1>4, <1>8, <2>1 DEF IInv, WireguardInv
<1>13. AddressInv' /\ RouteInv'
  <2>1. CASE cfg.be = "ipip"
    <3>1. lease \in Subnets
      BY <2>1 DEF IInv, AddressInv, Making
    <3>2. pc' = "address" /\ fam' = 4 /\ cfg.fams = {4}
      BY <1>2, <1>5, <2>1
    <3>3. \A f \in cfg.fams : ~Processed(f)'
      BY <3>2 DEF Processed
    <3> QED
      BY <2>1, <3>1, <3>2, <3>3 DEF AddressInv, RouteInv
  <2>2. CASE cfg.be # "ipip"
    BY <1>5, <2>2, BeforeLease DEF Leased, Placing
  <2> QED
    BY <2>1, <2>2
<1> QED
  BY <1>6, <1>7, <1>9, <1>10, <1>11, <1>12, <1>13 DEF IInv

LEMMA ExistsStep ==
  ASSUME IInv, VxlanLinkExists \/ WireguardLinkExists \/ IpipLinkExists
  PROVE  IInv'
<1>1. CASE Bail
  BY <1>1, BailStep
<1>2. CASE ~Bail
  <2>1. pc = "exists" /\ cfg.be \in {"vxlan", "wireguard", "ipip"} /\ links[Name(fam)] # None
    BY <1>2 DEF VxlanLinkExists, WireguardLinkExists, IpipLinkExists
  <2>2. fam \in DFams
    BY <2>1 DEF IInv, HandInv, Making
  <2>3. CASE VxlanLinkExists /\ VxlanCompat(links[Name(fam)])
    <3>1. /\ Remember("add") /\ cfg.be = "vxlan"
          /\ UNCHANGED <<cfg, subnet, kills, events, links, keyfile, ann, routes, parm, got, key, lease,
                         seen, excused>>
      BY <1>2, <2>1, <2>3 DEF VxlanLinkExists, host
    <3>2. hand' = [hand EXCEPT ![fam] = [id |-> Dev(fam).id, held |-> TRUE]]
          /\ EachFam(DFams, "add", "acquire")
      BY <2>1, <2>2, <3>1, TheLink DEF Remember, DFams
    <3>3. Fits(cfg, parm, links[Name(fam)])
      BY <2>3, <3>1 DEF VxlanCompat, Fits
    <3> QED
      BY <2>1, <2>2, <3>1, <3>2, <3>3, TheLink, HoldStep
  <2>4. CASE ~(VxlanLinkExists /\ VxlanCompat(links[Name(fam)]))
    <3>1. /\ pc' \in {"delete", "lookup"}
          /\ pc' = "lookup" => cfg.be = "ipip" /\ links[Name(fam)].kind = "ipip"
                                 /\ links[Name(fam)].p.net = parm.net
          /\ UNCHANGED <<cfg, subnet, kills, events, links, keyfile, ann, routes, fam, parm, got, key, hand,
                         lease, seen, excused>>
      BY <1>2, <2>1, <2>4 DEF VxlanLinkExists, WireguardLinkExists, IpipLinkExists, host, memory
    <3>2. pc' = "lookup" => Fits(cfg, parm, links[Name(fam)])
      BY <3>1 DEF Fits
    <3> QED
      BY <2>1, <2>2, <3>1, <3>2, TheLink, MakeStep
  <2> QED
    BY <2>3, <2>4
<1> QED
  BY <1>1, <1>2

LEMMA LookupStep ==
  ASSUME IInv, VxlanLinkLookup \/ WireguardLinkLookup \/ IpipLinkLookup
  PROVE  IInv'
<1>1. CASE Bail
  BY <1>1, BailStep
<1>2. CASE ~Bail
  <2>1. /\ pc = "lookup" /\ cfg.be \in {"vxlan", "wireguard", "ipip"} /\ links[Name(fam)] # None
        /\ UNCHANGED <<cfg, subnet, kills, events, links, keyfile, ann, routes, parm, got, key, lease,
                       seen, excused>>
    BY <1>2 DEF VxlanLinkLookup, WireguardLinkLookup, IpipLinkLookup, host
  <2>2. fam \in DFams
    BY <2>1 DEF IInv, HandInv, Making
  <2>3. links[Name(fam)] = Dev(fam) /\ Fits(cfg, parm, Dev(fam))
    BY <2>1, <2>2, TheLink DEF IInv, LinkInv
  <2>4. \E i : /\ hand' = [hand EXCEPT ![fam] = [id |-> i, held |-> TRUE]]
               /\ \/ cfg.be = "vxlan" /\ i = Dev(fam).id /\ EachFam(DFams, "add", "acquire")
                  \/ cfg.be = "wireguard" /\ i = None /\ pc' = "configure" /\ fam' = fam
                  \/ cfg.be = "ipip" /\ i = None /\ pc' = "address" /\ fam' = fam
    BY <1>2, <2>1, <2>3 DEF VxlanLinkLookup, WireguardLinkLookup, IpipLinkLookup, Remember, DFams
  <2> QED
    BY <2>1, <2>3, <2>4, HoldStep
<1> QED
  BY <1>1, <1>2

\* wireguard: the device gets the key.
LEMMA ConfigureStep ==
  ASSUME IInv, ConfigureDevice
  PROVE  IInv'
<1>1. CASE Bail
  BY <1>1, BailStep
<1>2. CASE ~Bail
  <2> DEFINE n == <<"wireguard", fam>>
             l == [links[n] EXCEPT !.id = key]
             h == [hand[fam] EXCEPT !.id = key]
  <2>1. /\ pc = "configure" /\ links[Name(fam)] # None
        /\ links' = [links EXCEPT ![Name(fam)].id = key]
        /\ hand' = [hand EXCEPT ![fam].id = key]
        /\ EachFam(DFams, "keys", "acquire")
        /\ UNCHANGED <<cfg, subnet, kills, events, keyfile, ann, routes, parm, got, key, lease, seen, excused>>
    BY <1>2 DEF ConfigureDevice, host, DFams
  <2>2. /\ cfg \in Configs /\ cfg.be = "wireguard" /\ fam \in DFams /\ fam \in Families
        /\ hand \in [Families -> Hands \cup {None}] /\ links \in [Names -> Links \cup {None}]
        /\ \A f \in DFams : hand[f] # None <=> f <= fam
        /\ \A f \in Families : hand[f] # None => f \in DFams
    BY <2>1, WhoseStep DEF IInv, TypeOK, HandInv
  <2>3. /\ DFams \subseteq Families /\ DFams' = DFams
        /\ n = Name(fam) /\ n \in Names /\ n[1] # "vxlan"
    BY <2>1, <2>2, FamsLemma DEF WithDevice, DFams
  <2>4. \/ fam = 4 /\ 6 \in DFams /\ pc' = "keys" /\ fam' = 6
        \/ /\ fam = 6 \/ 6 \notin DFams
           /\ pc' = "acquire" /\ fam' = FirstFam(cfg.fams) /\ fam' \in cfg.fams /\ fam' \in Families
    BY <2>1, <2>2, EachFamLemma, FamsLemma
  <2> HIDE DEF DFams
  <2>5. hand[fam] \in Hands /\ hand[fam] # None /\ links[n] \in Links
    BY <2>1, <2>2, <2>3 DEF Families
  <2>6. key \in Ids /\ key = keyfile
    BY <2>1, <2>2 DEF IInv, WireguardInv
  <2>7. l \in Links /\ l # None /\ l.id = key /\ l.kind = links[n].kind /\ l.p = links[n].p
    BY <2>5, <2>6, SetId
  <2>8. links' = [links EXCEPT ![n] = l]
    BY <2>1, <2>2, <2>3, WritePart
  <2>9. h \in Hands /\ h # None /\ h.held = hand[fam].held
    BY <2>5, <2>6, NoneAssumption DEF Hands
  <2>10. hand' = [hand EXCEPT ![fam] = h]
    BY <2>1, <2>2
  <2> HIDE DEF l, h
  <2>11. /\ links' \in [Names -> Links \cup {None}]
         /\ links'[n] = l /\ \A m \in Names : m # n => links'[m] = links[m]
         /\ \A f \in Families : links'[<<"vxlan", f>>] # None => links'[<<"vxlan", f>>].id \in Ids
    BY <2>2, <2>3, <2>7, <2>8, WriteLink DEF IInv, TypeOK
  <2>12. /\ hand' \in [Families -> Hands \cup {None}]
         /\ hand'[fam] = h /\ \A f \in Families : f # fam => hand'[f] = hand[f]
    BY <2>2, <2>9, <2>10
  <2>13. \A f \in Families : links'[<<"vxlan", f>>] = links[<<"vxlan", f>>]
    BY <2>11, <2>3 DEF Names, WithDevice
  <2>14. links'[<<"wireguard", fam>>] = l /\ \A f \in Families : f # fam => Dev(f)' = Dev(f)
    BY <2>1, <2>2, <2>3, <2>11 DEF Dev, Names, WithDevice
  <2>15. TypeOK'
    <3>1. pc' \in StepsOf(cfg.be) /\ fam' \in Families
      BY <2>2, <2>4 DEF StepsOf, Families
    <3> QED
      BY <2>1, <2>11, <2>12, <3>1 DEF IInv, TypeOK
  <2>16. HandInv'
    <3>1. \A f \in Families : hand'[f] # None => f \in DFams
      BY <2>2, <2>12
    <3>2. \A f \in DFams : hand'[f] # None <=> f <= fam
      BY <2>2, <2>3, <2>9, <2>12 DEF Families
    <3> QED
      BY <2>1, <2>2, <2>3, <2>4, <3>1, <3>2 DEF HandInv, Making, Placing, Families, WithDevice
  <2>17. LinkInv'
    <3>1. ASSUME NEW f \in Families, hand'[f] # None
          PROVE  IF hand'[f].held THEN Dev(f)' # None /\ Fits(cfg, parm, Dev(f)')
                 ELSE Dev(f)' = None
      <4>1. CASE f = fam
        <5>1. Dev(f)' = l /\ Dev(f) = links[n]
          BY <2>1, <2>2, <2>14, <4>1 DEF Dev
        <5>2. hand[fam].held /\ Fits(cfg, parm, links[n])
          BY <2>1, <2>2, <2>3, <2>5, <4>1, <5>1 DEF IInv, LinkInv
        <5>3. Fits(cfg, parm, l)
          BY <2>7, <5>2, SameFits
        <5> QED
          BY <2>7, <2>9, <2>12, <4>1, <5>1, <5>2, <5>3
      <4>2. CASE f # fam
        BY <2>12, <2>14, <3>1, <4>2 DEF IInv, LinkInv
      <4> QED
        BY <4>1, <4>2
    <3> QED
      BY <2>1, <2>4, <3>1 DEF IInv, LinkInv
  <2>18. IdentityInv'
    BY <2>1, <2>13 DEF IInv, IdentityInv
  <2>19. VxlanInv'
    BY <2>1, <2>2 DEF VxlanInv
  <2>20. WireguardInv'
    <3>1. ASSUME NEW f \in Families, hand'[f] # None, hand'[f].held
          PROVE  Dev(f)'.id = key
      <4>1. CASE f = fam
        BY <2>1, <2>2, <2>7, <2>14, <4>1 DEF Dev
      <4>2. CASE f # fam
        BY <2>2, <2>12, <2>14, <3>1, <4>2 DEF IInv, WireguardInv
      <4> QED
        BY <4>1, <4>2
    <3>2. pc' \notin Leased
      BY <2>4 DEF Leased, Placing
    <3> QED
      BY <2>1, <2>4, <2>6, <3>1, <3>2 DEF WireguardInv
  <2>21. AddressInv' /\ RouteInv'
    BY <2>1, <2>2, <2>4, BeforeLease DEF Leased, Placing
  <2> QED
    BY <2>15, <2>16, <2>17, <2>18, <2>19, <2>20, <2>21 DEF IInv
<1> QED
  BY <1>1, <1>2
-----------------------------------------------------------------------------
(* The lease *)

\* What an acquisition changes.
LEMMA AcquireFrame ==
  ASSUME IInv, NEW be, NEW attrs, NEW next, AcquireLease(be, attrs, next)
  PROVE  /\ pc = "acquire" /\ cfg.be = be /\ pc' = next /\ ann' = attrs
         /\ lease' \in Subnets /\ lease' = subnet
         /\ excused' \subseteq excused
         /\ \A f \in excused \ excused' : f \in cfg.fams
         /\ \A f \in excused \ excused' : cfg.be = "vxlan" /\ links[Name(f)] # None =>
              links[Name(f)].id = hand[f].id
         /\ UNCHANGED <<cfg, subnet, kills, events, links, keyfile, routes, fam, parm, got, key, hand, seen>>
BY DEF AcquireLease, host, IInv, TypeOK

LEMMA VxlanAcquireStep ==
  ASSUME IInv, VxlanAcquire
  PROVE  IInv'
<1> DEFINE attrs == [f \in Families |-> VxlanAttrs(f)]
<1>1. /\ pc = "acquire" /\ cfg.be = "vxlan" /\ pc' = "address" /\ ann' = attrs
      /\ lease' \in Subnets /\ lease' = subnet
      /\ excused' \subseteq excused
      /\ \A f \in excused \ excused' : f \in cfg.fams
      /\ \A f \in excused \ excused' : links[Name(f)] # None => links[Name(f)].id = hand[f].id
      /\ UNCHANGED <<cfg, subnet, kills, events, links, keyfile, routes, fam, parm, got, key, hand, seen>>
  BY AcquireFrame DEF VxlanAcquire
<1>2. /\ cfg \in Configs /\ DFams = cfg.fams /\ cfg.fams \subseteq Families /\ DFams' = DFams
      /\ \A f \in cfg.fams : Name(f) = <<"vxlan", f>>
  <2>1. cfg \in Configs
    BY DEF IInv, TypeOK
  <2>2. DFams' = DFams
    BY <1>1 DEF DFams
  <2> HIDE DEF DFams
  <2> QED
    BY <1>1, <2>1, <2>2, FamsLemma
<1>3. /\ fam = FirstFam(cfg.fams) /\ \A f \in cfg.fams : hand[f] # None /\ hand[f].id \in Ids
      /\ \A f \in Families : hand[f] # None => f \in cfg.fams
  BY <1>1, <1>2 DEF IInv, HandInv, VxlanInv
<1> HIDE DEF DFams
<1>4. fam \in cfg.fams /\ \A f \in cfg.fams : ~(f < fam)
  BY <1>2, <1>3, FamsLemma, MinLemma DEF Families
<1>5. /\ \A f \in cfg.fams : ann'[f] = [be |-> "vxlan", id |-> hand[f].id]
      /\ \A f \in Families \ cfg.fams : ann'[f] = ann[f]
  BY <1>1, <1>2 DEF VxlanAttrs
<1>5a. ann' \in [Families -> [be : {"vxlan", "wireguard"}, id : Ids] \cup {None}]
  BY <1>1, <1>2, <1>3 DEF VxlanAttrs, IInv, TypeOK
<1>5b. \A f \in cfg.fams : ann'[f].be = "vxlan" /\ ann'[f].id = hand[f].id
  <2> TAKE f \in cfg.fams
  <2>1. PICK i : i = hand[f].id
    OBVIOUS
  <2>2. ann'[f] = [be |-> "vxlan", id |-> i]
    BY <1>5, <2>1
  <2> QED
    BY <2>1, <2>2
<1>6. \A f \in Families \ excused' : hand[f] # None /\ links[<<"vxlan", f>>] # None =>
        links[<<"vxlan", f>>].id = hand[f].id
  <2> SUFFICES ASSUME NEW f \in Families \ excused', hand[f] # None, links[<<"vxlan", f>>] # None
               PROVE  links[<<"vxlan", f>>].id = hand[f].id
    OBVIOUS
  <2>1. CASE f \in excused
    BY <1>1, <1>2, <1>3, <2>1
  <2>2. CASE f \notin excused
    BY <1>1, <2>2 DEF IInv, VxlanInv, Dev
  <2> QED
    BY <2>1, <2>2
<1>7. \A f \in cfg.fams : ~Processed(f)'
  BY <1>1, <1>4 DEF Processed
<1>8. TypeOK'
  <2>1. pc' \in StepsOf(cfg.be)
    BY <1>1 DEF StepsOf
  <2> QED
    BY <1>1, <1>5a, <2>1 DEF IInv, TypeOK
<1>9. HandInv'
  BY <1>1, <1>2, <1>3, <1>4 DEF HandInv, Making, Placing, WithDevice
<1>10. LinkInv'
  BY <1>1 DEF IInv, LinkInv, Dev
<1>11. IdentityInv'
  <2> SUFFICES ASSUME NEW f \in Families, ann'[f] # None, f \notin excused'
               PROVE  /\ ann'[f].be = "vxlan" /\ links[<<"vxlan", f>>] # None =>
                           links[<<"vxlan", f>>].id = ann'[f].id
                      /\ ann'[f].be = "wireguard" => keyfile = ann'[f].id
    BY <1>1 DEF IdentityInv
  <2>1. CASE f \in cfg.fams
    BY <1>3, <1>5b, <1>6, <2>1
  <2>2. CASE f \notin cfg.fams
    BY <1>1, <1>5, <2>2 DEF IInv, IdentityInv
  <2> QED
    BY <2>1, <2>2
<1>12. VxlanInv'
  <2>1. \A f \in Families : Dev(f)' = links[<<"vxlan", f>>]
    BY <1>1 DEF Dev
  <2>2. \A f \in Families : hand[f] # None => ann'[f].id = hand[f].id
    BY <1>3, <1>5b
  <2> QED
    BY <1>1, <1>2, <1>3, <1>5, <1>6, <1>7, <2>1, <2>2 DEF VxlanInv
<1>13. WireguardInv' /\ RouteInv'
  BY <1>1 DEF WireguardInv, RouteInv
<1>14. AddressInv'
  BY <1>1, <1>7 DEF AddressInv
<1> QED
  BY <1>8, <1>9, <1>10, <1>11, <1>12, <1>13, <1>14 DEF IInv

LEMMA WireguardAcquireStep ==
  ASSUME IInv, WireguardAcquire
  PROVE  IInv'
<1> DEFINE attrs == [f \in Families |-> WireguardAttrs(f)]
<1>1. /\ pc = "acquire" /\ cfg.be = "wireguard" /\ pc' = "address" /\ ann' = attrs
      /\ lease' \in Subnets /\ lease' = subnet
      /\ excused' \subseteq excused
      /\ \A f \in excused \ excused' : f \in cfg.fams
      /\ UNCHANGED <<cfg, subnet, kills, events, links, keyfile, routes, fam, parm, got, key, hand, seen>>
  BY AcquireFrame DEF WireguardAcquire
<1>2. cfg \in Configs /\ cfg.fams \subseteq Families /\ DFams' = DFams
  BY <1>1, FamsLemma DEF IInv, TypeOK, DFams
<1>3. /\ fam = FirstFam(cfg.fams) /\ \A f \in DFams : hand[f] # None
      /\ key \in Ids /\ key = keyfile
      /\ \A f \in Families : hand[f] # None => f \in DFams
  BY <1>1 DEF IInv, HandInv, WireguardInv
<1> HIDE DEF DFams
<1>4. fam \in cfg.fams /\ \A f \in cfg.fams : ~(f < fam)
  BY <1>2, <1>3, FamsLemma, MinLemma DEF Families
<1>5. /\ \A f \in cfg.fams : ann'[f] = [be |-> "wireguard", id |-> key]
      /\ \A f \in Families \ cfg.fams : ann'[f] \in {None, ann[f]}
      /\ ann' \in [Families -> [be : {"vxlan", "wireguard"}, id : Ids] \cup {None}]
  BY <1>1, <1>2, <1>3 DEF WireguardAttrs, IInv, TypeOK
<1>6. \A f \in cfg.fams : ~Processed(f)'
  BY <1>1, <1>4 DEF Processed
<1>7. TypeOK'
  <2>1. pc' \in StepsOf(cfg.be)
    BY <1>1 DEF StepsOf
  <2> QED
    BY <1>1, <1>5, <2>1 DEF IInv, TypeOK
<1>8. HandInv'
  BY <1>1, <1>2, <1>3, <1>4 DEF HandInv, Making, Placing, WithDevice
<1>9. LinkInv'
  BY <1>1 DEF IInv, LinkInv, Dev
<1>10. IdentityInv'
  <2> SUFFICES ASSUME NEW f \in Families, ann'[f] # None, f \notin excused'
               PROVE  /\ ann'[f].be = "vxlan" /\ links[<<"vxlan", f>>] # None =>
                           links[<<"vxlan", f>>].id = ann'[f].id
                      /\ ann'[f].be = "wireguard" => keyfile = ann'[f].id
    BY <1>1 DEF IdentityInv
  <2>1. CASE f \in cfg.fams
    BY <1>3, <1>5, <2>1
  <2>2. CASE f \notin cfg.fams
    BY <1>1, <1>5, <2>2 DEF IInv, IdentityInv
  <2> QED
    BY <2>1, <2>2
<1>11. VxlanInv' /\ RouteInv'
  BY <1>1 DEF VxlanInv, RouteInv
<1>12. WireguardInv'
  <2>1. \A f \in Families : hand[f] # None /\ hand[f].held => Dev(f)'.id = key
    BY <1>1 DEF IInv, WireguardInv, Dev
  <2> QED
    BY <1>1, <1>3, <1>5, <2>1 DEF WireguardInv
<1>13. AddressInv'
  BY <1>1, <1>6 DEF AddressInv
<1> QED
  BY <1>7, <1>8, <1>9, <1>10, <1>11, <1>12, <1>13 DEF IInv

\* The other backends announce no data.
LEMMA BareAcquireStep ==
  ASSUME IInv,
         \/ IpipAcquire \/ UdpAcquire \/ IpsecAcquire \/ TencentAcquire \/ ExtensionAcquire
         \/ HostgwAcquire \/ AllocAcquire
  PROVE  IInv'
<1>1. PICK be, next :
        /\ AcquireLease(be, Bare, next)
        /\ \/ be = "ipip" /\ next = "add"
           \/ be = "udp" /\ next = "tun"
           \/ be = "tencentvpc" /\ next = "secrets"
           \/ be = "extension" /\ next = "post"
           \/ be \in {"ipsec", "host-gw", "alloc"} /\ next = "done"
  BY DEF IpipAcquire, UdpAcquire, IpsecAcquire, TencentAcquire, ExtensionAcquire, HostgwAcquire,
         AllocAcquire
<1>2. /\ pc = "acquire" /\ cfg.be = be /\ pc' = next /\ ann' = Bare
      /\ lease' \in Subnets /\ lease' = subnet
      /\ excused' \subseteq excused
      /\ \A f \in excused \ excused' : f \in cfg.fams
      /\ UNCHANGED <<cfg, subnet, kills, events, links, keyfile, routes, fam, parm, got, key, hand, seen>>
  BY <1>1, AcquireFrame
<1>3. /\ cfg \in Configs /\ cfg.fams \subseteq Families /\ DFams' = DFams /\ DFams \subseteq Families
      /\ cfg.be \notin {"vxlan", "wireguard", "host-gw", "extension"} => DFams = {4} /\ cfg.fams = {4}
  <2>1. cfg \in Configs /\ DFams' = DFams
    BY <1>2 DEF IInv, TypeOK, DFams
  <2> HIDE DEF DFams
  <2> QED
    BY <2>1, FamsLemma
<1>4. /\ hand = NoHand /\ (\A f \in Families : hand[f] = None) /\ (be = "ipip" => fam = 4)
  BY <1>1, <1>2, NoHandLemma DEF IInv, HandInv
<1> HIDE DEF DFams
<1>5. /\ ann' \in [Families -> [be : {"vxlan", "wireguard"}, id : Ids] \cup {None}]
      /\ \A f \in Families : ann'[f] # None => ann'[f] = ann[f] /\ f \notin cfg.fams
  <2>1. \A f \in Families : ann'[f] = NoData(f)
    BY <1>2 DEF Bare
  <2>2. \A f \in Families : NoData(f) \in {None, ann[f]}
    BY DEF NoData
  <2>3. \A f \in cfg.fams : NoData(f) = None
    BY <1>1, <1>2, <1>3 DEF NoData
  <2>4. ann \in [Families -> [be : {"vxlan", "wireguard"}, id : Ids] \cup {None}]
    BY DEF IInv, TypeOK
  <2>5. ann' = [f \in Families |-> NoData(f)]
    BY <1>2 DEF Bare
  <2> QED
    BY <2>1, <2>2, <2>3, <2>4, <2>5
<1>6. TypeOK'
  <2>1. pc' \in StepsOf(cfg.be)
    BY <1>1, <1>2 DEF StepsOf
  <2> QED
    BY <1>2, <1>5, <2>1 DEF IInv, TypeOK
<1>7. HandInv'
  <2>1. \A f \in Families : hand'[f] = None
    BY <1>2, <1>4
  <2>2. be = "ipip" => pc' = "add" /\ fam' = 4 /\ DFams = {4}
    BY <1>1, <1>2, <1>3, <1>4
  <2>3. be # "ipip" => pc' \in {"tun", "secrets", "post", "done"} /\ (pc' = "done" => cfg.be \notin WithDevice)
    BY <1>1, <1>2 DEF WithDevice
  <2> QED
    BY <1>1, <1>2, <1>3, <2>1, <2>2, <2>3 DEF HandInv, Making, Placing
<1>8. LinkInv'
  BY <1>1, <1>2, <1>4 DEF IInv, LinkInv
<1>9. IdentityInv'
  BY <1>2, <1>5 DEF IInv, IdentityInv
<1>10. VxlanInv' /\ WireguardInv'
  BY <1>1, <1>2 DEF VxlanInv, WireguardInv
<1>11. AddressInv' /\ RouteInv'
  <2>1. \A f \in cfg.fams : hand'[DeviceFam(f)'] = None
    <3>1. \A f \in cfg.fams : DeviceFam(f) \in Families
      BY <1>3, FamsLemma
    <3>2. \A f \in cfg.fams : DeviceFam(f)' = DeviceFam(f)
      BY <1>2 DEF DeviceFam
    <3> QED
      BY <1>2, <1>4, <3>1, <3>2
  <2> QED
    BY <1>1, <1>2, <2>1 DEF AddressInv, RouteInv, Leased, Placing
<1> QED
  BY <1>6, <1>7, <1>8, <1>9, <1>10, <1>11 DEF IInv

\* extension: the commands.
LEMMA CommandStep ==
  ASSUME IInv, PreStartupCommand \/ PostStartupCommand
  PROVE  IInv'
<1>1. CASE pc' = "down"
  <2>1. /\ Down(links) /\ Event
        /\ UNCHANGED <<cfg, subnet, keyfile, ann, routes, excused, kills>>
    BY <1>1 DEF PreStartupCommand, PostStartupCommand, StartupCommand, Goto
  <2>2. /\ links \in [Names -> Links \cup {None}] /\ kills \in Nat /\ events' \in Nat
        /\ excused \subseteq Families
    BY <2>1 DEF Event, IInv, TypeOK
  <2> QED
    BY <2>1, <2>2, DownStep
<1>2. CASE pc' # "down"
  <2>1. /\ \/ pc = "pre" /\ pc' = "acquire"
           \/ pc = "post" /\ pc' = "done"
        /\ UNCHANGED <<cfg, subnet, kills, events, parm, got, key, hand, lease, seen, links, keyfile, ann,
                       routes, fam, excused>>
    BY <1>2 DEF PreStartupCommand, PostStartupCommand, StartupCommand, Goto, Down, host, memory
  <2>2. cfg.be = "extension"
    BY <2>1, WhoseStep DEF IInv
  <2>3. TypeOK'
    <3>1. pc' \in StepsOf(cfg.be)
      BY <2>1, <2>2 DEF StepsOf
    <3> QED
      BY <2>1, <3>1 DEF IInv, TypeOK
  <2>4. HandInv'
    <3>1. \A f \in Families : hand[f] = None
      BY <2>2 DEF IInv, HandInv, WithDevice
    <3>2. hand = NoHand
      BY <3>1, NoHandLemma DEF IInv
    <3> QED
      BY <2>1, <2>2, <3>1, <3>2 DEF HandInv, Making, Placing, WithDevice
  <2>5. LinkInv' /\ IdentityInv'
    BY <2>1, <2>2 DEF IInv, LinkInv, IdentityInv, Dev, WithDevice
  <2>6. VxlanInv' /\ WireguardInv' /\ RouteInv'
    BY <2>1, <2>2 DEF VxlanInv, WireguardInv, RouteInv
  <2>7. AddressInv'
    BY <2>1, <2>2 DEF IInv, AddressInv, WithDevice, Leased, Placing
  <2> QED
    BY <2>3, <2>4, <2>5, <2>6, <2>7 DEF IInv
<1> QED
  BY <1>1, <1>2
-----------------------------------------------------------------------------
(* The address *)

\* A link that is neither made nor removed, and keeps what it is.
Tuned(l, m) ==
  /\ m = None <=> l = None
  /\ l # None => m.kind = l.kind /\ m.p = l.p /\ m.id = l.id /\ (l.up => m.up)

\* A step on the device of the current family after the lease.
LEMMA PlaceStep ==
  ASSUME IInv, pc \in Placing,
         UNCHANGED <<cfg, subnet, kills, events, keyfile, ann, routes, parm, got, key, hand, lease, seen,
                     excused>>,
         links' \in [Names -> Links \cup {None}], \A n \in Names : Tuned(links[n], links'[n]),
         \A n \in Names : n # Name(fam) => links'[n] = links[n],
         links[Name(fam)] # None =>
           \A f \in Families : f # fam => links'[Name(fam)].addrs[f] = links[Name(fam)].addrs[f],
         pc' \in {"address", "up", "check", "done"}, pc' = "check" => cfg.be = "vxlan",
         \/ pc' # "done" /\ fam' = fam
         \/ pc' = "address" /\ fam = 4 /\ fam' = 6 /\ 6 \in cfg.fams
         \/ pc' = "done" /\ (fam = 6 \/ 6 \notin cfg.fams) /\ fam' \in Families,
         links[Name(fam)] # None =>
           /\ pc' # "address" \/ fam' # fam =>
                /\ lease \in links'[Name(fam)].addrs[fam]
                /\ fam = 4 => links'[Name(fam)].addrs[fam] = {lease}
           /\ pc' \in {"check", "done"} \/ fam' # fam => links'[Name(fam)].up
           /\ cfg.be = "vxlan" /\ (pc' = "done" \/ fam' # fam) => links[Name(fam)].id = hand[fam].id
  PROVE  IInv'
<1>1. /\ cfg \in Configs /\ fam \in cfg.fams /\ fam \in Families /\ cfg.be \in {"vxlan", "wireguard", "ipip"}
      /\ \A f \in DFams : hand[f] # None
      /\ \A f \in Families : hand[f] # None => f \in DFams
      /\ lease \in Subnets
  BY WhoseStep DEF IInv, TypeOK, HandInv, AddressInv, Placing, Leased, WithDevice
<1>2. /\ cfg.fams \subseteq Families /\ DFams \subseteq Families /\ DFams' = DFams
      /\ cfg.be = "vxlan" => DFams = cfg.fams
      /\ \A f \in cfg.fams : DeviceFam(f) \in DFams /\ Name(f) = <<cfg.be, DeviceFam(f)>> /\ Name(f) \in Names
      /\ \A f \in DFams : DeviceFam(f) = f
      /\ \A f \in Families : <<cfg.be, f>> \in Names /\ <<"vxlan", f>> \in Names
  BY <1>1, FamsLemma DEF DFams, WithDevice
<1>3. \A f \in cfg.fams : DeviceFam(f)' = DeviceFam(f) /\ Name(f)' = Name(f)
  BY DEF DeviceFam, Name
<1> HIDE DEF DFams
<1>4. \A f \in Families : Tuned(Dev(f), Dev(f)')
  BY <1>2 DEF Dev
<1>5. \A f \in Families : Tuned(links[<<"vxlan", f>>], links'[<<"vxlan", f>>])
  BY <1>2
<1>6. TypeOK'
  <2>1. pc' \in StepsOf(cfg.be) /\ fam' \in Families
    BY <1>1 DEF StepsOf, Families
  <2>2. \A f \in Families : links'[<<"vxlan", f>>] # None => links'[<<"vxlan", f>>].id \in Ids
    BY <1>5 DEF Tuned, IInv, TypeOK
  <2> QED
    BY <2>1, <2>2 DEF IInv, TypeOK
<1>7. HandInv'
  <2>1. pc' # "done" => fam' \in cfg.fams
    BY <1>1
  <2> QED
    BY <1>1, <1>2, <2>1 DEF IInv, HandInv, Making, Placing, WithDevice
<1>8. LinkInv'
  <2>1. ASSUME NEW f \in Families, hand[f] # None
        PROVE  IF hand[f].held THEN Dev(f)' # None /\ Fits(cfg, parm, Dev(f)')
               ELSE Dev(f)' = None
    BY <1>4, <2>1, SameFits DEF IInv, LinkInv, Tuned
  <2>2. parm \in Asked
    BY <1>1 DEF IInv, LinkInv, Placing, WithDevice
  <2> QED
    BY <2>1, <2>2 DEF LinkInv
<1>9. IdentityInv'
  BY <1>5 DEF IInv, IdentityInv, Tuned
<1>10. \A f \in cfg.fams : Processed(f)' => Processed(f) \/ (f = fam /\ (pc' = "done" \/ fam' # fam))
  BY <1>1, <1>2 DEF Processed, Placing, Families
<1>11. VxlanInv'
  <2> SUFFICES ASSUME cfg.be = "vxlan" PROVE VxlanInv'
    BY DEF VxlanInv
  <2>1. \A f \in Families \ excused : hand[f] # None /\ Dev(f)' # None => Dev(f)'.id = hand[f].id
    BY <1>4 DEF IInv, VxlanInv, Tuned
  <2>2. Name(fam) = <<"vxlan", fam>>
    BY <1>1, <1>2
  <2>3. pc' = "check" /\ hand[fam] # None /\ hand[fam].held => links'[<<"vxlan", fam>>].up /\ fam' = fam
    BY <1>1, <2>2 DEF IInv, LinkInv, Dev
  <2>4. ASSUME NEW f \in cfg.fams, Processed(f)', hand[f] # None, hand[f].held
        PROVE  Dev(f)'.up /\ Dev(f)'.id = hand[f].id
    <3>1. Dev(f) # None
      BY <1>2, <2>4 DEF IInv, LinkInv
    <3>2. CASE Processed(f)
      BY <1>2, <1>4, <2>4, <3>1, <3>2 DEF IInv, VxlanInv, Tuned
    <3>3. CASE f = fam /\ (pc' = "done" \/ fam' # fam)
      BY <1>1, <1>2, <1>4, <2>2, <3>1, <3>3 DEF Tuned, Dev
    <3> QED
      BY <1>10, <2>4, <3>2, <3>3
  <2>5. /\ \A f \in Families \ excused : ann[f] # None /\ ann[f].be = "vxlan" /\ hand[f] # None =>
             hand[f].id = ann[f].id
        /\ \A f \in Families : hand[f] # None => hand[f].id \in Ids
        /\ \A f \in cfg.fams : ann[f] = [be |-> "vxlan", id |-> hand[f].id]
    BY DEF IInv, VxlanInv, Leased
  <2>6. pc' = "check" /\ hand[fam'] # None /\ hand[fam'].held => Dev(fam)'.up
    BY <2>3 DEF Dev
  <2> QED
    BY <2>1, <2>4, <2>5, <2>6 DEF VxlanInv
<1>12. WireguardInv'
  <2> SUFFICES ASSUME cfg.be = "wireguard" PROVE WireguardInv'
    BY DEF WireguardInv
  <2>1. /\ key = keyfile /\ key \in Ids
        /\ \A f \in Families : hand[f] # None /\ hand[f].held => Dev(f).id = key
        /\ \A f \in cfg.fams : ann[f] = [be |-> "wireguard", id |-> key]
    BY DEF IInv, WireguardInv, Placing, Leased
  <2>2. \A f \in Families : hand[f] # None /\ hand[f].held => Dev(f)'.id = key
    BY <1>4, <2>1 DEF Tuned, IInv, LinkInv
  <2> QED
    BY <2>1, <2>2 DEF WireguardInv
<1>13. AddressInv'
  <2>1. ASSUME NEW f \in cfg.fams, hand[DeviceFam(f)] # None, hand[DeviceFam(f)].held
        PROVE  /\ Processed(f)' => /\ lease \in links'[Name(f)].addrs[f]
                                   /\ f = 4 => links'[Name(f)].addrs[f] = {lease}
                                   /\ links'[Name(f)].up
               /\ pc' \in {"up", "check"} /\ f = fam' =>
                    /\ lease \in links'[Name(f)].addrs[f]
                    /\ f = 4 => links'[Name(f)].addrs[f] = {lease}
               /\ pc' = "check" /\ f = fam' => links'[Name(f)].up
    <3>1. links[Name(f)] # None /\ Name(f) \in Names
      BY <1>2, <2>1 DEF IInv, LinkInv, Dev
    <3>2. CASE f = fam
      <4>1. ~Processed(f)
        BY <1>1, <3>2 DEF Processed, Placing, Families
      <4> QED
        BY <1>10, <3>1, <3>2, <4>1
    <3>3. CASE f # fam
      <4>1. links'[Name(f)].addrs[f] = links[Name(f)].addrs[f]
        BY <1>2, <3>1, <3>3
      <4>2. Processed(f)' => Processed(f)
        BY <1>10, <3>3
      <4>3. Processed(f) => Placed(f) /\ links[Name(f)].up
        BY <1>1, <2>1 DEF IInv, AddressInv, Held, WithDevice
      <4>4. pc' \in {"up", "check"} => fam' = fam
        OBVIOUS
      <4>5. links[Name(f)].up => links'[Name(f)].up
        BY <3>1 DEF Tuned
      <4> QED
        BY <3>3, <4>1, <4>2, <4>3, <4>4, <4>5 DEF Placed
    <3> QED
      BY <3>2, <3>3
  <2> QED
    BY <1>1, <1>3, <2>1 DEF AddressInv, Placed, Held, Making
<1>14. RouteInv'
  BY <1>1 DEF RouteInv
<1> QED
  BY <1>6, <1>7, <1>8, <1>9, <1>11, <1>12, <1>13, <1>14 DEF IInv

\* The device of the current family after the lease.
LEMMA PlaceFacts ==
  ASSUME IInv, pc \in Placing
  PROVE  /\ cfg \in Configs /\ fam \in cfg.fams /\ fam \in Families
         /\ cfg.be \in {"vxlan", "wireguard", "ipip"} /\ cfg.be \in WithDevice
         /\ cfg.fams \subseteq Families /\ Name(fam) \in Names /\ hand[DeviceFam(fam)] # None
         /\ links \in [Names -> Links \cup {None}] /\ lease \in Subnets
         /\ Held(fam) => links[Name(fam)] \in Links /\ links[Name(fam)] # None
                           /\ links[Name(fam)].kind = cfg.be
         /\ ~Held(fam) => links[Name(fam)] = None
         /\ pc = "check" => cfg.be = "vxlan" /\ DeviceFam(fam) = fam
<1>1. /\ cfg \in Configs /\ fam \in cfg.fams /\ fam \in Families /\ cfg.be \in {"vxlan", "wireguard", "ipip"}
      /\ \A f \in DFams : hand[f] # None
      /\ lease \in Subnets /\ links \in [Names -> Links \cup {None}]
      /\ pc = "check" => cfg.be = "vxlan"
  BY WhoseStep DEF IInv, TypeOK, HandInv, AddressInv, Placing, Leased, WithDevice
<1>2. /\ cfg.fams \subseteq Families /\ DeviceFam(fam) \in DFams /\ DeviceFam(fam) \in Families
      /\ Name(fam) = <<cfg.be, DeviceFam(fam)>> /\ Name(fam) \in Names /\ hand[DeviceFam(fam)] # None
      /\ cfg.be = "vxlan" => DeviceFam(fam) = fam
  BY <1>1, FamsLemma DEF WithDevice
<1>3. IF Held(fam) THEN links[Name(fam)] # None /\ links[Name(fam)].kind = cfg.be ELSE links[Name(fam)] = None
  BY <1>2 DEF Held, IInv, LinkInv, Dev, Fits
<1> QED
  BY <1>1, <1>2, <1>3 DEF WithDevice

LEMMA PlaceWrite ==
  ASSUME IInv, pc \in Placing, NEW l \in Links, l # None, links[Name(fam)] # None,
         links' = [links EXCEPT ![Name(fam)] = l], Tuned(links[Name(fam)], l)
  PROVE  /\ links' \in [Names -> Links \cup {None}]
         /\ links'[Name(fam)] = l
         /\ \A n \in Names : n # Name(fam) => links'[n] = links[n]
         /\ \A n \in Names : Tuned(links[n], links'[n])
<1>1. links \in [Names -> Links \cup {None}] /\ Name(fam) \in Names
  BY PlaceFacts
<1>2. /\ links' \in [Names -> Links \cup {None}]
      /\ links'[Name(fam)] = l
      /\ \A n \in Names : n # Name(fam) => links'[n] = links[n]
  BY <1>1
<1> QED
  BY <1>2 DEF Tuned

\* The addresses of the device are changed one by one.
LEMMA AddressStep ==
  ASSUME IInv, EnsureV4AddressOnLink \/ EnsureV6AddressOnLink
  PROVE  IInv'
<1>1. CASE Bail
  BY <1>1, BailStep
<1>2. CASE ~Bail
  <2> DEFINE n == Name(fam)
             old == links[n].addrs[fam]
  <2>1. /\ pc = "address" /\ Held(fam)
        /\ UNCHANGED <<cfg, subnet, kills, events, keyfile, ann, routes, fam, parm, got, key, hand, lease,
                       seen, excused>>
    BY <1>2 DEF EnsureV4AddressOnLink, EnsureV6AddressOnLink, host, memory
  <2>2. /\ \/ \E a : links' = [links EXCEPT ![n].addrs[fam] = old \ {a}] /\ pc' = "address"
           \/ links' = [links EXCEPT ![n].addrs[fam] = {lease}] /\ pc' = "up"
           \/ fam = 6 /\ lease \in old /\ links' = links /\ pc' = "up"
    BY <1>2, <2>1 DEF EnsureV4AddressOnLink, EnsureV6AddressOnLink, SetAddrs, Addrs
  <2>3. pc \in Placing /\ pc' \in {"address", "up"}
    BY <2>1, <2>2 DEF Placing
  <2>4. /\ links \in [Names -> Links \cup {None}] /\ n \in Names /\ fam \in Families
        /\ links[n] \in Links /\ links[n] # None /\ lease \in Subnets
    BY <2>1, <2>3, PlaceFacts
  <2>5. old \in SUBSET Subnets
    BY <2>4 DEF Links
  <2>6. PICK as \in SUBSET Subnets :
          \/ links' = [links EXCEPT ![n].addrs[fam] = as] /\ (pc' = "up" => as = {lease})
          \/ links' = links /\ as = old /\ fam = 6 /\ lease \in as
    <3>1. ASSUME NEW a, links' = [links EXCEPT ![n].addrs[fam] = old \ {a}], pc' = "address"
          PROVE  \E as \in SUBSET Subnets :
                   links' = [links EXCEPT ![n].addrs[fam] = as] /\ (pc' = "up" => as = {lease})
      BY <2>5, <3>1
    <3>2. {lease} \in SUBSET Subnets
      BY <2>4
    <3> HIDE DEF n, old
    <3> QED
      BY <2>2, <2>5, <3>1, <3>2
  <2> DEFINE l == WithAddrs(links[n], fam, as)
  <2>7. CASE links' = [links EXCEPT ![n].addrs[fam] = as] /\ (pc' = "up" => as = {lease})
    <3>1. /\ l \in Links /\ l # None
          /\ l.id = links[n].id /\ l.kind = links[n].kind /\ l.p = links[n].p /\ l.up = links[n].up
          /\ l.addrs[fam] = as /\ \A f \in Families : f # fam => l.addrs[f] = links[n].addrs[f]
      BY <2>4, SetAddr
    <3>2. links' = [links EXCEPT ![n] = l]
      BY <2>4, <2>7 DEF WithAddrs
    <3> HIDE DEF l
    <3>3. Tuned(links[n], l)
      BY <2>4, <3>1 DEF Tuned
    <3>4. /\ links' \in [Names -> Links \cup {None}]
          /\ links'[n] = l
          /\ \A m \in Names : m # n => links'[m] = links[m]
          /\ \A m \in Names : Tuned(links[m], links'[m])
      BY <2>3, <2>4, <3>1, <3>2, <3>3, PlaceWrite
    <3>5. pc' = "up" => lease \in links'[n].addrs[fam] /\ links'[n].addrs[fam] = {lease}
      BY <2>7, <3>1, <3>4
    <3>6. \A f \in Families : f # fam => links'[n].addrs[f] = links[n].addrs[f]
      BY <3>1, <3>4
    <3> QED
      BY <2>1, <2>3, <3>4, <3>5, <3>6, PlaceStep
  <2>8. CASE links' = links /\ as = old /\ fam = 6 /\ lease \in as
    <3>1. \A m \in Names : Tuned(links[m], links'[m]) /\ links'[m] = links[m]
      BY <2>8 DEF Tuned
    <3> QED
      BY <2>1, <2>3, <2>4, <2>8, <3>1, PlaceStep
  <2> QED
    BY <2>6, <2>7, <2>8
<1> QED
  BY <1>1, <1>2

\* The device is set up.
LEMMA UpStep ==
  ASSUME IInv, VxlanUp \/ WireguardUp \/ IpipUp
  PROVE  IInv'
<1>1. CASE Bail
  BY <1>1, BailStep
<1>2. CASE ~Bail
  <2> DEFINE n == Name(fam)
             l == [links[n] EXCEPT !.up = TRUE]
  <2>1. /\ pc = "up" /\ Held(fam) /\ links' = [links EXCEPT ![n].up = TRUE]
        /\ UNCHANGED <<cfg, subnet, kills, events, keyfile, ann, routes, parm, got, key, hand, lease, seen,
                       excused>>
        /\ \/ cfg.be = "vxlan" /\ pc' = "check" /\ fam' = fam
           \/ cfg.be = "wireguard" /\ EachFam(cfg.fams, "address", "done")
           \/ cfg.be = "ipip" /\ pc' = "done" /\ fam' = fam
    BY <1>2 DEF VxlanUp, WireguardUp, IpipUp, LinkGone, SetLinkUp, host, memory
  <2>2. pc \in Placing
    BY <2>1 DEF Placing
  <2>3. /\ cfg \in Configs /\ fam \in cfg.fams /\ cfg.fams \subseteq Families
        /\ links \in [Names -> Links \cup {None}] /\ n \in Names /\ fam \in Families
        /\ links[n] \in Links /\ links[n] # None
        /\ hand[DeviceFam(fam)] # None /\ cfg.be \in WithDevice
    BY <2>1, <2>2, PlaceFacts
  <2>4. /\ l \in Links /\ l # None /\ l.up
        /\ l.id = links[n].id /\ l.kind = links[n].kind /\ l.p = links[n].p /\ l.addrs = links[n].addrs
    BY <2>3, SetUp
  <2>5. links' = [links EXCEPT ![n] = l]
    BY <2>1, <2>3, WritePart
  <2> HIDE DEF l
  <2>6. Tuned(links[n], l)
    BY <2>3, <2>4 DEF Tuned
  <2>7. /\ links' \in [Names -> Links \cup {None}]
        /\ links'[n] = l
        /\ \A m \in Names : m # n => links'[m] = links[m]
        /\ \A m \in Names : Tuned(links[m], links'[m])
    BY <2>2, <2>3, <2>4, <2>5, <2>6, PlaceWrite
  <2>8. lease \in l.addrs[fam] /\ (fam = 4 => l.addrs[fam] = {lease})
    BY <2>1, <2>3, <2>4 DEF IInv, AddressInv, Placed
  <2>9. /\ pc' \in {"address", "check", "done"} /\ (pc' = "check" => cfg.be = "vxlan")
        /\ \/ pc' # "done" /\ fam' = fam
           \/ pc' = "address" /\ fam = 4 /\ fam' = 6 /\ 6 \in cfg.fams
           \/ pc' = "done" /\ (fam = 6 \/ 6 \notin cfg.fams) /\ fam' \in Families
        /\ cfg.be = "vxlan" => pc' = "check" /\ fam' = fam
    <3>1. CASE cfg.be = "wireguard"
      BY <2>1, <2>3, <3>1, EachFamLemma
    <3>2. CASE cfg.be = "ipip"
      <4>1. cfg.fams = {4}
        BY <2>3, <3>2, FamsLemma DEF Backends, WithDevice
      <4> QED
        BY <2>1, <2>3, <3>2, <4>1
    <3>3. CASE cfg.be = "vxlan"
      BY <2>1, <3>3
    <3> QED
      BY <2>1, <3>1, <3>2, <3>3
  <2>10. \A f \in Families : f # fam => links'[n].addrs[f] = links[n].addrs[f]
    BY <2>4, <2>7
  <2>11. /\ lease \in links'[n].addrs[fam] /\ (fam = 4 => links'[n].addrs[fam] = {lease})
         /\ links'[n].up
    BY <2>4, <2>7, <2>8
  <2> HIDE DEF n
  <2> QED
    BY <2>1, <2>2, <2>7, <2>9, <2>10, <2>11, PlaceStep DEF n
<1> QED
  BY <1>1, <1>2

\* vxlan: the MAC of the device is the announced one, or the process ends.
LEMMA CheckStep ==
  ASSUME IInv, CheckMac
  PROVE  IInv'
<1>1. CASE Bail
  BY <1>1, BailStep
<1>2. CASE ~Bail
  <2>1. /\ pc = "check" /\ EachFam(cfg.fams, "address", "done")
        /\ ~(links[Name(fam)] # None /\ links[Name(fam)].kind = "vxlan" /\ links[Name(fam)].id # hand[fam].id)
        /\ UNCHANGED <<cfg, subnet, kills, events, links, keyfile, ann, routes, parm, got, key, hand, lease,
                       seen, excused>>
    BY <1>2 DEF CheckMac, host, memory
  <2>2. pc \in Placing
    BY <2>1 DEF Placing
  <2>3. /\ cfg \in Configs /\ fam \in cfg.fams /\ cfg.fams \subseteq Families /\ cfg.be = "vxlan"
        /\ links \in [Names -> Links \cup {None}] /\ Name(fam) \in Names /\ fam \in Families
        /\ hand[DeviceFam(fam)] # None /\ cfg.be \in WithDevice
        /\ links[Name(fam)] # None => Held(fam) /\ links[Name(fam)].kind = "vxlan"
    BY <2>1, <2>2, PlaceFacts
  <2>4. \/ fam = 4 /\ 6 \in cfg.fams /\ pc' = "address" /\ fam' = 6
        \/ (fam = 6 \/ 6 \notin cfg.fams) /\ pc' = "done" /\ fam' \in cfg.fams
    BY <2>1, <2>3, EachFamLemma
  <2>5. links[Name(fam)] # None =>
          /\ lease \in links[Name(fam)].addrs[fam]
          /\ fam = 4 => links[Name(fam)].addrs[fam] = {lease}
          /\ links[Name(fam)].up /\ links[Name(fam)].id = hand[fam].id
    BY <2>1, <2>3 DEF IInv, AddressInv, Placed
  <2>6. \A m \in Names : Tuned(links[m], links'[m]) /\ links'[m] = links[m]
    BY <2>1 DEF Tuned
  <2> QED
    BY <2>1, <2>2, <2>3, <2>4, <2>5, <2>6, PlaceStep
<1> QED
  BY <1>1, <1>2
-----------------------------------------------------------------------------
(* udp and tencentvpc *)

\* Neither announces anything.
LEMMA NoIdentity ==
  ASSUME cfg'.be \in {"udp", "tencentvpc"}, IdentityInv, UNCHANGED <<ann, keyfile, excused>>,
         \A f \in Families : links'[<<"vxlan", f>>] = links[<<"vxlan", f>>]
  PROVE  IdentityInv' /\ VxlanInv' /\ WireguardInv'
BY DEF IdentityInv, VxlanInv, WireguardInv

\* The device of udp; a new one is not held by another name.
LEMMA TunStep ==
  ASSUME IInv, OpenTun
  PROVE  IInv'
<1> DEFINE n == <<"udp", 4>>
           l == BareLink("udp", parm)
           h == [id |-> None, held |-> TRUE]
<1>1. /\ pc = "tun" /\ pc' = "iface" /\ links' = [links EXCEPT ![n] = l]
      /\ hand' = [hand EXCEPT ![4] = h]
      /\ UNCHANGED <<cfg, subnet, kills, events, keyfile, ann, routes, fam, parm, got, key, lease, seen,
                     excused>>
  BY DEF OpenTun, Goto, host
<1>2. /\ cfg.be = "udp" /\ cfg \in Configs /\ hand \in [Families -> Hands \cup {None}]
      /\ links \in [Names -> Links \cup {None}] /\ lease \in Subnets /\ parm \in Asked
      /\ \A f \in Families : hand[f] # None => f \in DFams
  BY <1>1, WhoseStep DEF IInv, TypeOK, HandInv, LinkInv, AddressInv, WithDevice
<1>3. DFams = {4} /\ cfg.fams = {4} /\ DFams' = DFams
  BY <1>1, <1>2, FamsLemma DEF Backends, WithDevice, DFams
<1> HIDE DEF DFams
<1>4. l \in Links /\ l # None /\ l.kind = "udp" /\ l.p = parm
  <2>1. l \in Links /\ l.kind = "udp" /\ l.p = parm
    BY <1>2 DEF BareLink, Links, Kinds, WithDevice, Params
  <2> HIDE DEF l
  <2> QED
    BY <2>1, NoneAssumption
<1>5. h \in Hands /\ h # None /\ h.held
  <2>1. h \in Hands /\ h.held
    BY DEF Hands
  <2> HIDE DEF h
  <2> QED
    BY <2>1, NoneAssumption
<1> HIDE DEF l, h
<1>6. n \in Names /\ n[1] = "udp"
  BY DEF Names, WithDevice, Families
<1>7. /\ links' \in [Names -> Links \cup {None}]
      /\ links'[n] = l /\ \A m \in Names : m # n => links'[m] = links[m]
      /\ \A f \in Families : links'[<<"vxlan", f>>] # None => links'[<<"vxlan", f>>].id \in Ids
  BY <1>1, <1>2, <1>4, <1>6, WriteLink DEF IInv, TypeOK
<1>8. \A f \in Families : links'[<<"vxlan", f>>] = links[<<"vxlan", f>>]
  BY <1>7 DEF Names, WithDevice
<1>9. /\ hand' \in [Families -> Hands \cup {None}] /\ hand'[4] = h
      /\ \A f \in Families : f # 4 => hand'[f] = None
  BY <1>1, <1>2, <1>3, <1>5 DEF Families
<1>10. TypeOK'
  <2>1. pc' \in StepsOf(cfg.be)
    BY <1>1, <1>2 DEF StepsOf
  <2> QED
    BY <1>1, <1>7, <1>9, <2>1 DEF IInv, TypeOK
<1>11. HandInv'
  <2>1. \A f \in Families : hand'[f] # None => f = 4
    BY <1>9
  <2>2. hand'[4] # None
    BY <1>5, <1>9
  <2> QED
    BY <1>1, <1>2, <1>3, <2>1, <2>2 DEF HandInv, Making, Placing, WithDevice
<1>12. LinkInv'
  <2>1. links'[<<cfg'.be, 4>>] = l
    BY <1>1, <1>2, <1>7
  <2>2. Fits(cfg, parm, l)
    BY <1>2, <1>4 DEF Fits
  <2> QED
    BY <1>1, <1>2, <1>4, <1>5, <1>9, <2>1, <2>2 DEF LinkInv, Dev
<1>13. IdentityInv' /\ VxlanInv' /\ WireguardInv'
  BY <1>1, <1>2, <1>8, NoIdentity DEF IInv
<1>14. AddressInv' /\ RouteInv'
  BY <1>1, <1>2 DEF AddressInv, RouteInv, Making, Processed, Placing
<1> QED
  BY <1>10, <1>11, <1>12, <1>13, <1>14 DEF IInv

LEMMA IfaceStep ==
  ASSUME IInv, ConfigureIface
  PROVE  IInv'
<1>1. CASE Bail
  BY <1>1, BailStep
<1>2. CASE ~Bail
  <2> DEFINE n == <<"udp", 4>>
             k == WithAddrs(links[n], 4, {lease})
             l == [k EXCEPT !.up = TRUE]
  <2>1. /\ pc = "iface" /\ pc' = "done" /\ links[Name(4)] # None
        /\ links' = [links EXCEPT ![Name(4)].addrs[4] = {lease}, ![Name(4)].up = TRUE]
        /\ UNCHANGED <<cfg, subnet, kills, events, keyfile, ann, routes, fam, parm, got, key, hand, lease,
                       seen, excused>>
    BY <1>2 DEF ConfigureIface, host, memory
  <2>2. /\ cfg.be = "udp" /\ cfg \in Configs
        /\ links \in [Names -> Links \cup {None}] /\ lease \in Subnets
        /\ \A f \in Families : hand[f] # None => f \in DFams
        /\ \A f \in DFams : hand[f] # None
    BY <2>1, WhoseStep DEF IInv, TypeOK, HandInv, AddressInv, WithDevice
  <2>3. DFams = {4} /\ cfg.fams = {4} /\ DFams' = DFams /\ Name(4) = n
    BY <2>1, <2>2, FamsLemma DEF Backends, WithDevice, DFams
  <2> HIDE DEF DFams
  <2>4. n \in Names /\ n[1] = "udp" /\ 4 \in Families /\ {lease} \in SUBSET Subnets
    BY <2>2 DEF Names, WithDevice, Families
  <2>5. links[n] \in Links /\ links[n] # None
    BY <2>1, <2>2, <2>3, <2>4
  <2>6. /\ k \in Links /\ k.kind = links[n].kind /\ k.p = links[n].p /\ k.id = links[n].id
        /\ k.addrs[4] = {lease}
    BY <2>4, <2>5, SetAddr
  <2>7. links' = [links EXCEPT ![n] = l]
    <3>1. links' = [[links EXCEPT ![n] = k] EXCEPT ![n].up = TRUE]
      BY <2>1, <2>3 DEF WithAddrs
    <3> HIDE DEF k
    <3> QED
      BY <2>2, <2>4, <3>1
  <2> HIDE DEF k
  <2>8. /\ l \in Links /\ l # None /\ l.up /\ l.kind = links[n].kind /\ l.p = links[n].p
        /\ l.addrs[4] = {lease}
    BY <2>6, SetUp
  <2> HIDE DEF l
  <2>9. /\ links' \in [Names -> Links \cup {None}]
        /\ links'[n] = l /\ \A m \in Names : m # n => links'[m] = links[m]
        /\ \A f \in Families : links'[<<"vxlan", f>>] # None => links'[<<"vxlan", f>>].id \in Ids
    BY <2>2, <2>4, <2>7, <2>8, WriteLink DEF IInv, TypeOK
  <2>10. \A f \in Families : links'[<<"vxlan", f>>] = links[<<"vxlan", f>>]
    BY <2>9 DEF Names, WithDevice
  <2>11. TypeOK'
    <3>1. pc' \in StepsOf(cfg.be)
      BY <2>1, <2>2 DEF StepsOf
    <3> QED
      BY <2>1, <2>9, <3>1 DEF IInv, TypeOK
  <2>12. HandInv'
    BY <2>1, <2>2, <2>3 DEF HandInv, Making, Placing, WithDevice
  <2>13. Dev(4) = links[n] /\ Dev(4)' = l
    BY <2>1, <2>2, <2>9 DEF Dev
  <2>14. hand[4].held /\ Fits(cfg, parm, l)
    BY <2>2, <2>3, <2>4, <2>5, <2>8, <2>13, SameFits DEF IInv, LinkInv
  <2>15. LinkInv'
    <3>1. parm \in Asked
      BY <2>1, <2>2 DEF IInv, LinkInv, WithDevice
    <3> QED
      BY <2>1, <2>2, <2>3, <2>8, <2>13, <2>14, <3>1 DEF LinkInv
  <2>16. IdentityInv' /\ VxlanInv' /\ WireguardInv'
    BY <2>1, <2>2, <2>10, NoIdentity DEF IInv
  <2>17. AddressInv' /\ RouteInv'
    <3>1. Name(4)' = n
      BY <2>1, <2>3 DEF Name, DeviceFam
    <3>2. Placed(4)' /\ links'[Name(4)'].up
      BY <2>1, <2>8, <2>9, <3>1 DEF Placed
    <3> QED
      BY <2>1, <2>2, <2>3, <3>2 DEF AddressInv, RouteInv, Making
  <2> QED
    BY <2>11, <2>12, <2>15, <2>16, <2>17 DEF IInv
<1> QED
  BY <1>1, <1>2

\* The routes of the VPC.
LEMMA VpcStep ==
  ASSUME IInv, ResolveKeys \/ DescribeRouteTables \/ DeleteRoutes \/ CreateRoutes
  PROVE  IInv'
<1>1. CASE Bail
  BY <1>1, BailStep
<1>2. CASE ~Bail
  <2>1. /\ pc \in {"secrets", "describe", "reconcile"} /\ pc' \in {"describe", "reconcile", "done"}
        /\ UNCHANGED <<cfg, subnet, kills, events, links, keyfile, ann, fam, parm, got, key, hand, lease,
                       excused>>
    BY <1>2 DEF ResolveKeys, DescribeRouteTables, DeleteRoutes, CreateRoutes, Goto, host, memory
  <2>2. /\ cfg.be = "tencentvpc" /\ cfg \in Configs /\ lease \in Subnets
        /\ routes \in [Subnets -> [on : {0, 1}, off : Nat]] /\ seen \in [on : {0, 1}, off : Nat]
        /\ pc = "reconcile" => seen = routes[lease]
        /\ \A f \in Families : hand[f] = None
    BY <2>1, WhoseStep DEF IInv, TypeOK, HandInv, AddressInv, RouteInv, WithDevice
  <2>3. /\ routes' \in [Subnets -> [on : {0, 1}, off : Nat]] /\ seen' \in [on : {0, 1}, off : Nat]
        /\ pc' = "reconcile" => seen' = routes'[lease]
        /\ pc' = "done" => routes'[lease] = [on |-> 1, off |-> 0]
    <3>1. CASE ResolveKeys
      BY <1>2, <2>2, <3>1 DEF ResolveKeys, host, memory
    <3>2. CASE DescribeRouteTables
      BY <2>2, <3>2 DEF DescribeRouteTables, Goto
    <3>3. CASE DeleteRoutes
      <4>1. /\ seen.off > 0 /\ seen' = [seen EXCEPT !.off = @ - 1] /\ pc' = pc /\ pc = "reconcile"
            /\ routes' = [routes EXCEPT ![lease].off = @ - 1]
        BY <3>3 DEF DeleteRoutes
      <4>2. seen.off - 1 \in Nat /\ seen = routes[lease]
        BY <2>2, <4>1
      <4>3. seen' \in [on : {0, 1}, off : Nat]
        BY <2>2, <4>1, <4>2
      <4>4. routes' = [routes EXCEPT ![lease] = seen']
        BY <2>2, <4>1, <4>2
      <4> QED
        BY <2>2, <4>1, <4>3, <4>4
    <3>4. CASE CreateRoutes
      <4>1. /\ seen.off = 0 /\ pc = "reconcile" /\ pc' = "done" /\ seen' = seen /\ seen = routes[lease]
            /\ IF seen.on = 0 THEN routes' = [routes EXCEPT ![lease].on = @ + 1] ELSE routes' = routes
        BY <2>2, <3>4 DEF CreateRoutes, Goto, memory
      <4>2. CASE seen.on = 0
        <5>1. [routes[lease] EXCEPT !.on = @ + 1] = [on |-> 1, off |-> 0]
          BY <2>2, <4>1, <4>2
        <5>2. routes' = [routes EXCEPT ![lease] = [on |-> 1, off |-> 0]]
          BY <2>2, <4>1, <4>2, <5>1
        <5> QED
          BY <2>2, <4>1, <5>2
      <4>3. CASE seen.on # 0
        BY <2>2, <4>1, <4>3
      <4> QED
        BY <4>2, <4>3
    <3> QED
      BY <3>1, <3>2, <3>3, <3>4
  <2>4. TypeOK'
    <3>1. pc' \in StepsOf(cfg.be)
      BY <2>1, <2>2 DEF StepsOf
    <3> QED
      BY <2>1, <2>3, <3>1 DEF IInv, TypeOK
  <2>5. HandInv' /\ LinkInv'
    BY <2>1, <2>2 DEF HandInv, LinkInv, Making, Placing, WithDevice
  <2>6. IdentityInv' /\ VxlanInv' /\ WireguardInv'
    BY <2>1, <2>2, NoIdentity DEF IInv
  <2>7. AddressInv' /\ RouteInv'
    BY <2>1, <2>2, <2>3 DEF AddressInv, RouteInv, WithDevice
  <2> QED
    BY <2>4, <2>5, <2>6, <2>7 DEF IInv
<1> QED
  BY <1>1, <1>2
-----------------------------------------------------------------------------
(* The others *)

\* A link that is not up gets another MAC: its family is excused.
LEMMA ChangeMacStep ==
  ASSUME IInv, NEW n \in Names, ChangeMac(n)
  PROVE  IInv'
<1> DEFINE l == [links[n] EXCEPT !.id = Fresh]
<1>1. /\ n[1] = "vxlan" /\ links[n] # None /\ ~links[n].up
      /\ links' = [links EXCEPT ![n].id = Fresh] /\ excused' = excused \cup {n[2]} /\ events' = events + 1
      /\ UNCHANGED <<cfg, subnet, kills, parm, got, key, hand, lease, seen, keyfile, ann, routes, pc, fam>>
  BY DEF ChangeMac, Event, memory
<1>2. /\ links \in [Names -> Links \cup {None}] /\ links[n] \in Links /\ Fresh \in Ids
      /\ n = <<"vxlan", n[2]>> /\ n[2] \in Families /\ cfg \in Configs /\ cfg.fams \subseteq Families
  BY <1>1, FreshLemma, FamsLemma DEF IInv, TypeOK, Names
<1>3. /\ l \in Links /\ l # None /\ l.id = Fresh /\ l.kind = links[n].kind /\ l.p = links[n].p
      /\ l.up = links[n].up /\ l.addrs = links[n].addrs
  BY <1>2, SetId
<1>4. links' = [links EXCEPT ![n] = l]
  BY <1>1, <1>2, WritePart
<1> HIDE DEF l
<1>5. /\ links' \in [Names -> Links \cup {None}]
      /\ links'[n] = l /\ \A m \in Names : m # n => links'[m] = links[m]
      /\ \A f \in Families : links'[<<"vxlan", f>>] # None => links'[<<"vxlan", f>>].id \in Ids
  BY <1>2, <1>3, <1>4, WriteLink DEF IInv, TypeOK
<1>6. \A m \in Names : /\ links'[m] = None <=> links[m] = None
                       /\ links[m] # None =>
                            /\ links'[m].kind = links[m].kind /\ links'[m].p = links[m].p
                            /\ links'[m].up = links[m].up /\ links'[m].addrs = links[m].addrs
  BY <1>1, <1>3, <1>5
<1>7. \A f \in Families \ excused' : links'[<<"vxlan", f>>] = links[<<"vxlan", f>>]
  <2> TAKE f \in Families \ excused'
  <2>1. <<"vxlan", f>> \in Names /\ <<"vxlan", f>>[2] = f /\ f # n[2]
    BY <1>1 DEF Names, WithDevice
  <2>2. <<"vxlan", f>> # n
    BY <2>1
  <2> QED
    BY <1>5, <2>1, <2>2
<1>8. cfg.be \in WithDevice => \A f \in Families : <<cfg.be, f>> \in Names
  BY DEF Names
<1>9. TypeOK'
  BY <1>1, <1>2, <1>5 DEF IInv, TypeOK
<1>10. HandInv'
  <2>1. DFams' = DFams
    BY <1>1 DEF DFams
  <2> HIDE DEF DFams
  <2> QED
    BY <1>1, <2>1 DEF IInv, HandInv
<1>11. LinkInv'
  <2>1. ASSUME NEW f \in Families, cfg.be \in WithDevice
        PROVE  /\ Dev(f)' = None <=> Dev(f) = None
               /\ Dev(f) # None => Dev(f)'.kind = Dev(f).kind /\ Dev(f)'.p = Dev(f).p
    BY <1>1, <1>6, <1>8, <2>1 DEF Dev
  <2>2. \A f \in Families : hand[f] # None => cfg.be \in WithDevice
    BY DEF IInv, HandInv
  <2>3. pc = "lookup" => cfg.be \in WithDevice
    BY WhoseStep DEF IInv, WithDevice
  <2>4. fam \in Families
    BY DEF IInv, TypeOK
  <2>5. \A f \in Families : cfg.be \in WithDevice /\ Dev(f) # None /\ Fits(cfg, parm, Dev(f)) =>
                                 Fits(cfg, parm, Dev(f)')
    BY <2>1, SameFits
  <2> QED
    BY <1>1, <2>1, <2>2, <2>3, <2>4, <2>5 DEF IInv, LinkInv
<1>12. IdentityInv'
  BY <1>1, <1>7 DEF IInv, IdentityInv
<1>13. VxlanInv'
  <2> SUFFICES ASSUME cfg.be = "vxlan" PROVE VxlanInv'
    BY <1>1 DEF VxlanInv
  <2>1. \A f \in Families : Dev(f) = links[<<"vxlan", f>>] /\ <<"vxlan", f>> \in Names
    BY <1>8 DEF Dev, WithDevice
  <2>2. \A f : Dev(f)' = links'[<<"vxlan", f>>]
    BY <1>1 DEF Dev
  <2>3. \A f \in Families : hand[f] # None /\ hand[f].held => Dev(f) # None
    BY DEF IInv, LinkInv
  <2>4. \A f \in Families : Dev(f) # None /\ Dev(f).up => Dev(f)' = Dev(f)
    BY <1>1, <1>5, <2>1, <2>2
  <2>5. \A f \in Families \ excused' : Dev(f)' = Dev(f)
    BY <1>7, <2>1, <2>2
  <2>6. \A f \in cfg.fams : Processed(f)' = Processed(f)
    BY <1>1 DEF Processed
  <2>7. fam \in Families
    BY DEF IInv, TypeOK
  <2>8. \A f \in cfg.fams : Processed(f)' /\ hand[f] # None /\ hand[f].held =>
          Dev(f)'.up /\ Dev(f)'.id = hand[f].id
    BY <1>2, <2>3, <2>4, <2>6 DEF IInv, VxlanInv
  <2>9. pc = "check" /\ hand[fam] # None /\ hand[fam].held => Dev(fam)'.up
    BY <1>1, <2>3, <2>4, <2>7 DEF IInv, VxlanInv, Dev
  <2> QED
    BY <1>1, <2>5, <2>8, <2>9 DEF IInv, VxlanInv
<1>14. WireguardInv'
  <2> SUFFICES ASSUME cfg.be = "wireguard" PROVE WireguardInv'
    BY <1>1 DEF WireguardInv
  <2>1. \A f \in Families : <<"wireguard", f>> \in Names /\ <<"wireguard", f>> # n
    BY <1>1 DEF Names, WithDevice
  <2>2. \A f \in Families : Dev(f)' = Dev(f)
    BY <1>1, <1>5, <2>1 DEF Dev
  <2> QED
    BY <1>1, <2>2 DEF IInv, WireguardInv
<1>15. AddressInv' /\ RouteInv'
  <2>1. ASSUME NEW f \in cfg.fams, cfg.be \in WithDevice, hand[DeviceFam(f)] # None, Held(f)
        PROVE  links'[Name(f)].addrs = links[Name(f)].addrs /\ links'[Name(f)].up = links[Name(f)].up
    <3>1. DeviceFam(f) \in Families /\ Name(f) = <<cfg.be, DeviceFam(f)>>
      BY <1>2, FamsLemma
    <3>2. links[Name(f)] # None /\ Name(f) \in Names
      BY <1>8, <2>1, <3>1 DEF IInv, LinkInv, Held, Dev
    <3> QED
      BY <1>6, <3>2
  <2>2. \A f \in cfg.fams : /\ DeviceFam(f)' = DeviceFam(f) /\ Name(f)' = Name(f)
                            /\ Processed(f)' = Processed(f) /\ Held(f)' = Held(f)
    BY <1>1 DEF DeviceFam, Name, Processed, Held
  <2>3. AddressInv'
    BY <1>1, <2>1, <2>2 DEF IInv, AddressInv, Placed
  <2> QED
    BY <1>1, <2>3 DEF IInv, RouteInv
<1> QED
  BY <1>9, <1>10, <1>11, <1>12, <1>13, <1>14, <1>15 DEF IInv

\* The process that held the link holds nothing.
LEMMA DeleteLinkStep ==
  ASSUME IInv, NEW n \in Names, DeleteLink(n)
  PROVE  IInv'
<1>1. /\ links[n] # None /\ links' = [links EXCEPT ![n] = None] /\ events' = events + 1
      /\ hand' = [f \in Families |->
                    IF hand[f] # None /\ n = <<cfg.be, f>> THEN [hand[f] EXCEPT !.held = FALSE]
                    ELSE hand[f]]
      /\ UNCHANGED <<cfg, subnet, kills, keyfile, ann, routes, pc, fam, parm, got, key, lease, seen, excused>>
  BY DEF DeleteLink, Event
<1>2. /\ links \in [Names -> Links \cup {None}] /\ cfg \in Configs /\ cfg.fams \subseteq Families
      /\ hand \in [Families -> Hands \cup {None}]
  BY FamsLemma DEF IInv, TypeOK
<1>3. /\ links' \in [Names -> Links \cup {None}]
      /\ links'[n] = None /\ \A m \in Names : m # n => links'[m] = links[m]
      /\ \A f \in Families : links'[<<"vxlan", f>>] # None => links'[<<"vxlan", f>>].id \in Ids
  BY <1>1, <1>2, WriteLink DEF IInv, TypeOK
<1>4. \A m \in Names : links'[m] # None => links'[m] = links[m]
  BY <1>3
<1>5. ASSUME NEW h \in Hands
      PROVE  /\ [h EXCEPT !.held = FALSE] \in Hands /\ [h EXCEPT !.held = FALSE] # None
             /\ [h EXCEPT !.held = FALSE].id = h.id /\ ~[h EXCEPT !.held = FALSE].held
  BY NoneAssumption DEF Hands
<1>6. \A f \in Families :
        /\ hand'[f] = None <=> hand[f] = None
        /\ hand'[f] \in Hands \cup {None}
        /\ hand[f] # None => hand'[f].id = hand[f].id
        /\ hand[f] # None /\ n = <<cfg.be, f>> => ~hand'[f].held
        /\ n # <<cfg.be, f>> => hand'[f] = hand[f]
  <2> TAKE f \in Families
  <2>1. CASE hand[f] # None /\ n = <<cfg.be, f>>
    <3>1. hand[f] \in Hands /\ hand'[f] = [hand[f] EXCEPT !.held = FALSE]
      BY <1>1, <1>2, <2>1
    <3> QED
      BY <1>5, <2>1, <3>1
  <2>2. CASE ~(hand[f] # None /\ n = <<cfg.be, f>>)
    <3>1. hand'[f] = hand[f]
      BY <1>1, <2>2
    <3> QED
      BY <1>2, <2>2, <3>1
  <2> QED
    BY <2>1, <2>2
<1>7. hand' \in [Families -> Hands \cup {None}]
  <2>1. hand' = [f \in Families |-> hand'[f]]
    BY <1>1
  <2> QED
    BY <1>6, <2>1
<1>8. hand' = NoHand <=> hand = NoHand
  <2>1. hand' = NoHand <=> \A f \in Families : hand'[f] = None
    BY <1>7 DEF NoHand
  <2> QED
    BY <1>6, <2>1, NoHandLemma DEF IInv
<1>9. \A f \in Families : <<"vxlan", f>> \in Names /\ (cfg.be \in WithDevice => <<cfg.be, f>> \in Names)
  BY DEF Names, WithDevice
<1>10. TypeOK'
  BY <1>1, <1>3, <1>7 DEF IInv, TypeOK
<1>11. HandInv'
  <2>1. DFams' = DFams /\ DFams \subseteq Families
    BY <1>1, <1>2, FamsLemma DEF DFams
  <2> HIDE DEF DFams
  <2> QED
    BY <1>1, <1>6, <1>8, <2>1 DEF IInv, HandInv
<1>12. \A f \in Families : cfg.be \in WithDevice =>
         Dev(f)' = IF n = <<cfg.be, f>> THEN None ELSE Dev(f)
  BY <1>1, <1>3, <1>9 DEF Dev
<1>13. \A f \in Families : hand[f] # None => cfg.be \in WithDevice
  BY DEF IInv, HandInv
<1>14. LinkInv'
  <2>1. ASSUME NEW f \in Families, hand'[f] # None
        PROVE  IF hand'[f].held THEN Dev(f)' # None /\ Fits(cfg, parm, Dev(f)')
               ELSE Dev(f)' = None
    <3>1. hand[f] # None /\ cfg.be \in WithDevice
      BY <1>6, <1>13, <2>1
    <3>2. CASE n = <<cfg.be, f>>
      BY <1>6, <1>12, <3>1, <3>2
    <3>3. CASE n # <<cfg.be, f>>
      BY <1>6, <1>12, <3>1, <3>3 DEF IInv, LinkInv
    <3> QED
      BY <3>2, <3>3
  <2>2. pc = "lookup" => cfg.be \in WithDevice /\ fam \in Families
    BY WhoseStep DEF IInv, TypeOK, WithDevice
  <2>3. pc = "lookup" /\ Dev(fam)' # None => Fits(cfg, parm, Dev(fam)')
    BY <1>1, <1>12, <2>2 DEF IInv, LinkInv, Dev
  <2> QED
    BY <1>1, <2>1, <2>3 DEF IInv, LinkInv
<1>15. IdentityInv'
  BY <1>1, <1>4, <1>9 DEF IInv, IdentityInv
<1>16. \A f \in Families : hand'[f] # None /\ hand'[f].held =>
         hand'[f] = hand[f] /\ n # <<cfg.be, f>> /\ Dev(f)' = Dev(f)
  BY <1>6, <1>12, <1>13
<1>17. VxlanInv'
  <2> SUFFICES ASSUME cfg.be = "vxlan" PROVE VxlanInv'
    BY <1>1 DEF VxlanInv
  <2>1. \A f \in Families : Dev(f)' # None => Dev(f)' = Dev(f)
    BY <1>12 DEF WithDevice
  <2>2. \A f \in cfg.fams : Processed(f)' = Processed(f)
    BY <1>1 DEF Processed
  <2>3. \A f \in Families \ excused : ann[f] # None /\ ann[f].be = "vxlan" =>
          /\ pc \in {"add", "exists", "delete", "readd", "lookup"} => got[f] = ann[f].id
          /\ hand'[f] # None => hand'[f].id = ann[f].id
    BY <1>6 DEF IInv, VxlanInv
  <2>4. \A f \in Families \ excused : hand'[f] # None /\ Dev(f)' # None => Dev(f)'.id = hand'[f].id
    BY <1>6, <2>1 DEF IInv, VxlanInv
  <2>5. \A f \in Families : hand'[f] # None => hand'[f].id \in Ids
    BY <1>6 DEF IInv, VxlanInv
  <2>6. pc \in Leased => \A f \in cfg.fams : hand[f] # None
    <3>1. DFams = cfg.fams
      BY <1>2, FamsLemma
    <3> HIDE DEF DFams
    <3> QED
      BY <3>1 DEF IInv, HandInv, Leased, WithDevice
  <2>7. pc \in Leased => \A f \in cfg.fams : ann[f] = [be |-> "vxlan", id |-> hand'[f].id]
    BY <1>2, <1>6, <2>6 DEF IInv, VxlanInv
  <2>8. pc = "check" /\ hand'[fam] # None /\ hand'[fam].held => Dev(fam)'.up
    <3>1. fam \in Families
      BY DEF IInv, TypeOK
    <3> QED
      BY <1>1, <1>16, <3>1 DEF IInv, VxlanInv, Dev
  <2>9. \A f \in cfg.fams : Processed(f)' /\ hand'[f] # None /\ hand'[f].held =>
          Dev(f)'.up /\ Dev(f)'.id = hand'[f].id
    BY <1>2, <1>6, <1>16, <2>2 DEF IInv, VxlanInv
  <2> QED
    BY <1>1, <2>3, <2>4, <2>5, <2>7, <2>8, <2>9 DEF VxlanInv
<1>18. WireguardInv'
  <2> SUFFICES ASSUME cfg.be = "wireguard" PROVE WireguardInv'
    BY <1>1 DEF WireguardInv
  <2>1. \A f \in Families : hand'[f] # None /\ hand'[f].held /\ ~(pc = "configure" /\ f = fam) =>
          Dev(f)'.id = key
    BY <1>6, <1>16 DEF IInv, WireguardInv
  <2> QED
    BY <1>1, <1>8, <2>1 DEF IInv, WireguardInv
<1>19. AddressInv' /\ RouteInv'
  <2>1. ASSUME NEW f \in cfg.fams, cfg.be \in WithDevice, hand'[DeviceFam(f)] # None,
               hand'[DeviceFam(f)].held
        PROVE  /\ links'[Name(f)] = links[Name(f)]
               /\ hand[DeviceFam(f)] # None /\ hand[DeviceFam(f)].held
    <3>1. DeviceFam(f) \in Families /\ Name(f) = <<cfg.be, DeviceFam(f)>> /\ Name(f) \in Names
      BY <1>2, <1>9, <2>1, FamsLemma
    <3>2. hand'[DeviceFam(f)] = hand[DeviceFam(f)] /\ n # Name(f)
      BY <1>16, <2>1, <3>1
    <3> QED
      BY <1>3, <2>1, <3>1, <3>2
  <2>2. \A f \in cfg.fams : /\ DeviceFam(f)' = DeviceFam(f) /\ Name(f)' = Name(f)
                            /\ Processed(f)' = Processed(f)
    BY <1>1 DEF DeviceFam, Name, Processed
  <2>3. AddressInv'
    BY <1>1, <2>1, <2>2 DEF IInv, AddressInv, Placed, Held
  <2> QED
    BY <1>1, <2>3 DEF IInv, RouteInv
<1> QED
  BY <1>10, <1>11, <1>14, <1>15, <1>17, <1>18, <1>19 DEF IInv
-----------------------------------------------------------------------------
(* The theorems *)

LEMMA InitHolds == Init => IInv
<1> SUFFICES ASSUME Init PROVE IInv
  OBVIOUS
<1>1. /\ cfg \in Configs /\ subnet \in Subnets /\ keyfile = None /\ ann = [f \in Families |-> None]
      /\ pc = "down" /\ fam = 4 /\ parm = None /\ got = NoHand /\ key = None /\ hand = NoHand
      /\ lease = None /\ seen = NoRoutes /\ excused = {} /\ kills = 0 /\ events = 0
      /\ routes \in [Subnets -> {NoRoutes, [on |-> 0, off |-> 1]}]
  BY DEF Init
<1>2. PICK l \in Leftovers \cup {None} :
        links = [n \in Names |-> IF l # None /\ l.name = n THEN l.link ELSE None]
  BY DEF Init
<1>3. l # None => l.link \in Links /\ l.link.id \in Ids
  BY LeftoversAssumption
<1>4. links \in [Names -> Links \cup {None}] /\ \A n \in Names : links[n] # None => links[n].id \in Ids
  BY <1>2, <1>3
<1>5. \A f \in Families : <<"vxlan", f>> \in Names
  BY DEF Names, WithDevice
<1>6. \A f \in Families : NoHand[f] = None
  BY DEF NoHand
<1>7. TypeOK
  <2>1. got \in [Families -> Ids \cup {None}] /\ hand \in [Families -> Hands \cup {None}]
    BY <1>1 DEF NoHand
  <2>2. seen \in [on : {0, 1}, off : Nat] /\ routes \in [Subnets -> [on : {0, 1}, off : Nat]]
    BY <1>1 DEF NoRoutes
  <2>3. ann \in [Families -> [be : {"vxlan", "wireguard"}, id : Ids] \cup {None}]
    BY <1>1
  <2> QED
    BY <1>1, <1>4, <1>5, <2>1, <2>2, <2>3 DEF TypeOK, Families
<1>8. cfg.fams \subseteq Families
  BY <1>1, FamsLemma
<1>9. HandInv /\ LinkInv /\ RouteInv
  BY <1>1, <1>6 DEF HandInv, LinkInv, RouteInv, Making, Placing
<1>10. IdentityInv
  BY <1>1 DEF IdentityInv
<1>11. VxlanInv /\ WireguardInv
  BY <1>1, <1>6, <1>8 DEF VxlanInv, WireguardInv, Leased, Placing, Processed
<1>12. AddressInv
  <2>1. \A f \in cfg.fams : DeviceFam(f) \in Families
    BY <1>1, FamsLemma
  <2> QED
    BY <1>1, <1>6, <2>1 DEF AddressInv, Leased, Placing, Making
<1> QED
  BY <1>7, <1>9, <1>10, <1>11, <1>12 DEF IInv

LEMMA StutterStep ==
  ASSUME IInv, UNCHANGED vars
  PROVE  IInv'
<1>1. UNCHANGED <<cfg, subnet, links, keyfile, ann, routes, pc, fam, parm, got, key, hand, lease, seen,
                  excused, kills, events>>
  BY DEF vars
<1>2. TypeOK' /\ RouteInv' /\ IdentityInv'
  BY <1>1 DEF IInv, TypeOK, RouteInv, IdentityInv
<1>3. HandInv' /\ LinkInv'
  BY <1>1 DEF IInv, HandInv, LinkInv, DFams, Dev
<1>4. VxlanInv' /\ WireguardInv'
  BY <1>1 DEF IInv, VxlanInv, WireguardInv, Dev, Processed
<1>5. AddressInv'
  BY <1>1 DEF IInv, AddressInv, Placed, Processed, Held, Name, DeviceFam
<1> QED
  BY <1>2, <1>3, <1>4, <1>5 DEF IInv

LEMMA NextStep ==
  ASSUME IInv, [Next]_vars
  PROVE  IInv'
<1>1. CASE Register
  BY <1>1, StartStep, ParseSteps, StoredStep, KeySteps, AddStep, ExistsStep, ReplaceStep, LookupStep,
     ConfigureStep, VxlanAcquireStep, WireguardAcquireStep, BareAcquireStep, CommandStep, AddressStep,
     UpStep, CheckStep, TunStep, IfaceStep, VpcStep DEF Register
<1>2. CASE Others
  BY <1>2, StopStep, RebootStep, ReconfigureStep, ChangeMacStep, DeleteLinkStep DEF Others
<1>3. CASE UNCHANGED vars
  BY <1>3, StutterStep
<1> QED
  BY <1>1, <1>2, <1>3 DEF Next, Running

LEMMA Invariance == Spec => []IInv
<1>1. IInv /\ [Next]_vars => IInv'
  BY NextStep
<1> QED
  BY InitHolds, <1>1, PTL DEF Spec

\* Types: every step of every backend keeps them, whatever configuration,
\* leftover link, stop, reboot or foreign change it meets.
THEOREM TypeCorrect == Spec => []TypeOK
<1>1. IInv => TypeOK
  BY DEF IInv
<1> QED
  BY Invariance, <1>1, PTL

\* A node that has registered announces the MAC or the key of the device it
\* has (vxlan check_mac; wireguard new_subnet_attrs).
THEOREM AnnouncedTruly == Spec => []AnnouncedIsDevice
<1>1. IInv => AnnouncedIsDevice
  <2> SUFFICES ASSUME IInv, pc = "done", NEW f \in Devices
               PROVE  ann[f] = [be |-> cfg.be, id |-> links[Name(f)].id]
    BY DEF AnnouncedIsDevice
  <2>1. /\ f \in cfg.fams /\ cfg.be \in {"vxlan", "wireguard"} /\ links[Name(f)] # None
        /\ cfg \in Configs
    BY DEF Devices, IInv, TypeOK
  <2>2. /\ DeviceFam(f) \in DFams /\ DeviceFam(f) \in Families /\ Name(f) = <<cfg.be, DeviceFam(f)>>
        /\ cfg.be = "vxlan" => DeviceFam(f) = f
    BY <2>1, FamsLemma
  <2> HIDE DEF DFams
  <2>3. hand[DeviceFam(f)] # None /\ links[Name(f)] = Dev(DeviceFam(f))
    BY <2>1, <2>2 DEF IInv, HandInv, WithDevice, Dev
  <2>4. hand[DeviceFam(f)].held
    BY <2>1, <2>2, <2>3 DEF IInv, LinkInv
  <2>5. CASE cfg.be = "vxlan"
    <3>1. Dev(f).id = hand[f].id /\ ann[f] = [be |-> "vxlan", id |-> hand[f].id]
      BY <2>1, <2>2, <2>3, <2>4, <2>5 DEF IInv, VxlanInv, Processed, Leased
    <3> QED
      BY <2>2, <2>3, <2>5, <3>1
  <2>6. CASE cfg.be = "wireguard"
    <3>1. Dev(DeviceFam(f)).id = key /\ ann[f] = [be |-> "wireguard", id |-> key]
      BY <2>1, <2>2, <2>3, <2>4, <2>6 DEF IInv, WireguardInv, Leased
    <3> QED
      BY <2>3, <2>6, <3>1
  <2> QED
    BY <2>1, <2>5, <2>6
<1> QED
  BY Invariance, <1>1, PTL

\* A node that has registered has a device of the network its configuration
\* asks for (ensure_link, configure_ipip_device; one that was found and kept
\* may have another MTU, or learn), with the address of its lease
\* (ensure_v4_address_on_link), and its route in the VPC (reconcile_routes).
THEOREM RegistrationFits == Spec => []RegisteredFits
<1>1. IInv => RegisteredFits
  <2> SUFFICES ASSUME IInv, pc = "done" PROVE RegisteredFits
    BY DEF RegisteredFits
  <2>1. ASSUME NEW f \in cfg.fams, cfg.be \in WithDevice, hand[DeviceFam(f)] # None, Held(f)
        PROVE  LET l == links[Name(f)] IN
                 /\ Fits(cfg, parm, l) /\ l.up
                 /\ lease \in l.addrs[f]
                 /\ f = 4 => l.addrs[f] = {lease}
    <3>1. DeviceFam(f) \in Families /\ links[Name(f)] = Dev(DeviceFam(f))
      BY <2>1, FamsLemma DEF IInv, TypeOK, Dev
    <3>2. Fits(cfg, parm, links[Name(f)])
      BY <2>1, <3>1 DEF IInv, LinkInv, Held
    <3>3. Placed(f) /\ links[Name(f)].up
      BY <2>1 DEF IInv, AddressInv, Processed
    <3> QED
      BY <3>2, <3>3 DEF Placed
  <2>2. cfg.be = "tencentvpc" => routes[lease] = [on |-> 1, off |-> 0]
    BY DEF IInv, RouteInv
  <2> QED
    BY <2>1, <2>2 DEF RegisteredFits
<1> QED
  BY Invariance, <1>1, PTL

\* Only an acquisition writes the annotations.
LEMMA AnnouncementKept ==
  ASSUME [Next]_vars
  PROVE  \/ ann' = ann \/ VxlanAcquire \/ WireguardAcquire
         \/ \E be, next : AcquireLease(be, Bare, next)
<1>1. Bail => ann' = ann
  BY DEF Bail
<1>2. ASSUME Start \/ ParseVxlanConfig \/ ParseWgConfig \/ ParseIpipConfig \/ ParseUdpConfig
               \/ ParseIpsecConfig \/ ParseTencentConfig \/ ParseExtensionConfig
               \/ GetStoredMacAddresses \/ SetupKeys \/ WritePrivateKey \/ ParsePsk
      PROVE  ann' = ann
  BY <1>1, <1>2 DEF Start, Parsed, ParseVxlanConfig, ParseWgConfig, ParseIpipConfig, ParseUdpConfig,
     ParseIpsecConfig, ParseTencentConfig, ParseExtensionConfig, GetStoredMacAddresses, SetupKeys,
     WritePrivateKey, ParsePsk
<1>3. ASSUME VxlanLinkAdd \/ WireguardLinkAdd \/ IpipLinkAdd
               \/ VxlanLinkExists \/ WireguardLinkExists \/ IpipLinkExists
               \/ LinkDel \/ LinkAddAgain
               \/ VxlanLinkLookup \/ WireguardLinkLookup \/ IpipLinkLookup \/ ConfigureDevice
      PROVE  ann' = ann
  BY <1>1, <1>3 DEF AddLink, VxlanLinkAdd, WireguardLinkAdd, IpipLinkAdd, VxlanLinkExists,
     WireguardLinkExists, IpipLinkExists, LinkDel, LinkAddAgain, VxlanLinkLookup, WireguardLinkLookup,
     IpipLinkLookup, ConfigureDevice
<1>4. ASSUME PreStartupCommand \/ PostStartupCommand
               \/ EnsureV4AddressOnLink \/ EnsureV6AddressOnLink
               \/ VxlanUp \/ WireguardUp \/ IpipUp \/ CheckMac
               \/ OpenTun \/ ConfigureIface
               \/ ResolveKeys \/ DescribeRouteTables \/ DeleteRoutes \/ CreateRoutes
      PROVE  ann' = ann
  BY <1>1, <1>4 DEF PreStartupCommand, PostStartupCommand, StartupCommand, EnsureV4AddressOnLink, EnsureV6AddressOnLink,
     VxlanUp, WireguardUp, IpipUp, LinkGone, SetLinkUp, CheckMac, OpenTun, ConfigureIface, ResolveKeys,
     DescribeRouteTables, DeleteRoutes, CreateRoutes
<1>5. ASSUME Others \/ Running \/ UNCHANGED vars
      PROVE  ann' = ann
  BY <1>5 DEF Others, Stop, Reboot, Reconfigure, ChangeMac, DeleteLink, Running, vars
<1>6. ASSUME IpipAcquire \/ UdpAcquire \/ IpsecAcquire \/ TencentAcquire \/ ExtensionAcquire
               \/ HostgwAcquire \/ AllocAcquire
      PROVE  \E be, next : AcquireLease(be, Bare, next)
  BY <1>6 DEF IpipAcquire, UdpAcquire, IpsecAcquire, TencentAcquire, ExtensionAcquire, HostgwAcquire,
     AllocAcquire
<1> QED
  BY <1>2, <1>3, <1>4, <1>5, <1>6 DEF Next, Register

\* An announced MAC or key changes only when the old one could not be restored
\* (vxlan create_vxlan_device, get_stored_mac_addresses; wireguard setup_keys).
THEOREM IdentityIsKept == Spec => IdentityKept
<1>1. ASSUME IInv, [Next]_vars, NEW f \in Families,
             ann[f] # None, ann'[f] # None, ann[f].be = ann'[f].be, f \notin excused
      PROVE  ann'[f] = ann[f]
  <2>1. /\ cfg \in Configs /\ ann[f] \in [be : {"vxlan", "wireguard"}, id : Ids]
    BY <1>1 DEF IInv, TypeOK
  <2>2. CASE VxlanAcquire
    <3>1. pc = "acquire" /\ cfg.be = "vxlan" /\ ann' = [g \in Families |-> VxlanAttrs(g)]
      BY <1>1, <2>2, AcquireFrame DEF VxlanAcquire
    <3>2. CASE f \in cfg.fams
      <4>1. ann'[f] = [be |-> "vxlan", id |-> hand[f].id]
        BY <3>1, <3>2 DEF VxlanAttrs
      <4>2. hand[f] # None
        <5>1. f \in DFams
          BY <2>1, <3>1, <3>2, FamsLemma
        <5> HIDE DEF DFams
        <5> QED
          BY <1>1, <3>1, <5>1 DEF IInv, HandInv
      <4>3. PICK i : i = hand[f].id
        OBVIOUS
      <4>4. ann'[f].be = "vxlan" /\ ann'[f] = [be |-> "vxlan", id |-> i]
        BY <4>1, <4>3
      <4>5. ann[f].be = "vxlan"
        BY <1>1, <4>4
      <4>6. i = ann[f].id
        BY <1>1, <3>1, <4>2, <4>3, <4>5 DEF IInv, VxlanInv
      <4> QED
        BY <2>1, <4>4, <4>5, <4>6
    <3>3. CASE f \notin cfg.fams
      BY <3>1, <3>3 DEF VxlanAttrs
    <3> QED
      BY <3>2, <3>3
  <2>3. CASE WireguardAcquire
    <3>1. pc = "acquire" /\ cfg.be = "wireguard" /\ ann' = [g \in Families |-> WireguardAttrs(g)]
      BY <1>1, <2>3, AcquireFrame DEF WireguardAcquire
    <3>2. CASE f \in cfg.fams
      <4>1. ann'[f] = [be |-> "wireguard", id |-> key]
        BY <3>1, <3>2 DEF WireguardAttrs
      <4>2. ann[f].be = "wireguard" /\ key = keyfile
        BY <1>1, <3>1, <4>1 DEF IInv, WireguardInv
      <4>3. keyfile = ann[f].id
        BY <1>1, <4>2 DEF IInv, IdentityInv
      <4> QED
        BY <2>1, <4>1, <4>2, <4>3
    <3>3. CASE f \notin cfg.fams
      BY <1>1, <3>1, <3>3 DEF WireguardAttrs
    <3> QED
      BY <3>2, <3>3
  <2>4. ASSUME NEW be, NEW next, AcquireLease(be, Bare, next)
        PROVE  ann'[f] = ann[f]
    BY <1>1, <2>4 DEF AcquireLease, Bare, NoData
  <2> QED
    BY <1>1, <2>2, <2>3, <2>4, AnnouncementKept
<1>2. IInv /\ [Next]_vars =>
        [\A f \in Families :
           (ann[f] # None /\ ann'[f] # None /\ ann[f].be = ann'[f].be /\ ann'[f] # ann[f]) => f \in excused]_vars
  BY <1>1
<1> QED
  BY Invariance, <1>2, PTL DEF Spec, IdentityKept
=============================================================================
