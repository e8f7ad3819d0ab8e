----------------------------- MODULE RouteProofs -----------------------------
(***************************************************************************)
(* Proofs about RouteNetwork, for every set of subnets and gateways and    *)
(* any number of events, flushes and faults: the tracked list and the      *)
(* kernel's table follow the peers with a stable gateway, whatever the     *)
(* route check does from its older copy of the list.                       *)
(***************************************************************************)
EXTENDS RouteNetwork, SequenceTheorems, TLAPS

\* The event of a peer that the loop has not received yet.
Pending(d) == inbox # <<>> /\ Head(inbox).route.dst = d

\* The loop has an Added event of the peer in hand.
Adding(d) == loop \in {"list", "relist", "add"} /\ route.dst = d

\* An event in the channel says how its peer is now, and names a gateway the
\* peer may have.
EventInv ==
  /\ \A d \in Subnets : peers[d] \in GatewaysOf(d) \cup {NoGateway}
  /\ inbox # <<>> =>
       /\ Head(inbox).route.gw \in GatewaysOf(Head(inbox).route.dst)
       /\ peers[Head(inbox).route.dst] =
            IF Head(inbox).type = "Added" THEN Head(inbox).route.gw ELSE NoGateway

\* route_add replaces only a route to another gateway of the same owner, and
\* a route is removed only of a peer that has left.
StepInv ==
  /\ loop = "replace" => seen \in GatewaysOf(route.dst) /\ seen \notin {NoGateway, route.gw}
  /\ loop = "remove" => peers[route.dst] = NoGateway \/ Pending(route.dst)

NoDuplicates(s) == \A i, j \in 1..Len(s) : s[i] = s[j] => i = j

\* The list has the route of a stable peer as soon as its event is received.
TrackedInv ==
  /\ NoDuplicates(tracked)
  /\ \A d \in Subnets : Stable(d) /\ ~Pending(d) =>
       \A g \in Gateways : Contains(tracked, Route(d, g)) <=> peers[d] = g

\* The kernel has it as soon as route_add is done.
KernelInv ==
  flushes = 0 /\ faults = 0 =>
    \A d \in Subnets :
      Stable(d) /\ peers[d] \in Gateways /\ ~Pending(d) /\ ~Adding(d) => kernel[d] = peers[d]

IInv == TypeOK /\ EventInv /\ StepInv /\ TrackedInv /\ KernelInv
-----------------------------------------------------------------------------
(* The list *)

LEMMA AppendContains ==
  ASSUME NEW S, NEW s \in Seq(S), NEW r \in S
  PROVE  /\ Append(s, r) \in Seq(S)
         /\ \A x : Contains(Append(s, r), x) <=> Contains(s, x) \/ x = r
         /\ NoDuplicates(s) /\ ~Contains(s, r) => NoDuplicates(Append(s, r))
<1>1. /\ Append(s, r) \in Seq(S) /\ Len(s) \in Nat /\ Len(Append(s, r)) = Len(s) + 1
      /\ \A i \in 1..Len(s) : Append(s, r)[i] = s[i]
      /\ Append(s, r)[Len(s) + 1] = r
  BY AppendProperties, LenProperties
<1>2. ASSUME NEW x PROVE Contains(Append(s, r), x) <=> Contains(s, x) \/ x = r
  BY <1>1 DEF Contains
<1>3. ASSUME NoDuplicates(s), ~Contains(s, r) PROVE NoDuplicates(Append(s, r))
  BY <1>1, <1>3 DEF Contains, NoDuplicates
<1> QED
  BY <1>1, <1>2, <1>3

\* remove_from_route_list drops the first equal entry: the only one.
LEMMA RemoveFirstContains ==
  ASSUME NEW S, NEW s \in Seq(S), NEW r, NoDuplicates(s)
  PROVE  /\ RemoveFirst(s, r) \in Seq(S)
         /\ \A x : Contains(RemoveFirst(s, r), x) <=> Contains(s, x) /\ x # r
         /\ NoDuplicates(RemoveFirst(s, r))
<1>1. CASE ~(\E i \in 1..Len(s) : s[i] = r)
  <2>1. RemoveFirst(s, r) = s
    BY <1>1 DEF RemoveFirst
  <2> QED
    BY <1>1, <2>1 DEF Contains
<1>2. CASE \E i \in 1..Len(s) : s[i] = r
  <2>1. PICK i \in 1..Len(s) : s[i] = r
    BY <1>2
  <2>2. {j \in 1..Len(s) : s[j] = r} = {i}
    BY <2>1 DEF NoDuplicates
  <2>3. Min({i}) = i
    <3>1. i \in Nat
      BY <2>1, LenProperties
    <3> QED
      BY <3>1 DEF Min
  <2>4. SelectInSeq(s, LAMBDA v : v = r) = i
    BY <2>2, <2>3 DEF SelectInSeq
  <2> DEFINE t == SubSeq(s, 1, i - 1) \o SubSeq(s, i + 1, Len(s))
  <2>5. RemoveFirst(s, r) = t
    BY <1>2, <2>4 DEF RemoveFirst, RemoveAt
  <2>6. /\ Len(s) \in Nat /\ i \in Nat
        /\ SubSeq(s, 1, i - 1) \in Seq(S) /\ Len(SubSeq(s, 1, i - 1)) = i - 1
        /\ \A j \in 1..(i - 1) : SubSeq(s, 1, i - 1)[j] = s[j]
        /\ SubSeq(s, i + 1, Len(s)) \in Seq(S) /\ Len(SubSeq(s, i + 1, Len(s))) = Len(s) - i
        /\ \A j \in 1..(Len(s) - i) : SubSeq(s, i + 1, Len(s))[j] = s[i + j]
    BY <2>1, SubSeqProperties, LenProperties
  <2>7. /\ t \in Seq(S) /\ Len(t) = Len(s) - 1
        /\ \A j \in 1..(Len(s) - 1) : t[j] = IF j < i THEN s[j] ELSE s[j + 1]
    <3> DEFINE a == SubSeq(s, 1, i - 1)
               b == SubSeq(s, i + 1, Len(s))
    <3>1. /\ t \in Seq(S) /\ Len(t) = Len(a) + Len(b)
          /\ \A j \in 1..(Len(a) + Len(b)) : t[j] = IF j <= Len(a) THEN a[j] ELSE b[j - Len(a)]
      BY <2>6, ConcatProperties
    <3>2. /\ Len(a) = i - 1 /\ \A j \in 1..(i - 1) : a[j] = s[j]
          /\ Len(b) = Len(s) - i /\ \A j \in 1..(Len(s) - i) : b[j] = s[i + j]
      BY <2>6
    <3>0. Len(s) \in Nat /\ i \in 1..Len(s)
      BY <2>1, <2>6
    <3> HIDE DEF t, a, b
    <3>3. ASSUME NEW j \in 1..(Len(s) - 1) PROVE t[j] = IF j < i THEN s[j] ELSE s[j + 1]
      <4>1. CASE j < i
        <5>1. t[j] = a[j]
          <6>1. j \in 1..(Len(a) + Len(b)) /\ j <= Len(a)
            BY <4>1, <3>2, <3>0
          <6> QED
            BY <6>1, <3>1
        <5> QED
          BY <5>1, <4>1, <3>2, <3>0
      <4>2. CASE j >= i
        <5>1. t[j] = b[j - (i - 1)] /\ j - (i - 1) \in 1..(Len(s) - i)
          <6>1. j \in 1..(Len(a) + Len(b)) /\ ~(j <= Len(a)) /\ j - (i - 1) \in 1..(Len(s) - i)
            BY <4>2, <3>2, <3>0
          <6>2. t[j] = b[j - Len(a)]
            BY <6>1, <3>1
          <6> QED
            BY <6>1, <6>2, <3>2
        <5>2. b[j - (i - 1)] = s[i + (j - (i - 1))]
          BY <5>1, <3>2, <3>0
        <5>3. i + (j - (i - 1)) = j + 1
          BY <3>0
        <5> QED
          BY <5>1, <5>2, <5>3, <4>2, <3>0
      <4> QED
        BY <4>1, <4>2, <3>0
    <3>4. Len(a) + Len(b) = Len(s) - 1
      BY <3>2, <3>0
    <3> QED
      BY <3>1, <3>3, <3>4
  <2> HIDE DEF t
  <2>8. ASSUME NEW x, Contains(t, x) PROVE Contains(s, x) /\ x # r
    <3>1. PICK j \in 1..Len(t) : t[j] = x
      BY <2>8 DEF Contains
    <3>2. PICK k \in 1..Len(s) : k # i /\ s[k] = x
      BY <3>1, <2>6, <2>7, <2>1
    <3> QED
      BY <3>2, <2>1 DEF Contains, NoDuplicates
  <2>9. ASSUME NEW x, Contains(s, x), x # r PROVE Contains(t, x)
    <3>1. PICK k \in 1..Len(s) : s[k] = x /\ k # i
      BY <2>9, <2>1 DEF Contains
    <3>2. CASE k < i
      BY <3>1, <3>2, <2>6, <2>7, <2>1 DEF Contains
    <3>3. CASE k > i
      <4>1. k - 1 \in 1..Len(t) /\ t[k - 1] = x
        BY <3>1, <3>3, <2>6, <2>7, <2>1
      <4> QED
        BY <4>1 DEF Contains
    <3> QED
      BY <3>1, <3>2, <3>3, <2>6
  <2>10. NoDuplicates(t)
    <3> SUFFICES ASSUME NEW j \in 1..Len(t), NEW k \in 1..Len(t), t[j] = t[k]
                 PROVE  j = k
      BY DEF NoDuplicates
    <3> DEFINE at(n) == IF n < i THEN n ELSE n + 1
    <3>1. at(j) \in 1..Len(s) /\ at(k) \in 1..Len(s) /\ (at(j) = at(k) => j = k)
      BY <2>6, <2>7, <2>1
    <3>2. t[j] = s[at(j)] /\ t[k] = s[at(k)]
      BY <2>7
    <3> HIDE DEF at
    <3> QED
      BY <3>1, <3>2 DEF NoDuplicates
  <2> QED
    BY <2>5, <2>7, <2>8, <2>9, <2>10
<1> QED
  BY <1>1, <1>2

LEMMA TrackedGatewaysOf ==
  ASSUME tracked \in Seq(Routes), NEW d \in Subnets
  PROVE  TrackedGateways(d) = {g \in Gateways : Contains(tracked, Route(d, g))}
<1>1. Len(tracked) \in Nat /\ \A i \in 1..Len(tracked) : tracked[i] \in Routes
  BY LenProperties, ElementOfSeq
<1>2. ASSUME NEW r \in Routes PROVE r = Route(r.dst, r.gw) /\ r.gw \in Gateways
  BY DEF Routes, Route
<1>3. ASSUME NEW g \in TrackedGateways(d)
      PROVE  g \in Gateways /\ Contains(tracked, Route(d, g))
  BY <1>1, <1>2, <1>3 DEF TrackedGateways, Contains
<1>4. ASSUME NEW g \in Gateways, Contains(tracked, Route(d, g))
      PROVE  g \in TrackedGateways(d)
  BY <1>1, <1>2, <1>4 DEF TrackedGateways, Contains, Route
<1> QED
  BY <1>3, <1>4
-----------------------------------------------------------------------------
(* Steps *)

\* The channel is empty or has one event, of a subnet.
LEMMA HeadOfInbox ==
  ASSUME TypeOK
  PROVE  /\ inbox # <<>> =>
              /\ Head(inbox) \in [type : {"Added", "Removed"},
                                   route : [dst : Subnets, gw : Gateways \cup {Foreign}]]
              /\ Tail(inbox) = <<>>
<1> DEFINE E == [type : {"Added", "Removed"}, route : [dst : Subnets, gw : Gateways \cup {Foreign}]]
<1> SUFFICES ASSUME inbox # <<>> PROVE Head(inbox) \in E /\ Tail(inbox) = <<>>
  OBVIOUS
<1>1. inbox \in Seq(E) /\ Len(inbox) <= 1
  BY DEF TypeOK
<1> HIDE DEF E
<1>2. Head(inbox) \in E /\ Tail(inbox) \in Seq(E) /\ Len(Tail(inbox)) = Len(inbox) - 1 /\ Len(inbox) \in Nat
  BY <1>1, HeadTailProperties, LenProperties
<1>3. Len(Tail(inbox)) = 0
  BY <1>1, <1>2, LenProperties
<1> QED
  BY <1>2, <1>3, EmptySeq

\* What a step leaves alone keeps its part of the invariant.
LEMMA EventKept ==
  ASSUME EventInv, UNCHANGED <<peers, inbox>>
  PROVE  EventInv'
BY DEF EventInv

LEMMA TrackedKept ==
  ASSUME TrackedInv, UNCHANGED <<peers, inbox, tracked>>
  PROVE  TrackedInv'
BY DEF TrackedInv, Pending

\* A step that gives the table routes it may have keeps those it had.
LEMMA KernelKept ==
  ASSUME KernelInv, flushes \in Nat, faults \in Nat,
         UNCHANGED <<peers, inbox, loop, route>>,
         flushes' = 0 /\ faults' = 0 =>
           /\ flushes = 0 /\ faults = 0
           /\ \A d \in Subnets : kernel[d] # NoGateway => kernel'[d] = kernel[d],
         NoGateway \notin Gateways
  PROVE  KernelInv'
BY DEF KernelInv, Pending, Adding

\* A stable owner has one gateway.
LEMMA StableGateway ==
  ASSUME NEW d \in Subnets, Stable(d), NEW g \in GatewaysOf(d), NEW h \in GatewaysOf(d)
  PROVE  g = h
BY DEF Stable

LEMMA KernelAddLemma ==
  ASSUME kernel \in Kernels, NEW r \in Routes, KernelAdd(r)
  PROVE  /\ kernel' \in Kernels
         /\ \A d \in Subnets : kernel[d] # NoGateway => kernel'[d] = kernel[d]
         /\ \A d \in Subnets : d # r.dst => kernel'[d] = kernel[d]
         /\ kernel[r.dst] = NoGateway => kernel'[r.dst] = r.gw
BY DEF Kernels, Routes, KernelAdd

\* The route is deleted.
LEMMA KernelDelLemma ==
  ASSUME kernel \in Kernels, NEW d \in Subnets
  PROVE  [kernel EXCEPT ![d] = NoGateway] \in Kernels
BY DEF Kernels
-----------------------------------------------------------------------------

LEMMA AnnounceStep ==
  ASSUME IInv, NEW type \in {"Added", "Removed"}, NEW d \in Subnets, NEW g \in GatewaysOf(d),
         Announce(type, d, g)
  PROVE  IInv'
<1> DEFINE e == [type |-> type, route |-> Route(d, g)]
<1>1. /\ inbox = <<>> /\ inbox' = <<e>> /\ events' = events + 1
      /\ peers' = [peers EXCEPT ![d] = IF type = "Added" THEN g ELSE NoGateway]
      /\ UNCHANGED <<run, loop, route, seen, tracked, kernel, check, missing, dump,
                     cancelled, flushes, faults>>
  BY DEF Announce, loopVars, checkVars, envVars
<1>2. e \in [type : {"Added", "Removed"}, route : [dst : Subnets, gw : Gateways \cup {Foreign}]]
  BY GatewayAssumption DEF Route
<1>3. inbox' # <<>> /\ Head(inbox') = e /\ Len(inbox') = 1
  BY <1>1
<1>4. peers \in [Subnets -> Gateways \cup {Foreign, NoGateway}]
  BY DEF IInv, TypeOK
<1>5. /\ peers'[d] = (IF type = "Added" THEN g ELSE NoGateway)
      /\ \A c \in Subnets : c # d => peers'[c] = peers[c]
  BY <1>1, <1>4
<1>6. TypeOK'
  <2>1. peers' \in [Subnets -> Gateways \cup {Foreign, NoGateway}]
    BY <1>1, <1>4, GatewayAssumption
  <2>2. inbox' \in Seq([type : {"Added", "Removed"}, route : [dst : Subnets, gw : Gateways \cup {Foreign}]])
    <3> HIDE DEF e
    <3> QED
      BY <1>1, <1>2
  <2> QED
    BY <1>1, <1>3, <2>1, <2>2 DEF IInv, TypeOK
<1>7. EventInv'
  BY <1>3, <1>5 DEF IInv, EventInv, Route
<1>8. \A c : Pending(c)' <=> c = d
  BY <1>3 DEF Pending, Route
<1>9. \A c : ~Pending(c)
  BY <1>1 DEF Pending
<1>10. StepInv'
  BY <1>1, <1>5, <1>8, <1>9 DEF IInv, TypeOK, StepInv, Routes
<1>11. TrackedInv'
  BY <1>1, <1>5, <1>8, <1>9 DEF IInv, TrackedInv
<1>12. KernelInv'
  BY <1>1, <1>5, <1>8, <1>9 DEF IInv, KernelInv, Adding
<1> QED
  BY <1>6, <1>7, <1>10, <1>11, <1>12 DEF IInv

LEMMA RunSteps ==
  ASSUME IInv, Start \/ CloseEvents \/ Join \/ Cancel \/ CheckBegin \/ CheckEnd \/ CheckStop
                 \/ UNCHANGED vars
  PROVE  IInv'
<1>1. /\ UNCHANGED <<peers, events, inbox, loop, route, seen, tracked, kernel, dump, flushes>>
      /\ faults' \in Nat /\ (faults' = 0 => faults = 0)
      /\ run' \in {"start", "loop", "join", "done"} /\ cancelled' \in BOOLEAN
      /\ check' \in {"off", "sleep", "dump", "add", "done"}
      /\ missing' \in {missing, tracked}
  <2>1. /\ faults \in Nat /\ run \in {"start", "loop", "join", "done"} /\ cancelled \in BOOLEAN
        /\ check \in {"off", "sleep", "dump", "add", "done"}
    BY DEF IInv, TypeOK
  <2>2. CASE Start \/ CloseEvents \/ Join
    BY <2>1, <2>2 DEF Start, CloseEvents, Join, chanVars, loopVars, checkVars, envVars, Fault, NoFault
  <2>3. CASE CheckBegin \/ CheckEnd \/ CheckStop
    BY <2>1, <2>3 DEF CheckBegin, CheckEnd, CheckStop, chanVars, loopVars, checkVars, envVars
  <2>4. CASE Cancel \/ UNCHANGED vars
    BY <2>1, <2>4 DEF Cancel, vars, chanVars, loopVars, checkVars, envVars
  <2> QED
    BY <2>2, <2>3, <2>4
<1>2. TypeOK'
  BY <1>1 DEF IInv, TypeOK
<1>3. StepInv'
  BY <1>1 DEF IInv, StepInv, Pending
<1>4. KernelInv'
  BY <1>1, KernelKept, GatewayAssumption DEF IInv, TypeOK
<1> QED
  BY <1>1, <1>2, <1>3, <1>4, EventKept, TrackedKept DEF IInv

LEMMA SkipStep ==
  ASSUME IInv, SkipForeign
  PROVE  IInv'
<1> DEFINE e == Head(inbox)
<1>1. /\ loop = "recv" /\ inbox # <<>> /\ e.route.gw = Foreign /\ inbox' = Tail(inbox)
      /\ UNCHANGED <<peers, events, run, loop, route, seen, tracked, kernel, check, missing,
                     dump, cancelled, flushes, faults>>
  BY DEF SkipForeign, loopVars, checkVars, envVars
<1>2. inbox' = <<>> /\ e.route.dst \in Subnets
  BY <1>1, HeadOfInbox DEF IInv
<1>3. TypeOK'
  BY <1>1, <1>2 DEF IInv, TypeOK
<1>4. EventInv' /\ StepInv'
  BY <1>1, <1>2 DEF IInv, EventInv, StepInv
<1>5. \A d : ~Pending(d)' /\ (Pending(d) <=> d = e.route.dst)
  BY <1>1, <1>2 DEF Pending
<1>6. ASSUME NEW d \in Subnets, Stable(d), d = e.route.dst
      PROVE  /\ peers[d] \notin Gateways
             /\ \A g \in Gateways : ~Contains(tracked, Route(d, g))
  <2>1. Foreign \in GatewaysOf(d) /\ peers[d] \in GatewaysOf(d) \cup {NoGateway}
    BY <1>1, <1>6 DEF IInv, EventInv
  <2>2. \A g \in GatewaysOf(d) : g \notin Gateways
    BY <2>1, <1>6, StableGateway, GatewayAssumption
  <2>3. \A g \in Gateways : Contains(tracked, Route(d, g)) => Route(d, g) \in Routes
    BY ElementOfSeq DEF IInv, TypeOK, Contains
  <2>4. \A g : Route(d, g) \in Routes => g \in GatewaysOf(d)
    BY DEF Routes, Route
  <2> QED
    BY <2>1, <2>2, <2>3, <2>4, GatewayAssumption
<1>7. TrackedInv'
  <2>1. \A d \in Subnets : Stable(d) =>
          \A g \in Gateways : Contains(tracked, Route(d, g)) <=> peers[d] = g
    BY <1>5, <1>6 DEF IInv, TrackedInv
  <2> QED
    BY <2>1, <1>1 DEF IInv, TrackedInv
<1>8. KernelInv'
  BY <1>1, <1>5, <1>6 DEF IInv, KernelInv, Adding
<1> QED
  BY <1>3, <1>4, <1>7, <1>8 DEF IInv
-----------------------------------------------------------------------------
(* An event is received *)

\* The event in hand is of a lease of this backend: its route may be
\* programmed.
LEMMA ReceivedRoute ==
  ASSUME IInv, NEW type \in {"Added", "Removed"}, Received(type)
  PROVE  /\ inbox # <<>> /\ loop = "recv" /\ Tail(inbox) = <<>>
         /\ Head(inbox).route \in Routes
         /\ peers[Head(inbox).route.dst] = IF type = "Added" THEN Head(inbox).route.gw ELSE NoGateway
<1>1. inbox # <<>> /\ loop = "recv" /\ Head(inbox).type = type /\ Head(inbox).route.gw # Foreign
  BY DEF Received
<1>2. Head(inbox).route \in [dst : Subnets, gw : Gateways \cup {Foreign}] /\ Tail(inbox) = <<>>
  BY <1>1, HeadOfInbox DEF IInv
<1>3. Head(inbox).route.gw \in GatewaysOf(Head(inbox).route.dst)
  BY <1>1 DEF IInv, EventInv
<1>4. Head(inbox).route \in Routes
  BY <1>1, <1>2, <1>3 DEF Routes
<1> QED
  BY <1>1, <1>2, <1>4 DEF IInv, EventInv

LEMMA RecvAddedStep ==
  ASSUME IInv, RecvAdded
  PROVE  IInv'
<1> DEFINE r == Head(inbox).route
<1>1. /\ inbox # <<>> /\ loop = "recv" /\ inbox' = <<>>
      /\ r \in Routes /\ peers[r.dst] = r.gw
      /\ route' = r /\ loop' = "list"
      /\ tracked' = IF Contains(tracked, r) THEN tracked ELSE Append(tracked, r)
      /\ UNCHANGED <<peers, events, run, seen, kernel, check, missing, dump, cancelled, flushes, faults>>
  BY ReceivedRoute DEF RecvAdded, checkVars, envVars
<1>2. \A d : ~Pending(d)' /\ (Pending(d) <=> d = r.dst)
  BY <1>1 DEF Pending
<1>3. tracked \in Seq(Routes) /\ NoDuplicates(tracked)
  BY DEF IInv, TypeOK, TrackedInv
<1> HIDE DEF r
<1>4. /\ tracked' \in Seq(Routes) /\ NoDuplicates(tracked')
      /\ \A x : Contains(tracked', x) <=> Contains(tracked, x) \/ x = r
  <2>1. CASE Contains(tracked, r)
    BY <2>1, <1>1, <1>3
  <2>2. CASE ~Contains(tracked, r)
    BY <2>2, <1>1, <1>3, AppendContains
  <2> QED
    BY <2>1, <2>2
<1>5. TypeOK'
  BY <1>1, <1>4 DEF IInv, TypeOK
<1>6. EventInv' /\ StepInv'
  BY <1>1 DEF IInv, EventInv, StepInv
<1>7. TrackedInv'
  <2> SUFFICES ASSUME NEW d \in Subnets, Stable(d), NEW g \in Gateways
               PROVE  Contains(tracked', Route(d, g)) <=> peers[d] = g
    BY <1>1, <1>4 DEF TrackedInv
  <2>1. r = Route(r.dst, r.gw) /\ r.dst \in Subnets /\ r.gw \in GatewaysOf(r.dst)
    BY <1>1 DEF Routes, Route
  <2>2. \A c, h : Route(c, h).dst = c /\ Route(c, h).gw = h
    BY DEF Route
  <2>3. CASE d = r.dst
    <3>1. Contains(tracked, Route(d, g)) => g \in GatewaysOf(d)
      BY <1>3, <2>2, ElementOfSeq DEF Contains, Routes
    <3>2. Contains(tracked', Route(d, g)) => g = r.gw
      BY <3>1, <1>4, <2>1, <2>2, <2>3, StableGateway
    <3> QED
      BY <3>2, <1>1, <1>4, <2>1, <2>3
  <2>4. CASE d # r.dst
    <3>1. Contains(tracked, Route(d, g)) <=> peers[d] = g
      BY <1>2, <2>4 DEF IInv, TrackedInv
    <3> QED
      BY <3>1, <1>4, <2>2, <2>4
  <2> QED
    BY <2>3, <2>4
<1>8. KernelInv'
  BY <1>1, <1>2 DEF IInv, KernelInv, Adding
<1> QED
  BY <1>5, <1>6, <1>7, <1>8 DEF IInv

LEMMA RecvRemovedStep ==
  ASSUME IInv, RecvRemoved
  PROVE  IInv'
<1> DEFINE r == Head(inbox).route
<1>1. /\ inbox # <<>> /\ loop = "recv" /\ inbox' = <<>>
      /\ r \in Routes /\ peers[r.dst] = NoGateway
      /\ route' = r /\ loop' = "remove"
      /\ tracked' = RemoveFirst(tracked, r)
      /\ UNCHANGED <<peers, events, run, seen, kernel, check, missing, dump, cancelled, flushes, faults>>
  BY ReceivedRoute DEF RecvRemoved, checkVars, envVars
<1>2. \A d : ~Pending(d)' /\ (Pending(d) <=> d = r.dst)
  BY <1>1 DEF Pending
<1>3. tracked \in Seq(Routes) /\ NoDuplicates(tracked)
  BY DEF IInv, TypeOK, TrackedInv
<1> HIDE DEF r
<1>4. /\ tracked' \in Seq(Routes) /\ NoDuplicates(tracked')
      /\ \A x : Contains(tracked', x) <=> Contains(tracked, x) /\ x # r
  BY <1>1, <1>3, RemoveFirstContains
<1>5. TypeOK'
  BY <1>1, <1>4 DEF IInv, TypeOK
<1>6. EventInv' /\ StepInv'
  BY <1>1 DEF IInv, EventInv, StepInv
<1>7. TrackedInv'
  <2> SUFFICES ASSUME NEW d \in Subnets, Stable(d), NEW g \in Gateways
               PROVE  Contains(tracked', Route(d, g)) <=> peers[d] = g
    BY <1>1, <1>4 DEF TrackedInv
  <2>1. r = Route(r.dst, r.gw) /\ r.dst \in Subnets /\ r.gw \in GatewaysOf(r.dst)
    BY <1>1 DEF Routes, Route
  <2>2. \A c, h : Route(c, h).dst = c /\ Route(c, h).gw = h
    BY DEF Route
  <2>3. CASE d = r.dst
    <3>1. Contains(tracked, Route(d, g)) => g \in GatewaysOf(d)
      BY <1>3, <2>2, ElementOfSeq DEF Contains, Routes
    <3>2. Contains(tracked, Route(d, g)) => Route(d, g) = r
      BY <3>1, <2>1, <2>3, StableGateway
    <3> QED
      BY <3>2, <1>1, <1>4, <2>3, GatewayAssumption
  <2>4. CASE d # r.dst
    <3>1. Contains(tracked, Route(d, g)) <=> peers[d] = g
      BY <1>2, <2>4 DEF IInv, TrackedInv
    <3> QED
      BY <3>1, <1>4, <2>2, <2>4
  <2> QED
    BY <2>3, <2>4
<1>8. KernelInv'
  BY <1>1, <1>2, GatewayAssumption DEF IInv, KernelInv, Adding
<1> QED
  BY <1>5, <1>6, <1>7, <1>8 DEF IInv
-----------------------------------------------------------------------------
(* Requests to the kernel *)

\* The two dumps of route_add: of a stable peer it has no other route.
LEMMA ListSteps ==
  ASSUME IInv, ListForReplace \/ ListForAdd
  PROVE  IInv'
<1>1. /\ loop \in {"list", "relist"} /\ route \in Routes
      /\ UNCHANGED <<peers, events, inbox, run, route, tracked, kernel, check, missing, dump,
                     cancelled, flushes>>
      /\ faults \in Nat /\ faults' \in Nat /\ (faults' = 0 => faults = 0 /\ seen' = kernel[route.dst])
      /\ seen' \in {kernel[route.dst], NoGateway}
      /\ loop' = "recv" => seen' = route.gw
      /\ loop' \in {"recv", "relist", "add"} \/
           (loop' = "replace" /\ seen' \notin {NoGateway, route.gw})
  BY DEF IInv, TypeOK, ListForReplace, ListForAdd, chanVars, checkVars, Fault, NoFault
<1>2. route.dst \in Subnets /\ route.gw \in GatewaysOf(route.dst) /\ route.gw \in Gateways
  BY <1>1 DEF Routes
<1>3. kernel[route.dst] \in Gateways \cup {NoGateway} /\ kernel[route.dst] \in GatewaysOf(route.dst) \cup {NoGateway}
  BY <1>2 DEF IInv, TypeOK, Kernels
<1>4. TypeOK'
  BY <1>1, <1>3 DEF IInv, TypeOK
<1>5. StepInv'
  BY <1>1, <1>3 DEF StepInv
<1>6. KernelInv'
  <2> SUFFICES ASSUME flushes = 0, faults' = 0, NEW d \in Subnets, Stable(d),
                      peers[d] \in Gateways, ~Pending(d), ~Adding(d)'
               PROVE  kernel[d] = peers[d]
    BY <1>1 DEF KernelInv, Pending
  <2>1. CASE ~Adding(d)
    BY <2>1, <1>1 DEF IInv, KernelInv
  <2>2. CASE Adding(d)
    <3>1. d = route.dst /\ loop' \in {"recv", "replace"} /\ seen' = kernel[d]
      BY <2>2, <1>1 DEF Adding
    <3>2. seen' \notin {NoGateway, route.gw} => FALSE
      BY <3>1, <1>2, <1>3, StableGateway
    <3>3. kernel[d] = route.gw
      BY <3>1, <3>2, <1>1
    <3>4. peers[d] \in GatewaysOf(d)
      BY GatewayAssumption DEF IInv, EventInv
    <3> QED
      BY <3>1, <3>3, <3>4, <1>2, StableGateway
  <2> QED
    BY <2>1, <2>2
<1> QED
  BY <1>1, <1>4, <1>5, <1>6, EventKept, TrackedKept DEF IInv

LEMMA ReplaceStep ==
  ASSUME IInv, Replace
  PROVE  IInv'
<1>1. /\ loop = "replace" /\ route \in Routes
      /\ UNCHANGED <<peers, events, inbox, run, route, seen, check, missing, dump, cancelled, flushes>>
      /\ faults \in Nat /\ faults' \in Nat /\ (faults' = 0 => faults = 0)
      /\ loop' \in {"recv", "relist"}
      /\ \/ /\ kernel' = [kernel EXCEPT ![route.dst] = NoGateway]
            /\ tracked' = RemoveFirst(tracked, Route(route.dst, seen))
         \/ UNCHANGED <<kernel, tracked>>
  BY DEF IInv, TypeOK, Replace, chanVars, checkVars, Fault, NoFault
<1>2. route.dst \in Subnets /\ ~Stable(route.dst)
  <2>1. /\ route.dst \in Subnets /\ route.gw \in GatewaysOf(route.dst)
        /\ seen \in GatewaysOf(route.dst) /\ seen # route.gw
    BY <1>1 DEF Routes, IInv, StepInv
  <2> QED
    BY <2>1, StableGateway
<1>3. /\ tracked' \in Seq(Routes) /\ NoDuplicates(tracked')
      /\ \A x : x # Route(route.dst, seen) => (Contains(tracked', x) <=> Contains(tracked, x))
  <2>1. tracked \in Seq(Routes) /\ NoDuplicates(tracked)
    BY DEF IInv, TypeOK, TrackedInv
  <2>2. CASE UNCHANGED tracked
    BY <2>1, <2>2
  <2>3. CASE tracked' = RemoveFirst(tracked, Route(route.dst, seen))
    BY <2>1, <2>3, RemoveFirstContains
  <2> QED
    BY <1>1, <2>2, <2>3
<1>4. kernel' \in Kernels /\ \A d \in Subnets : d # route.dst => kernel'[d] = kernel[d]
  <2>1. kernel \in Kernels
    BY DEF IInv, TypeOK
  <2> QED
    BY <2>1, <1>1, <1>2, KernelDelLemma DEF Kernels
<1>5. TypeOK'
  BY <1>1, <1>3, <1>4 DEF IInv, TypeOK
<1>6. StepInv'
  BY <1>1 DEF StepInv
<1>7. TrackedInv'
  <2> SUFFICES ASSUME NEW d \in Subnets, Stable(d), ~Pending(d), NEW g \in Gateways
               PROVE  Contains(tracked', Route(d, g)) <=> peers[d] = g
    BY <1>1, <1>3 DEF TrackedInv, Pending
  <2>1. Route(d, g) # Route(route.dst, seen)
    BY <1>2 DEF Route
  <2> QED
    BY <2>1, <1>3 DEF IInv, TrackedInv
<1>8. KernelInv'
  <2> SUFFICES ASSUME flushes = 0, faults' = 0, NEW d \in Subnets, Stable(d),
                      peers[d] \in Gateways, ~Pending(d)
               PROVE  kernel'[d] = peers[d]
    BY <1>1 DEF KernelInv, Pending
  <2>1. ~Adding(d) /\ d # route.dst
    BY <1>1, <1>2 DEF Adding
  <2> QED
    BY <2>1, <1>1, <1>4 DEF IInv, KernelInv
<1> QED
  BY <1>1, <1>5, <1>6, <1>7, <1>8, EventKept DEF IInv

LEMMA AddStep ==
  ASSUME IInv, AddRoute
  PROVE  IInv'
<1>1. /\ loop = "add" /\ loop' = "recv" /\ route \in Routes
      /\ UNCHANGED <<peers, events, inbox, run, route, seen, tracked, check, missing, dump,
                     cancelled, flushes>>
      /\ faults \in Nat /\ faults' \in Nat /\ (faults' = 0 => faults = 0 /\ KernelAdd(route))
      /\ UNCHANGED kernel \/ KernelAdd(route)
  BY DEF IInv, TypeOK, AddRoute, chanVars, checkVars, Fault, NoFault
<1>2. kernel \in Kernels /\ kernel' \in Kernels
  BY <1>1, KernelAddLemma DEF IInv, TypeOK
<1>3. TypeOK'
  BY <1>1, <1>2 DEF IInv, TypeOK
<1>4. StepInv'
  BY <1>1 DEF StepInv
<1>5. KernelInv'
  <2> SUFFICES ASSUME flushes = 0, faults' = 0, NEW d \in Subnets, Stable(d),
                      peers[d] \in Gateways, ~Pending(d)
               PROVE  kernel'[d] = peers[d]
    BY <1>1 DEF KernelInv, Pending
  <2>1. /\ \A c \in Subnets : kernel[c] # NoGateway => kernel'[c] = kernel[c]
        /\ kernel[route.dst] = NoGateway => kernel'[route.dst] = route.gw
    BY <1>1, <1>2, KernelAddLemma
  <2>2. CASE d # route.dst
    BY <2>1, <2>2, <1>1, GatewayAssumption DEF IInv, KernelInv, Adding
  <2>3. CASE d = route.dst
    <3>1. peers[d] \in GatewaysOf(d)
      BY GatewayAssumption DEF IInv, EventInv
    <3>2. route.gw = peers[d]
      BY <3>1, <2>3, <1>1, StableGateway DEF Routes
    <3>3. kernel[d] # NoGateway => kernel[d] = peers[d]
      BY <3>1, <1>2, StableGateway DEF Kernels
    <3> QED
      BY <3>2, <3>3, <2>1, <2>3
  <2> QED
    BY <2>2, <2>3
<1> QED
  BY <1>1, <1>3, <1>4, <1>5, EventKept, TrackedKept DEF IInv

LEMMA DeleteStep ==
  ASSUME IInv, DeleteRoute
  PROVE  IInv'
<1>1. /\ loop = "remove" /\ loop' = "recv" /\ route \in Routes
      /\ UNCHANGED <<peers, events, inbox, run, route, seen, tracked, check, missing, dump,
                     cancelled, flushes>>
      /\ faults \in Nat /\ faults' \in Nat /\ (faults' = 0 => faults = 0)
      /\ UNCHANGED kernel \/ kernel' = [kernel EXCEPT ![route.dst] = NoGateway]
  BY DEF IInv, TypeOK, DeleteRoute, chanVars, checkVars, Fault, NoFault
<1>2. kernel' \in Kernels /\ \A d \in Subnets : d # route.dst => kernel'[d] = kernel[d]
  <2>1. kernel \in Kernels /\ route.dst \in Subnets
    BY <1>1 DEF IInv, TypeOK, Routes
  <2> QED
    BY <2>1, <1>1, KernelDelLemma DEF Kernels
<1>3. TypeOK'
  BY <1>1, <1>2 DEF IInv, TypeOK
<1>4. StepInv'
  BY <1>1 DEF StepInv
<1>5. KernelInv'
  <2> SUFFICES ASSUME flushes = 0, faults' = 0, NEW d \in Subnets, Stable(d),
                      peers[d] \in Gateways, ~Pending(d)
               PROVE  kernel'[d] = peers[d]
    BY <1>1 DEF KernelInv, Pending
  <2>1. d # route.dst /\ ~Adding(d)
    BY <1>1, GatewayAssumption DEF IInv, StepInv, Adding
  <2> QED
    BY <2>1, <1>1, <1>2 DEF IInv, KernelInv
<1> QED
  BY <1>1, <1>3, <1>4, <1>5, EventKept, TrackedKept DEF IInv

\* The check adds routes from its copy of the list, perhaps of a peer that
\* has left: never in the place of a route that is there.
LEMMA CheckSteps ==
  ASSUME IInv, CheckDump \/ CheckAdd
  PROVE  IInv'
<1>1. /\ UNCHANGED <<peers, events, inbox, run, loop, route, seen, tracked, cancelled, flushes>>
      /\ faults \in Nat /\ faults' \in Nat /\ (faults' = 0 => faults = 0)
      /\ missing' \in Seq(Routes) /\ dump' \in Kernels
      /\ check' \in {"off", "sleep", "dump", "add", "done"}
      /\ \/ UNCHANGED kernel
         \/ Head(missing) \in Routes /\ KernelAdd(Head(missing))
  <2>1. /\ faults \in Nat /\ missing \in Seq(Routes) /\ dump \in Kernels /\ kernel \in Kernels
        /\ missing # <<>> => Head(missing) \in Routes /\ Tail(missing) \in Seq(Routes)
    BY HeadTailProperties DEF IInv, TypeOK
  <2>2. CASE CheckDump
    <3>1. /\ UNCHANGED <<peers, events, inbox, run, loop, route, seen, tracked, cancelled, flushes, kernel>>
          /\ (missing' = missing /\ dump' = kernel /\ check' = "add" /\ faults' = faults)
               \/ (missing' = <<>> /\ dump' = dump /\ check' = "sleep" /\ faults' = faults + 1)
      BY <2>2 DEF CheckDump, chanVars, loopVars, Fault, NoFault
    <3>2. missing' \in Seq(Routes)
      BY <2>1, <3>1, EmptySeq
    <3>3. dump' \in Kernels
      BY <2>1, <3>1
    <3> QED
      BY <2>1, <3>1, <3>2, <3>3
  <2>3. CASE CheckAdd
    BY <2>1, <2>3 DEF CheckAdd, chanVars, loopVars, Fault, NoFault
  <2> QED
    BY <2>2, <2>3
<1>2. kernel' \in Kernels /\ \A d \in Subnets : kernel[d] # NoGateway => kernel'[d] = kernel[d]
  BY <1>1, KernelAddLemma DEF IInv, TypeOK
<1>3. TypeOK'
  BY <1>1, <1>2 DEF IInv, TypeOK
<1>4. StepInv'
  BY <1>1 DEF IInv, StepInv, Pending
<1>5. KernelInv'
  BY <1>1, <1>2, KernelKept, GatewayAssumption DEF IInv, TypeOK
<1> QED
  BY <1>1, <1>3, <1>4, <1>5, EventKept, TrackedKept DEF IInv

LEMMA FlushStep ==
  ASSUME IInv, NEW d \in Subnets, Flush(d)
  PROVE  IInv'
<1>1. /\ UNCHANGED <<peers, events, inbox, run, loop, route, seen, tracked, check, missing, dump,
                     cancelled, faults>>
      /\ flushes \in Nat /\ flushes' = flushes + 1
      /\ kernel' = [kernel EXCEPT ![d] = NoGateway]
  BY DEF IInv, TypeOK, Flush, chanVars, loopVars, checkVars
<1>2. kernel' \in Kernels
  BY <1>1, KernelDelLemma DEF IInv, TypeOK
<1>3. TypeOK'
  BY <1>1, <1>2 DEF IInv, TypeOK
<1>4. StepInv' /\ KernelInv'
  BY <1>1 DEF IInv, StepInv, Pending, KernelInv
<1> QED
  BY <1>1, <1>3, <1>4, EventKept, TrackedKept DEF IInv

LEMMA NextPreserves ==
  ASSUME IInv, [Next]_vars
  PROVE  IInv'
<1>1. ASSUME NEW d \in Subnets, PeerAdded(d) PROVE IInv'
  BY <1>1, AnnounceStep DEF PeerAdded
<1>2. ASSUME NEW d \in Subnets, PeerRemoved(d) PROVE IInv'
  <2>1. peers[d] \in GatewaysOf(d)
    BY <1>2 DEF IInv, EventInv, PeerRemoved
  <2> QED
    BY <1>2, <2>1, AnnounceStep DEF PeerRemoved
<1> QED
  BY <1>1, <1>2, RunSteps, SkipStep, RecvAddedStep, RecvRemovedStep, ListSteps, ReplaceStep,
     AddStep, DeleteStep, CheckSteps, FlushStep DEF Next, LoopStep, CheckStep

LEMMA Invariance == Spec => []IInv
<1>1. Init => IInv
  <2> SUFFICES ASSUME Init PROVE IInv
    OBVIOUS
  <2>1. \A S : <<>> \in Seq(S) /\ Len(<<>>) = 0
    BY EmptySeq
  <2>2. TypeOK
    <3>1. Empty \in Kernels /\ Empty \in [Subnets -> Gateways \cup {Foreign, NoGateway}]
      BY DEF Empty, Kernels
    <3>2. /\ tracked \in Seq(Routes) /\ missing \in Seq(Routes)
          /\ inbox \in Seq([type : {"Added", "Removed"},
                            route : [dst : Subnets, gw : Gateways \cup {Foreign}]])
      BY EmptySeq DEF Init
    <3>3. Len(inbox) <= 1
      BY <2>1 DEF Init
    <3> QED
      BY <3>1, <3>2, <3>3 DEF Init, TypeOK
  <2>3. EventInv /\ StepInv /\ KernelInv
    BY GatewayAssumption DEF Init, Empty, EventInv, StepInv, KernelInv
  <2>4. TrackedInv
    BY <2>1, GatewayAssumption DEF Init, Empty, TrackedInv, NoDuplicates, Contains
  <2> QED
    BY <2>2, <2>3, <2>4 DEF IInv
<1> QED
  BY <1>1, NextPreserves, PTL DEF Spec

\* TypeOK of RouteNetwork: every route that the loop or the check ever
\* programs leads to a gateway of its subnet's owner.
THEOREM TypeCorrect == Spec => []TypeOK
<1>1. IInv => TypeOK
  BY DEF IInv
<1> QED
  BY <1>1, Invariance, PTL

\* RoutesFollowPeers of RouteNetwork: whenever the loop has caught up, list
\* and kernel have exactly the routes of the peers with a stable gateway
\* that route_network.rs should have programmed, whatever the route check
\* did concurrently.
THEOREM TableFollows == Spec => []RoutesFollowPeers
<1>1. IInv => RoutesFollowPeers
  <2> SUFFICES ASSUME IInv PROVE PeersRouted /\ TrackedArePeers
    BY DEF RoutesFollowPeers
  <2>1. Idle => \A d : ~Pending(d) /\ ~Adding(d)
    BY DEF Idle, Pending, Adding
  <2>2. PeersRouted
    BY <2>1 DEF PeersRouted, IInv, KernelInv
  <2>3. TrackedArePeers
    <3> SUFFICES ASSUME Idle, NEW d \in Subnets, Stable(d)
                 PROVE  TrackedGateways(d) = {peers[d]} \cap Gateways
      BY DEF TrackedArePeers
    <3>1. TrackedGateways(d) = {g \in Gateways : Contains(tracked, Route(d, g))}
      BY TrackedGatewaysOf DEF IInv, TypeOK
    <3>2. \A g \in Gateways : Contains(tracked, Route(d, g)) <=> peers[d] = g
      BY <2>1 DEF IInv, TrackedInv
    <3> QED
      BY <3>1, <3>2
  <2> QED
    BY <2>2, <2>3
<1> QED
  BY <1>1, Invariance, PTL
=============================================================================
