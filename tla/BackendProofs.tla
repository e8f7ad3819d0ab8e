---------------------------- MODULE BackendProofs ---------------------------
(***************************************************************************)
(* Proofs about Backends, for every set of nodes, attributes and backends  *)
(* and any number of watch results, of events in a batch and of leases in  *)
(* a snapshot: what LeaseWatcher tells a backend, and that the handlers of *)
(* the ipsec, wireguard, vxlan and udp backends keep the kernel, charon    *)
(* and the proxy in step with it.                                          *)
(*                                                                         *)
(* update, reset and the commands in a socket are loops: recursive         *)
(* functions here. That these functions exist, and what they compute, is   *)
(* shown by induction, in the form that a nonempty set of numbers has a    *)
(* least element.                                                          *)
(***************************************************************************)
EXTENDS Backends, SequenceTheorems, WellFoundedInduction, TLAPS

-----------------------------------------------------------------------------
(* Induction *)

LEMMA Least ==
  ASSUME NEW T \in SUBSET Nat, T # {}
  PROVE  \E x \in T : \A y \in T : x <= y
<1> DEFINE R == {ss \in Nat \X Nat : ss[1] < ss[2]}
<1>1. IsWellFoundedOn(R, Nat)
  BY NatLessThanWellFounded DEF OpToRel
<1>2. \A x, y \in Nat : y < x => <<y, x>> \in R
  OBVIOUS
<1> HIDE DEF R
<1>3. PICK x \in T : \A y \in T : ~(<<y, x>> \in R)
  BY <1>1, WFMin, Zenon
<1>4. ASSUME NEW y \in T PROVE x <= y
  <2>1. x \in Nat /\ y \in Nat /\ ~(<<y, x>> \in R)
    BY <1>3
  <2>2. ~(y < x)
    BY <2>1, <1>2
  <2> QED
    BY <2>1, <2>2
<1> QED
  BY <1>4

LEMMA Induction ==
  ASSUME NEW S, 0 \in S, \A n \in Nat : n \in S => n + 1 \in S
  PROVE  Nat \subseteq S
<1> SUFFICES ASSUME Nat \ S # {} PROVE FALSE
  OBVIOUS
<1>1. PICK x \in Nat \ S : \A y \in Nat \ S : x <= y
  BY Least
<1>2. x # 0 /\ x - 1 \in Nat /\ x - 1 \notin Nat \ S
  BY <1>1
<1> QED
  BY <1>2

\* The loop of update: the function it defines, and that it is one.
UpdateRun(own, ls, events) ==
  CHOOSE run : run = [k \in 0..Len(events) |->
                        IF k = 0 THEN [leases |-> ls, batch |-> <<>>]
                        ELSE LWStep(own, run[k - 1], events[k])]

UpdateLoop(own, ls, events, run) ==
  /\ run[0] = [leases |-> ls, batch |-> <<>>]
  /\ \A k \in 1..Len(events) : run[k] = LWStep(own, run[k - 1], events[k])

LEMMA UpdateRuns ==
  ASSUME NEW own, NEW ls, NEW events, Len(events) \in Nat
  PROVE  \E run : /\ LWUpdate(own, ls, events) = run[Len(events)]
                  /\ UpdateLoop(own, ls, events, run)
<1> DEFINE b == [leases |-> ls, batch |-> <<>>]
           F(f, k) == IF k = 0 THEN b ELSE LWStep(own, f[k - 1], events[k])
           S == {n \in Nat : \E f : f = [k \in 0..n |-> F(f, k)]}
<1>1. 0 \in S
  <2>1. [k \in 0..0 |-> b] = [k \in 0..0 |-> F([j \in 0..0 |-> b], k)]
    OBVIOUS
  <2> QED
    BY <2>1
<1>2. ASSUME NEW n \in Nat, n \in S PROVE n + 1 \in S
  <2> HIDE DEF b
  <2>1. PICK f : f = [k \in 0..n |-> F(f, k)]
    BY <1>2
  <2> DEFINE g == [k \in 0..(n + 1) |-> IF k = n + 1 THEN LWStep(own, f[n], events[n + 1]) ELSE f[k]]
  <2>2. ASSUME NEW k \in 0..(n + 1) PROVE g[k] = F(g, k)
    <3>1. CASE k = n + 1
      BY <3>1
    <3>2. CASE k = 0
      <4>1. g[k] = f[0] /\ f[0] = b
        BY <2>1, <3>2
      <4> QED
        BY <3>2, <4>1
    <3>3. CASE k \in 1..n
      <4>1. g[k] = f[k] /\ g[k - 1] = f[k - 1]
        BY <3>3
      <4>2. f[k] = LWStep(own, f[k - 1], events[k])
        BY <2>1, <3>3
      <4> QED
        BY <3>3, <4>1, <4>2
    <3> QED
      BY <3>1, <3>2, <3>3
  <2>3. g = [k \in 0..(n + 1) |-> F(g, k)]
    BY <2>2
  <2>4. \E h : h = [k \in 0..(n + 1) |-> F(h, k)]
    <3> HIDE DEF g, F
    <3> WITNESS g
    <3> QED
      BY <2>3
  <2> QED
    BY <2>4
<1>3. Len(events) \in S
  <2> HIDE DEF S
  <2> QED
    BY <1>1, <1>2, Induction
<1> DEFINE run == UpdateRun(own, ls, events)
<1>4. run = [k \in 0..Len(events) |-> F(run, k)]
  BY <1>3 DEF UpdateRun
<1>5. LWUpdate(own, ls, events) = run[Len(events)]
  BY DEF LWUpdate, UpdateRun
<1>6. run[0] = b
  BY <1>4
<1>7. \A k \in 1..Len(events) : run[k] = LWStep(own, run[k - 1], events[k])
  BY <1>4
<1> HIDE DEF run
<1> WITNESS run
<1> QED
  BY <1>5, <1>6, <1>7 DEF UpdateLoop

\* The same of the loop of reset.
ResetRun(own, ls, snapshot) ==
  CHOOSE run : run = [k \in 0..Len(snapshot) |->
                        IF k = 0 THEN [left |-> ls, batch |-> <<>>]
                        ELSE LWScan(own, run[k - 1], snapshot[k])]

\* What reset makes of the loop's result.
Announced(snapshot, scan) ==
  [leases |-> snapshot,
   batch  |-> scan.batch \o [i \in 1..Len(scan.left) |-> Removed(scan.left[i])]]

ResetLoop(own, ls, snapshot, run) ==
  /\ run[0] = [left |-> ls, batch |-> <<>>]
  /\ \A k \in 1..Len(snapshot) : run[k] = LWScan(own, run[k - 1], snapshot[k])

LEMMA ResetRuns ==
  ASSUME NEW own, NEW ls, NEW snapshot, Len(snapshot) \in Nat
  PROVE  \E run : /\ LWReset(own, ls, snapshot) = Announced(snapshot, run[Len(snapshot)])
                  /\ ResetLoop(own, ls, snapshot, run)
<1> DEFINE b == [left |-> ls, batch |-> <<>>]
           F(f, k) == IF k = 0 THEN b ELSE LWScan(own, f[k - 1], snapshot[k])
           S == {n \in Nat : \E f : f = [k \in 0..n |-> F(f, k)]}
<1>1. 0 \in S
  <2>1. [k \in 0..0 |-> b] = [k \in 0..0 |-> F([j \in 0..0 |-> b], k)]
    OBVIOUS
  <2> QED
    BY <2>1
<1>2. ASSUME NEW n \in Nat, n \in S PROVE n + 1 \in S
  <2> HIDE DEF b
  <2>1. PICK f : f = [k \in 0..n |-> F(f, k)]
    BY <1>2
  <2> DEFINE g == [k \in 0..(n + 1) |-> IF k = n + 1 THEN LWScan(own, f[n], snapshot[n + 1]) ELSE f[k]]
  <2>2. ASSUME NEW k \in 0..(n + 1) PROVE g[k] = F(g, k)
    <3>1. CASE k = n + 1
      BY <3>1
    <3>2. CASE k = 0
      <4>1. g[k] = f[0] /\ f[0] = b
        BY <2>1, <3>2
      <4> QED
        BY <3>2, <4>1
    <3>3. CASE k \in 1..n
      <4>1. g[k] = f[k] /\ g[k - 1] = f[k - 1]
        BY <3>3
      <4>2. f[k] = LWScan(own, f[k - 1], snapshot[k])
        BY <2>1, <3>3
      <4> QED
        BY <3>3, <4>1, <4>2
    <3> QED
      BY <3>1, <3>2, <3>3
  <2>3. g = [k \in 0..(n + 1) |-> F(g, k)]
    BY <2>2
  <2>4. \E h : h = [k \in 0..(n + 1) |-> F(h, k)]
    <3> HIDE DEF g, F
    <3> WITNESS g
    <3> QED
      BY <2>3
  <2> QED
    BY <2>4
<1>3. Len(snapshot) \in S
  <2> HIDE DEF S
  <2> QED
    BY <1>1, <1>2, Induction
<1> DEFINE run == ResetRun(own, ls, snapshot)
<1>4. run = [k \in 0..Len(snapshot) |-> F(run, k)]
  BY <1>3 DEF ResetRun
<1>5. LWReset(own, ls, snapshot) = Announced(snapshot, run[Len(snapshot)])
  BY DEF LWReset, Announced, ResetRun
<1>6. run[0] = b
  BY <1>4
<1>7. \A k \in 1..Len(snapshot) : run[k] = LWScan(own, run[k - 1], snapshot[k])
  BY <1>4
<1> HIDE DEF run
<1> WITNESS run
<1> QED
  BY <1>5, <1>6, <1>7 DEF ResetLoop

-----------------------------------------------------------------------------
(* Leases of one mode *)

Modes == {"v4", "v6", "dual", "none"}
LeasesOf(m) == UNION {{LeaseOf(m, s, a) : a \in AttrsOf(s)} : s \in Subnets}
EventsOf(m) == {Added(l) : l \in LeasesOf(m)} \cup {Removed(l) : l \in LeasesOf(m)}
OwnOf(m) == LeaseOf(m, OwnSubnet, CHOOSE a \in AttrsOf(OwnSubnet) : TRUE)

\* same_subnet compares the subnets, whatever the mode.
LEMMA KeyLemma ==
  ASSUME NEW m \in Modes, NEW s, NEW a, NEW t, NEW b
  PROVE  /\ Key(LeaseOf(m, s, a)) = s
         /\ LeaseOf(m, s, a).attrs = a
         /\ Matches(LeaseOf(m, s, a), LeaseOf(m, t, b)) <=> s = t
         /\ IsOwn(LeaseOf(m, s, a), LeaseOf(m, t, b)) <=> s = t
BY DEF Modes, Key, LeaseOf, Unset, Matches, IsOwn, SameSubnet

LEMMA LeaseLemma ==
  ASSUME NEW m \in Modes, NEW l \in LeasesOf(m)
  PROVE  /\ Key(l) \in Subnets
         /\ l.attrs # None
         /\ IsOwn(OwnOf(m), l) <=> Key(l) = OwnSubnet
         /\ \A h \in LeasesOf(m) : Matches(h, l) <=> Key(h) = Key(l)
<1>1. PICK s \in Subnets : \E a \in AttrsOf(s) : l = LeaseOf(m, s, a)
  BY DEF LeasesOf
<1>0. PICK a \in AttrsOf(s) : l = LeaseOf(m, s, a)
  BY <1>1
<1>2. Key(l) = s /\ l.attrs = a /\ a # None
  BY <1>0, KeyLemma, NoneAssumption
<1>3. IsOwn(OwnOf(m), l) <=> Key(l) = OwnSubnet
  BY <1>0, <1>2, KeyLemma DEF OwnOf
<1>4. ASSUME NEW h \in LeasesOf(m) PROVE Matches(h, l) <=> Key(h) = Key(l)
  <2>1. PICK t \in Subnets : \E b \in AttrsOf(t) : h = LeaseOf(m, t, b)
    BY DEF LeasesOf
  <2> QED
    BY <1>0, <1>2, <2>1, KeyLemma
<1> QED
  BY <1>2, <1>3, <1>4

LEMMA EventLemma ==
  ASSUME NEW m, NEW e \in EventsOf(m)
  PROVE  /\ e.lease \in LeasesOf(m)
         /\ e = IF e.type = "Added" THEN Added(e.lease) ELSE Removed(e.lease)
BY DEF EventsOf, Added, Removed

-----------------------------------------------------------------------------
(* The stored list *)

Elements(ls) == {ls[i] : i \in 1..Len(ls)}
Once(ls) == \A i, j \in 1..Len(ls) : Key(ls[i]) = Key(ls[j]) => i = j
Without(ls, k) == {h \in Elements(ls) : Key(h) # k}

LEMMA FindLemma ==
  ASSUME NEW m \in Modes, NEW ls \in Seq(LeasesOf(m)), NEW l \in LeasesOf(m)
  PROVE  \/ Find(ls, l) = 0 /\ \A i \in 1..Len(ls) : Key(ls[i]) # Key(l)
         \/ Find(ls, l) \in 1..Len(ls) /\ Key(ls[Find(ls, l)]) = Key(l)
<1> DEFINE I == {i \in 1..Len(ls) : Matches(ls[i], l)}
<1>1. Find(ls, l) = IF I # {} THEN Min(I) ELSE 0
  BY DEF Find, SelectInSeq
<1>2. \A i \in 1..Len(ls) : Matches(ls[i], l) <=> Key(ls[i]) = Key(l)
  BY ElementOfSeq, LeaseLemma
<1>3. Len(ls) \in Nat
  BY LenProperties
<1>4. CASE I = {}
  BY <1>1, <1>2, <1>4
<1>5. CASE I # {}
  <2>1. \E x \in I : \A y \in I : x <= y
    <3>1. I \in SUBSET Nat
      BY <1>3
    <3> HIDE DEF I
    <3> QED
      BY <1>5, <3>1, Least
  <2>2. Min(I) \in I
    <3> HIDE DEF I
    <3> QED
      BY <2>1 DEF Min
  <2> QED
    BY <1>1, <1>2, <1>5, <2>2
<1> QED
  BY <1>4, <1>5

\* LeaseWatcher::remove takes out the one lease with the subnet.
LEMMA RemoveAtLemma ==
  ASSUME NEW S, NEW ls \in Seq(S), Once(ls), NEW i \in 1..Len(ls)
  PROVE  /\ RemoveAt(ls, i) \in Seq(S)
         /\ Once(RemoveAt(ls, i))
         /\ Elements(RemoveAt(ls, i)) = Without(ls, Key(ls[i]))
<1> DEFINE n == Len(ls)
           a == SubSeq(ls, 1, i - 1)
           b == SubSeq(ls, i + 1, n)
           r == a \o b
<1>1. n \in Nat /\ i \in 1..n /\ i \in Nat /\ \A j \in 1..n : ls[j] \in S
  BY LenProperties, ElementOfSeq
<1>2. /\ a \in Seq(S) /\ Len(a) = i - 1
      /\ \A j \in 1..(i - 1) : a[j] = ls[j]
  <2>1. \A j \in 1..(i - 1) : ls[j] \in S
    BY <1>1
  <2> QED
    BY <1>1, <2>1, SubSeqProperties
<1>3. /\ b \in Seq(S) /\ Len(b) = n - i
      /\ \A j \in 1..(n - i) : b[j] = ls[i + j]
  <2>1. \A j \in (i + 1)..n : ls[j] \in S
    BY <1>1
  <2> QED
    BY <1>1, <2>1, SubSeqProperties
<1> HIDE DEF n, a, b
<1>4. /\ r \in Seq(S) /\ Len(r) = Len(a) + Len(b)
      /\ \A j \in 1..Len(a) + Len(b) : r[j] = IF j <= Len(a) THEN a[j] ELSE b[j - Len(a)]
  BY <1>2, <1>3, ConcatProperties
<1> HIDE DEF r
<1>5. /\ Len(r) = n - 1
      /\ \A j \in 1..(n - 1) : r[j] = IF j < i THEN ls[j] ELSE ls[j + 1]
  BY <1>1, <1>2, <1>3, <1>4
<1>6. RemoveAt(ls, i) = r
  BY DEF RemoveAt, r, a, b, n
<1>7. Once(r)
  BY <1>1, <1>5 DEF Once, n
<1>8. Elements(r) = Without(ls, Key(ls[i]))
  <2>1. ASSUME NEW h \in Elements(r) PROVE h \in Without(ls, Key(ls[i]))
    <3>1. PICK j \in 1..(n - 1) : h = r[j]
      BY <1>5 DEF Elements
    <3>2. PICK k \in 1..n : h = ls[k] /\ k # i
      BY <1>1, <1>5, <3>1
    <3> QED
      BY <1>1, <3>2 DEF Without, Elements, Once, n
  <2>2. ASSUME NEW h \in Without(ls, Key(ls[i])) PROVE h \in Elements(r)
    <3>1. PICK k \in 1..n : h = ls[k] /\ k # i
      BY DEF Without, Elements, n
    <3>2. PICK j \in 1..(n - 1) : h = r[j]
      <4>1. CASE k < i
        BY <1>1, <1>5, <3>1, <4>1
      <4>2. CASE k > i
        <5>1. k - 1 \in 1..(n - 1) /\ r[k - 1] = ls[k]
          BY <1>1, <1>5, <4>2
        <5> QED
          BY <3>1, <5>1
      <4> QED
        BY <1>1, <3>1, <4>1, <4>2
    <3> QED
      BY <1>5, <3>2 DEF Elements
  <2> QED
    BY <2>1, <2>2
<1> QED
  BY <1>4, <1>6, <1>7, <1>8

\* LeaseWatcher::add appends a lease, or puts it where its subnet was.
LEMMA AppendLemma ==
  ASSUME NEW S, NEW ls \in Seq(S), Once(ls), NEW l \in S,
         \A i \in 1..Len(ls) : Key(ls[i]) # Key(l)
  PROVE  /\ Append(ls, l) \in Seq(S)
         /\ Once(Append(ls, l))
         /\ Elements(Append(ls, l)) = Without(ls, Key(l)) \cup {l}
<1> DEFINE n == Len(ls)
           r == Append(ls, l)
<1>1. /\ n \in Nat /\ r \in Seq(S) /\ Len(r) = n + 1
      /\ \A i \in 1..n : r[i] = ls[i]
      /\ r[n + 1] = l
  BY LenProperties, AppendProperties
<1> HIDE DEF r
<1>2. Once(r)
  BY <1>1 DEF Once
<1>3. 1..(n + 1) = 1..n \cup {n + 1}
  BY <1>1
<1>4. Elements(r) = Without(ls, Key(l)) \cup {l}
  BY <1>1, <1>3 DEF Elements, Without
<1> QED
  BY <1>1, <1>2, <1>4 DEF r

LEMMA ReplaceAtLemma ==
  ASSUME NEW S, NEW ls \in Seq(S), Once(ls), NEW l \in S,
         NEW i \in 1..Len(ls), Key(ls[i]) = Key(l)
  PROVE  /\ ReplaceAt(ls, i, l) \in Seq(S)
         /\ Once(ReplaceAt(ls, i, l))
         /\ Elements(ReplaceAt(ls, i, l)) = Without(ls, Key(l)) \cup {l}
<1> DEFINE n == Len(ls)
           r == [ls EXCEPT ![i] = l]
<1>1. /\ r \in Seq(S) /\ Len(r) = n
      /\ \A j \in 1..n : r[j] = IF j = i THEN l ELSE ls[j]
  BY ExceptSeq
<1> HIDE DEF r
<1>2. Once(r)
  BY <1>1 DEF Once
<1>3. Elements(r) = Without(ls, Key(l)) \cup {l}
  BY <1>1 DEF Elements, Without, Once
<1> QED
  BY <1>1, <1>2, <1>3 DEF r, ReplaceAt

-----------------------------------------------------------------------------
(* What the backend is told *)

\* What an event says of its subnet.
Value(e) == IF e.type = "Added" THEN e.lease.attrs ELSE None

\* v is the right belief about subnet s when the leases ls are stored: there
\* is one, and if exact it is the stored one.
Believes(ls, s, v, exact) ==
  IF s # OwnSubnet /\ \E l \in ls : Key(l) = s
  THEN v # None /\ (exact => \A l \in ls : Key(l) = s => v = l.attrs)
  ELSE v = None

\* The last event about a subnet in the batch q leads to the right belief
\* about it; without one, what was told before (t) is right.
Agree(ls, q, t, exact) ==
  \A s \in Subnets :
    /\ (\A i \in 1..Len(q) : Key(q[i].lease) # s) => Believes(ls, s, t[s], exact)
    /\ \A i \in 1..Len(q) :
         Key(q[i].lease) = s /\ (\A j \in (i + 1)..Len(q) : Key(q[j].lease) # s) =>
           Believes(ls, s, Value(q[i]), exact)

\* The stored list ls and the batch q, in mode m, after t was told; exact as
\* long as no snapshot has come: then the own lease has no part in them.
Tells(m, ls, q, t, exact) ==
  /\ ls \in Seq(LeasesOf(m)) /\ Once(ls)
  /\ q \in Seq(EventsOf(m))
  /\ Agree(Elements(ls), q, t, exact)
  /\ \A i \in 1..Len(q) : q[i].type = "Added" => Key(q[i].lease) # OwnSubnet
  /\ exact => /\ \A l \in Elements(ls) : Key(l) # OwnSubnet
              /\ \A i \in 1..Len(q) : Key(q[i].lease) # OwnSubnet

\* An event about subnet k that is right, when nothing else has changed.
LEMMA PushAgree ==
  ASSUME NEW ls, NEW ls2, NEW E, NEW q \in Seq(E), NEW t, NEW exact \in BOOLEAN, NEW e \in E,
         Agree(ls, q, t, exact),
         \A l : Key(l) # Key(e.lease) => (l \in ls <=> l \in ls2),
         Believes(ls2, Key(e.lease), Value(e), exact)
  PROVE  Agree(ls2, Append(q, e), t, exact)
<1> DEFINE n == Len(q)
           r == Append(q, e)
           k == Key(e.lease)
<1>1. /\ n \in Nat /\ r \in Seq(E) /\ Len(r) = n + 1
      /\ \A i \in 1..n : r[i] = q[i]
      /\ r[n + 1] = e
  BY LenProperties, AppendProperties
<1> HIDE DEF r
<1>2. n + 1 \in 1..(n + 1) /\ \A i \in 1..(n + 1) : i \in 1..n \/ i = n + 1
  BY <1>1
<1>3. ASSUME NEW s \in Subnets, s # k, NEW v
      PROVE  Believes(ls, s, v, exact) => Believes(ls2, s, v, exact)
  BY <1>3 DEF Believes
<1> SUFFICES ASSUME NEW s \in Subnets
             PROVE  /\ (\A i \in 1..Len(r) : Key(r[i].lease) # s) => Believes(ls2, s, t[s], exact)
                    /\ \A i \in 1..Len(r) :
                         Key(r[i].lease) = s /\ (\A j \in (i + 1)..Len(r) : Key(r[j].lease) # s) =>
                           Believes(ls2, s, Value(r[i]), exact)
  BY DEF Agree, r
<1>4. CASE s = k
  <2>1. Key(r[n + 1].lease) = s
    BY <1>1, <1>4
  <2>2. ASSUME NEW i \in 1..Len(r), \A j \in (i + 1)..Len(r) : Key(r[j].lease) # s
        PROVE  i = n + 1
    <3>1. CASE i \in 1..n
      <4>1. n + 1 \in (i + 1)..Len(r)
        BY <1>1, <3>1
      <4> QED
        BY <2>1, <2>2, <4>1
    <3> QED
      BY <1>1, <1>2, <3>1
  <2> QED
    BY <1>1, <1>2, <1>4, <2>1, <2>2
<1>5. CASE s # k
  <2>1. ASSUME \A i \in 1..Len(r) : Key(r[i].lease) # s PROVE Believes(ls2, s, t[s], exact)
    <3>1. \A i \in 1..n : Key(q[i].lease) # s
      BY <1>1, <2>1
    <3>2. Believes(ls, s, t[s], exact)
      BY <3>1 DEF Agree
    <3> QED
      BY <1>3, <1>5, <3>2
  <2>2. ASSUME NEW i \in 1..Len(r), Key(r[i].lease) = s,
               \A j \in (i + 1)..Len(r) : Key(r[j].lease) # s
        PROVE  Believes(ls2, s, Value(r[i]), exact)
    <3>1. i \in 1..n
      BY <1>1, <1>2, <1>5, <2>2
    <3>2. \A j \in (i + 1)..n : j \in 1..n /\ j \in (i + 1)..Len(r)
      BY <1>1, <3>1
    <3>3. r[i] = q[i] /\ Key(q[i].lease) = s /\ \A j \in (i + 1)..n : Key(q[j].lease) # s
      BY <1>1, <2>2, <3>1, <3>2
    <3>4. Believes(ls, s, Value(q[i]), exact)
      BY <3>1, <3>3 DEF Agree
    <3> QED
      BY <1>3, <1>5, <3>3, <3>4
  <2> QED
    BY <2>1, <2>2
<1> QED
  BY <1>4, <1>5

\* One event of update.
LEMMA StepTells ==
  ASSUME NEW m \in Modes, NEW acc, acc = [leases |-> acc.leases, batch |-> acc.batch],
         NEW t, NEW exact \in BOOLEAN, NEW e \in EventsOf(m),
         Tells(m, acc.leases, acc.batch, t, exact)
  PROVE  LET r == LWStep(OwnOf(m), acc, e)
         IN  /\ r = [leases |-> r.leases, batch |-> r.batch]
             /\ Tells(m, r.leases, r.batch, t, exact)
<1> DEFINE ls == acc.leases
           q == acc.batch
           l == e.lease
           i == Find(ls, l)
<1>1. l \in LeasesOf(m) /\ e = IF e.type = "Added" THEN Added(l) ELSE Removed(l)
  BY EventLemma
<1>2. /\ Key(l) \in Subnets /\ l.attrs # None
      /\ IsOwn(OwnOf(m), l) <=> Key(l) = OwnSubnet
  BY <1>1, LeaseLemma
<1>3. /\ ls \in Seq(LeasesOf(m)) /\ Once(ls) /\ q \in Seq(EventsOf(m))
      /\ Agree(Elements(ls), q, t, exact)
  BY DEF Tells
<1>4. \/ i = 0 /\ \A j \in 1..Len(ls) : Key(ls[j]) # Key(l)
      \/ i \in 1..Len(ls) /\ Key(ls[i]) = Key(l)
  BY <1>1, <1>3, FindLemma
<1>5. i \in 1..Len(ls) => ls[i] \in LeasesOf(m) /\ i # 0
  BY <1>3, ElementOfSeq, LenProperties
<1>6. CASE IsOwn(OwnOf(m), l)
  BY <1>6 DEF LWStep
<1>7. CASE ~IsOwn(OwnOf(m), l)
  \* The new list and the event, whichever of the four cases it is.
  <2>1. PICK ls2, f :
          /\ LWStep(OwnOf(m), acc, e) = [leases |-> ls2, batch |-> Append(q, f)]
          /\ ls2 \in Seq(LeasesOf(m)) /\ Once(ls2)
          /\ f \in EventsOf(m) /\ Key(f.lease) = Key(l)
          /\ \/ f = Added(l) /\ Elements(ls2) = Without(ls, Key(l)) \cup {l}
             \/ f.type = "Removed" /\ Elements(ls2) = Without(ls, Key(l))
    <3>1. CASE e.type = "Added"
      <4>1. Added(l) \in EventsOf(m) /\ Added(l).lease = l
        BY <1>1 DEF EventsOf, Added
      <4>2. CASE i = 0
        <5>1. LWStep(OwnOf(m), acc, e) = [leases |-> Append(ls, l), batch |-> Append(q, Added(l))]
          BY <1>7, <3>1, <4>2 DEF LWStep, LWAdd
        <5>2. /\ Append(ls, l) \in Seq(LeasesOf(m)) /\ Once(Append(ls, l))
              /\ Elements(Append(ls, l)) = Without(ls, Key(l)) \cup {l}
          BY <1>1, <1>3, <1>4, <1>5, <4>2, AppendLemma
        <5> QED
          BY <4>1, <5>1, <5>2
      <4>3. CASE i # 0
        <5>1. LWStep(OwnOf(m), acc, e) = [leases |-> ReplaceAt(ls, i, l), batch |-> Append(q, Added(l))]
          BY <1>7, <3>1, <4>3 DEF LWStep, LWAdd
        <5>2. /\ ReplaceAt(ls, i, l) \in Seq(LeasesOf(m)) /\ Once(ReplaceAt(ls, i, l))
              /\ Elements(ReplaceAt(ls, i, l)) = Without(ls, Key(l)) \cup {l}
          BY <1>1, <1>3, <1>4, <4>3, ReplaceAtLemma
        <5> QED
          BY <4>1, <5>1, <5>2
      <4> QED
        BY <4>2, <4>3
    <3>2. CASE e.type # "Added"
      <4>2. CASE i = 0
        <5>1. LWStep(OwnOf(m), acc, e) = [leases |-> ls, batch |-> Append(q, Removed(l))]
          BY <1>7, <3>2, <4>2 DEF LWStep, LWRemove
        <5>2. Removed(l) \in EventsOf(m) /\ Removed(l).lease = l /\ Removed(l).type = "Removed"
          BY <1>1 DEF EventsOf, Removed
        <5>3. Elements(ls) = Without(ls, Key(l))
          BY <1>4, <1>5, <4>2 DEF Elements, Without
        <5> QED
          BY <1>3, <5>1, <5>2, <5>3
      <4>3. CASE i # 0
        <5>1. LWStep(OwnOf(m), acc, e) = [leases |-> RemoveAt(ls, i), batch |-> Append(q, Removed(ls[i]))]
          BY <1>7, <3>2, <4>3 DEF LWStep, LWRemove
        <5>2. /\ Removed(ls[i]) \in EventsOf(m) /\ Removed(ls[i]).lease = ls[i]
              /\ Removed(ls[i]).type = "Removed"
          BY <1>4, <1>5, <4>3 DEF EventsOf, Removed
        <5>3. /\ RemoveAt(ls, i) \in Seq(LeasesOf(m)) /\ Once(RemoveAt(ls, i))
              /\ Elements(RemoveAt(ls, i)) = Without(ls, Key(l))
          BY <1>3, <1>4, <4>3, RemoveAtLemma
        <5> QED
          BY <1>4, <4>3, <5>1, <5>2, <5>3
      <4> QED
        BY <4>2, <4>3
    <3> QED
      BY <3>1, <3>2
  <2> HIDE DEF ls, q, l, i
  <2>2. Key(l) # OwnSubnet
    BY <1>2, <1>7
  <2>3. \A h : Key(h) # Key(f.lease) => (h \in Elements(ls) <=> h \in Elements(ls2))
    BY <2>1 DEF Without
  <2>4. Believes(Elements(ls2), Key(f.lease), Value(f), exact)
    <3>1. CASE f = Added(l) /\ Elements(ls2) = Without(ls, Key(l)) \cup {l}
      <4>1. Value(f) = l.attrs
        BY <3>1 DEF Value, Added
      <4> QED
        BY <1>2, <2>1, <2>2, <3>1, <4>1 DEF Believes, Without
    <3>2. CASE f.type = "Removed" /\ Elements(ls2) = Without(ls, Key(l))
      <4>1. Value(f) = None
        BY <3>2 DEF Value
      <4> QED
        BY <2>1, <3>2, <4>1 DEF Believes, Without
    <3> QED
      BY <2>1, <3>1, <3>2
  <2>5. Agree(Elements(ls2), Append(q, f), t, exact)
    BY <1>3, <2>1, <2>3, <2>4, PushAgree
  <2>6. /\ Append(q, f) \in Seq(EventsOf(m))
        /\ \A j \in 1..Len(Append(q, f)) :
             Append(q, f)[j] = f \/ (j \in 1..Len(q) /\ Append(q, f)[j] = q[j])
    <3>1. /\ Append(q, f) \in Seq(EventsOf(m)) /\ Len(q) \in Nat
          /\ Len(Append(q, f)) = Len(q) + 1 /\ Append(q, f)[Len(q) + 1] = f
          /\ \A j \in 1..Len(q) : Append(q, f)[j] = q[j]
      BY <1>3, <2>1, AppendProperties, LenProperties
    <3> QED
      BY <3>1
  <2>7. exact => /\ \A h \in Elements(ls2) : Key(h) # OwnSubnet
                 /\ \A j \in 1..Len(Append(q, f)) : Key(Append(q, f)[j].lease) # OwnSubnet
    <3> SUFFICES ASSUME exact
                 PROVE  /\ \A h \in Elements(ls2) : Key(h) # OwnSubnet
                        /\ \A j \in 1..Len(Append(q, f)) : Key(Append(q, f)[j].lease) # OwnSubnet
      OBVIOUS
    <3>1. /\ \A h \in Elements(ls) : Key(h) # OwnSubnet
          /\ \A j \in 1..Len(q) : Key(q[j].lease) # OwnSubnet
      BY DEF Tells, ls, q
    <3>2. \A h \in Elements(ls2) : Key(h) # OwnSubnet
      BY <2>1, <2>2, <3>1 DEF Without
    <3> QED
      BY <2>1, <2>2, <2>6, <3>1, <3>2
  <2>8. \A j \in 1..Len(Append(q, f)) :
          Append(q, f)[j].type = "Added" => Key(Append(q, f)[j].lease) # OwnSubnet
    <3>1. \A j \in 1..Len(q) : q[j].type = "Added" => Key(q[j].lease) # OwnSubnet
      BY DEF Tells, q
    <3> QED
      BY <2>1, <2>2, <2>6, <3>1
  <2>9. Tells(m, ls2, Append(q, f), t, exact)
    BY <2>1, <2>5, <2>6, <2>7, <2>8 DEF Tells
  <2> QED
    BY <2>1, <2>9
<1> QED
  BY <1>6, <1>7

\* LeaseWatcher::update keeps list and backend together, for any events.
LEMMA UpdateTells ==
  ASSUME NEW m \in Modes, NEW ls, NEW t, NEW exact \in BOOLEAN, NEW events \in Seq(EventsOf(m)),
         Tells(m, ls, <<>>, t, exact)
  PROVE  LET r == LWUpdate(OwnOf(m), ls, events) IN Tells(m, r.leases, r.batch, t, exact)
<1> DEFINE n == Len(events)
<1>1. n \in Nat
  BY LenProperties
<1>0. PICK run : LWUpdate(OwnOf(m), ls, events) = run[n] /\ UpdateLoop(OwnOf(m), ls, events, run)
  BY <1>1, UpdateRuns, Zenon
<1>2. /\ LWUpdate(OwnOf(m), ls, events) = run[n]
      /\ run[0] = [leases |-> ls, batch |-> <<>>]
      /\ \A k \in 1..n : run[k] = LWStep(OwnOf(m), run[k - 1], events[k])
  BY <1>0 DEF UpdateLoop
<1> DEFINE Good(r) == /\ r = [leases |-> r.leases, batch |-> r.batch]
                      /\ Tells(m, r.leases, r.batch, t, exact)
           S == {k \in Nat : k <= n => Good(run[k])}
<1>3. 0 \in S
  BY <1>2
<1>4. ASSUME NEW k \in Nat, k \in S PROVE k + 1 \in S
  <2> SUFFICES ASSUME k + 1 <= n PROVE Good(run[k + 1])
    OBVIOUS
  <2>1. k + 1 \in 1..n /\ (k + 1) - 1 = k /\ k <= n
    BY <1>1
  <2>2. Good(run[k]) /\ events[k + 1] \in EventsOf(m)
    BY <1>4, <2>1, ElementOfSeq
  <2>3. run[k + 1] = LWStep(OwnOf(m), run[k], events[k + 1])
    BY <1>2, <2>1
  <2>4. Good(LWStep(OwnOf(m), run[k], events[k + 1]))
    BY <2>2, StepTells, Zenon
  <2> HIDE DEF Good
  <2> QED
    BY <2>3, <2>4
<1>5. n \in S
  <2> HIDE DEF S
  <2> QED
    BY <1>1, <1>3, <1>4, Induction
<1> QED
  BY <1>2, <1>5, <1>1

-----------------------------------------------------------------------------
(* Snapshots *)

\* After the first k leases of a snapshot: left is what they did not match of
\* the list ls, the batch announces those that matched nothing.
ScannedTo(m, ls, snapshot, k, left, batch) ==
  /\ left \in Seq(LeasesOf(m)) /\ Once(left)
  /\ \A h : h \in Elements(left) <=>
              /\ h \in Elements(ls)
              /\ Key(h) = OwnSubnet \/ \A i \in 1..k : Key(snapshot[i]) # Key(h)
  /\ batch \in Seq(EventsOf(m))
  /\ \A i \in 1..Len(batch) : batch[i].type = "Added"
  /\ \A s : (\E i \in 1..Len(batch) : Key(batch[i].lease) = s) <=>
              /\ s # OwnSubnet
              /\ \E i \in 1..k : Key(snapshot[i]) = s
              /\ \A h \in Elements(ls) : Key(h) # s

Scanned(m, ls, snapshot, k, scan) ==
  /\ scan = [left |-> scan.left, batch |-> scan.batch]
  /\ ScannedTo(m, ls, snapshot, k, scan.left, scan.batch)

LEMMA ScanStep ==
  ASSUME NEW m \in Modes, NEW ls, NEW snapshot \in Seq(LeasesOf(m)), Once(snapshot),
         NEW k \in Nat, k + 1 \in 1..Len(snapshot), NEW scan,
         Scanned(m, ls, snapshot, k, scan)
  PROVE  Scanned(m, ls, snapshot, k + 1, LWScan(OwnOf(m), scan, snapshot[k + 1]))
<1> DEFINE l == snapshot[k + 1]
           a == scan.left
           q == scan.batch
           f == Find(a, l)
<1>1. l \in LeasesOf(m) /\ \A i \in 1..k : i \in 1..Len(snapshot) /\ i # k + 1
  BY ElementOfSeq, LenProperties
<1>2. IsOwn(OwnOf(m), l) <=> Key(l) = OwnSubnet
  BY <1>1, LeaseLemma
<1>3. \A i \in 1..k : Key(snapshot[i]) # Key(l)
  BY <1>1 DEF Once
<1>4. k + 1 \in 1..(k + 1) /\ \A i \in 1..(k + 1) : i \in 1..k \/ i = k + 1
  OBVIOUS
<1>5. 1..k \subseteq 1..(k + 1)
  OBVIOUS
<1>6. /\ scan = [left |-> a, batch |-> q]
      /\ a \in Seq(LeasesOf(m)) /\ Once(a) /\ q \in Seq(EventsOf(m))
      /\ \A i \in 1..Len(q) : q[i].type = "Added"
      /\ \A h : h \in Elements(a) <=>
              /\ h \in Elements(ls)
              /\ Key(h) = OwnSubnet \/ \A i \in 1..k : Key(snapshot[i]) # Key(h)
      /\ \A s : (\E i \in 1..Len(q) : Key(q[i].lease) = s) <=>
              /\ s # OwnSubnet
              /\ \E i \in 1..k : Key(snapshot[i]) = s
              /\ \A h \in Elements(ls) : Key(h) # s
  BY DEF Scanned, ScannedTo
<1>7. \/ f = 0 /\ \A j \in 1..Len(a) : Key(a[j]) # Key(l)
      \/ f \in 1..Len(a) /\ Key(a[f]) = Key(l)
  BY <1>1, <1>6, FindLemma
<1>8. f \in 1..Len(a) => f # 0 /\ a[f] \in Elements(a)
  BY <1>6, LenProperties DEF Elements
<1> HIDE DEF l, f, a, q
<1>9. CASE IsOwn(OwnOf(m), l)
  <2>1. LWScan(OwnOf(m), scan, l) = scan
    BY <1>9 DEF LWScan
  <2>2. \A s : s # OwnSubnet =>
          ((\E i \in 1..k : Key(snapshot[i]) = s) <=> (\E i \in 1..(k + 1) : Key(snapshot[i]) = s))
    BY <1>2, <1>4, <1>5, <1>9 DEF l
  <2>3. \A h : (Key(h) = OwnSubnet \/ \A i \in 1..k : Key(snapshot[i]) # Key(h)) <=>
               (Key(h) = OwnSubnet \/ \A i \in 1..(k + 1) : Key(snapshot[i]) # Key(h))
    BY <2>2
  <2>4. ScannedTo(m, ls, snapshot, k + 1, a, q)
    BY <1>6, <2>2, <2>3 DEF ScannedTo
  <2> QED
    BY <1>6, <2>1, <2>4 DEF Scanned, l, a, q
<1>10. CASE ~IsOwn(OwnOf(m), l) /\ f # 0
  <2> DEFINE b == RemoveAt(a, f)
  <2>1. LWScan(OwnOf(m), scan, l) = [left |-> b, batch |-> q]
    BY <1>6, <1>10 DEF LWScan, a, f
  <2>2. b \in Seq(LeasesOf(m)) /\ Once(b) /\ Elements(b) = Without(a, Key(l))
    BY <1>6, <1>7, <1>10, RemoveAtLemma
  <2>3. PICK g \in Elements(ls) : Key(g) = Key(l)
    BY <1>6, <1>7, <1>8, <1>10
  <2> HIDE DEF b
  <2>4. \A h : h \in Elements(b) <=>
              /\ h \in Elements(ls)
              /\ Key(h) = OwnSubnet \/ \A i \in 1..(k + 1) : Key(snapshot[i]) # Key(h)
    BY <1>2, <1>4, <1>5, <1>6, <1>10, <2>2 DEF Without, l
  <2>5. \A s : (\E i \in 1..Len(q) : Key(q[i].lease) = s) <=>
              /\ s # OwnSubnet
              /\ \E i \in 1..(k + 1) : Key(snapshot[i]) = s
              /\ \A h \in Elements(ls) : Key(h) # s
    BY <1>4, <1>5, <1>6, <2>3 DEF l
  <2>6. ScannedTo(m, ls, snapshot, k + 1, b, q)
    BY <1>6, <2>2, <2>4, <2>5 DEF ScannedTo
  <2> QED
    BY <2>1, <2>6 DEF Scanned, l
<1>11. CASE ~IsOwn(OwnOf(m), l) /\ f = 0
  <2> DEFINE r == Append(q, Added(l))
  <2>1. LWScan(OwnOf(m), scan, l) = [left |-> a, batch |-> r]
    BY <1>6, <1>11 DEF LWScan, a, f, q
  <2>2. Added(l) \in EventsOf(m) /\ Added(l).lease = l /\ Added(l).type = "Added"
    BY <1>1 DEF EventsOf, Added, l
  <2>3. /\ r \in Seq(EventsOf(m)) /\ Len(q) \in Nat /\ Len(r) = Len(q) + 1
        /\ \A i \in 1..Len(q) : r[i] = q[i]
        /\ r[Len(q) + 1] = Added(l)
    BY <1>6, <2>2, AppendProperties, LenProperties
  <2> HIDE DEF r
  <2>4. Len(q) + 1 \in 1..Len(r) /\ \A i \in 1..Len(r) : i \in 1..Len(q) \/ i = Len(q) + 1
    BY <2>3
  <2>5. 1..Len(q) \subseteq 1..Len(r)
    BY <2>3
  <2>6. \A i \in 1..Len(r) : r[i].type = "Added"
    BY <1>6, <2>2, <2>3, <2>4
  <2>7. \A h \in Elements(a) : Key(h) # Key(l)
    BY <1>7, <1>8, <1>11 DEF Elements
  <2>8. \A h \in Elements(ls) : Key(h) # Key(l)
    BY <1>2, <1>3, <1>6, <1>11, <2>7
  <2>9. \A h : h \in Elements(a) <=>
              /\ h \in Elements(ls)
              /\ Key(h) = OwnSubnet \/ \A i \in 1..(k + 1) : Key(snapshot[i]) # Key(h)
    BY <1>4, <1>5, <1>6, <2>8 DEF l
  <2>10. \A s : (\E i \in 1..Len(r) : Key(r[i].lease) = s) <=>
              /\ s # OwnSubnet
              /\ \E i \in 1..(k + 1) : Key(snapshot[i]) = s
              /\ \A h \in Elements(ls) : Key(h) # s
    <3> TAKE s
    <3>1. (\E i \in 1..Len(r) : Key(r[i].lease) = s) <=>
            (s = Key(l) \/ \E i \in 1..Len(q) : Key(q[i].lease) = s)
      BY <2>2, <2>3, <2>4, <2>5
    <3>2. (\E i \in 1..(k + 1) : Key(snapshot[i]) = s) <=>
            (s = Key(l) \/ \E i \in 1..k : Key(snapshot[i]) = s)
      BY <1>4, <1>5 DEF l
    <3> QED
      BY <1>2, <1>6, <1>11, <2>8, <3>1, <3>2
  <2>11. ScannedTo(m, ls, snapshot, k + 1, a, r)
    BY <1>6, <2>3, <2>6, <2>9, <2>10 DEF ScannedTo
  <2> QED
    BY <2>1, <2>11 DEF Scanned, l
<1> QED
  BY <1>9, <1>10, <1>11 DEF l

\* LeaseWatcher::reset keeps them together too, up to attributes, for any
\* snapshot that lists a subnet once.
LEMMA ResetTells ==
  ASSUME NEW m \in Modes, NEW ls, NEW t, NEW exact \in BOOLEAN,
         NEW snapshot \in Seq(LeasesOf(m)), Once(snapshot),
         Tells(m, ls, <<>>, t, exact)
  PROVE  LET r == LWReset(OwnOf(m), ls, snapshot) IN Tells(m, r.leases, r.batch, t, FALSE)
<1> DEFINE n == Len(snapshot)
<1>1. n \in Nat
  BY LenProperties
<1>0. PICK run : /\ LWReset(OwnOf(m), ls, snapshot) = Announced(snapshot, run[n])
                 /\ ResetLoop(OwnOf(m), ls, snapshot, run)
  BY <1>1, ResetRuns, Zenon
<1>2. /\ LWReset(OwnOf(m), ls, snapshot) = Announced(snapshot, run[n])
      /\ run[0] = [left |-> ls, batch |-> <<>>]
      /\ \A k \in 1..n : run[k] = LWScan(OwnOf(m), run[k - 1], snapshot[k])
  BY <1>0 DEF ResetLoop
<1> DEFINE S == {k \in Nat : k <= n => Scanned(m, ls, snapshot, k, run[k])}
<1>3. 0 \in S
  <2>1. 1..0 = {} /\ Len(<<>>) = 0 /\ <<>> \in Seq(EventsOf(m))
    BY EmptySeq
  <2>2. ls \in Seq(LeasesOf(m)) /\ Once(ls)
    BY DEF Tells
  <2>3. ScannedTo(m, ls, snapshot, 0, ls, <<>>)
    BY <2>1, <2>2 DEF ScannedTo
  <2> QED
    BY <1>2, <2>3 DEF Scanned
<1>4. ASSUME NEW k \in Nat, k \in S PROVE k + 1 \in S
  <2> SUFFICES ASSUME k + 1 <= n PROVE Scanned(m, ls, snapshot, k + 1, run[k + 1])
    OBVIOUS
  <2>1. k + 1 \in 1..n /\ (k + 1) - 1 = k /\ k <= n
    BY <1>1
  <2>2. run[k + 1] = LWScan(OwnOf(m), run[k], snapshot[k + 1])
    BY <1>2, <2>1
  <2> QED
    BY <1>4, <2>1, <2>2, ScanStep
<1>5. Scanned(m, ls, snapshot, n, run[n])
  <2>1. n \in S
    <3> HIDE DEF S
    <3> QED
      BY <1>1, <1>3, <1>4, Induction
  <2> QED
    BY <1>1, <2>1
<1> DEFINE a == run[n].left
           q == run[n].batch
           rem == [i \in 1..Len(a) |-> Removed(a[i])]
           r == q \o rem
<1>6. /\ a \in Seq(LeasesOf(m)) /\ q \in Seq(EventsOf(m)) /\ Len(a) \in Nat /\ Len(q) \in Nat
      /\ \A i \in 1..Len(a) : a[i] \in LeasesOf(m) /\ a[i] \in Elements(a)
  BY <1>5, ElementOfSeq, LenProperties DEF Scanned, ScannedTo, Elements
<1>7. LWReset(OwnOf(m), ls, snapshot) = [leases |-> snapshot, batch |-> r]
  BY <1>2 DEF Announced
<1> HIDE DEF a, q
<1>8. rem \in Seq(EventsOf(m)) /\ Len(rem) = Len(a)
  <2>1. \A i \in 1..Len(a) : Removed(a[i]) \in EventsOf(m)
    BY <1>6 DEF EventsOf
  <2>2. rem \in [1..Len(a) -> EventsOf(m)]
    BY <2>1
  <2> QED
    BY <1>6, <2>2, SeqDef
<1>9. \A i \in 1..Len(a) : rem[i].type = "Removed" /\ rem[i].lease = a[i]
  BY DEF Removed
<1> HIDE DEF rem
<1>10. /\ r \in Seq(EventsOf(m)) /\ Len(r) = Len(q) + Len(a)
       /\ \A i \in 1..Len(q) + Len(a) : r[i] = IF i <= Len(q) THEN q[i] ELSE rem[i - Len(q)]
  <2>1. /\ q \o rem \in Seq(EventsOf(m)) /\ Len(q \o rem) = Len(q) + Len(rem)
        /\ \A i \in 1..Len(q) + Len(rem) :
             (q \o rem)[i] = IF i <= Len(q) THEN q[i] ELSE rem[i - Len(q)]
    BY <1>6, <1>8, ConcatProperties
  <2> QED
    BY <1>8, <2>1
<1> HIDE DEF r, S
<1>11. /\ \A i \in 1..Len(q) : i \in 1..Len(r) /\ r[i] = q[i]
       /\ \A i \in 1..Len(a) : Len(q) + i \in 1..Len(r) /\ r[Len(q) + i] = rem[i]
       /\ \A i \in 1..Len(r) : i \in 1..Len(q) \/ \E j \in 1..Len(a) : i = Len(q) + j
  <2>1. ASSUME NEW i \in 1..Len(r), i \notin 1..Len(q) PROVE \E j \in 1..Len(a) : i = Len(q) + j
    <3>1. i - Len(q) \in 1..Len(a) /\ i = Len(q) + (i - Len(q))
      BY <1>6, <1>10, <2>1
    <3> QED
      BY <3>1
  <2>2. ASSUME NEW i \in 1..Len(a) PROVE Len(q) + i \in 1..Len(r) /\ r[Len(q) + i] = rem[i]
    <3>1. Len(q) + i \in 1..Len(q) + Len(a) /\ ~(Len(q) + i <= Len(q)) /\ (Len(q) + i) - Len(q) = i
      BY <1>6
    <3> QED
      BY <1>10, <3>1
  <2>3. \A i \in 1..Len(q) : i \in 1..Len(r) /\ r[i] = q[i]
    BY <1>6, <1>10
  <2> QED
    BY <2>1, <2>2, <2>3
<1>12. Agree(Elements(snapshot), r, t, FALSE)
  <2> SUFFICES ASSUME NEW s \in Subnets
               PROVE  /\ (\A i \in 1..Len(r) : Key(r[i].lease) # s) =>
                            Believes(Elements(snapshot), s, t[s], FALSE)
                      /\ \A i \in 1..Len(r) :
                           Key(r[i].lease) = s => Believes(Elements(snapshot), s, Value(r[i]), FALSE)
    BY DEF Agree
  <2>1. (\E h \in Elements(snapshot) : Key(h) = s) <=> \E i \in 1..n : Key(snapshot[i]) = s
    BY DEF Elements
  <2>2. Believes(Elements(ls), s, t[s], exact)
    <3>1. Len(<<>>) = 0 /\ 1..0 = {}
      OBVIOUS
    <3> QED
      BY <3>1 DEF Tells, Agree
  <2>3. /\ \A h : h \in Elements(a) <=>
              /\ h \in Elements(ls)
              /\ Key(h) = OwnSubnet \/ \A i \in 1..n : Key(snapshot[i]) # Key(h)
        /\ \A i \in 1..Len(q) : q[i].type = "Added"
        /\ (\E i \in 1..Len(q) : Key(q[i].lease) = s) <=>
              /\ s # OwnSubnet
              /\ \E i \in 1..n : Key(snapshot[i]) = s
              /\ \A h \in Elements(ls) : Key(h) # s
    BY <1>5 DEF Scanned, ScannedTo, a, q
  <2>4. ASSUME \A i \in 1..Len(r) : Key(r[i].lease) # s
        PROVE  Believes(Elements(snapshot), s, t[s], FALSE)
    <3>1. \A i \in 1..Len(q) : Key(q[i].lease) # s
      BY <1>11, <2>4
    <3>2. \A h \in Elements(a) : Key(h) # s
      <4>1. ASSUME NEW j \in 1..Len(a) PROVE Key(a[j]) # s
        <5>1. Len(q) + j \in 1..Len(r) /\ r[Len(q) + j] = rem[j] /\ rem[j].lease = a[j]
          BY <1>9, <1>11
        <5> QED
          BY <2>4, <5>1
      <4> QED
        BY <4>1 DEF Elements
    <3>3. CASE s # OwnSubnet /\ \E h \in Elements(snapshot) : Key(h) = s
      <4>1. \E h \in Elements(ls) : Key(h) = s
        BY <2>1, <2>3, <3>1, <3>3
      <4> QED
        BY <2>2, <3>3, <4>1 DEF Believes
    <3>4. CASE ~(s # OwnSubnet /\ \E h \in Elements(snapshot) : Key(h) = s)
      <4>1. s # OwnSubnet => \A h \in Elements(ls) : Key(h) # s
        BY <2>1, <2>3, <3>2, <3>4
      <4> QED
        BY <2>2, <3>4, <4>1 DEF Believes
    <3> QED
      BY <3>3, <3>4
  <2>5. ASSUME NEW i \in 1..Len(r), Key(r[i].lease) = s
        PROVE  Believes(Elements(snapshot), s, Value(r[i]), FALSE)
    <3>1. CASE i \in 1..Len(q)
      <4>1. r[i] = q[i] /\ q[i] \in EventsOf(m)
        BY <1>6, <1>11, <3>1, ElementOfSeq
      <4>2. Value(r[i]) # None
        <5>1. q[i].lease \in LeasesOf(m)
          BY <4>1, EventLemma
        <5> QED
          BY <2>3, <3>1, <4>1, <5>1, LeaseLemma DEF Value
      <4>3. s # OwnSubnet /\ \E h \in Elements(snapshot) : Key(h) = s
        BY <2>1, <2>3, <2>5, <3>1, <4>1
      <4> QED
        BY <4>2, <4>3 DEF Believes
    <3>2. ASSUME NEW j \in 1..Len(a), i = Len(q) + j
          PROVE  Believes(Elements(snapshot), s, Value(r[i]), FALSE)
      <4>1. r[i] = rem[j] /\ r[i].type = "Removed" /\ r[i].lease = a[j]
        BY <1>9, <1>11, <3>2
      <4>2. Value(r[i]) = None
        BY <4>1 DEF Value
      <4>3. a[j] \in Elements(a) /\ Key(a[j]) = s
        BY <1>6, <2>5, <4>1
      <4>4. ~(s # OwnSubnet /\ \E h \in Elements(snapshot) : Key(h) = s)
        BY <2>1, <2>3, <4>3
      <4> QED
        BY <4>2, <4>4 DEF Believes
    <3> QED
      BY <1>11, <3>1, <3>2
  <2> QED
    BY <2>4, <2>5
<1>13. Tells(m, snapshot, r, t, FALSE)
  <2>1. r \in Seq(EventsOf(m))
    BY <1>10
  <2>2. ASSUME NEW i \in 1..Len(r), r[i].type = "Added" PROVE Key(r[i].lease) # OwnSubnet
    <3>1. ASSUME NEW j \in 1..Len(a), i = Len(q) + j PROVE FALSE
      BY <1>9, <1>11, <2>2, <3>1
    <3>2. i \in 1..Len(q) /\ r[i] = q[i]
      BY <1>11, <3>1
    <3>3. \A s : (\E j \in 1..Len(q) : Key(q[j].lease) = s) => s # OwnSubnet
      BY <1>5 DEF Scanned, ScannedTo, q
    <3> QED
      BY <3>2, <3>3
  <2> QED
    BY <1>12, <2>1, <2>2 DEF Tells
<1>14. /\ LWReset(OwnOf(m), ls, snapshot).leases = snapshot
       /\ LWReset(OwnOf(m), ls, snapshot).batch = r
  BY <1>7
<1> QED
  BY <1>13, <1>14, Zenon
-----------------------------------------------------------------------------
(* The watcher and its backend *)

\* The invariant: the events of the batch that are still to be handled lead
\* from what the backend was told to what is stored.
KnowInv ==
  /\ backend \in Backends /\ mode \in Modes
  /\ told = [s \in Subnets |-> told[s]]
  /\ snapshots \in BOOLEAN
  /\ Tells(mode, leases, queue, told, ~snapshots)

LEMMA KnowInit ==
  Init => KnowInv
<1> SUFFICES ASSUME Init PROVE KnowInv
  OBVIOUS
<1>1. /\ backend \in Backends /\ mode \in Modes
      /\ leases = <<>> /\ queue = <<>> /\ snapshots = FALSE
      /\ told = [s \in Subnets |-> None]
  BY ModesAssumption DEF Init, WatcherInit, Modes
<1>2. /\ Len(<<>>) = 0 /\ 1..0 = {} /\ <<>> \in Seq(LeasesOf(mode)) /\ <<>> \in Seq(EventsOf(mode))
      /\ Elements(<<>>) = {}
  BY EmptySeq DEF Elements
<1>3. Agree(Elements(<<>>), <<>>, told, TRUE)
  BY <1>1, <1>2 DEF Agree, Believes
<1>4. Tells(mode, leases, queue, told, TRUE)
  BY <1>1, <1>2, <1>3 DEF Tells, Once
<1>5. (~snapshots) = TRUE
  BY <1>1
<1> QED
  BY <1>1, <1>4, <1>5 DEF KnowInv

\* The handler goes on to the next event: told takes its value.
LEMMA TakeKnows ==
  ASSUME KnowInv, Take
  PROVE  KnowInv'
<1> DEFINE e == Head(queue)
           k == Key(e.lease)
           q == Tail(queue)
           n == Len(q)
<1>1. /\ queue # <<>> /\ ev' = e /\ queue' = q
      /\ backend' = backend /\ mode' = mode /\ leases' = leases /\ snapshots' = snapshots
      /\ told' = [told EXCEPT ![k] = Value(e)]
  BY DEF Take, watcherVars, Value
<1>2. /\ mode \in Modes /\ leases \in Seq(LeasesOf(mode)) /\ Once(leases)
      /\ queue \in Seq(EventsOf(mode))
      /\ Agree(Elements(leases), queue, told, ~snapshots)
      /\ told = [s \in Subnets |-> told[s]]
  BY DEF KnowInv, Tells
<1>3. /\ Len(queue) \in Nat /\ q \in Seq(EventsOf(mode)) /\ n \in Nat /\ Len(queue) = n + 1
      /\ e = queue[1] /\ \A i \in 1..n : q[i] = queue[i + 1]
      /\ e \in EventsOf(mode)
  BY <1>1, <1>2, HeadTailProperties, LenProperties, ElementOfSeq
<1>4. k \in Subnets
  BY <1>2, <1>3, EventLemma, LeaseLemma
<1>5. /\ told' = [s \in Subnets |-> told'[s]]
      /\ told'[k] = Value(e)
      /\ \A s \in Subnets : s # k => told'[s] = told[s]
  BY <1>1, <1>2, <1>4
<1> HIDE DEF q, e, k
<1>6. /\ \A i \in 1..n : i + 1 \in 1..Len(queue)
      /\ 1 \in 1..Len(queue)
      /\ \A j \in 2..Len(queue) : j - 1 \in 1..n /\ q[j - 1] = queue[j]
      /\ \A j \in 1..Len(queue) : j = 1 \/ j \in 2..Len(queue)
  BY <1>3
<1>7. Agree(Elements(leases), q, told', ~snapshots)
  <2> SUFFICES ASSUME NEW s \in Subnets
               PROVE  /\ (\A i \in 1..n : Key(q[i].lease) # s) =>
                            Believes(Elements(leases), s, told'[s], ~snapshots)
                      /\ \A i \in 1..n :
                           Key(q[i].lease) = s /\ (\A j \in (i + 1)..n : Key(q[j].lease) # s) =>
                             Believes(Elements(leases), s, Value(q[i]), ~snapshots)
    BY DEF Agree
  <2>1. /\ (\A i \in 1..Len(queue) : Key(queue[i].lease) # s) =>
              Believes(Elements(leases), s, told[s], ~snapshots)
        /\ \A i \in 1..Len(queue) :
             Key(queue[i].lease) = s /\ (\A j \in (i + 1)..Len(queue) : Key(queue[j].lease) # s) =>
               Believes(Elements(leases), s, Value(queue[i]), ~snapshots)
    BY <1>2 DEF Agree
  <2>2. ASSUME \A i \in 1..n : Key(q[i].lease) # s
        PROVE  Believes(Elements(leases), s, told'[s], ~snapshots)
    <3>1. \A j \in (1 + 1)..Len(queue) : Key(queue[j].lease) # s
      <4> TAKE j \in (1 + 1)..Len(queue)
      <4>1. j \in 2..Len(queue)
        OBVIOUS
      <4> QED
        BY <1>6, <2>2, <4>1
    <3>2. CASE s = k
      BY <1>3, <1>5, <1>6, <2>1, <3>1, <3>2 DEF k
    <3>3. CASE s # k
      <4>1. \A i \in 1..Len(queue) : Key(queue[i].lease) # s
        BY <1>3, <1>6, <3>1, <3>3 DEF k
      <4> QED
        BY <1>5, <2>1, <3>3, <4>1
    <3> QED
      BY <3>2, <3>3
  <2>3. ASSUME NEW i \in 1..n, Key(q[i].lease) = s, \A j \in (i + 1)..n : Key(q[j].lease) # s
        PROVE  Believes(Elements(leases), s, Value(q[i]), ~snapshots)
    <3>1. i + 1 \in 1..Len(queue) /\ queue[i + 1] = q[i]
      BY <1>3, <1>6
    <3>2. \A j \in ((i + 1) + 1)..Len(queue) : Key(queue[j].lease) # s
      <4> TAKE j \in ((i + 1) + 1)..Len(queue)
      <4>1. j \in 2..Len(queue) /\ j - 1 \in (i + 1)..n
        BY <1>3
      <4> QED
        BY <1>6, <2>3, <4>1
    <3> QED
      BY <2>1, <2>3, <3>1, <3>2
  <2> QED
    BY <2>2, <2>3
<1>8. ~snapshots => \A i \in 1..n : Key(q[i].lease) # OwnSubnet
  BY <1>3, <1>6 DEF KnowInv, Tells
<1>9. \A i \in 1..n : q[i].type = "Added" => Key(q[i].lease) # OwnSubnet
  BY <1>3, <1>6 DEF KnowInv, Tells
<1>10. Tells(mode, leases, q, told', ~snapshots)
  BY <1>2, <1>3, <1>7, <1>8, <1>9 DEF KnowInv, Tells
<1> QED
  BY <1>1, <1>5, <1>10 DEF KnowInv, q

LEMMA UpdateKnows ==
  ASSUME KnowInv, Update
  PROVE  KnowInv'
<1>1. PICK events \in Batches : Send(LWUpdate(Own, leases, events)) /\ UNCHANGED snapshots
  BY DEF Update
<1>2. events \in Seq(EventsOf(mode)) /\ Own = OwnOf(mode)
  <2>1. PICK n \in 1..MaxBatch : events \in [1..n -> Events]
    BY DEF Batches
  <2>2. n \in Nat /\ Events = EventsOf(mode) /\ Own = OwnOf(mode)
    BY BatchAssumption DEF Events, EventsOf, LeaseSet, LeasesOf, Own, OwnOf
  <2> QED
    BY <2>1, <2>2, SeqDef
<1> DEFINE r == LWUpdate(OwnOf(mode), leases, events)
<1>3. /\ queue = <<>> /\ leases' = r.leases /\ queue' = r.batch
      /\ UNCHANGED <<backend, mode, told, snapshots>>
  BY <1>1, <1>2 DEF Send
<1>4. mode \in Modes /\ (~snapshots) \in BOOLEAN /\ Tells(mode, leases, <<>>, told, ~snapshots)
  BY <1>3 DEF KnowInv
<1>5. Tells(mode, r.leases, r.batch, told, ~snapshots)
  BY <1>2, <1>4, UpdateTells
<1> HIDE DEF r
<1> QED
  BY <1>3, <1>5 DEF KnowInv

LEMMA ResetKnows ==
  ASSUME KnowInv, Reset
  PROVE  KnowInv'
<1>1. PICK snapshot \in Snapshots : Send(LWReset(Own, leases, snapshot)) /\ snapshots' = TRUE
  BY DEF Reset
<1>2. snapshot \in Seq(LeasesOf(mode)) /\ Once(snapshot) /\ Own = OwnOf(mode)
  <2>1. Once(snapshot)
    BY DEF Snapshots, Once
  <2>2. PICK n \in 0..MaxSnapshot(backend) : snapshot \in [1..n -> LeaseSet]
    BY DEF Snapshots
  <2>3. n \in Nat /\ LeaseSet = LeasesOf(mode) /\ Own = OwnOf(mode)
    BY BatchAssumption DEF KnowInv, LeaseSet, LeasesOf, Own, OwnOf
  <2> QED
    BY <2>1, <2>2, <2>3, SeqDef
<1> DEFINE r == LWReset(OwnOf(mode), leases, snapshot)
<1>3. /\ queue = <<>> /\ leases' = r.leases /\ queue' = r.batch
      /\ UNCHANGED <<backend, mode, told>>
  BY <1>1, <1>2 DEF Send
<1>4. mode \in Modes /\ (~snapshots) \in BOOLEAN /\ Tells(mode, leases, <<>>, told, ~snapshots)
  BY <1>3 DEF KnowInv
<1>5. Tells(mode, r.leases, r.batch, told, FALSE)
  BY <1>2, <1>4, ResetTells
<1>6. (~snapshots') = FALSE
  BY <1>1
<1> HIDE DEF r
<1> QED
  BY <1>1, <1>3, <1>5, <1>6 DEF KnowInv

\* A backend takes events and otherwise leaves the watcher alone.
WatchedVars == <<backend, mode, leases, queue, told, snapshots>>

LEMMA BackendSteps ==
  ASSUME Handler \/ Helper \/ Environment \/ Cancel
  PROVE  Take \/ UNCHANGED WatchedVars
<1>1. CASE Cancel
  BY <1>1 DEF Cancel, WatchedVars, eventVars
<1>2. CASE Helper
  BY <1>2 DEF Helper, ProcessCmd, StopCharon, CharonEnds, WatchedVars, eventVars, watcherVars
<1>3. CASE Environment
  BY <1>3 DEF Environment, Move, WgLinkDown, CharonDies, CharonEnds, BurstBegins, BurstEnds, RoutePacket,
              WatchedVars, eventVars, watcherVars
<1>4. CASE VxlanHandler
  BY <1>4 DEF VxlanHandler, VxSkip, VxBegin, AddDirect, AddArp, AddFdb, AddRoute, UndoArp,
              UndoBothArp, UndoFdb, RemoveDirect, RemoveArp, RemoveFdb, RemoveRoute, At,
              WatchedVars, eventVars, watcherVars
<1>5. CASE WireguardHandler
  BY <1>5 DEF WireguardHandler, WgSkip, WgBegin, WgAdd4, WgRoute4, WgAdd6, WgRoute6, WgAdd,
              WgAddNet4, WgAddNet6, WgDel4, WgDel6, WgAt, WatchedVars, eventVars, watcherVars
<1>6. CASE IpsecHandler
  BY <1>6 DEF IpsecHandler, IpsecSkip, IpsecBegin, AddOut, AddIn, AddFwd, GetKeyClient,
              GetConnClient, GetClient, LoadSharedKey, LoadConnection, UnloadConnection, DelOut, DelIn, DelFwd, IpsecAt,
              WatchedVars, eventVars, watcherVars
<1>7. CASE UdpHandler
  BY <1>7 DEF UdpHandler, UdpEvent, StopProxy, WatchedVars, eventVars, watcherVars
<1>8. CASE ExtensionNext
  BY <1>8 DEF ExtensionNext, ExtRun, ExtSkip
<1> QED
  BY <1>1, <1>2, <1>3, <1>4, <1>5, <1>6, <1>7, <1>8 DEF Handler

LEMMA KnowStep ==
  KnowInv /\ [Next]_vars => KnowInv'
<1> SUFFICES ASSUME KnowInv, [Next]_vars PROVE KnowInv'
  OBVIOUS
<1>1. CASE UNCHANGED WatchedVars
  BY <1>1 DEF WatchedVars, KnowInv
<1>2. CASE UNCHANGED vars
  <2>1. UNCHANGED WatchedVars
    BY <1>2 DEF vars, watcherVars, eventVars, WatchedVars
  <2> QED
    BY <1>1, <2>1
<1>3. CASE Next
  BY <1>1, <1>3, UpdateKnows, ResetKnows, TakeKnows, BackendSteps DEF Next
<1> QED
  BY <1>2, <1>3

\* In front of any of the backends, and whatever mixture of updates (of any
\* number of events, repeated adds and removals of unknown subnets among
\* them) and snapshots comes in: between batches a backend has been told of
\* exactly the subnets LeaseWatcher stores without the own one, each of
\* them stored once; before the first snapshot with their latest attributes
\* and never of the own lease.
THEOREM BackendIsTold == Spec => []BackendKnows
<1>1. KnowInv => BackendKnows
  <2> SUFFICES ASSUME KnowInv PROVE BackendKnows
    OBVIOUS
  <2>1. /\ mode \in Modes
        /\ leases \in Seq(LeasesOf(mode)) /\ Once(leases)
        /\ Agree(Elements(leases), queue, told, ~snapshots)
        /\ ~snapshots => /\ \A l \in Elements(leases) : Key(l) # OwnSubnet
                         /\ \A i \in 1..Len(queue) : Key(queue[i].lease) # OwnSubnet
    BY DEF KnowInv, Tells
  <2>2. \A i \in 1..Len(leases) :
          /\ leases[i] \in Elements(leases)
          /\ Key(leases[i]) \in Subnets
    BY <2>1, ElementOfSeq, LeaseLemma DEF Elements
  <2>3. ASSUME Settled, NEW s \in Subnets PROVE Believes(Elements(leases), s, told[s], ~snapshots)
    <3>1. Len(<<>>) = 0 /\ 1..0 = {} /\ queue = <<>>
      BY <2>3 DEF Settled
    <3> QED
      BY <2>1, <3>1 DEF Agree
  <2>4. ASSUME Settled
        PROVE  {s \in Subnets : told[s] # None}
                 = {Key(leases[i]) : i \in 1..Len(leases)} \ {OwnSubnet}
    BY <2>2, <2>3, <2>4 DEF Believes, Elements
  <2>5. ASSUME Settled, ~snapshots, NEW i \in 1..Len(leases)
        PROVE  told[Key(leases[i])] = leases[i].attrs
    <3>1. Believes(Elements(leases), Key(leases[i]), told[Key(leases[i])], ~snapshots)
      BY <2>2, <2>3, <2>5
    <3>2. Key(leases[i]) # OwnSubnet
      BY <2>1, <2>2, <2>5
    <3> QED
      BY <2>2, <2>5, <3>1, <3>2 DEF Believes
  <2> QED
    BY <2>1, <2>4, <2>5 DEF BackendKnows, Once
<1> QED
  BY <1>1, KnowInit, KnowStep, PTL DEF Spec
-----------------------------------------------------------------------------
(* The event in hand *)

\* What was announced is what some node has, never the own lease; a handler
\* that is in the middle of an event has been told of it.
HandInv ==
  /\ KnowInv
  /\ \A s \in Subnets : told[s] \in AttrsOf(s) \cup {None}
  /\ told[OwnSubnet] = None
  /\ step # "idle" => ev \in EventsOf(mode) /\ told[Key(ev.lease)] = Value(ev)

LEMMA AttrsLemma ==
  ASSUME NEW m \in Modes, NEW l \in LeasesOf(m)
  PROVE  /\ l = LeaseOf(m, Key(l), l.attrs)
         /\ l.attrs \in AttrsOf(Key(l))
         /\ l.attrs.kind \in AttrKinds /\ l.attrs.id \in Ids /\ l.attrs.ip \in Ips
<1>1. PICK s \in Subnets : \E a \in AttrsOf(s) : l = LeaseOf(m, s, a)
  BY DEF LeasesOf
<1>2. PICK a \in AttrsOf(s) : l = LeaseOf(m, s, a)
  BY <1>1
<1>3. Key(l) = s /\ l.attrs = a
  BY <1>2, KeyLemma
<1>4. a \in [kind : AttrKinds, id : Ids, ip : Ips]
  BY AttrsAssumption
<1> QED
  BY <1>2, <1>3, <1>4

\* The event a handler takes.
LEMMA TakeEvent ==
  ASSUME HandInv, Take
  PROVE  /\ step = "idle" /\ backend' = backend /\ mode' = mode /\ mode \in Modes
         /\ ev' \in EventsOf(mode) /\ ev'.lease \in LeasesOf(mode)
         /\ Key(ev'.lease) \in Subnets
         /\ ev'.type = "Added" => Key(ev'.lease) # OwnSubnet
         /\ told' = [told EXCEPT ![Key(ev'.lease)] = Value(ev')]
         /\ told'[Key(ev'.lease)] = Value(ev')
         /\ \A s \in Subnets : s # Key(ev'.lease) => told'[s] = told[s]
<1>1. /\ mode \in Modes /\ queue \in Seq(EventsOf(mode)) /\ queue # <<>>
      /\ told = [s \in Subnets |-> told[s]]
      /\ \A i \in 1..Len(queue) : queue[i].type = "Added" => Key(queue[i].lease) # OwnSubnet
  BY DEF HandInv, KnowInv, Tells, Take
<1>2. /\ step = "idle" /\ ev' = Head(queue) /\ backend' = backend /\ mode' = mode
      /\ told' = [told EXCEPT ![Key(ev'.lease)] = Value(ev')]
  BY DEF Take, watcherVars, Value
<1>3. Head(queue) = queue[1] /\ 1 \in 1..Len(queue) /\ queue[1] \in EventsOf(mode)
  <2>1. Len(queue) \in Nat /\ Len(queue) # 0
    BY <1>1, EmptySeq, LenProperties
  <2>2. 1 \in 1..Len(queue)
    BY <2>1
  <2> QED
    BY <1>1, <2>2, ElementOfSeq, HeadTailProperties
<1>4. ev' \in EventsOf(mode) /\ ev'.lease \in LeasesOf(mode)
  BY <1>2, <1>3, EventLemma
<1>5. Key(ev'.lease) \in Subnets
  BY <1>1, <1>4, LeaseLemma
<1>6. /\ told'[Key(ev'.lease)] = Value(ev')
      /\ \A s \in Subnets : s # Key(ev'.lease) => told'[s] = told[s]
  <2> DEFINE k == Key(ev'.lease)
  <2>1. k \in Subnets /\ told' = [told EXCEPT ![k] = Value(ev')]
    BY <1>2, <1>5
  <2> HIDE DEF k
  <2>2. told'[k] = Value(ev') /\ \A s \in Subnets : s # k => told'[s] = told[s]
    BY <1>1, <2>1
  <2> QED
    BY <2>2 DEF k
<1> QED
  BY <1>1, <1>2, <1>3, <1>4, <1>5, <1>6

LEMMA HandInit ==
  Init => HandInv
<1> SUFFICES ASSUME Init PROVE HandInv
  OBVIOUS
<1>1. told = [s \in Subnets |-> None] /\ step = "idle"
  BY DEF Init, WatcherInit
<1> QED
  BY <1>1, KnowInit, OwnAssumption DEF HandInv

\* A handler begins with an event, and has it in hand to the end.
LEMMA HandSteps ==
  ASSUME Next
  PROVE  Take \/ (UNCHANGED <<mode, told, ev>> /\ (step = "idle" => step' = "idle"))
<1>1. CASE Update \/ Reset \/ Cancel
  BY <1>1 DEF Update, Reset, Send, Cancel, eventVars
<1>2. CASE Helper
  BY <1>2 DEF Helper, ProcessCmd, StopCharon, CharonEnds, eventVars, watcherVars
<1>3. CASE Environment
  BY <1>3 DEF Environment, Move, WgLinkDown, CharonDies, CharonEnds, BurstBegins, BurstEnds, RoutePacket,
              eventVars, watcherVars
<1>4. CASE VxlanHandler
  BY <1>4 DEF VxlanHandler, VxSkip, VxBegin, AddDirect, AddArp, AddFdb, AddRoute, UndoArp,
              UndoBothArp, UndoFdb, RemoveDirect, RemoveArp, RemoveFdb, RemoveRoute, At,
              eventVars, watcherVars
<1>5. CASE WireguardHandler
  BY <1>5 DEF WireguardHandler, WgSkip, WgBegin, WgAdd4, WgRoute4, WgAdd6, WgRoute6, WgAdd,
              WgAddNet4, WgAddNet6, WgDel4, WgDel6, WgAt, eventVars, watcherVars
<1>6. CASE IpsecHandler
  BY <1>6 DEF IpsecHandler, IpsecSkip, IpsecBegin, AddOut, AddIn, AddFwd, GetKeyClient,
              GetConnClient, GetClient, LoadSharedKey, LoadConnection, UnloadConnection, DelOut, DelIn, DelFwd, IpsecAt,
              eventVars, watcherVars
<1>7. CASE UdpHandler
  BY <1>7 DEF UdpHandler, UdpEvent, StopProxy, eventVars, watcherVars
<1>8. CASE ExtensionNext
  BY <1>8 DEF ExtensionNext, ExtRun, ExtSkip
<1> QED
  BY <1>1, <1>2, <1>3, <1>4, <1>5, <1>6, <1>7, <1>8 DEF Next, Handler

LEMMA HandStep ==
  HandInv /\ [Next]_vars => HandInv'
<1> SUFFICES ASSUME HandInv, [Next]_vars PROVE HandInv'
  OBVIOUS
<1>1. KnowInv'
  BY KnowStep DEF HandInv
<1>2. CASE Take
  <2>1. /\ mode' = mode /\ mode \in Modes /\ ev' \in EventsOf(mode) /\ ev'.lease \in LeasesOf(mode)
        /\ Key(ev'.lease) \in Subnets
        /\ ev'.type = "Added" => Key(ev'.lease) # OwnSubnet
        /\ told'[Key(ev'.lease)] = Value(ev')
        /\ \A s \in Subnets : s # Key(ev'.lease) => told'[s] = told[s]
    BY <1>2, TakeEvent
  <2>2. ev'.lease.attrs \in AttrsOf(Key(ev'.lease))
    BY <2>1, AttrsLemma
  <2>3. Value(ev') \in AttrsOf(Key(ev'.lease)) \cup {None}
    BY <2>2 DEF Value
  <2>4. \A s \in Subnets : told'[s] \in AttrsOf(s) \cup {None}
    BY <2>1, <2>3 DEF HandInv
  <2>5. told'[OwnSubnet] = None
    BY <2>1, OwnAssumption DEF HandInv, Value
  <2> QED
    BY <1>1, <2>1, <2>4, <2>5 DEF HandInv
<1>3. CASE UNCHANGED <<mode, told, ev>> /\ (step = "idle" => step' = "idle")
  BY <1>1, <1>3 DEF HandInv
<1>4. CASE UNCHANGED vars
  BY <1>3, <1>4 DEF vars, watcherVars, eventVars
<1> QED
  BY <1>2, <1>3, <1>4, HandSteps

-----------------------------------------------------------------------------
(* ipsec *)

InCharon == {"key", "loadKey", "conn", "loadConn"}
IpsecAdds == {"polOut", "polIn", "polFwd"} \cup InCharon
IpsecDels == {"unload", "delOut", "delIn", "delFwd"}

OutFirst(d) == \A dir \in {"in", "fwd"} : policy[<<dir, d>>] # None => policy[<<"out", d>>] # None

\* What the handler leaves for a subnet: IpsecFollows for one subnet.
SubnetOk(d) ==
  /\ faults = 0 /\ IpsecMine(d) =>
       /\ \A dir \in Directions : policy[<<dir, d>>] = told[d].ip
       /\ charon = "up" => told[d].ip \in shared /\ <<d, told[d].ip>> \in conns
  /\ faults = 0 /\ ~IpsecMine(d) /\ Stable(d) =>
       /\ \A dir \in Directions : policy[<<dir, d>>] = None
       /\ \A c \in conns : c[1] # d
  /\ faults <= 1 /\ IpsecMine(d) /\ Stable(d) => OutFirst(d)

\* How far the addition of the peer in hand has come. A policy is missing
\* only if that request failed, and the first request is for "out".
AddOk ==
  /\ faults = 0 =>
       /\ step # "polOut" => policy[<<"out", Peer>>] = PeerIp
       /\ step \in {"polFwd"} \cup InCharon => policy[<<"in", Peer>>] = PeerIp
       /\ step \in InCharon => policy[<<"fwd", Peer>>] = PeerIp
       /\ step \in {"conn", "loadConn"} /\ charon = "up" => PeerIp \in shared
  /\ step \in {"polIn", "polFwd"} => policy[<<"out", Peer>>] # None
  /\ Stable(Peer) /\ (faults = 0 \/ (faults <= 1 /\ step # "polOut")) => OutFirst(Peer)

\* How far its removal has come. The first missing policy ends it, so there
\* must be all three or none.
DelOk ==
  faults = 0 /\ Stable(Peer) =>
    /\ step \in {"unload", "delOut"} => policy[<<"out", Peer>>] = policy[<<"in", Peer>>]
    /\ step # "delFwd" => policy[<<"in", Peer>>] = policy[<<"fwd", Peer>>]
    /\ step \in {"delIn", "delFwd"} => policy[<<"out", Peer>>] = None
    /\ step = "delFwd" => policy[<<"in", Peer>>] = None
    /\ step # "unload" => \A c \in conns : c[1] # Peer

PolicyType == policy \in [Directions \X Subnets -> Ips \cup {None}]

ConnsType ==
  \A c \in conns : \E d \in Subnets : \E a \in AttrsOf(d) : d # OwnSubnet /\ c = <<d, a.ip>>

IpsecInv ==
  /\ faults \in Nat
  /\ PolicyType /\ ConnsType
  /\ step \in IpsecAdds \cup IpsecDels \cup {"idle"}
  /\ step # "idle" => ev.lease.attrs.kind # "foreign" /\ Peer # OwnSubnet
  /\ step \in IpsecAdds => ev.type = "Added" /\ AddOk
  /\ step \in IpsecDels => ev.type # "Added" /\ DelOk
  /\ \A d \in Subnets : step = "idle" \/ d # Peer => SubnetOk(d)

\* The peer in hand.
LEMMA PeerLemma ==
  ASSUME HandInv, IpsecInv, step # "idle"
  PROVE  /\ Peer \in Subnets /\ Peer # OwnSubnet
         /\ PeerIp \in Ips /\ PeerIp # None
         /\ ev.lease.attrs \in AttrsOf(Peer)
         /\ Stable(Peer) => \A a \in AttrsOf(Peer) : a.ip = PeerIp
         /\ step \in IpsecAdds => IpsecMine(Peer) /\ told[Peer].ip = PeerIp
         /\ step \in IpsecDels => ~IpsecMine(Peer)
<1>1. ev.lease \in LeasesOf(mode) /\ mode \in Modes /\ told[Peer] = Value(ev)
  BY EventLemma DEF HandInv, KnowInv, Peer
<1>2. /\ Peer \in Subnets /\ ev.lease.attrs \in AttrsOf(Peer) /\ PeerIp \in Ips
      /\ ev.lease.attrs # None
  BY <1>1, AttrsLemma, LeaseLemma DEF Peer, PeerIp
<1>3. Stable(Peer) => \A a \in AttrsOf(Peer) : a.ip = PeerIp
  BY <1>2 DEF Stable, PeerIp
<1>4. Peer # OwnSubnet /\ ev.lease.attrs.kind # "foreign"
  BY DEF IpsecInv
<1>5. step \in IpsecAdds => IpsecMine(Peer) /\ told[Peer].ip = PeerIp
  BY <1>1, <1>2, <1>4 DEF IpsecInv, Value, IpsecMine, PeerIp
<1>6. step \in IpsecDels => ~IpsecMine(Peer)
  BY <1>1 DEF IpsecInv, Value, IpsecMine
<1> QED
  BY <1>2, <1>3, <1>4, <1>5, <1>6, NoneAssumption

\* A step about one subnet leaves the others as they are.
LEMMA OtherSubnet ==
  ASSUME NEW d \in Subnets, SubnetOk(d), told'[d] = told[d],
         faults \in Nat, faults' \in Nat, faults <= faults',
         \A dir \in Directions : policy'[<<dir, d>>] = policy[<<dir, d>>],
         faults' = 0 /\ charon' = "up" =>
           /\ charon = "up" /\ shared \subseteq shared'
           /\ \A c : c[1] = d /\ c \in conns => c \in conns',
         faults' = 0 => \A c : c[1] = d /\ c \in conns' => c \in conns
  PROVE  SubnetOk(d)'
<1>1. (faults' = 0 => faults = 0) /\ (faults' <= 1 => faults <= 1)
  OBVIOUS
<1>2. /\ policy'[<<"in", d>>] = policy[<<"in", d>>] /\ policy'[<<"out", d>>] = policy[<<"out", d>>]
      /\ policy'[<<"fwd", d>>] = policy[<<"fwd", d>>]
  BY DEF Directions
<1>3. IpsecMine(d)' <=> IpsecMine(d)
  BY DEF IpsecMine
<1>4. ASSUME faults' = 0, IpsecMine(d)'
      PROVE  /\ \A dir \in Directions : policy'[<<dir, d>>] = told'[d].ip
             /\ charon' = "up" => told'[d].ip \in shared' /\ <<d, told'[d].ip>> \in conns'
  <2>1. <<d, told[d].ip>>[1] = d
    OBVIOUS
  <2> QED
    BY <1>1, <1>3, <1>4, <2>1 DEF SubnetOk
<1>5. ASSUME faults' = 0, ~IpsecMine(d)', Stable(d)
      PROVE  /\ \A dir \in Directions : policy'[<<dir, d>>] = None
             /\ \A c \in conns' : c[1] # d
  BY <1>1, <1>3, <1>5 DEF SubnetOk
<1>6. ASSUME faults' <= 1, IpsecMine(d)', Stable(d) PROVE OutFirst(d)'
  BY <1>1, <1>2, <1>3, <1>6 DEF SubnetOk, OutFirst
<1> QED
  BY <1>4, <1>5, <1>6 DEF SubnetOk, Stable

\* A step of the handler in the middle of an event.
LEMMA PeerStep ==
  ASSUME HandInv, IpsecInv, step # "idle", UNCHANGED <<ev, told>>,
         faults' \in Nat, faults <= faults',
         PolicyType', ConnsType', charon' = charon,
         \A d \in Subnets, dir \in Directions : d # Peer => policy'[<<dir, d>>] = policy[<<dir, d>>],
         faults' = 0 => /\ shared \subseteq shared'
                        /\ \A c : c[1] # Peer => (c \in conns <=> c \in conns'),
         \/ step \in IpsecAdds /\ step' \in IpsecAdds /\ AddOk'
         \/ step \in IpsecDels /\ step' \in IpsecDels /\ DelOk'
         \/ step' = "idle" /\ SubnetOk(Peer)'
  PROVE  IpsecInv'
<1>1. Peer' = Peer /\ PeerIp' = PeerIp
  BY DEF Peer, PeerIp
<1>2. /\ step' \in IpsecAdds \cup IpsecDels \cup {"idle"}
      /\ step' \in IpsecAdds => ev'.type = "Added" /\ AddOk'
      /\ step' \in IpsecDels => ev'.type # "Added" /\ DelOk'
      /\ step' # "idle" => ev'.lease.attrs.kind # "foreign" /\ Peer' # OwnSubnet
  BY <1>1 DEF IpsecInv, IpsecAdds, InCharon, IpsecDels
<1>3. ASSUME NEW d \in Subnets, step' = "idle" \/ d # Peer' PROVE SubnetOk(d)'
  <2>1. CASE d = Peer
    <3>1. SubnetOk(Peer)'
      BY <1>1, <1>3, <2>1 DEF IpsecAdds, InCharon, IpsecDels
    <3> QED
      BY <1>1, <2>1, <3>1 DEF SubnetOk, OutFirst, IpsecMine, Stable
  <2>2. CASE d # Peer
    <3>1. SubnetOk(d) /\ faults \in Nat
      BY <2>2 DEF IpsecInv
    <3> QED
      BY <2>2, <3>1, OtherSubnet
  <2> QED
    BY <2>1, <2>2
<1> QED
  BY <1>2, <1>3 DEF IpsecInv

LEMMA FaultUp ==
  ASSUME faults \in Nat, Fault \/ UNCHANGED faults
  PROVE  faults' \in Nat /\ faults <= faults' /\ (Fault => faults' # 0)
BY DEF Fault

\* A policy of the peer is written.
LEMMA PolicyWritten ==
  ASSUME PolicyType, NEW d \in Subnets, NEW dir \in Directions, NEW v \in Ips \cup {None},
         policy' = [policy EXCEPT ![<<dir, d>>] = v]
  PROVE  /\ PolicyType'
         /\ policy'[<<dir, d>>] = v
         /\ \A e \in Subnets, o \in Directions : e # d \/ o # dir => policy'[<<o, e>>] = policy[<<o, e>>]
BY DEF PolicyType

LEMMA AddPolicyInv ==
  ASSUME HandInv, IpsecInv, NEW dir, NEW next, IpsecAt(step), AddPolicy(dir, next),
         \/ step = "polOut" /\ dir = "out" /\ next = "polIn"
         \/ step = "polIn" /\ dir = "in" /\ next = "polFwd"
         \/ step = "polFwd" /\ dir = "fwd" /\ next = "key"
  PROVE  IpsecInv'
<1>1. /\ AddPolicy(dir, next) /\ step \in IpsecAdds /\ UNCHANGED <<ev, told>>
      /\ dir \in Directions
      /\ \/ step = "polOut" /\ dir = "out" /\ next = "polIn"
         \/ step = "polIn" /\ dir = "in" /\ next = "polFwd"
         \/ step = "polFwd" /\ dir = "fwd" /\ next = "key"
  BY DEF IpsecAt, eventVars, Directions, IpsecAdds, InCharon
<1>2. /\ Peer \in Subnets /\ PeerIp \in Ips /\ PeerIp # None
      /\ Peer' = Peer /\ PeerIp' = PeerIp /\ (Stable(Peer)' <=> Stable(Peer))
      /\ faults \in Nat /\ PolicyType /\ AddOk /\ step # "idle"
  BY <1>1, PeerLemma DEF IpsecInv, IpsecAdds, InCharon, Peer, PeerIp, Stable
<1>3. /\ ConnsType' /\ charon' = charon /\ shared' = shared /\ conns' = conns
  BY <1>1 DEF AddPolicy, IpsecInv, ConnsType
<1>4. CASE /\ policy' = [policy EXCEPT ![<<dir, Peer>>] = PeerIp]
           /\ step' = next /\ faults' = faults
  <2>1. /\ PolicyType' /\ policy'[<<dir, Peer>>] = PeerIp
        /\ \A e \in Subnets, o \in Directions :
             e # Peer \/ o # dir => policy'[<<o, e>>] = policy[<<o, e>>]
    BY <1>1, <1>2, <1>4, PolicyWritten
  <2>2. faults' = 0 =>
          /\ step' # "polOut" => policy'[<<"out", Peer>>] = PeerIp
          /\ step' \in {"polFwd"} \cup InCharon => policy'[<<"in", Peer>>] = PeerIp
          /\ step' \in InCharon => policy'[<<"fwd", Peer>>] = PeerIp
          /\ step' \notin {"conn", "loadConn"}
    BY <1>1, <1>2, <1>4, <2>1 DEF AddOk, Directions, InCharon
  <2>3. policy'[<<"out", Peer>>] # None
    BY <1>1, <1>2, <2>1 DEF AddOk, Directions
  <2>4. OutFirst(Peer)'
    BY <1>2, <2>3 DEF OutFirst
  <2>5. AddOk'
    BY <1>2, <2>2, <2>3, <2>4 DEF AddOk
  <2>6. step' \in IpsecAdds
    BY <1>1, <1>4 DEF IpsecAdds, InCharon
  <2> QED
    BY <1>1, <1>2, <1>3, <1>4, <2>1, <2>5, <2>6, PeerStep
<1>5. CASE policy' = policy /\ step' = "key" /\ Fault
  <2>1. faults' \in Nat /\ faults <= faults' /\ faults' # 0
    BY <1>2, <1>5, FaultUp
  <2>2. faults' <= 1 => faults = 0
    BY <1>2, <1>5 DEF Fault
  <2>3. AddOk'
    BY <1>2, <1>5, <2>1, <2>2 DEF AddOk, OutFirst, InCharon
  <2>4. step' \in IpsecAdds /\ PolicyType'
    BY <1>2, <1>5 DEF IpsecAdds, InCharon, PolicyType
  <2> QED
    BY <1>1, <1>2, <1>3, <1>5, <2>1, <2>3, <2>4, PeerStep
<1> QED
  BY <1>1, <1>4, <1>5 DEF AddPolicy

LEMMA LoadSharedKeyInv ==
  ASSUME HandInv, IpsecInv, LoadSharedKey
  PROVE  IpsecInv'
<1>1. /\ step = "loadKey" /\ step' \in {"loadKey", "conn"}
      /\ UNCHANGED <<ev, told, policy, charon, conns>>
      /\ shared \subseteq shared' /\ (Fault \/ UNCHANGED faults)
      /\ Fault \/ charon # "up" \/ PeerIp \in shared'
  BY DEF LoadSharedKey, IpsecAt, eventVars
<1>2. /\ step \in IpsecAdds /\ step' \in IpsecAdds /\ step # "idle"
      /\ Peer' = Peer /\ PeerIp' = PeerIp
  BY <1>1 DEF IpsecAdds, InCharon, Peer, PeerIp
<1>3. faults \in Nat /\ PolicyType /\ ConnsType /\ AddOk
  BY <1>2 DEF IpsecInv
<1>4. /\ faults' \in Nat /\ faults <= faults' /\ (faults' = 0 => faults = 0)
      /\ faults' <= 1 => faults <= 1
      /\ faults' = 0 /\ charon = "up" => PeerIp \in shared'
  BY <1>1, <1>3, FaultUp
<1>5. AddOk'
  BY <1>1, <1>2, <1>3, <1>4 DEF AddOk, OutFirst, Stable, InCharon
<1>6. PolicyType' /\ ConnsType'
  BY <1>1, <1>3 DEF PolicyType, ConnsType
<1> QED
  BY <1>1, <1>2, <1>3, <1>4, <1>5, <1>6, PeerStep

\* charon has been dialled, or, dead, given up.
LEMMA GetClientInv ==
  ASSUME HandInv, IpsecInv, GetKeyClient \/ GetConnClient
  PROVE  IpsecInv'
<1>1. /\ UNCHANGED <<ev, told, policy, charon, shared, conns, faults>>
      /\ \/ step = "key" /\ step' = "loadKey"
         \/ step = "key" /\ step' = "conn" /\ charon # "up"
         \/ step = "conn" /\ step' = "loadConn"
         \/ step = "conn" /\ step' = "idle" /\ charon # "up"
  BY DEF GetKeyClient, GetConnClient, GetClient, IpsecAt, eventVars, ipsecVars
<1>2. /\ step \in IpsecAdds /\ step # "idle" /\ (step' # "idle" => step' \in IpsecAdds)
      /\ Peer' = Peer /\ PeerIp' = PeerIp /\ (Stable(Peer)' <=> Stable(Peer))
  BY <1>1 DEF IpsecAdds, InCharon, Peer, PeerIp, Stable
<1>3. faults \in Nat /\ faults <= faults /\ PolicyType /\ ConnsType /\ AddOk
  BY <1>2 DEF IpsecInv
<1>4. PolicyType' /\ ConnsType'
  BY <1>1, <1>3 DEF PolicyType, ConnsType
<1>5. CASE step' # "idle"
  <2>1. AddOk'
    BY <1>1, <1>2, <1>3, <1>5 DEF AddOk, OutFirst, InCharon
  <2> QED
    BY <1>1, <1>2, <1>3, <1>4, <1>5, <2>1, PeerStep
<1>6. CASE step' = "idle"
  <2>1. IpsecMine(Peer) /\ told[Peer].ip = PeerIp /\ (IpsecMine(Peer)' <=> IpsecMine(Peer))
    BY <1>1, <1>2, PeerLemma DEF IpsecMine
  <2>2. faults' = 0 => \A dir \in Directions : policy'[<<dir, Peer>>] = told'[Peer].ip
    BY <1>1, <1>3, <1>6, <2>1 DEF AddOk, Directions, InCharon
  <2>3. faults' <= 1 /\ Stable(Peer) => OutFirst(Peer)'
    BY <1>1, <1>2, <1>3, <1>6 DEF AddOk, OutFirst
  <2>4. charon' # "up"
    BY <1>1, <1>6
  <2>5. SubnetOk(Peer)'
    BY <1>2, <2>1, <2>2, <2>3, <2>4 DEF SubnetOk
  <2> QED
    BY <1>1, <1>2, <1>3, <1>4, <1>6, <2>5, PeerStep
<1> QED
  BY <1>5, <1>6

LEMMA LoadConnectionInv ==
  ASSUME HandInv, IpsecInv, LoadConnection
  PROVE  IpsecInv'
<1>1. /\ step = "loadConn" /\ step' = "idle" /\ UNCHANGED <<ev, told, policy, charon, shared>>
      /\ \/ conns' = conns \cup {<<Peer, PeerIp>>} /\ UNCHANGED faults
         \/ conns' = conns /\ Fault
         \/ conns' = conns /\ UNCHANGED faults /\ charon # "up"
  BY DEF LoadConnection, IpsecAt, eventVars
<1>2. step \in IpsecAdds /\ step # "idle"
  BY <1>1 DEF IpsecAdds, InCharon
<1>3. faults \in Nat /\ PolicyType /\ ConnsType /\ AddOk
  BY <1>2 DEF IpsecInv
<1>4. /\ faults' \in Nat /\ faults <= faults'
      /\ faults' = 0 => /\ faults = 0
                        /\ conns' = conns \cup {<<Peer, PeerIp>>} \/ (conns' = conns /\ charon # "up")
  BY <1>1, <1>3, FaultUp
<1>5. /\ Peer \in Subnets /\ Peer # OwnSubnet /\ ev.lease.attrs \in AttrsOf(Peer)
      /\ IpsecMine(Peer) /\ told[Peer].ip = PeerIp
  BY <1>2, PeerLemma
<1>6. PolicyType' /\ ConnsType'
  BY <1>1, <1>3, <1>5 DEF PolicyType, ConnsType, PeerIp
<1>7. SubnetOk(Peer)'
  <2>1. Peer' = Peer /\ (IpsecMine(Peer)' <=> IpsecMine(Peer)) /\ (Stable(Peer)' <=> Stable(Peer))
    BY <1>1 DEF Peer, IpsecMine, Stable
  <2>2. faults' = 0 => /\ \A dir \in Directions : policy'[<<dir, Peer>>] = told'[Peer].ip
                       /\ charon' = "up" => /\ told'[Peer].ip \in shared'
                                            /\ <<Peer, told'[Peer].ip>> \in conns'
    BY <1>1, <1>3, <1>4, <1>5 DEF AddOk, Directions, InCharon
  <2>3. faults' <= 1 /\ Stable(Peer) => OutFirst(Peer)'
    BY <1>1, <1>3, <1>4, <2>1 DEF AddOk, OutFirst
  <2> QED
    BY <1>5, <2>1, <2>2, <2>3 DEF SubnetOk
<1>8. \A c : c[1] # Peer /\ faults' = 0 => (c \in conns <=> c \in conns')
  <2>1. <<Peer, PeerIp>>[1] = Peer
    OBVIOUS
  <2> QED
    BY <1>4, <2>1
<1> QED
  BY <1>1, <1>2, <1>3, <1>4, <1>6, <1>7, <1>8, PeerStep

LEMMA UnloadInv ==
  ASSUME HandInv, IpsecInv, UnloadConnection
  PROVE  IpsecInv'
<1>1. /\ step = "unload" /\ step' = "delOut" /\ UNCHANGED <<ev, told, policy, charon, shared>>
      /\ \/ conns' = conns \ {<<Peer, PeerIp>>} /\ UNCHANGED faults
         \/ conns' = conns /\ Fault
  BY DEF UnloadConnection, IpsecAt, eventVars
<1>2. step \in IpsecDels /\ step' \in IpsecDels /\ step # "idle" /\ Peer' = Peer
  BY <1>1 DEF IpsecDels, Peer
<1>3. faults \in Nat /\ PolicyType /\ ConnsType /\ DelOk
  BY <1>2 DEF IpsecInv
<1>4. /\ faults' \in Nat /\ faults <= faults'
      /\ faults' = 0 => faults = 0 /\ conns' = conns \ {<<Peer, PeerIp>>}
  BY <1>1, <1>3, FaultUp
<1>5. Stable(Peer) => \A a \in AttrsOf(Peer) : a.ip = PeerIp
  BY <1>2, PeerLemma
<1>6. PolicyType' /\ ConnsType'
  BY <1>1, <1>3 DEF PolicyType, ConnsType
<1>7. ASSUME faults' = 0, Stable(Peer), NEW c \in conns' PROVE c[1] # Peer
  <2>1. PICK d \in Subnets : \E a \in AttrsOf(d) : c = <<d, a.ip>>
    BY <1>4, <1>7, <1>3 DEF ConnsType
  <2> QED
    BY <1>4, <1>5, <1>7, <2>1
<1>8. DelOk'
  BY <1>1, <1>2, <1>3, <1>4, <1>7 DEF DelOk, Stable
<1>9. \A c : c[1] # Peer /\ faults' = 0 => (c \in conns <=> c \in conns')
  <2>1. <<Peer, PeerIp>>[1] = Peer
    OBVIOUS
  <2> QED
    BY <1>4, <2>1
<1> QED
  BY <1>1, <1>2, <1>3, <1>4, <1>6, <1>8, <1>9, PeerStep

LEMMA DelPolicyInv ==
  ASSUME HandInv, IpsecInv, NEW dir, NEW next, IpsecAt(step), DelPolicy(dir, next),
         \/ step = "delOut" /\ dir = "out" /\ next = "delIn"
         \/ step = "delIn" /\ dir = "in" /\ next = "delFwd"
         \/ step = "delFwd" /\ dir = "fwd" /\ next = "idle"
  PROVE  IpsecInv'
<1>1. /\ DelPolicy(dir, next) /\ step \in IpsecDels /\ UNCHANGED <<ev, told>>
      /\ dir \in Directions
      /\ \/ step = "delOut" /\ dir = "out" /\ next = "delIn"
         \/ step = "delIn" /\ dir = "in" /\ next = "delFwd"
         \/ step = "delFwd" /\ dir = "fwd" /\ next = "idle"
  BY DEF IpsecAt, eventVars, Directions, IpsecDels
<1>2. /\ Peer \in Subnets /\ ~IpsecMine(Peer) /\ Peer' = Peer /\ (Stable(Peer)' <=> Stable(Peer))
      /\ (IpsecMine(Peer)' <=> IpsecMine(Peer))
      /\ faults \in Nat /\ PolicyType /\ DelOk /\ step # "idle" /\ step # "unload"
  BY <1>1, PeerLemma DEF IpsecInv, IpsecDels, Peer, IpsecMine, Stable
<1>3. ConnsType' /\ charon' = charon /\ shared' = shared /\ conns' = conns
  BY <1>1 DEF DelPolicy, IpsecInv, ConnsType
<1>4. CASE /\ policy' = [policy EXCEPT ![<<dir, Peer>>] = None] /\ faults' = faults
           /\ step' = IF policy[<<dir, Peer>>] = None THEN "idle" ELSE next
  <2>1. /\ PolicyType' /\ policy'[<<dir, Peer>>] = None
        /\ \A e \in Subnets, o \in Directions :
             e # Peer \/ o # dir => policy'[<<o, e>>] = policy[<<o, e>>]
    BY <1>1, <1>2, <1>4, PolicyWritten
  <2>2. CASE step' # "idle"
    <3>1. step' = next /\ step' \in IpsecDels
      BY <1>1, <1>4, <2>2 DEF IpsecDels
    <3>2. DelOk'
      BY <1>1, <1>2, <1>3, <1>4, <2>1, <2>2, <3>1 DEF DelOk, Directions
    <3> QED
      BY <1>1, <1>2, <1>3, <1>4, <2>1, <3>1, <3>2, PeerStep
  <2>3. CASE step' = "idle"
    <3>1. faults' = 0 /\ Stable(Peer) => /\ policy'[<<"out", Peer>>] = None
                                         /\ policy'[<<"in", Peer>>] = None
                                         /\ policy'[<<"fwd", Peer>>] = None
                                         /\ \A c \in conns' : c[1] # Peer
      BY <1>1, <1>2, <1>3, <1>4, <2>1, <2>3 DEF DelOk, Directions
    <3>2. SubnetOk(Peer)'
      BY <1>2, <3>1 DEF SubnetOk, Directions
    <3> QED
      BY <1>1, <1>2, <1>3, <1>4, <2>1, <2>3, <3>2, PeerStep
  <2> QED
    BY <2>2, <2>3
<1>5. CASE policy' = policy /\ step' = "idle" /\ Fault
  <2>1. faults' \in Nat /\ faults <= faults' /\ faults' # 0
    BY <1>2, <1>5, FaultUp
  <2>2. SubnetOk(Peer)' /\ PolicyType'
    BY <1>2, <1>5, <2>1 DEF SubnetOk, PolicyType
  <2> QED
    BY <1>1, <1>2, <1>3, <1>5, <2>1, <2>2, PeerStep
<1> QED
  BY <1>1, <1>4, <1>5 DEF DelPolicy

\* A lease of another backend, or a removal of the own lease.
LEMMA IpsecSkipInv ==
  ASSUME HandInv, IpsecInv, IpsecSkip
  PROVE  IpsecInv'
<1> DEFINE k == Key(ev'.lease)
<1>1. /\ Take /\ UNCHANGED <<step, faults, policy, charon, shared, conns>>
      /\ ev'.lease.attrs.kind = "foreign" \/ k = OwnSubnet
  BY DEF IpsecSkip, ipsecVars
<1>2. /\ step = "idle" /\ mode \in Modes /\ ev'.lease \in LeasesOf(mode) /\ k \in Subnets
      /\ ev'.type = "Added" => k # OwnSubnet
      /\ told'[k] = Value(ev')
      /\ \A s \in Subnets : s # k => told'[s] = told[s]
  BY <1>1, TakeEvent
<1>3. ev'.lease.attrs \in AttrsOf(k)
  BY <1>2, AttrsLemma
<1> HIDE DEF k
<1>4. told'[k] = None \/ told'[k].kind = "foreign"
  BY <1>1, <1>2 DEF Value
<1>5. ASSUME NEW d \in Subnets PROVE SubnetOk(d)'
  <2>1. SubnetOk(d) /\ faults \in Nat
    BY <1>2 DEF IpsecInv
  <2>2. CASE d # k
    <3>1. faults' \in Nat /\ faults <= faults' /\ told'[d] = told[d]
      BY <1>1, <1>2, <2>1, <2>2
    <3> QED
      BY <1>1, <2>1, <3>1, OtherSubnet
  <2>3. CASE d = k
    <3>1. Stable(d) => ~IpsecMine(d)
      <4>1. CASE k = OwnSubnet
        BY <2>3, <4>1 DEF HandInv, IpsecMine
      <4>2. CASE ev'.lease.attrs.kind = "foreign"
        BY <1>3, <2>3, <4>2 DEF HandInv, IpsecMine, Stable
      <4> QED
        BY <1>1, <4>1, <4>2
    <3>2. ~IpsecMine(d)'
      BY <1>4, <2>3 DEF IpsecMine
    <3>3. faults' = 0 /\ Stable(d) => /\ \A dir \in Directions : policy'[<<dir, d>>] = None
                                     /\ \A c \in conns' : c[1] # d
      BY <1>1, <2>1, <3>1 DEF SubnetOk
    <3> QED
      BY <3>2, <3>3 DEF SubnetOk, Stable
  <2> QED
    BY <2>2, <2>3
<1>6. PolicyType' /\ ConnsType'
  BY <1>1 DEF IpsecInv, PolicyType, ConnsType
<1> QED
  BY <1>1, <1>2, <1>5, <1>6 DEF IpsecInv, IpsecAdds, InCharon, IpsecDels

LEMMA IpsecBeginInv ==
  ASSUME HandInv, IpsecInv, IpsecBegin
  PROVE  IpsecInv'
<1>1. /\ Take /\ UNCHANGED <<faults, policy, charon, shared, conns>>
      /\ ev'.lease.attrs.kind # "foreign" /\ Peer' # OwnSubnet
      /\ step' = IF ev'.type = "Added" THEN "polOut" ELSE "unload"
  BY DEF IpsecBegin, ipsecVars, Peer
<1>2. /\ step = "idle" /\ Peer' \in Subnets
      /\ \A s \in Subnets : s # Peer' => told'[s] = told[s]
  BY <1>1, TakeEvent DEF Peer
<1>3. /\ faults \in Nat /\ \A d \in Subnets : SubnetOk(d)
  BY <1>2 DEF IpsecInv
<1>4. ASSUME NEW d \in Subnets, d # Peer' PROVE SubnetOk(d)'
  <2>1. faults' \in Nat /\ faults <= faults' /\ told'[d] = told[d] /\ SubnetOk(d)
    BY <1>1, <1>2, <1>3, <1>4
  <2> QED
    BY <1>1, <1>3, <2>1, OtherSubnet
<1> DEFINE k == Peer'
<1>5. SubnetOk(k)
  BY <1>2, <1>3
<1>6. told[k] \in AttrsOf(k) \cup {None} /\ (told[k] # None => told[k].ip # None)
  BY <1>2, AttrsAssumption, NoneAssumption DEF HandInv
<1> HIDE DEF k
<1>7. faults = 0 /\ Stable(k) => /\ policy[<<"out", k>>] = policy[<<"in", k>>]
                                 /\ policy[<<"in", k>>] = policy[<<"fwd", k>>]
  BY <1>5 DEF SubnetOk, Directions
<1>8. faults = 0 /\ Stable(k) => OutFirst(k)
  BY <1>7 DEF OutFirst
<1>9. step' = "polOut" => AddOk'
  BY <1>1, <1>3, <1>8 DEF AddOk, OutFirst, k, Stable, InCharon
<1>10. step' = "unload" => DelOk'
  BY <1>1, <1>7 DEF DelOk, k, Stable
<1>11. PolicyType' /\ ConnsType'
  BY <1>1 DEF IpsecInv, PolicyType, ConnsType
<1> QED
  BY <1>1, <1>4, <1>9, <1>10, <1>11 DEF IpsecInv, IpsecAdds, InCharon, IpsecDels

\* charon dies, or is stopped; what was in it is gone.
LEMMA CharonEndsInv ==
  ASSUME HandInv, IpsecInv, CharonDies \/ StopCharon
  PROVE  IpsecInv'
<1>1. /\ UNCHANGED <<ev, told, step, policy>> /\ (Fault \/ UNCHANGED faults)
      /\ conns' = {} /\ charon' = "dead"
      /\ Peer' = Peer /\ PeerIp' = PeerIp
  BY DEF CharonDies, StopCharon, CharonEnds, eventVars, Peer, PeerIp
<1>2. /\ faults \in Nat /\ faults' \in Nat /\ faults <= faults' /\ (faults' = 0 => faults = 0)
      /\ faults' <= 1 => faults <= 1
  BY <1>1 DEF IpsecInv, Fault
<1>3. ASSUME NEW d \in Subnets, SubnetOk(d) PROVE SubnetOk(d)'
  BY <1>1, <1>2, <1>3, OtherSubnet
<1>4. AddOk => AddOk'
  BY <1>1, <1>2 DEF AddOk, OutFirst, Stable
<1>5. DelOk => DelOk'
  BY <1>1, <1>2 DEF DelOk, Stable
<1>6. PolicyType' /\ ConnsType'
  BY <1>1 DEF IpsecInv, PolicyType, ConnsType
<1> QED
  BY <1>1, <1>2, <1>3, <1>4, <1>5, <1>6 DEF IpsecInv

\* What no other step can disturb.
LEMMA IpsecUnchanged ==
  ASSUME IpsecInv, UNCHANGED <<ev, told, step, faults, ipsecVars>>
  PROVE  IpsecInv'
BY DEF IpsecInv, ipsecVars, PolicyType, ConnsType, AddOk, DelOk, SubnetOk, OutFirst, IpsecMine,
       Peer, PeerIp, Stable

LEMMA IpsecStep ==
  HandInv /\ (backend = "ipsec" => IpsecInv) /\ [Next]_vars => (backend = "ipsec" => IpsecInv)'
<1> SUFFICES ASSUME HandInv, backend = "ipsec" => IpsecInv, [Next]_vars, backend' = "ipsec"
             PROVE  IpsecInv'
  OBVIOUS
<1>1. backend = "ipsec"
  <2>1. CASE Update \/ Reset
    BY <2>1 DEF Update, Reset, Send
  <2>2. CASE Handler \/ Helper \/ Environment \/ Cancel
    BY <2>2, BackendSteps DEF Take, watcherVars, WatchedVars
  <2> QED
    BY <2>1, <2>2 DEF Next, vars, watcherVars
<1>2. IpsecInv
  BY <1>1
<1>3. CASE (Update \/ Reset \/ Cancel) /\ UNCHANGED backendVars
  BY <1>2, <1>3, IpsecUnchanged DEF Update, Reset, Send, Cancel, eventVars, backendVars
<1>4. CASE IpsecHandler
  <2>1. CASE AddOut \/ AddIn \/ AddFwd
    BY <1>2, <2>1, AddPolicyInv DEF AddOut, AddIn, AddFwd, IpsecAt
  <2>2. CASE DelOut \/ DelIn \/ DelFwd
    BY <1>2, <2>2, DelPolicyInv DEF DelOut, DelIn, DelFwd, IpsecAt
  <2> QED
    BY <1>2, <1>4, <2>1, <2>2, GetClientInv, LoadSharedKeyInv, LoadConnectionInv, UnloadInv,
       IpsecSkipInv, IpsecBeginInv DEF IpsecHandler
<1>5. CASE CharonDies \/ StopCharon
  BY <1>2, <1>5, CharonEndsInv
<1>6. CASE UNCHANGED vars
  BY <1>2, <1>6, IpsecUnchanged DEF vars, eventVars, backendVars
<1> QED
  BY <1>1, <1>3, <1>4, <1>5, <1>6 DEF Next, Handler, Helper, Environment

\* The kernel's policies and charon's connections follow the leases, for
\* any set of nodes, any number of watch results, events and failures and
\* whatever backends the peers run: with no failure exactly the peers are
\* protected between events, in charon until the token ends it, in the
\* kernel also then; with one, which may be the death of charon, a peer that
\* keeps its address still never takes in what it does not protect on the
\* way out.
THEOREM IpsecIsFollowing == Spec => []IpsecFollows
<1>1. Init => (backend = "ipsec" => IpsecInv)
  <2> SUFFICES ASSUME Init PROVE IpsecInv
    OBVIOUS
  <2>1. /\ told = [s \in Subnets |-> None] /\ step = "idle" /\ faults = 0
        /\ policy = [p \in Directions \X Subnets |-> None] /\ conns = {}
    BY DEF Init, WatcherInit, IpsecInit
  <2>2. \A d \in Subnets, dir \in Directions : policy[<<dir, d>>] = None
    BY <2>1
  <2>3. \A d \in Subnets : SubnetOk(d)
    BY <2>1, <2>2 DEF SubnetOk, IpsecMine, OutFirst
  <2>4. PolicyType
    BY <2>1 DEF PolicyType
  <2> QED
    BY <2>1, <2>3, <2>4 DEF IpsecInv, ConnsType, IpsecAdds, InCharon, IpsecDels
<1>2. (backend = "ipsec" => IpsecInv) => IpsecFollows
  BY DEF IpsecInv, IpsecFollows, IpsecOutFirst, IpsecProtected, IpsecForgets, SubnetOk, OutFirst
<1> QED
  BY <1>1, <1>2, HandInit, HandStep, IpsecStep, PTL DEF Spec

-----------------------------------------------------------------------------
(* wireguard *)

WgAdds == {"wgAdd4", "wgRoute4", "wgAdd6", "wgRoute6", "wgAdd", "wgNet4", "wgNet6"}
WgDels == {"wgDel4", "wgDel6"}

\* Devices that ever get a peer.
UsedDevice(dev) ==
  IF wgMode = "separate" THEN /\ dev = "dev" => mode \in {"v4", "dual"}
                              /\ dev = "v6dev" => mode # "v4"
                         ELSE dev = "dev"

\* A peer of a device is a node of this backend, and all its allowed IPs are
\* in the subnet of that node.
EntryOk(p) ==
  wgPeers[p] # None =>
    /\ wgPeers[p] \in WgEntries
    /\ UsedDevice(p[1])
    /\ \E d \in Subnets : \E a \in AttrsOf(d) :
         /\ a.id = p[2] /\ ~WgIgnored(Added(LeaseOf(mode, d, a)))
         /\ wgPeers[p].ips \subseteq Fams \X {d}

\* WgServed for one family of one subnet.
FamServed(d, f) ==
  \A k \in Ids :
    LET p == wgPeers[<<WgDevice(f), k>>]
    IN  /\ (p # None /\ <<f, d>> \in p.ips) <=> k = told[d].id
        /\ k = told[d].id => p.ep[2] = told[d].ip

AllServed(d) == \A f \in Fams : mode \in {f, "dual"} => FamServed(d, f)

KeyGone(d, dev) == \A a \in AttrsOf(d) : wgPeers[<<dev, a.id>>] = None

\* What the handler leaves for a subnet.
WgOk(d) ==
  faults = 0 =>
    /\ WgMine(d) => AllServed(d)
    /\ told[d] = None /\ Stable(d) => \A dev \in Devices : KeyGone(d, dev)

\* How far the event in hand has come.
WgPeer == Key(ev.lease)
WgAddOk ==
  /\ step \in {"wgAdd4", "wgRoute4"} => wgMode = "separate" /\ mode \in {"v4", "dual"}
  /\ step \in {"wgAdd6", "wgRoute6"} => wgMode = "separate" /\ mode # "v4"
  /\ step \in {"wgAdd", "wgNet4", "wgNet6"} => wgMode # "separate"
  /\ faults = 0 => /\ step = "wgRoute4" => FamServed(WgPeer, "v4")
                   /\ step = "wgAdd6" /\ mode = "dual" => FamServed(WgPeer, "v4")
                   /\ step \in {"wgRoute6", "wgNet4", "wgNet6"} => AllServed(WgPeer)
WgDelOk ==
  /\ step = "wgDel4" => mode \in {"v4", "dual"}
  /\ step = "wgDel6" => mode # "v4"
  /\ faults = 0 /\ Stable(WgPeer) /\ step = "wgDel6" /\ mode = "dual" => KeyGone(WgPeer, "dev")

WgInv ==
  /\ faults \in Nat
  /\ wgPeers = [p \in Devices \X Ids |-> wgPeers[p]]
  /\ \A p \in Devices \X Ids : EntryOk(p)
  /\ step \in WgAdds \cup WgDels \cup {"idle"}
  /\ step # "idle" => ~WgIgnored(ev)
  /\ step \in WgAdds => ev.type = "Added" /\ WgAddOk
  /\ step \in WgDels => ev.type = "Removed" /\ WgDelOk
  /\ \A d \in Subnets : step = "idle" \/ d # WgPeer => WgOk(d)

LEMMA LeaseFams ==
  ASSUME NEW m, NEW s, NEW a, NEW l, l = LeaseOf(m, s, a)
  PROVE  (l.v4 <=> m \in {"v4", "dual"}) /\ (l.v6 <=> m \in {"v6", "dual"})
<1>1. l.v4 = (m \in {"v4", "dual"})
  BY DEF LeaseOf
<1>2. l.v6 = (m \in {"v6", "dual"})
  BY DEF LeaseOf
<1> QED
  BY <1>1, <1>2

\* The node in hand.
LEMMA WgHand ==
  ASSUME HandInv, WgInv, step # "idle"
  PROVE  /\ WgPeer \in Subnets /\ mode \in Modes
         /\ Attrs \in AttrsOf(WgPeer) /\ Attrs.id \in Ids /\ Attrs.ip \in Ips
         /\ ev.lease.v4 <=> mode \in {"v4", "dual"}
         /\ ev.lease.v6 <=> mode \in {"v6", "dual"}
         /\ \A a \in AttrsOf(WgPeer) : Stable(WgPeer) => a = Attrs
         /\ step \in WgAdds => /\ told[WgPeer] = Attrs /\ WgMine(WgPeer)
                               /\ ~WgIgnored(Added(LeaseOf(mode, WgPeer, Attrs)))
         /\ step \in WgDels => told[WgPeer] = None
<1>1. ev.lease \in LeasesOf(mode) /\ mode \in Modes /\ told[WgPeer] = Value(ev) /\ ev \in EventsOf(mode)
  BY EventLemma DEF HandInv, KnowInv, WgPeer
<1>2. /\ WgPeer \in Subnets /\ Attrs \in AttrsOf(WgPeer) /\ Attrs.ip \in Ips /\ Attrs.id \in Ids
      /\ Attrs # None /\ ev.lease = LeaseOf(mode, WgPeer, Attrs)
  BY <1>1, AttrsLemma, LeaseLemma DEF WgPeer, Attrs
<1>3. (ev.lease.v4 <=> mode \in {"v4", "dual"}) /\ (ev.lease.v6 <=> mode \in {"v6", "dual"})
  BY <1>2, LeaseFams
<1>4. \A a \in AttrsOf(WgPeer) : Stable(WgPeer) => a = Attrs
  BY <1>2 DEF Stable
<1>5. ASSUME step \in WgAdds
      PROVE  /\ told[WgPeer] = Attrs /\ WgMine(WgPeer)
             /\ ~WgIgnored(Added(LeaseOf(mode, WgPeer, Attrs)))
  <2>1. ev.type = "Added" /\ ~WgIgnored(ev)
    BY <1>5 DEF WgInv
  <2>2. ev = Added(LeaseOf(mode, WgPeer, Attrs)) /\ told[WgPeer] = Attrs
    BY <1>1, <1>2, <2>1, EventLemma DEF Value, Attrs
  <2>3. ~WgIgnored(Added(LeaseOf(mode, WgPeer, Attrs)))
    BY <2>1, <2>2
  <2> QED
    BY <1>2, <2>2, <2>3 DEF WgMine
<1>6. step \in WgDels => told[WgPeer] = None
  BY <1>1 DEF WgInv, Value
<1> QED
  BY <1>1, <1>2, <1>3, <1>4, <1>5, <1>6

\* What a request for one node's key may do, seen from subnet d of another.
OtherKept(d) ==
  \A q \in Devices \X Ids :
    \/ wgPeers'[q] = wgPeers[q]
    \/ /\ wgPeers[q] # None /\ wgPeers'[q] # None /\ wgPeers'[q].ep = wgPeers[q].ep
       /\ \A f \in Fams : <<f, d>> \in wgPeers'[q].ips <=> <<f, d>> \in wgPeers[q].ips
    \/ /\ \A a \in AttrsOf(d) : a.id # q[2]
       /\ wgPeers[q] # None => \A f \in Fams : <<f, d>> \notin wgPeers[q].ips
       /\ wgPeers'[q] # None => \A f \in Fams : <<f, d>> \notin wgPeers'[q].ips

LEMMA OtherServed ==
  ASSUME NEW d \in Subnets, NEW f \in Fams, OtherKept(d), told'[d] = told[d], wgMode' = wgMode,
         told[d] \in AttrsOf(d), FamServed(d, f)
  PROVE  FamServed(d, f)'
<1> SUFFICES ASSUME NEW k \in Ids
             PROVE  LET p == wgPeers'[<<WgDevice(f), k>>]
                    IN  /\ (p # None /\ <<f, d>> \in p.ips) <=> k = told[d].id
                        /\ k = told[d].id => p.ep[2] = told[d].ip
  BY DEF FamServed, WgDevice
<1> DEFINE q == <<WgDevice(f), k>>
<1>1. q \in Devices \X Ids /\ q[2] = k
  BY DEF Devices, WgDevice
<1>2. /\ (wgPeers[q] # None /\ <<f, d>> \in wgPeers[q].ips) <=> k = told[d].id
      /\ k = told[d].id => wgPeers[q].ep[2] = told[d].ip
  BY DEF FamServed
<1> HIDE DEF q
<1>3. CASE wgPeers'[q] = wgPeers[q]
  BY <1>2, <1>3 DEF q
<1>4. CASE /\ wgPeers[q] # None /\ wgPeers'[q] # None /\ wgPeers'[q].ep = wgPeers[q].ep
           /\ \A g \in Fams : <<g, d>> \in wgPeers'[q].ips <=> <<g, d>> \in wgPeers[q].ips
  BY <1>2, <1>4 DEF q
<1>5. CASE /\ \A a \in AttrsOf(d) : a.id # q[2]
           /\ wgPeers'[q] # None => \A g \in Fams : <<g, d>> \notin wgPeers'[q].ips
  BY <1>1, <1>5 DEF q
<1> QED
  BY <1>1, <1>3, <1>4, <1>5 DEF OtherKept

LEMMA OtherNode ==
  ASSUME NEW d \in Subnets, WgOk(d), OtherKept(d), told'[d] = told[d],
         told[d] \in AttrsOf(d) \cup {None}, UNCHANGED <<mode, wgMode>>,
         faults' = 0 => faults = 0
  PROVE  WgOk(d)'
<1> SUFFICES ASSUME faults' = 0
             PROVE  /\ WgMine(d)' => AllServed(d)'
                    /\ told'[d] = None /\ Stable(d) => \A dev \in Devices : KeyGone(d, dev)'
  BY DEF WgOk, Stable
<1>1. ASSUME WgMine(d)' PROVE AllServed(d)'
  <2>1. WgMine(d) /\ told[d] \in AttrsOf(d)
    BY <1>1 DEF WgMine, WgIgnored, LeaseOf
  <2>2. \A f \in Fams : mode \in {f, "dual"} => FamServed(d, f)
    BY <2>1 DEF WgOk, AllServed
  <2>3. \A f \in Fams : mode' \in {f, "dual"} => FamServed(d, f)'
    BY <2>1, <2>2, OtherServed
  <2> QED
    BY <2>3 DEF AllServed
<1>2. ASSUME told[d] = None, Stable(d), NEW dev \in Devices PROVE KeyGone(d, dev)'
  <2>1. \A a \in AttrsOf(d) : wgPeers[<<dev, a.id>>] = None
    BY <1>2 DEF WgOk, KeyGone
  <2>2. ASSUME NEW a \in AttrsOf(d) PROVE wgPeers'[<<dev, a.id>>] = None
    <3>1. a.id \in Ids
      BY AttrsAssumption
    <3>2. <<dev, a.id>> \in Devices \X Ids /\ <<dev, a.id>>[2] = a.id
      BY <3>1
    <3> QED
      BY <2>1, <3>2 DEF OtherKept
  <2> QED
    BY <2>2 DEF KeyGone
<1> QED
  BY <1>1, <1>2

\* A key has one owner.
LEMMA EntryOwner ==
  ASSUME NEW q, EntryOk(q), wgPeers[q] # None, NEW d \in Subnets, NEW a \in AttrsOf(d), a.id = q[2]
  PROVE  /\ wgPeers[q].ips \subseteq Fams \X {d}
         /\ \E b \in AttrsOf(d) : b.id = q[2] /\ ~WgIgnored(Added(LeaseOf(mode, d, b)))
<1>1. PICK e \in Subnets : \E b \in AttrsOf(e) :
        /\ b.id = q[2] /\ ~WgIgnored(Added(LeaseOf(mode, e, b)))
        /\ wgPeers[q].ips \subseteq Fams \X {e}
  BY DEF EntryOk
<1>2. e = d
  BY <1>1, IdsAssumption
<1> QED
  BY <1>1, <1>2

LEMMA EntryLemma ==
  ASSUME NEW q, EntryOk(q), wgPeers[q] # None
  PROVE  /\ wgPeers[q] = [ep |-> wgPeers[q].ep, ips |-> wgPeers[q].ips]
         /\ wgPeers[q].ep \in Fams \X Ips \X {"ListenPort", "ListenPortV6", "0"}
         /\ wgPeers[q].ips \subseteq Fams \X Subnets
<1>1. wgPeers[q] \in WgEntries
  BY DEF EntryOk
<1> QED
  BY <1>1 DEF WgEntries

\* A peer with fewer allowed IPs.
Loses(q, ips) == wgPeers'[q] = [wgPeers[q] EXCEPT !.ips = @ \ ips]

LEMMA EntryLoses ==
  ASSUME NEW q, EntryOk(q), wgPeers[q] # None, UNCHANGED <<mode, wgMode>>, NEW ips,
         Loses(q, ips)
  PROVE  /\ EntryOk(q)'
         /\ wgPeers'[q] # None
         /\ wgPeers'[q].ep = wgPeers[q].ep
         /\ wgPeers'[q].ips = wgPeers[q].ips \ ips
<1>1. wgPeers[q] \in WgEntries
  BY DEF EntryOk
<1>2. /\ wgPeers'[q] \in WgEntries
      /\ wgPeers'[q].ep = wgPeers[q].ep
      /\ wgPeers'[q].ips = wgPeers[q].ips \ ips
  BY <1>1 DEF WgEntries, Loses
<1>3. wgPeers'[q] # None
  BY <1>2, WgNoneAssumption
<1>4. UsedDevice(q[1])'
  BY DEF EntryOk, UsedDevice
<1>5. PICK d \in Subnets : \E a \in AttrsOf(d) :
        /\ a.id = q[2] /\ ~WgIgnored(Added(LeaseOf(mode, d, a)))
        /\ wgPeers[q].ips \subseteq Fams \X {d}
  BY DEF EntryOk
<1>6. PICK a \in AttrsOf(d) :
        /\ a.id = q[2] /\ ~WgIgnored(Added(LeaseOf(mode, d, a)))
        /\ wgPeers[q].ips \subseteq Fams \X {d}
  BY <1>5
<1>7. wgPeers'[q].ips \subseteq Fams \X {d} /\ ~WgIgnored(Added(LeaseOf(mode, d, a)))'
  <2>1. wgPeers'[q].ips \subseteq Fams \X {d}
    BY <1>2, <1>6
  <2>2. ~WgIgnored(Added(LeaseOf(mode, d, a)))'
    BY <1>6 DEF WgIgnored, Added, LeaseOf
  <2> QED
    BY <2>1, <2>2
<1>8. WgEntries' = WgEntries
  BY DEF WgEntries
<1> QED
  BY <1>2, <1>3, <1>4, <1>6, <1>7, <1>8 DEF EntryOk

LEMMA AllowedLemma ==
  ASSUME NEW fs \in SUBSET Fams
  PROVE  /\ \A f, d : <<f, d>> \in Allowed(fs) <=> f \in fs /\ d = WgPeer
         /\ Allowed(fs) \subseteq Fams \X {WgPeer}
BY DEF Allowed, WgPeer

\* The kernel has added a peer.
LEMMA PeerAddedLemma ==
  ASSUME NEW dev \in Devices, NEW key \in Ids, NEW ep, NEW ips,
         wgPeers' = PeerAdded(wgPeers, dev, key, ep, ips)
  PROVE  /\ wgPeers' = [p \in Devices \X Ids |-> wgPeers'[p]]
         /\ wgPeers'[<<dev, key>>] = [ep |-> ep, ips |-> ips]
         /\ \A q \in Devices \X Ids :
              /\ (q[1] # dev \/ wgPeers[q] = None) /\ q # <<dev, key>> => wgPeers'[q] = wgPeers[q]
              /\ q # <<dev, key>> /\ q[1] = dev /\ wgPeers[q] # None => Loses(q, ips)
BY DEF PeerAdded, Loses

\* A step of the handler in the middle of an event.
LEMMA WgPeerStep ==
  ASSUME HandInv, WgInv, step # "idle", UNCHANGED <<ev, told, mode, wgMode>>,
         faults' \in Nat, faults' = 0 => faults = 0,
         wgPeers' = [p \in Devices \X Ids |-> wgPeers'[p]],
         \A p \in Devices \X Ids : EntryOk(p)',
         \A d \in Subnets : d # WgPeer => OtherKept(d),
         \/ step \in WgAdds /\ step' \in WgAdds /\ WgAddOk'
         \/ step \in WgDels /\ step' \in WgDels /\ WgDelOk'
         \/ step' = "idle" /\ WgOk(WgPeer)'
  PROVE  WgInv'
<1>1. WgPeer' = WgPeer /\ (WgIgnored(ev)' <=> WgIgnored(ev))
  BY DEF WgPeer, WgIgnored
<1>2. /\ step' \in WgAdds \cup WgDels \cup {"idle"}
      /\ step' # "idle" => ~WgIgnored(ev)'
      /\ step' \in WgAdds => ev'.type = "Added" /\ WgAddOk'
      /\ step' \in WgDels => ev'.type = "Removed" /\ WgDelOk'
  BY <1>1 DEF WgInv, WgAdds, WgDels
<1>3. ASSUME NEW d \in Subnets, step' = "idle" \/ d # WgPeer' PROVE WgOk(d)'
  <2>1. CASE d = WgPeer
    <3>1. step' = "idle" /\ WgOk(WgPeer)'
      BY <1>1, <1>3, <2>1 DEF WgAdds, WgDels
    <3> QED
      BY <1>1, <2>1, <3>1 DEF WgOk, WgMine, AllServed, FamServed, KeyGone, Stable, WgIgnored, LeaseOf
  <2>2. CASE d # WgPeer
    <3>1. WgOk(d) /\ OtherKept(d) /\ told[d] \in AttrsOf(d) \cup {None}
      BY <2>2 DEF WgInv, HandInv
    <3> QED
      BY <2>2, <3>1, OtherNode
  <2> QED
    BY <2>1, <2>2
<1> QED
  BY <1>2, <1>3 DEF WgInv

LEMMA WgFault ==
  ASSUME WgInv, Fault \/ UNCHANGED faults
  PROVE  faults' \in Nat /\ (faults' = 0 => faults = 0 /\ ~Fault)
BY DEF WgInv, Fault

\* A request that changed no peer.
LEMMA PeersKept ==
  ASSUME WgInv, UNCHANGED <<wgPeers, mode, wgMode>>
  PROVE  /\ wgPeers' = [p \in Devices \X Ids |-> wgPeers'[p]]
         /\ \A p \in Devices \X Ids : EntryOk(p)'
         /\ \A d \in Subnets : OtherKept(d)
<1>1. \A p \in Devices \X Ids : EntryOk(p)
  BY DEF WgInv
<1>2. ASSUME NEW p \in Devices \X Ids PROVE EntryOk(p)'
  BY <1>1 DEF EntryOk, UsedDevice, WgIgnored, LeaseOf, Added, WgEntries
<1> QED
  BY <1>2 DEF WgInv, OtherKept

\* The kernel takes a peer for the node of subnet k.
LEMMA AddPeerEntries ==
  ASSUME WgInv, UNCHANGED <<mode, wgMode>>,
         NEW dev \in Devices, UsedDevice(dev), NEW k \in Subnets, NEW a \in AttrsOf(k),
         ~WgIgnored(Added(LeaseOf(mode, k, a))),
         NEW ep \in Fams \X Ips \X {"ListenPort", "ListenPortV6", "0"},
         NEW ips \in SUBSET (Fams \X {k}),
         wgPeers' = PeerAdded(wgPeers, dev, a.id, ep, ips)
  PROVE  /\ wgPeers' = [p \in Devices \X Ids |-> wgPeers'[p]]
         /\ \A q \in Devices \X Ids : EntryOk(q)'
         /\ \A d \in Subnets : d # k => OtherKept(d)
<1>1. a.id \in Ids
  BY AttrsAssumption
<1>2. PICK r : r = <<dev, a.id>>
  OBVIOUS
<1>3. r \in Devices \X Ids /\ r[1] = dev /\ r[2] = a.id
  BY <1>1, <1>2
<1>4. /\ wgPeers' = [p \in Devices \X Ids |-> wgPeers'[p]]
      /\ wgPeers'[r] = [ep |-> ep, ips |-> ips]
      /\ \A q \in Devices \X Ids :
           /\ (q[1] # dev \/ wgPeers[q] = None) /\ q # r => wgPeers'[q] = wgPeers[q]
           /\ q # r /\ q[1] = dev /\ wgPeers[q] # None => Loses(q, ips)
  <2>1. PICK key \in Ids : key = a.id
    BY <1>1
  <2>2. wgPeers' = PeerAdded(wgPeers, dev, key, ep, ips) /\ r = <<dev, key>>
    BY <1>2, <2>1
  <2>3. wgPeers' = [p \in Devices \X Ids |-> wgPeers'[p]]
    BY <2>2, PeerAddedLemma
  <2>4. /\ wgPeers'[<<dev, key>>] = [ep |-> ep, ips |-> ips]
        /\ \A q \in Devices \X Ids :
             /\ (q[1] # dev \/ wgPeers[q] = None) /\ q # <<dev, key>> => wgPeers'[q] = wgPeers[q]
             /\ q # <<dev, key>> /\ q[1] = dev /\ wgPeers[q] # None => Loses(q, ips)
    BY <2>2, PeerAddedLemma
  <2> QED
    BY <2>2, <2>3, <2>4
<1>5. \A q \in Devices \X Ids : EntryOk(q)
  BY DEF WgInv
<1>6. wgPeers'[r].ips = ips /\ wgPeers'[r].ep = ep
  BY <1>4
<1>7. EntryOk(r)'
  <2>1. ips \in SUBSET (Fams \X Subnets)
    OBVIOUS
  <2>2. wgPeers'[r] \in WgEntries'
    BY <1>4, <2>1 DEF WgEntries
  <2>3. UsedDevice(dev)'
    BY DEF UsedDevice
  <2>4. ~WgIgnored(Added(LeaseOf(mode, k, a)))'
    BY DEF WgIgnored, Added, LeaseOf
  <2> QED
    BY <1>3, <1>6, <2>2, <2>3, <2>4 DEF EntryOk
<1>8. ASSUME NEW q \in Devices \X Ids, q # r
      PROVE  /\ EntryOk(q)'
             /\ \/ wgPeers'[q] = wgPeers[q]
                \/ /\ wgPeers[q] # None /\ wgPeers'[q] # None /\ wgPeers'[q].ep = wgPeers[q].ep
                   /\ wgPeers'[q].ips = wgPeers[q].ips \ ips
  <2>1. CASE q[1] # dev \/ wgPeers[q] = None
    <3>1. wgPeers'[q] = wgPeers[q]
      BY <1>4, <1>8, <2>1
    <3>2. EntryOk(q)
      BY <1>5
    <3> QED
      BY <3>1, <3>2 DEF EntryOk, UsedDevice, WgIgnored, LeaseOf, Added, WgEntries
  <2>2. CASE q[1] = dev /\ wgPeers[q] # None
    <3>1. Loses(q, ips) /\ EntryOk(q)
      BY <1>4, <1>5, <1>8, <2>2
    <3> QED
      BY <2>2, <3>1, EntryLoses
  <2> QED
    BY <2>1, <2>2
<1>9. ASSUME NEW d \in Subnets, d # k PROVE OtherKept(d)
  <2>1. \A b \in AttrsOf(d) : b.id # r[2]
    BY <1>3, <1>9, IdsAssumption
  <2>2. wgPeers[r] # None => \A g \in Fams : <<g, d>> \notin wgPeers[r].ips
    <3>1. wgPeers[r] # None => wgPeers[r].ips \subseteq Fams \X {k}
      BY <1>3, <1>5, EntryOwner
    <3> QED
      BY <1>9, <3>1
  <2>3. \A g \in Fams : <<g, d>> \notin ips
    BY <1>9
  <2> QED
    BY <1>6, <1>8, <2>1, <2>2, <2>3 DEF OtherKept
<1> QED
  BY <1>4, <1>7, <1>8, <1>9

\* The peer has the node's subnets of its families, and it alone.
LEMMA AddPeerServes ==
  ASSUME WgInv, UNCHANGED <<mode, wgMode, told>>,
         NEW dev \in Devices, NEW k \in Subnets, NEW a \in AttrsOf(k), told[k] = a,
         NEW ep \in Fams \X Ips \X {"ListenPort", "ListenPortV6", "0"}, ep[2] = a.ip, NEW ips \in SUBSET (Fams \X {k}),
         wgPeers' = PeerAdded(wgPeers, dev, a.id, ep, ips), NEW g \in Fams
  PROVE  /\ WgDevice(g) = dev /\ <<g, k>> \in ips => FamServed(k, g)'
         /\ WgDevice(g) # dev /\ FamServed(k, g) => FamServed(k, g)'
<1>1. PICK key \in Ids : key = a.id
  BY AttrsAssumption
<1>2. wgPeers' = PeerAdded(wgPeers, dev, key, ep, ips)
  BY <1>1
<1>3. /\ wgPeers'[<<dev, key>>] = [ep |-> ep, ips |-> ips]
      /\ \A q \in Devices \X Ids :
           /\ (q[1] # dev \/ wgPeers[q] = None) /\ q # <<dev, key>> => wgPeers'[q] = wgPeers[q]
           /\ q # <<dev, key>> /\ q[1] = dev /\ wgPeers[q] # None => Loses(q, ips)
  BY <1>2, PeerAddedLemma
<1>4. [ep |-> ep, ips |-> ips].ep = ep /\ [ep |-> ep, ips |-> ips].ips = ips
  OBVIOUS
<1>5. PICK gd \in Devices : gd = WgDevice(g) /\ gd = WgDevice(g)'
  BY DEF WgDevice, Devices
<1>6. ASSUME gd = dev, <<g, k>> \in ips PROVE FamServed(k, g)'
  <2>1. ASSUME NEW j \in Ids
        PROVE  /\ (wgPeers'[<<gd, j>>] # None /\ <<g, k>> \in wgPeers'[<<gd, j>>].ips) <=> j = told'[k].id
               /\ j = told'[k].id => wgPeers'[<<gd, j>>].ep[2] = told'[k].ip
    <3>1. CASE j = key
      <4>1. [ep |-> ep, ips |-> ips] # None
        <5>1. ips \in SUBSET (Fams \X Subnets)
          OBVIOUS
        <5>2. [ep |-> ep, ips |-> ips] \in WgEntries
          BY <5>1 DEF WgEntries
        <5> QED
          BY <5>2, WgNoneAssumption
      <4> QED
        BY <1>1, <1>3, <1>4, <1>6, <3>1, <4>1
    <3>2. CASE j # key
      <4>1. <<gd, j>> \in Devices \X Ids /\ <<gd, j>>[1] = dev /\ <<gd, j>> # <<dev, key>> /\ EntryOk(<<gd, j>>)
        BY <1>6, <3>2 DEF WgInv
      <4>2. wgPeers[<<gd, j>>] # None => <<g, k>> \notin wgPeers'[<<gd, j>>].ips
        BY <1>3, <1>6, <4>1, EntryLoses
      <4>3. wgPeers[<<gd, j>>] = None => wgPeers'[<<gd, j>>] = None
        BY <1>3, <4>1
      <4> QED
        BY <1>1, <3>2, <4>2, <4>3
    <3> QED
      BY <3>1, <3>2
  <2> QED
    BY <1>5, <2>1 DEF FamServed
<1>7. ASSUME gd # dev, FamServed(k, g) PROVE FamServed(k, g)'
  <2>1. \A j \in Ids : wgPeers'[<<gd, j>>] = wgPeers[<<gd, j>>]
    <3> TAKE j \in Ids
    <3>1. <<gd, j>> \in Devices \X Ids /\ <<gd, j>>[1] # dev /\ <<gd, j>> # <<dev, key>>
      BY <1>7
    <3> QED
      BY <1>3, <3>1
  <2> QED
    BY <1>5, <1>7, <2>1 DEF FamServed
<1> QED
  BY <1>5, <1>6, <1>7

\* The kernel drops the peer of the node of subnet k.
LEMMA RemovePeerEntries ==
  ASSUME WgInv, UNCHANGED <<mode, wgMode>>,
         NEW dev \in Devices, NEW k \in Subnets, NEW a \in AttrsOf(k),
         wgPeers' = [wgPeers EXCEPT ![<<dev, a.id>>] = None]
  PROVE  /\ wgPeers' = [p \in Devices \X Ids |-> wgPeers'[p]]
         /\ \A q \in Devices \X Ids : EntryOk(q)'
         /\ \A d \in Subnets : d # k => OtherKept(d)
         /\ Stable(k) => KeyGone(k, dev)'
         /\ \A o \in Devices : KeyGone(k, o) => KeyGone(k, o)'
<1>1. PICK key \in Ids : key = a.id
  BY AttrsAssumption
<1>2. PICK r \in Devices \X Ids : r = <<dev, key>>
  BY <1>1
<1>3. wgPeers = [p \in Devices \X Ids |-> wgPeers[p]] /\ \A q \in Devices \X Ids : EntryOk(q)
  BY DEF WgInv
<1>4. wgPeers' = [wgPeers EXCEPT ![r] = None]
  BY <1>1, <1>2
<1>5. /\ wgPeers' = [p \in Devices \X Ids |-> wgPeers'[p]]
      /\ wgPeers'[r] = None
      /\ \A q \in Devices \X Ids : q # r => wgPeers'[q] = wgPeers[q]
  BY <1>2, <1>3, <1>4
<1>6. ASSUME NEW q \in Devices \X Ids PROVE EntryOk(q)'
  <2>1. EntryOk(q) /\ (wgPeers'[q] = None \/ wgPeers'[q] = wgPeers[q])
    BY <1>3, <1>5
  <2> QED
    BY <2>1 DEF EntryOk, UsedDevice, WgIgnored, LeaseOf, Added, WgEntries
<1>7. ASSUME NEW d \in Subnets, d # k PROVE OtherKept(d)
  <2>1. r[2] = a.id /\ EntryOk(r)
    BY <1>1, <1>2, <1>3
  <2>2. \A b \in AttrsOf(d) : b.id # r[2]
    BY <1>7, <2>1, IdsAssumption
  <2>3. wgPeers[r] # None => wgPeers[r].ips \subseteq Fams \X {k}
    BY <2>1, EntryOwner
  <2>4. wgPeers[r] # None => \A g \in Fams : <<g, d>> \notin wgPeers[r].ips
    BY <1>7, <2>3
  <2> QED
    BY <1>5, <2>2, <2>4 DEF OtherKept
<1>8. ASSUME Stable(k) PROVE KeyGone(k, dev)'
  <2>1. \A b \in AttrsOf(k) : b = a
    BY <1>8 DEF Stable
  <2> QED
    BY <1>1, <1>2, <1>5, <2>1 DEF KeyGone
<1>9. ASSUME NEW o \in Devices, KeyGone(k, o) PROVE KeyGone(k, o)'
  <2>1. \A b \in AttrsOf(k) : <<o, b.id>> \in Devices \X Ids /\ wgPeers[<<o, b.id>>] = None
    BY <1>9, AttrsAssumption DEF KeyGone
  <2> QED
    BY <1>5, <2>1 DEF KeyGone
<1> QED
  BY <1>5, <1>6, <1>7, <1>8, <1>9

\* A key with no owner of this backend, or on a device not in use, has no peer.
LEMMA NoPeer ==
  ASSUME WgInv, NEW dev \in Devices, NEW k \in Subnets,
         \/ ~UsedDevice(dev)
         \/ \A a \in AttrsOf(k) : WgIgnored(Added(LeaseOf(mode, k, a)))
  PROVE  KeyGone(k, dev)
<1> SUFFICES ASSUME NEW a \in AttrsOf(k), wgPeers[<<dev, a.id>>] # None PROVE FALSE
  BY DEF KeyGone
<1>1. PICK q \in Devices \X Ids : q = <<dev, a.id>>
  BY AttrsAssumption
<1>2. EntryOk(q) /\ q[1] = dev /\ q[2] = a.id /\ wgPeers[q] # None
  BY <1>1 DEF WgInv
<1>3. UsedDevice(dev)
  BY <1>2 DEF EntryOk
<1>4. \E b \in AttrsOf(k) : ~WgIgnored(Added(LeaseOf(mode, k, b)))
  BY <1>2, EntryOwner
<1> QED
  BY <1>3, <1>4

\* add_peer of the node in hand.
LEMMA AddPeerStep ==
  ASSUME HandInv, WgInv, step \in WgAdds, UNCHANGED <<ev, told, mode, wgMode>>,
         NEW dev \in Devices, UsedDevice(dev), NEW f \in Fams, NEW fs \in SUBSET Fams,
         AddPeer(dev, Attrs.id, Endpoint(Attrs, f), Allowed(fs))
  PROVE  /\ faults' \in Nat /\ (faults' = 0 => faults = 0)
         /\ wgPeers' = [p \in Devices \X Ids |-> wgPeers'[p]]
         /\ \A q \in Devices \X Ids : EntryOk(q)'
         /\ \A d \in Subnets : d # WgPeer => OtherKept(d)
         /\ faults' = 0 => \A g \in Fams :
              /\ WgDevice(g) = dev /\ g \in fs => FamServed(WgPeer, g)'
              /\ WgDevice(g) # dev /\ FamServed(WgPeer, g) => FamServed(WgPeer, g)'
<1>1. step # "idle"
  BY DEF WgAdds
<1>2. PICK k, a : k = WgPeer /\ a = Attrs
  OBVIOUS
<1>3. PICK ep, ips : ep = Endpoint(Attrs, f) /\ ips = Allowed(fs)
  OBVIOUS
<1>4. k \in Subnets /\ a \in AttrsOf(k) /\ told[k] = a /\ ~WgIgnored(Added(LeaseOf(mode, k, a)))
      /\ a.ip \in Ips
  BY <1>1, <1>2, WgHand
<1>5. WgPeer' = k
  BY <1>2 DEF WgPeer
<1>6. /\ ep \in Fams \X Ips \X {"ListenPort", "ListenPortV6", "0"} /\ ep[2] = a.ip
  BY <1>2, <1>3, <1>4 DEF Endpoint, PortOf, ListenPort
<1>7. ips \in SUBSET (Fams \X {k}) /\ \A g \in fs : <<g, k>> \in ips
  BY <1>2, <1>3, AllowedLemma
<1>8. CASE wgPeers' = PeerAdded(wgPeers, dev, a.id, ep, ips) /\ faults' = faults
  <2>1. /\ wgPeers' = [p \in Devices \X Ids |-> wgPeers'[p]]
        /\ \A q \in Devices \X Ids : EntryOk(q)'
        /\ \A d \in Subnets : d # k => OtherKept(d)
    BY <1>4, <1>6, <1>7, <1>8, AddPeerEntries
  <2>2. ASSUME NEW g \in Fams
        PROVE  /\ WgDevice(g) = dev /\ <<g, k>> \in ips => FamServed(k, g)'
               /\ WgDevice(g) # dev /\ FamServed(k, g) => FamServed(k, g)'
    BY <1>4, <1>6, <1>7, <1>8, AddPeerServes
  <2>3. faults' \in Nat /\ (faults' = 0 => faults = 0)
    BY <1>8 DEF WgInv
  <2> QED
    BY <1>2, <1>5, <1>7, <2>1, <2>2, <2>3
<1>9. CASE UNCHANGED wgPeers /\ Fault
  <2>1. faults' \in Nat /\ faults' # 0
    BY <1>9, WgFault
  <2> QED
    BY <1>9, <2>1, PeersKept
<1> QED
  BY <1>2, <1>3, <1>8, <1>9 DEF AddPeer

LEMMA WgAdd4Inv ==
  ASSUME HandInv, WgInv, WgAdd4
  PROVE  WgInv'
<1>1. /\ step = "wgAdd4" /\ step' = "wgRoute4" /\ UNCHANGED <<ev, told, mode, wgMode>>
      /\ AddPeer("dev", Attrs.id, Endpoint(Attrs, "v4"), Allowed({"v4"}))
  BY DEF WgAdd4, WgAt, watcherVars, eventVars
<1>2. step \in WgAdds /\ step' \in WgAdds /\ step # "idle"
  BY <1>1 DEF WgAdds
<1>3. wgMode = "separate" /\ mode \in {"v4", "dual"}
  BY <1>1, <1>2 DEF WgInv, WgAddOk
<1>4. "dev" \in Devices /\ UsedDevice("dev") /\ "v4" \in Fams /\ {"v4"} \in SUBSET Fams
      /\ WgDevice("v4") = "dev"
  BY <1>3 DEF Devices, UsedDevice, Fams, WgDevice
<1>5. /\ faults' \in Nat /\ (faults' = 0 => faults = 0)
      /\ wgPeers' = [p \in Devices \X Ids |-> wgPeers'[p]]
      /\ \A q \in Devices \X Ids : EntryOk(q)'
      /\ \A d \in Subnets : d # WgPeer => OtherKept(d)
      /\ faults' = 0 => FamServed(WgPeer, "v4")'
  BY <1>1, <1>2, <1>4, AddPeerStep
<1>6. WgAddOk'
  BY <1>1, <1>3, <1>5 DEF WgAddOk
<1> QED
  BY <1>1, <1>2, <1>5, <1>6, WgPeerStep

LEMMA WgAdd6Inv ==
  ASSUME HandInv, WgInv, WgAdd6
  PROVE  WgInv'
<1>1. /\ step = "wgAdd6" /\ step' = "wgRoute6" /\ UNCHANGED <<ev, told, mode, wgMode>>
      /\ AddPeer("v6dev", Attrs.id, Endpoint(Attrs, "v6"), Allowed({"v6"}))
  BY DEF WgAdd6, WgAt, watcherVars, eventVars
<1>2. step \in WgAdds /\ step' \in WgAdds /\ step # "idle"
  BY <1>1 DEF WgAdds
<1>3. wgMode = "separate" /\ mode # "v4" /\ (faults = 0 /\ mode = "dual" => FamServed(WgPeer, "v4"))
  BY <1>1, <1>2 DEF WgInv, WgAddOk
<1>4. "v6dev" \in Devices /\ UsedDevice("v6dev") /\ "v6" \in Fams /\ {"v6"} \in SUBSET Fams
      /\ WgDevice("v6") = "v6dev" /\ WgDevice("v4") # "v6dev" /\ "v4" \in Fams
  BY <1>3 DEF Devices, UsedDevice, Fams, WgDevice
<1>5. /\ faults' \in Nat /\ (faults' = 0 => faults = 0)
      /\ wgPeers' = [p \in Devices \X Ids |-> wgPeers'[p]]
      /\ \A q \in Devices \X Ids : EntryOk(q)'
      /\ \A d \in Subnets : d # WgPeer => OtherKept(d)
      /\ faults' = 0 => \A g \in Fams :
           /\ WgDevice(g) = "v6dev" /\ g \in {"v6"} => FamServed(WgPeer, g)'
           /\ WgDevice(g) # "v6dev" /\ FamServed(WgPeer, g) => FamServed(WgPeer, g)'
  BY <1>1, <1>2, <1>4, AddPeerStep
<1>6. faults' = 0 => AllServed(WgPeer)'
  <2>1. ASSUME faults' = 0, NEW g \in Fams, mode \in {g, "dual"} PROVE FamServed(WgPeer, g)'
    <3>1. g = "v6" \/ (g = "v4" /\ mode = "dual")
      BY <1>3, <2>1 DEF Fams
    <3>2. CASE g = "v6"
      BY <1>4, <1>5, <2>1, <3>2
    <3>3. CASE g = "v4" /\ mode = "dual"
      BY <1>3, <1>4, <1>5, <2>1, <3>3
    <3> QED
      BY <3>1, <3>2, <3>3
  <2> QED
    BY <1>1, <2>1 DEF AllServed
<1>7. WgAddOk'
  BY <1>1, <1>3, <1>6 DEF WgAddOk
<1> QED
  BY <1>1, <1>2, <1>5, <1>7, WgPeerStep

LEMMA WgAddInv ==
  ASSUME HandInv, WgInv, WgAdd
  PROVE  WgInv'
<1>1. /\ step = "wgAdd" /\ step' = "wgNet4" /\ UNCHANGED <<ev, told, mode, wgMode>>
      /\ AddPeer("dev", Attrs.id, Endpoint(Attrs, EndpointFam(Attrs.ip)), Allowed(EnabledFams(ev.lease)))
  BY DEF WgAdd, WgAt, watcherVars, eventVars
<1>2. step \in WgAdds /\ step' \in WgAdds /\ step # "idle"
  BY <1>1 DEF WgAdds
<1>3. wgMode # "separate"
  BY <1>1, <1>2 DEF WgInv, WgAddOk
<1>4. "dev" \in Devices /\ UsedDevice("dev") /\ \A g : WgDevice(g) = "dev"
  BY <1>3 DEF Devices, UsedDevice, WgDevice
<1>5. PICK f \in Fams : f = EndpointFam(Attrs.ip)
  BY DEF EndpointFam, SelectMode, Fams
<1>6. PICK fs \in SUBSET Fams : fs = EnabledFams(ev.lease)
  BY DEF EnabledFams
<1>7. \A g \in Fams : mode \in {g, "dual"} => g \in fs
  <2>1. (ev.lease.v4 <=> mode \in {"v4", "dual"}) /\ (ev.lease.v6 <=> mode \in {"v6", "dual"})
    BY <1>2, WgHand
  <2> QED
    BY <1>6, <2>1 DEF EnabledFams, Fams
<1>8. /\ faults' \in Nat /\ (faults' = 0 => faults = 0)
      /\ wgPeers' = [p \in Devices \X Ids |-> wgPeers'[p]]
      /\ \A q \in Devices \X Ids : EntryOk(q)'
      /\ \A d \in Subnets : d # WgPeer => OtherKept(d)
      /\ faults' = 0 => \A g \in Fams : WgDevice(g) = "dev" /\ g \in fs => FamServed(WgPeer, g)'
  BY <1>1, <1>2, <1>4, <1>5, <1>6, AddPeerStep
<1>9. faults' = 0 => AllServed(WgPeer)'
  BY <1>1, <1>4, <1>7, <1>8 DEF AllServed
<1>10. WgAddOk'
  BY <1>1, <1>3, <1>9 DEF WgAddOk
<1> QED
  BY <1>1, <1>2, <1>8, <1>10, WgPeerStep

\* A request that is about routes leaves the node served as it was.
LEMMA RouteStep ==
  ASSUME HandInv, WgInv, step \in WgAdds, UNCHANGED <<ev, told, mode, wgMode, wgPeers>>,
         (\E f \in Fams : AddNetRoute(f)) \/ Fault
  PROVE  /\ faults' \in Nat /\ (faults' = 0 => faults = 0)
         /\ wgPeers' = [p \in Devices \X Ids |-> wgPeers'[p]]
         /\ \A q \in Devices \X Ids : EntryOk(q)'
         /\ \A d \in Subnets : OtherKept(d)
         /\ \A g : FamServed(WgPeer, g) => FamServed(WgPeer, g)'
         /\ AllServed(WgPeer) => WgOk(WgPeer)'
<1>1. faults' \in Nat /\ (faults' = 0 => faults = 0)
  BY WgFault DEF AddNetRoute
<1>2. WgPeer' = WgPeer
  BY DEF WgPeer
<1>3. \A g : FamServed(WgPeer, g) => FamServed(WgPeer, g)'
  BY <1>2 DEF FamServed, WgDevice
<1>4. told'[WgPeer'] # None
  <2>1. step # "idle"
    BY DEF WgAdds
  <2> QED
    BY <1>2, <2>1, WgHand, NoneAssumption
<1>5. AllServed(WgPeer) => AllServed(WgPeer)'
  BY <1>3 DEF AllServed
<1>6. AllServed(WgPeer) => WgOk(WgPeer)'
  BY <1>4, <1>5 DEF WgOk
<1> QED
  BY <1>1, <1>3, <1>6, PeersKept

LEMMA WgRoute4Inv ==
  ASSUME HandInv, WgInv, WgRoute4
  PROVE  WgInv'
<1>1. /\ step = "wgRoute4" /\ step' = (IF ev.lease.v6 THEN "wgAdd6" ELSE "idle")
      /\ UNCHANGED <<ev, told, mode, wgMode, wgPeers>> /\ \E f \in Fams : AddNetRoute(f)
  BY DEF WgRoute4, Fams, WgAt, watcherVars, eventVars
<1>2. step \in WgAdds /\ step # "idle"
  BY <1>1 DEF WgAdds
<1>3. /\ wgMode = "separate" /\ mode \in {"v4", "dual"} /\ (faults = 0 => FamServed(WgPeer, "v4"))
  BY <1>1, <1>2 DEF WgInv, WgAddOk
<1>4. /\ faults' \in Nat /\ (faults' = 0 => faults = 0)
      /\ wgPeers' = [p \in Devices \X Ids |-> wgPeers'[p]]
      /\ \A q \in Devices \X Ids : EntryOk(q)'
      /\ \A d \in Subnets : OtherKept(d)
      /\ FamServed(WgPeer, "v4") => FamServed(WgPeer, "v4")'
      /\ AllServed(WgPeer) => WgOk(WgPeer)'
  BY <1>1, <1>2, RouteStep
<1>5. CASE ev.lease.v6
  <2>1. mode = "dual"
    BY <1>2, <1>3, <1>5, WgHand
  <2>2. step' = "wgAdd6" /\ step' \in WgAdds
    BY <1>1, <1>5 DEF WgAdds
  <2>3. WgAddOk'
    BY <1>1, <1>3, <1>4, <2>1, <2>2 DEF WgAddOk
  <2> QED
    BY <1>1, <1>2, <1>4, <2>2, <2>3, WgPeerStep
<1>6. CASE ~ev.lease.v6
  <2>1. mode = "v4"
    BY <1>2, <1>3, <1>6, WgHand
  <2>2. step' = "idle"
    BY <1>1, <1>6
  <2>3. faults = 0 => AllServed(WgPeer)
    BY <1>3, <2>1 DEF AllServed, Fams
  <2>4. WgOk(WgPeer)'
    BY <1>4, <2>3 DEF WgOk
  <2> QED
    BY <1>1, <1>2, <1>4, <2>2, <2>4, WgPeerStep
<1> QED
  BY <1>5, <1>6

LEMMA WgLastRouteInv ==
  ASSUME HandInv, WgInv, WgRoute6 \/ WgAddNet4 \/ WgAddNet6
  PROVE  WgInv'
<1>1. /\ step \in {"wgRoute6", "wgNet4", "wgNet6"}
      /\ step' = "idle" \/ (step = "wgNet4" /\ step' = "wgNet6")
      /\ UNCHANGED <<ev, told, mode, wgMode, wgPeers>>
      /\ (\E f \in Fams : AddNetRoute(f)) \/ Fault
  BY DEF WgRoute6, WgAddNet4, WgAddNet6, Fams, WgAt, watcherVars, eventVars
<1>2. step \in WgAdds /\ step # "idle"
  BY <1>1 DEF WgAdds
<1>3. (faults = 0 => AllServed(WgPeer)) /\ (step = "wgNet4" => wgMode # "separate")
  BY <1>1, <1>2 DEF WgInv, WgAddOk
<1>4. /\ faults' \in Nat /\ (faults' = 0 => faults = 0)
      /\ wgPeers' = [p \in Devices \X Ids |-> wgPeers'[p]]
      /\ \A q \in Devices \X Ids : EntryOk(q)'
      /\ \A d \in Subnets : OtherKept(d)
      /\ \A g : FamServed(WgPeer, g) => FamServed(WgPeer, g)'
      /\ AllServed(WgPeer) => WgOk(WgPeer)'
  BY <1>1, <1>2, RouteStep
<1>5. CASE step' = "idle"
  <2>1. WgOk(WgPeer)'
    BY <1>3, <1>4 DEF WgOk
  <2> QED
    BY <1>1, <1>2, <1>4, <1>5, <2>1, WgPeerStep
<1>6. CASE step = "wgNet4" /\ step' = "wgNet6"
  <2>1. faults' = 0 => AllServed(WgPeer)'
    BY <1>1, <1>3, <1>4 DEF AllServed
  <2>2. WgAddOk'
    BY <1>1, <1>3, <1>6, <2>1 DEF WgAddOk
  <2>3. step' \in WgAdds
    BY <1>6 DEF WgAdds
  <2> QED
    BY <1>1, <1>2, <1>4, <2>2, <2>3, WgPeerStep
<1> QED
  BY <1>1, <1>5, <1>6

\* remove_peer of the node in hand.
LEMMA RemovePeerStep ==
  ASSUME HandInv, WgInv, step \in WgDels, UNCHANGED <<ev, told, mode, wgMode>>,
         NEW dev \in Devices, RemovePeer(dev, Attrs.id)
  PROVE  /\ faults' \in Nat /\ (faults' = 0 => faults = 0)
         /\ wgPeers' = [p \in Devices \X Ids |-> wgPeers'[p]]
         /\ \A q \in Devices \X Ids : EntryOk(q)'
         /\ \A d \in Subnets : d # WgPeer => OtherKept(d)
         /\ faults' = 0 /\ Stable(WgPeer) => KeyGone(WgPeer, dev)'
         /\ \A o \in Devices : faults' = 0 /\ KeyGone(WgPeer, o) => KeyGone(WgPeer, o)'
<1>1. step # "idle"
  BY DEF WgDels
<1>2. PICK k, a : k = WgPeer /\ a = Attrs
  OBVIOUS
<1>3. k \in Subnets /\ a \in AttrsOf(k)
  BY <1>1, <1>2, WgHand
<1>4. WgPeer' = k
  BY <1>2 DEF WgPeer
<1>5. CASE wgPeers' = [wgPeers EXCEPT ![<<dev, a.id>>] = None] /\ faults' = faults
  <2>1. /\ wgPeers' = [p \in Devices \X Ids |-> wgPeers'[p]]
        /\ \A q \in Devices \X Ids : EntryOk(q)'
        /\ \A d \in Subnets : d # k => OtherKept(d)
        /\ Stable(k) => KeyGone(k, dev)'
        /\ \A o \in Devices : KeyGone(k, o) => KeyGone(k, o)'
    BY <1>3, <1>5, RemovePeerEntries
  <2>2. faults' \in Nat /\ (faults' = 0 => faults = 0)
    BY <1>5 DEF WgInv
  <2> QED
    BY <1>2, <1>4, <2>1, <2>2
<1>6. CASE UNCHANGED wgPeers /\ Fault
  <2>1. faults' \in Nat /\ faults' # 0
    BY <1>6, WgFault
  <2> QED
    BY <1>6, <2>1, PeersKept
<1> QED
  BY <1>2, <1>5, <1>6 DEF RemovePeer

\* A node that is gone from both devices.
LEMMA WgGone ==
  ASSUME HandInv, WgInv, step \in WgDels, UNCHANGED <<ev, told>>,
         faults' = 0 /\ Stable(WgPeer) => KeyGone(WgPeer, "dev")' /\ KeyGone(WgPeer, "v6dev")'
  PROVE  WgOk(WgPeer)'
<1>1. step # "idle"
  BY DEF WgDels
<1>2. WgPeer' = WgPeer /\ told'[WgPeer'] = None
  BY <1>1, WgHand DEF WgPeer
<1>3. ~WgMine(WgPeer)'
  BY <1>2 DEF WgMine
<1>4. faults' = 0 /\ Stable(WgPeer) => \A dev \in Devices : KeyGone(WgPeer, dev)'
  BY DEF Devices
<1>5. Stable(WgPeer)' => Stable(WgPeer)
  BY <1>2 DEF Stable
<1> QED
  BY <1>3, <1>4, <1>5 DEF WgOk

\* What the handler makes of the attributes of a subnet's owner.
LEMMA IgnoredLemma ==
  ASSUME NEW k, NEW a
  PROVE  WgIgnored(Added(LeaseOf(mode, k, a))) <=>
           a.kind = "foreign" \/ (a.kind = "half" /\ mode \in {"v6", "dual"})
<1>1. PICK l : l = LeaseOf(mode, k, a)
  OBVIOUS
<1>2. l.attrs = a /\ (l.v4 <=> mode \in {"v4", "dual"}) /\ (l.v6 <=> mode \in {"v6", "dual"})
  BY <1>1, LeaseFams DEF LeaseOf
<1>3. Added(l).lease = l /\ Added(l).type = "Added"
  BY DEF Added
<1> QED
  BY <1>1, <1>2, <1>3 DEF WgIgnored

LEMMA WgDel4Inv ==
  ASSUME HandInv, WgInv, WgDel4
  PROVE  WgInv'
<1>1. /\ step = "wgDel4" /\ UNCHANGED <<ev, told, mode, wgMode>> /\ RemovePeer("dev", Attrs.id)
      /\ step' = IF ev.lease.v6 /\ Attrs.kind # "half" THEN "wgDel6" ELSE "idle"
  BY DEF WgDel4, WgAt, watcherVars, eventVars
<1>2. step \in WgDels /\ step # "idle" /\ "dev" \in Devices /\ "v6dev" \in Devices
  BY <1>1 DEF WgDels, Devices
<1>3. mode \in {"v4", "dual"}
  BY <1>1, <1>2 DEF WgInv, WgDelOk
<1>4. /\ WgPeer \in Subnets /\ (ev.lease.v6 <=> mode \in {"v6", "dual"})
      /\ \A a \in AttrsOf(WgPeer) : Stable(WgPeer) => a = Attrs
  BY <1>2, WgHand
<1>5. /\ faults' \in Nat /\ (faults' = 0 => faults = 0)
      /\ wgPeers' = [p \in Devices \X Ids |-> wgPeers'[p]]
      /\ \A q \in Devices \X Ids : EntryOk(q)'
      /\ \A d \in Subnets : d # WgPeer => OtherKept(d)
      /\ faults' = 0 /\ Stable(WgPeer) => KeyGone(WgPeer, "dev")'
      /\ \A o \in Devices : faults' = 0 /\ KeyGone(WgPeer, o) => KeyGone(WgPeer, o)'
  BY <1>1, <1>2, RemovePeerStep
<1>6. WgPeer' = WgPeer /\ (Stable(WgPeer)' <=> Stable(WgPeer))
  BY <1>1 DEF WgPeer, Stable
<1>7. CASE ev.lease.v6 /\ Attrs.kind # "half"
  <2>1. step' = "wgDel6" /\ step' \in WgDels /\ mode' # "v4"
    BY <1>1, <1>3, <1>4, <1>7 DEF WgDels
  <2>2. WgDelOk'
    BY <1>5, <1>6, <2>1 DEF WgDelOk
  <2> QED
    BY <1>1, <1>2, <1>5, <2>1, <2>2, WgPeerStep
<1>8. CASE ~(ev.lease.v6 /\ Attrs.kind # "half")
  <2>1. step' = "idle"
    BY <1>1, <1>8
  <2>2. Stable(WgPeer) => KeyGone(WgPeer, "v6dev")
    <3>1. CASE mode = "v4"
      <4>1. ~UsedDevice("v6dev")
        BY <3>1 DEF UsedDevice
      <4> QED
        BY <1>2, <1>4, <4>1, NoPeer
    <3>2. CASE mode = "dual"
      <4>1. Stable(WgPeer) => \A a \in AttrsOf(WgPeer) : WgIgnored(Added(LeaseOf(mode, WgPeer, a)))
        BY <1>4, <1>8, <3>2, IgnoredLemma
      <4> QED
        BY <1>2, <1>4, <4>1, NoPeer
    <3> QED
      BY <1>3, <3>1, <3>2
  <2>3. faults' = 0 /\ Stable(WgPeer) => KeyGone(WgPeer, "dev")' /\ KeyGone(WgPeer, "v6dev")'
    BY <1>2, <1>5, <2>2
  <2>4. WgOk(WgPeer)'
    BY <1>1, <1>2, <2>3, WgGone
  <2> QED
    BY <1>1, <1>2, <1>5, <2>1, <2>4, WgPeerStep
<1> QED
  BY <1>7, <1>8

LEMMA WgDel6Inv ==
  ASSUME HandInv, WgInv, WgDel6
  PROVE  WgInv'
<1>1. PICK dev : dev = IF wgMode = "separate" THEN "v6dev" ELSE "dev"
  OBVIOUS
<1>2. /\ step = "wgDel6" /\ UNCHANGED <<ev, told, mode, wgMode>> /\ RemovePeer(dev, Attrs.id)
      /\ step' = "idle"
  BY <1>1 DEF WgDel6, WgAt, watcherVars, eventVars
<1>3. step \in WgDels /\ step # "idle" /\ dev \in Devices /\ "dev" \in Devices /\ "v6dev" \in Devices
  BY <1>1, <1>2 DEF WgDels, Devices
<1>4. /\ mode # "v4" /\ (faults = 0 /\ Stable(WgPeer) /\ mode = "dual" => KeyGone(WgPeer, "dev"))
  BY <1>2, <1>3 DEF WgInv, WgDelOk
<1>5. WgPeer \in Subnets
  BY <1>3, WgHand
<1>6. /\ faults' \in Nat /\ (faults' = 0 => faults = 0)
      /\ wgPeers' = [p \in Devices \X Ids |-> wgPeers'[p]]
      /\ \A q \in Devices \X Ids : EntryOk(q)'
      /\ \A d \in Subnets : d # WgPeer => OtherKept(d)
      /\ faults' = 0 /\ Stable(WgPeer) => KeyGone(WgPeer, dev)'
      /\ \A o \in Devices : faults' = 0 /\ KeyGone(WgPeer, o) => KeyGone(WgPeer, o)'
  BY <1>2, <1>3, RemovePeerStep
<1>7. ASSUME NEW o \in Devices, o # dev, faults = 0, Stable(WgPeer) PROVE KeyGone(WgPeer, o)
  <2>1. CASE wgMode = "separate" /\ mode = "dual"
    BY <1>1, <1>4, <1>7, <2>1 DEF Devices
  <2>2. CASE ~(wgMode = "separate" /\ mode = "dual")
    <3>1. ~UsedDevice(o)
      BY <1>1, <1>4, <1>7, <2>2 DEF UsedDevice, Devices
    <3> QED
      BY <1>5, <3>1, NoPeer
  <2> QED
    BY <2>1, <2>2
<1>8. faults' = 0 /\ Stable(WgPeer) => KeyGone(WgPeer, "dev")' /\ KeyGone(WgPeer, "v6dev")'
  <2>1. ASSUME NEW o \in Devices, faults' = 0, Stable(WgPeer) PROVE KeyGone(WgPeer, o)'
    BY <1>6, <1>7, <2>1
  <2> QED
    BY <1>3, <2>1
<1>9. WgOk(WgPeer)'
  BY <1>2, <1>3, <1>8, WgGone
<1> QED
  BY <1>2, <1>3, <1>6, <1>9, WgPeerStep

\* A node that is not one of ours, or whose data does not decode.
LEMMA WgSkipInv ==
  ASSUME HandInv, WgInv, WgSkip
  PROVE  WgInv'
<1>1. Take /\ WgIgnored(ev)' /\ UNCHANGED <<step, faults, wgPeers, wgMode>>
  BY DEF WgSkip, wgVars, WgIgnored
<1>2. PICK k, a : k = Key(ev'.lease) /\ a = ev'.lease.attrs
  OBVIOUS
<1>3. /\ step = "idle" /\ mode' = mode /\ mode \in Modes /\ ev' \in EventsOf(mode)
      /\ ev'.lease \in LeasesOf(mode) /\ k \in Subnets /\ told'[k] = Value(ev')
      /\ \A s \in Subnets : s # k => told'[s] = told[s]
  BY <1>1, <1>2, TakeEvent
<1>4. a \in AttrsOf(k) /\ ev'.lease = LeaseOf(mode, k, a)
  BY <1>2, <1>3, AttrsLemma
<1>5. a.kind = "foreign" \/ (a.kind = "half" /\ mode \in {"v6", "dual"})
  BY <1>1, <1>2, <1>4, LeaseFams DEF WgIgnored
<1>6. \A p \in Devices \X Ids : EntryOk(p)'
  BY <1>1, <1>3, PeersKept
<1>7. ASSUME NEW d \in Subnets PROVE WgOk(d)'
  <2>1. WgOk(d) /\ OtherKept(d) /\ told[d] \in AttrsOf(d) \cup {None}
    BY <1>1, <1>3, PeersKept DEF WgInv, HandInv
  <2>2. CASE d # k
    BY <1>1, <1>3, <2>1, <2>2, OtherNode
  <2>3. CASE d = k
    <3>1. told'[k] = a \/ told'[k] = None
      BY <1>2, <1>3 DEF Value
    <3>2. ~WgMine(k)'
      <4>1. WgIgnored(Added(LeaseOf(mode, k, a)))
        BY <1>5, IgnoredLemma
      <4>2. WgIgnored(Added(LeaseOf(mode, k, a)))'
        BY <1>3, <4>1 DEF WgIgnored, LeaseOf, Added
      <4> QED
        BY <3>1, <4>2 DEF WgMine
    <3>3. ASSUME Stable(k), NEW dev \in Devices PROVE KeyGone(k, dev)'
      <4>1. \A b \in AttrsOf(k) : b = a
        BY <1>4, <3>3 DEF Stable
      <4>2. \A b \in AttrsOf(k) : WgIgnored(Added(LeaseOf(mode, k, b)))
        BY <1>5, <4>1, IgnoredLemma
      <4>3. KeyGone(k, dev)
        BY <1>3, <3>3, <4>2, NoPeer
      <4> QED
        BY <1>1, <4>3 DEF KeyGone
    <3> QED
      BY <2>3, <3>2, <3>3 DEF WgOk, Stable
  <2> QED
    BY <2>2, <2>3
<1>8. wgPeers' = [p \in Devices \X Ids |-> wgPeers'[p]] /\ faults' \in Nat
  BY <1>1 DEF WgInv
<1> QED
  BY <1>1, <1>3, <1>6, <1>7, <1>8 DEF WgInv, WgAdds, WgDels

LEMMA WgBeginInv ==
  ASSUME HandInv, WgInv, WgBegin
  PROVE  WgInv'
<1>1. /\ Take /\ ~WgIgnored(ev)' /\ UNCHANGED <<faults, wgPeers, wgMode>>
      /\ step' = IF ev'.type = "Removed" THEN IF ev'.lease.v4 THEN "wgDel4" ELSE "wgDel6"
                 ELSE IF wgMode # "separate" THEN "wgAdd"
                 ELSE IF ev'.lease.v4 THEN "wgAdd4" ELSE "wgAdd6"
  BY DEF WgBegin, wgVars, WgIgnored
<1>2. PICK k : k = WgPeer'
  OBVIOUS
<1>3. /\ step = "idle" /\ mode' = mode /\ mode \in Modes /\ ev' \in EventsOf(mode)
      /\ ev'.lease \in LeasesOf(mode) /\ k \in Subnets
      /\ \A s \in Subnets : s # k => told'[s] = told[s]
  BY <1>1, <1>2, TakeEvent DEF WgPeer
<1>4. ev'.lease.v4 <=> mode \in {"v4", "dual"}
  <2>1. ev'.lease = LeaseOf(mode, Key(ev'.lease), ev'.lease.attrs)
    BY <1>3, AttrsLemma
  <2> QED
    BY <2>1, LeaseFams
<1>5. ev'.type \in {"Added", "Removed"}
  BY <1>3 DEF EventsOf, Added, Removed
<1>6. \A p \in Devices \X Ids : EntryOk(p)'
  BY <1>1, <1>3, PeersKept
<1>7. ASSUME NEW d \in Subnets, d # k PROVE WgOk(d)'
  <2>1. WgOk(d) /\ OtherKept(d) /\ told[d] \in AttrsOf(d) \cup {None}
    BY <1>1, <1>3, PeersKept DEF WgInv, HandInv
  <2> QED
    BY <1>1, <1>3, <1>7, <2>1, OtherNode
<1>8. step' \in {"wgDel4", "wgDel6"} => ev'.type = "Removed" /\ WgDelOk'
  BY <1>1, <1>3, <1>4 DEF WgDelOk, Modes
<1>9. step' \in {"wgAdd4", "wgAdd6", "wgAdd"} => ev'.type = "Added" /\ WgAddOk'
  BY <1>1, <1>3, <1>4, <1>5 DEF WgAddOk, Modes
<1>10. wgPeers' = [p \in Devices \X Ids |-> wgPeers'[p]] /\ faults' \in Nat
  BY <1>1 DEF WgInv
<1>11. step' \in {"wgDel4", "wgDel6", "wgAdd4", "wgAdd6", "wgAdd"}
  BY <1>1
<1> QED
  BY <1>1, <1>2, <1>6, <1>7, <1>8, <1>9, <1>10, <1>11 DEF WgInv, WgAdds, WgDels

\* What no other step can disturb; a failure may have been counted.
LEMMA WgUnchanged ==
  ASSUME HandInv, WgInv, UNCHANGED <<mode, ev, told, step, wgPeers, wgMode>>, Fault \/ UNCHANGED faults
  PROVE  WgInv'
<1>1. faults' \in Nat /\ (faults' = 0 => faults = 0)
  BY WgFault
<1>2. WgPeer' = WgPeer /\ (WgIgnored(ev)' <=> WgIgnored(ev))
  BY DEF WgPeer, WgIgnored
<1>3. /\ wgPeers' = [p \in Devices \X Ids |-> wgPeers'[p]]
      /\ \A p \in Devices \X Ids : EntryOk(p)'
      /\ \A d \in Subnets : OtherKept(d)
  BY PeersKept
<1>4. ASSUME NEW d \in Subnets, step' = "idle" \/ d # WgPeer' PROVE WgOk(d)'
  <2>1. WgOk(d) /\ told[d] \in AttrsOf(d) \cup {None}
    BY <1>2, <1>4 DEF WgInv, HandInv
  <2> QED
    BY <1>1, <1>3, <2>1, OtherNode
<1>5. WgAddOk => WgAddOk'
  BY <1>1, <1>2 DEF WgAddOk, AllServed, FamServed, WgDevice
<1>6. WgDelOk => WgDelOk'
  BY <1>1, <1>2 DEF WgDelOk, KeyGone, Stable
<1> QED
  BY <1>1, <1>2, <1>3, <1>4, <1>5, <1>6 DEF WgInv

LEMMA WgStep ==
  HandInv /\ (backend = "wireguard" => WgInv) /\ [Next]_vars => (backend = "wireguard" => WgInv)'
<1> SUFFICES ASSUME HandInv, backend = "wireguard" => WgInv, [Next]_vars, backend' = "wireguard"
             PROVE  WgInv'
  OBVIOUS
<1>1. backend = "wireguard"
  <2>1. CASE Update \/ Reset
    BY <2>1 DEF Update, Reset, Send
  <2>2. CASE Handler \/ Helper \/ Environment \/ Cancel
    BY <2>2, BackendSteps DEF Take, watcherVars, WatchedVars
  <2> QED
    BY <2>1, <2>2 DEF Next, vars, watcherVars
<1>2. WgInv
  BY <1>1
<1>3. CASE (Update \/ Reset \/ Cancel) /\ UNCHANGED backendVars
  BY <1>2, <1>3, WgUnchanged DEF Update, Reset, Send, Cancel, eventVars, backendVars, wgVars
<1>4. CASE WireguardHandler
  BY <1>2, <1>4, WgSkipInv, WgBeginInv, WgAdd4Inv, WgRoute4Inv, WgAdd6Inv, WgAddInv,
     WgLastRouteInv, WgDel4Inv, WgDel6Inv DEF WireguardHandler
<1>5. CASE \E f \in Fams : WgLinkDown(f)
  BY <1>2, <1>5, WgUnchanged DEF WgLinkDown, watcherVars, eventVars
<1>6. CASE UNCHANGED vars
  BY <1>2, <1>6, WgUnchanged DEF vars, watcherVars, eventVars, backendVars, wgVars
<1> QED
  BY <1>1, <1>3, <1>4, <1>5, <1>6 DEF Next, Handler, Helper, Environment

\* Cryptokey routing follows the leases, for any set of nodes, families,
\* modes and any number of watch results: with no failed request, between
\* events every peer's subnet belongs to exactly the key it announces and a
\* node that left has no key on any device (nothing is said of routes). It
\* rests on IdsAssumption, keys are the nodes' own: a node that comes back
\* with its stored key under another subnet is left out, as its peer would
\* be removed with the lease of the first one.
THEOREM WireguardIsFollowing == Spec => []WgFollows
<1>1. Init => (backend = "wireguard" => WgInv)
  <2> SUFFICES ASSUME Init PROVE WgInv
    OBVIOUS
  <2>1. /\ told = [s \in Subnets |-> None] /\ step = "idle" /\ faults = 0
        /\ wgPeers = [p \in Devices \X Ids |-> None]
    BY DEF Init, WatcherInit, WireguardInit
  <2>2. \A p \in Devices \X Ids : EntryOk(p)
    BY <2>1 DEF EntryOk
  <2>3. \A d \in Subnets : ~WgMine(d)
    BY <2>1 DEF WgMine
  <2>4. \A d \in Subnets, dev \in Devices : KeyGone(d, dev)
    <3>1. \A d \in Subnets : \A a \in AttrsOf(d) : a.id \in Ids
      BY AttrsAssumption
    <3> QED
      BY <2>1, <3>1 DEF KeyGone
  <2>5. wgPeers = [p \in Devices \X Ids |-> wgPeers[p]]
    BY <2>1
  <2> QED
    BY <2>1, <2>2, <2>3, <2>4, <2>5 DEF WgInv, WgOk, WgAdds, WgDels
<1>2. (backend = "wireguard" => WgInv) => WgFollows
  <2> SUFFICES ASSUME WgInv, step = "idle", faults = 0 PROVE WgServed /\ WgCutOff
    BY DEF WgFollows
  <2>1. \A d \in Subnets : WgOk(d)
    BY DEF WgInv
  <2>2. WgServed
    BY <2>1 DEF WgServed, WgOk, AllServed, FamServed
  <2>3. ASSUME NEW d \in Subnets, NEW p \in Devices \X Ids,
               told[d] = None, Stable(d), wgPeers[p] # None
        PROVE  /\ \A f \in Fams : <<f, d>> \notin wgPeers[p].ips
               /\ \A a \in AttrsOf(d) : p[2] # a.id
    <3>1. p = <<p[1], p[2]>> /\ p[1] \in Devices /\ EntryOk(p)
      BY DEF WgInv
    <3>2. \A a \in AttrsOf(d) : wgPeers[<<p[1], a.id>>] = None
      BY <2>1, <2>3, <3>1 DEF WgOk, KeyGone
    <3>3. \A a \in AttrsOf(d) : p[2] # a.id
      BY <2>3, <3>1, <3>2
    <3>4. PICK e \in Subnets : \E a \in AttrsOf(e) : a.id = p[2] /\ wgPeers[p].ips \subseteq Fams \X {e}
      BY <2>3, <3>1 DEF EntryOk
    <3>5. e # d
      BY <3>3, <3>4
    <3> QED
      BY <3>3, <3>4, <3>5
  <2> QED
    BY <2>2, <2>3 DEF WgCutOff
<1> QED
  BY <1>1, <1>2, HandInit, HandStep, WgStep, PTL DEF Spec

-----------------------------------------------------------------------------
(* vxlan *)

VxUndos == {"undoArp", "undoBoth", "undoFdb"}
VxAdds == {"direct", "arp", "fdb", "route"} \cup VxUndos
VxDels == {"delDirect", "delArp", "delFdb", "delRoute"}

\* The families the handler works in.
Handled(f) == IF mode = "none" THEN f = "v6" ELSE mode \in {f, "dual"}

\* The kernel has no tunnel entries, or no entry at all, for a subnet.
Bare(f, d) == arp[<<f, d>>] = None /\ \A a \in AttrsOf(d) : fdb[<<f, a.id>>] = None
Empty(f, d) == Bare(f, d) /\ route[<<f, d>>] = None

\* Its owner keeps its attributes and all keep their network.
Quiet(d) == moves = 0 /\ Stable(d)

\* RouteHasArp, PeersReachable and the halves of NothingLeft for one family
\* of one subnet.
ArpFirst(f, d) == faults = 0 /\ route[<<f, d>>] = "vxlan" => arp[<<f, d>>] # None
Reach(f, d) ==
  LET a == told[d]
  IN  \/ route[<<f, d>>] = a.ip
      \/ route[<<f, d>>] = "vxlan" /\ arp[<<f, d>>] = a.id /\ fdb[<<f, a.id>>] = a.ip
Whole(f, d) == Quiet(d) /\ route[<<f, d>>] = None => Bare(f, d)

\* What the handler leaves for a subnet.
VxOk(f, d) ==
  /\ ArpFirst(f, d)
  /\ faults = 0 /\ VxMine(d) /\ FamEnabled(f) => Reach(f, d)
  /\ faults <= 1 /\ VxMine(d) => Whole(f, d)
  /\ faults = 0 /\ ~VxMine(d) /\ Quiet(d) => Empty(f, d)

\* What holds of a subnet also in the middle of an event: the entries are
\* of the kind that its owner's network asks for.
Kind(f, d, a) ==
  IF <<f, a.ip>> \in near THEN Bare(f, d) /\ route[<<f, d>>] \in {None, a.ip}
                          ELSE route[<<f, d>>] \in {None, "vxlan"}
VxBase(f, d) ==
  /\ ~Handled(f) => Empty(f, d)
  /\ Stable(d) => \A a \in AttrsOf(d) :
       /\ fdb[<<f, a.id>>] \in {None, a.ip}
       /\ ~Decodes(LeaseOf(mode, d, a)) => Empty(f, d)
       /\ faults = 0 /\ moves = 0 => Kind(f, d, a)

\* How far the event in hand has come: in family g, for subnet k and
\* attributes a. A family that is still to come:
Pending(g, f) == f = "v6" /\ g = "v4" /\ Handled(f)

VxAddOk(g, k, a) ==
  /\ \A f \in Families : ArpFirst(f, k)
  /\ \A f \in Families :
       Pending(g, f) /\ (faults = 0 \/ (step \in VxUndos /\ faults <= 1)) => Whole(f, k)
  /\ step \in {"direct", "arp"} /\ faults = 0 => Whole(g, k)
  /\ step \in {"fdb", "route"} => arp[<<g, k>>] = a.id
  /\ (step = "fdb" /\ faults = 0) \/ (step = "undoArp" /\ faults <= 1) =>
       (Quiet(k) /\ route[<<g, k>>] = None => fdb[<<g, a.id>>] = None)
  /\ step \in {"route", "undoBoth", "undoFdb"} => fdb[<<g, a.id>>] = a.ip
  /\ step \in VxUndos => faults # 0
  /\ step = "undoFdb" /\ faults <= 1 => arp[<<g, k>>] = None

VxDelOk(g, k, a) ==
  /\ \A f \in Families : Pending(g, f) => ArpFirst(f, k)
  /\ step \in {"delDirect", "delArp"} => ArpFirst(g, k)
  /\ step \in {"delFdb", "delRoute"} /\ faults = 0 => arp[<<g, k>>] = None
  /\ step = "delRoute" /\ faults = 0 /\ Stable(k) => fdb[<<g, a.id>>] = None

VxHand(g, a) ==
  /\ Decodes(ev.lease) /\ Handled(g)
  /\ step \in {"direct", "delDirect"} <=> direct[g]
  /\ faults = 0 /\ moves = 0 => \A f \in Families : direct[f] <=> <<f, a.ip>> \in near

VxType ==
  /\ faults \in Nat /\ moves \in Nat
  /\ arp \in [Families \X Subnets -> Ids \cup {None}]
  /\ fdb \in [Families \X Ids -> Ips \cup {None}]
  /\ route \in [Families \X Subnets -> Ips \cup {None, "vxlan"}]

VxInv ==
  /\ VxType /\ fam \in Families /\ step \in VxAdds \cup VxDels \cup {"idle"}
  /\ \A f \in Families, d \in Subnets : VxBase(f, d)
  /\ \A f \in Families, d \in Subnets :
       step = "idle" \/ d # Sn \/ (f # fam /\ ~Pending(fam, f)) => VxOk(f, d)
  /\ step # "idle" => VxHand(fam, ev.lease.attrs)
  /\ step \in VxAdds => ev.type = "Added" /\ VxAddOk(fam, Sn, ev.lease.attrs)
  /\ step \in VxDels => ev.type = "Removed" /\ VxDelOk(fam, Sn, ev.lease.attrs)

\* The family, the subnet and the attributes in hand.
InHand(g, k, a) == step # "idle" /\ g = fam /\ k = Sn /\ a = ev.lease.attrs

LEMMA VxFacts ==
  ASSUME HandInv, VxInv, NEW g, NEW k, NEW a, InHand(g, k, a)
  PROVE  /\ g \in Families /\ k \in Subnets /\ mode \in Modes
         /\ a \in AttrsOf(k) /\ a.id \in Ids /\ a.ip \in Ips
         /\ a.id # None /\ a.ip # None /\ a.ip # "vxlan" /\ None # "vxlan"
         /\ Handled(g) /\ Decodes(LeaseOf(mode, k, a)) /\ VxBase(g, k)
         /\ Stable(k) => \A b \in AttrsOf(k) : b = a
         /\ ev.lease.v6 <=> mode \in {"v6", "dual"}
         /\ VxHand(g, a)
         /\ step \in VxAdds => told[k] = a /\ VxMine(k) /\ VxAddOk(g, k, a)
         /\ step \in VxDels => told[k] = None /\ ~VxMine(k) /\ VxDelOk(g, k, a)
<1>1. ev.lease \in LeasesOf(mode) /\ mode \in Modes /\ told[k] = Value(ev) /\ ev \in EventsOf(mode)
  BY EventLemma DEF HandInv, KnowInv, InHand, Sn
<1>2. /\ k \in Subnets /\ a \in AttrsOf(k) /\ a.id \in Ids /\ a.ip \in Ips /\ a # None
      /\ ev.lease = LeaseOf(mode, k, a)
  BY <1>1, AttrsLemma, LeaseLemma DEF InHand, Sn
<1>3. ev.lease.v6 <=> mode \in {"v6", "dual"}
  BY <1>2, LeaseFams
<1>4. /\ g \in Families /\ VxHand(g, a) /\ VxBase(g, k)
      /\ step \in VxAdds => ev.type = "Added" /\ VxAddOk(g, k, a)
      /\ step \in VxDels => ev.type = "Removed" /\ VxDelOk(g, k, a)
  BY <1>2 DEF VxInv, InHand
<1>5. Decodes(LeaseOf(mode, k, a)) /\ Handled(g)
  BY <1>2, <1>4 DEF VxHand
<1>6. step \in VxAdds => told[k] = a /\ VxMine(k)
  BY <1>1, <1>2, <1>4, <1>5 DEF Value, VxMine, InHand
<1>7. step \in VxDels => told[k] = None /\ ~VxMine(k)
  BY <1>1, <1>4 DEF Value, VxMine
<1>8. Stable(k) => \A b \in AttrsOf(k) : b = a
  BY <1>2 DEF Stable
<1>9. a.id # None /\ a.ip # None /\ a.ip # "vxlan" /\ None # "vxlan"
  BY <1>2, NoneAssumption, VxNoneAssumption
<1> QED
  BY <1>1, <1>2, <1>3, <1>4, <1>5, <1>6, <1>7, <1>8, <1>9

\* A step that does not touch a family of a subnet.
Same(f, d) ==
  /\ arp'[<<f, d>>] = arp[<<f, d>>]
  /\ route'[<<f, d>>] = route[<<f, d>>]
  /\ \A a \in AttrsOf(d) : fdb'[<<f, a.id>>] = fdb[<<f, a.id>>]

\* Failures are counted, and the networks stay as they are up to a move.
Later ==
  /\ mode' = mode /\ faults \in Nat /\ faults' \in Nat /\ faults <= faults'
  /\ moves' = 0 => moves = 0 /\ near' = near

LEMMA SameOk ==
  ASSUME NEW f, NEW d, Same(f, d), Later, told'[d] = told[d], told[d] \in AttrsOf(d) \cup {None}
  PROVE  VxOk(f, d) => VxOk(f, d)'
<1> SUFFICES ASSUME VxOk(f, d) PROVE VxOk(f, d)'
  OBVIOUS
<1>1. (faults' = 0 => faults = 0) /\ (faults' <= 1 => faults <= 1) /\ (moves' = 0 => moves = 0)
  BY DEF Later
<1>2. VxMine(d)' <=> VxMine(d)
  BY DEF VxMine, Later, Decodes, LeaseOf
<1>3. (Quiet(d)' => Quiet(d)) /\ (FamEnabled(f)' <=> FamEnabled(f))
  BY <1>1 DEF Quiet, Stable, FamEnabled, Later
<1>4. (Bare(f, d) => Bare(f, d)') /\ (Empty(f, d) => Empty(f, d)')
  BY DEF Bare, Empty, Same
<1>5. ArpFirst(f, d)'
  BY <1>1 DEF VxOk, ArpFirst, Same
<1>6. Whole(f, d) => Whole(f, d)'
  BY <1>3, <1>4 DEF Whole, Same
<1>7. VxMine(d) /\ Reach(f, d) => Reach(f, d)'
  <2>1. VxMine(d) => told[d] \in AttrsOf(d)
    BY DEF VxMine
  <2> QED
    BY <2>1 DEF Reach, Same
<1> QED
  BY <1>1, <1>2, <1>3, <1>4, <1>5, <1>6, <1>7 DEF VxOk

LEMMA SameBase ==
  ASSUME NEW f, NEW d, Same(f, d), Later
  PROVE  VxBase(f, d) => VxBase(f, d)'
<1> SUFFICES ASSUME VxBase(f, d) PROVE VxBase(f, d)'
  OBVIOUS
<1>1. (faults' = 0 => faults = 0) /\ (moves' = 0 => moves = 0 /\ near' = near)
  BY DEF Later
<1>2. (Bare(f, d) => Bare(f, d)') /\ (Empty(f, d) => Empty(f, d)')
  BY DEF Bare, Empty, Same
<1>3. Handled(f)' <=> Handled(f)
  BY DEF Handled, Later
<1>4. ASSUME Stable(d), NEW a \in AttrsOf(d)
      PROVE  /\ fdb'[<<f, a.id>>] \in {None, a.ip}
             /\ ~Decodes(LeaseOf(mode, d, a))' => Empty(f, d)'
             /\ faults' = 0 /\ moves' = 0 => Kind(f, d, a)'
  <2>1. /\ fdb[<<f, a.id>>] \in {None, a.ip}
        /\ ~Decodes(LeaseOf(mode, d, a)) => Empty(f, d)
        /\ faults = 0 /\ moves = 0 => Kind(f, d, a)
    BY <1>4 DEF VxBase
  <2>2. Decodes(LeaseOf(mode, d, a))' <=> Decodes(LeaseOf(mode, d, a))
    BY DEF Later, Decodes, LeaseOf
  <2>3. near' = near /\ Kind(f, d, a) => Kind(f, d, a)'
    BY <1>2 DEF Kind, Same
  <2>4. fdb'[<<f, a.id>>] = fdb[<<f, a.id>>]
    BY DEF Same
  <2> QED
    BY <1>1, <1>2, <2>1, <2>2, <2>3, <2>4
<1> QED
  BY <1>2, <1>3, <1>4 DEF VxBase, Stable

\* What every request for the node in hand leaves alone.
VxFrame(g, k, a) ==
  /\ InHand(g, k, a)
  /\ UNCHANGED <<ev, told, mode, near, moves, direct>>
  /\ faults' \in Nat /\ faults <= faults'
  /\ VxType'
  /\ \A f \in Families, d \in Subnets : d # k \/ f # g => Same(f, d)

\* The next request, or the next family, of the event; or its end.
LEMMA VxNext ==
  ASSUME HandInv, VxInv, NEW g, NEW k, NEW a, VxFrame(g, k, a), VxBase(g, k)',
         NEW h, h = fam', h = g \/ (g = "v4" /\ h = "v6" /\ VxOk(g, k)'),
         \/ step \in VxAdds /\ step' \in VxAdds /\ VxHand(h, a)' /\ VxAddOk(h, k, a)'
         \/ step \in VxDels /\ step' \in VxDels /\ VxHand(h, a)' /\ VxDelOk(h, k, a)'
         \/ step' = "idle" /\ VxOk(g, k)' /\ h = g
              /\ \A f \in Families : Pending(g, f) => VxOk(f, k)'
  PROVE  VxInv'
<1>1. /\ step # "idle" /\ g = fam /\ k = Sn /\ a = ev.lease.attrs
      /\ UNCHANGED <<ev, told, mode, near, moves, direct>>
      /\ VxType' /\ \A f \in Families, d \in Subnets : d # k \/ f # g => Same(f, d)
  BY DEF VxFrame, InHand
<1>2. g \in Families /\ k \in Subnets
  BY <1>1, VxFacts DEF InHand
<1>3. Sn' = k /\ ev'.lease.attrs = a /\ ev'.type = ev.type /\ h \in Families
  BY <1>1, <1>2 DEF Sn, Families
<1>4. Later
  BY <1>1 DEF VxFrame, Later, VxInv, VxType
<1>5. ASSUME NEW f \in Families, NEW d \in Subnets PROVE VxBase(f, d)'
  <2>1. CASE f = g /\ d = k
    BY <2>1
  <2>2. CASE d # k \/ f # g
    <3>1. Same(f, d) /\ VxBase(f, d)
      BY <1>1, <2>2 DEF VxInv
    <3> QED
      BY <1>4, <3>1, SameBase
  <2> QED
    BY <2>1, <2>2
<1>6. ASSUME NEW f \in Families, NEW d \in Subnets,
             d # k \/ (f # g /\ ~Pending(g, f))
      PROVE  VxOk(f, d)'
  <2>1. VxOk(f, d) /\ Same(f, d) /\ told[d] \in AttrsOf(d) \cup {None} /\ told'[d] = told[d]
    BY <1>1, <1>6 DEF VxInv, HandInv
  <2> QED
    BY <1>4, <2>1, SameOk
<1>7. ASSUME NEW f \in Families, NEW d \in Subnets,
             step' = "idle" \/ d # k \/ (f # h /\ ~Pending(h, f)')
      PROVE  VxOk(f, d)'
  <2>1. CASE d # k \/ (f # g /\ ~Pending(g, f))
    BY <1>6, <2>1
  <2>2. CASE d = k /\ f = g
    <3>1. step' = "idle" \/ h # g
      BY <1>7, <2>2
    <3>2. VxOk(g, k)'
      BY <3>1 DEF VxAdds, VxUndos, VxDels
    <3> QED
      BY <2>2, <3>2
  <2>3. CASE d = k /\ Pending(g, f)
    <3>1. step' = "idle"
      <4>1. f = "v6" /\ g = "v4" /\ (Pending(g, f)' <=> Pending(g, f))
        BY <1>1, <2>3 DEF Pending, Handled
      <4> QED
        BY <1>7, <2>3, <4>1 DEF Pending
    <3>2. VxOk(f, k)'
      BY <2>3, <3>1 DEF VxAdds, VxUndos, VxDels
    <3> QED
      BY <2>3, <3>2
  <2> QED
    BY <2>1, <2>2, <2>3
<1>8. step' \in VxAdds \cup VxDels \cup {"idle"}
  OBVIOUS
<1>9. /\ step' # "idle" => VxHand(h, a)'
      /\ step' \in VxAdds => ev'.type = "Added" /\ VxAddOk(h, k, a)'
      /\ step' \in VxDels => ev'.type = "Removed" /\ VxDelOk(h, k, a)'
  BY <1>3 DEF VxInv, VxAdds, VxUndos, VxDels
<1> QED
  BY <1>1, <1>3, <1>5, <1>7, <1>8, <1>9 DEF VxInv

\* One request and what it writes.
LEMMA ArpWritten ==
  ASSUME VxType, NEW g \in Families, NEW k \in Subnets, NEW v \in Ids \cup {None},
         arp' = [arp EXCEPT ![<<g, k>>] = v], UNCHANGED <<fdb, route, moves>>, faults' \in Nat
  PROVE  /\ VxType' /\ arp'[<<g, k>>] = v
         /\ \A f \in Families, d \in Subnets : d # k \/ f # g => Same(f, d)
BY DEF VxType, Same

LEMMA RouteWritten ==
  ASSUME VxType, NEW g \in Families, NEW k \in Subnets, NEW v \in Ips \cup {None, "vxlan"},
         route' = [route EXCEPT ![<<g, k>>] = v], UNCHANGED <<fdb, arp, moves>>, faults' \in Nat
  PROVE  /\ VxType' /\ route'[<<g, k>>] = v
         /\ \A f \in Families, d \in Subnets : d # k \/ f # g => Same(f, d)
BY DEF VxType, Same

LEMMA FdbWritten ==
  ASSUME VxType, NEW g \in Families, NEW k \in Subnets, NEW a \in AttrsOf(k), NEW v \in Ips \cup {None},
         fdb' = [fdb EXCEPT ![<<g, a.id>>] = v], UNCHANGED <<arp, route, moves>>, faults' \in Nat
  PROVE  /\ VxType' /\ fdb'[<<g, a.id>>] = v
         /\ \A f \in Families, d \in Subnets : d # k \/ f # g => Same(f, d)
<1>1. PICK key \in Ids : key = a.id
  BY AttrsAssumption
<1>2. fdb \in [Families \X Ids -> Ips \cup {None}] /\ fdb' = [fdb EXCEPT ![<<g, key>>] = v]
  BY <1>1 DEF VxType
<1>3. fdb' \in [Families \X Ids -> Ips \cup {None}] /\ fdb'[<<g, key>>] = v
  BY <1>2
<1>4. \A f \in Families, j \in Ids : f # g \/ j # key => fdb'[<<f, j>>] = fdb[<<f, j>>]
  BY <1>2
<1>5. ASSUME NEW f \in Families, NEW d \in Subnets, d # k \/ f # g, NEW b \in AttrsOf(d)
      PROVE  fdb'[<<f, b.id>>] = fdb[<<f, b.id>>]
  <2>1. b.id \in Ids
    BY AttrsAssumption
  <2>2. f # g \/ b.id # key
    BY <1>1, <1>5, IdsAssumption
  <2> QED
    BY <1>4, <2>1, <2>2
<1> QED
  BY <1>1, <1>3, <1>5 DEF VxType, Same

LEMMA NoneWritten ==
  ASSUME VxType, UNCHANGED <<arp, fdb, route, moves>>, faults' \in Nat
  PROVE  VxType' /\ \A f, d : Same(f, d)
BY DEF VxType, Same

\* The kind of the entries of the node in hand.
LEMMA HandBase ==
  ASSUME HandInv, VxInv, NEW g, NEW k, NEW a, InHand(g, k, a), UNCHANGED <<mode, near, moves>>,
         Stable(k) => /\ fdb'[<<g, a.id>>] \in {None, a.ip}
                      /\ faults' = 0 /\ moves = 0 => Kind(g, k, a)'
  PROVE  VxBase(g, k)'
<1>1. Handled(g) /\ Decodes(LeaseOf(mode, k, a)) /\ (Stable(k) => \A b \in AttrsOf(k) : b = a)
  BY VxFacts
<1>2. Handled(g)' /\ Decodes(LeaseOf(mode, k, a))'
  BY <1>1 DEF Handled, Decodes, LeaseOf
<1> QED
  BY <1>1, <1>2 DEF VxBase, Stable

\* The network the event in hand found is that of the entries.
LEMMA HandKind ==
  ASSUME HandInv, VxInv, NEW g, NEW k, NEW a, InHand(g, k, a), Stable(k)
  PROVE  /\ fdb[<<g, a.id>>] \in {None, a.ip}
         /\ faults = 0 /\ moves = 0 /\ step \in {"direct", "delDirect"} =>
              <<g, a.ip>> \in near /\ Bare(g, k) /\ route[<<g, k>>] \in {None, a.ip}
         /\ faults = 0 /\ moves = 0 /\ step \notin {"direct", "delDirect"} =>
              <<g, a.ip>> \notin near /\ route[<<g, k>>] \in {None, "vxlan"}
<1>1. VxBase(g, k) /\ a \in AttrsOf(k) /\ VxHand(g, a) /\ g \in Families
  BY VxFacts
<1> QED
  BY <1>1 DEF VxBase, VxHand, Kind

\* A family that was not touched is as it was.
LEMMA OtherFam ==
  ASSUME HandInv, VxInv, NEW g, NEW k, NEW a, VxFrame(g, k, a), NEW f \in Families, f # g
  PROVE  /\ Same(f, k)
         /\ ArpFirst(f, k) => ArpFirst(f, k)'
         /\ Whole(f, k) => Whole(f, k)'
<1>1. k \in Subnets
  BY VxFacts DEF VxFrame
<1>2. Same(f, k)
  BY <1>1 DEF VxFrame
<1>3. (faults' = 0 => faults = 0) /\ moves' = moves
  BY DEF VxFrame, VxInv, VxType
<1> QED
  BY <1>1, <1>2, <1>3 DEF ArpFirst, Whole, Same, Quiet, Stable, Bare

LEMMA FamAdded ==
  ASSUME HandInv, VxInv, NEW g, NEW k, NEW a, VxFrame(g, k, a), VxBase(g, k)', VxOk(g, k)',
         step \in VxAdds, UNCHANGED faults, AddedDone
  PROVE  VxInv'
<1>1. /\ step # "idle" /\ g = fam /\ k = Sn /\ a = ev.lease.attrs
      /\ UNCHANGED <<ev, told, mode, near, moves, direct>>
  BY DEF VxFrame, InHand
<1>2. /\ g \in Families /\ VxHand(g, a) /\ VxAddOk(g, k, a) /\ mode \in Modes
      /\ ev.lease.v6 <=> mode \in {"v6", "dual"}
      /\ Handled(g)
  BY <1>1, VxFacts DEF InHand
<1>3. PICK h : h = fam'
  OBVIOUS
<1>4. CASE g = "v4" /\ ev.lease.v6
  <2>1. h = "v6" /\ step' = AddStart(direct, "v6")
    BY <1>1, <1>3, <1>4 DEF AddedDone
  <2>2. mode = "dual" /\ Pending(g, "v6") /\ "v6" \in Families
    BY <1>2, <1>4 DEF Handled, Pending, Families
  <2>3. step' \in {"direct", "arp"} /\ (step' = "direct" <=> direct'["v6"])
    BY <1>1, <2>1 DEF AddStart
  <2>4. /\ ArpFirst("v6", k) => ArpFirst("v6", k)'
        /\ Whole("v6", k) => Whole("v6", k)'
    BY <1>4, <2>2, OtherFam
  <2>5. ArpFirst("v6", k)' /\ (faults' = 0 => Whole("v6", k)') /\ ArpFirst("v4", k)'
    BY <1>2, <1>4, <2>2, <2>4 DEF VxAddOk, VxOk
  <2>6. VxAddOk(h, k, a)'
    BY <2>1, <2>3, <2>5 DEF VxAddOk, Pending, Families, VxUndos
  <2>7. VxHand(h, a)'
    <3>1. Decodes(ev.lease)' /\ Handled("v6")'
      BY <1>1, <1>2, <2>2 DEF VxHand, Decodes, Handled
    <3>2. faults' = 0 /\ moves' = 0 => \A f \in Families : direct'[f] <=> <<f, a.ip>> \in near'
      BY <1>1, <1>2 DEF VxHand
    <3> QED
      BY <2>1, <2>3, <3>1, <3>2 DEF VxHand
  <2>8. step' \in VxAdds
    BY <2>3 DEF VxAdds
  <2> QED
    BY <1>3, <1>4, <2>1, <2>6, <2>7, <2>8, VxNext
<1>5. CASE ~(g = "v4" /\ ev.lease.v6)
  <2>1. h = g /\ step' = "idle"
    BY <1>1, <1>3, <1>5 DEF AddedDone
  <2>2. \A f \in Families : ~Pending(g, f)
    BY <1>2, <1>5 DEF Pending, Handled
  <2> QED
    BY <1>3, <2>1, <2>2, VxNext
<1> QED
  BY <1>4, <1>5

LEMMA FamRemoved ==
  ASSUME HandInv, VxInv, NEW g, NEW k, NEW a, VxFrame(g, k, a), VxBase(g, k)', VxOk(g, k)',
         step \in VxDels, RemovedDone
  PROVE  VxInv'
<1>1. /\ step # "idle" /\ g = fam /\ k = Sn /\ a = ev.lease.attrs
      /\ UNCHANGED <<ev, told, mode, near, moves, direct>> /\ (faults' = 0 => faults = 0)
  BY DEF VxFrame, InHand, VxInv, VxType
<1>2. /\ g \in Families /\ VxHand(g, a) /\ VxDelOk(g, k, a) /\ mode \in Modes
      /\ ev.lease.v6 <=> mode \in {"v6", "dual"}
      /\ Handled(g)
  BY <1>1, VxFacts DEF InHand
<1>3. PICK h : h = fam'
  OBVIOUS
<1>4. CASE g = "v4" /\ ev.lease.v6
  <2>1. h = "v6" /\ step' = RemoveStart(direct, "v6")
    BY <1>1, <1>3, <1>4 DEF RemovedDone
  <2>2. mode = "dual" /\ Pending(g, "v6") /\ "v6" \in Families
    BY <1>2, <1>4 DEF Handled, Pending, Families
  <2>3. step' \in {"delDirect", "delArp"} /\ (step' = "delDirect" <=> direct'["v6"])
    BY <1>1, <2>1 DEF RemoveStart
  <2>4. ArpFirst("v6", k)'
    BY <1>2, <1>4, <2>2, OtherFam DEF VxDelOk
  <2>5. VxDelOk(h, k, a)'
    BY <2>1, <2>3, <2>4 DEF VxDelOk, Pending
  <2>6. VxHand(h, a)'
    <3>1. Decodes(ev.lease)' /\ Handled("v6")'
      BY <1>1, <1>2, <2>2 DEF VxHand, Decodes, Handled
    <3>2. faults' = 0 /\ moves' = 0 => \A f \in Families : direct'[f] <=> <<f, a.ip>> \in near'
      BY <1>1, <1>2 DEF VxHand
    <3> QED
      BY <2>1, <2>3, <3>1, <3>2 DEF VxHand
  <2>7. step' \in VxDels
    BY <2>3 DEF VxDels
  <2> QED
    BY <1>3, <1>4, <2>1, <2>5, <2>6, <2>7, VxNext
<1>5. CASE ~(g = "v4" /\ ev.lease.v6)
  <2>1. h = g /\ step' = "idle"
    BY <1>1, <1>3, <1>5 DEF RemovedDone
  <2>2. \A f \in Families : ~Pending(g, f)
    BY <1>2, <1>5 DEF Pending, Handled
  <2> QED
    BY <1>3, <2>1, <2>2, VxNext
<1> QED
  BY <1>4, <1>5

\* The first request of a family fails: the event is given up, and with at
\* most this failure the subnet is as it was.
LEMMA GivenUp ==
  ASSUME HandInv, VxInv, NEW g, NEW k, NEW a, InHand(g, k, a), step \in {"direct", "arp"},
         UNCHANGED <<ev, told, mode, near, moves, direct, arp, fdb, route>>, GiveUp, Fault
  PROVE  VxInv'
<1>1. step \in VxAdds /\ step' = "idle" /\ fam' = g
  BY DEF VxAdds, GiveUp, InHand
<1>2. /\ g \in Families /\ k \in Subnets /\ VxAddOk(g, k, a) /\ VxMine(k) /\ VxBase(g, k)
  BY <1>1, VxFacts
<1>3. /\ faults \in Nat /\ faults' \in Nat /\ faults <= faults' /\ faults' # 0
      /\ (faults' <= 1 => faults = 0) /\ VxType
  BY DEF VxInv, VxType, Fault
<1>4. VxType' /\ \A f, d : Same(f, d)
  BY <1>3, NoneWritten
<1>5. VxFrame(g, k, a) /\ Later
  BY <1>3, <1>4 DEF VxFrame, Later
<1>6. VxBase(g, k)'
  BY <1>2, <1>4, <1>5, SameBase
<1>7. ASSUME NEW f \in Families, f = g \/ Pending(g, f) PROVE VxOk(f, k)'
  <2>1. faults' <= 1 => Whole(f, k)
    BY <1>2, <1>3, <1>7 DEF VxAddOk
  <2>2. faults' <= 1 => Whole(f, k)'
    BY <2>1 DEF Whole, Quiet, Stable, Bare
  <2>3. VxMine(k)'
    BY <1>2 DEF VxMine, Decodes, LeaseOf
  <2> QED
    BY <1>3, <2>2, <2>3 DEF VxOk, ArpFirst
<1>8. PICK h : h = fam'
  OBVIOUS
<1> QED
  BY <1>1, <1>2, <1>5, <1>6, <1>7, <1>8, VxNext

LEMMA AddedOk ==
  ASSUME NEW g, NEW k, VxMine(k), UNCHANGED <<told, mode>>, route'[<<g, k>>] # None, ArpFirst(g, k)', Reach(g, k)'
  PROVE  VxOk(g, k)'
BY DEF VxOk, VxMine, Decodes, LeaseOf, Whole

LEMMA RemovedOk ==
  ASSUME NEW g, NEW k, told[k] = None, UNCHANGED <<told, moves>>,
         ArpFirst(g, k)', faults' = 0 /\ Quiet(k) => Empty(g, k)'
  PROVE  VxOk(g, k)'
BY DEF VxOk, VxMine, Quiet, Stable

\* The handler stays with the family.
LEMMA HandStays ==
  ASSUME HandInv, VxInv, NEW g, NEW k, NEW a, VxFrame(g, k, a),
         step \in {"direct", "delDirect"} <=> step' \in {"direct", "delDirect"}
  PROVE  VxHand(g, a)'
<1>1. VxHand(g, a) /\ UNCHANGED <<ev, mode, near, moves, direct>>
  BY VxFacts DEF VxFrame
<1>2. faults' = 0 => faults = 0
  BY DEF VxFrame, VxInv, VxType
<1>3. Decodes(ev.lease)' /\ Handled(g)'
  BY <1>1 DEF VxHand, Decodes, Handled
<1> QED
  BY <1>1, <1>2, <1>3 DEF VxHand

\* What an action of the handler has in common with the others.
LEMMA VxAtLemma ==
  ASSUME HandInv, VxInv, NEW s, s # "idle", At(s)
  PROVE  /\ step = s /\ UNCHANGED <<ev, told, mode, near, moves, direct>>
         /\ \E g, k, a : InHand(g, k, a)
BY DEF At, watcherVars, eventVars, InHand

LEMMA AddDirectInv ==
  ASSUME HandInv, VxInv, AddDirect
  PROVE  VxInv'
<1>1. step = "direct" /\ UNCHANGED <<ev, told, mode, near, moves, direct>> /\ \E g, k, a : InHand(g, k, a)
  BY VxAtLemma DEF AddDirect
<1>2. PICK g, k, a : InHand(g, k, a)
  BY <1>1
<1>3. step \in VxAdds /\ VxType /\ faults \in Nat
  BY <1>1 DEF VxAdds, VxInv, VxType
<1>4. /\ g \in Families /\ k \in Subnets /\ a.ip \in Ips /\ a.ip # None /\ a.ip # "vxlan"
      /\ VxMine(k) /\ told[k] = a /\ a \in AttrsOf(k)
  BY <1>2, <1>3, VxFacts
<1>5. CASE route' = [route EXCEPT ![<<g, k>>] = a.ip] /\ AddedDone /\ UNCHANGED <<faults, arp, fdb>>
  <2>1. /\ VxType' /\ route'[<<g, k>>] = a.ip
        /\ \A f \in Families, d \in Subnets : d # k \/ f # g => Same(f, d)
    BY <1>1, <1>3, <1>4, <1>5, RouteWritten
  <2>2. VxFrame(g, k, a)
    BY <1>1, <1>2, <1>3, <1>5, <2>1 DEF VxFrame
  <2>3. Stable(k) => /\ fdb'[<<g, a.id>>] \in {None, a.ip}
                     /\ faults' = 0 /\ moves = 0 => Kind(g, k, a)'
    <3>1. Stable(k) => /\ fdb[<<g, a.id>>] \in {None, a.ip}
                       /\ faults = 0 /\ moves = 0 => <<g, a.ip>> \in near /\ Bare(g, k)
      BY <1>1, <1>2, HandKind
    <3> QED
      BY <1>1, <1>5, <2>1, <3>1 DEF Kind, Bare
  <2>4. VxBase(g, k)'
    BY <1>1, <1>2, <2>3, HandBase
  <2>5. VxOk(g, k)'
    <3>1. ArpFirst(g, k)' /\ Reach(g, k)' /\ route'[<<g, k>>] # None
      BY <1>1, <1>4, <2>1 DEF ArpFirst, Reach
    <3> QED
      BY <1>1, <1>4, <3>1, AddedOk
  <2> QED
    BY <1>3, <1>5, <2>2, <2>4, <2>5, FamAdded
<1>6. CASE UNCHANGED <<route, arp, fdb>> /\ GiveUp /\ Fault
  BY <1>1, <1>2, <1>6, GivenUp
<1>7. fam = g /\ Sn = k /\ Ip = a.ip
  BY <1>2 DEF InHand, Ip
<1> QED
  BY <1>5, <1>6, <1>7 DEF AddDirect, SetRoute

LEMMA AddArpInv ==
  ASSUME HandInv, VxInv, AddArp
  PROVE  VxInv'
<1>1. step = "arp" /\ UNCHANGED <<ev, told, mode, near, moves, direct>> /\ \E g, k, a : InHand(g, k, a)
  BY VxAtLemma DEF AddArp
<1>2. PICK g, k, a : InHand(g, k, a)
  BY <1>1
<1>3. step \in VxAdds /\ VxType /\ faults \in Nat
  BY <1>1 DEF VxAdds, VxInv, VxType
<1>4. /\ g \in Families /\ k \in Subnets /\ a.id \in Ids /\ a.id # None /\ a \in AttrsOf(k)
      /\ VxAddOk(g, k, a)
  BY <1>2, <1>3, VxFacts
<1>5. fam = g /\ Sn = k /\ Mac = a.id
  BY <1>2 DEF InHand, Mac
<1>6. CASE /\ arp' = [arp EXCEPT ![<<g, k>>] = a.id] /\ step' = "fdb" /\ fam' = g
           /\ UNCHANGED <<faults, fdb, route>>
  <2>1. /\ VxType' /\ arp'[<<g, k>>] = a.id
        /\ \A f \in Families, d \in Subnets : d # k \/ f # g => Same(f, d)
    BY <1>1, <1>3, <1>4, <1>6, ArpWritten
  <2>2. VxFrame(g, k, a)
    BY <1>1, <1>2, <1>3, <1>6, <2>1 DEF VxFrame
  <2>3. Stable(k) => /\ fdb'[<<g, a.id>>] \in {None, a.ip}
                     /\ faults' = 0 /\ moves = 0 => Kind(g, k, a)'
    <3>1. Stable(k) => /\ fdb[<<g, a.id>>] \in {None, a.ip}
                       /\ faults = 0 /\ moves = 0 =>
                            <<g, a.ip>> \notin near /\ route[<<g, k>>] \in {None, "vxlan"}
      BY <1>1, <1>2, HandKind
    <3> QED
      BY <1>1, <1>6, <3>1 DEF Kind
  <2>4. VxBase(g, k)'
    BY <1>1, <1>2, <2>3, HandBase
  <2>5. VxHand(g, a)'
    BY <1>1, <1>6, <2>2, HandStays
  <2>6. ASSUME NEW f \in Families
        PROVE  ArpFirst(f, k)' /\ (Pending(g, f)' /\ faults' = 0 => Whole(f, k)')
    <3>1. CASE f = g
      BY <1>4, <2>1, <3>1 DEF ArpFirst, Pending
    <3>2. CASE f # g
      <4>1. (ArpFirst(f, k) => ArpFirst(f, k)') /\ (Whole(f, k) => Whole(f, k)')
        BY <2>2, <3>2, OtherFam
      <4>2. Pending(g, f)' => Pending(g, f)
        BY <1>1 DEF Pending, Handled
      <4> QED
        BY <1>4, <1>6, <4>1, <4>2 DEF VxAddOk
    <3> QED
      BY <3>1, <3>2
  <2>7. faults' = 0 /\ Quiet(k)' /\ route'[<<g, k>>] = None => fdb'[<<g, a.id>>] = None
    BY <1>1, <1>4, <1>6 DEF VxAddOk, Whole, Bare, Quiet, Stable
  <2>8. VxAddOk(g, k, a)'
    BY <1>6, <2>1, <2>6, <2>7 DEF VxAddOk, VxUndos
  <2>9. step' \in VxAdds
    BY <1>6 DEF VxAdds
  <2> QED
    BY <1>3, <1>6, <2>2, <2>4, <2>5, <2>8, <2>9, VxNext
<1>7. CASE UNCHANGED <<arp, fdb, route>> /\ GiveUp /\ Fault
  BY <1>1, <1>2, <1>7, GivenUp
<1> QED
  BY <1>5, <1>6, <1>7 DEF AddArp

\* A failed request writes nothing.
LEMMA VxFault ==
  ASSUME HandInv, VxInv, NEW g, NEW k, NEW a, InHand(g, k, a), Fault,
         UNCHANGED <<ev, told, mode, near, moves, direct, arp, fdb, route>>
  PROVE  /\ VxFrame(g, k, a) /\ VxBase(g, k)'
         /\ faults' # 0 /\ (faults' <= 1 => faults = 0) /\ faults' # faults
         /\ \A f \in Families : Whole(f, k) => Whole(f, k)'
<1>1. /\ faults \in Nat /\ faults' \in Nat /\ faults <= faults' /\ faults' # 0
      /\ (faults' <= 1 => faults = 0) /\ faults' # faults /\ VxType
  BY DEF VxInv, VxType, Fault
<1>2. VxType' /\ \A f, d : Same(f, d)
  BY <1>1, NoneWritten
<1>3. VxFrame(g, k, a) /\ Later /\ VxBase(g, k)
  BY <1>1, <1>2, VxFacts DEF VxFrame, Later
<1>4. VxBase(g, k)'
  BY <1>2, <1>3, SameBase
<1>5. \A f \in Families : Whole(f, k) => Whole(f, k)'
  BY DEF Whole, Quiet, Stable, Bare
<1> QED
  BY <1>1, <1>3, <1>4, <1>5

\* Families to come while the family in hand is worked on.
LEMMA PendingAdds ==
  ASSUME HandInv, VxInv, NEW g, NEW k, NEW a, VxFrame(g, k, a), step \in VxAdds, ArpFirst(g, k)',
         \/ faults' = faults /\ (step' \in VxUndos => step \in VxUndos)
         \/ faults' # 0 /\ step' \in VxUndos /\ (faults' <= 1 => faults = 0)
  PROVE  /\ \A f \in Families : ArpFirst(f, k)'
         /\ \A f \in Families :
              Pending(g, f)' /\ (faults' = 0 \/ (step' \in VxUndos /\ faults' <= 1)) => Whole(f, k)'
<1>1. VxAddOk(g, k, a) /\ UNCHANGED mode
  BY VxFacts DEF VxFrame
<1>2. ASSUME NEW f \in Families, f # g PROVE ArpFirst(f, k)' /\ (Whole(f, k) => Whole(f, k)')
  BY <1>1, <1>2, OtherFam DEF VxAddOk
<1>3. \A f \in Families : Pending(g, f)' => Pending(g, f) /\ f # g
  BY <1>1 DEF Pending, Handled
<1>4. ASSUME NEW f \in Families, Pending(g, f)', faults' = 0 \/ (step' \in VxUndos /\ faults' <= 1)
      PROVE  Whole(f, k)'
  <2>1. Pending(g, f) /\ f # g /\ (faults = 0 \/ (step \in VxUndos /\ faults <= 1))
    BY <1>3, <1>4
  <2> QED
    BY <1>1, <1>2, <2>1 DEF VxAddOk
<1> QED
  BY <1>2, <1>4

LEMMA AddFdbInv ==
  ASSUME HandInv, VxInv, AddFdb
  PROVE  VxInv'
<1>1. step = "fdb" /\ UNCHANGED <<ev, told, mode, near, moves, direct>> /\ \E g, k, a : InHand(g, k, a)
  BY VxAtLemma DEF AddFdb
<1>2. PICK g, k, a : InHand(g, k, a)
  BY <1>1
<1>3. step \in VxAdds /\ VxType /\ faults \in Nat
  BY <1>1 DEF VxAdds, VxInv, VxType
<1>4. /\ g \in Families /\ k \in Subnets /\ a.ip \in Ips /\ a \in AttrsOf(k)
      /\ VxAddOk(g, k, a)
  BY <1>2, <1>3, VxFacts
<1>5. fam' = g /\ fam = g /\ Sn = k /\ Mac = a.id /\ Ip = a.ip /\ UNCHANGED <<arp, route>>
  BY <1>2 DEF InHand, Mac, Ip, AddFdb
<1>6. CASE fdb' = [fdb EXCEPT ![<<g, a.id>>] = a.ip] /\ step' = "route" /\ UNCHANGED faults
  <2>1. /\ VxType' /\ fdb'[<<g, a.id>>] = a.ip
        /\ \A f \in Families, d \in Subnets : d # k \/ f # g => Same(f, d)
    BY <1>1, <1>3, <1>4, <1>5, <1>6, FdbWritten
  <2>2. VxFrame(g, k, a)
    BY <1>1, <1>2, <1>3, <1>6, <2>1 DEF VxFrame
  <2>3. Stable(k) => /\ fdb'[<<g, a.id>>] \in {None, a.ip}
                     /\ faults' = 0 /\ moves = 0 => Kind(g, k, a)'
    <3>1. Stable(k) => (faults = 0 /\ moves = 0 =>
                          <<g, a.ip>> \notin near /\ route[<<g, k>>] \in {None, "vxlan"})
      BY <1>1, <1>2, HandKind
    <3> QED
      BY <1>1, <1>5, <1>6, <2>1, <3>1 DEF Kind
  <2>4. VxBase(g, k)'
    BY <1>1, <1>2, <2>3, HandBase
  <2>5. VxHand(g, a)'
    BY <1>1, <1>6, <2>2, HandStays
  <2>6. ArpFirst(g, k)'
    BY <1>4, <1>5, <1>6 DEF VxAddOk, ArpFirst
  <2>7. VxAddOk(g, k, a)'
    <3>1. step' \notin VxUndos /\ arp'[<<g, k>>] = a.id
      BY <1>1, <1>4, <1>5, <1>6 DEF VxUndos, VxAddOk
    <3>2. /\ \A f \in Families : ArpFirst(f, k)'
          /\ \A f \in Families :
               Pending(g, f)' /\ (faults' = 0 \/ (step' \in VxUndos /\ faults' <= 1)) => Whole(f, k)'
      BY <1>3, <1>6, <2>2, <2>6, <3>1, PendingAdds
    <3> QED
      BY <1>6, <2>1, <3>1, <3>2 DEF VxAddOk
  <2>8. step' \in VxAdds
    BY <1>6 DEF VxAdds
  <2> QED
    BY <1>3, <1>5, <2>2, <2>4, <2>5, <2>7, <2>8, VxNext
<1>7. CASE UNCHANGED fdb /\ step' = "undoArp" /\ Fault
  <2>1. /\ VxFrame(g, k, a) /\ VxBase(g, k)' /\ faults' # 0 /\ (faults' <= 1 => faults = 0)
    BY <1>1, <1>2, <1>5, <1>7, VxFault
  <2>2. VxHand(g, a)'
    BY <1>1, <1>7, <2>1, HandStays
  <2>3. step' \in VxUndos /\ step' \in VxAdds /\ ArpFirst(g, k)'
    BY <1>7, <2>1 DEF VxUndos, VxAdds, ArpFirst
  <2>4. /\ \A f \in Families : ArpFirst(f, k)'
        /\ \A f \in Families :
             Pending(g, f)' /\ (faults' = 0 \/ (step' \in VxUndos /\ faults' <= 1)) => Whole(f, k)'
    BY <1>3, <2>1, <2>3, PendingAdds
  <2>5. faults' <= 1 /\ Quiet(k)' /\ route'[<<g, k>>] = None => fdb'[<<g, a.id>>] = None
    BY <1>1, <1>4, <1>5, <1>7, <2>1 DEF VxAddOk, Quiet, Stable
  <2>6. VxAddOk(g, k, a)'
    BY <1>7, <2>1, <2>4, <2>5 DEF VxAddOk
  <2> QED
    BY <1>3, <1>5, <2>1, <2>2, <2>3, <2>6, VxNext
<1> QED
  BY <1>5, <1>6, <1>7 DEF AddFdb

LEMMA AddRouteInv ==
  ASSUME HandInv, VxInv, AddRoute
  PROVE  VxInv'
<1>1. /\ step = "route" /\ UNCHANGED <<ev, told, mode, near, moves, direct, arp, fdb>>
      /\ \E g, k, a : InHand(g, k, a)
  BY VxAtLemma DEF AddRoute
<1>2. PICK g, k, a : InHand(g, k, a)
  BY <1>1
<1>3. step \in VxAdds /\ VxType /\ faults \in Nat
  BY <1>1 DEF VxAdds, VxInv, VxType
<1>4. /\ g \in Families /\ k \in Subnets /\ a \in AttrsOf(k) /\ a.id # None /\ None # "vxlan"
      /\ VxAddOk(g, k, a) /\ VxMine(k) /\ told[k] = a
  BY <1>2, <1>3, VxFacts
<1>5. fam = g /\ Sn = k
  BY <1>2 DEF InHand
<1>6. arp[<<g, k>>] = a.id /\ fdb[<<g, a.id>>] = a.ip
  BY <1>1, <1>4 DEF VxAddOk
<1>7. CASE route' = [route EXCEPT ![<<g, k>>] = "vxlan"] /\ AddedDone /\ UNCHANGED faults
  <2>1. /\ VxType' /\ route'[<<g, k>>] = "vxlan"
        /\ \A f \in Families, d \in Subnets : d # k \/ f # g => Same(f, d)
    BY <1>1, <1>3, <1>4, <1>7, RouteWritten
  <2>2. VxFrame(g, k, a)
    BY <1>1, <1>2, <1>3, <1>7, <2>1 DEF VxFrame
  <2>3. Stable(k) => /\ fdb'[<<g, a.id>>] \in {None, a.ip}
                     /\ faults' = 0 /\ moves = 0 => Kind(g, k, a)'
    <3>1. Stable(k) => (faults = 0 /\ moves = 0 => <<g, a.ip>> \notin near)
      BY <1>1, <1>2, HandKind
    <3> QED
      BY <1>1, <1>6, <1>7, <2>1, <3>1 DEF Kind
  <2>4. VxBase(g, k)'
    BY <1>1, <1>2, <2>3, HandBase
  <2>5. VxOk(g, k)'
    <3>1. ArpFirst(g, k)' /\ Reach(g, k)' /\ route'[<<g, k>>] # None
      BY <1>1, <1>4, <1>6, <2>1 DEF ArpFirst, Reach
    <3> QED
      BY <1>1, <1>4, <3>1, AddedOk
  <2> QED
    BY <1>3, <1>7, <2>2, <2>4, <2>5, FamAdded
<1>8. CASE UNCHANGED <<route, fam>> /\ step' = "undoBoth" /\ Fault
  <2>1. /\ VxFrame(g, k, a) /\ VxBase(g, k)' /\ faults' # 0 /\ (faults' <= 1 => faults = 0)
    BY <1>1, <1>2, <1>8, VxFault
  <2>2. VxHand(g, a)'
    BY <1>1, <1>8, <2>1, HandStays
  <2>3. step' \in VxUndos /\ step' \in VxAdds /\ ArpFirst(g, k)'
    BY <1>8, <2>1 DEF VxUndos, VxAdds, ArpFirst
  <2>4. /\ \A f \in Families : ArpFirst(f, k)'
        /\ \A f \in Families :
             Pending(g, f)' /\ (faults' = 0 \/ (step' \in VxUndos /\ faults' <= 1)) => Whole(f, k)'
    BY <1>3, <2>1, <2>3, PendingAdds
  <2>5. VxAddOk(g, k, a)'
    BY <1>1, <1>6, <1>8, <2>1, <2>4 DEF VxAddOk
  <2>6. fam' = g
    BY <1>5, <1>8
  <2> QED
    BY <1>3, <2>1, <2>2, <2>3, <2>5, <2>6, VxNext
<1> QED
  BY <1>1, <1>5, <1>7, <1>8 DEF AddRoute, SetRoute

LEMMA ArpDeleted ==
  ASSUME HandInv, VxInv, NEW g, NEW k, NEW a, InHand(g, k, a), step \notin {"direct", "delDirect"},
         UNCHANGED <<ev, told, mode, near, moves, direct, fdb, route, faults>>,
         arp' = [arp EXCEPT ![<<g, k>>] = None]
  PROVE  VxFrame(g, k, a) /\ VxBase(g, k)' /\ arp'[<<g, k>>] = None
<1>1. VxType /\ faults \in Nat /\ g \in Families /\ k \in Subnets
  BY VxFacts DEF VxInv, VxType
<1>2. /\ VxType' /\ arp'[<<g, k>>] = None
      /\ \A f \in Families, d \in Subnets : d # k \/ f # g => Same(f, d)
  BY <1>1, ArpWritten
<1>3. VxFrame(g, k, a)
  BY <1>1, <1>2 DEF VxFrame
<1>4. Stable(k) => /\ fdb'[<<g, a.id>>] \in {None, a.ip}
                   /\ faults' = 0 /\ moves = 0 => Kind(g, k, a)'
  BY HandKind DEF Kind
<1> QED
  BY <1>2, <1>3, <1>4, HandBase

LEMMA FdbDeleted ==
  ASSUME HandInv, VxInv, NEW g, NEW k, NEW a, InHand(g, k, a), step \notin {"direct", "delDirect"},
         UNCHANGED <<ev, told, mode, near, moves, direct, arp, route, faults>>,
         fdb' = [fdb EXCEPT ![<<g, a.id>>] = IF @ = a.ip THEN None ELSE @]
  PROVE  /\ VxFrame(g, k, a) /\ VxBase(g, k)'
         /\ fdb[<<g, a.id>>] \in {None, a.ip} => fdb'[<<g, a.id>>] = None
<1>1. VxType /\ faults \in Nat /\ g \in Families /\ k \in Subnets /\ a \in AttrsOf(k) /\ a.id \in Ids
  BY VxFacts DEF VxInv, VxType
<1>2. PICK v : v = IF fdb[<<g, a.id>>] = a.ip THEN None ELSE fdb[<<g, a.id>>]
  OBVIOUS
<1>3. fdb' = [fdb EXCEPT ![<<g, a.id>>] = v] /\ v \in Ips \cup {None}
  BY <1>1, <1>2 DEF VxType
<1>4. /\ VxType' /\ fdb'[<<g, a.id>>] = v
      /\ \A f \in Families, d \in Subnets : d # k \/ f # g => Same(f, d)
  BY <1>1, <1>3, FdbWritten
<1>5. VxFrame(g, k, a)
  BY <1>1, <1>4 DEF VxFrame
<1>6. Stable(k) => /\ fdb'[<<g, a.id>>] \in {None, a.ip}
                   /\ faults' = 0 /\ moves = 0 => Kind(g, k, a)'
  BY <1>2, <1>4, HandKind DEF Kind
<1> QED
  BY <1>2, <1>4, <1>5, <1>6, HandBase

\* The last request of a failed addition: with no other failure nothing of
\* it is left.
LEMMA Undone ==
  ASSUME HandInv, VxInv, NEW g, NEW k, NEW a, VxFrame(g, k, a), VxBase(g, k)',
         step \in VxUndos, step' = "idle", fam' = g,
         faults' <= 1 => faults' = faults /\ Whole(g, k)'
  PROVE  VxInv'
<1>1. step \in VxAdds /\ InHand(g, k, a)
  BY DEF VxAdds, VxFrame
<1>2. g \in Families /\ VxAddOk(g, k, a) /\ VxMine(k)
  BY <1>1, VxFacts
<1>3. faults' # 0 /\ UNCHANGED <<told, mode>>
  BY <1>2 DEF VxAddOk, VxFrame, VxInv, VxType
<1>4. VxMine(k)'
  BY <1>2, <1>3 DEF VxMine, Decodes, LeaseOf
<1>5. ASSUME NEW f \in Families, f = g \/ Pending(g, f) PROVE VxOk(f, k)'
  <2>1. ASSUME faults' <= 1, f # g PROVE Whole(f, k)'
    <3>1. Whole(f, k)
      BY <1>2, <1>5, <2>1 DEF VxAddOk
    <3> QED
      BY <2>1, <3>1, OtherFam
  <2> QED
    BY <1>3, <1>4, <2>1 DEF VxOk, ArpFirst
<1>6. PICK h : h = fam'
  OBVIOUS
<1> QED
  BY <1>2, <1>5, <1>6, VxNext

LEMMA UndoArpInv ==
  ASSUME HandInv, VxInv, UndoArp
  PROVE  VxInv'
<1>1. /\ step = "undoArp" /\ UNCHANGED <<ev, told, mode, near, moves, direct, fdb, route, fam>>
      /\ step' = "idle" /\ \E g, k, a : InHand(g, k, a)
  BY VxAtLemma DEF UndoArp, DelArp
<1>2. PICK g, k, a : InHand(g, k, a)
  BY <1>1
<1>3. step \in VxUndos /\ step \in VxAdds /\ fam = g /\ Sn = k /\ fam' = g
  BY <1>1, <1>2 DEF VxUndos, VxAdds, InHand
<1>4. VxAddOk(g, k, a) /\ (Stable(k) => \A b \in AttrsOf(k) : b = a)
  BY <1>2, <1>3, VxFacts
<1>5. CASE arp' = [arp EXCEPT ![<<g, k>>] = None] /\ UNCHANGED faults
  <2>1. VxFrame(g, k, a) /\ VxBase(g, k)' /\ arp'[<<g, k>>] = None
    BY <1>1, <1>2, <1>5, ArpDeleted
  <2>2. faults' <= 1 => Whole(g, k)'
    BY <1>1, <1>4, <1>5, <2>1 DEF VxAddOk, Whole, Bare, Quiet, Stable
  <2> QED
    BY <1>1, <1>3, <1>5, <2>1, <2>2, Undone
<1>6. CASE UNCHANGED arp /\ Fault
  <2>1. /\ VxFrame(g, k, a) /\ VxBase(g, k)' /\ (faults' <= 1 => faults = 0)
    BY <1>1, <1>2, <1>6, VxFault
  <2>2. faults # 0
    BY <1>3, <1>4 DEF VxAddOk
  <2> QED
    BY <1>1, <1>3, <2>1, <2>2, Undone
<1> QED
  BY <1>3, <1>5, <1>6 DEF UndoArp, DelArp

LEMMA UndoBothArpInv ==
  ASSUME HandInv, VxInv, UndoBothArp
  PROVE  VxInv'
<1>1. /\ step = "undoBoth" /\ UNCHANGED <<ev, told, mode, near, moves, direct, fdb, route, fam>>
      /\ step' = "undoFdb" /\ \E g, k, a : InHand(g, k, a)
  BY VxAtLemma DEF UndoBothArp, DelArp
<1>2. PICK g, k, a : InHand(g, k, a)
  BY <1>1
<1>3. /\ step \in VxUndos /\ step \in VxAdds /\ fam = g /\ Sn = k /\ fam' = g
      /\ step' \in VxUndos /\ step' \in VxAdds
  BY <1>1, <1>2 DEF VxUndos, VxAdds, InHand
<1>4. VxAddOk(g, k, a) /\ faults \in Nat
  BY <1>2, <1>3, VxFacts DEF VxInv, VxType
<1>5. faults # 0 /\ fdb'[<<g, a.id>>] = a.ip
  BY <1>1, <1>3, <1>4 DEF VxAddOk
<1>6. CASE arp' = [arp EXCEPT ![<<g, k>>] = None] /\ UNCHANGED faults
  <2>1. VxFrame(g, k, a) /\ VxBase(g, k)' /\ arp'[<<g, k>>] = None
    BY <1>1, <1>2, <1>6, ArpDeleted
  <2>2. VxHand(g, a)' /\ ArpFirst(g, k)'
    BY <1>1, <1>5, <1>6, <2>1, HandStays DEF ArpFirst
  <2>3. /\ \A f \in Families : ArpFirst(f, k)'
        /\ \A f \in Families :
             Pending(g, f)' /\ (faults' = 0 \/ (step' \in VxUndos /\ faults' <= 1)) => Whole(f, k)'
    BY <1>3, <1>6, <2>1, <2>2, PendingAdds
  <2>4. VxAddOk(g, k, a)'
    BY <1>1, <1>5, <1>6, <2>1, <2>3 DEF VxAddOk
  <2> QED
    BY <1>3, <2>1, <2>2, <2>4, VxNext
<1>7. CASE UNCHANGED arp /\ Fault
  <2>1. /\ VxFrame(g, k, a) /\ VxBase(g, k)' /\ faults' # 0 /\ ~(faults' <= 1)
    BY <1>1, <1>2, <1>5, <1>7, VxFault
  <2>2. VxHand(g, a)' /\ ArpFirst(g, k)'
    BY <1>1, <2>1, HandStays DEF ArpFirst
  <2>3. \A f \in Families : ArpFirst(f, k)'
    BY <2>1 DEF ArpFirst
  <2>4. VxAddOk(g, k, a)'
    BY <1>1, <1>5, <2>1, <2>3 DEF VxAddOk
  <2> QED
    BY <1>3, <2>1, <2>2, <2>4, VxNext
<1> QED
  BY <1>3, <1>6, <1>7 DEF UndoBothArp, DelArp

LEMMA UndoFdbInv ==
  ASSUME HandInv, VxInv, UndoFdb
  PROVE  VxInv'
<1>1. /\ step = "undoFdb" /\ UNCHANGED <<ev, told, mode, near, moves, direct, arp, route, fam>>
      /\ step' = "idle" /\ \E g, k, a : InHand(g, k, a)
  BY VxAtLemma DEF UndoFdb, DelFdb
<1>2. PICK g, k, a : InHand(g, k, a)
  BY <1>1
<1>3. step \in VxUndos /\ step \in VxAdds /\ fam = g /\ Sn = k /\ fam' = g /\ Mac = a.id /\ Ip = a.ip
  BY <1>1, <1>2 DEF VxUndos, VxAdds, InHand, Mac, Ip
<1>4. VxAddOk(g, k, a) /\ (Stable(k) => \A b \in AttrsOf(k) : b = a)
  BY <1>2, <1>3, VxFacts
<1>5. CASE fdb' = [fdb EXCEPT ![<<g, a.id>>] = IF @ = a.ip THEN None ELSE @] /\ UNCHANGED faults
  <2>1. /\ VxFrame(g, k, a) /\ VxBase(g, k)'
        /\ fdb[<<g, a.id>>] \in {None, a.ip} => fdb'[<<g, a.id>>] = None
    BY <1>1, <1>2, <1>5, FdbDeleted
  <2>2. fdb'[<<g, a.id>>] = None
    BY <1>1, <1>4, <2>1 DEF VxAddOk
  <2>3. faults' <= 1 => Whole(g, k)'
    BY <1>1, <1>4, <1>5, <2>2 DEF VxAddOk, Whole, Bare, Quiet, Stable
  <2> QED
    BY <1>1, <1>3, <1>5, <2>1, <2>3, Undone
<1>6. CASE UNCHANGED fdb /\ Fault
  <2>1. /\ VxFrame(g, k, a) /\ VxBase(g, k)' /\ (faults' <= 1 => faults = 0)
    BY <1>1, <1>2, <1>6, VxFault
  <2>2. faults # 0
    BY <1>3, <1>4 DEF VxAddOk
  <2> QED
    BY <1>1, <1>3, <2>1, <2>2, Undone
<1> QED
  BY <1>3, <1>5, <1>6 DEF UndoFdb, DelFdb

LEMMA RouteDeletedInv ==
  ASSUME HandInv, VxInv, RemoveDirect \/ RemoveRoute
  PROVE  VxInv'
<1>1. PICK s : s \in {"delDirect", "delRoute"} /\ At(s) /\ DelRoute(IF s = "delDirect" THEN Ip ELSE "vxlan")
  BY DEF RemoveDirect, RemoveRoute
<1>2. /\ step = s /\ UNCHANGED <<ev, told, mode, near, moves, direct, arp, fdb>>
      /\ RemovedDone /\ \E g, k, a : InHand(g, k, a)
  BY <1>1, VxAtLemma DEF DelRoute
<1>3. PICK g, k, a : InHand(g, k, a)
  BY <1>2
<1>4. step \in VxDels /\ VxType /\ faults \in Nat /\ fam = g /\ Sn = k /\ Ip = a.ip
  BY <1>1, <1>2, <1>3 DEF VxDels, VxInv, VxType, InHand, Ip
<1>5. /\ g \in Families /\ k \in Subnets /\ a.ip \in Ips /\ None # "vxlan" /\ a.ip # "vxlan"
      /\ VxDelOk(g, k, a) /\ told[k] = None /\ (Stable(k) => \A b \in AttrsOf(k) : b = a)
  BY <1>3, <1>4, VxFacts
<1>6. PICK r : r = IF s = "delDirect" THEN a.ip ELSE "vxlan"
  OBVIOUS
<1>7. CASE route' = [route EXCEPT ![<<g, k>>] = IF @ = r THEN None ELSE @] /\ UNCHANGED faults
  <2>1. PICK v : v = IF route[<<g, k>>] = r THEN None ELSE route[<<g, k>>]
    OBVIOUS
  <2>2. route' = [route EXCEPT ![<<g, k>>] = v] /\ v \in Ips \cup {None, "vxlan"}
    BY <1>4, <1>5, <1>7, <2>1 DEF VxType
  <2>3. /\ VxType' /\ route'[<<g, k>>] = v
        /\ \A f \in Families, d \in Subnets : d # k \/ f # g => Same(f, d)
    BY <1>2, <1>4, <1>5, <1>7, <2>2, RouteWritten
  <2>4. VxFrame(g, k, a)
    BY <1>2, <1>3, <1>4, <1>7, <2>3 DEF VxFrame
  <2>5. Stable(k) => /\ fdb[<<g, a.id>>] \in {None, a.ip}
                     /\ faults = 0 /\ moves = 0 =>
                          /\ v = None
                          /\ <<g, a.ip>> \in near => Bare(g, k)
    BY <1>1, <1>2, <1>3, <1>6, <2>1, HandKind
  <2>6. Stable(k) => /\ fdb'[<<g, a.id>>] \in {None, a.ip}
                     /\ faults' = 0 /\ moves = 0 => Kind(g, k, a)'
    BY <1>2, <1>7, <2>3, <2>5 DEF Kind, Bare
  <2>7. VxBase(g, k)'
    BY <1>2, <1>3, <2>6, HandBase
  <2>8. ArpFirst(g, k)'
    <3>1. CASE s = "delDirect"
      BY <1>2, <1>5, <1>7, <2>1, <2>3, <3>1 DEF VxDelOk, ArpFirst
    <3>2. CASE s = "delRoute"
      BY <1>1, <1>5, <1>6, <2>1, <2>3, <3>2 DEF ArpFirst
    <3> QED
      BY <1>1, <3>1, <3>2
  <2>9. faults' = 0 /\ Quiet(k) => Empty(g, k)'
    <3> SUFFICES ASSUME faults = 0, Quiet(k) PROVE Empty(g, k)'
      BY <1>7
    <3>1. v = None /\ Stable(k)
      BY <2>5 DEF Quiet
    <3>2. Bare(g, k)
      <4>1. CASE s = "delDirect"
        BY <1>2, <1>3, <4>1, HandKind DEF Quiet
      <4>2. CASE s = "delRoute"
        BY <1>2, <1>5, <3>1, <4>2 DEF VxDelOk, Bare
      <4> QED
        BY <1>1, <4>1, <4>2
    <3> QED
      BY <1>2, <2>3, <3>1, <3>2 DEF Empty, Bare
  <2>10. VxOk(g, k)'
    BY <1>2, <1>5, <2>8, <2>9, RemovedOk
  <2> QED
    BY <1>2, <1>4, <2>4, <2>7, <2>10, FamRemoved
<1>8. CASE UNCHANGED route /\ Fault
  <2>1. VxFrame(g, k, a) /\ VxBase(g, k)' /\ faults' # 0
    BY <1>2, <1>3, <1>8, VxFault
  <2>2. VxOk(g, k)'
    BY <1>2, <1>5, <2>1, RemovedOk DEF ArpFirst
  <2> QED
    BY <1>2, <1>4, <2>1, <2>2, FamRemoved
<1> QED
  BY <1>1, <1>4, <1>6, <1>7, <1>8 DEF DelRoute

\* The removal goes on in the family.
LEMMA DelNext ==
  ASSUME HandInv, VxInv, NEW g, NEW k, NEW a, VxFrame(g, k, a), VxBase(g, k)', fam' = g,
         \/ step = "delArp" /\ step' = "delFdb" /\ (faults' = 0 => arp'[<<g, k>>] = None)
         \/ step = "delFdb" /\ step' = "delRoute" /\ (faults' = 0 => arp'[<<g, k>>] = None)
              /\ (faults' = 0 /\ Stable(k) => fdb'[<<g, a.id>>] = None)
  PROVE  VxInv'
<1>1. step \in VxDels /\ step' \in VxDels /\ InHand(g, k, a) /\ UNCHANGED mode
  BY DEF VxDels, VxFrame
<1>2. VxHand(g, a)' /\ VxDelOk(g, k, a)
  BY <1>1, HandStays, VxFacts
<1>3. ASSUME NEW f \in Families, Pending(g, f)' PROVE ArpFirst(f, k)'
  <2>1. Pending(g, f) /\ f # g
    BY <1>1, <1>3 DEF Pending, Handled
  <2> QED
    BY <1>2, <2>1, OtherFam DEF VxDelOk
<1>4. VxDelOk(g, k, a)'
  BY <1>3 DEF VxDelOk, Stable
<1>5. PICK h : h = fam'
  OBVIOUS
<1> QED
  BY <1>1, <1>2, <1>4, <1>5, VxNext

LEMMA RemoveArpInv ==
  ASSUME HandInv, VxInv, RemoveArp
  PROVE  VxInv'
<1>1. /\ step = "delArp" /\ UNCHANGED <<ev, told, mode, near, moves, direct, fdb, route, fam>>
      /\ step' = "delFdb" /\ \E g, k, a : InHand(g, k, a)
  BY VxAtLemma DEF RemoveArp, DelArp
<1>2. PICK g, k, a : InHand(g, k, a)
  BY <1>1
<1>3. fam = g /\ Sn = k /\ fam' = g
  BY <1>1, <1>2 DEF InHand
<1>4. CASE arp' = [arp EXCEPT ![<<g, k>>] = None] /\ UNCHANGED faults
  <2>1. VxFrame(g, k, a) /\ VxBase(g, k)' /\ arp'[<<g, k>>] = None
    BY <1>1, <1>2, <1>4, ArpDeleted
  <2> QED
    BY <1>1, <1>3, <2>1, DelNext
<1>5. CASE UNCHANGED arp /\ Fault
  <2>1. VxFrame(g, k, a) /\ VxBase(g, k)' /\ faults' # 0
    BY <1>1, <1>2, <1>5, VxFault
  <2> QED
    BY <1>1, <1>3, <2>1, DelNext
<1> QED
  BY <1>3, <1>4, <1>5 DEF RemoveArp, DelArp

LEMMA RemoveFdbInv ==
  ASSUME HandInv, VxInv, RemoveFdb
  PROVE  VxInv'
<1>1. /\ step = "delFdb" /\ UNCHANGED <<ev, told, mode, near, moves, direct, arp, route, fam>>
      /\ step' = "delRoute" /\ \E g, k, a : InHand(g, k, a)
  BY VxAtLemma DEF RemoveFdb, DelFdb
<1>2. PICK g, k, a : InHand(g, k, a)
  BY <1>1
<1>3. step \in VxDels /\ fam = g /\ Sn = k /\ fam' = g /\ Mac = a.id /\ Ip = a.ip
  BY <1>1, <1>2 DEF VxDels, InHand, Mac, Ip
<1>4. VxDelOk(g, k, a)
  BY <1>2, <1>3, VxFacts
<1>5. CASE fdb' = [fdb EXCEPT ![<<g, a.id>>] = IF @ = a.ip THEN None ELSE @] /\ UNCHANGED faults
  <2>1. /\ VxFrame(g, k, a) /\ VxBase(g, k)'
        /\ fdb[<<g, a.id>>] \in {None, a.ip} => fdb'[<<g, a.id>>] = None
    BY <1>1, <1>2, <1>5, FdbDeleted
  <2>2. Stable(k) => fdb[<<g, a.id>>] \in {None, a.ip}
    BY <1>2, HandKind
  <2>3. faults' = 0 => arp'[<<g, k>>] = None
    BY <1>1, <1>4, <1>5 DEF VxDelOk
  <2> QED
    BY <1>1, <1>3, <2>1, <2>2, <2>3, DelNext
<1>6. CASE UNCHANGED fdb /\ Fault
  <2>1. VxFrame(g, k, a) /\ VxBase(g, k)' /\ faults' # 0
    BY <1>1, <1>2, <1>6, VxFault
  <2> QED
    BY <1>1, <1>3, <2>1, DelNext
<1> QED
  BY <1>3, <1>5, <1>6 DEF RemoveFdb, DelFdb

LEMMA EmptyOk ==
  ASSUME NEW f \in Families, NEW d, ~Handled(f), VxBase(f, d), Same(f, d), Later
  PROVE  VxOk(f, d)'
<1>1. Empty(f, d)' /\ ~FamEnabled(f)'
  BY DEF VxBase, Empty, Bare, Same, FamEnabled, Handled, Later, Families
<1>2. None # "vxlan"
  BY VxNoneAssumption
<1> QED
  BY <1>1, <1>2 DEF VxOk, ArpFirst, Whole, Empty

LEMMA VxSkipInv ==
  ASSUME HandInv, VxInv, VxSkip
  PROVE  VxInv'
<1>1. Take /\ ~Decodes(ev'.lease) /\ UNCHANGED <<step, faults, fam, direct, arp, fdb, route, near, moves>>
  BY DEF VxSkip, vxVars, vxKernel
<1>2. PICK k, a : k = Key(ev'.lease) /\ a = ev'.lease.attrs
  OBVIOUS
<1>3. /\ step = "idle" /\ mode' = mode /\ mode \in Modes
      /\ ev'.lease \in LeasesOf(mode) /\ k \in Subnets /\ told'[k] = Value(ev')
      /\ \A s \in Subnets : s # k => told'[s] = told[s]
  BY <1>1, <1>2, TakeEvent
<1>4. a \in AttrsOf(k) /\ ev'.lease = LeaseOf(mode, k, a)
  BY <1>2, <1>3, AttrsLemma
<1>5. ~Decodes(LeaseOf(mode, k, a)) /\ ~Decodes(LeaseOf(mode', k, a))
  BY <1>1, <1>3, <1>4
<1>6. VxType /\ faults' \in Nat
  BY <1>1 DEF VxInv, VxType
<1>7. VxType' /\ (\A f, d : Same(f, d)) /\ Later
  BY <1>1, <1>3, <1>6, NoneWritten DEF Later
<1>8. ASSUME NEW f \in Families, NEW d \in Subnets PROVE VxBase(f, d)' /\ VxOk(f, d)'
  <2>1. VxBase(f, d) /\ VxOk(f, d) /\ told[d] \in AttrsOf(d) \cup {None}
    BY <1>3 DEF VxInv, HandInv
  <2>2. VxBase(f, d)'
    BY <1>7, <2>1, SameBase
  <2>3. CASE d # k
    BY <1>3, <1>7, <2>1, <2>2, <2>3, SameOk
  <2>4. CASE d = k
    <3>1. ~VxMine(k)'
      <4>1. told'[k] = a \/ told'[k] = None
        BY <1>2, <1>3 DEF Value
      <4> QED
        BY <1>5, <4>1 DEF VxMine
    <3>2. ArpFirst(f, k)'
      BY <1>1, <2>1, <2>4 DEF VxOk, ArpFirst
    <3>3. Quiet(k)' => Empty(f, k)'
      <4>1. Stable(k) => Empty(f, k)
        BY <1>4, <1>5, <2>1, <2>4 DEF VxBase
      <4> QED
        BY <1>1, <4>1 DEF Quiet, Stable, Empty, Bare
    <3> QED
      BY <2>2, <2>4, <3>1, <3>2, <3>3 DEF VxOk
  <2> QED
    BY <2>3, <2>4
<1>9. step' = "idle" /\ fam' \in Families
  BY <1>1, <1>3 DEF VxInv
<1> QED
  BY <1>7, <1>8, <1>9 DEF VxInv, VxAdds, VxDels, VxUndos

LEMMA VxBeginInv ==
  ASSUME HandInv, VxInv, VxBegin
  PROVE  VxInv'
<1>1. PICK k, a, h : k = Sn' /\ a = ev'.lease.attrs /\ h = fam'
  OBVIOUS
<1>2. /\ Take /\ Decodes(ev'.lease) /\ UNCHANGED <<arp, fdb, route, near, moves>>
      /\ h = FirstFam(ev'.lease) /\ step' = StartOf(ev', direct', h)
      /\ Fault \/ UNCHANGED faults
      /\ direct' = [f \in Families |-> <<f, a.ip>> \in near] \/ Fault
  BY <1>1 DEF VxBegin, vxKernel
<1>3. /\ step = "idle" /\ mode' = mode /\ mode \in Modes /\ ev' \in EventsOf(mode)
      /\ ev'.lease \in LeasesOf(mode) /\ k \in Subnets
      /\ \A s \in Subnets : s # k => told'[s] = told[s]
  BY <1>1, <1>2, TakeEvent DEF Sn
<1>4. ev'.lease = LeaseOf(mode, k, a)
  BY <1>1, <1>3, AttrsLemma DEF Sn
<1>5. (ev'.lease.v4 <=> mode \in {"v4", "dual"}) /\ (ev'.lease.v6 <=> mode \in {"v6", "dual"})
  BY <1>4, LeaseFams
<1>6. h = IF mode \in {"v4", "dual"} THEN "v4" ELSE "v6"
  BY <1>2, <1>5 DEF FirstFam
<1>7. h \in Families /\ Handled(h) /\ Handled(h)'
      /\ \A f \in Families : f # h /\ ~Pending(h, f)' => ~Handled(f)
  BY <1>3, <1>6 DEF Families, Handled, Pending, Modes
<1>8. /\ faults \in Nat /\ faults' \in Nat /\ faults <= faults' /\ (Fault => faults' # 0)
      /\ (faults' = 0 => faults = 0) /\ VxType
  BY <1>2 DEF VxInv, VxType, Fault
<1>9. VxType' /\ (\A f, d : Same(f, d)) /\ Later
  BY <1>2, <1>3, <1>8, NoneWritten DEF Later
<1>10. \A f \in Families, d \in Subnets : VxBase(f, d) /\ VxOk(f, d)
  BY <1>3 DEF VxInv
<1>11. ASSUME NEW f \in Families, NEW d \in Subnets PROVE VxBase(f, d)'
  BY <1>9, <1>10, SameBase
<1>12. ASSUME NEW f \in Families, NEW d \in Subnets, d # k \/ (f # h /\ ~Pending(h, f)')
       PROVE  VxOk(f, d)'
  <2>1. CASE d # k
    <3>1. told'[d] = told[d] /\ told[d] \in AttrsOf(d) \cup {None} /\ VxOk(f, d) /\ Same(f, d)
      BY <1>3, <1>9, <1>10, <2>1 DEF HandInv
    <3> QED
      BY <1>9, <3>1, SameOk
  <2>2. CASE f # h /\ ~Pending(h, f)'
    <3>1. ~Handled(f) /\ VxBase(f, d) /\ Same(f, d)
      BY <1>7, <1>9, <1>10, <2>2
    <3> QED
      BY <1>3, <1>9, <3>1, EmptyOk
  <2> QED
    BY <1>12, <2>1, <2>2
<1>13. ASSUME NEW f \in Families PROVE ArpFirst(f, k)' /\ (faults' = 0 => Whole(f, k)')
  <2>1. VxOk(f, k)
    BY <1>3, <1>10
  <2>2. ArpFirst(f, k)'
    BY <1>2, <1>8, <2>1 DEF VxOk, ArpFirst
  <2>3. faults = 0 => Whole(f, k)
    BY <1>8, <2>1 DEF VxOk, Whole, Empty
  <2>4. Whole(f, k) => Whole(f, k)'
    BY <1>2 DEF Whole, Quiet, Stable, Bare
  <2> QED
    BY <1>8, <2>2, <2>3, <2>4
<1>14. ev'.type \in {"Added", "Removed"}
  BY <1>3 DEF EventsOf, Added, Removed
<1>15. /\ step' = IF ev'.type = "Added" THEN IF direct'[h] THEN "direct" ELSE "arp"
                  ELSE IF direct'[h] THEN "delDirect" ELSE "delArp"
  BY <1>2 DEF StartOf, AddStart, RemoveStart
<1>16. VxHand(h, a)'
  <2>1. step' \in {"direct", "delDirect"} <=> direct'[h]
    BY <1>15
  <2>2. ASSUME faults' = 0, NEW f \in Families PROVE direct'[f] <=> <<f, a.ip>> \in near'
    <3>1. direct' = [g \in Families |-> <<g, a.ip>> \in near] /\ near' = near
      BY <1>2, <1>8, <2>2
    <3>2. direct'[f] = (<<f, a.ip>> \in near)
      BY <3>1
    <3> QED
      BY <3>1, <3>2
  <2>3. Decodes(ev.lease)'
    BY <1>2 DEF Decodes
  <2> QED
    BY <1>7, <2>1, <2>2, <2>3 DEF VxHand
<1>17. step' \in VxAdds => ev'.type = "Added" /\ VxAddOk(h, k, a)'
  <2>1. step' \in VxAdds => step' \in {"direct", "arp"} /\ step' \notin VxUndos /\ ev'.type = "Added"
    BY <1>15 DEF VxAdds, VxUndos
  <2> QED
    BY <1>7, <1>13, <2>1 DEF VxAddOk, VxUndos
<1>18. step' \in VxDels => ev'.type = "Removed" /\ VxDelOk(h, k, a)'
  <2>1. step' \in VxDels => step' \in {"delDirect", "delArp"} /\ ev'.type = "Removed"
    BY <1>14, <1>15 DEF VxDels
  <2> QED
    BY <1>7, <1>13, <2>1 DEF VxDelOk
<1>19. step' # "idle" /\ step' \in VxAdds \cup VxDels
  BY <1>15 DEF VxAdds, VxDels
<1> QED
  BY <1>1, <1>7, <1>9, <1>11, <1>12, <1>16, <1>17, <1>18, <1>19 DEF VxInv

\* What no other step can disturb; the network of a peer may have changed.
LEMMA VxUnchanged ==
  ASSUME HandInv, VxInv, UNCHANGED <<mode, ev, told, step, fam, direct, arp, fdb, route, faults>>,
         moves' \in Nat, moves' = 0 => moves = 0 /\ near' = near
  PROVE  VxInv'
<1>1. VxType /\ faults \in Nat
  BY DEF VxInv, VxType
<1>2. VxType' /\ (\A f, d : Same(f, d)) /\ Later
  BY <1>1 DEF VxType, Same, Later
<1>3. Sn' = Sn /\ ev'.lease.attrs = ev.lease.attrs
  BY DEF Sn
<1>4. ASSUME NEW f \in Families, NEW d \in Subnets PROVE VxBase(f, d)' /\ (VxOk(f, d) => VxOk(f, d)')
  <2>1. VxBase(f, d) /\ told[d] \in AttrsOf(d) \cup {None} /\ told'[d] = told[d]
    BY DEF VxInv, HandInv
  <2> QED
    BY <1>2, <2>1, SameBase, SameOk
<1>5. \A f, d : (ArpFirst(f, d) => ArpFirst(f, d)') /\ (Whole(f, d) => Whole(f, d)') /\ (Quiet(d)' => Quiet(d))
  BY DEF ArpFirst, Whole, Quiet, Stable, Bare
<1>6. \A g, f : Pending(g, f)' <=> Pending(g, f)
  BY DEF Pending, Handled
<1>7. ASSUME NEW g, NEW k, NEW a
      PROVE  /\ VxAddOk(g, k, a) => VxAddOk(g, k, a)'
             /\ VxDelOk(g, k, a) => VxDelOk(g, k, a)'
             /\ VxHand(g, a) => VxHand(g, a)'
  <2>1. VxAddOk(g, k, a) => VxAddOk(g, k, a)'
    BY <1>5, <1>6 DEF VxAddOk
  <2>2. VxDelOk(g, k, a) => VxDelOk(g, k, a)'
    BY <1>5, <1>6 DEF VxDelOk, Stable
  <2>3. VxHand(g, a) => VxHand(g, a)'
    BY DEF VxHand, Decodes, Handled
  <2> QED
    BY <2>1, <2>2, <2>3
<1>8. PICK g, k, a : g = fam /\ k = Sn /\ a = ev.lease.attrs
  OBVIOUS
<1>9. /\ fam' \in Families /\ step' \in VxAdds \cup VxDels \cup {"idle"}
      /\ step # "idle" => VxHand(g, a)
      /\ step \in VxAdds => ev.type = "Added" /\ VxAddOk(g, k, a)
      /\ step \in VxDels => ev.type = "Removed" /\ VxDelOk(g, k, a)
      /\ \A f \in Families, d \in Subnets :
           step = "idle" \/ d # k \/ (f # g /\ ~Pending(g, f)) => VxOk(f, d)
  BY <1>8 DEF VxInv
<1>10. fam' = g /\ Sn' = k /\ ev'.lease.attrs = a
  BY <1>3, <1>8
<1> QED
  BY <1>2, <1>4, <1>6, <1>7, <1>9, <1>10 DEF VxInv

\* Another backend leaves the vxlan device alone.
VxAll ==
  /\ backend = "vxlan" => VxInv
  /\ backend # "vxlan" => \A p \in Families \X Subnets : route[p] = None

LEMMA VxStep ==
  HandInv /\ VxAll /\ [Next]_vars => VxAll'
<1> SUFFICES ASSUME HandInv, VxAll, [Next]_vars PROVE VxAll'
  OBVIOUS
<1>1. backend' = backend
  <2>1. CASE Update \/ Reset
    BY <2>1 DEF Update, Reset, Send
  <2>2. CASE Handler \/ Helper \/ Environment \/ Cancel
    BY <2>2, BackendSteps DEF Take, watcherVars, WatchedVars
  <2> QED
    BY <2>1, <2>2 DEF Next, vars, watcherVars
<1>2. CASE backend # "vxlan"
  <2>1. route' = route
    BY <1>2 DEF Next, Handler, Helper, Environment, vars, backendVars, vxVars, vxKernel
  <2> QED
    BY <1>1, <1>2, <2>1 DEF VxAll
<1>3. CASE backend = "vxlan"
  <2>1. VxInv
    BY <1>3 DEF VxAll
  <2>2. moves \in Nat
    BY <2>1 DEF VxInv, VxType
  <2>3. ASSUME (Update \/ Reset \/ Cancel) /\ UNCHANGED backendVars PROVE VxInv'
    BY <2>1, <2>2, <2>3, VxUnchanged
       DEF Update, Reset, Send, Cancel, eventVars, backendVars, vxVars, vxKernel
  <2>4. ASSUME VxlanHandler PROVE VxInv'
    BY <2>1, <2>4, VxSkipInv, VxBeginInv, AddDirectInv, AddArpInv, AddFdbInv, AddRouteInv,
       UndoArpInv, UndoBothArpInv, UndoFdbInv, RouteDeletedInv, RemoveArpInv, RemoveFdbInv
       DEF VxlanHandler
  <2>5. ASSUME \E f \in Families, ip \in Ips : Move(f, ip) PROVE VxInv'
    <3>1. /\ UNCHANGED <<mode, ev, told, step, fam, direct, arp, fdb, route, faults>>
          /\ moves' = moves + 1
      BY <2>5 DEF Move, watcherVars, eventVars, vxKernel
    <3> QED
      BY <2>1, <2>2, <3>1, VxUnchanged
  <2>6. ASSUME UNCHANGED vars PROVE VxInv'
    BY <2>1, <2>2, <2>6, VxUnchanged DEF vars, watcherVars, eventVars, backendVars, vxVars, vxKernel
  <2>7. VxInv'
    BY <1>3, <2>3, <2>4, <2>5, <2>6 DEF Next, Handler, Helper, Environment
  <2> QED
    BY <1>1, <1>3, <2>7 DEF VxAll
<1> QED
  BY <1>2, <1>3

\* What the kernel has for the vxlan device follows the peers, for any set
\* of nodes, any number of watch results, failures and moves: a tunnelled
\* subnet always has its ARP entry, every peer is reachable at its current
\* attributes between events, and an addition that failed, or a peer that
\* left, leaves nothing behind.
THEOREM VxlanIsFollowing == Spec => []VxFollows
<1>1. Init => VxAll
  <2> SUFFICES ASSUME Init PROVE VxInv /\ \A p \in Families \X Subnets : route[p] = None
    BY DEF VxAll
  <2>1. /\ told = [s \in Subnets |-> None] /\ step = "idle" /\ faults = 0 /\ moves = 0
        /\ fam = "v4"
        /\ arp = [p \in Families \X Subnets |-> None]
        /\ fdb = [p \in Families \X Ids |-> None]
        /\ route = [p \in Families \X Subnets |-> None]
    BY DEF Init, WatcherInit, VxlanInit
  <2>2. VxType /\ fam \in Families
    BY <2>1 DEF VxType, Families
  <2>3. ASSUME NEW f \in Families, NEW d \in Subnets PROVE VxBase(f, d) /\ VxOk(f, d)
    <3>1. \A a \in AttrsOf(d) : a.id \in Ids
      BY AttrsAssumption
    <3>2. Empty(f, d)
      BY <2>1, <3>1 DEF Empty, Bare
    <3>3. ~VxMine(d) /\ None # "vxlan"
      BY <2>1, VxNoneAssumption DEF VxMine
    <3>4. VxOk(f, d)
      BY <3>2, <3>3 DEF VxOk, ArpFirst, Empty
    <3>5. VxBase(f, d)
      BY <3>2 DEF VxBase, Kind, Empty, Bare
    <3> QED
      BY <3>4, <3>5
  <2> QED
    BY <2>1, <2>2, <2>3 DEF VxInv, VxAdds, VxDels, VxUndos
<1>2. HandInv /\ VxAll => VxFollows
  <2> SUFFICES ASSUME HandInv, VxAll PROVE VxFollows
    OBVIOUS
  <2>1. CASE backend # "vxlan"
    BY <2>1, VxNoneAssumption DEF VxAll, VxFollows, RouteHasArp, PeersReachable, NothingLeft
  <2>2. CASE backend = "vxlan"
    <3>1. VxInv /\ faults \in Nat
      BY <2>2 DEF VxAll, VxInv, VxType
    <3>2. ASSUME NEW f \in Families, NEW d \in Subnets, VxMine(d) PROVE ArpFirst(f, d)
      <4>1. CASE step = "idle" \/ d # Sn
        BY <3>1, <4>1 DEF VxInv, VxOk
      <4>2. CASE step # "idle" /\ d = Sn
        <5>1. PICK g, a : InHand(g, d, a)
          BY <4>2 DEF InHand
        <5>2. step \notin VxDels
          BY <3>1, <3>2, <5>1, VxFacts
        <5>3. step \in VxAdds
          BY <3>1, <4>2, <5>2 DEF VxInv
        <5> QED
          BY <3>1, <5>1, <5>3, VxFacts DEF VxAddOk
      <4> QED
        BY <4>1, <4>2
    <3>3. RouteHasArp
      <4> SUFFICES ASSUME faults = 0, NEW p \in Families \X Subnets, VxMine(p[2]), route[p] = "vxlan"
                   PROVE  arp[p] # None
        BY DEF RouteHasArp
      <4>1. p = <<p[1], p[2]>> /\ p[1] \in Families /\ p[2] \in Subnets
        OBVIOUS
      <4> QED
        BY <3>2, <4>1 DEF ArpFirst
    <3>4. step = "idle" => \A f \in Families, d \in Subnets : VxOk(f, d)
      BY <3>1 DEF VxInv
    <3>5. PeersReachable
      <4> SUFFICES ASSUME step = "idle", faults = 0, NEW p \in Families \X Subnets,
                          VxMine(p[2]), FamEnabled(p[1])
                   PROVE  LET a == told[p[2]]
                          IN  \/ route[p] = a.ip
                              \/ route[p] = "vxlan" /\ arp[p] = a.id /\ fdb[<<p[1], a.id>>] = a.ip
        BY DEF PeersReachable
      <4>1. p = <<p[1], p[2]>> /\ p[1] \in Families /\ p[2] \in Subnets
        OBVIOUS
      <4>2. Reach(p[1], p[2])
        BY <3>4, <4>1 DEF VxOk
      <4> QED
        BY <4>1, <4>2 DEF Reach
    <3>6. NothingLeft
      <4> SUFFICES ASSUME step = "idle", moves = 0, NEW p \in Families \X Subnets, Stable(p[2])
                   PROVE  LET bare == /\ arp[p] = None
                                      /\ \A a \in AttrsOf(p[2]) : fdb[<<p[1], a.id>>] = None
                          IN  /\ VxMine(p[2]) /\ faults <= 1 /\ route[p] = None => bare
                              /\ ~VxMine(p[2]) /\ faults = 0 => bare /\ route[p] = None
        BY DEF NothingLeft
      <4>1. p = <<p[1], p[2]>> /\ p[1] \in Families /\ p[2] \in Subnets
        OBVIOUS
      <4>2. VxOk(p[1], p[2]) /\ Quiet(p[2])
        BY <3>4, <4>1 DEF Quiet
      <4> QED
        BY <4>1, <4>2 DEF VxOk, Whole, Empty, Bare
    <3> QED
      BY <3>3, <3>5, <3>6 DEF VxFollows
  <2> QED
    BY <2>1, <2>2
<1> QED
  BY <1>1, <1>2, HandInit, HandStep, VxStep, PTL DEF Spec

-----------------------------------------------------------------------------
(* udp *)

Hops == [dst : Subnets, hop : Ips]
Stop == [cmd |-> "STOP", dst |-> None, hop |-> None]
Commands == [cmd : {"SET", "DEL"}, dst : Subnets, hop : Ips] \cup {Stop}

\* A destination has one entry in a route table.
OneEntry(t) == \A i, j \in 1..Len(t) : t[i].dst = t[j].dst => i = j

\* The entries of subnet d; those a command leaves for its destination; and
\* those that attributes v of d ask for.
RoutesTo(t, d) == {e \in Elements(t) : e.dst = d}
About(c, d) == c.cmd # "STOP" /\ c.dst = d
Effect(c) == IF c.cmd = "SET" THEN {[dst |-> c.dst, hop |-> c.hop]} ELSE {}
Wanted(d, v) == IF v = None THEN {} ELSE {[dst |-> d, hop |-> v.ip]}

\* Command i is the last of the first n that is about d.
LastAbout(cs, n, i, d) ==
  /\ i \in 1..n /\ About(cs[i], d)
  /\ \A j \in 1..n : j > i => ~About(cs[j], d)
Untouched(cs, n, d) == \A i \in 1..n : ~About(cs[i], d)

\* The last command in the socket about a subnet says what was announced
\* last; without one, the table does already.
UdpOk(d) ==
  /\ Untouched(ctl, Len(ctl), d) => RoutesTo(table, d) = Wanted(d, told[d])
  /\ \A i \in 1..Len(ctl) : LastAbout(ctl, Len(ctl), i, d) => Effect(ctl[i]) = Wanted(d, told[d])

UdpInv ==
  /\ ctl \in Seq(Commands)
  /\ table \in Seq(Hops) /\ OneEntry(table)
  /\ proxy # "done" => \A d \in Subnets : UdpOk(d)

-----------------------------------------------------------------------------
(* The route table *)

LEMMA DstAtLemma ==
  ASSUME NEW t \in Seq(Hops), NEW d
  PROVE  \/ DstAt(t, d) = 0 /\ \A i \in 1..Len(t) : t[i].dst # d
         \/ DstAt(t, d) \in 1..Len(t) /\ t[DstAt(t, d)].dst = d
<1> DEFINE I == {i \in 1..Len(t) : t[i].dst = d}
<1>1. DstAt(t, d) = IF I # {} THEN Min(I) ELSE 0
  BY DEF DstAt, SelectInSeq
<1>2. I \in SUBSET Nat
  BY LenProperties
<1>3. CASE I = {}
  BY <1>1, <1>3
<1>4. CASE I # {}
  <2>1. Min(I) \in I
    <3> HIDE DEF I
    <3>1. \E x \in I : \A y \in I : x <= y
      BY <1>2, <1>4, Least
    <3> QED
      BY <3>1 DEF Min
  <2> QED
    BY <1>1, <1>4, <2>1
<1> QED
  BY <1>3, <1>4

LEMMA TableSetLemma ==
  ASSUME NEW t \in Seq(Hops), OneEntry(t), NEW c, c.dst \in Subnets, c.hop \in Ips
  PROVE  /\ TableSet(t, c) \in Seq(Hops) /\ OneEntry(TableSet(t, c))
         /\ Elements(TableSet(t, c))
              = {e \in Elements(t) : e.dst # c.dst} \cup {[dst |-> c.dst, hop |-> c.hop]}
<1> DEFINE e == [dst |-> c.dst, hop |-> c.hop]
<1>0. e \in Hops /\ e.dst = c.dst /\ Len(t) \in Nat
  BY LenProperties DEF Hops
<1>1. PICK i : i = DstAt(t, c.dst)
  OBVIOUS
<1>2. \/ i = 0 /\ \A j \in 1..Len(t) : t[j].dst # c.dst
      \/ i \in 1..Len(t) /\ t[i].dst = c.dst
  BY <1>1, DstAtLemma
<1>3. TableSet(t, c) = IF i = 0 THEN Append(t, e) ELSE ReplaceAt(t, i, e)
  BY <1>1 DEF TableSet
<1> HIDE DEF e
<1>4. CASE i = 0
  <2> DEFINE r == Append(t, e)
  <2>1. /\ r \in Seq(Hops) /\ Len(r) = Len(t) + 1
        /\ \A j \in 1..Len(t) + 1 : r[j] = IF j = Len(t) + 1 THEN e ELSE t[j]
    BY <1>0, AppendProperties
  <2> HIDE DEF r
  <2>2. OneEntry(r)
    BY <1>0, <1>2, <1>4, <2>1 DEF OneEntry
  <2>3. Elements(r) = {h \in Elements(t) : h.dst # c.dst} \cup {e}
    BY <1>0, <1>2, <1>4, <2>1 DEF Elements
  <2> QED
    BY <1>3, <1>4, <2>1, <2>2, <2>3 DEF r, e
<1>5. CASE i # 0
  <2> DEFINE r == [t EXCEPT ![i] = e]
  <2>1. /\ r \in Seq(Hops) /\ Len(r) = Len(t)
        /\ \A j \in 1..Len(t) : r[j] = IF j = i THEN e ELSE t[j]
    BY <1>0, <1>2, <1>5, ExceptSeq
  <2> HIDE DEF r
  <2>2. OneEntry(r)
    BY <1>0, <1>2, <1>5, <2>1 DEF OneEntry
  <2>3. Elements(r) = {h \in Elements(t) : h.dst # c.dst} \cup {e}
    BY <1>0, <1>2, <1>5, <2>1 DEF Elements, OneEntry
  <2> QED
    BY <1>3, <1>5, <2>1, <2>2, <2>3 DEF r, e, ReplaceAt
<1> QED
  BY <1>4, <1>5

\* swap_remove: the last entry fills the gap.
LEMMA TableDelLemma ==
  ASSUME NEW t \in Seq(Hops), OneEntry(t), NEW c
  PROVE  /\ TableDel(t, c) \in Seq(Hops) /\ OneEntry(TableDel(t, c))
         /\ Elements(TableDel(t, c)) = {e \in Elements(t) : e.dst # c.dst}
<1>0. Len(t) \in Nat
  BY LenProperties
<1>1. PICK i : i = DstAt(t, c.dst)
  OBVIOUS
<1>2. \/ i = 0 /\ \A j \in 1..Len(t) : t[j].dst # c.dst
      \/ i \in 1..Len(t) /\ t[i].dst = c.dst
  BY <1>1, DstAtLemma
<1>3. TableDel(t, c) = IF i = 0 THEN t ELSE Front(ReplaceAt(t, i, Last(t)))
  BY <1>1 DEF TableDel
<1>4. CASE i = 0
  BY <1>2, <1>3, <1>4 DEF Elements
<1>5. CASE i # 0
  <2> DEFINE n == Len(t)
             r == [t EXCEPT ![i] = t[n]]
             f == SubSeq(r, 1, n - 1)
  <2>1. n \in 1..n /\ i \in 1..n /\ t[n] \in Hops
    BY <1>0, <1>2, <1>5, ElementOfSeq
  <2>2. /\ r \in Seq(Hops) /\ Len(r) = n
        /\ \A j \in 1..n : r[j] = IF j = i THEN t[n] ELSE t[j]
    BY <2>1, ExceptSeq
  <2> HIDE DEF r
  <2>3. /\ f \in Seq(Hops) /\ Len(f) = n - 1
        /\ \A j \in 1..(n - 1) : f[j] = IF j = i THEN t[n] ELSE t[j]
    BY <1>0, <2>1, <2>2, SubSeqProperties
  <2> HIDE DEF f
  <2>4. OneEntry(f)
    BY <1>0, <2>1, <2>3 DEF OneEntry
  <2>5. Elements(f) = {e \in Elements(t) : e.dst # c.dst}
    <3>1. ASSUME NEW j \in 1..(n - 1) PROVE f[j] \in Elements(t) /\ f[j].dst # c.dst
      <4>1. PICK k \in 1..n : k # i /\ f[j] = t[k]
        <5>1. CASE j = i
          BY <1>0, <2>1, <2>3, <5>1
        <5>2. CASE j # i
          BY <1>0, <2>1, <2>3, <5>2
        <5> QED
          BY <5>1, <5>2
      <4>2. t[k].dst # c.dst
        BY <1>2, <1>5, <2>1, <4>1 DEF OneEntry
      <4> QED
        BY <4>1, <4>2 DEF Elements
    <3>2. ASSUME NEW j \in 1..n, t[j].dst # c.dst PROVE t[j] \in Elements(f)
      <4>1. j # i
        BY <1>2, <1>5, <3>2
      <4>2. CASE j = n
        <5>1. i \in 1..(n - 1) /\ f[i] = t[n]
          BY <1>0, <2>1, <2>3, <4>1, <4>2
        <5> QED
          BY <2>3, <4>2, <5>1 DEF Elements
      <4>3. CASE j # n
        <5>1. j \in 1..(n - 1) /\ f[j] = t[j]
          BY <1>0, <2>1, <2>3, <4>1, <4>3
        <5> QED
          BY <2>3, <5>1 DEF Elements
      <4> QED
        BY <4>2, <4>3
    <3> QED
      BY <2>3, <3>1, <3>2 DEF Elements
  <2>6. TableDel(t, c) = f
    BY <1>3, <1>5, <2>2 DEF Front, Last, ReplaceAt, r, f
  <2> QED
    BY <2>3, <2>4, <2>5, <2>6
<1> QED
  BY <1>4, <1>5

\* A hit swaps two entries: none is lost, copied or changed.
LEMMA TableFindLemma ==
  ASSUME NEW t \in Seq(Hops), OneEntry(t), NEW d
  PROVE  /\ TableFind(t, d) \in Seq(Hops) /\ OneEntry(TableFind(t, d))
         /\ Elements(TableFind(t, d)) = Elements(t)
<1>0. Len(t) \in Nat
  BY LenProperties
<1>1. PICK i : i = DstAt(t, d)
  OBVIOUS
<1>2. i = 0 \/ i \in 1..Len(t)
  BY <1>1, DstAtLemma
<1>3. TableFind(t, d) = IF i = 0 THEN t ELSE [t EXCEPT ![1] = t[i], ![i] = t[1]]
  BY <1>1 DEF TableFind
<1>4. CASE i = 0
  BY <1>3, <1>4
<1>5. CASE i # 0
  <2> DEFINE n == Len(t)
             q == [t EXCEPT ![1] = t[i]]
             r == [q EXCEPT ![i] = t[1]]
  <2>1. 1 \in 1..n /\ i \in 1..n /\ t[1] \in Hops /\ t[i] \in Hops
    BY <1>0, <1>2, <1>5, ElementOfSeq
  <2>2. /\ q \in Seq(Hops) /\ Len(q) = n
        /\ \A j \in 1..n : q[j] = IF j = 1 THEN t[i] ELSE t[j]
    BY <2>1, ExceptSeq
  <2> HIDE DEF q
  <2>3. /\ r \in Seq(Hops) /\ Len(r) = n
        /\ \A j \in 1..n : r[j] = IF j = i THEN t[1] ELSE q[j]
    BY <2>1, <2>2, ExceptSeq
  <2>4. TableFind(t, d) = r
    BY <1>3, <1>5 DEF q
  <2> HIDE DEF r
  <2>5. \A j \in 1..n : r[j] = IF j = i THEN t[1] ELSE IF j = 1 THEN t[i] ELSE t[j]
    BY <2>2, <2>3
  <2>6. OneEntry(r)
    BY <2>1, <2>3, <2>5 DEF OneEntry
  <2>7. Elements(r) = Elements(t)
    <3>1. ASSUME NEW j \in 1..n PROVE r[j] \in Elements(t)
      BY <2>1, <2>5 DEF Elements
    <3>2. ASSUME NEW j \in 1..n PROVE t[j] \in Elements(r)
      <4>1. PICK k \in 1..n : r[k] = t[j]
        BY <2>1, <2>5
      <4> QED
        BY <2>3, <4>1 DEF Elements
    <3>3. Elements(r) = {r[j] : j \in 1..n}
      BY <2>3 DEF Elements
    <3>4. Elements(r) \subseteq Elements(t)
      BY <3>1, <3>3
    <3>5. Elements(t) = {t[j] : j \in 1..n}
      BY DEF Elements
    <3>6. Elements(t) \subseteq Elements(r)
      BY <3>2, <3>5
    <3> QED
      BY <3>4, <3>6
  <2> QED
    BY <2>3, <2>4, <2>6, <2>7
<1> QED
  BY <1>4, <1>5

\* A command decides the entries of its destination and leaves the others.
LEMMA RouteCmdLemma ==
  ASSUME NEW t \in Seq(Hops), OneEntry(t), NEW c \in Commands
  PROVE  /\ RouteCmd(t, c) \in Seq(Hops) /\ OneEntry(RouteCmd(t, c))
         /\ \A d : RoutesTo(RouteCmd(t, c), d) = IF About(c, d) THEN Effect(c) ELSE RoutesTo(t, d)
<1>1. CASE c = Stop
  BY <1>1 DEF Stop, RouteCmd, About
<1>2. CASE c.cmd = "SET"
  <2>1. c.dst \in Subnets /\ c.hop \in Ips
    BY <1>2 DEF Commands, Stop
  <2>2. RouteCmd(t, c) = TableSet(t, c)
    BY <1>2 DEF RouteCmd
  <2>3. PICK r : r = TableSet(t, c)
    OBVIOUS
  <2>4. /\ r \in Seq(Hops) /\ OneEntry(r)
        /\ Elements(r) = {e \in Elements(t) : e.dst # c.dst} \cup {[dst |-> c.dst, hop |-> c.hop]}
    BY <2>1, <2>3, TableSetLemma
  <2>5. ASSUME NEW d PROVE RoutesTo(r, d) = IF About(c, d) THEN Effect(c) ELSE RoutesTo(t, d)
    BY <1>2, <2>4 DEF RoutesTo, About, Effect
  <2> QED
    BY <2>2, <2>3, <2>4, <2>5
<1>3. CASE c.cmd = "DEL"
  <2>1. RouteCmd(t, c) = TableDel(t, c)
    BY <1>3 DEF RouteCmd
  <2>2. PICK r : r = TableDel(t, c)
    OBVIOUS
  <2>3. r \in Seq(Hops) /\ OneEntry(r) /\ Elements(r) = {e \in Elements(t) : e.dst # c.dst}
    BY <2>2, TableDelLemma
  <2>4. ASSUME NEW d PROVE RoutesTo(r, d) = IF About(c, d) THEN Effect(c) ELSE RoutesTo(t, d)
    BY <1>3, <2>3 DEF RoutesTo, About, Effect
  <2> QED
    BY <2>1, <2>2, <2>3, <2>4
<1> QED
  BY <1>1, <1>2, <1>3 DEF Commands

\* The commands in flight, one after the other.
AppliedRun(t, cs) ==
  CHOOSE run : run = [k \in 0..Len(cs) |-> IF k = 0 THEN t ELSE RouteCmd(run[k - 1], cs[k])]

LEMMA AppliedRuns ==
  ASSUME Len(ctl) \in Nat
  PROVE  \E run : /\ Applied = run[Len(ctl)]
                  /\ run[0] = table
                  /\ \A k \in 1..Len(ctl) : run[k] = RouteCmd(run[k - 1], ctl[k])
<1>0. PICK b, cs : b = table /\ cs = ctl
  OBVIOUS
<1> DEFINE F(f, k) == IF k = 0 THEN b ELSE RouteCmd(f[k - 1], cs[k])
           S == {n \in Nat : \E f : f = [k \in 0..n |-> F(f, k)]}
<1>1. 0 \in S
  <2>1. [k \in 0..0 |-> b] = [k \in 0..0 |-> F([j \in 0..0 |-> b], k)]
    OBVIOUS
  <2> QED
    BY <2>1
<1>2. ASSUME NEW n \in Nat, n \in S PROVE n + 1 \in S
  <2>1. PICK f : f = [k \in 0..n |-> F(f, k)]
    BY <1>2
  <2> DEFINE g == [k \in 0..(n + 1) |-> IF k = n + 1 THEN RouteCmd(f[n], cs[n + 1]) ELSE f[k]]
  <2>2. ASSUME NEW k \in 0..(n + 1) PROVE g[k] = F(g, k)
    <3>1. CASE k = n + 1
      BY <3>1
    <3>2. CASE k = 0
      <4>1. g[k] = f[0] /\ f[0] = b
        BY <2>1, <3>2
      <4> QED
        BY <3>2, <4>1
    <3>3. CASE k \in 1..n
      <4>1. g[k] = f[k] /\ g[k - 1] = f[k - 1]
        BY <3>3
      <4>2. f[k] = RouteCmd(f[k - 1], cs[k])
        BY <2>1, <3>3
      <4> QED
        BY <3>3, <4>1, <4>2
    <3> QED
      BY <3>1, <3>2, <3>3
  <2>3. g = [k \in 0..(n + 1) |-> F(g, k)]
    BY <2>2
  <2>4. \E h : h = [k \in 0..(n + 1) |-> F(h, k)]
    <3> HIDE DEF g, F
    <3> WITNESS g
    <3> QED
      BY <2>3
  <2> QED
    BY <2>4
<1>3. Len(cs) \in S
  <2> HIDE DEF S
  <2> QED
    BY <1>0, <1>1, <1>2, Induction
<1> DEFINE run == AppliedRun(b, cs)
<1>4. run = [k \in 0..Len(cs) |-> F(run, k)]
  BY <1>3 DEF AppliedRun
<1>5. Applied = run[Len(cs)]
  BY <1>0 DEF Applied, AppliedRun
<1>6. run[0] = b
  BY <1>0, <1>4
<1>7. \A k \in 1..Len(cs) : run[k] = RouteCmd(run[k - 1], cs[k])
  BY <1>4
<1> HIDE DEF run
<1> WITNESS run
<1> QED
  BY <1>0, <1>5, <1>6, <1>7

\* A table that the first n commands lead to from t.
Reached(t, cs, n, r) ==
  /\ r \in Seq(Hops) /\ OneEntry(r)
  /\ \A d \in Subnets :
       /\ Untouched(cs, n, d) => RoutesTo(r, d) = RoutesTo(t, d)
       /\ \A i \in 1..n : LastAbout(cs, n, i, d) => RoutesTo(r, d) = Effect(cs[i])

LEMMA ReachedStep ==
  ASSUME NEW t, NEW cs \in Seq(Commands), NEW n \in Nat, n + 1 \in 1..Len(cs),
         NEW r, Reached(t, cs, n, r)
  PROVE  Reached(t, cs, n + 1, RouteCmd(r, cs[n + 1]))
<1>1. PICK q : q = RouteCmd(r, cs[n + 1])
  OBVIOUS
<1>2. cs[n + 1] \in Commands
  BY ElementOfSeq
<1>3. /\ q \in Seq(Hops) /\ OneEntry(q)
      /\ \A d : RoutesTo(q, d) = IF About(cs[n + 1], d) THEN Effect(cs[n + 1]) ELSE RoutesTo(r, d)
  BY <1>1, <1>2, RouteCmdLemma DEF Reached
<1>4. ASSUME NEW d \in Subnets, Untouched(cs, n + 1, d) PROVE RoutesTo(q, d) = RoutesTo(t, d)
  <2>1. Untouched(cs, n, d) /\ ~About(cs[n + 1], d)
    BY <1>4 DEF Untouched
  <2> QED
    BY <1>3, <2>1 DEF Reached
<1>5. ASSUME NEW d \in Subnets, NEW i \in 1..(n + 1), LastAbout(cs, n + 1, i, d)
      PROVE  RoutesTo(q, d) = Effect(cs[i])
  <2>1. CASE i = n + 1
    BY <1>3, <1>5, <2>1 DEF LastAbout
  <2>2. CASE i # n + 1
    <3>1. i \in 1..n /\ LastAbout(cs, n, i, d) /\ ~About(cs[n + 1], d)
      BY <1>5, <2>2 DEF LastAbout
    <3> QED
      BY <1>3, <3>1 DEF Reached
  <2> QED
    BY <2>1, <2>2
<1> QED
  BY <1>1, <1>3, <1>4, <1>5 DEF Reached

\* So the commands in flight lead to what was announced.
LEMMA AppliedLemma ==
  ASSUME UdpInv, proxy # "done"
  PROVE  /\ Applied \in Seq(Hops) /\ OneEntry(Applied)
         /\ \A d \in Subnets : RoutesTo(Applied, d) = Wanted(d, told[d])
<1>1. ctl \in Seq(Commands) /\ Len(ctl) \in Nat /\ table \in Seq(Hops) /\ OneEntry(table)
  BY LenProperties DEF UdpInv
<1>2. PICK run : /\ Applied = run[Len(ctl)]
                 /\ run[0] = table
                 /\ \A k \in 1..Len(ctl) : run[k] = RouteCmd(run[k - 1], ctl[k])
  BY <1>1, AppliedRuns
<1> DEFINE S == {n \in Nat : n <= Len(ctl) => Reached(table, ctl, n, run[n])}
<1>3. 0 \in S
  BY <1>1, <1>2 DEF Reached
<1>4. ASSUME NEW n \in Nat, n \in S PROVE n + 1 \in S
  <2> SUFFICES ASSUME n + 1 <= Len(ctl) PROVE Reached(table, ctl, n + 1, run[n + 1])
    OBVIOUS
  <2>1. n + 1 \in 1..Len(ctl) /\ Reached(table, ctl, n, run[n])
    BY <1>1, <1>4
  <2>2. run[n + 1] = RouteCmd(run[n], ctl[n + 1])
    BY <1>2, <2>1
  <2> QED
    BY <1>1, <2>1, <2>2, ReachedStep
<1>5. Len(ctl) \in S
  <2> HIDE DEF S
  <2> QED
    BY <1>1, <1>3, <1>4, Induction
<1>6. Reached(table, ctl, Len(ctl), Applied)
  BY <1>1, <1>2, <1>5
<1>7. ASSUME NEW d \in Subnets PROVE RoutesTo(Applied, d) = Wanted(d, told[d])
  <2>1. UdpOk(d)
    BY DEF UdpInv
  <2>2. CASE Untouched(ctl, Len(ctl), d)
    BY <1>6, <2>1, <2>2 DEF UdpOk, Reached
  <2>3. CASE ~Untouched(ctl, Len(ctl), d)
    <3>1. PICK i \in 1..Len(ctl) : LastAbout(ctl, Len(ctl), i, d)
      <4> DEFINE D == {n \in Nat : Len(ctl) - n \in 1..Len(ctl) /\ About(ctl[Len(ctl) - n], d)}
      <4>1. PICK j \in 1..Len(ctl) : About(ctl[j], d)
        BY <2>3 DEF Untouched
      <4>2. Len(ctl) - j \in D
        BY <1>1, <4>1
      <4>3. PICK x \in D : \A y \in D : x <= y
        BY <4>2, Least
      <4>4. ASSUME NEW k \in 1..Len(ctl), k > Len(ctl) - x PROVE ~About(ctl[k], d)
        <5>1. Len(ctl) - k \in Nat /\ Len(ctl) - k < x /\ Len(ctl) - (Len(ctl) - k) = k
          BY <1>1, <4>4
        <5>2. x \in Nat
          BY <4>3
        <5>3. Len(ctl) - k \notin D
          <6> HIDE DEF D
          <6> QED
            BY <4>3, <5>1, <5>2
        <5> QED
          BY <5>1, <5>3
      <4>5. LastAbout(ctl, Len(ctl), Len(ctl) - x, d)
        BY <4>3, <4>4 DEF LastAbout
      <4> QED
        BY <4>3, <4>5
    <3> QED
      BY <1>6, <2>1, <3>1 DEF UdpOk, Reached
  <2> QED
    BY <2>2, <2>3
<1> QED
  BY <1>6, <1>7 DEF Reached

-----------------------------------------------------------------------------
(* The steps of handler and proxy *)

\* A command put into the socket.
LEMMA AppendOk ==
  ASSUME UdpInv, NEW c \in Commands, ctl' = Append(ctl, c), UNCHANGED table, NEW d \in Subnets,
         UdpOk(d),
         IF About(c, d) THEN Effect(c) = Wanted(d, told'[d]) ELSE told'[d] = told[d]
  PROVE  UdpOk(d)'
<1> DEFINE n == Len(ctl)
<1>1. /\ n \in Nat /\ Len(ctl') = n + 1
      /\ \A j \in 1..(n + 1) : ctl'[j] = IF j = n + 1 THEN c ELSE ctl[j]
  BY LenProperties, AppendProperties DEF UdpInv
<1> HIDE DEF n
<1>2. ASSUME Untouched(ctl', n + 1, d) PROVE RoutesTo(table', d) = Wanted(d, told'[d])
  <2>1. ~About(c, d) /\ Untouched(ctl, n, d)
    BY <1>1, <1>2 DEF Untouched
  <2> QED
    BY <2>1 DEF UdpOk, n
<1>3. ASSUME NEW i \in 1..(n + 1), LastAbout(ctl', n + 1, i, d)
      PROVE  Effect(ctl'[i]) = Wanted(d, told'[d])
  <2>1. CASE i = n + 1
    BY <1>1, <1>3, <2>1 DEF LastAbout
  <2>2. CASE i # n + 1
    <3>1. i \in 1..n /\ LastAbout(ctl, n, i, d) /\ ~About(c, d) /\ ctl'[i] = ctl[i]
      BY <1>1, <1>3, <2>2 DEF LastAbout
    <3> QED
      BY <3>1 DEF UdpOk, n
  <2> QED
    BY <2>1, <2>2
<1> QED
  BY <1>1, <1>2, <1>3 DEF UdpOk

\* process_subnet_events: the event and its command.
LEMMA UdpEventInv ==
  ASSUME HandInv, UdpInv, UdpEvent
  PROVE  UdpInv'
<1>1. PICK k : k = Key(ev'.lease)
  OBVIOUS
<1>2. PICK a : a = ev'.lease.attrs
  OBVIOUS
<1>3. PICK c : c = [cmd |-> IF ev'.type = "Added" THEN "SET" ELSE "DEL", dst |-> k, hop |-> a.ip]
  OBVIOUS
<1>4. /\ mode \in Modes /\ ev'.lease \in LeasesOf(mode) /\ k \in Subnets
      /\ told'[k] = Value(ev') /\ \A s \in Subnets : s # k => told'[s] = told[s]
  BY <1>1, TakeEvent DEF UdpEvent
<1>5. a.ip \in Ips /\ a # None
  BY <1>2, <1>4, AttrsLemma, LeaseLemma
<1>6. c \in Commands /\ c.dst = k /\ c.cmd # "STOP"
  BY <1>3, <1>4, <1>5 DEF Commands
<1>7. Effect(c) = Wanted(k, told'[k])
  BY <1>2, <1>3, <1>4, <1>5 DEF Effect, Wanted, Value
<1>8. WriteCommand(c) /\ UNCHANGED <<proxy, table>>
  BY <1>1, <1>2, <1>3 DEF UdpEvent
<1>9. CASE proxy # "done" /\ ctl' = Append(ctl, c)
  <2>1. ASSUME NEW d \in Subnets PROVE UdpOk(d)'
    <3>1. IF About(c, d) THEN Effect(c) = Wanted(d, told'[d]) ELSE told'[d] = told[d]
      BY <1>4, <1>6, <1>7 DEF About
    <3>2. UdpOk(d)
      BY <1>9 DEF UdpInv
    <3> QED
      BY <1>6, <1>8, <1>9, <3>1, <3>2, AppendOk
  <2>2. ctl' \in Seq(Commands)
    BY <1>6, <1>9, AppendProperties DEF UdpInv
  <2> QED
    BY <1>8, <2>1, <2>2 DEF UdpInv
<1>10. CASE proxy = "done" /\ UNCHANGED ctl
  BY <1>8, <1>10 DEF UdpInv
<1> QED
  BY <1>8, <1>9, <1>10 DEF WriteCommand

LEMMA StopProxyInv ==
  ASSUME UdpInv, StopProxy
  PROVE  UdpInv'
<1>1. WriteCommand(Stop) /\ UNCHANGED <<proxy, table, told>>
  BY DEF StopProxy, Stop, eventVars
<1>2. Stop \in Commands /\ \A d : ~About(Stop, d)
  BY DEF Commands, Stop, About
<1>3. CASE proxy # "done" /\ ctl' = Append(ctl, Stop)
  <2>1. ASSUME NEW d \in Subnets PROVE UdpOk(d)'
    <3>1. UdpOk(d) /\ told'[d] = told[d]
      BY <1>1, <1>3 DEF UdpInv
    <3> QED
      BY <1>1, <1>2, <1>3, <3>1, AppendOk
  <2>2. ctl' \in Seq(Commands)
    BY <1>2, <1>3, AppendProperties DEF UdpInv
  <2> QED
    BY <1>1, <2>1, <2>2 DEF UdpInv
<1>4. CASE proxy = "done" /\ UNCHANGED ctl
  BY <1>1, <1>4 DEF UdpInv
<1> QED
  BY <1>1, <1>3, <1>4 DEF WriteCommand

\* process_cmd: what the command says of its destination moves from the
\* socket to the table.
LEMMA ProcessCmdInv ==
  ASSUME UdpInv, ProcessCmd
  PROVE  UdpInv'
<1>1. CASE ctl # <<>> /\ table' = RouteCmd(table, Head(ctl)) /\ ctl' = Tail(ctl)
  <2> DEFINE n == Len(ctl)
  <2>1. PICK c : c = ctl[1]
    OBVIOUS
  <2>2. n \in Nat /\ 1 \in 1..n
    BY <1>1, EmptySeq, LenProperties DEF UdpInv
  <2>3. /\ c \in Commands /\ Head(ctl) = c
        /\ ctl' \in Seq(Commands) /\ Len(ctl') = n - 1
        /\ \A j \in 1..(n - 1) : ctl'[j] = ctl[j + 1]
    BY <1>1, <2>1, <2>2, ElementOfSeq, HeadTailProperties DEF UdpInv
  <2>4. PICK t, q : t = table /\ q = RouteCmd(t, c)
    OBVIOUS
  <2>5. t \in Seq(Hops) /\ OneEntry(t)
    BY <2>4 DEF UdpInv
  <2>6. /\ RouteCmd(t, c) \in Seq(Hops) /\ OneEntry(RouteCmd(t, c))
         /\ \A d : RoutesTo(RouteCmd(t, c), d) = IF About(c, d) THEN Effect(c) ELSE RoutesTo(t, d)
    BY <2>3, <2>5, RouteCmdLemma
  <2>7. /\ q \in Seq(Hops) /\ OneEntry(q)
        /\ \A d : RoutesTo(q, d) = IF About(c, d) THEN Effect(c) ELSE RoutesTo(table, d)
    BY <2>4, <2>6
  <2>8. table' = q /\ UNCHANGED told
    <3>1. UNCHANGED told
      BY DEF ProcessCmd, eventVars
    <3> QED
      BY <1>1, <2>3, <2>4, <3>1
  <2> HIDE DEF n
  <2>9. ASSUME NEW d \in Subnets, UdpOk(d) PROVE UdpOk(d)'
    <3>1. ASSUME Untouched(ctl', n - 1, d) PROVE RoutesTo(q, d) = Wanted(d, told[d])
      <4>1. ASSUME NEW j \in 1..n, j > 1 PROVE ~About(ctl[j], d)
        <5>1. j - 1 \in 1..(n - 1) /\ ctl'[j - 1] = ctl[j]
          BY <2>2, <2>3, <4>1
        <5> QED
          BY <3>1, <5>1 DEF Untouched
      <4>2. CASE About(c, d)
        <5>1. LastAbout(ctl, n, 1, d)
          BY <2>1, <2>2, <4>1, <4>2 DEF LastAbout
        <5> QED
          BY <2>1, <2>2, <2>7, <2>9, <4>2, <5>1 DEF UdpOk, n
      <4>3. CASE ~About(c, d)
        <5>1. Untouched(ctl, n, d)
          BY <2>1, <2>2, <4>1, <4>3 DEF Untouched
        <5> QED
          BY <2>7, <2>9, <4>3, <5>1 DEF UdpOk, n
      <4> QED
        BY <4>2, <4>3
    <3>2. ASSUME NEW i \in 1..(n - 1), LastAbout(ctl', n - 1, i, d)
          PROVE  Effect(ctl'[i]) = Wanted(d, told[d])
      <4>1. i + 1 \in 1..n /\ ctl'[i] = ctl[i + 1] /\ About(ctl[i + 1], d)
        BY <2>2, <2>3, <3>2 DEF LastAbout
      <4>2. ASSUME NEW j \in 1..n, j > i + 1 PROVE ~About(ctl[j], d)
        <5>1. j - 1 \in 1..(n - 1) /\ j - 1 > i /\ ctl'[j - 1] = ctl[j]
          BY <2>2, <2>3, <4>2
        <5> QED
          BY <3>2, <5>1 DEF LastAbout
      <4>3. LastAbout(ctl, n, i + 1, d)
        BY <4>1, <4>2 DEF LastAbout
      <4> QED
        BY <2>9, <4>1, <4>3 DEF UdpOk, n
    <3> QED
      BY <2>3, <2>8, <3>1, <3>2 DEF UdpOk
  <2>10. proxy # "done"
    BY DEF ProcessCmd
  <2> QED
    BY <2>3, <2>7, <2>8, <2>9, <2>10 DEF UdpInv
<1>2. CASE proxy' = "done" /\ UNCHANGED <<ctl, table>>
  BY <1>2 DEF UdpInv
<1> QED
  BY <1>1, <1>2 DEF ProcessCmd

\* A packet reorders the table.
LEMMA RoutePacketInv ==
  ASSUME UdpInv, NEW d \in Subnets, RoutePacket(d)
  PROVE  UdpInv'
<1>1. table' = TableFind(table, d) /\ UNCHANGED <<ctl, proxy, told>>
  BY DEF RoutePacket, eventVars
<1>2. table' \in Seq(Hops) /\ OneEntry(table') /\ Elements(table') = Elements(table)
  BY <1>1, TableFindLemma DEF UdpInv
<1>3. ASSUME NEW e \in Subnets, UdpOk(e) PROVE UdpOk(e)'
  BY <1>1, <1>2, <1>3 DEF UdpOk, RoutesTo
<1> QED
  BY <1>1, <1>2, <1>3 DEF UdpInv

LEMMA UdpUnchanged ==
  ASSUME UdpInv, UNCHANGED <<told, ctl, table>>, proxy = "done" => proxy' = "done"
  PROVE  UdpInv'
<1>1. ASSUME NEW d \in Subnets, UdpOk(d) PROVE UdpOk(d)'
  BY <1>1 DEF UdpOk
<1> QED
  BY <1>1 DEF UdpInv

LEMMA UdpStep ==
  HandInv /\ (backend = "udp" => UdpInv) /\ [Next]_vars => (backend = "udp" => UdpInv)'
<1> SUFFICES ASSUME HandInv, backend = "udp" => UdpInv, [Next]_vars, backend' = "udp"
             PROVE  UdpInv'
  OBVIOUS
<1>1. backend = "udp"
  <2>1. CASE Update \/ Reset
    BY <2>1 DEF Update, Reset, Send
  <2>2. CASE Handler \/ Helper \/ Environment \/ Cancel
    BY <2>2, BackendSteps DEF Take, watcherVars, WatchedVars
  <2> QED
    BY <2>1, <2>2 DEF Next, vars, watcherVars
<1>2. UdpInv
  BY <1>1
<1>3. CASE (Update \/ Reset \/ Cancel) /\ UNCHANGED backendVars
  BY <1>2, <1>3, UdpUnchanged DEF Update, Reset, Send, Cancel, eventVars, backendVars, udpVars
<1>4. CASE UdpHandler
  BY <1>2, <1>4, UdpEventInv, StopProxyInv DEF UdpHandler
<1>5. CASE BurstEnds \/ BurstBegins
  BY <1>2, <1>5, UdpUnchanged DEF BurstEnds, BurstBegins, eventVars
<1>6. CASE ProcessCmd \/ \E d \in Subnets : RoutePacket(d)
  BY <1>2, <1>6, ProcessCmdInv, RoutePacketInv
<1>7. CASE UNCHANGED vars
  BY <1>2, <1>7, UdpUnchanged DEF vars, eventVars, backendVars, udpVars
<1> QED
  BY <1>1, <1>3, <1>4, <1>5, <1>6, <1>7 DEF Next, Handler, Helper, Environment

\* The proxy's route table follows the leases: whatever commands are still
\* in the socket and however packets have reordered it, it is on the way to
\* one entry per announced subnet, with the address announced last. For any
\* capacity of the socket and any number of commands, packets and subnets.
THEOREM ProxyIsInSync == Spec => []UdpInSync
<1>1. Init => (backend = "udp" => UdpInv)
  <2> SUFFICES ASSUME Init PROVE UdpInv
    OBVIOUS
  <2>1. told = [s \in Subnets |-> None] /\ ctl = <<>> /\ table = <<>>
    BY DEF Init, WatcherInit, UdpInit
  <2>2. Len(ctl) = 0 /\ Len(table) = 0
    BY <2>1
  <2>3. ASSUME NEW d \in Subnets PROVE UdpOk(d)
    BY <2>1, <2>2 DEF UdpOk, RoutesTo, Elements, Wanted
  <2> QED
    BY <2>1, <2>2, <2>3 DEF UdpInv, OneEntry
<1>2. (backend = "udp" => UdpInv) => UdpInSync
  <2> SUFFICES ASSUME UdpInv, proxy # "done"
               PROVE  /\ OneEntry(Applied)
                      /\ {<<Applied[i].dst, Applied[i].hop>> : i \in 1..Len(Applied)}
                           = {<<d, told[d].ip>> : d \in {s \in Subnets : told[s] # None}}
    BY DEF UdpInSync, OneEntry
  <2>1. PICK t : t = Applied
    OBVIOUS
  <2>2. /\ t \in Seq(Hops) /\ OneEntry(t)
        /\ \A d \in Subnets : RoutesTo(t, d) = Wanted(d, told[d])
    BY <2>1, AppliedLemma
  <2>3. ASSUME NEW i \in 1..Len(t)
        PROVE  t[i].dst \in Subnets /\ told[t[i].dst] # None /\ t[i].hop = told[t[i].dst].ip
    <3>1. t[i] \in Hops
      BY <2>2, ElementOfSeq
    <3>2. t[i].dst \in Subnets
      BY <3>1 DEF Hops
    <3>3. t[i] \in RoutesTo(t, t[i].dst)
      BY DEF RoutesTo, Elements
    <3>4. t[i] \in Wanted(t[i].dst, told[t[i].dst])
      BY <2>2, <3>2, <3>3
    <3> QED
      BY <3>2, <3>4 DEF Wanted
  <2>4. ASSUME NEW d \in Subnets, told[d] # None
        PROVE  \E i \in 1..Len(t) : t[i].dst = d /\ t[i].hop = told[d].ip
    <3>1. [dst |-> d, hop |-> told[d].ip] \in RoutesTo(t, d)
      BY <2>2, <2>4 DEF Wanted
    <3> QED
      BY <3>1 DEF RoutesTo, Elements
  <2>5. {<<t[i].dst, t[i].hop>> : i \in 1..Len(t)}
          = {<<d, told[d].ip>> : d \in {s \in Subnets : told[s] # None}}
    BY <2>3, <2>4
  <2> QED
    BY <2>1, <2>2, <2>5
<1> QED
  BY <1>1, <1>2, HandInit, HandStep, UdpStep, PTL DEF Spec

=============================================================================
