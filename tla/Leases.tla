------------------------------- MODULE Leases -------------------------------
(***************************************************************************)
(* Leases, lease events and the pure part of LeaseWatcher (lease/mod.rs:   *)
(* same_subnet, add, remove, update, reset). A lease is a record           *)
(*   [v4, v6 : which families are enabled, subnet, subnet6, attrs]         *)
(* where subnets and attributes are opaque values compared for equality;   *)
(* the stored leases are a sequence, as in the code.                       *)
(***************************************************************************)
EXTENDS Integers, Sequences, SequencesExt

Added(l) == [type |-> "Added", lease |-> l]
Removed(l) == [type |-> "Removed", lease |-> l]

\* The four cases of same_subnet: v4 only, v6 only, dual stack, and neither
\* family (the etcd case).
SameSubnet(v4, v6, a, b) ==
  \/ v4 /\ ~v6 /\ a.subnet = b.subnet
  \/ ~v4 /\ v6 /\ a.subnet6 = b.subnet6
  \/ v4 /\ v6 /\ a.subnet = b.subnet /\ a.subnet6 = b.subnet6
  \/ ~v4 /\ ~v6 /\ a.subnet = b.subnet

\* own is compared with the flags of the event's lease, a stored lease with
\* its own flags.
IsOwn(own, l) == SameSubnet(l.v4, l.v6, own, l)
Matches(stored, l) == SameSubnet(stored.v4, stored.v6, stored, l)

\* Index of the first stored lease with the subnet of l, 0 if there is none.
Find(ls, l) == SelectInSeq(ls, LAMBDA stored : Matches(stored, l))

\* Mutant: the event carries the lease that was just overwritten.
LWAddStale(ls, l) ==
  IF Find(ls, l) = 0
  THEN [leases |-> Append(ls, l), event |-> Added(l)]
  ELSE [leases |-> ReplaceAt(ls, Find(ls, l), l), event |-> Added(ls[Find(ls, l)])]

\* LeaseWatcher::add
LWAdd(ls, l) ==
  [leases |-> IF Find(ls, l) = 0 THEN Append(ls, l)
                                 ELSE ReplaceAt(ls, Find(ls, l), l),
   event  |-> Added(l)]

\* LeaseWatcher::remove: the event carries the stored lease, or the one
\* passed if none is stored.
LWRemove(ls, l) ==
  IF Find(ls, l) = 0
  THEN [leases |-> ls, event |-> Removed(l)]
  ELSE [leases |-> RemoveAt(ls, Find(ls, l)), event |-> Removed(ls[Find(ls, l)])]

\* One event of LeaseWatcher::update: that of the own lease is skipped.
LWStep(own, acc, e) ==
  LET r == IF e.type = "Added" THEN LWAdd(acc.leases, e.lease)
                               ELSE LWRemove(acc.leases, e.lease)
  IN  IF IsOwn(own, e.lease) THEN acc
      ELSE [leases |-> r.leases, batch |-> Append(acc.batch, r.event)]

\* LeaseWatcher::update: the events in turn.
LWUpdate(own, ls, events) ==
  LET run[k \in 0..Len(events)] ==
        IF k = 0 THEN [leases |-> ls, batch |-> <<>>]
        ELSE LWStep(own, run[k - 1], events[k])
  IN  run[Len(events)]

\* One lease of a snapshot: unless it is the own one, it takes the stored
\* lease it matches out of the old list, or is announced as added.
LWScan(own, acc, l) ==
  IF IsOwn(own, l) THEN acc
  ELSE IF Find(acc.left, l) # 0
       THEN [acc EXCEPT !.left = RemoveAt(@, Find(@, l))]
       ELSE [acc EXCEPT !.batch = Append(@, Added(l))]

\* LeaseWatcher::reset: the leases of the snapshot in turn; what is left of
\* the old list is announced as removed; the snapshot, own lease included,
\* becomes the stored list.
LWReset(own, ls, snapshot) ==
  LET run[k \in 0..Len(snapshot)] ==
        IF k = 0 THEN [left |-> ls, batch |-> <<>>]
        ELSE LWScan(own, run[k - 1], snapshot[k])
      scan == run[Len(snapshot)]
  IN  [leases |-> snapshot,
       batch  |-> scan.batch \o [i \in 1..Len(scan.left) |-> Removed(scan.left[i])]]
=============================================================================
