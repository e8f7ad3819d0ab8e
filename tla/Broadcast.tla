----------------------------- MODULE Broadcast -----------------------------
(***************************************************************************)
(* What the event hub promises its watchers, with no channels, no lock and *)
(* no publisher loop: events are numbered 1, 2, 3 ... in the order they    *)
(* are published; a watcher that joins is given the last Capacity events   *)
(* published so far and then every later one, in order, once each.         *)
(***************************************************************************)
EXTENDS Naturals, Sequences

CONSTANTS
  Subscribers,  (* the subscriptions made over the life of the hub *)
  Capacity,     (* events kept for those who join later            *)
  MaxEvents     (* bound: events published                         *)

VARIABLES
  sent,         (* events published so far                              *)
  active,       (* subscriptions that are being read                    *)
  from,         (* from[s]: events published before the first one of s  *)
  received      (* received[s]: the events s has read, in order         *)

bvars == <<sent, active, from, received>>

Missed(n) == IF n > Capacity THEN n - Capacity ELSE 0

BInit ==
  /\ sent = 0
  /\ active = {}
  /\ from = [s \in Subscribers |-> 0]
  /\ received = [s \in Subscribers |-> <<>>]

Publish ==
  /\ sent < MaxEvents
  /\ sent' = sent + 1
  /\ UNCHANGED <<active, from, received>>

Join(s) ==
  /\ s \notin active
  /\ active' = active \cup {s}
  /\ from' = [from EXCEPT ![s] = Missed(sent)]
  /\ UNCHANGED <<sent, received>>

Receive(s) ==
  /\ s \in active
  /\ from[s] + Len(received[s]) < sent
  /\ received' = [received EXCEPT ![s] = Append(@, from[s] + Len(@) + 1)]
  /\ UNCHANGED <<sent, active, from>>

Leave(s) ==
  /\ s \in active
  /\ active' = active \ {s}
  /\ UNCHANGED <<sent, from, received>>

BNext ==
  \/ Publish
  \/ \E s \in Subscribers : Join(s) \/ Receive(s) \/ Leave(s)

BSpec == BInit /\ [][BNext]_bvars
=============================================================================
