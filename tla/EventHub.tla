------------------------------ MODULE EventHub ------------------------------
(***************************************************************************)
(* The fan-out of lease events inside the Kubernetes subnet manager        *)
(* (subnet/kube/mod.rs: fan_out, EventHub::publish, EventHub::subscribe).  *)
(* One task, fan_out, takes events from the manager's channel and          *)
(* publishes each to every watcher; watchers subscribe and go away at any  *)
(* time. publish holds the lock twice, around the backlog push and around  *)
(* the retirement of closed watchers, and awaits each watcher's bounded    *)
(* channel in between without it.                                          *)
(*                                                                         *)
(* The hub never looks inside an event, so an event is its publish order:  *)
(* 1, 2, 3, ...                                                            *)
(***************************************************************************)
EXTENDS Naturals, Sequences, FiniteSets

CONSTANTS
  Subscribers,  (* the subscribe() calls of a run                        *)
  Capacity,     (* EventHub::new(scale): EVENT_QUEUE_DEPTH               *)
  MaxEvents     (* bound: events fan_out takes from the manager's channel *)

\* EventHub::new keeps capacity.max(1).
ASSUME CapacityAssumption == Capacity \in Nat \ {0}
ASSUME MaxEventsAssumption == MaxEvents \in Nat

VARIABLES
  published,    (* events pushed so far; the event being sent is the last *)
  backlog,      (* HubInner.backlog                                       *)
  registered,   (* HubInner.subscribers, as a set ...                     *)
  ticket,       (* ... with the position of each in registration order    *)
  joins,        (* subscribe() calls so far                               *)
  pc,           (* of fan_out: "recv" or "send"                           *)
  targets,      (* publish: watchers still to be sent the event           *)
  retired,      (* publish: watchers whose receiver was found closed      *)
  rx,           (* receiver of a subscription: "unused", "open", "closed" *)
  cap,          (* capacity of its channel                                *)
  chan,         (* what its channel buffers                               *)
  got,          (* what its watcher has received                          *)
  base          (* events published before the first one replayed to it   *)

hubVars == <<published, backlog, registered, ticket, joins>>
pubVars == <<pc, targets, retired>>
subVars == <<rx, cap, chan, got, base>>
vars == <<hubVars, pubVars, subVars>>

Init ==
  /\ published = 0
  /\ backlog = <<>>
  /\ registered = {}
  /\ ticket = [s \in Subscribers |-> 0]
  /\ joins = 0
  /\ pc = "recv"
  /\ targets = {}
  /\ retired = {}
  /\ rx = [s \in Subscribers |-> "unused"]
  /\ cap = [s \in Subscribers |-> 0]
  /\ chan = [s \in Subscribers |-> <<>>]
  /\ got = [s \in Subscribers |-> <<>>]
  /\ base = [s \in Subscribers |-> 0]

-----------------------------------------------------------------------------
(* Fan-out task *)

\* push_back, then pop_front while the backlog is over its capacity.
Push(b, e) ==
  LET pushed == Append(b, e)
  IN  IF Len(pushed) > Capacity THEN Tail(pushed) ELSE pushed

\* Mutant: a publish that copied the subscribers before it took the event.
PublishBeginStaleList ==
  /\ pc = "recv"
  /\ published < MaxEvents
  /\ published' = published + 1
  /\ backlog' = Push(backlog, published + 1)
  /\ pc' = "send"
  /\ \E early \in SUBSET registered : targets' = early
  /\ retired' = {}
  /\ UNCHANGED <<registered, ticket, joins, subVars>>

\* fan_out receives the next event; publish pushes it and copies the list
\* of subscribers, in one critical section.
PublishBegin ==
  /\ pc = "recv"
  /\ published < MaxEvents
  /\ published' = published + 1
  /\ backlog' = Push(backlog, published + 1)
  /\ pc' = "send"
  /\ targets' = registered
  /\ retired' = {}
  /\ UNCHANGED <<registered, ticket, joins, subVars>>

\* The watcher publish serves next: registration order.
NextTarget(s) ==
  /\ pc = "send"
  /\ s \in targets
  /\ \A t \in targets : ticket[s] <= ticket[t]

\* send().await succeeds once the channel has room; until then it blocks.
SendOk(s) ==
  /\ NextTarget(s)
  /\ rx[s] = "open"
  /\ Len(chan[s]) < cap[s]
  /\ chan' = [chan EXCEPT ![s] = Append(@, published)]
  /\ targets' = targets \ {s}
  /\ UNCHANGED <<hubVars, pc, retired, rx, cap, got, base>>

\* Mutant: a failed send is retried instead of given up.
SendClosedRetry(s) ==
  /\ NextTarget(s)
  /\ rx[s] = "closed"
  /\ retired' = retired \cup {s}
  /\ UNCHANGED <<hubVars, pc, targets, subVars>>

\* send().await fails: the receiver was dropped.
SendClosed(s) ==
  /\ NextTarget(s)
  /\ rx[s] = "closed"
  /\ targets' = targets \ {s}
  /\ retired' = retired \cup {s}
  /\ UNCHANGED <<hubVars, pc, subVars>>

\* All served: retire the closed ones and go back to recv.
PublishEnd ==
  /\ pc = "send"
  /\ targets = {}
  /\ registered' = registered \ retired
  /\ pc' = "recv"
  /\ retired' = {}
  /\ UNCHANGED <<published, backlog, ticket, joins, targets, subVars>>

-----------------------------------------------------------------------------
(* Watchers *)

\* Mutant: publish walks the live list instead of a copy, so a watcher that
\* joins during a publish is sent an event its replay already held.
SubscribeLiveList(s) ==
  /\ rx[s] = "unused"
  /\ rx' = [rx EXCEPT ![s] = "open"]
  /\ cap' = [cap EXCEPT ![s] = Capacity + Len(backlog)]
  /\ chan' = [chan EXCEPT ![s] = backlog]
  /\ base' = [base EXCEPT ![s] = published - Len(backlog)]
  /\ registered' = registered \cup {s}
  /\ targets' = IF pc = "send" THEN targets \cup {s} ELSE targets
  /\ ticket' = [ticket EXCEPT ![s] = joins + 1]
  /\ joins' = joins + 1
  /\ UNCHANGED <<published, backlog, pc, retired, got>>

\* subscribe: a channel with room for the backlog and Capacity more, the
\* backlog replayed into it, the sender registered; one critical section.
Subscribe(s) ==
  /\ rx[s] = "unused"
  /\ rx' = [rx EXCEPT ![s] = "open"]
  /\ cap' = [cap EXCEPT ![s] = Capacity + Len(backlog)]
  /\ chan' = [chan EXCEPT ![s] = backlog]
  /\ base' = [base EXCEPT ![s] = published - Len(backlog)]
  /\ registered' = registered \cup {s}
  /\ ticket' = [ticket EXCEPT ![s] = joins + 1]
  /\ joins' = joins + 1
  /\ UNCHANGED <<published, backlog, pubVars, got>>

\* rx.recv() in watch_ops::watch_leases / watch_lease.
Receive(s) ==
  /\ rx[s] = "open"
  /\ chan[s] # <<>>
  /\ got' = [got EXCEPT ![s] = Append(@, Head(chan[s]))]
  /\ chan' = [chan EXCEPT ![s] = Tail(@)]
  /\ UNCHANGED <<hubVars, pubVars, rx, cap, base>>

\* The watch returns (cancelled, or its own receiver is gone) and drops rx.
Drop(s) ==
  /\ rx[s] = "open"
  /\ rx' = [rx EXCEPT ![s] = "closed"]
  /\ chan' = [chan EXCEPT ![s] = <<>>]
  /\ UNCHANGED <<hubVars, pubVars, cap, got, base>>

-----------------------------------------------------------------------------
Publisher(s) == SendOk(s) \/ SendClosed(s)

Next ==
  \/ PublishBegin
  \/ PublishEnd
  \/ \E s \in Subscribers :
        SendOk(s) \/ SendClosed(s) \/ Subscribe(s) \/ Receive(s) \/ Drop(s)

Spec == Init /\ [][Next]_vars

\* fan_out is a spawned task that never stops by itself; a watcher that has
\* not gone away keeps reading. Nobody has to subscribe, leave or emit.
Fairness ==
  /\ WF_vars(PublishEnd)
  /\ \A s \in Subscribers : WF_vars(Publisher(s)) /\ WF_vars(Receive(s))

FairSpec == Spec /\ Fairness
-----------------------------------------------------------------------------
(* Properties *)

\* Types and bounds of the hub's state: the backlog never holds more than
\* Capacity events, a channel never more than it was created for.
TypeOK ==
  /\ published \in 0..MaxEvents
  /\ backlog \in Seq(Nat) /\ Len(backlog) <= Capacity
  /\ registered \subseteq Subscribers
  /\ ticket \in [Subscribers -> Nat]
  /\ joins \in Nat
  /\ pc \in {"recv", "send"}
  /\ targets \subseteq Subscribers
  /\ retired \subseteq Subscribers
  /\ rx \in [Subscribers -> {"unused", "open", "closed"}]
  /\ cap \in [Subscribers -> Nat]
  /\ chan \in [Subscribers -> Seq(Nat)]
  /\ got \in [Subscribers -> Seq(Nat)]
  /\ base \in [Subscribers -> Nat]
  /\ \A s \in Subscribers : Len(chan[s]) <= cap[s]

\* q holds the events that follow event n, in order and without a gap.
Consecutive(q, n) == \A i \in 1..Len(q) : q[i] = n + i

\* Events publish still owes to watcher s.
Owed(s) == IF s \in targets THEN 1 ELSE 0

\* EventHub::subscribe says of its critical section "no event is lost or
\* duplicated": what a watcher has read, then what its channel buffers,
\* then the event publish still owes it, is one unbroken run of
\* consecutive events up to the last one published, whatever subscriptions
\* and drops happen while publish awaits a full channel.
ContiguousDelivery ==
  \A s \in Subscribers :
    /\ Consecutive(got[s], base[s])
    /\ rx[s] = "open" =>
         /\ Consecutive(chan[s], base[s] + Len(got[s]))
         /\ base[s] + Len(got[s]) + Len(chan[s]) + Owed(s) = published

\* A slow watcher is never evicted: a subscription whose receiver is alive
\* stays registered (EventHub::publish: only Closed receivers retire).
NeverEvicted ==
  \A s \in Subscribers : rx[s] = "open" => s \in registered

\* The hub, seen through what its watchers receive, is the broadcast that
\* replays the last Capacity events and then delivers every event once and
\* in order.
Promise ==
  INSTANCE Broadcast WITH
    sent <- published,
    active <- {s \in Subscribers : rx[s] = "open"},
    from <- base,
    received <- got

ImplementsBroadcast == Promise!BSpec

\* While every watcher keeps reading, an event published to a live watcher
\* is received, or the watcher goes away: publish's blocking send never
\* wedges the fan-out.
EventuallyDelivered ==
  \A s \in Subscribers : \A n \in 1..MaxEvents :
    (rx[s] = "open" /\ base[s] < n /\ n <= published)
      ~> (base[s] + Len(got[s]) >= n \/ rx[s] = "closed")
=============================================================================
