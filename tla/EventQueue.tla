----------------------------- MODULE EventQueue -----------------------------
(***************************************************************************)
(* How a lease event gets from the node informer to the fan-out task       *)
(* (subnet/kube/events.rs: enqueue_lease_event; the channel and semaphore  *)
(* of subnet/kube/mod.rs). The informer tries a non-blocking send; on a    *)
(* full channel it waits for one of a few retry slots and hands the event  *)
(* to a spawned task that retries until the send succeeds. Cancellation    *)
(* ends the wait and the retries.                                          *)
(*                                                                         *)
(* Events are numbered in the order the informer produces them.            *)
(***************************************************************************)
EXTENDS Naturals, Sequences, FiniteSets

CONSTANTS
  Depth,       (* EVENT_QUEUE_DEPTH: capacity of the events channel     *)
  Slots,       (* ASYNC_SEND_SLOTS: concurrent retry tasks              *)
  MaxEvents    (* bound: events the informer produces                   *)

\* event_queue_depth never returns 0; the number of slots is a positive
\* literal.
ASSUME DepthAssumption == Depth \in Nat \ {0}
ASSUME SlotsAssumption == Slots \in Nat \ {0}
ASSUME BoundAssumption == MaxEvents \in Nat

VARIABLES
  produced,    (* events the informer has started to enqueue            *)
  informer,    (* "idle", "acquire" (awaits a slot) or "stopped"        *)
  queue,       (* the events channel                                    *)
  retrying,    (* events owned by a retry task, one slot each           *)
  out,         (* events fan_out has received, in order                 *)
  dropped,     (* events given up                                       *)
  cancelled,   (* the token                                             *)
  retried      (* history: events that ever had a retry task            *)

vars == <<produced, informer, queue, retrying, out, dropped, cancelled, retried>>

Init ==
  /\ produced = 0
  /\ informer = "idle"
  /\ queue = <<>>
  /\ retrying = {}
  /\ out = <<>>
  /\ dropped = {}
  /\ cancelled = FALSE
  /\ retried = {}

\* The channel has no room: try_send fails.
Full == Len(queue) >= Depth

-----------------------------------------------------------------------------
(* Informer task *)

\* Mutant: every event is sent from a task of its own.
EnqueueSendSpawned ==
  /\ informer = "idle"
  /\ produced < MaxEvents
  /\ ~Full
  /\ produced' = produced + 1
  /\ retrying' = retrying \cup {produced + 1}
  /\ UNCHANGED <<informer, queue, out, dropped, cancelled, retried>>

\* try_send succeeds.
EnqueueSend ==
  /\ informer = "idle"
  /\ produced < MaxEvents
  /\ ~Full
  /\ produced' = produced + 1
  /\ queue' = Append(queue, produced + 1)
  /\ UNCHANGED <<informer, retrying, out, dropped, cancelled, retried>>

\* try_send finds the channel full: on to the semaphore.
EnqueueFull ==
  /\ informer = "idle"
  /\ produced < MaxEvents
  /\ Full
  /\ produced' = produced + 1
  /\ informer' = "acquire"
  /\ UNCHANGED <<queue, retrying, out, dropped, cancelled, retried>>

\* Mutant: try_acquire, dropping the event when no slot is free.
AcquireSlotDrop ==
  /\ informer = "acquire"
  /\ ~cancelled
  /\ IF Cardinality(retrying) < Slots
     THEN /\ retrying' = retrying \cup {produced}
          /\ retried' = retried \cup {produced}
          /\ UNCHANGED dropped
     ELSE /\ dropped' = dropped \cup {produced}
          /\ UNCHANGED <<retrying, retried>>
  /\ informer' = "idle"
  /\ UNCHANGED <<produced, queue, out, cancelled>>

\* A slot is free: the retry task is spawned with it and the handler
\* returns. The select is biased, so a cancelled token is seen first.
AcquireSlot ==
  /\ informer = "acquire"
  /\ ~cancelled
  /\ Cardinality(retrying) < Slots
  /\ retrying' = retrying \cup {produced}
  /\ retried' = retried \cup {produced}
  /\ informer' = "idle"
  /\ UNCHANGED <<produced, queue, out, dropped, cancelled>>

\* The token fires while the informer waits for a slot.
AcquireCancelled ==
  /\ informer = "acquire"
  /\ cancelled
  /\ dropped' = dropped \cup {produced}
  /\ informer' = "idle"
  /\ UNCHANGED <<produced, queue, retrying, out, cancelled, retried>>

\* run_node_informer sees the token between two handlers and returns; it
\* may first enqueue the rest of a list it is reconciling.
InformerStop ==
  /\ informer = "idle"
  /\ cancelled
  /\ informer' = "stopped"
  /\ UNCHANGED <<produced, queue, retrying, out, dropped, cancelled, retried>>

-----------------------------------------------------------------------------
(* Retry tasks, fan-out, cancellation *)

\* Mutant: the task keeps its slot, and its event, after the send.
RetrySendKeep(e) ==
  /\ e \in retrying
  /\ ~Full
  /\ queue' = Append(queue, e)
  /\ UNCHANGED <<produced, informer, retrying, out, dropped, cancelled, retried>>

\* Mutant: the task tries only once and forgets an event it cannot send.
RetrySendOnce(e) ==
  /\ e \in retrying
  /\ queue' = IF Full THEN queue ELSE Append(queue, e)
  /\ retrying' = retrying \ {e}
  /\ UNCHANGED <<produced, informer, out, dropped, cancelled, retried>>

\* The backoff elapsed and try_send succeeds: the slot is released. (The
\* token may fire after the sleep won the select.) A try_send that finds
\* the channel full only doubles the backoff, up to 5 s, and sleeps again.
RetrySend(e) ==
  /\ e \in retrying
  /\ ~Full
  /\ queue' = Append(queue, e)
  /\ retrying' = retrying \ {e}
  /\ UNCHANGED <<produced, informer, out, dropped, cancelled, retried>>

\* The token fires during the backoff.
RetryCancelled(e) ==
  /\ e \in retrying
  /\ cancelled
  /\ retrying' = retrying \ {e}
  /\ dropped' = dropped \cup {e}
  /\ UNCHANGED <<produced, informer, queue, out, cancelled, retried>>

\* fan_out's recv.
FanOutRecv ==
  /\ queue # <<>>
  /\ out' = Append(out, Head(queue))
  /\ queue' = Tail(queue)
  /\ UNCHANGED <<produced, informer, retrying, dropped, cancelled, retried>>

Cancel ==
  /\ ~cancelled
  /\ cancelled' = TRUE
  /\ UNCHANGED <<produced, informer, queue, retrying, out, dropped, retried>>

Retry(e) == RetrySend(e) \/ RetryCancelled(e)

Next ==
  \/ EnqueueSend
  \/ EnqueueFull
  \/ AcquireSlot
  \/ AcquireCancelled
  \/ InformerStop
  \/ FanOutRecv
  \/ Cancel
  \/ \E e \in 1..MaxEvents : RetrySend(e) \/ RetryCancelled(e)

Spec == Init /\ [][Next]_vars

\* Spawned tasks run; a sleeping retry task wakes. Weak fairness is enough
\* for a retry because the events are finitely many: the channel does not
\* stay full for ever behind its back. Nobody has to produce or to cancel.
Fairness ==
  /\ WF_vars(AcquireSlot \/ AcquireCancelled)
  /\ WF_vars(FanOutRecv)
  /\ \A e \in 1..MaxEvents : WF_vars(Retry(e))

FairSpec == Spec /\ Fairness

-----------------------------------------------------------------------------
(* Properties *)

\* Types; the channel never holds more than its capacity.
TypeOK ==
  /\ produced \in 0..MaxEvents
  /\ informer \in {"idle", "acquire", "stopped"}
  /\ queue \in Seq(1..MaxEvents) /\ Len(queue) <= Depth
  /\ retrying \subseteq 1..MaxEvents
  /\ out \in Seq(1..MaxEvents)
  /\ dropped \subseteq 1..MaxEvents
  /\ cancelled \in BOOLEAN
  /\ retried \subseteq 1..MaxEvents

Elems(q) == {q[i] : i \in 1..Len(q)}
Held == IF informer = "acquire" THEN {produced} ELSE {}

\* What reaches fan_out, then what is still queued.
Stream == out \o queue

\* An event that has been produced is in exactly one place: received or
\* queued, once, or owned by a retry task, or held by the waiting informer,
\* or given up. The hand-over from handler to retry task to channel neither
\* loses nor duplicates it.
Conserved ==
  /\ 1..produced = Elems(Stream) \cup retrying \cup Held \cup dropped
  /\ \A i, j \in 1..Len(Stream) : Stream[i] = Stream[j] => i = j
  /\ Elems(Stream) \cap (retrying \cup Held \cup dropped) = {}
  /\ retrying \cap (Held \cup dropped) = {}
  /\ Held \cap dropped = {}

\* dispatch: a full channel with all retry slots busy "blocks the informer
\* loop instead of dropping" - events are given up only after cancellation,
\* and the backlog beyond the channel stays within the slots and the one
\* event in the informer's hands.
BackpressureNotLoss ==
  /\ dropped # {} => cancelled
  /\ Cardinality(retrying) <= Slots

\* Every event produced reaches fan_out unless the daemon is shutting down.
EventuallyQueued ==
  \A e \in 1..MaxEvents : (produced >= e) ~> (e \in Elems(out) \/ cancelled)

\* Order is lost only through the retry path: if a later event is ahead of
\* an earlier one, in what fan_out received or in the channel, then the
\* earlier one once found the channel full and waited with a retry task.
OvertakenOnlyIfRetried ==
  \A i, j \in 1..Len(Stream) :
    i < j /\ Stream[i] > Stream[j] => Stream[j] \in retried
=============================================================================
