------------------------------ MODULE RunLoop -------------------------------
(***************************************************************************)
(* The run loops of the backends that only follow lease events, and the    *)
(* lease watch that feeds them (subnet/watch.rs: watch_leases) with its    *)
(* sessions, errors and back-off. Each loop reads a channel of one batch:  *)
(*   "drain"   extension, ipsec: until the channel closes, then joins the  *)
(*             watch task                                                  *)
(*   "select"  wireguard: until the channel closes or the token fires,     *)
(*             then joins the watch task                                   *)
(*   "inline"  udp: drives the watch itself, and returns when it is done   *)
(* A watch result is a batch to send, or none (its events are filtered).   *)
(***************************************************************************)
EXTENDS Naturals

CONSTANTS
  Kinds,        (* the loops to look at                                    *)
  MaxResults,   (* bound: watch results                                    *)
  MaxFaults     (* bound: sessions that fail, loops that cannot start      *)

ASSUME KindsAssumption == Kinds \subseteq {"drain", "select", "inline"}

VARIABLES
  kind,         (* which loop this is                                      *)
  run,          (* "start", "loop", "handle", "join" or "done"             *)
  watch,        (* watch_leases: "off", "session", "send", "drain",        *)
                (* "backoff" or "done"                                     *)
  manager,      (* the manager's watch: "off", "live", or how it ended:    *)
                (* "ok" or "err"                                           *)
  item,         (* the session's channel (capacity 1) holds a result       *)
  evFull,       (* the loop's channel (capacity 1) holds a batch           *)
  results,      (* results the manager has sent                            *)
  handled,      (* results handled, or found empty                         *)
  cancelled,
  faults

leaseWatchVars == <<watch, manager, item, results>>
loopVars == <<kind, run, leaseWatchVars, evFull, handled, cancelled, faults>>

LoopInit ==
  /\ kind \in Kinds
  /\ run = "start"
  /\ watch = "off" /\ manager = "off"
  /\ item = FALSE /\ evFull = FALSE
  /\ results = 0 /\ handled = 0
  /\ cancelled = FALSE /\ faults = 0

Fault == faults < MaxFaults /\ faults' = faults + 1

-----------------------------------------------------------------------------
(* watch_leases. The manager's future makes progress only while the select *)
(* of the session polls it; that select, and the manager's, look at the    *)
(* token first.                                                            *)

\* The manager forwards an event.
Forward ==
  /\ watch = "session" /\ ~cancelled
  /\ manager = "live" /\ ~item
  /\ results < MaxResults
  /\ results' = results + 1
  /\ item' = TRUE
  /\ UNCHANGED <<kind, run, watch, manager, evFull, handled, cancelled, faults>>

\* The manager's watch ends, cleanly or with an error; what it buffered is
\* drained.
SessionEnd ==
  /\ watch = "session" /\ ~cancelled
  /\ \/ manager' = "ok" /\ UNCHANGED faults
     \/ manager' = "err" /\ Fault
  /\ watch' = "drain"
  /\ UNCHANGED <<kind, run, item, results, evFull, handled, cancelled>>

\* handle_batch_results: an empty batch is not sent.
TakeResult ==
  /\ \/ watch = "session" /\ ~cancelled
     \/ watch = "drain"
  /\ item
  /\ item' = FALSE
  /\ \/ watch' = "send" /\ UNCHANGED handled
     \/ UNCHANGED watch /\ handled' = handled + 1
  /\ UNCHANGED <<kind, run, manager, results, evFull, cancelled, faults>>

\* Mutant: a batch that finds the channel full is dropped.
SendDrop ==
  /\ watch = "send"
  /\ evFull' = TRUE
  /\ watch' = IF manager = "live" THEN "session" ELSE "drain"
  /\ UNCHANGED <<kind, run, manager, item, results, handled, cancelled, faults>>

\* receiver.send(batch).await: waits for room, and for nothing else. (The
\* receiver lives as long as the watch.)
Send ==
  /\ watch = "send"
  /\ ~evFull
  /\ evFull' = TRUE
  /\ watch' = IF manager = "live" THEN "session" ELSE "drain"
  /\ UNCHANGED <<kind, run, manager, item, results, handled, cancelled, faults>>

\* Mutant: an error ends the watch.
DrainEndAlways ==
  /\ watch = "drain" /\ ~item
  /\ watch' = "done"
  /\ UNCHANGED <<kind, run, manager, item, results, evFull, handled, cancelled, faults>>

\* Drained: a clean end, or an error after cancellation, is the end; any
\* other error is retried.
DrainEnd ==
  /\ watch = "drain" /\ ~item
  /\ watch' = IF manager = "ok" \/ cancelled THEN "done" ELSE "backoff"
  /\ UNCHANGED <<kind, run, manager, item, results, evFull, handled, cancelled, faults>>

\* The back-off races the token; then a new session.
BackoffEnd ==
  /\ watch = "backoff"
  /\ \/ ~cancelled /\ watch' = "session" /\ manager' = "live"
     \/ cancelled /\ watch' = "done" /\ UNCHANGED manager
  /\ UNCHANGED <<kind, run, item, results, evFull, handled, cancelled, faults>>

WatchStop ==
  /\ watch = "session" /\ cancelled
  /\ watch' = "done"
  /\ UNCHANGED <<kind, run, manager, item, results, evFull, handled, cancelled, faults>>

-----------------------------------------------------------------------------
(* Network::run *)

\* ipsec cannot load its key, udp cannot duplicate its descriptors: run
\* returns before it starts the watch. wireguard always starts.
Start ==
  /\ run = "start"
  /\ \/ run' = "loop" /\ watch' = "session" /\ manager' = "live" /\ UNCHANGED faults
     \/ kind # "select" /\ run' = "done" /\ UNCHANGED <<watch, manager>> /\ Fault
  /\ UNCHANGED <<kind, item, results, evFull, handled, cancelled>>

\* wireguard's select is biased towards the token; udp's ends in the very
\* poll in which its watch does.
TakeBatch ==
  /\ run = "loop" /\ evFull
  /\ kind = "select" => ~cancelled
  /\ kind = "inline" => watch # "done"
  /\ evFull' = FALSE
  /\ run' = "handle"
  /\ UNCHANGED <<kind, leaseWatchVars, handled, cancelled, faults>>

\* handle_subnet_events / process_subnet_events.
Handle ==
  /\ run = "handle"
  /\ handled' = handled + 1
  /\ run' = "loop"
  /\ UNCHANGED <<kind, leaseWatchVars, evFull, cancelled, faults>>

\* The watch is over and the channel is empty: recv returns None.
ChannelClosed ==
  /\ run = "loop" /\ kind \in {"drain", "select"}
  /\ watch = "done" /\ ~evFull
  /\ run' = "join"
  /\ UNCHANGED <<kind, leaseWatchVars, evFull, handled, cancelled, faults>>

\* wireguard: the token ends the loop; the receiver stays open.
TokenFired ==
  /\ run = "loop" /\ kind = "select"
  /\ cancelled
  /\ run' = "join"
  /\ UNCHANGED <<kind, leaseWatchVars, evFull, handled, cancelled, faults>>

Join ==
  /\ run = "join"
  /\ watch = "done"
  /\ run' = "done"
  /\ UNCHANGED <<kind, leaseWatchVars, evFull, handled, cancelled, faults>>

\* udp: the watch it drives is done; the batch it may have sent in its last
\* poll is not looked at.
InlineEnd ==
  /\ run = "loop" /\ kind = "inline"
  /\ watch = "done"
  /\ run' = "done"
  /\ UNCHANGED <<kind, leaseWatchVars, evFull, handled, cancelled, faults>>

Cancel ==
  /\ ~cancelled
  /\ cancelled' = TRUE
  /\ UNCHANGED <<kind, run, leaseWatchVars, evFull, handled, faults>>

WatchStep == TakeResult \/ Send \/ DrainEnd \/ BackoffEnd \/ WatchStop
RunStep == Start \/ TakeBatch \/ Handle \/ ChannelClosed \/ TokenFired \/ Join \/ InlineEnd

LoopNext == Forward \/ SessionEnd \/ WatchStep \/ RunStep \/ Cancel

LoopSpec == LoopInit /\ [][LoopNext]_loopVars

\* Both tasks go on where they can; nobody has to send events, fail or
\* cancel.
FairLoopSpec == LoopSpec /\ WF_loopVars(WatchStep) /\ WF_loopVars(RunStep)

-----------------------------------------------------------------------------
(* Properties *)

\* Network::run "completes when `ctx` is cancelled". Refuted for wireguard:
\* the loop leaves at the token with its receiver open, and joins a watch
\* that is blocked in its send.
RunReturns == cancelled ~> run = "done"

\* It holds for the loops that read until the channel closes, and for
\* wireguard if the token does not fire while a batch waits to be sent.
ReturnsUnlessBlocked ==
  (cancelled /\ (kind = "select" => watch \notin {"send", "drain"})) ~> run = "done"

\* "a watch error never ends the watch": a network that has started stops
\* only at cancellation or at a clean end of the manager's watch, however
\* errors, drained results and back-offs interleave with the loop.
ErrorsNeverEndRun ==
  run \in {"join", "done"} => cancelled \/ manager \in {"ok", "off"}

\* No result is lost on its way, through failing sessions and full
\* channels: each one is handled in the end, unless the network stops.
AllHandled ==
  \A n \in 1..MaxResults : results >= n ~> (handled >= n \/ cancelled \/ run = "done")

\* The loop makes progress to its end: what arrives is handled, and the
\* token ends it, through failing sessions, drained results and back-offs.
Progress == ReturnsUnlessBlocked /\ AllHandled
=============================================================================
