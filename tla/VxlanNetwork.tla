---------------------------- MODULE VxlanNetwork ----------------------------
(***************************************************************************)
(* The tasks of the vxlan network (backend/vxlan/network.rs): the lease    *)
(* watch feeds batches of events to the run loop, the device watcher tells *)
(* it when the kernel deleted the vxlan device, and the loop spawns a task *)
(* that rebuilds the device and stores it in the shared NetState. What a   *)
(* batch programs is left to handle_subnet_events; here it takes a step.   *)
(*                                                                         *)
(* A device is its generation (its ifindex); 0 is no device.               *)
(***************************************************************************)
EXTENDS Naturals, FiniteSets

CONSTANTS
  HasDevice,       (* NetState.dev is set, as it is whenever IPv4 is on    *)
  WatcherMayEnd,   (* the netlink subscription may fail or end             *)
  MaxBatches,      (* bound: event batches                                 *)
  MaxLosses,       (* bound: deletions of the device                       *)
  MaxFaults        (* bound: failed attempts to open netlink or rebuild    *)

ASSUME SwitchAssumption == HasDevice \in BOOLEAN /\ WatcherMayEnd \in BOOLEAN
ASSUME BoundAssumption == MaxBatches \in Nat /\ MaxLosses \in Nat /\ MaxFaults \in Nat

VARIABLES
  run,         (* the run loop: "start", "select", "handle", "join", "done" *)
  watch,       (* watch_leases: "off", "recv", "send" or "done"             *)
  batches,     (* batches it has derived so far                             *)
  evFull,      (* the batch channel (capacity 1) holds one                  *)
  handled,     (* batches handled                                           *)
  dev,         (* watch_vxlan_device: "off", "start", "watch" or "done"     *)
  notices,     (* DelLink messages it has not read                          *)
  missFull,    (* the missing channel (capacity 1) holds a signal           *)
  spawned,     (* recreate_vxlan tasks spawned                              *)
  rebuild,     (* their steps and the device each one works on              *)
  link,        (* kernel: the device there is                               *)
  links,       (* kernel: devices created so far                            *)
  stored,      (* NetState.dev                                              *)
  unseen,      (* the device was deleted while nobody was subscribed        *)
  cancelled,
  losses,
  faults

loopVars == <<run, handled>>
watchVars == <<watch, batches, evFull>>
devVars == <<dev, notices, missFull>>
rebuildVars == <<spawned, rebuild, stored>>
kernelVars == <<link, links, unseen, losses>>
vars == <<loopVars, watchVars, devVars, rebuildVars, kernelVars, cancelled, faults>>

Tasks == 1..MaxLosses
Task(step, d) == [step |-> step, dev |-> d]

Init ==
  /\ run = "start" /\ handled = 0
  /\ watch = "off" /\ batches = 0 /\ evFull = FALSE
  /\ dev = "off" /\ notices = 0 /\ missFull = FALSE
  /\ spawned = 0 /\ rebuild = [i \in Tasks |-> Task("none", 0)]
  /\ link = 1 /\ links = 1 /\ unseen = FALSE /\ losses = 0
  /\ stored = 1
  /\ cancelled = FALSE
  /\ faults = 0

Fault == faults < MaxFaults /\ faults' = faults + 1

-----------------------------------------------------------------------------
(* watch_leases: races the token only while it waits for a result *)

WatchRecv ==
  /\ watch = "recv"
  /\ ~cancelled
  /\ batches < MaxBatches
  /\ batches' = batches + 1
  /\ watch' = "send"
  /\ UNCHANGED <<evFull, loopVars, devVars, rebuildVars, kernelVars, cancelled, faults>>

\* Mutant: try_send, and a batch that finds the channel full is lost.
WatchSendTry ==
  /\ watch = "send"
  /\ evFull' = TRUE
  /\ watch' = "recv"
  /\ UNCHANGED <<batches, loopVars, devVars, rebuildVars, kernelVars, cancelled, faults>>

WatchSend ==
  /\ watch = "send"
  /\ ~evFull
  /\ evFull' = TRUE
  /\ watch' = "recv"
  /\ UNCHANGED <<batches, loopVars, devVars, rebuildVars, kernelVars, cancelled, faults>>

WatchStop ==
  /\ watch = "recv"
  /\ cancelled
  /\ watch' = "done"
  /\ UNCHANGED <<batches, evFull, loopVars, devVars, rebuildVars, kernelVars, cancelled, faults>>

-----------------------------------------------------------------------------
(* run *)

\* Without netlink run returns before it spawns anything.
Start ==
  /\ run = "start"
  /\ \/ run' = "select" /\ watch' = "recv" /\ dev' = "start" /\ UNCHANGED faults
     \/ run' = "done" /\ UNCHANGED <<watch, dev>> /\ Fault
  /\ UNCHANGED <<handled, batches, evFull, notices, missFull, rebuildVars, kernelVars, cancelled>>

\* The select is biased: batches first, then the end of the lease watch,
\* then the device.
TakeBatch ==
  /\ run = "select"
  /\ evFull
  /\ evFull' = FALSE
  /\ run' = "handle"
  /\ UNCHANGED <<handled, watch, batches, devVars, rebuildVars, kernelVars, cancelled, faults>>

\* handle_subnet_events ends: its retries are bounded and race the token.
HandleBatch ==
  /\ run = "handle"
  /\ handled' = handled + 1
  /\ run' = "select"
  /\ UNCHANGED <<watchVars, devVars, rebuildVars, kernelVars, cancelled, faults>>

LeasesClosed ==
  /\ run = "select"
  /\ ~evFull /\ watch = "done"
  /\ run' = "join"
  /\ UNCHANGED <<handled, watchVars, devVars, rebuildVars, kernelVars, cancelled, faults>>

\* Mutant: the signal is consumed and nothing is spawned while an earlier
\* task is still at work.
TakeMissingOnce ==
  /\ run = "select"
  /\ ~evFull /\ watch # "done"
  /\ missFull
  /\ missFull' = FALSE
  /\ IF \E i \in Tasks : rebuild[i].step \notin {"none", "end"}
     THEN UNCHANGED <<spawned, rebuild>>
     ELSE /\ spawned' = spawned + 1
          /\ rebuild' = [rebuild EXCEPT ![spawned'] = Task("begin", 0)]
  /\ UNCHANGED <<loopVars, watchVars, dev, notices, stored, kernelVars, cancelled, faults>>

TakeMissing ==
  /\ run = "select"
  /\ ~evFull /\ watch # "done"
  /\ missFull
  /\ missFull' = FALSE
  /\ spawned' = spawned + 1
  /\ rebuild' = [rebuild EXCEPT ![spawned'] = Task("begin", 0)]
  /\ UNCHANGED <<loopVars, watchVars, dev, notices, stored, kernelVars, cancelled, faults>>

MissingClosed ==
  /\ run = "select"
  /\ ~evFull /\ watch # "done"
  /\ ~missFull /\ dev = "done"
  /\ run' = "join"
  /\ UNCHANGED <<handled, watchVars, devVars, rebuildVars, kernelVars, cancelled, faults>>

\* The two watchers are joined, the rebuild tasks are not.
Join ==
  /\ run = "join"
  /\ watch = "done" /\ dev = "done"
  /\ run' = "done"
  /\ UNCHANGED <<handled, watchVars, devVars, rebuildVars, kernelVars, cancelled, faults>>

-----------------------------------------------------------------------------
(* watch_vxlan_device *)

\* Without an IPv4 device there is no name to watch: it returns.
DevStart ==
  /\ dev = "start"
  /\ \/ dev' = "watch" /\ HasDevice
     \/ dev' = "done" /\ (WatcherMayEnd \/ ~HasDevice)
  /\ UNCHANGED <<notices, missFull, loopVars, watchVars, rebuildVars, kernelVars, cancelled, faults>>

\* A DelLink of the device: try_send, skipped if a signal is queued.
DevNotice ==
  /\ dev = "watch"
  /\ ~cancelled
  /\ notices > 0
  /\ notices' = notices - 1
  /\ missFull' = TRUE
  /\ UNCHANGED <<dev, loopVars, watchVars, rebuildVars, kernelVars, cancelled, faults>>

\* Mutant: a queued signal keeps the watcher from ending.
DevEndBlocked ==
  /\ dev = "watch"
  /\ cancelled /\ ~missFull
  /\ dev' = "done"
  /\ UNCHANGED <<notices, missFull, loopVars, watchVars, rebuildVars, kernelVars, cancelled, faults>>

\* The token, or the end of the message stream.
DevEnd ==
  /\ dev = "watch"
  /\ cancelled \/ WatcherMayEnd
  /\ dev' = "done"
  /\ UNCHANGED <<notices, missFull, loopVars, watchVars, rebuildVars, kernelVars, cancelled, faults>>

-----------------------------------------------------------------------------
(* recreate_vxlan, task i *)

\* Each attempt starts with a look at the token.
RebuildBegin(i) ==
  /\ rebuild[i].step = "begin"
  /\ rebuild' = [rebuild EXCEPT ![i] = Task(IF cancelled THEN "end" ELSE "create", 0)]
  /\ UNCHANGED <<spawned, stored, loopVars, watchVars, devVars, kernelVars, cancelled, faults>>

\* Mutant: one attempt.
RebuildCreateOnce(i) ==
  /\ rebuild[i].step = "create"
  /\ \/ /\ links' = IF link = 0 THEN links + 1 ELSE links
        /\ link' = IF link = 0 THEN links' ELSE link
        /\ rebuild' = [rebuild EXCEPT ![i] = Task("configure", link')]
        /\ UNCHANGED faults
     \/ /\ rebuild' = [rebuild EXCEPT ![i] = Task("end", 0)]
        /\ UNCHANGED <<link, links>>
        /\ Fault
  /\ UNCHANGED <<spawned, stored, unseen, losses, loopVars, watchVars, devVars, cancelled>>

\* create_vxlan_device: a new device, or the one that is there; on any
\* failure up to here, back off and start again.
RebuildCreate(i) ==
  /\ rebuild[i].step = "create"
  /\ \/ /\ links' = IF link = 0 THEN links + 1 ELSE links
        /\ link' = IF link = 0 THEN links' ELSE link
        /\ rebuild' = [rebuild EXCEPT ![i] = Task("configure", link')]
        /\ UNCHANGED faults
     \/ /\ rebuild' = [rebuild EXCEPT ![i] = Task("begin", 0)]
        /\ UNCHANGED <<link, links>>
        /\ Fault
  /\ UNCHANGED <<spawned, stored, unseen, losses, loopVars, watchVars, devVars, cancelled>>

\* configure_device_ipv4_ipv6 needs the device it was given.
RebuildConfigure(i) ==
  /\ rebuild[i].step = "configure"
  /\ \/ /\ rebuild' = [rebuild EXCEPT ![i] = IF @.dev = link THEN Task("store", link)
                                                           ELSE Task("begin", 0)]
        /\ UNCHANGED faults
     \/ /\ rebuild' = [rebuild EXCEPT ![i] = Task("begin", 0)]
        /\ Fault
  /\ UNCHANGED <<spawned, stored, loopVars, watchVars, devVars, kernelVars, cancelled>>

\* Back in the task, which takes the lock on NetState.
RebuildStore(i) ==
  /\ rebuild[i].step = "store"
  /\ stored' = rebuild[i].dev
  /\ rebuild' = [rebuild EXCEPT ![i] = Task("end", 0)]
  /\ UNCHANGED <<spawned, loopVars, watchVars, devVars, kernelVars, cancelled, faults>>

-----------------------------------------------------------------------------
(* Environment *)

\* Somebody deletes the device; subscribers are told.
DeleteDevice ==
  /\ losses < MaxLosses
  /\ link # 0
  /\ link' = 0
  /\ losses' = losses + 1
  /\ IF dev = "watch"
     THEN notices' = notices + 1 /\ UNCHANGED unseen
     ELSE unseen' = TRUE /\ UNCHANGED notices
  /\ UNCHANGED <<links, dev, missFull, loopVars, watchVars, rebuildVars, cancelled, faults>>

Cancel ==
  /\ ~cancelled
  /\ cancelled' = TRUE
  /\ UNCHANGED <<loopVars, watchVars, devVars, rebuildVars, kernelVars, faults>>

RunStep ==
  Start \/ TakeBatch \/ HandleBatch \/ LeasesClosed \/ TakeMissing \/ MissingClosed \/ Join
WatchStep == WatchSend \/ WatchStop
DevStep == DevStart \/ DevNotice \/ (cancelled /\ DevEnd)
RebuildStep(i) == RebuildBegin(i) \/ RebuildCreate(i) \/ RebuildConfigure(i) \/ RebuildStore(i)

Next ==
  \/ RunStep
  \/ WatchRecv
  \/ WatchStep
  \/ DevStart \/ DevNotice \/ DevEnd
  \/ \E i \in Tasks : RebuildStep(i)
  \/ DeleteDevice
  \/ Cancel

Spec == Init /\ [][Next]_vars

\* Every task that can go on does; nobody has to cancel, delete the device
\* or change a lease.
Fairness ==
  /\ WF_vars(RunStep) /\ WF_vars(WatchStep) /\ WF_vars(DevStep)
  /\ \A i \in Tasks : WF_vars(RebuildStep(i))

FairSpec == Spec /\ Fairness

-----------------------------------------------------------------------------
(* Properties *)

Steps == {"none", "begin", "create", "configure", "store", "end"}

TypeOK ==
  /\ run \in {"start", "select", "handle", "join", "done"} /\ handled \in Nat
  /\ watch \in {"off", "recv", "send", "done"} /\ batches \in 0..MaxBatches /\ evFull \in BOOLEAN
  /\ dev \in {"off", "start", "watch", "done"} /\ notices \in Nat /\ missFull \in BOOLEAN
  /\ spawned \in 0..MaxLosses /\ rebuild \in [Tasks -> [step : Steps, dev : Nat]] /\ stored \in Nat
  /\ links \in Nat \ {0} /\ link \in 0..links /\ unseen \in BOOLEAN /\ losses \in 0..MaxLosses
  /\ cancelled \in BOOLEAN /\ faults \in 0..MaxFaults

Rebuilding == \E i \in Tasks : rebuild[i].step \notin {"none", "end"}

\* Network::run "completes when `ctx` is cancelled". Refuted when there is
\* no IPv4 device: the device watcher returns at once, the loop stops
\* reading batches, and the lease watch blocks in its send, where it does
\* not see the token.
RunReturns == cancelled ~> run = "done"

\* It holds if the loop is still selecting when the token is cancelled,
\* whatever the watchers and the rebuild tasks are doing then, and also if
\* the device watcher ends first.
LoopReturns == (cancelled /\ run # "join") ~> run = "done"

\* Every batch the lease watch derives is handled, unless the token is
\* cancelled, run could not start, or the device watcher ended.
AllHandled ==
  \A n \in 1..MaxBatches :
    batches >= n ~> (handled >= n \/ cancelled \/ run = "done" \/ dev = "done")

\* A deletion that the watcher is subscribed for is repaired: in the end
\* the device is there and NetState names it, unless the network is shut
\* down or the watcher ends. Of one deletion: with more, a task that has
\* configured its device may be overtaken, on its way to the lock, by a
\* second deletion and the task that repairs that one, and then stores the
\* device that is gone; every later event is programmed on it, and fails.
DeviceRestored ==
  <>[](link # 0 /\ stored = link)
    \/ <>(cancelled \/ unseen \/ run = "done" \/ dev = "done" \/ losses > 1)

\* A device that is gone is on its way back: its deletion is still to be
\* read, signalled, or a rebuild is at work. It takes all the queues of
\* capacity 1, signals that are skipped and overlapping rebuilds to break it.
LossNoticed ==
  ~cancelled /\ ~unseen /\ run \in {"select", "handle"} /\ dev = "watch" /\ link = 0 =>
    notices > 0 \/ missFull \/ Rebuilding

\* A rebuild ends although nobody joins it: once the token is cancelled no
\* task of the network is at work for ever.
TasksEnd == cancelled ~> ~Rebuilding

\* After the token run comes to its end, and so do the tasks it leaves
\* behind: nobody waits for somebody who waits for it.
Ends == LoopReturns /\ TasksEnd
=============================================================================
