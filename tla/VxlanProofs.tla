----------------------------- MODULE VxlanProofs ----------------------------
(***************************************************************************)
(* Proofs about VxlanNetwork, for every number of batches, deletions of    *)
(* the device and faults. A deletion is always in one of three places, the *)
(* queue of notices, the signal, or a task that will still look at the     *)
(* device; there are as many tasks as signals because each of the three    *)
(* stands for a deletion of its own (CountInv).                            *)
(***************************************************************************)
EXTENDS VxlanNetwork, TLAPS

\* A device that was there when the watcher subscribed is not lost before.
SubscribedInv ==
  /\ run = "start" => dev = "off"
  /\ dev \in {"off", "start"} /\ ~unseen => link # 0

\* Every notice, signal and task stands for a deletion of its own.
Count(b) == IF b THEN 1 ELSE 0
CountInv == notices + Count(missFull) + spawned <= losses

\* A task that configures or stores has a device.
DeviceInv == \A i \in Tasks : rebuild[i].step \in {"configure", "store"} => rebuild[i].dev # 0

\* The tasks that will find out that the device is gone; one that only has
\* its device left to store will not.
Restoring == \E i \in Tasks : rebuild[i].step \in {"begin", "create", "configure"}

LossInv ==
  ~cancelled /\ ~unseen /\ run \in {"select", "handle"} /\ dev = "watch" /\ link = 0 =>
    notices > 0 \/ missFull \/ Restoring

IInv == TypeOK /\ SubscribedInv /\ CountInv /\ DeviceInv /\ LossInv
-----------------------------------------------------------------------------
LEMMA InitInv == Init => IInv
<1> SUFFICES ASSUME Init PROVE IInv
  OBVIOUS
<1>1. TypeOK
  <2>1. rebuild \in [Tasks -> [step : Steps, dev : Nat]]
    BY DEF Init, Task, Steps
  <2>2. /\ link \in 0..links /\ links \in Nat \ {0} /\ stored \in Nat
        /\ 0 \in 0..MaxLosses /\ 0 \in 0..MaxBatches /\ 0 \in 0..MaxFaults
    BY BoundAssumption DEF Init
  <2> QED
    BY <2>1, <2>2 DEF Init, TypeOK
<1>2. SubscribedInv /\ CountInv /\ LossInv
  BY DEF Init, SubscribedInv, CountInv, Count, LossInv
<1>3. DeviceInv
  BY DEF Init, DeviceInv, Task
<1> QED
  BY <1>1, <1>2, <1>3 DEF IInv

\* The lease watch and the batches have no part in it.
LEMMA BatchInv ==
  ASSUME IInv, WatchRecv \/ WatchSend \/ WatchStop \/ TakeBatch \/ HandleBatch \/ LeasesClosed
               \/ MissingClosed \/ Join
  PROVE  IInv'
<1> USE DEF IInv, WatchRecv, WatchSend, WatchStop, TakeBatch, HandleBatch, LeasesClosed,
            MissingClosed, Join, loopVars, watchVars, devVars, rebuildVars, kernelVars
<1>1. UNCHANGED <<dev, notices, missFull, spawned, rebuild, stored, link, links, unseen, losses,
                  cancelled, faults>>
  OBVIOUS
<1>2. /\ run' \in {"select", "handle", "join", "done"} \/ run' = run
      /\ run' \in {"select", "handle"} => run \in {"select", "handle"} \/ run' = run
      /\ run' # "start" \/ run = "start"
  BY DEF TypeOK
<1>3. TypeOK'
  <2>1. batches' \in 0..MaxBatches /\ handled' \in Nat
    BY BoundAssumption DEF TypeOK
  <2>2. watch' \in {"off", "recv", "send", "done"} /\ evFull' \in BOOLEAN
    BY DEF TypeOK
  <2> QED
    BY <1>1, <1>2, <2>1, <2>2 DEF TypeOK
<1> HIDE DEF WatchRecv, WatchSend, WatchStop, TakeBatch, HandleBatch, LeasesClosed,
             MissingClosed, Join, loopVars, watchVars, devVars, rebuildVars, kernelVars
<1>4. SubscribedInv'
  BY <1>1, <1>2 DEF SubscribedInv
<1>5. CountInv' /\ DeviceInv'
  BY <1>1 DEF CountInv, DeviceInv
<1>6. LossInv'
  BY <1>1, <1>2 DEF LossInv, Restoring
<1> QED
  BY <1>3, <1>4, <1>5, <1>6

LEMMA FaultLemma == TypeOK /\ (Fault \/ UNCHANGED faults) => faults' \in 0..MaxFaults
  BY BoundAssumption DEF TypeOK, Fault

LEMMA StartInv == ASSUME IInv, Start PROVE IInv'
<1> USE DEF IInv, Start, watchVars, loopVars, rebuildVars, kernelVars
<1>1. faults' \in 0..MaxFaults
  BY FaultLemma
<1>2. TypeOK'
  BY <1>1 DEF TypeOK
<1>3. SubscribedInv' /\ LossInv'
  BY DEF SubscribedInv, LossInv
<1>4. CountInv' /\ DeviceInv'
  BY DEF CountInv, DeviceInv
<1> QED
  BY <1>2, <1>3, <1>4

\* A signal becomes a task, of which there are enough.
LEMMA TakeMissingInv == ASSUME IInv, TakeMissing PROVE IInv'
<1> USE DEF IInv
<1>1. /\ run = "select" /\ missFull /\ ~missFull' /\ missFull' \in BOOLEAN
      /\ spawned' = spawned + 1
      /\ rebuild' = [rebuild EXCEPT ![spawned'] = Task("begin", 0)]
      /\ UNCHANGED <<run, handled, watch, batches, evFull, dev, notices, stored, link, links,
                     unseen, losses, cancelled, faults>>
  BY DEF TakeMissing, loopVars, watchVars, kernelVars
<1>2. spawned' \in Tasks /\ spawned' \in 0..MaxLosses
  BY <1>1, BoundAssumption DEF TypeOK, CountInv, Count, Tasks
<1>3. Task("begin", 0) \in [step : Steps, dev : Nat] /\ Task("begin", 0).step = "begin"
  BY DEF Task, Steps
<1>4. TypeOK'
  BY <1>1, <1>2, <1>3 DEF TypeOK
<1>5. SubscribedInv'
  BY <1>1 DEF SubscribedInv
<1>6. CountInv'
  BY <1>1, BoundAssumption DEF TypeOK, CountInv, Count
<1>7. DeviceInv'
  BY <1>1, <1>2, <1>3 DEF TypeOK, DeviceInv
<1>8. Restoring'
  BY <1>1, <1>2, <1>3 DEF TypeOK, Restoring
<1>9. LossInv'
  BY <1>8 DEF LossInv
<1> QED
  BY <1>4, <1>5, <1>6, <1>7, <1>9

LEMMA DevInv == ASSUME IInv, DevStart \/ DevNotice \/ DevEnd PROVE IInv'
<1> USE DEF IInv, loopVars, watchVars, rebuildVars, kernelVars
<1>1. CASE DevStart
  <2>1. TypeOK' /\ CountInv' /\ DeviceInv'
    BY <1>1 DEF DevStart, TypeOK, CountInv, DeviceInv
  <2>2. SubscribedInv' /\ LossInv'
    BY <1>1 DEF DevStart, SubscribedInv, LossInv
  <2> QED
    BY <2>1, <2>2
<1>2. CASE DevNotice
  <2>1. TypeOK' /\ DeviceInv'
    BY <1>2 DEF DevNotice, TypeOK, DeviceInv
  <2>2. SubscribedInv' /\ LossInv'
    BY <1>2 DEF DevNotice, SubscribedInv, LossInv
  <2>3. CountInv'
    BY <1>2, BoundAssumption DEF DevNotice, TypeOK, CountInv, Count
  <2> QED
    BY <2>1, <2>2, <2>3
<1>3. CASE DevEnd
  <2>1. TypeOK' /\ CountInv' /\ DeviceInv'
    BY <1>3 DEF DevEnd, TypeOK, CountInv, DeviceInv
  <2>2. SubscribedInv' /\ LossInv'
    BY <1>3 DEF DevEnd, SubscribedInv, LossInv
  <2> QED
    BY <2>1, <2>2
<1> QED
  BY <1>1, <1>2, <1>3

\* A task that is given something else to do.
LEMMA TaskLemma ==
  ASSUME TypeOK, NEW i \in Tasks, NEW t \in [step : Steps, dev : Nat],
         rebuild' = [rebuild EXCEPT ![i] = t]
  PROVE  /\ rebuild' \in [Tasks -> [step : Steps, dev : Nat]]
         /\ rebuild'[i] = t /\ \A j \in Tasks \ {i} : rebuild'[j] = rebuild[j]
  BY DEF TypeOK

\* A step of a task keeps the invariant if the device is there after it, or
\* the task will still find out that it is not, or could not have before.
LEMMA TaskStep ==
  ASSUME IInv, NEW i \in Tasks, NEW t \in [step : Steps, dev : Nat],
         rebuild' = [rebuild EXCEPT ![i] = t],
         t.step \in {"configure", "store"} => t.dev # 0,
         link' # 0 \/ cancelled \/ t.step \in {"begin", "create", "configure"}
           \/ rebuild[i].step \notin {"begin", "create", "configure"},
         links' \in Nat \ {0}, link' \in 0..links', link # 0 => link' # 0,
         faults' \in 0..MaxFaults, stored' \in Nat,
         UNCHANGED <<run, handled, watch, batches, evFull, dev, notices, missFull, spawned,
                     unseen, losses, cancelled>>
  PROVE  IInv'
<1> USE DEF IInv
<1>1. /\ rebuild' \in [Tasks -> [step : Steps, dev : Nat]]
      /\ rebuild'[i] = t /\ \A j \in Tasks \ {i} : rebuild'[j] = rebuild[j]
  BY TaskLemma
<1>2. TypeOK'
  BY <1>1 DEF TypeOK
<1>3. SubscribedInv' /\ CountInv'
  BY DEF SubscribedInv, CountInv
<1>4. DeviceInv'
  BY <1>1 DEF DeviceInv
<1>5. link' = 0 /\ ~cancelled /\ Restoring => Restoring'
  BY <1>1 DEF Restoring
<1>6. LossInv'
  BY <1>5 DEF LossInv
<1> QED
  BY <1>2, <1>3, <1>4, <1>6

LEMMA RebuildInv == ASSUME IInv, NEW i \in Tasks, RebuildStep(i) PROVE IInv'
<1> USE DEF IInv, loopVars, watchVars, devVars, kernelVars
<1>1. ASSUME NEW s \in Steps, NEW d \in Nat
      PROVE  Task(s, d) \in [step : Steps, dev : Nat] /\ Task(s, d).step = s /\ Task(s, d).dev = d
  BY DEF Task
<1>2. \A s \in {"begin", "create", "configure", "store", "end"} : s \in Steps
  BY DEF Steps
<1>3. link \in Nat /\ links \in Nat \ {0} /\ stored \in Nat /\ faults \in 0..MaxFaults
      /\ link \in 0..links /\ rebuild[i] \in [step : Steps, dev : Nat]
  BY DEF TypeOK
<1>4. Task("begin", 0) \in [step : Steps, dev : Nat] /\ Task("begin", 0).step = "begin"
  BY <1>1, <1>2
<1>5. Task("end", 0) \in [step : Steps, dev : Nat] /\ Task("end", 0).step = "end"
  BY <1>1, <1>2
<1>6. CASE RebuildBegin(i)
  <2> DEFINE t == Task(IF cancelled THEN "end" ELSE "create", 0)
  <2>1. t \in [step : Steps, dev : Nat] /\ t.step = IF cancelled THEN "end" ELSE "create"
    BY <1>1, <1>2
  <2>2. /\ rebuild' = [rebuild EXCEPT ![i] = t] /\ link' = link /\ links' = links
        /\ stored' = stored /\ faults' = faults
        /\ UNCHANGED <<run, handled, watch, batches, evFull, dev, notices, missFull, spawned,
                       unseen, losses, cancelled>>
    BY <1>6 DEF RebuildBegin
  <2> HIDE DEF t
  <2> QED
    BY <1>3, <2>1, <2>2, TaskStep
<1>7. CASE RebuildCreate(i)
  <2>1. /\ stored' = stored
        /\ UNCHANGED <<run, handled, watch, batches, evFull, dev, notices, missFull, spawned,
                       unseen, losses, cancelled>>
    BY <1>7 DEF RebuildCreate
  <2>2. faults' \in 0..MaxFaults
    BY <1>7, FaultLemma DEF RebuildCreate
  <2>3. CASE /\ links' = IF link = 0 THEN links + 1 ELSE links
             /\ link' = IF link = 0 THEN links' ELSE link
             /\ rebuild' = [rebuild EXCEPT ![i] = Task("configure", link')]
    <3>1. links' \in Nat \ {0} /\ link' \in 0..links' /\ link' # 0 /\ link' \in Nat
      BY <1>3, <2>3
    <3>2. /\ Task("configure", link') \in [step : Steps, dev : Nat]
          /\ Task("configure", link').step = "configure"
          /\ Task("configure", link').dev = link'
      BY <1>1, <1>2, <3>1
    <3> QED
      BY <1>3, <2>1, <2>2, <2>3, <3>1, <3>2, TaskStep
  <2>4. CASE rebuild' = [rebuild EXCEPT ![i] = Task("begin", 0)] /\ UNCHANGED <<link, links>>
    BY <1>3, <1>4, <2>1, <2>2, <2>4, TaskStep
  <2> QED
    BY <1>7, <2>3, <2>4 DEF RebuildCreate
<1>8. CASE RebuildConfigure(i)
  <2>1. /\ rebuild[i].step = "configure" /\ link' = link /\ links' = links /\ stored' = stored
        /\ UNCHANGED <<run, handled, watch, batches, evFull, dev, notices, missFull, spawned,
                       unseen, losses, cancelled>>
    BY <1>8 DEF RebuildConfigure
  <2>2. faults' \in 0..MaxFaults
    BY <1>8, FaultLemma DEF RebuildConfigure
  <2>3. CASE rebuild[i].dev = link /\ rebuild' = [rebuild EXCEPT ![i] = Task("store", link)]
    <3>1. link # 0
      BY <2>1, <2>3 DEF DeviceInv
    <3>2. /\ Task("store", link) \in [step : Steps, dev : Nat]
          /\ Task("store", link).step = "store" /\ Task("store", link).dev = link
      BY <1>1, <1>2, <1>3
    <3> QED
      BY <1>3, <2>1, <2>2, <2>3, <3>1, <3>2, TaskStep
  <2>4. CASE rebuild' = [rebuild EXCEPT ![i] = Task("begin", 0)]
    BY <1>3, <1>4, <2>1, <2>2, <2>4, TaskStep
  <2> QED
    BY <1>8, <2>3, <2>4 DEF RebuildConfigure
<1>9. CASE RebuildStore(i)
  <2>1. /\ rebuild[i].step = "store" /\ link' = link /\ links' = links /\ stored' = rebuild[i].dev
        /\ faults' = faults /\ rebuild' = [rebuild EXCEPT ![i] = Task("end", 0)]
        /\ UNCHANGED <<run, handled, watch, batches, evFull, dev, notices, missFull, spawned,
                       unseen, losses, cancelled>>
    BY <1>9 DEF RebuildStore
  <2>2. stored' \in Nat
    BY <1>3, <2>1
  <2> QED
    BY <1>3, <1>5, <2>1, <2>2, TaskStep
<1> QED
  BY <1>6, <1>7, <1>8, <1>9 DEF RebuildStep

LEMMA DeleteDeviceInv == ASSUME IInv, DeleteDevice PROVE IInv'
<1> USE DEF IInv, DeleteDevice, loopVars, watchVars, rebuildVars
<1>1. TypeOK'
  <2>1. losses' \in 0..MaxLosses /\ notices' \in Nat /\ link' \in 0..links'
    BY BoundAssumption DEF TypeOK
  <2> QED
    BY <2>1 DEF TypeOK
<1>2. SubscribedInv' /\ DeviceInv'
  BY DEF SubscribedInv, DeviceInv
<1>3. CountInv'
  BY BoundAssumption DEF TypeOK, CountInv, Count
<1>4. LossInv'
  BY DEF TypeOK, LossInv
<1> QED
  BY <1>1, <1>2, <1>3, <1>4

LEMMA NextInv == IInv /\ [Next]_vars => IInv'
<1> SUFFICES ASSUME IInv, [Next]_vars PROVE IInv'
  OBVIOUS
<1>1. CASE Cancel
  BY <1>1 DEF Cancel, IInv, TypeOK, SubscribedInv, CountInv, DeviceInv, LossInv,
     loopVars, watchVars, devVars, rebuildVars, kernelVars
<1>2. CASE UNCHANGED vars
  BY <1>2 DEF vars, IInv, TypeOK, SubscribedInv, CountInv, DeviceInv, LossInv, Restoring,
     loopVars, watchVars, devVars, rebuildVars, kernelVars
<1> QED
  BY <1>1, <1>2, BatchInv, StartInv, TakeMissingInv, DevInv, RebuildInv, DeleteDeviceInv
  DEF Next, RunStep, WatchStep

LEMMA Inductive == Spec => []IInv
  BY InitInv, NextInv, PTL DEF Spec

\* The counters of the vxlan network stay within their bounds, a rebuild task
\* for every signal included (recreate_vxlan).
THEOREM TypeCorrect == Spec => []TypeOK
<1>1. IInv => TypeOK
  BY DEF IInv
<1> QED
  BY <1>1, Inductive, PTL

\* For every number of batches, deletions and faults: a device that is gone
\* while the network runs is on its way back (run, watch_vxlan_device,
\* recreate_vxlan).
THEOREM LossIsNoticed == Spec => []LossNoticed
<1>1. IInv => LossNoticed
  BY DEF IInv, LossInv, Restoring, LossNoticed, Rebuilding
<1> QED
  BY <1>1, Inductive, PTL
=============================================================================
