---------------------------- MODULE DaemonProofs ----------------------------
(***************************************************************************)
(* Proofs about Daemon and AcquireLease, for any options, configurations,  *)
(* overwrite addresses and CIDRs, and any number of writes, faults and     *)
(* restarts. The invariant has a part for the node's annotations, which    *)
(* only acquire_lease and the cluster change (AnnotationsInv), and parts   *)
(* that follow run_inner from step to step: what it has set up             *)
(* (ServingInv), which tasks can be running (TasksInv), and why the token  *)
(* can have fired (AskedInv). The choice of the interface needs none: it   *)
(* is right for every host and all options (FitsLemma).                    *)
(***************************************************************************)
EXTENDS Daemon, WellFoundedInduction, TLAPS

\* The steps of run_inner after one of them.
Serving == {"run", "await", "innerDrain", "innerSignal"}
AfterBlackhole == {"file"} \cup Serving
AfterForward == {"blackhole"} \cup AfterBlackhole
AfterMasq == {"forward"} \cup AfterForward
AfterRegister == {"clean", "masq"} \cup AfterMasq
AfterHealthz == {"probe", "iface", "create", "register"} \cup AfterRegister
AfterSignals == {"healthz"} \cup AfterHealthz

\* Nobody but this daemon writes these annotations.
Own == Keys \ {"ow", "ow6"}

\* How the annotations on the API server, the copies and the patch hang
\* together: a copy is right in what only this daemon writes until it does;
\* from then on the API server has either the copy's value or the wanted one.
AnnotationsInv ==
  /\ phase \in {"idle", "wait"} /\ cache # None => \A k \in Own : cache.ann[k] = api.ann[k]
  /\ phase \in {"patch", "retry"} =>
       /\ patch = Diff(node.ann, attrs)
       /\ \A k \in Own : api.ann[k] \in {node.ann[k], Wanted(node.ann, attrs)[k]}
  /\ phase = "held" => \A k \in Own : api.ann[k] = Wanted(node.ann, attrs)[k]

\* What the steps so far have set up, or failed to and gone on, for the
\* lease that is held.
ServingInv ==
  /\ pc \in AfterRegister => phase = "held"
  /\ pc \in AfterMasq /\ opts.masq => "masq" \in rules \/ (~opts.nft /\ "masq" \in unset)
  /\ pc \in AfterForward /\ opts.forward => "forward" \in rules \cup unset

\* The recorded tasks, and where the others can be running.
TasksInv ==
  /\ live \cap {"healthz", "blackhole"} \subseteq tasks
  /\ "backend" \in live => pc = "await"
  /\ pc = "flags" => live = {} /\ tasks = {}
  /\ pc \in {"drainSignal", "exited"} => tasks = {}
  /\ pc = "exited" => "signal" \notin live

\* The token fires because somebody asked for it, until run_inner has
\* returned; and until somebody asks, the tasks that were started run.
AskedInv ==
  /\ pc \notin {"drain", "drainSignal", "exited"} /\ token => asked
  /\ ~asked /\ pc \in AfterSignals /\ opts.signals => "signal" \in live
  /\ ~asked /\ pc \in AfterHealthz =>
       opts.healthz = "off" \/ (pc # "innerSignal" /\ "healthz" \in live \cap tasks)
  /\ ~asked /\ pc \in AfterBlackhole /\ opts.blackhole =>
       pc # "innerSignal" /\ "blackhole" \in live \cap tasks
  /\ pc \in Ending /\ exit = 0 =>
       asked \/ (~opts.signals /\ opts.healthz = "off" /\ ~opts.blackhole)

IInv == TypeOK /\ AnnotationsInv /\ ServingInv /\ ReadyMeansServing /\ TasksInv /\ AskedInv
-----------------------------------------------------------------------------
(* The annotations *)

\* What is wanted of each annotation.
LEMMA WantedLemma ==
  ASSUME NEW ann \in [Keys -> Values], NEW a \in AttrsSet
  PROVE  /\ Wanted(ann, a)["type"] = a.type
         /\ Wanted(ann, a)["managed"] = "true"
         /\ Wanted(ann, a)["data"] = IF 4 \in Writes(a) THEN a.data ELSE ann["data"]
         /\ Wanted(ann, a)["ip"] = IF 4 \in Writes(a) THEN PublicIp(ann, "ow") ELSE ann["ip"]
         /\ Wanted(ann, a)["data6"] = IF 6 \in Writes(a) THEN a.data6 ELSE ann["data6"]
         /\ Wanted(ann, a)["ip6"] = IF 6 \in Writes(a) THEN PublicIp(ann, "ow6") ELSE ann["ip6"]
         /\ Wanted(ann, a)["ow"] = ann["ow"] /\ Wanted(ann, a)["ow6"] = ann["ow6"]
         /\ Wanted(ann, a) \in [Keys -> Values]
<1>1. /\ Wanted(ann, a)["type"] = a.type
      /\ Wanted(ann, a)["managed"] = "true"
      /\ Wanted(ann, a)["data"] = IF 4 \in Writes(a) THEN a.data ELSE ann["data"]
      /\ Wanted(ann, a)["ip"] = IF 4 \in Writes(a) THEN PublicIp(ann, "ow") ELSE ann["ip"]
      /\ Wanted(ann, a)["data6"] = IF 6 \in Writes(a) THEN a.data6 ELSE ann["data6"]
      /\ Wanted(ann, a)["ip6"] = IF 6 \in Writes(a) THEN PublicIp(ann, "ow6") ELSE ann["ip6"]
      /\ Wanted(ann, a)["ow"] = ann["ow"] /\ Wanted(ann, a)["ow6"] = ann["ow6"]
  BY DEF Wanted, Keys
<1>2. /\ a.type \in Values /\ a.data \in Values /\ a.data6 \in Values
      /\ "true" \in Values /\ "own" \in Values
  BY DEF Values
<1>3. PublicIp(ann, "ow") \in Values /\ PublicIp(ann, "ow6") \in Values
  BY <1>2 DEF PublicIp, Keys
<1>4. \A k \in Keys : Wanted(ann, a)[k] \in Values
  <2> SUFFICES ASSUME NEW k \in Keys PROVE Wanted(ann, a)[k] \in Values
    OBVIOUS
  <2>1. ann[k] \in Values
    OBVIOUS
  <2> QED
    BY <1>1, <1>2, <1>3, <2>1 DEF Keys
<1>5. Wanted(ann, a) = [k \in Keys |-> Wanted(ann, a)[k]]
  BY DEF Wanted
<1> QED
  BY <1>1, <1>4, <1>5

\* A copy that needs no patch has what is wanted.
LEMMA NoPatchLemma ==
  ASSUME NEW ann \in [Keys -> Values], NEW a \in AttrsSet, ~NeedsPatch(ann, a)
  PROVE  \A k \in Keys : Wanted(ann, a)[k] = ann[k]
<1>1. /\ ann["data"] = a.data /\ ann["type"] = a.type /\ ann["ip"] = "own"
      /\ ann["managed"] = "true" /\ ann["ow"] \in {"none", "own"}
      /\ a.v6 => ann["data6"] = a.data6 /\ ann["ip6"] = "own" /\ ann["ow6"] \in {"none", "own"}
  BY DEF NeedsPatch, Changed
<1>2. PublicIp(ann, "ow") = "own" /\ (a.v6 => PublicIp(ann, "ow6") = "own")
  BY <1>1 DEF PublicIp
<1>3. 6 \in Writes(a) => a.v6
  BY DEF Writes
<1> QED
  BY <1>1, <1>2, <1>3, WantedLemma DEF Keys

\* The patch brings the API server to what is wanted, if it has the copy's
\* value or the wanted one already; overwrite annotations it leaves alone.
LEMMA MergeLemma ==
  ASSUME NEW cur \in [Keys -> Values], NEW ann \in [Keys -> Values], NEW a \in AttrsSet
  PROVE  /\ Merge(cur, Diff(ann, a)) \in [Keys -> Values]
         /\ \A k \in Keys : cur[k] \in {ann[k], Wanted(ann, a)[k]} =>
                             Merge(cur, Diff(ann, a))[k] = Wanted(ann, a)[k]
         /\ \A k \in {"ow", "ow6"} : Merge(cur, Diff(ann, a))[k] = cur[k]
<1> DEFINE W == Wanted(ann, a)
<1>1. W \in [Keys -> Values] /\ W["ow"] = ann["ow"] /\ W["ow6"] = ann["ow6"]
  BY WantedLemma
<1> HIDE DEF W
<1>2. DOMAIN Diff(ann, a) = {k \in Keys : W[k] # ann[k]} /\ \A k \in DOMAIN Diff(ann, a) : Diff(ann, a)[k] = W[k]
  BY DEF Diff, W
<1>3. \A k \in Keys : Merge(cur, Diff(ann, a))[k] = IF W[k] # ann[k] THEN W[k] ELSE cur[k]
  BY <1>2 DEF Merge
<1>4. Merge(cur, Diff(ann, a)) \in [Keys -> Values]
  BY <1>1, <1>2 DEF Merge
<1>5. "ow" \in Keys /\ "ow6" \in Keys
  BY DEF Keys
<1>6. \A k \in {"ow", "ow6"} : Merge(cur, Diff(ann, a))[k] = cur[k]
  BY <1>1, <1>3, <1>5
<1> QED
  BY <1>3, <1>4, <1>6 DEF W

AcquireInv == AcquireTypeOK /\ AnnotationsInv

\* The nodes are records.
LEMMA NodeLemma ==
  ASSUME NEW n \in Nodes, NEW ann \in [Keys -> Values]
  PROVE  /\ n.ann \in [Keys -> Values] /\ n.cidrs \in AllCidrs
         /\ [n EXCEPT !.ann = ann] \in Nodes /\ [n EXCEPT !.ann = ann].ann = ann
  BY DEF Nodes

LEMMA FinishLemma ==
  ASSUME AcquireTypeOK, NEW n, Finish(n)
  PROVE  phase' \in {"held", "failed"} /\ lease' \subseteq attrs.fams
  BY DEF Finish, AcquireTypeOK, Enabled

LEMMA PollInv == ASSUME AcquireInv, Poll PROVE AcquireInv'
<1> USE DEF AcquireInv
<1>1. /\ phase = "wait" /\ UNCHANGED <<api, cache, attrs, writes, faults>>
  BY DEF Poll
<1>2. /\ Fetched # None => Fetched \in Nodes /\ \A k \in Own : Fetched.ann[k] = api.ann[k]
  BY <1>1 DEF Fetched, AcquireTypeOK, AnnotationsInv
<1>3. CASE phase' = "failed" /\ UNCHANGED <<node, patch, lease>>
  BY <1>1, <1>3 DEF AcquireTypeOK, AnnotationsInv
<1>4. CASE /\ node' = Fetched /\ NeedsPatch(Fetched.ann, attrs)
           /\ phase' = "patch" /\ patch' = Diff(Fetched.ann, attrs) /\ UNCHANGED lease
  <2>1. Fetched \in Nodes /\ Fetched.ann \in [Keys -> Values] /\ attrs \in AttrsSet
    BY <1>2, NodeLemma DEF Poll, AcquireTypeOK, Nodes
  <2>2. DOMAIN patch' \subseteq Keys /\ \A k \in DOMAIN patch' : patch'[k] \in Values
    <3>1. Wanted(Fetched.ann, attrs) \in [Keys -> Values]
      BY <2>1, WantedLemma
    <3> QED
      BY <1>4, <3>1 DEF Diff
  <2>3. AcquireTypeOK'
    BY <1>1, <1>4, <2>1, <2>2 DEF AcquireTypeOK
  <2>4. \A k \in Own : api'.ann[k] \in {node'.ann[k], Wanted(node'.ann, attrs')[k]}
    BY <1>1, <1>2, <1>4 DEF Poll
  <2>5. AnnotationsInv'
    BY <1>1, <1>4, <2>4 DEF AnnotationsInv
  <2> QED
    BY <2>3, <2>5
<1>5. CASE node' = Fetched /\ ~NeedsPatch(Fetched.ann, attrs) /\ Finish(Fetched) /\ UNCHANGED patch
  <2>1. Fetched \in Nodes /\ Fetched.ann \in [Keys -> Values] /\ attrs \in AttrsSet
    BY <1>2, NodeLemma DEF Poll, AcquireTypeOK, Nodes
  <2>2. phase' \in {"held", "failed"} /\ lease' \subseteq attrs.fams
    BY <1>5, FinishLemma
  <2>3. AcquireTypeOK'
    BY <1>1, <1>5, <2>1, <2>2 DEF AcquireTypeOK
  <2>4. \A k \in Own : api'.ann[k] = Wanted(node'.ann, attrs')[k]
    BY <1>1, <1>2, <1>5, <2>1, NoPatchLemma DEF Poll, Own
  <2>5. AnnotationsInv'
    BY <2>2, <2>4 DEF AnnotationsInv
  <2> QED
    BY <2>3, <2>5
<1> QED
  BY <1>3, <1>4, <1>5 DEF Poll

\* An attempt to patch, whether its answer arrives or not.
LEMMA PatchLemma ==
  ASSUME AcquireInv, phase \in {"patch", "retry"}, api' = [api EXCEPT !.ann = Merge(@, patch)]
  PROVE  /\ api' \in Nodes
         /\ \A k \in Own : api'.ann[k] = Wanted(node.ann, attrs)[k]
<1> USE DEF AcquireInv
<1>1. /\ api.ann \in [Keys -> Values] /\ node.ann \in [Keys -> Values] /\ attrs \in AttrsSet
      /\ patch = Diff(node.ann, attrs) /\ api \in Nodes
  BY DEF AcquireTypeOK, AnnotationsInv, Nodes
<1> DEFINE m == Merge(api.ann, Diff(node.ann, attrs))
<1>2. /\ m \in [Keys -> Values]
      /\ \A k \in Keys : api.ann[k] \in {node.ann[k], Wanted(node.ann, attrs)[k]} =>
                          m[k] = Wanted(node.ann, attrs)[k]
  BY <1>1, MergeLemma
<1>3. api' = [api EXCEPT !.ann = m]
  BY <1>1
<1> HIDE DEF m
<1>4. api' \in Nodes /\ api'.ann = m
  <2>1. [api EXCEPT !.ann = m] \in Nodes /\ [api EXCEPT !.ann = m].ann = m
    BY <1>1, <1>2 DEF Nodes
  <2> QED
    BY <1>3, <2>1
<1> QED
  BY <1>2, <1>4 DEF AnnotationsInv, Own

LEMMA PatchInv ==
  ASSUME AcquireInv, PatchOk \/ PatchError \/ PatchTimeout \/ PollTimeout PROVE AcquireInv'
<1> USE DEF AcquireInv
<1>1. CASE PatchOk
  <2>1. /\ api' \in Nodes /\ \A k \in Own : api'.ann[k] = Wanted(node.ann, attrs)[k]
    BY <1>1, PatchLemma DEF PatchOk
  <2>2. phase' \in {"held", "failed"} /\ lease' \subseteq attrs.fams
    BY <1>1, FinishLemma DEF PatchOk
  <2>3. UNCHANGED <<cache, node, attrs, patch, writes, faults>>
    BY <1>1 DEF PatchOk
  <2> QED
    BY <2>1, <2>2, <2>3 DEF AcquireTypeOK, AnnotationsInv
<1>2. CASE PatchError
  <2>1. /\ phase \in {"patch", "retry"} /\ phase' = "retry"
        /\ UNCHANGED <<cache, node, attrs, patch, lease, writes>>
    BY <1>2 DEF PatchError
  <2>2. faults' \in 0..MaxFaults
    BY <1>2, AcquireBounds DEF PatchError, Fault, AcquireTypeOK
  <2>3. api' \in Nodes /\ \A k \in Own : api'.ann[k] \in {node.ann[k], Wanted(node.ann, attrs)[k]}
    <3>1. CASE UNCHANGED api
      BY <2>1, <3>1 DEF AcquireTypeOK, AnnotationsInv
    <3>2. CASE api' = [api EXCEPT !.ann = Merge(@, patch)]
      BY <2>1, <3>2, PatchLemma
    <3> QED
      BY <1>2, <3>1, <3>2 DEF PatchError
  <2> QED
    BY <2>1, <2>2, <2>3 DEF AcquireTypeOK, AnnotationsInv
<1>3. CASE PatchTimeout \/ PollTimeout
  BY <1>3 DEF PatchTimeout, PollTimeout, AcquireTypeOK, AnnotationsInv
<1> QED
  BY <1>1, <1>2, <1>3

\* Operators and the controller keep their hands off flannel's annotations.
LEMMA WriteInv == ASSUME AcquireInv, Write PROVE AcquireInv'
<1> USE DEF AcquireInv
<1>1. api \in Nodes /\ UNCHANGED <<cache, faults, node, attrs, patch, phase, lease>>
      /\ writes' \in 0..MaxWrites
  BY AcquireBounds DEF Write, AcquireTypeOK, acquireVars
<1>2. api' \in Nodes /\ \A k \in Own : api'.ann[k] = api.ann[k]
  <2>1. CASE \E c \in Cidrs \ {"unassigned"} : api' = [api EXCEPT !.cidrs = c]
    BY <1>1, <2>1, CidrsAssumption DEF Nodes
  <2>2. CASE \E k \in {"ow", "ow6"}, v \in OverwriteIps \cup {"none"} : api' = [api EXCEPT !.ann[k] = v]
    <3> PICK k \in {"ow", "ow6"}, v \in OverwriteIps \cup {"none"} : api' = [api EXCEPT !.ann[k] = v]
      BY <2>2
    <3>1. api.ann \in [Keys -> Values] /\ v \in Values /\ k \in Keys
      BY <1>1 DEF Nodes, Values, Keys
    <3>2. [api.ann EXCEPT ![k] = v] \in [Keys -> Values]
      BY <3>1
    <3>3. api' = [api EXCEPT !.ann = [api.ann EXCEPT ![k] = v]]
      BY <1>1 DEF Nodes
    <3>4. api' \in Nodes /\ api'.ann = [api.ann EXCEPT ![k] = v]
      <4> DEFINE m == [api.ann EXCEPT ![k] = v]
      <4>1. m \in [Keys -> Values] /\ api' = [api EXCEPT !.ann = m]
        BY <3>2, <3>3
      <4> HIDE DEF m
      <4>2. [api EXCEPT !.ann = m] \in Nodes /\ [api EXCEPT !.ann = m].ann = m
        BY <1>1, <4>1, NodeLemma
      <4>3. api' \in Nodes /\ api'.ann = m
        BY <4>1, <4>2
      <4> QED
        BY <4>3 DEF m
    <3> QED
      BY <3>1, <3>4 DEF Own
  <2> QED
    BY <2>1, <2>2 DEF Write
<1> QED
  BY <1>1, <1>2 DEF AcquireTypeOK, AnnotationsInv

-----------------------------------------------------------------------------
(* run *)

\* The steps of run that leave the lease and the node alone: all but the
\* start of acquire_lease.
RunStep ==
  \/ ValidateFlags \/ CreateManager \/ WaitSynced \/ InstallShutdownHandler \/ StartHealthz
  \/ CheckBrNetfilter \/ SelectIface \/ CreateBackend \/ RegisterEnd \/ CleanAndInit
  \/ SetupMasq \/ SetupForward \/ SpawnBlackhole \/ WriteSubnetFile \/ RunBackend
  \/ AwaitBackend \/ InnerDrain \/ InnerDrainSignal \/ Cancel \/ Drain \/ DrainSignal

\* A fault is counted, where there is one.
LEMMA FaultLemma == AcquireTypeOK /\ (Fault \/ UNCHANGED faults) => faults' \in 0..MaxFaults
  BY AcquireBounds DEF AcquireTypeOK, Fault

LEMMA LeaseKept ==
  ASSUME AcquireInv, UNCHANGED leaseVars, Fault \/ UNCHANGED faults
  PROVE  AcquireInv'
<1>1. faults' \in 0..MaxFaults
  BY FaultLemma DEF AcquireInv
<1> QED
  BY <1>1 DEF AcquireInv, AcquireTypeOK, AnnotationsInv, leaseVars, acquireVars

LEMMA RunStepLease ==
  ASSUME RunStep PROVE UNCHANGED leaseVars /\ (Fault \/ UNCHANGED faults)
<1>1. CASE ValidateFlags
  BY <1>1 DEF ValidateFlags
<1>2. CASE CreateManager
  BY <1>2 DEF CreateManager, Return
<1>3. CASE WaitSynced
  BY <1>3 DEF WaitSynced, Return
<1>4. CASE InstallShutdownHandler
  BY <1>4 DEF InstallShutdownHandler, Return
<1>5. CASE StartHealthz
  BY <1>5 DEF StartHealthz, Return
<1>6. CASE CheckBrNetfilter
  BY <1>6 DEF CheckBrNetfilter, Return
<1>7. CASE SelectIface
  BY <1>7 DEF SelectIface, Return
<1>8. CASE CreateBackend
  BY <1>8 DEF CreateBackend, Return
<1>9. CASE RegisterEnd
  BY <1>9 DEF RegisterEnd, Return, MayFail
<1>10. CASE CleanAndInit
  BY <1>10 DEF CleanAndInit, MayFail, Return
<1>11. CASE SetupMasq
  BY <1>11 DEF SetupMasq, MayFail, Return, Goto, Resync
<1>12. CASE SetupForward
  BY <1>12 DEF SetupForward, Goto, Resync
<1>13. CASE SpawnBlackhole
  BY <1>13 DEF SpawnBlackhole, Goto
<1>14. CASE WriteSubnetFile
  BY <1>14 DEF WriteSubnetFile, Goto
<1>15. CASE RunBackend
  BY <1>15 DEF RunBackend, Goto
<1>16. CASE AwaitBackend
  BY <1>16 DEF AwaitBackend, Goto, runVars
<1>17. CASE InnerDrain
  BY <1>17 DEF InnerDrain, Goto
<1>18. CASE InnerDrainSignal
  BY <1>18 DEF InnerDrainSignal, Return
<1>19. CASE Cancel
  BY <1>19 DEF Cancel, Goto
<1>20. CASE Drain
  BY <1>20 DEF Drain, Goto
<1>21. CASE DrainSignal
  BY <1>21 DEF DrainSignal, Goto, runVars
<1> QED
  BY <1>1, <1>2, <1>3, <1>4, <1>5, <1>6, <1>7, <1>8, <1>9, <1>10, <1>11, <1>12, <1>13, <1>14,
     <1>15, <1>16, <1>17, <1>18, <1>19, <1>20, <1>21 DEF RunStep

LEMMA RunStepType == ASSUME IInv, RunStep, AcquireTypeOK' PROVE TypeOK'
<1>0. lease \in UNION {SUBSET a.fams : a \in AttrsSet}
  BY DEF IInv, TypeOK, AcquireTypeOK
<1> USE DEF IInv, TypeOK, Steps, Ending, Tasks
<1>1. CASE ValidateFlags
  BY <1>1 DEF ValidateFlags
<1>2. CASE CreateManager
  BY <1>2 DEF CreateManager, Return
<1>3. CASE WaitSynced
  BY <1>3 DEF WaitSynced, Return
<1>4. CASE InstallShutdownHandler
  BY <1>4 DEF InstallShutdownHandler, Return
<1>5. CASE StartHealthz
  <2>1. /\ pc' \in {"probe", "cancel"} /\ live' \subseteq Tasks /\ tasks' \subseteq {"healthz", "blackhole"}
        /\ exit' \in {exit, 1}
    BY <1>5 DEF StartHealthz, Return
  <2> QED
    BY <1>5, <2>1 DEF StartHealthz
<1>6. CASE CheckBrNetfilter
  BY <1>6 DEF CheckBrNetfilter, Return
<1>7. CASE SelectIface
  BY <1>7 DEF SelectIface, Return
<1>8. CASE CreateBackend
  BY <1>8 DEF CreateBackend, Return
<1>9. CASE RegisterEnd
  BY <1>9 DEF RegisterEnd, Return, MayFail
<1>10. CASE CleanAndInit
  BY <1>10 DEF CleanAndInit, MayFail, Return
<1>11. CASE SetupMasq
  <2>1. /\ pc' \in {"forward", "cancel"} /\ live' \subseteq Tasks /\ rules' \subseteq {"masq", "forward"}
        /\ unset' \subseteq {"masq", "forward"} /\ exit' \in {exit, 1}
    BY <1>11 DEF SetupMasq, MayFail, Return, Goto, Resync
  <2> QED
    BY <1>11, <2>1 DEF SetupMasq
<1>12. CASE SetupForward
  BY <1>12 DEF SetupForward, Goto, Resync
<1>13. CASE SpawnBlackhole
  BY <1>13 DEF SpawnBlackhole, Goto
<1>14. CASE WriteSubnetFile
  BY <1>14, <1>0 DEF WriteSubnetFile, Goto, leaseVars, acquireVars
<1>15. CASE RunBackend
  BY <1>15 DEF RunBackend, Goto
<1>16. CASE AwaitBackend
  BY <1>16 DEF AwaitBackend, Goto, runVars
<1>17. CASE InnerDrain
  BY <1>17 DEF InnerDrain, Goto
<1>18. CASE InnerDrainSignal
  BY <1>18 DEF InnerDrainSignal, Return
<1>19. CASE Cancel
  BY <1>19 DEF Cancel, Goto
<1>20. CASE Drain
  BY <1>20 DEF Drain, Goto
<1>21. CASE DrainSignal
  BY <1>21 DEF DrainSignal, Goto, runVars
<1> QED
  BY <1>1, <1>2, <1>3, <1>4, <1>5, <1>6, <1>7, <1>8, <1>9, <1>10, <1>11, <1>12, <1>13, <1>14,
     <1>15, <1>16, <1>17, <1>18, <1>19, <1>20, <1>21 DEF RunStep

LEMMA RunStepServing == ASSUME IInv, RunStep PROVE ServingInv' /\ ReadyMeansServing'
<1> USE DEF IInv, ServingInv, ReadyMeansServing, leaseVars, acquireVars, Serving, AfterBlackhole,
            AfterForward, AfterMasq, AfterRegister
<1>1. CASE ValidateFlags
  BY <1>1 DEF ValidateFlags
<1>2. CASE CreateManager
  BY <1>2 DEF CreateManager, Return
<1>3. CASE WaitSynced
  BY <1>3 DEF WaitSynced, Return
<1>4. CASE InstallShutdownHandler
  BY <1>4 DEF InstallShutdownHandler, Return
<1>5. CASE StartHealthz
  BY <1>5 DEF StartHealthz, Return
<1>6. CASE CheckBrNetfilter
  BY <1>6 DEF CheckBrNetfilter, Return
<1>7. CASE SelectIface
  BY <1>7 DEF SelectIface, Return
<1>8. CASE CreateBackend
  BY <1>8 DEF CreateBackend, Return
<1>9. CASE RegisterEnd
  BY <1>9 DEF RegisterEnd, Return, MayFail
<1>10. CASE CleanAndInit
  BY <1>10 DEF CleanAndInit, MayFail, Return
<1>11. CASE SetupMasq
  BY <1>11 DEF SetupMasq, MayFail, Return, Goto, Resync
<1>12. CASE SetupForward
  BY <1>12 DEF SetupForward, Goto, Resync
<1>13. CASE SpawnBlackhole
  BY <1>13 DEF SpawnBlackhole, Goto
<1>14. CASE WriteSubnetFile
  BY <1>14 DEF WriteSubnetFile, Goto
<1>15. CASE RunBackend
  BY <1>15 DEF RunBackend, Goto
<1>16. CASE AwaitBackend
  BY <1>16 DEF AwaitBackend, Goto, runVars
<1>17. CASE InnerDrain
  BY <1>17 DEF InnerDrain, Goto
<1>18. CASE InnerDrainSignal
  BY <1>18 DEF InnerDrainSignal, Return
<1>19. CASE Cancel
  BY <1>19 DEF Cancel, Goto
<1>20. CASE Drain
  BY <1>20 DEF Drain, Goto
<1>21. CASE DrainSignal
  BY <1>21 DEF DrainSignal, Goto, runVars
<1> QED
  BY <1>1, <1>2, <1>3, <1>4, <1>5, <1>6, <1>7, <1>8, <1>9, <1>10, <1>11, <1>12, <1>13, <1>14,
     <1>15, <1>16, <1>17, <1>18, <1>19, <1>20, <1>21 DEF RunStep

LEMMA RunStepTasks == ASSUME IInv, RunStep PROVE TasksInv'
<1> USE DEF IInv, TasksInv
<1>1. CASE ValidateFlags
  BY <1>1 DEF ValidateFlags
<1>2. CASE CreateManager
  BY <1>2 DEF CreateManager, Return
<1>3. CASE WaitSynced
  BY <1>3 DEF WaitSynced, Return
<1>4. CASE InstallShutdownHandler
  BY <1>4 DEF InstallShutdownHandler, Return
<1>5. CASE StartHealthz
  BY <1>5 DEF StartHealthz, Return
<1>6. CASE CheckBrNetfilter
  BY <1>6 DEF CheckBrNetfilter, Return
<1>7. CASE SelectIface
  BY <1>7 DEF SelectIface, Return
<1>8. CASE CreateBackend
  BY <1>8 DEF CreateBackend, Return
<1>9. CASE RegisterEnd
  BY <1>9 DEF RegisterEnd, Return, MayFail
<1>10. CASE CleanAndInit
  BY <1>10 DEF CleanAndInit, MayFail, Return
<1>11. CASE SetupMasq
  BY <1>11 DEF SetupMasq, MayFail, Return, Goto, Resync
<1>12. CASE SetupForward
  BY <1>12 DEF SetupForward, Goto, Resync
<1>13. CASE SpawnBlackhole
  BY <1>13 DEF SpawnBlackhole, Goto
<1>14. CASE WriteSubnetFile
  BY <1>14 DEF WriteSubnetFile, Goto
<1>15. CASE RunBackend
  BY <1>15 DEF RunBackend, Goto
<1>16. CASE AwaitBackend
  BY <1>16 DEF AwaitBackend, Goto, runVars
<1>17. CASE InnerDrain
  BY <1>17 DEF InnerDrain, Goto
<1>18. CASE InnerDrainSignal
  BY <1>18 DEF InnerDrainSignal, Return
<1>19. CASE Cancel
  BY <1>19 DEF Cancel, Goto
<1>20. CASE Drain
  BY <1>20 DEF Drain, Goto
<1>21. CASE DrainSignal
  BY <1>21 DEF DrainSignal, Goto, runVars
<1> QED
  BY <1>1, <1>2, <1>3, <1>4, <1>5, <1>6, <1>7, <1>8, <1>9, <1>10, <1>11, <1>12, <1>13, <1>14,
     <1>15, <1>16, <1>17, <1>18, <1>19, <1>20, <1>21 DEF RunStep

LEMMA RunStepAsked == ASSUME IInv, RunStep PROVE AskedInv'
<1> USE DEF IInv, AskedInv, Serving, AfterBlackhole, AfterForward, AfterMasq, AfterRegister,
            AfterHealthz, AfterSignals, Ending
<1>1. CASE ValidateFlags
  BY <1>1 DEF ValidateFlags
<1>2. CASE CreateManager
  BY <1>2 DEF CreateManager, Return
<1>3. CASE WaitSynced
  BY <1>3 DEF WaitSynced, Return
<1>4. CASE InstallShutdownHandler
  BY <1>4 DEF InstallShutdownHandler, Return
<1>5. CASE StartHealthz
  BY <1>5 DEF StartHealthz, Return
<1>6. CASE CheckBrNetfilter
  BY <1>6 DEF CheckBrNetfilter, Return
<1>7. CASE SelectIface
  BY <1>7 DEF SelectIface, Return
<1>8. CASE CreateBackend
  BY <1>8 DEF CreateBackend, Return
<1>9. CASE RegisterEnd
  BY <1>9 DEF RegisterEnd, Return, MayFail
<1>10. CASE CleanAndInit
  BY <1>10 DEF CleanAndInit, MayFail, Return
<1>11. CASE SetupMasq
  BY <1>11 DEF SetupMasq, MayFail, Return, Goto, Resync
<1>12. CASE SetupForward
  BY <1>12 DEF SetupForward, Goto, Resync
<1>13. CASE SpawnBlackhole
  BY <1>13 DEF SpawnBlackhole, Goto
<1>14. CASE WriteSubnetFile
  BY <1>14 DEF WriteSubnetFile, Goto
<1>15. CASE RunBackend
  BY <1>15 DEF RunBackend, Goto
<1>16. CASE AwaitBackend
  BY <1>16 DEF AwaitBackend, Goto, runVars
<1>17. CASE InnerDrain
  BY <1>17 DEF InnerDrain, Goto
<1>18. CASE InnerDrainSignal
  BY <1>18 DEF InnerDrainSignal, Return
<1>19. CASE Cancel
  BY <1>19 DEF Cancel, Goto
<1>20. CASE Drain
  BY <1>20 DEF Drain, Goto
<1>21. CASE DrainSignal
  BY <1>21 DEF DrainSignal, Goto, runVars
<1> QED
  BY <1>1, <1>2, <1>3, <1>4, <1>5, <1>6, <1>7, <1>8, <1>9, <1>10, <1>11, <1>12, <1>13, <1>14,
     <1>15, <1>16, <1>17, <1>18, <1>19, <1>20, <1>21 DEF RunStep

LEMMA RunStepInv == ASSUME IInv, RunStep PROVE IInv'
<1>1. AcquireInv'
  BY RunStepLease, LeaseKept DEF IInv, TypeOK, AcquireInv
<1>2. TypeOK'
  BY <1>1, RunStepType DEF AcquireInv
<1> QED
  BY <1>1, <1>2, RunStepServing, RunStepTasks, RunStepAsked DEF IInv, AcquireInv

\* The run of the daemon stands still while acquire_lease and the cluster
\* take their steps; what it needs of them is that a held lease stays.
LEMMA LeaseStepKeeps ==
  ASSUME IInv, UNCHANGED <<pc, runVars>>, AcquireInv',
         phase = "held" => UNCHANGED <<phase, lease>>
  PROVE  IInv'
<1> USE DEF runVars
<1>1. TypeOK'
  BY DEF IInv, TypeOK, AcquireInv
<1>2. ServingInv' /\ ReadyMeansServing'
  BY DEF IInv, ServingInv, ReadyMeansServing, Serving, AfterBlackhole, AfterForward, AfterMasq,
     AfterRegister
<1>3. TasksInv' /\ AskedInv'
  BY DEF IInv, TasksInv, AskedInv
<1> QED
  BY <1>1, <1>2, <1>3 DEF IInv, AcquireInv

LEMMA LeaseStepInv ==
  ASSUME IInv, RegisterBegin \/ Acquire \/ AcquireTimeout \/ Cluster PROVE IInv'
<1>1. AcquireInv
  BY DEF IInv, TypeOK, AcquireInv
<1>2. UNCHANGED <<pc, runVars>>
  BY DEF RegisterBegin, Acquire, AcquireTimeout, Cluster
<1>3. CASE RegisterBegin
  <2>1. AcquireInv' /\ phase # "held"
    BY <1>1, <1>3 DEF RegisterBegin, Begin, AcquireInv, AcquireTypeOK, AnnotationsInv
  <2> QED
    BY <1>2, <2>1, LeaseStepKeeps
<1>4. CASE Acquire \/ AcquireTimeout
  <2>1. AcquireInv'
    BY <1>1, <1>4, PollInv, PatchInv DEF Acquire, AcquireTimeout
  <2>2. phase # "held"
    BY <1>4 DEF Acquire, AcquireTimeout, Poll, PatchOk, PatchError, PatchTimeout, PollTimeout
  <2> QED
    BY <1>2, <2>1, <2>2, LeaseStepKeeps
<1>5. CASE Cluster
  <2>1. AcquireInv'
    <3>1. CASE Sync
      BY <1>1, <3>1 DEF Sync, AcquireInv, AcquireTypeOK, AnnotationsInv, acquireVars
    <3> QED
      BY <1>1, <1>5, <3>1, WriteInv DEF Cluster
  <2>2. UNCHANGED <<phase, lease>>
    BY <1>5 DEF Cluster, Write, Sync, acquireVars
  <2> QED
    BY <1>2, <2>1, <2>2, LeaseStepKeeps
<1> QED
  BY <1>3, <1>4, <1>5

LEMMA InformerListInv == ASSUME IInv, InformerList PROVE IInv'
<1> USE DEF IInv, InformerList, acquireVars
<1>1. TypeOK' /\ AnnotationsInv'
  BY DEF TypeOK, AcquireTypeOK, AnnotationsInv
<1>2. ServingInv' /\ ReadyMeansServing'
  BY DEF ServingInv, ReadyMeansServing
<1>3. TasksInv' /\ AskedInv'
  BY DEF TasksInv, AskedInv
<1> QED
  BY <1>1, <1>2, <1>3

\* Tasks end, after the token, by themselves or with the signal, or block.
LEMMA TaskStepInv ==
  ASSUME IInv, (\E t \in Tasks : TaskEnds(t)) \/ BackendGivesUp \/ BackendBlocks \/ AskToStop
  PROVE  IInv'
<1>1. /\ UNCHANGED leaseVars /\ (Fault \/ UNCHANGED faults)
      /\ UNCHANGED <<pc, opts, tasks, ei, synced, rules, unset, file, ready, exit, restarts>>
      /\ stuck' \in {stuck, TRUE}
      /\ live' \subseteq live
      /\ (token' = token /\ asked' = asked) \/ (token' = TRUE /\ asked' = TRUE)
      /\ pc = "exited" => asked' = asked
  BY DEF TaskEnds, BackendGivesUp, BackendBlocks, AskToStop
<1>2. AcquireInv'
  BY <1>1, LeaseKept DEF IInv, TypeOK, AcquireInv
<1>3. TypeOK'
  BY <1>1, <1>2 DEF IInv, TypeOK, AcquireInv
<1>4. ServingInv' /\ ReadyMeansServing'
  BY <1>1 DEF IInv, ServingInv, ReadyMeansServing, leaseVars, acquireVars
<1>5. TasksInv'
  BY <1>1 DEF IInv, TasksInv
<1>6. AskedInv'
  <2>1. ~asked' => token \/ \A t \in {"signal", "healthz", "blackhole"} : t \in live => t \in live'
    BY DEF TaskEnds, BackendGivesUp, BackendBlocks, AskToStop
  <2>2. pc \in AfterSignals => pc \notin {"drain", "drainSignal", "exited"}
    BY DEF AfterSignals, AfterHealthz, AfterRegister, AfterMasq, AfterForward, AfterBlackhole, Serving
  <2>3. AfterBlackhole \subseteq AfterSignals /\ AfterHealthz \subseteq AfterSignals
    BY DEF AfterSignals, AfterHealthz, AfterRegister, AfterMasq, AfterForward
  <2> QED
    BY <1>1, <2>1, <2>2, <2>3 DEF IInv, AskedInv
<1> QED
  BY <1>2, <1>3, <1>4, <1>5, <1>6 DEF IInv, AcquireInv

\* A new process knows nothing: only the file and the node are left.
LEMMA RestartInv == ASSUME IInv, Restart PROVE IInv'
<1> USE DEF IInv, Restart
<1>1. FreshNode \in Nodes
  BY DEF FreshNode, Nodes, Values, AllCidrs
<1>2. TypeOK'
  <2>1. restarts' \in 0..MaxRestarts
    BY RestartsAssumption DEF TypeOK
  <2>2. AcquireTypeOK'
    BY <1>1 DEF TypeOK, AcquireTypeOK
  <2> QED
    BY <2>1, <2>2 DEF TypeOK, Steps
<1>3. AnnotationsInv' /\ ReadyMeansServing' /\ TasksInv'
  BY DEF AnnotationsInv, ReadyMeansServing, TasksInv
<1>4. ServingInv' /\ AskedInv'
  BY DEF ServingInv, AskedInv, Serving, AfterBlackhole, AfterForward, AfterMasq, AfterRegister,
     AfterHealthz, AfterSignals, Ending
<1> QED
  BY <1>2, <1>3, <1>4

LEMMA InitInv == Init => IInv
<1> SUFFICES ASSUME Init PROVE IInv
  OBVIOUS
<1> USE DEF Init, AcquireInit
<1>1. FreshNode \in Nodes
  BY DEF FreshNode, Nodes, Values, AllCidrs
<1>2. TypeOK
  <2>1. 0 \in 0..MaxRestarts /\ 0 \in 0..MaxWrites /\ 0 \in 0..MaxFaults
    BY RestartsAssumption, AcquireBounds
  <2>2. AcquireTypeOK
    BY <1>1, <2>1 DEF AcquireTypeOK
  <2> QED
    BY <2>1, <2>2 DEF TypeOK, Steps
<1>3. AnnotationsInv /\ ReadyMeansServing /\ TasksInv
  BY DEF AnnotationsInv, ReadyMeansServing, TasksInv
<1>4. ServingInv /\ AskedInv
  BY DEF ServingInv, AskedInv, Serving, AfterBlackhole, AfterForward, AfterMasq, AfterRegister,
     AfterHealthz, AfterSignals, Ending
<1> QED
  BY <1>2, <1>3, <1>4 DEF IInv

LEMMA NextInv == IInv /\ [Next]_vars => IInv'
<1> SUFFICES ASSUME IInv, [Next]_vars PROVE IInv'
  OBVIOUS
<1>1. CASE Step
  BY <1>1, RunStepInv, LeaseStepInv DEF Step, RunStep
<1>2. CASE UNCHANGED vars
  <2>1. AcquireInv'
    BY <1>2, LeaseKept DEF vars, leaseVars, IInv, TypeOK, AcquireInv
  <2> QED
    BY <1>2, <2>1, LeaseStepKeeps DEF vars, acquireVars
<1> QED
  BY <1>1, <1>2, InformerListInv, LeaseStepInv, TaskStepInv, RestartInv DEF Next

LEMMA Inductive == Spec => []IInv
  BY InitInv, NextInv, PTL DEF Spec

-----------------------------------------------------------------------------
\* The daemon's state is well-typed through faults and restarts, for any
\* options and configurations (daemon.rs run, acquire.rs acquire_lease).
THEOREM TypeCorrect == Spec => []TypeOK
<1>1. IInv => TypeOK
  BY DEF IInv
<1> QED
  BY <1>1, Inductive, PTL

\* While a lease is held the API server shows this daemon's backend and its
\* address, or the operator's: although the patch is a difference from an
\* old copy, for any number of lost answers, retries, writes of others and
\* restarts with another configuration (maybe_patch_annotations).
THEOREM AnnotationsAreOwn == Spec => []AnnotationsFollow
<1>1. IInv => AnnotationsFollow
  <2> SUFFICES ASSUME IInv, phase = "held" PROVE AnnotationsFollow
    BY DEF AnnotationsFollow, AnnouncedIsOwn, OverwriteWins
  <2>1. /\ node.ann \in [Keys -> Values] /\ attrs \in AttrsSet
        /\ \A k \in Own : api.ann[k] = Wanted(node.ann, attrs)[k]
    BY DEF IInv, TypeOK, AcquireTypeOK, Nodes, AnnotationsInv
  <2>2. {"type", "managed", "data", "ip", "data6", "ip6"} \subseteq Own
    BY DEF Own, Keys
  <2>3. AnnouncedIsOwn
    BY <2>1, <2>2, WantedLemma DEF AnnouncedIsOwn
  <2>4. OverwriteWins
    BY <2>1, <2>2, WantedLemma DEF OverwriteWins, PublicIp
  <2> QED
    BY <2>3, <2>4 DEF AnnotationsFollow
<1> QED
  BY <1>1, Inductive, PTL

\* /readyz answers 200 only with the subnet file of the held lease on disk,
\* and with every traffic rule asked for either set up or reported as failed
\* in the log, never so nftables' masquerading, whatever else failed and
\* whatever earlier incarnations left behind (handle_subnet_file, run_inner).
THEOREM ReadyIsServing == Spec => []ReadyMeansServing
<1>1. IInv => ReadyMeansServing
  BY DEF IInv
<1> QED
  BY <1>1, Inductive, PTL

\* At whatever step the start failed or the token fired: when run returns
\* none of the tasks it records or awaits is left, and it returns 0 only if
\* it was asked to stop or had nothing to wait for (run, drain).
THEOREM ExitIsClean == Spec => []ExitsClean
<1>1. IInv => ExitsClean
  <2> SUFFICES ASSUME IInv PROVE ExitsClean
    OBVIOUS
  <2>1. DrainedOnExit
    BY DEF IInv, TasksInv, DrainedOnExit
  <2>2. CleanExitWasAsked
    BY DEF IInv, AskedInv, CleanExitWasAsked, Ending
  <2> QED
    BY <2>1, <2>2 DEF ExitsClean
<1> QED
  BY <1>1, Inductive, PTL

-----------------------------------------------------------------------------
(* The external interface: every way of asking for it determines an         *)
(* interface of the host and addresses that are on it (Proper), filling in  *)
(* the open ones leaves none out (Complete), and what peers are told is one *)
(* of them or public (Result).                                              *)

\* A set of numbers has a least element, and a bounded one a greatest.
LEMMA Least ==
  ASSUME NEW T \in SUBSET Nat, T # {}
  PROVE  \E x \in T : \A y \in T : x <= y
<1> DEFINE R == {ss \in Nat \X Nat : ss[1] < ss[2]}
<1>1. IsWellFoundedOn(R, Nat)
  BY NatLessThanWellFounded DEF OpToRel
<1>2. \A x, y \in Nat : y < x => <<y, x>> \in R
  OBVIOUS
<1> HIDE DEF R
<1>3. PICK x \in T : \A y \in T : ~(<<y, x>> \in R)
  BY <1>1, WFMin, Zenon
<1>4. ASSUME NEW y \in T PROVE x <= y
  <2>1. x \in Nat /\ y \in Nat /\ ~(<<y, x>> \in R)
    BY <1>3
  <2>2. ~(y < x)
    BY <2>1, <1>2
  <2> QED
    BY <2>1, <2>2
<1> QED
  BY <1>4

LEMMA Greatest ==
  ASSUME NEW n \in Nat, NEW S, S \subseteq 0..n, S # {}
  PROVE  \E m \in S : \A x \in S : m >= x
<1> DEFINE T == {n - x : x \in S}
<1>0. \A x \in S : x \in Nat /\ n - x \in Nat
  OBVIOUS
<1>1. T \in SUBSET Nat /\ T # {}
  BY <1>0
<1>2. PICK t \in T : \A x \in T : t <= x
  BY <1>1, Least, Zenon
<1>3. PICK m \in S : t = n - m
  OBVIOUS
<1>4. \A x \in S : n - m <= n - x
  BY <1>2, <1>3
<1> QED
  BY <1>0, <1>4

LEMMA MinIn ==
  ASSUME NEW S \in SUBSET Nat, S # {}
  PROVE  Ifaces!Min(S) \in S
BY Least DEF Ifaces!Min

LEMMA MaxIn ==
  ASSUME NEW n \in Nat, NEW S, S \subseteq 0..n, S # {}
  PROVE  Ifaces!Max(S) \in S
BY Greatest DEF Ifaces!Max

-----------------------------------------------------------------------------
\* The interfaces of a host and their addresses.
OnIface(h, i, a) == \E k \in DOMAIN h.ifaces[i].addrs : h.ifaces[i].addrs[k] = a

LEMMA HostLemma ==
  ASSUME NEW h \in Hosts
  PROVE  /\ Len(h.ifaces) \in Nat
         /\ Ifaces!Indices(h) = 1..Len(h.ifaces)
         /\ \A i \in 1..Len(h.ifaces) :
              /\ h.ifaces[i].mtu \in Nat
              /\ DOMAIN h.ifaces[i].addrs \subseteq Nat
              /\ \A k \in DOMAIN h.ifaces[i].addrs : h.ifaces[i].addrs[k] \in Addresses
<1>1. h.ifaces \in Seq([name : STRING, mtu : Nat, addrs : Seq(Addresses)])
  BY HostsAssumption DEF IsHost
<1>2. Len(h.ifaces) \in Nat /\ Ifaces!Indices(h) = 1..Len(h.ifaces)
  BY <1>1 DEF Ifaces!Indices
<1>3. ASSUME NEW i \in 1..Len(h.ifaces)
      PROVE  h.ifaces[i].mtu \in Nat /\ h.ifaces[i].addrs \in Seq(Addresses)
  <2> DEFINE Face == [name : STRING, mtu : Nat, addrs : Seq(Addresses)]
  <2>1. h.ifaces[i] \in Face
    <3> HIDE DEF Face
    <3>1. h.ifaces \in Seq(Face)
      BY <1>1 DEF Face
    <3> QED
      BY <3>1
  <2> QED
    BY <2>1
<1>4. \A s \in Seq(Addresses) : DOMAIN s \subseteq Nat /\ \A k \in DOMAIN s : s[k] \in Addresses
  OBVIOUS
<1> QED
  BY <1>2, <1>3, <1>4

\* The order of preference, as a number.
Rank(a) ==
  (IF a.scope = "global" THEN 0 ELSE 4) + (IF a.permanent THEN 0 ELSE 2)
    + (IF a.temporary THEN 1 ELSE 0)

LEMMA RankLemma ==
  ASSUME NEW a \in Addresses, NEW b \in Addresses, Ifaces!Usable(a), Ifaces!Usable(b),
         Ifaces!Before(a, b)
  PROVE  Rank(a) < Rank(b)
<1>1. a.scope \in {"global", "link"} /\ b.scope \in {"global", "link"}
  BY DEF Ifaces!Usable
<1>2. /\ a.permanent \in BOOLEAN /\ a.temporary \in BOOLEAN
      /\ b.permanent \in BOOLEAN /\ b.temporary \in BOOLEAN
  BY DEF Addresses
<1>3. "global" # "link"
  OBVIOUS
<1>4. CASE a.scope = "global" /\ b.scope = "link"
  BY <1>3, <1>4 DEF Rank
<1>5. CASE a.scope = b.scope /\ a.permanent /\ ~b.permanent
  BY <1>5 DEF Rank
<1>6. CASE a.scope = b.scope /\ a.permanent = b.permanent /\ ~a.temporary /\ b.temporary
  BY <1>6 DEF Rank
<1> QED
  BY <1>1, <1>3, <1>4, <1>5, <1>6 DEF Ifaces!Before

\* There is a preferred one among some usable addresses, and it is of them.
LEMMA FirstLemma ==
  ASSUME NEW h \in Hosts, NEW i \in 1..Len(h.ifaces), NEW f \in {4, 6},
         NEW ks, ks \subseteq Ifaces!IfaceAddrs(h, i, f)
  PROVE  LET a == Ifaces!First(h, i, ks)
         IN  /\ ks = {} => a = None
             /\ ks # {} => /\ a \in Addresses /\ a.f = f /\ OnIface(h, i, a)
                           /\ \E k \in ks : a = h.ifaces[i].addrs[k]
<1> DEFINE as == h.ifaces[i].addrs
           best == {k \in ks : \A j \in ks : ~Ifaces!Before(as[j], as[k])}
<1>1. CASE ks = {}
  BY <1>1 DEF Ifaces!First
<1>2. CASE ks # {}
  <2>1. ks \subseteq DOMAIN as /\ ks \subseteq Nat
    BY HostLemma DEF Ifaces!IfaceAddrs
  <2>2. \A k \in ks : as[k] \in Addresses /\ as[k].f = f /\ Ifaces!Usable(as[k])
    BY HostLemma DEF Ifaces!IfaceAddrs
  <2> DEFINE ranks == {Rank(as[k]) : k \in ks}
  <2>3. \A k \in ks : Rank(as[k]) \in Nat
    BY <2>2 DEF Rank
  <2>4. ranks \subseteq Nat /\ ranks # {}
    BY <1>2, <2>3
  <2>5. PICK m \in ranks : \A r \in ranks : m <= r
    BY <2>4, Least, Zenon
  <2>6. PICK k \in ks : m = Rank(as[k])
    OBVIOUS
  <2>7. ASSUME NEW j \in ks PROVE ~Ifaces!Before(as[j], as[k])
    <3>1. Rank(as[k]) <= Rank(as[j])
      BY <2>5, <2>6
    <3>2. ~(Rank(as[j]) < Rank(as[k]))
      BY <3>1, <2>3
    <3> QED
      BY <2>2, <3>2, RankLemma
  <2>8. best # {} /\ best \subseteq Nat
    BY <2>1, <2>7
  <2>9. Ifaces!Min(best) \in best
    BY <2>8, MinIn, Zenon
  <2>10. Ifaces!First(h, i, ks) = as[Ifaces!Min(best)]
    BY <1>2 DEF Ifaces!First
  <2>11. Ifaces!Min(best) \in ks
    BY <2>9
  <2> QED
    BY <1>2, <2>1, <2>2, <2>10, <2>11 DEF OnIface
<1> QED
  BY <1>1, <1>2

\* What a search has determined: an interface of the host, and for every
\* enabled family nothing yet or an address of that family on it.
Families == (SUBSET {4, 6}) \ {{}}
Chosen == [{4, 6} -> Addresses \cup {None}]
Publics == [{4, 6} -> Addresses \cup {None, Bad}]
Of(h, i, f, a) == a.f = f /\ OnIface(h, i, a)
Proper(h, r, fams) ==
  /\ r \in [iface : Nat, a : Chosen]
  /\ r.iface \in 1..Len(h.ifaces)
  /\ \A f \in fams : r.a[f] # None => Of(h, r.iface, f, r.a[f])

LEMMA NoneLemma ==
  /\ None \notin Addresses /\ Bad \notin Addresses
  /\ None \notin [iface : Nat, a : Chosen]
  /\ None \notin [iface : Nat, a : Chosen, ext : Chosen]
BY NothingAssumption DEF Chosen

LEMMA MinFamily ==
  ASSUME NEW fams \in Families
  PROVE  /\ Ifaces!Min(fams) = IF 4 \in fams THEN 4 ELSE 6
         /\ Ifaces!Min(fams) \in fams
<1>1. fams \in SUBSET Nat /\ fams # {} /\ fams \subseteq {4, 6}
  BY DEF Families
<1>2. PICK m \in fams : m = IF 4 \in fams THEN 4 ELSE 6
  BY <1>1
<1>3. \A y \in fams : m <= y
  BY <1>1, <1>2
<1>4. ASSUME NEW x \in fams, \A y \in fams : x <= y PROVE x = m
  BY <1>1, <1>2, <1>3, <1>4
<1>5. Ifaces!Min(fams) = m
  BY <1>3, <1>4 DEF Ifaces!Min
<1> QED
  BY <1>2, <1>5

LEMMA FirstOfLemma ==
  ASSUME NEW n \in Nat, NEW is, is \subseteq 1..n
  PROVE  Ifaces!FirstOf(is) = 0 \/ Ifaces!FirstOf(is) \in is
<1>1. is \in SUBSET Nat
  OBVIOUS
<1> QED
  BY <1>1, MinIn DEF Ifaces!FirstOf

LEMMA FoundLemma ==
  ASSUME NEW h \in Hosts, NEW fams \in Families, NEW i, NEW a4, NEW a6,
         i # 0 => /\ i \in 1..Len(h.ifaces)
                  /\ a4 \in Addresses \cup {None} /\ a6 \in Addresses \cup {None}
                  /\ 4 \in fams /\ a4 # None => Of(h, i, 4, a4)
                  /\ 6 \in fams /\ a6 # None => Of(h, i, 6, a6)
  PROVE  Ifaces!Found(i, a4, a6) = None \/ Proper(h, Ifaces!Found(i, a4, a6), fams)
<1> DEFINE a == [f \in {4, 6} |-> IF f = 4 THEN a4 ELSE a6]
<1>1. CASE i = 0
  BY <1>1 DEF Ifaces!Found
<1>2. CASE i # 0
  <2>1. Ifaces!Found(i, a4, a6) = [iface |-> i, a |-> a]
    BY <1>2 DEF Ifaces!Found
  <2>2. a \in Chosen /\ a[4] = a4 /\ a[6] = a6 /\ i \in Nat
    BY <1>2, HostLemma DEF Chosen
  <2> HIDE DEF a
  <2>3. \A f \in fams : a[f] # None => Of(h, i, f, a[f])
    BY <1>2, <2>2 DEF Families
  <2> QED
    BY <1>2, <2>1, <2>2, <2>3 DEF Proper
<1> QED
  BY <1>1, <1>2

LEMMA ByIpLemma ==
  ASSUME NEW h \in Hosts, NEW ip
  PROVE  LET i == Ifaces!IfaceByIp(h, ip)
         IN  i # 0 => i \in 1..Len(h.ifaces) /\ OnIface(h, i, ip)
<1> DEFINE is == {i \in Ifaces!Indices(h) : OnIface(h, i, ip)}
<1>1. Len(h.ifaces) \in Nat /\ is \subseteq 1..Len(h.ifaces)
  BY HostLemma
<1>2. Ifaces!IfaceByIp(h, ip) = Ifaces!FirstOf(is)
  BY DEF Ifaces!IfaceByIp, OnIface
<1>3. Ifaces!FirstOf(is) = 0 \/ Ifaces!FirstOf(is) \in is
  BY <1>1, FirstOfLemma, Zenon
<1> QED
  BY <1>1, <1>2, <1>3

LEMMA ByAddressLemma ==
  ASSUME NEW h \in Hosts, NEW fams \in Families, NEW pub \in Publics, NEW ip \in Addresses
  PROVE  LET r == Ifaces!ByAddress(h, ip, fams, pub) IN r = None \/ Proper(h, r, fams)
<1> DEFINE i == Ifaces!IfaceByIp(h, ip)
           j == Ifaces!IfaceByPublic6(h, pub)
           min == Ifaces!Min(fams)
<1>1. i # 0 => i \in 1..Len(h.ifaces) /\ OnIface(h, i, ip)
  BY ByIpLemma
<1>2. j # 0 => /\ j \in 1..Len(h.ifaces) /\ Of(h, j, 6, pub[6])
               /\ pub[6] \in Addresses
  <2>1. pub[6] \in Addresses \cup {None, Bad}
    BY DEF Publics
  <2>2. pub[6] \in Addresses => pub[6].f \in {4, 6}
    BY DEF Addresses
  <2> QED
    BY <2>1, <2>2, ByIpLemma DEF Ifaces!IfaceByPublic6, Of
<1>3. fams = {4, 6} \/ fams = {4} \/ fams = {6}
  BY DEF Families
<1>4. /\ fams = {4} => min = 4
      /\ fams = {6} => min = 6
      /\ fams = {4, 6} => min = 4
  BY MinFamily
<1>5. ip.f \in {4, 6}
  BY DEF Addresses
<1>6. Ifaces!ByAddress(h, ip, fams, pub) =
        IF fams # {4, 6} \/ pub[6] \in {None, Bad}
        THEN IF ip.f = min THEN Ifaces!Found(i, ip, IF fams = {6} THEN ip ELSE None) ELSE None
        ELSE IF ip.f = 6 THEN Ifaces!Found(j, None, pub[6])
        ELSE IF i = j THEN Ifaces!Found(i, ip, pub[6]) ELSE None
  BY DEF Ifaces!ByAddress
<1> HIDE DEF i, j, min
<1>7. CASE fams # {4, 6} \/ pub[6] \in {None, Bad}
  <2>1. CASE ip.f = min
    <3> DEFINE v6 == IF fams = {6} THEN ip ELSE None
    <3>1. i # 0 => /\ i \in 1..Len(h.ifaces)
                   /\ ip \in Addresses \cup {None} /\ v6 \in Addresses \cup {None}
                   /\ 4 \in fams /\ ip # None => Of(h, i, 4, ip)
                   /\ 6 \in fams /\ v6 # None => Of(h, i, 6, v6)
      BY <1>1, <1>3, <1>4, <1>5, <2>1 DEF Of
    <3>2. Ifaces!ByAddress(h, ip, fams, pub) = Ifaces!Found(i, ip, v6)
      BY <1>6, <1>7, <2>1
    <3> HIDE DEF v6
    <3> QED
      BY <3>1, <3>2, FoundLemma
  <2> QED
    BY <1>6, <1>7, <2>1
<1>8. CASE ~(fams # {4, 6} \/ pub[6] \in {None, Bad})
  <2>1. CASE ip.f = 6
    <3>1. j # 0 => /\ j \in 1..Len(h.ifaces)
                   /\ None \in Addresses \cup {None} /\ pub[6] \in Addresses \cup {None}
                   /\ 4 \in fams /\ None # None => Of(h, j, 4, None)
                   /\ 6 \in fams /\ pub[6] # None => Of(h, j, 6, pub[6])
      BY <1>2
    <3> QED
      BY <1>6, <1>8, <2>1, <3>1, FoundLemma
  <2>2. CASE ip.f # 6 /\ i = j
    <3>1. i # 0 => /\ i \in 1..Len(h.ifaces)
                   /\ ip \in Addresses \cup {None} /\ pub[6] \in Addresses \cup {None}
                   /\ 4 \in fams /\ ip # None => Of(h, i, 4, ip)
                   /\ 6 \in fams /\ pub[6] # None => Of(h, i, 6, pub[6])
      BY <1>1, <1>2, <1>5, <2>2 DEF Of
    <3> QED
      BY <1>6, <1>8, <2>2, <3>1, FoundLemma
  <2> QED
    BY <1>6, <1>8, <2>1, <2>2
<1> QED
  BY <1>7, <1>8

LEMMA ByNameLemma ==
  ASSUME NEW h \in Hosts, NEW fams \in Families, NEW name
  PROVE  LET r == Ifaces!ByName(h, name) IN r = None \/ Proper(h, r, fams)
<1> DEFINE is == {i \in Ifaces!Indices(h) : h.ifaces[i].name = name}
           i == Ifaces!FirstOf(is)
<1>1. Len(h.ifaces) \in Nat /\ is \subseteq 1..Len(h.ifaces)
  BY HostLemma
<1>2. i = 0 \/ i \in is
  BY <1>1, FirstOfLemma, Zenon
<1>3. Ifaces!ByName(h, name) = Ifaces!Found(i, None, None)
  BY DEF Ifaces!ByName, Ifaces!IfaceByName
<1>4. i # 0 => i \in 1..Len(h.ifaces)
  BY <1>1, <1>2
<1> HIDE DEF i
<1> QED
  BY <1>3, <1>4, FoundLemma

LEMMA MatchLemma ==
  ASSUME NEW h \in Hosts, NEW i \in 1..Len(h.ifaces), NEW f \in {4, 6}, NEW re
  PROVE  LET a == Ifaces!MatchIp(h, re, i, f)
         IN  a # None => a \in Addresses /\ Of(h, i, f, a) /\ a \in re.addrs
<1> DEFINE ks == {k \in Ifaces!IfaceAddrs(h, i, f) : h.ifaces[i].addrs[k] \in re.addrs}
           a == Ifaces!First(h, i, ks)
<1>1. Ifaces!MatchIp(h, re, i, f) = a
  BY DEF Ifaces!MatchIp
<1>2. ks \subseteq Ifaces!IfaceAddrs(h, i, f)
  OBVIOUS
<1>3. \A k \in ks : h.ifaces[i].addrs[k] \in re.addrs
  OBVIOUS
<1> HIDE DEF ks
<1>4. /\ ks = {} => a = None
      /\ ks # {} => /\ a \in Addresses /\ a.f = f /\ OnIface(h, i, a)
                    /\ \E k \in ks : a = h.ifaces[i].addrs[k]
  BY <1>2, FirstLemma
<1> QED
  BY <1>1, <1>3, <1>4 DEF Of

LEMMA ByRegexLemma ==
  ASSUME NEW h \in Hosts, NEW fams \in Families, NEW q, ~Ambiguous(h, q),
         q.by = "regex", q.what # Bad
  PROVE  LET r == Ifaces!ByRegex(h, q.what, fams) IN r = None \/ Proper(h, r, fams)
<1> DEFINE re == q.what
           match(i, f) == Ifaces!MatchIp(h, re, i, f)
           both == {i \in Ifaces!Indices(h) : \A f \in fams : match(i, f) # None}
           left == {i \in Ifaces!Indices(h) : match(i, 4) # None /\ Ifaces!IfaceAddrs(h, i, 6) # {}}
           named == {i \in Ifaces!Indices(h) : h.ifaces[i].name \in re.names}
           at(f, i) == IF f \in fams THEN match(i, f) ELSE None
           a4 == IF fams = {4, 6} /\ left # {} THEN match(Ifaces!Max(left), 4) ELSE None
<1>1. Ifaces!ByRegex(h, re, fams) =
        IF both # {}
        THEN Ifaces!Found(Ifaces!Min(both), at(4, Ifaces!Min(both)), at(6, Ifaces!Min(both)))
        ELSE Ifaces!Found(Ifaces!FirstOf(named), a4, None)
  BY DEF Ifaces!ByRegex
<1>2. /\ Len(h.ifaces) \in Nat
      /\ both \subseteq 1..Len(h.ifaces) /\ left \subseteq 1..Len(h.ifaces)
      /\ named \subseteq 1..Len(h.ifaces)
  BY HostLemma
<1>3. fams \subseteq {4, 6}
  BY DEF Families
<1>4. \A i \in 1..Len(h.ifaces), f \in {4, 6} :
        match(i, f) # None => match(i, f) \in Addresses /\ Of(h, i, f, match(i, f)) /\ match(i, f) \in re.addrs
  BY MatchLemma
<1>5. CASE both # {}
  <2> DEFINE i == Ifaces!Min(both)
  <2>1. i \in both
    <3>1. both \in SUBSET Nat
      BY <1>2
    <3> QED
      BY <1>5, <3>1, MinIn, Zenon
  <2>2. i \in 1..Len(h.ifaces)
    BY <1>2, <2>1
  <2> HIDE DEF i
  <2>3. \A f \in {4, 6} : /\ at(f, i) \in Addresses \cup {None}
                          /\ f \in fams /\ at(f, i) # None => Of(h, i, f, at(f, i))
    <3> HIDE DEF match
    <3> QED
      BY <1>4, <2>2
  <2>4. Ifaces!ByRegex(h, re, fams) = Ifaces!Found(i, at(4, i), at(6, i))
    BY <1>1, <1>5 DEF i
  <2> HIDE DEF at
  <2> QED
    BY <2>2, <2>3, <2>4, FoundLemma
<1>6. CASE both = {}
  <2> DEFINE i == Ifaces!FirstOf(named)
  <2>1. i = 0 \/ i \in named
    BY <1>2, FirstOfLemma, Zenon
  <2>2. i # 0 => i \in 1..Len(h.ifaces) /\ h.ifaces[i].name \in re.names
    BY <1>2, <2>1
  <2>3. ASSUME i # 0, a4 # None PROVE a4 \in Addresses /\ Of(h, i, 4, a4)
    <3> DEFINE l == Ifaces!Max(left)
    <3>1. left # {} /\ a4 = match(l, 4)
      BY <2>3
    <3>2. l \in left
      <4>1. left \subseteq 0..Len(h.ifaces)
        BY <1>2
      <4> QED
        BY <1>2, <3>1, <4>1, MaxIn, Zenon
    <3>3. l \in 1..Len(h.ifaces)
      BY <1>2, <3>2
    <3> HIDE DEF l, i, match
    <3>4. a4 \in Addresses /\ Of(h, l, 4, a4) /\ a4 \in re.addrs
      <4> HIDE DEF a4
      <4> QED
        BY <1>4, <2>3, <3>1, <3>3
    <3>5. l = i
      <4> HIDE DEF a4
      <4>1. PICK k \in DOMAIN h.ifaces[l].addrs : h.ifaces[l].addrs[k] \in re.addrs
        BY <3>4 DEF Of, OnIface
      <4> QED
        BY <2>2, <2>3, <3>3, <4>1, HostLemma DEF Ambiguous
    <3> HIDE DEF a4
    <3> QED
      BY <3>4, <3>5
  <2>4. Ifaces!ByRegex(h, re, fams) = Ifaces!Found(i, a4, None)
    BY <1>1, <1>6
  <2> HIDE DEF i, a4
  <2> QED
    BY <2>2, <2>3, <2>4, FoundLemma
<1> QED
  BY <1>5, <1>6

LEMMA ByReachLemma ==
  ASSUME NEW h \in Hosts, NEW fams \in Families, NEW q, ~ReachesV6(q, fams),
         q.by = "reach", q.what # Bad, q.what \in DOMAIN h.route \cap Addresses
  PROVE  LET r == Ifaces!ByReach(h, q.what) IN r = None \/ Proper(h, r, fams)
<1> DEFINE way == h.route[q.what]
<1>1. /\ way.oif \in 0..Len(h.ifaces)
      /\ way.oif # 0 /\ way.src # None =>
           way.src.f = q.what.f /\ OnIface(h, way.oif, way.src)
  BY HostsAssumption DEF IsHost, OnIface
<1>2. way.oif # 0 => way.oif \in 1..Len(h.ifaces)
  BY <1>1, HostLemma
<1>3. way.oif # 0 /\ way.src # None => way.src \in Addresses
  BY <1>1, <1>2, HostLemma DEF OnIface
<1>4. 4 \in fams => q.what.f = 4
  BY DEF ReachesV6, Addresses
<1>5. Ifaces!ByReach(h, q.what) = Ifaces!Found(way.oif, way.src, None)
  BY DEF Ifaces!ByReach, Ifaces!RouteTo
<1> HIDE DEF way
<1> QED
  BY <1>1, <1>2, <1>3, <1>4, <1>5, FoundLemma DEF Of

LEMMA ByDefaultLemma ==
  ASSUME NEW h \in Hosts, NEW fams \in Families
  PROVE  LET r == Ifaces!ByDefault(h, fams) IN r = None \/ Proper(h, r, fams)
<1> DEFINE i == h.default[Ifaces!Min(fams)]
<1>1. i # 0 => i \in 1..Len(h.ifaces)
  <2>1. Ifaces!Min(fams) \in {4, 6}
    BY MinFamily
  <2> QED
    BY <2>1, HostsAssumption, HostLemma DEF IsHost
<1>2. Ifaces!ByDefault(h, fams) \in {None, Ifaces!Found(i, None, None)}
  BY DEF Ifaces!ByDefault, Ifaces!DefaultIface
<1> HIDE DEF i
<1> QED
  BY <1>1, <1>2, FoundLemma

LEMMA UsableLemma ==
  ASSUME NEW h \in Hosts, NEW i \in 1..Len(h.ifaces), NEW f \in {4, 6}
  PROVE  LET a == Ifaces!First(h, i, Ifaces!IfaceAddrs(h, i, f))
         IN  /\ a # None => a \in Addresses /\ Of(h, i, f, a)
             /\ Ifaces!IfaceAddrs(h, i, f) # {} => a # None
BY FirstLemma, NoneLemma DEF Of

\* The interface has an address of every enabled family.
Complete(h, r, fams) == Proper(h, r, fams) /\ \A f \in fams : r.a[f] # None

LEMMA FillLemma ==
  ASSUME NEW h \in Hosts, NEW fams \in Families, NEW r, Proper(h, r, fams)
  PROVE  LET full == Ifaces!Fill(h, r, fams)
         IN  /\ full = None \/ Complete(h, full, fams)
             /\ full = None =>
                  \/ h.ifaces[r.iface].mtu = 0
                  \/ \E f \in fams : Ifaces!IfaceAddrs(h, r.iface, f) = {}
<1> DEFINE i == r.iface
           first(f) == Ifaces!First(h, i, Ifaces!IfaceAddrs(h, i, f))
           a == [f \in {4, 6} |-> IF f \in fams /\ r.a[f] = None THEN first(f) ELSE r.a[f]]
<1>1. /\ i \in 1..Len(h.ifaces) /\ i \in Nat /\ r.a \in Chosen
      /\ \A f \in fams : r.a[f] # None => Of(h, i, f, r.a[f])
      /\ r \in [iface : Nat, a : Chosen]
  BY DEF Proper
<1>2. \A f \in {4, 6} : /\ first(f) # None => first(f) \in Addresses /\ Of(h, i, f, first(f))
                        /\ Ifaces!IfaceAddrs(h, i, f) # {} => first(f) # None
  BY <1>1, UsableLemma
<1>3. fams \subseteq {4, 6}
  BY DEF Families
<1>4. Ifaces!Fill(h, r, fams) =
        IF (\E f \in fams : a[f] = None) \/ h.ifaces[i].mtu = 0
        THEN None ELSE [r EXCEPT !.a = a]
  BY DEF Ifaces!Fill
<1> HIDE DEF first
<1>5. a \in Chosen /\ \A f \in fams : a[f] # None => Of(h, i, f, a[f])
  BY <1>1, <1>2, <1>3 DEF Chosen
<1>6. \A f \in fams : a[f] = None => Ifaces!IfaceAddrs(h, i, f) = {}
  BY <1>1, <1>2, <1>3
<1> HIDE DEF a
<1>7. LET full == [r EXCEPT !.a = a]
      IN  full \in [iface : Nat, a : Chosen] /\ full.iface = i /\ full.a = a
  BY <1>1, <1>5
<1>8. [r EXCEPT !.a = a] # None
  BY <1>7, NoneLemma
<1>9. (\A f \in fams : a[f] # None) => Complete(h, [r EXCEPT !.a = a], fams)
  BY <1>1, <1>5, <1>7 DEF Complete, Proper
<1> QED
  BY <1>4, <1>6, <1>8, <1>9

\* The result of the search: what InterfaceFits says of it.
Result(h, e, fams, pub) ==
  \A f \in fams : /\ OnIface(h, e.iface, e.a[f]) /\ e.a[f].f = f
                  /\ e.ext[f] \in {e.a[f], pub[f]} \ {None}

LEMMA ExternalLemma ==
  ASSUME NEW h \in Hosts, NEW fams \in Families, NEW pub \in Publics, NEW r,
         Complete(h, r, fams)
  PROVE  LET e == Ifaces!External(r, fams, pub)
         IN  /\ e = None \/ Result(h, e, fams, pub)
             /\ e = None => Bad \in {pub[4], pub[6]}
<1> DEFINE ext == [f \in {4, 6} |-> IF pub[f] # None THEN pub[f]
                                    ELSE IF f \in fams THEN r.a[f] ELSE None]
           e == [iface |-> r.iface, a |-> r.a, ext |-> ext]
<1>1. Ifaces!External(r, fams, pub) = IF Bad \in {pub[4], pub[6]} THEN None ELSE e
  BY DEF Ifaces!External
<1>2. CASE Bad \in {pub[4], pub[6]}
  BY <1>1, <1>2
<1>3. CASE Bad \notin {pub[4], pub[6]}
  <2>1. /\ r.iface \in Nat /\ r.a \in Chosen /\ fams \subseteq {4, 6}
        /\ \A f \in fams : r.a[f] # None /\ Of(h, r.iface, f, r.a[f])
    BY DEF Complete, Proper, Families
  <2>2. \A f \in {4, 6} : pub[f] \in Addresses \cup {None}
    BY <1>3 DEF Publics
  <2>3. ext \in Chosen
    BY <2>1, <2>2 DEF Chosen
  <2>4. \A f \in fams : ext[f] \in {r.a[f], pub[f]} \ {None}
    BY <2>1
  <2> HIDE DEF ext
  <2>5. e \in [iface : Nat, a : Chosen, ext : Chosen]
    BY <2>1, <2>3
  <2>6. e.iface = r.iface /\ e.a = r.a /\ e.ext = ext
    OBVIOUS
  <2> HIDE DEF e
  <2>7. e # None
    BY <2>5, NoneLemma
  <2>8. Result(h, e, fams, pub)
    BY <2>1, <2>4, <2>6 DEF Result, Of
  <2> QED
    BY <1>1, <1>3, <2>7, <2>8
<1> QED
  BY <1>2, <1>3

LEMMA LookupLemma ==
  ASSUME NEW h \in Hosts, NEW fams \in Families, NEW pub \in Publics, NEW q,
         q.by \in {"address", "name", "regex", "reach", "default"},
         q.by = "address" => q.what \in Addresses,
         q.by = "reach" => q.what = Bad \/ q.what \in DOMAIN h.route \cap Addresses,
         ~Ambiguous(h, q), ~ReachesV6(q, fams)
  PROVE  LET e == Ifaces!LookupExtIface(h, q, fams, pub) IN e = None \/ Result(h, e, fams, pub)
<1> DEFINE r == CASE q.by = "address" -> Ifaces!ByAddress(h, q.what, fams, pub)
                  [] q.by = "name" -> Ifaces!ByName(h, q.what)
                  [] q.by = "regex" -> IF q.what = Bad THEN None ELSE Ifaces!ByRegex(h, q.what, fams)
                  [] q.by = "reach" -> IF q.what = Bad THEN None ELSE Ifaces!ByReach(h, q.what)
                  [] q.by = "default" -> Ifaces!ByDefault(h, fams)
           full == IF r = None THEN None ELSE Ifaces!Fill(h, r, fams)
<1>1. Ifaces!LookupExtIface(h, q, fams, pub) =
        IF full = None THEN None ELSE Ifaces!External(full, fams, pub)
  BY DEF Ifaces!LookupExtIface
<1>2. r = None \/ Proper(h, r, fams)
  <2>1. CASE q.by = "address"
    <3>1. r = Ifaces!ByAddress(h, q.what, fams, pub)
      BY <2>1
    <3> QED
      BY <2>1, <3>1, ByAddressLemma, Zenon
  <2>2. CASE q.by = "name"
    <3>1. r = Ifaces!ByName(h, q.what)
      BY <2>2
    <3> QED
      BY <3>1, ByNameLemma, Zenon
  <2>3. CASE q.by = "regex"
    <3>1. r = IF q.what = Bad THEN None ELSE Ifaces!ByRegex(h, q.what, fams)
      BY <2>3
    <3> QED
      BY <2>3, <3>1, ByRegexLemma, Zenon
  <2>4. CASE q.by = "reach"
    <3>1. r = IF q.what = Bad THEN None ELSE Ifaces!ByReach(h, q.what)
      BY <2>4
    <3> QED
      BY <2>4, <3>1, ByReachLemma, Zenon
  <2>5. CASE q.by = "default"
    <3>1. r = Ifaces!ByDefault(h, fams)
      BY <2>5
    <3> QED
      BY <3>1, ByDefaultLemma, Zenon
  <2> QED
    BY <2>1, <2>2, <2>3, <2>4, <2>5
<1> HIDE DEF r
<1>3. full = None \/ Complete(h, full, fams)
  BY <1>2, FillLemma
<1> HIDE DEF full
<1> QED
  BY <1>1, <1>3, ExternalLemma

\* Without options a host is not refused if the default routes lead through
\* one interface and it has an MTU and usable addresses.
LEMMA DefaultLemma ==
  ASSUME NEW h \in Hosts, NEW fams \in Families, NEW pub \in Publics,
         pub[4] = None, pub[6] = None,
         NEW q, q.by = "default",
         NEW i \in 1..Len(h.ifaces), h.ifaces[i].mtu # 0,
         \A f \in fams : h.default[f] = i /\ Ifaces!IfaceAddrs(h, i, f) # {}
  PROVE  Ifaces!LookupExtIface(h, q, fams, pub) # None
<1>1. Ifaces!ByDefault(h, fams) = Ifaces!Found(i, None, None)
  BY MinFamily DEF Ifaces!ByDefault, Ifaces!DefaultIface
<1> DEFINE r == Ifaces!Found(i, None, None)
           full == Ifaces!Fill(h, r, fams)
<1>2. i # 0
  BY HostLemma
<1>3. r = [iface |-> i, a |-> [f \in {4, 6} |-> IF f = 4 THEN None ELSE None]]
  BY <1>2 DEF Ifaces!Found
<1>4. r \in [iface : Nat, a : Chosen] /\ r.iface = i
  BY <1>3, HostLemma DEF Chosen
<1>5. r # None
  BY <1>4, NoneLemma
<1>6. Proper(h, r, fams)
  BY <1>5, FoundLemma
<1> HIDE DEF r
<1>7. full # None /\ Complete(h, full, fams)
  BY <1>4, <1>6, FillLemma
<1> HIDE DEF full
<1>8. Ifaces!External(full, fams, pub) # None
  BY <1>7, ExternalLemma, NothingAssumption
<1>9. Ifaces!LookupExtIface(h, q, fams, pub) =
        LET r0 == Ifaces!ByDefault(h, fams)
            full0 == IF r0 = None THEN None ELSE Ifaces!Fill(h, r0, fams)
        IN  IF full0 = None THEN None ELSE Ifaces!External(full0, fams, pub)
  BY DEF Ifaces!LookupExtIface
<1> QED
  BY <1>1, <1>5, <1>7, <1>8, <1>9 DEF r, full

LEMMA FitsLemma ==
  ASSUME NEW h \in Hosts, NEW o \in IfaceOpts, NEW fams \in Families
  PROVE  Fits(h, o, fams)
<1> DEFINE pub == PublicIps(o)
           first == IF pub[4] # None THEN pub[4] ELSE pub[6]
           only == [by |-> IF first = None THEN "default"
                           ELSE IF first = Bad THEN "name" ELSE "address",
                    what |-> first]
           at(k) == Ifaces!LookupExtIface(h, o.queries[k], fams, pub)
           found == {k \in DOMAIN o.queries : at(k) # None}
           e == Search(h, o, fams)
           on(i) == {h.ifaces[i].addrs[k] : k \in DOMAIN h.ifaces[i].addrs}
<1>1. pub \in Publics
  BY OptionsAssumption DEF PublicIps, IsOption, Publics
<1>2. e = IF o.queries = <<>> THEN Ifaces!LookupExtIface(h, only, fams, pub)
          ELSE IF found = {} THEN None ELSE at(Ifaces!Min(found))
  BY DEF Search, Ifaces!SelectExternalIface
<1>3. first \in Addresses \cup {None, Bad}
  BY <1>1 DEF Publics
<1>4. /\ only.what = first /\ only.by \in {"default", "name", "address"}
      /\ only.by = "address" => first \in Addresses
      /\ first = None => only.by = "default"
  BY <1>3
<1> HIDE DEF pub, first, only, e
<1>5. ASSUME e # None, ~Mistakable(h, o, fams) PROVE Result(h, e, fams, pub)
  <2>1. CASE o.queries = <<>>
    <3>1. ~Ambiguous(h, only) /\ ~ReachesV6(only, fams)
      BY <1>4 DEF Ambiguous, ReachesV6
    <3>2. e = Ifaces!LookupExtIface(h, only, fams, pub)
      BY <1>2, <2>1
    <3> QED
      BY <1>1, <1>4, <1>5, <3>1, <3>2, LookupLemma
  <2>2. CASE o.queries # <<>>
    <3> DEFINE k == Ifaces!Min(found)
    <3>1. found # {}
      BY <1>2, <1>5, <2>2
    <3>2. found \in SUBSET Nat
      BY OptionsAssumption DEF IsOption
    <3>3. k \in found
      BY <3>1, <3>2, MinIn, Zenon
    <3>4. k \in DOMAIN o.queries
      BY <3>3
    <3>5. e = at(k)
      BY <1>2, <2>2, <3>1
    <3> HIDE DEF k, found
    <3>6. IsQuery(h, o.queries[k])
      BY <3>4, OptionsAssumption DEF IsOption
    <3>7. ~Ambiguous(h, o.queries[k]) /\ ~ReachesV6(o.queries[k], fams)
      BY <1>5, <3>4 DEF Mistakable
    <3> QED
      BY <1>1, <1>5, <3>5, <3>6, <3>7, LookupLemma DEF IsQuery
  <2> QED
    BY <2>1, <2>2
<1>6. ASSUME e = None, o.queries = <<>>, pub = [f \in {4, 6} |-> None],
             NEW i \in Ifaces!Indices(h), h.ifaces[i].mtu # 0,
             \A f \in fams : h.default[f] = i /\ ~(\A a \in on(i) : a.f = f => ~Ifaces!Usable(a))
      PROVE  FALSE
  <2>1. pub[4] = None /\ pub[6] = None /\ i \in 1..Len(h.ifaces)
    BY <1>6, HostLemma
  <2>2. only.by = "default"
    BY <1>4, <2>1 DEF first
  <2>3. \A f \in fams : Ifaces!IfaceAddrs(h, i, f) # {}
    BY <1>6 DEF Ifaces!IfaceAddrs
  <2>4. \A f \in fams : h.default[f] = i /\ Ifaces!IfaceAddrs(h, i, f) # {}
    BY <1>6, <2>3
  <2>5. Ifaces!LookupExtIface(h, only, fams, pub) # None
    <3> HIDE DEF on
    <3> QED
      BY <1>1, <1>6, <2>1, <2>2, <2>4, DefaultLemma
  <2> QED
    BY <1>2, <1>6, <2>5
<1>7. ASSUME e # None, ~Mistakable(h, o, fams), NEW f \in fams
      PROVE  e.a[f] \in on(e.iface) /\ e.a[f].f = f /\ e.ext[f] \in {e.a[f], pub[f]} \ {None}
  BY <1>5, <1>7 DEF Result, OnIface
<1> QED
  BY <1>6, <1>7 DEF Fits, e, pub

\* For any hosts and options: the interface that the search finds has the
\* addresses that will be used on it, peers are told one of them or the public
\* one, and a host whose default routes agree is not refused for want of
\* options (lookup_ext_iface, select_external_iface).
THEOREM InterfaceAlwaysFits == Spec => []InterfaceFits
<1>1. Misfits = {}
  BY FitsLemma DEF Misfits, Families
<1>2. InterfaceFits
  BY <1>1 DEF InterfaceFits
<1> QED
  BY <1>2, PTL
=============================================================================
