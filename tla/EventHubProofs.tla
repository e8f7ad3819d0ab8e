--------------------------- MODULE EventHubProofs ---------------------------
(***************************************************************************)
(* Proofs about EventHub, for every set of subscriptions, every capacity   *)
(* and every number of events. The argument: the backlog is always the     *)
(* last min(published, Capacity) events in order (BacklogInv), so a replay *)
(* starts a run of consecutive events that publish then extends one event  *)
(* at a time for exactly the watchers it owes one (StreamInv).             *)
(*                                                                         *)
(* Then the two ends the hub lies between. LeaseSync: the informer's cache *)
(* is a revision of the API server's log, and what the events on their way *)
(* will make of the watcher's leases is what the cache says (PipeInv), so  *)
(* once all is settled the leases are those of the nodes. RunLoop: the     *)
(* lease watch, which errors do not end.                                   *)
(***************************************************************************)
EXTENDS EventHub, LeaseSync, RunLoop, SequenceTheorems, FiniteSetTheorems,
        WellFoundedInduction, TLAPS

\* The backlog is the last events published, in order, and as many of them
\* as fit.
BacklogInv ==
  /\ Len(backlog) = IF published > Capacity THEN Capacity ELSE published
  /\ Consecutive(backlog, published - Len(backlog))

\* Bookkeeping of publish: outside it nobody is owed an event, it owes
\* events only to registered watchers and retires only closed ones.
PublishInv ==
  /\ pc = "recv" => targets = {}
  /\ targets \subseteq registered
  /\ \A s \in Subscribers : rx[s] = "unused" => s \notin registered /\ got[s] = <<>>
  /\ \A s \in retired : rx[s] = "closed"

IInv ==
  /\ TypeOK
  /\ BacklogInv
  /\ PublishInv
  /\ ContiguousDelivery
  /\ NeverEvicted

-----------------------------------------------------------------------------
\* Appending the next event keeps a sequence consecutive.
LEMMA AppendNext ==
  ASSUME NEW q \in Seq(Nat), NEW n \in Nat, Consecutive(q, n)
  PROVE  /\ Append(q, n + Len(q) + 1) \in Seq(Nat)
         /\ Len(Append(q, n + Len(q) + 1)) = Len(q) + 1
         /\ Consecutive(Append(q, n + Len(q) + 1), n)
<1> DEFINE a == Append(q, n + Len(q) + 1)
<1>1. Len(q) \in Nat /\ n + Len(q) + 1 \in Nat
  OBVIOUS
<1>2. /\ a \in Seq(Nat)
      /\ Len(a) = Len(q) + 1
      /\ \A i \in 1..Len(q) : a[i] = q[i]
      /\ a[Len(q) + 1] = n + Len(q) + 1
  BY <1>1
<1>3. ASSUME NEW i \in 1..Len(a) PROVE a[i] = n + i
  <2>1. CASE i = Len(q) + 1
    BY <2>1, <1>1, <1>2
  <2>2. CASE i # Len(q) + 1
    <3>1. i \in 1..Len(q)
      BY <2>2, <1>1, <1>2
    <3> QED
      BY <3>1, <1>2 DEF Consecutive
  <2> QED
    BY <2>1, <2>2
<1> QED
  BY <1>2, <1>3 DEF Consecutive

\* Taking the first event of a consecutive sequence leaves the rest
\* consecutive, one event further on.
LEMMA TakeFirst ==
  ASSUME NEW q \in Seq(Nat), NEW n \in Nat, Consecutive(q, n), q # <<>>
  PROVE  /\ Len(q) \in Nat \ {0}
         /\ Head(q) = n + 1
         /\ Tail(q) \in Seq(Nat)
         /\ Len(Tail(q)) = Len(q) - 1
         /\ Consecutive(Tail(q), n + 1)
<1>1. /\ Len(q) \in Nat \ {0}
      /\ Head(q) = q[1]
      /\ Tail(q) \in Seq(Nat)
      /\ Len(Tail(q)) = Len(q) - 1
      /\ \A i \in 1..Len(Tail(q)) : Tail(q)[i] = q[i + 1]
  OBVIOUS
<1>2. Head(q) = n + 1
  BY <1>1 DEF Consecutive
<1>3. ASSUME NEW i \in 1..Len(Tail(q)) PROVE Tail(q)[i] = n + 1 + i
  <2>1. i + 1 \in 1..Len(q)
    BY <1>1
  <2>2. q[i + 1] = n + (i + 1)
    BY <2>1 DEF Consecutive
  <2> QED
    BY <1>1, <2>2
<1> QED
  BY <1>1, <1>2, <1>3 DEF Consecutive

\* What push_back and pop_front leave in a backlog that holds the last
\* events up to p: the last events up to p + 1.
LEMMA PushLemma ==
  ASSUME NEW b \in Seq(Nat), NEW p \in Nat,
         Len(b) = IF p > Capacity THEN Capacity ELSE p,
         Consecutive(b, p - Len(b))
  PROVE  /\ Push(b, p + 1) \in Seq(Nat)
         /\ Len(Push(b, p + 1)) = IF p + 1 > Capacity THEN Capacity ELSE p + 1
         /\ Consecutive(Push(b, p + 1), (p + 1) - Len(Push(b, p + 1)))
<1> DEFINE n == p - Len(b)
           a == Append(b, p + 1)
<1>1. Len(b) \in Nat /\ n \in Nat /\ n + Len(b) + 1 = p + 1
  BY CapacityAssumption
<1>2. a \in Seq(Nat) /\ Len(a) = Len(b) + 1 /\ Consecutive(a, n)
  BY <1>1, AppendNext
<1>3. CASE Len(a) > Capacity
  <2>1. a # <<>>
    BY <1>2
  <2>2. /\ Tail(a) \in Seq(Nat)
        /\ Len(Tail(a)) = Len(a) - 1
        /\ Consecutive(Tail(a), n + 1)
    BY <1>1, <1>2, <2>1, TakeFirst
  <2>3. Push(b, p + 1) = Tail(a)
    BY <1>3 DEF Push
  <2>4. Len(Tail(a)) = Len(b) /\ Len(b) + 1 > Capacity
    BY <1>1, <1>2, <1>3, <2>2, CapacityAssumption
  <2>5. Len(b) = Capacity /\ p + 1 > Capacity
    <3>1. CASE p > Capacity
      BY <3>1, <2>4, CapacityAssumption
    <3>2. CASE ~(p > Capacity)
      BY <3>2, <2>4, CapacityAssumption
    <3> QED
      BY <3>1, <3>2
  <2>6. (p + 1) - Len(b) = n + 1
    BY <1>1
  <2> QED
    BY <2>2, <2>3, <2>4, <2>5, <2>6, CapacityAssumption
<1>4. CASE ~(Len(a) > Capacity)
  <2>1. Push(b, p + 1) = a
    BY <1>4 DEF Push
  <2>2. Len(b) = p /\ ~(p + 1 > Capacity) /\ Len(a) = p + 1 /\ (p + 1) - Len(a) = n
    BY <1>1, <1>2, <1>4, CapacityAssumption
  <2> QED
    BY <1>2, <2>1, <2>2, CapacityAssumption
<1> QED
  BY <1>3, <1>4

LEMMA InitInv == Init => IInv
  BY CapacityAssumption, MaxEventsAssumption
  DEF Init, IInv, TypeOK, BacklogInv, PublishInv, ContiguousDelivery,
      NeverEvicted, Owed, Consecutive

LEMMA PublishBeginInv == IInv /\ PublishBegin => IInv'
<1> SUFFICES ASSUME IInv, PublishBegin PROVE IInv'
  OBVIOUS
<1> USE DEF IInv, PublishBegin, subVars
<1>1. /\ backlog' \in Seq(Nat)
      /\ BacklogInv'
  <2>1. published \in Nat /\ backlog \in Seq(Nat)
    BY MaxEventsAssumption DEF TypeOK
  <2> QED
    BY <2>1, PushLemma DEF BacklogInv
<1>2. TypeOK'
  BY <1>1, CapacityAssumption, MaxEventsAssumption DEF TypeOK, BacklogInv
<1>3. PublishInv'
  BY DEF PublishInv
<1>4. ContiguousDelivery'
  BY DEF ContiguousDelivery, Owed, TypeOK, PublishInv, NeverEvicted
<1>5. NeverEvicted'
  BY DEF NeverEvicted
<1> QED
  BY <1>1, <1>2, <1>3, <1>4, <1>5

LEMMA SendOkInv ==
  ASSUME NEW s \in Subscribers, IInv, SendOk(s) PROVE IInv'
<1> USE DEF IInv, SendOk, NextTarget, hubVars
<1> DEFINE n == base[s] + Len(got[s])
<1>0. /\ n \in Nat /\ chan[s] \in Seq(Nat) /\ Len(chan[s]) \in Nat
      /\ Consecutive(chan[s], n)
      /\ published = n + Len(chan[s]) + 1
  BY DEF TypeOK, ContiguousDelivery, Owed
<1>1. /\ chan'[s] = Append(chan[s], n + Len(chan[s]) + 1)
      /\ \A t \in Subscribers \ {s} : chan'[t] = chan[t]
  BY <1>0 DEF TypeOK
<1>2. /\ chan'[s] \in Seq(Nat)
      /\ Len(chan'[s]) = Len(chan[s]) + 1
      /\ Consecutive(chan'[s], n)
  BY <1>0, <1>1, AppendNext
<1>3. TypeOK'
  BY <1>1, <1>2 DEF TypeOK
<1>4. BacklogInv'
  BY DEF BacklogInv
<1>5. PublishInv'
  BY DEF PublishInv
<1>6. ContiguousDelivery'
  <2> SUFFICES ASSUME NEW t \in Subscribers
               PROVE  /\ Consecutive(got'[t], base'[t])
                      /\ rx'[t] = "open" =>
                           /\ Consecutive(chan'[t], base'[t] + Len(got'[t]))
                           /\ base'[t] + Len(got'[t]) + Len(chan'[t]) + Owed(t)'
                                = published'
    BY DEF ContiguousDelivery
  <2>1. CASE t = s
    BY <2>1, <1>0, <1>1, <1>2 DEF ContiguousDelivery, Owed
  <2>2. CASE t # s
    BY <2>2, <1>1 DEF ContiguousDelivery, Owed
  <2> QED
    BY <2>1, <2>2
<1>7. NeverEvicted'
  BY DEF NeverEvicted
<1> QED
  BY <1>3, <1>4, <1>5, <1>6, <1>7

LEMMA SendClosedInv ==
  ASSUME NEW s \in Subscribers, IInv, SendClosed(s) PROVE IInv'
<1> USE DEF IInv, SendClosed, NextTarget, hubVars, subVars
<1>1. TypeOK'
  BY DEF TypeOK
<1>2. BacklogInv'
  BY DEF BacklogInv
<1>3. PublishInv'
  BY DEF PublishInv
<1>4. ContiguousDelivery'
  BY DEF ContiguousDelivery, Owed, TypeOK
<1>5. NeverEvicted'
  BY DEF NeverEvicted
<1> QED
  BY <1>1, <1>2, <1>3, <1>4, <1>5

LEMMA PublishEndInv == IInv /\ PublishEnd => IInv'
<1> SUFFICES ASSUME IInv, PublishEnd PROVE IInv'
  OBVIOUS
<1> USE DEF IInv, PublishEnd, subVars
<1>1. TypeOK'
  BY DEF TypeOK
<1>2. BacklogInv'
  BY DEF BacklogInv
<1>3. PublishInv'
  BY DEF PublishInv
<1>4. ContiguousDelivery'
  BY DEF ContiguousDelivery, Owed, TypeOK
<1>5. NeverEvicted'
  BY DEF NeverEvicted, PublishInv
<1> QED
  BY <1>1, <1>2, <1>3, <1>4, <1>5

LEMMA SubscribeInv ==
  ASSUME NEW s \in Subscribers, IInv, Subscribe(s) PROVE IInv'
<1> USE DEF IInv, Subscribe, pubVars
<1>0. published - Len(backlog) \in Nat /\ Len(backlog) \in Nat
  BY CapacityAssumption DEF TypeOK, BacklogInv
<1>1. TypeOK'
  BY <1>0, CapacityAssumption DEF TypeOK
<1>2. BacklogInv'
  BY DEF BacklogInv
<1>3. PublishInv'
  BY DEF PublishInv, TypeOK
<1>4. s \notin targets
  BY DEF PublishInv
<1>5. got[s] = <<>>
  BY DEF PublishInv
<1>6. ContiguousDelivery'
  <2> SUFFICES ASSUME NEW t \in Subscribers
               PROVE  /\ Consecutive(got'[t], base'[t])
                      /\ rx'[t] = "open" =>
                           /\ Consecutive(chan'[t], base'[t] + Len(got'[t]))
                           /\ base'[t] + Len(got'[t]) + Len(chan'[t]) + Owed(t)'
                                = published'
    BY DEF ContiguousDelivery
  <2>1. CASE t = s
    <3>1. got'[s] = <<>> /\ Len(got'[s]) = 0 /\ chan'[s] = backlog
          /\ base'[s] = published - Len(backlog) /\ Owed(s)' = 0
      BY <1>4, <1>5 DEF TypeOK, Owed
    <3>2. base'[s] + Len(got'[s]) = published - Len(backlog)
      BY <1>0, <3>1
    <3>3. Consecutive(got'[s], base'[s])
      BY <3>1 DEF Consecutive
    <3>4. Consecutive(chan'[s], base'[s] + Len(got'[s]))
      BY <3>1, <3>2 DEF BacklogInv
    <3>5. base'[s] + Len(got'[s]) + Len(chan'[s]) + Owed(s)' = published'
      BY <1>0, <3>1 DEF TypeOK
    <3> QED
      BY <2>1, <3>3, <3>4, <3>5
  <2>2. CASE t # s
    BY <2>2 DEF ContiguousDelivery, Owed, TypeOK
  <2> QED
    BY <2>1, <2>2
<1>7. NeverEvicted'
  BY DEF NeverEvicted, TypeOK
<1> QED
  BY <1>1, <1>2, <1>3, <1>6, <1>7

LEMMA ReceiveInv ==
  ASSUME NEW s \in Subscribers, IInv, Receive(s) PROVE IInv'
<1> USE DEF IInv, Receive, hubVars, pubVars
<1> DEFINE n == base[s] + Len(got[s])
<1>0. /\ base[s] \in Nat /\ n \in Nat
      /\ got[s] \in Seq(Nat) /\ Consecutive(got[s], base[s])
      /\ chan[s] \in Seq(Nat) /\ Consecutive(chan[s], n)
      /\ n + Len(chan[s]) + Owed(s) = published
  BY DEF TypeOK, ContiguousDelivery
<1>1. /\ Len(chan[s]) \in Nat \ {0}
      /\ Head(chan[s]) = n + 1
      /\ Tail(chan[s]) \in Seq(Nat)
      /\ Len(Tail(chan[s])) = Len(chan[s]) - 1
      /\ Consecutive(Tail(chan[s]), n + 1)
  BY <1>0, TakeFirst
<1>2. /\ got'[s] = Append(got[s], n + 1)
      /\ chan'[s] = Tail(chan[s])
      /\ \A t \in Subscribers \ {s} : got'[t] = got[t] /\ chan'[t] = chan[t]
  BY <1>1 DEF TypeOK
<1>3. /\ got'[s] \in Seq(Nat)
      /\ Len(got'[s]) = Len(got[s]) + 1
      /\ Consecutive(got'[s], base[s])
      /\ base[s] + Len(got'[s]) = n + 1
  <2>1. n + 1 = base[s] + Len(got[s]) + 1 /\ Len(got[s]) \in Nat
    BY <1>0
  <2>2. /\ got'[s] \in Seq(Nat)
        /\ Len(got'[s]) = Len(got[s]) + 1
        /\ Consecutive(got'[s], base[s])
    BY <1>0, <1>2, <2>1, AppendNext
  <2>3. base[s] \in Nat
    BY <1>0
  <2> HIDE DEF IInv, Receive, hubVars, pubVars
  <2> QED
    BY <2>1, <2>2, <2>3
<1>4. TypeOK'
  <2>1. got' \in [Subscribers -> Seq(Nat)]
    BY <1>3 DEF TypeOK
  <2>2. chan' \in [Subscribers -> Seq(Nat)]
    BY <1>1 DEF TypeOK
  <2>3. \A t \in Subscribers : Len(chan'[t]) <= Len(chan[t])
    BY <1>1, <1>2 DEF TypeOK
  <2>4. \A t \in Subscribers : Len(chan'[t]) <= cap'[t]
    <3> SUFFICES ASSUME NEW t \in Subscribers PROVE Len(chan'[t]) <= cap'[t]
      OBVIOUS
    <3>1. Len(chan'[t]) \in Nat
      BY <2>2
    <3>2. Len(chan[t]) \in Nat /\ cap[t] \in Nat /\ Len(chan[t]) <= cap[t]
      BY DEF TypeOK
    <3>3. cap' = cap
      OBVIOUS
    <3> HIDE DEF IInv, Receive, hubVars, pubVars
    <3> QED
      BY <2>3, <3>1, <3>2, <3>3
  <2> QED
    BY <2>1, <2>2, <2>4 DEF TypeOK
<1>5. BacklogInv'
  BY DEF BacklogInv
<1>6. PublishInv'
  BY DEF PublishInv
<1>7. ContiguousDelivery'
  <2> SUFFICES ASSUME NEW t \in Subscribers
               PROVE  /\ Consecutive(got'[t], base'[t])
                      /\ rx'[t] = "open" =>
                           /\ Consecutive(chan'[t], base'[t] + Len(got'[t]))
                           /\ base'[t] + Len(got'[t]) + Len(chan'[t]) + Owed(t)'
                                = published'
    BY DEF ContiguousDelivery
  <2>1. CASE t = s
    <3>1. n + 1 + Len(Tail(chan[s])) + Owed(s) = published
      BY <1>0, <1>1 DEF Owed
    <3> QED
      BY <2>1, <3>1, <1>1, <1>2, <1>3 DEF Owed
  <2>2. CASE t # s
    BY <2>2, <1>2 DEF ContiguousDelivery, Owed
  <2> QED
    BY <2>1, <2>2
<1>8. NeverEvicted'
  BY DEF NeverEvicted
<1> QED
  BY <1>4, <1>5, <1>6, <1>7, <1>8

LEMMA DropInv ==
  ASSUME NEW s \in Subscribers, IInv, Drop(s) PROVE IInv'
<1> USE DEF IInv, Drop, hubVars, pubVars
<1>1. TypeOK'
  BY DEF TypeOK
<1>2. BacklogInv'
  BY DEF BacklogInv
<1>3. PublishInv'
  BY DEF PublishInv, TypeOK
<1>4. ContiguousDelivery'
  BY DEF ContiguousDelivery, Owed, TypeOK
<1>5. NeverEvicted'
  BY DEF NeverEvicted, TypeOK
<1> QED
  BY <1>1, <1>2, <1>3, <1>4, <1>5

LEMMA StutterInv == IInv /\ UNCHANGED vars => IInv'
  BY DEF IInv, vars, hubVars, pubVars, subVars, TypeOK, BacklogInv, PublishInv,
         ContiguousDelivery, NeverEvicted, Owed

LEMMA NextInv == IInv /\ [Next]_vars => IInv'
  BY PublishBeginInv, PublishEndInv, SendOkInv, SendClosedInv, SubscribeInv,
     ReceiveInv, DropInv, StutterInv
  DEF Next

-----------------------------------------------------------------------------
LEMMA Inductive == Spec => []IInv
  BY InitInv, NextInv, PTL DEF Spec

\* The hub's state keeps its types and bounds: the backlog stays within
\* capacity and no channel holds more than it was created for.
THEOREM HubTyped == Spec => []TypeOK
<1>1. IInv => TypeOK
  BY DEF IInv
<1> QED
  BY <1>1, Inductive, PTL

\* publish and subscribe lose and duplicate nothing: every live watcher's
\* history, buffer and the event owed to it are one run of consecutive
\* events ending at the last one published.
THEOREM HubContiguous == Spec => []ContiguousDelivery
<1>1. IInv => ContiguousDelivery
  BY DEF IInv
<1> QED
  BY <1>1, Inductive, PTL

\* publish retires only watchers whose receiver is gone.
THEOREM HubNeverEvicts == Spec => []NeverEvicted
<1>1. IInv => NeverEvicted
  BY DEF IInv
<1> QED
  BY <1>1, Inductive, PTL

-----------------------------------------------------------------------------
(* The hub implements Broadcast: what a step does to what watchers see. *)

LEMMA InitRefines == Init => Promise!BInit
  BY DEF Init, Promise!BInit

LEMMA PublishBeginRefines == PublishBegin => Promise!Publish
  BY DEF PublishBegin, Promise!Publish, subVars

LEMMA SubscribeRefines ==
  ASSUME NEW s \in Subscribers, IInv, Subscribe(s) PROVE Promise!Join(s)
<1> USE DEF Subscribe, pubVars
<1>1. Promise!Missed(published) = published - Len(backlog)
  <2>1. published \in Nat /\ Capacity \in Nat
        /\ Len(backlog) = IF published > Capacity THEN Capacity ELSE published
    BY CapacityAssumption, MaxEventsAssumption DEF IInv, TypeOK, BacklogInv
  <2>2. CASE published > Capacity
    BY <2>1, <2>2 DEF Promise!Missed
  <2>3. CASE ~(published > Capacity)
    BY <2>1, <2>3 DEF Promise!Missed
  <2> QED
    BY <2>2, <2>3
<1>2. base' = [base EXCEPT ![s] = Promise!Missed(published)]
  BY <1>1
<1>3. {t \in Subscribers : rx'[t] = "open"}
        = {t \in Subscribers : rx[t] = "open"} \cup {s}
  BY DEF IInv, TypeOK
<1>4. s \notin {t \in Subscribers : rx[t] = "open"}
  OBVIOUS
<1> QED
  BY <1>2, <1>3, <1>4 DEF Promise!Join

LEMMA ReceiveRefines ==
  ASSUME NEW s \in Subscribers, IInv, Receive(s) PROVE Promise!Receive(s)
<1> USE DEF Receive, hubVars, pubVars
<1>1. /\ base[s] \in Nat /\ got[s] \in Seq(Nat) /\ chan[s] \in Seq(Nat)
      /\ Consecutive(chan[s], base[s] + Len(got[s]))
      /\ base[s] + Len(got[s]) + Len(chan[s]) + Owed(s) = published
  BY DEF IInv, TypeOK, ContiguousDelivery
<1>2. Len(chan[s]) \in Nat \ {0} /\ Head(chan[s]) = base[s] + Len(got[s]) + 1
  <2>1. base[s] + Len(got[s]) \in Nat
    BY <1>1
  <2> QED
    BY <1>1, <2>1, TakeFirst
<1>3. base[s] + Len(got[s]) < published
  <2>1. Owed(s) \in {0, 1}
    BY DEF Owed
  <2>2. Len(got[s]) \in Nat
    BY <1>1
  <2> HIDE DEF Receive, hubVars, pubVars
  <2> QED
    BY <1>1, <1>2, <2>1, <2>2
<1>4. got' = [got EXCEPT ![s] = Append(@, base[s] + Len(@) + 1)]
  BY <1>2
<1> QED
  BY <1>3, <1>4 DEF Promise!Receive

LEMMA DropRefines ==
  ASSUME NEW s \in Subscribers, IInv, Drop(s) PROVE Promise!Leave(s)
<1> USE DEF Drop, hubVars, pubVars
<1>1. {t \in Subscribers : rx'[t] = "open"}
        = {t \in Subscribers : rx[t] = "open"} \ {s}
  BY DEF IInv, TypeOK
<1> QED
  BY <1>1 DEF Promise!Leave

LEMMA StepRefines == IInv /\ [Next]_vars => [Promise!BNext]_(Promise!bvars)
<1> SUFFICES ASSUME IInv, [Next]_vars PROVE [Promise!BNext]_(Promise!bvars)
  OBVIOUS
<1>1. CASE PublishBegin
  BY <1>1, PublishBeginRefines DEF Promise!BNext
<1>2. CASE PublishEnd
  BY <1>2 DEF PublishEnd, subVars, Promise!bvars
<1>3. ASSUME NEW s \in Subscribers, SendOk(s) \/ SendClosed(s)
      PROVE  UNCHANGED Promise!bvars
  BY <1>3 DEF SendOk, SendClosed, hubVars, subVars, Promise!bvars
<1>4. ASSUME NEW s \in Subscribers, Subscribe(s) \/ Receive(s) \/ Drop(s)
      PROVE  Promise!BNext
  BY <1>4, SubscribeRefines, ReceiveRefines, DropRefines DEF Promise!BNext
<1>5. CASE UNCHANGED vars
  BY <1>5 DEF vars, hubVars, subVars, Promise!bvars
<1> QED
  BY <1>1, <1>2, <1>3, <1>4, <1>5 DEF Next

\* The hub with its lock, its copied subscriber list and its bounded
\* channels implements the broadcast its comments promise.
THEOREM HubRefines == Spec => ImplementsBroadcast
  BY Inductive, InitRefines, StepRefines, PTL
  DEF Spec, ImplementsBroadcast, Promise!BSpec

-----------------------------------------------------------------------------
(* LeaseSync: the informer's cache *)

PeerObjects == [cidr : Cidrs, attrs : Versions \cup {0}]
Objects == PeerObjects \cup {NoNode}
Changes == [type : {"Added", "Modified", "Deleted"}, node : Nodes, object : PeerObjects]

SyncTypes ==
  /\ log \in Seq(Changes)
  /\ nodes \in [Nodes -> Objects]
  /\ store \in [Nodes -> Objects]
  /\ rv \in 0..Len(log)

\* AtRevision of any log: what the first r changes of L leave of node n.
Leaves(L, n, o, r) ==
  \/ o = NoNode /\ \A i \in 1..r : L[i].node # n
  \/ \E i \in 1..r :
       /\ L[i].node = n /\ \A j \in (i + 1)..r : L[j].node # n
       /\ o = IF L[i].type = "Deleted" THEN NoNode ELSE L[i].object

\* The node objects are what the log leaves; the cache can only be replaced
\* by them at the log's end because of that.
ServerInv == \A n \in Nodes : Leaves(log, n, nodes[n], Len(log))
StoreInv == \A n \in Nodes : Leaves(log, n, store[n], rv)

\* What a change does to the object as it was before: an addition finds
\* none, a modification keeps the CIDR and leaves annotations, a deletion
\* carries the last object.
Follows(L, i) ==
  LET e == L[i]
  IN  /\ e.type = "Added" => Leaves(L, e.node, NoNode, i - 1)
      /\ e.type = "Modified" =>
           /\ Managed(e.object)
           /\ \E o : o # NoNode /\ o.cidr = e.object.cidr /\ Leaves(L, e.node, o, i - 1)
      /\ e.type = "Deleted" => Leaves(L, e.node, e.object, i - 1)
LogInv == \A i \in 1..Len(log) : Follows(log, i)

SyncInv == SyncTypes /\ ServerInv /\ StoreInv /\ LogInv

LEMMA LeavesKept ==
  ASSUME NEW L, NEW M, NEW r \in Nat, \A i \in 1..r : M[i] = L[i], NEW n, NEW o,
         Leaves(L, n, o, r)
  PROVE  Leaves(M, n, o, r)
<1>1. CASE o = NoNode /\ \A i \in 1..r : L[i].node # n
  BY <1>1 DEF Leaves
<1>2. ASSUME NEW i \in 1..r, L[i].node = n, \A j \in (i + 1)..r : L[j].node # n,
             o = IF L[i].type = "Deleted" THEN NoNode ELSE L[i].object
      PROVE  Leaves(M, n, o, r)
  <2>1. \A j \in (i + 1)..r : j \in 1..r
    OBVIOUS
  <2>2. M[i] = L[i] /\ \A j \in (i + 1)..r : M[j] = L[j]
    BY <2>1
  <2> QED
    BY <1>2, <2>2 DEF Leaves
<1> QED
  BY <1>1, <1>2 DEF Leaves

\* One change more: its node has what it says, the others what they had.
LEMMA LeavesNext ==
  ASSUME NEW L, NEW r \in Nat, NEW n, NEW o,
         IF L[r + 1].node = n
         THEN o = IF L[r + 1].type = "Deleted" THEN NoNode ELSE L[r + 1].object
         ELSE Leaves(L, n, o, r)
  PROVE  Leaves(L, n, o, r + 1)
<1>1. /\ r + 1 \in 1..(r + 1) /\ 1..(r + 1) = 1..r \cup {r + 1}
      /\ ((r + 1) + 1)..(r + 1) = {}
      /\ \A i \in 1..r : i \in 1..(r + 1) /\ (i + 1)..(r + 1) = ((i + 1)..r) \cup {r + 1}
  OBVIOUS
<1>2. CASE L[r + 1].node = n
  BY <1>1, <1>2 DEF Leaves
<1>3. CASE L[r + 1].node # n
  <2>1. CASE o = NoNode /\ \A i \in 1..r : L[i].node # n
    BY <1>1, <1>3, <2>1 DEF Leaves
  <2>2. ASSUME NEW i \in 1..r, L[i].node = n, \A j \in (i + 1)..r : L[j].node # n,
               o = IF L[i].type = "Deleted" THEN NoNode ELSE L[i].object
        PROVE  Leaves(L, n, o, r + 1)
    <3>1. \A j \in (i + 1)..(r + 1) : L[j].node # n
      BY <1>1, <1>3, <2>2
    <3> QED
      BY <1>1, <2>2, <3>1 DEF Leaves
  <2> QED
    BY <1>3, <2>1, <2>2 DEF Leaves
<1> QED
  BY <1>2, <1>3

\* A log leaves one object of a node.
LEMMA LeavesOne ==
  ASSUME NEW L, NEW r \in Nat, NEW n, NEW o, NEW p, Leaves(L, n, o, r), Leaves(L, n, p, r)
  PROVE  o = p
<1>1. CASE \A i \in 1..r : L[i].node # n
  BY <1>1 DEF Leaves
<1>2. CASE ~ \A i \in 1..r : L[i].node # n
  <2>1. PICK i \in 1..r : /\ L[i].node = n /\ \A j \in (i + 1)..r : L[j].node # n
                          /\ o = IF L[i].type = "Deleted" THEN NoNode ELSE L[i].object
    BY <1>2 DEF Leaves
  <2>2. PICK k \in 1..r : /\ L[k].node = n /\ \A j \in (k + 1)..r : L[j].node # n
                          /\ p = IF L[k].type = "Deleted" THEN NoNode ELSE L[k].object
    BY <1>2 DEF Leaves
  <2>3. i = k
    BY <2>1, <2>2
  <2> QED
    BY <2>1, <2>2, <2>3
<1> QED
  BY <1>1, <1>2

\* An object comes from a change of its node.
LEMMA LeavesOrigin ==
  ASSUME NEW L, NEW r, NEW n, NEW o, Leaves(L, n, o, r), o # NoNode
  PROVE  \E i \in 1..r : L[i].node = n /\ L[i].object = o
BY DEF Leaves

LEMMA RevisionLemma ==
  ASSUME SyncInv
  PROVE  StoreIsRevision
BY DEF SyncInv, StoreInv, StoreIsRevision, Leaves, AtRevision

LEMMA SyncInitInv == SyncInit => SyncInv
<1> SUFFICES ASSUME SyncInit PROVE SyncInv
  OBVIOUS
<1>1. Len(log) = 0 /\ 1..0 = {} /\ rv = 0
  BY DEF SyncInit
<1>2. SyncTypes
  BY <1>1 DEF SyncTypes, SyncInit, Objects
<1>3. \A n \in Nodes : Leaves(log, n, NoNode, 0)
  BY <1>1 DEF Leaves
<1> QED
  BY <1>1, <1>2, <1>3 DEF SyncInv, ServerInv, StoreInv, LogInv, SyncInit

\* A change of one node is the last entry of the log; the earlier revisions
\* stay what they were.
LEMMA ChangeInv ==
  ASSUME SyncInv, NEW n \in Nodes, NEW t \in {"Added", "Modified", "Deleted"},
         NEW o \in PeerObjects, Change(n, t, o),
         t = "Added" => nodes[n] = NoNode,
         t = "Modified" => Managed(o) /\ nodes[n] # NoNode /\ nodes[n].cidr = o.cidr,
         t = "Deleted" => nodes[n] = o
  PROVE  SyncInv'
<1> USE DEF SyncInv
<1> DEFINE e == [type |-> t, node |-> n, object |-> o]
           k == Len(log)
<1>1. /\ log \in Seq(Changes) /\ e \in Changes /\ log' = Append(log, e)
      /\ nodes' = [nodes EXCEPT ![n] = IF t = "Deleted" THEN NoNode ELSE o]
      /\ rv' = rv /\ store' = store
  BY DEF Change, informerVars, SyncTypes, Changes
<1>0. e.type = t /\ e.node = n /\ e.object = o
  OBVIOUS
<1> HIDE DEF e
<1>2. /\ k \in Nat /\ Len(log') = k + 1 /\ log' \in Seq(Changes)
      /\ \A i \in 1..k : log'[i] = log[i]
      /\ log'[k + 1] = e
  BY <1>1, AppendProperties, LenProperties
<1>3. rv \in Nat /\ rv <= k
  BY <1>2 DEF SyncTypes
<1> HIDE DEF k
<1>4. SyncTypes'
  BY <1>1, <1>2, <1>3 DEF SyncTypes, Objects
<1>5. StoreInv'
  <2>1. \A i \in 1..rv : log'[i] = log[i]
    BY <1>2, <1>3
  <2>2. \A m \in Nodes : Leaves(log, m, store[m], rv)
    BY DEF StoreInv
  <2>3. \A m \in Nodes : Leaves(log', m, store[m], rv)
    BY <1>3, <2>1, <2>2, LeavesKept
  <2> QED
    BY <1>1, <2>3 DEF StoreInv
<1>6. ServerInv'
  <2> SUFFICES ASSUME NEW m \in Nodes PROVE Leaves(log', m, nodes'[m], k + 1)
    BY <1>2 DEF ServerInv
  <2>1. Leaves(log', m, nodes[m], k)
    <3>1. Leaves(log, m, nodes[m], k)
      BY DEF ServerInv, k
    <3> QED
      BY <1>2, <3>1, LeavesKept
  <2>2. nodes'[m] = IF m = n THEN (IF t = "Deleted" THEN NoNode ELSE o) ELSE nodes[m]
    BY <1>1 DEF SyncTypes
  <2> QED
    BY <1>0, <1>2, <2>1, <2>2, LeavesNext
<1>7. LogInv'
  <2> SUFFICES ASSUME NEW i \in 1..(k + 1) PROVE Follows(log', i)
    BY <1>2 DEF LogInv
  <2>1. CASE i \in 1..k
    <3>1. Follows(log, i) /\ log'[i] = log[i] /\ i - 1 \in Nat
      BY <1>2, <2>1 DEF LogInv, k
    <3>2. \A j \in 1..(i - 1) : log'[j] = log[j]
      BY <1>2, <2>1
    <3>3. \A m, p : Leaves(log, m, p, i - 1) => Leaves(log', m, p, i - 1)
      BY <3>1, <3>2, LeavesKept
    <3> QED
      BY <3>1, <3>3 DEF Follows
  <2>2. CASE i = k + 1
    <3>1. Leaves(log, n, nodes[n], k)
      BY DEF ServerInv, k
    <3>2. Leaves(log', n, nodes[n], k)
      BY <1>2, <3>1, LeavesKept
    <3>3. log'[i] = e /\ i - 1 = k
      BY <1>2, <2>2
    <3> QED
      BY <1>0, <3>2, <3>3 DEF Follows
  <2> QED
    BY <1>2, <2>1, <2>2
<1> QED
  BY <1>4, <1>5, <1>6, <1>7

\* A list: the whole cache jumps to the end of the log.
LEMMA ListInv ==
  ASSUME SyncInv, ListNodes
  PROVE  SyncInv'
<1>1. store' = nodes /\ rv' = Len(log) /\ nodes' = nodes /\ log' = log
  BY DEF ListNodes, apiVars
<1>2. Len(log) \in Nat
  BY LenProperties DEF SyncInv, SyncTypes
<1>3. SyncTypes'
  BY <1>1, <1>2 DEF SyncInv, SyncTypes
<1> QED
  BY <1>1, <1>3 DEF SyncInv, ServerInv, StoreInv, LogInv

\* A watch event: the cache takes the next entry of the log.
LEMMA DispatchLemma ==
  ASSUME SyncInv, Dispatch
  PROVE  LET e == log[rv + 1]
         IN  /\ rv \in Nat /\ rv + 1 \in 1..Len(log) /\ e \in Changes
             /\ rv' = rv + 1 /\ nodes' = nodes /\ log' = log
             /\ store' = [store EXCEPT ![e.node] =
                            IF e.type = "Deleted" THEN NoNode ELSE e.object]
<1> DEFINE e == log[rv + 1]
<1>1. /\ rv < Len(log) /\ rv' = rv + 1 /\ nodes' = nodes /\ log' = log
      /\ store' = [store EXCEPT ![e.node] = IF e.type = "Deleted" THEN NoNode ELSE e.object]
  BY DEF Dispatch, apiVars
<1>2. Len(log) \in Nat /\ rv \in Nat /\ rv + 1 \in 1..Len(log)
  BY <1>1, LenProperties DEF SyncInv, SyncTypes
<1>3. e \in Changes
  BY <1>2, ElementOfSeq DEF SyncInv, SyncTypes
<1> QED
  BY <1>1, <1>2, <1>3

LEMMA DispatchInv ==
  ASSUME SyncInv, Dispatch
  PROVE  SyncInv'
<1> DEFINE e == log[rv + 1]
           o == IF e.type = "Deleted" THEN NoNode ELSE e.object
<1>1. /\ rv \in Nat /\ rv + 1 \in 1..Len(log) /\ e \in Changes
      /\ rv' = rv + 1 /\ nodes' = nodes /\ log' = log
      /\ store' = [store EXCEPT ![e.node] = o]
  BY DispatchLemma
<1>2. o \in Objects
  BY <1>1 DEF Objects, Changes
<1> USE DEF SyncInv
<1>3. SyncTypes'
  <2> HIDE DEF e, o
  <2>1. store' \in [Nodes -> Objects]
    BY <1>1, <1>2 DEF SyncTypes
  <2>2. rv' \in 0..Len(log')
    BY <1>1
  <2> QED
    BY <1>1, <2>1, <2>2 DEF SyncTypes
<1>4. ServerInv' /\ LogInv'
  BY <1>1 DEF ServerInv, LogInv
<1>5. StoreInv'
  <2> SUFFICES ASSUME NEW m \in Nodes PROVE Leaves(log, m, store'[m], rv + 1)
    BY <1>1 DEF StoreInv
  <2>1. store'[m] = IF e.node = m THEN o ELSE store[m]
    BY <1>1 DEF SyncTypes
  <2>2. Leaves(log, m, store[m], rv)
    BY DEF StoreInv
  <2> QED
    BY <1>1, <2>1, <2>2, LeavesNext
<1> QED
  BY <1>3, <1>4, <1>5

\* No other step touches the nodes, their log or the cache.
LEMMA SyncNextInv ==
  ASSUME SyncInv, [SyncNext]_syncVars
  PROVE  SyncInv'
<1>0. \A n \in Nodes : nodes[n] # NoNode => nodes[n] \in PeerObjects
  BY DEF SyncInv, SyncTypes, Objects
<1>1. ASSUME NEW n \in Nodes, CreateNode(n) PROVE SyncInv'
  <2>1. PICK c \in CidrsOf(n) : Change(n, "Added", [cidr |-> c, attrs |-> 0])
    BY <1>1 DEF CreateNode
  <2>2. [cidr |-> c, attrs |-> 0] \in PeerObjects /\ nodes[n] = NoNode
    BY <1>1, CidrsAssumption DEF PeerObjects, CreateNode
  <2> QED
    BY <2>1, <2>2, ChangeInv
<1>2. ASSUME NEW n \in Nodes, AnnotateNode(n) PROVE SyncInv'
  <2>1. PICK v \in Versions : Change(n, "Modified", [nodes[n] EXCEPT !.attrs = v])
    BY <1>2 DEF AnnotateNode
  <2> DEFINE o == [nodes[n] EXCEPT !.attrs = v]
  <2>2. nodes[n] # NoNode /\ nodes[n] \in PeerObjects
    BY <1>0, <1>2 DEF AnnotateNode
  <2>3. o \in PeerObjects /\ o.cidr = nodes[n].cidr /\ Managed(o)
    BY <2>2, VersionsAssumption DEF PeerObjects, Managed
  <2> HIDE DEF o
  <2> QED
    BY <2>1, <2>2, <2>3, ChangeInv DEF o
<1>3. ASSUME NEW n \in Nodes, DeleteNode(n) PROVE SyncInv'
  <2>1. Change(n, "Deleted", nodes[n]) /\ nodes[n] \in PeerObjects
    BY <1>0, <1>3 DEF DeleteNode
  <2> QED
    BY <2>1, ChangeInv
<1>4. CASE \/ StartWatch \/ BreakWatch \/ EnqueueSend \/ EnqueueRetry
           \/ RetrySend \/ Publish \/ HubSubscribe \/ Consume
           \/ UNCHANGED syncVars
  <2>1. UNCHANGED <<nodes, log, rv, store>>
    BY <1>4 DEF StartWatch, BreakWatch, EnqueueSend, EnqueueRetry,
                RetrySend, Publish, HubSubscribe, Consume, syncVars,
                apiVars, informerVars
  <2> QED
    BY <2>1 DEF SyncInv, SyncTypes, ServerInv, StoreInv, LogInv
<1> QED
  BY <1>1, <1>2, <1>3, <1>4, ListInv, DispatchInv DEF SyncNext

\* The informer's cache is at every moment the API server's state at the
\* revision it has reached, through any number of lists, watch events,
\* broken sessions and changes, and whatever the events channel does.
THEOREM CacheIsRevision == SyncSpec => []StoreIsRevision
<1>1. SyncInv => StoreIsRevision
  BY RevisionLemma
<1>2. SyncInv /\ [SyncNext]_syncVars => SyncInv'
  BY SyncNextInv
<1> QED
  BY <1>1, <1>2, SyncInitInv, PTL DEF SyncSpec

-----------------------------------------------------------------------------
(* LeaseSync: sequences *)

\* Induction, in the form that a nonempty set of numbers has a least element.
LEMMA Least ==
  ASSUME NEW T \in SUBSET Nat, T # {}
  PROVE  \E x \in T : \A y \in T : x <= y
<1> DEFINE R == {ss \in Nat \X Nat : ss[1] < ss[2]}
<1>1. IsWellFoundedOn(R, Nat)
  BY NatLessThanWellFounded DEF OpToRel
<1>2. \A x, y \in Nat : y < x => <<y, x>> \in R
  OBVIOUS
<1> HIDE DEF R
<1>3. PICK x \in T : \A y \in T : ~(<<y, x>> \in R)
  BY <1>1, WFMin, Zenon
<1>4. ASSUME NEW y \in T PROVE x <= y
  <2>1. x \in Nat /\ y \in Nat /\ ~(<<y, x>> \in R)
    BY <1>3
  <2>2. ~(y < x)
    BY <2>1, <1>2
  <2> QED
    BY <2>1, <2>2
<1> QED
  BY <1>4

LEMMA Induction ==
  ASSUME NEW S, 0 \in S, \A n \in Nat : n \in S => n + 1 \in S
  PROVE  Nat \subseteq S
<1> SUFFICES ASSUME Nat \ S # {} PROVE FALSE
  OBVIOUS
<1>1. PICK x \in Nat \ S : \A y \in Nat \ S : x <= y
  BY Least
<1>2. x # 0 /\ x - 1 \in Nat /\ x - 1 \notin Nat \ S
  BY <1>1
<1> QED
  BY <1>2

Elements(s) == {s[i] : i \in 1..Len(s)}

LEMMA SingletonLemma == Elements(<<>>) = {} /\ \A x : Elements(<<x>>) = {x}
<1>1. ASSUME NEW x PROVE Elements(<<x>>) = {x}
  <2>1. Len(<<x>>) = 1 /\ <<x>>[1] = x /\ 1..1 = {1}
    OBVIOUS
  <2> QED
    BY <2>1 DEF Elements
<1> QED
  BY <1>1 DEF Elements

\* The loop of FlattenSeq exists ...
Flattened(ss) ==
  CHOOSE f : f = [k \in 1..Len(ss) |-> IF k = 1 THEN ss[k] ELSE f[k - 1] \o ss[k]]

LEMMA FlattenRuns ==
  ASSUME NEW E, NEW ss \in Seq(E)
  PROVE  LET f == Flattened(ss)
         IN  \A k \in 1..Len(ss) : f[k] = IF k = 1 THEN ss[k] ELSE f[k - 1] \o ss[k]
<1> DEFINE G(a, k) == a \o ss[k]
           F(f, k) == IF k = 1 THEN ss[k] ELSE G(f[k - 1], k)
           S == {n \in Nat : \E f : f = [k \in 1..n |-> F(f, k)]}
<1>1. 0 \in S
  <2>1. [k \in 1..0 |-> 0] = [k \in 1..0 |-> F([j \in 1..0 |-> 0], k)]
    OBVIOUS
  <2> QED
    BY <2>1
<1>2. ASSUME NEW n \in Nat, n \in S PROVE n + 1 \in S
  <2> HIDE DEF G
  <2>1. PICK f : f = [k \in 1..n |-> F(f, k)]
    BY <1>2
  <2> DEFINE g == [k \in 1..(n + 1) |-> IF k = n + 1 THEN F(f, n + 1) ELSE f[k]]
  <2>2. ASSUME NEW k \in 1..(n + 1) PROVE g[k] = F(g, k)
    <3>1. CASE k = n + 1 /\ k = 1
      BY <3>1
    <3>2. CASE k = n + 1 /\ k # 1
      <4>1. g[k - 1] = f[k - 1] /\ g[k] = G(f[k - 1], k)
        BY <3>2
      <4> QED
        BY <3>2, <4>1
    <3>3. CASE k # n + 1
      <4>1. k \in 1..n /\ g[k] = f[k] /\ (k # 1 => g[k - 1] = f[k - 1])
        BY <3>3
      <4>2. f[k] = F(f, k)
        BY <2>1, <4>1
      <4> QED
        BY <4>1, <4>2
    <3> QED
      BY <3>1, <3>2, <3>3
  <2>3. g = [k \in 1..(n + 1) |-> F(g, k)]
    BY <2>2
  <2>4. \E h : h = [k \in 1..(n + 1) |-> F(h, k)]
    <3> HIDE DEF g, F
    <3> WITNESS g
    <3> QED
      BY <2>3
  <2> QED
    BY <2>4
<1>3. Len(ss) \in S
  <2> HIDE DEF S
  <2>1. Len(ss) \in Nat
    BY LenProperties
  <2> QED
    BY <1>1, <1>2, <2>1, Induction
<1> DEFINE f == Flattened(ss)
<1>4. f = [k \in 1..Len(ss) |-> F(f, k)]
  BY <1>3 DEF Flattened
<1> HIDE DEF f
<1> QED
  BY <1>4 DEF f

LEMMA ConcatElements ==
  ASSUME NEW E, NEW s \in Seq(E), NEW t \in Seq(E)
  PROVE  s \o t \in Seq(E) /\ Elements(s \o t) = Elements(s) \cup Elements(t)
<1> DEFINE r == s \o t
<1>1. /\ r \in Seq(E) /\ Len(r) = Len(s) + Len(t)
      /\ \A i \in 1..Len(s) + Len(t) : r[i] = IF i <= Len(s) THEN s[i] ELSE t[i - Len(s)]
  BY ConcatProperties
<1>2. Len(s) \in Nat /\ Len(t) \in Nat
  BY LenProperties
<1> HIDE DEF r
<1>3. ASSUME NEW x \in Elements(r) PROVE x \in Elements(s) \cup Elements(t)
  BY <1>1, <1>2 DEF Elements
<1>4. ASSUME NEW i \in 1..Len(s) PROVE s[i] \in Elements(r)
  <2>1. i \in 1..Len(s) + Len(t) /\ r[i] = s[i]
    BY <1>1, <1>2
  <2> QED
    BY <1>1, <2>1 DEF Elements
<1>5. ASSUME NEW i \in 1..Len(t) PROVE t[i] \in Elements(r)
  <2>1. Len(s) + i \in 1..Len(s) + Len(t) /\ r[Len(s) + i] = t[i]
    BY <1>1, <1>2
  <2> QED
    BY <1>1, <2>1 DEF Elements
<1>6. Elements(s) \subseteq Elements(r) /\ Elements(t) \subseteq Elements(r)
  BY <1>4, <1>5 DEF Elements
<1> QED
  BY <1>1, <1>3, <1>6 DEF r

\* ... and collects the elements of all its sequences.
LEMMA FlattenLemma ==
  ASSUME NEW E, NEW ss \in Seq(Seq(E))
  PROVE  /\ FlattenSeq(ss) \in Seq(E)
         /\ \A x : x \in Elements(FlattenSeq(ss)) <=> \E i \in 1..Len(ss) : x \in Elements(ss[i])
<1>1. Len(ss) \in Nat /\ \A i \in 1..Len(ss) : ss[i] \in Seq(E)
  BY LenProperties, ElementOfSeq
<1>2. CASE Len(ss) = 0
  <2>1. ss = <<>> /\ FlattenSeq(ss) = <<>>
    BY <1>2, EmptySeq DEF FlattenSeq
  <2>2. <<>> \in Seq(E) /\ Elements(<<>>) = {}
    BY DEF Elements
  <2>3. 1..Len(ss) = {}
    BY <1>2
  <2>4. FlattenSeq(ss) \in Seq(E)
    BY <2>1, <2>2
  <2>5. Elements(FlattenSeq(ss)) = {}
    BY <2>1, <2>2
  <2> QED
    BY <2>3, <2>4, <2>5
<1>3. CASE Len(ss) # 0
  <2> DEFINE f == Flattened(ss)
             Good(n) == /\ f[n] \in Seq(E)
                        /\ \A x : x \in Elements(f[n]) <=> \E i \in 1..n : x \in Elements(ss[i])
             T == {n \in Nat : n + 1 \in 1..Len(ss) => Good(n + 1)}
  <2>1. \A k \in 1..Len(ss) : f[k] = IF k = 1 THEN ss[k] ELSE f[k - 1] \o ss[k]
    BY FlattenRuns
  <2>2. FlattenSeq(ss) = f[Len(ss)]
    BY <1>3 DEF FlattenSeq, Flattened
  <2> HIDE DEF f
  <2>3. 0 \in T
    <3>1. f[1] = ss[1] /\ ss[1] \in Seq(E) /\ 1..1 = {1}
      BY <1>1, <1>3, <2>1
    <3> QED
      BY <3>1
  <2>4. ASSUME NEW n \in Nat, n \in T PROVE n + 1 \in T
    <3>0. (n + 1) + 1 = n + 2
      OBVIOUS
    <3> SUFFICES ASSUME n + 2 \in 1..Len(ss) PROVE Good(n + 2)
      BY <3>0
    <3>1. Good(n + 1)
      BY <1>1, <2>4
    <3>2. f[n + 2] = f[n + 1] \o ss[n + 2] /\ ss[n + 2] \in Seq(E)
      <4>1. (n + 2) - 1 = n + 1 /\ n + 2 # 1
        OBVIOUS
      <4> QED
        BY <1>1, <2>1, <4>1
    <3>3. f[n + 2] \in Seq(E) /\ Elements(f[n + 2]) = Elements(f[n + 1]) \cup Elements(ss[n + 2])
      BY <3>1, <3>2, ConcatElements
    <3>4. 1..(n + 2) = 1..(n + 1) \cup {n + 2}
      OBVIOUS
    <3> QED
      BY <3>1, <3>3, <3>4
  <2>5. Len(ss) - 1 \in T
    <3>1. Len(ss) - 1 \in Nat
      BY <1>1, <1>3
    <3> HIDE DEF T
    <3> QED
      BY <2>3, <2>4, <3>1, Induction
  <2>6. Good(Len(ss))
    <3>1. (Len(ss) - 1) + 1 = Len(ss) /\ Len(ss) \in 1..Len(ss)
      BY <1>1, <1>3
    <3> QED
      BY <2>5, <3>1
  <2> QED
    BY <2>2, <2>6
<1> QED
  BY <1>2, <1>3

\* The orders of a finite set name all its elements.
LEMMA OrderLemma ==
  ASSUME NEW S, IsFiniteSet(S), NEW q \in SetToSeqs(S)
  PROVE  q \in Seq(S) /\ Elements(q) = S
<1> DEFINE n == Cardinality(S)
<1>1. n \in Nat /\ q \in [1..n -> S] /\ \A i, j \in 1..n : i # j => q[i] # q[j]
  BY FS_CardinalityType DEF SetToSeqs
<1>2. q \in Injection(1..n, S)
  BY <1>1 DEF Injection, IsInjective
<1>3. IsFiniteSet(1..n) /\ Cardinality(1..n) = n
  BY <1>1, FS_Interval
<1>4. q \in Surjection(1..n, S)
  BY <1>2, <1>3, FS_Injection
<1>5. q \in Seq(S) /\ Len(q) = n
  BY <1>1, IsASeq
<1> QED
  BY <1>1, <1>4, <1>5 DEF Elements, Surjection

-----------------------------------------------------------------------------
(* LeaseSync: the leases and the events on their way to them *)

PeerLeases == {NodeToLease(n, o) : n \in Nodes, o \in PeerObjects}
PeerEvents == {Added(l) : l \in PeerLeases} \cup {Removed(l) : l \in PeerLeases}

LEMMA PeerLemma ==
  ASSUME NEW l \in PeerLeases
  PROVE  /\ l.subnet \in Cidrs
         /\ ~IsOwn(OwnLease, l)
         /\ \A h \in PeerLeases : Matches(h, l) <=> h.subnet = l.subnet
<1>1. \A h \in PeerLeases : h.v4 = TRUE /\ h.v6 = FALSE /\ h.subnet \in Cidrs
  BY DEF PeerLeases, PeerObjects, NodeToLease
<1>2. ~IsOwn(OwnLease, l)
  BY <1>1, OwnCidrAssumption DEF IsOwn, SameSubnet, OwnLease
<1>3. \A h \in PeerLeases : Matches(h, l) <=> h.subnet = l.subnet
  BY <1>1 DEF Matches, SameSubnet
<1> QED
  BY <1>1, <1>2, <1>3

LEMMA PeerEventLemma ==
  ASSUME NEW e \in PeerEvents
  PROVE  /\ e.lease \in PeerLeases
         /\ e = IF e.type = "Added" THEN Added(e.lease) ELSE Removed(e.lease)
         /\ e.type # "Added" => e.type = "Removed"
BY DEF PeerEvents, Added, Removed

\* One lease for each subnet.
Once(ls) == \A i, j \in 1..Len(ls) : ls[i].subnet = ls[j].subnet => i = j
Without(ls, c) == {h \in Elements(ls) : h.subnet # c}

LEMMA FindLemma ==
  ASSUME NEW ls \in Seq(PeerLeases), NEW l \in PeerLeases
  PROVE  \/ Find(ls, l) = 0 /\ \A i \in 1..Len(ls) : ls[i].subnet # l.subnet
         \/ Find(ls, l) \in 1..Len(ls) /\ ls[Find(ls, l)].subnet = l.subnet
<1> DEFINE I == {i \in 1..Len(ls) : Matches(ls[i], l)}
<1>1. Find(ls, l) = IF I # {} THEN Min(I) ELSE 0
  BY DEF Find, SelectInSeq
<1>2. \A i \in 1..Len(ls) : Matches(ls[i], l) <=> ls[i].subnet = l.subnet
  BY ElementOfSeq, PeerLemma
<1>3. Len(ls) \in Nat
  BY LenProperties
<1>4. CASE I = {}
  BY <1>1, <1>2, <1>4
<1>5. CASE I # {}
  <2>1. \E x \in I : \A y \in I : x <= y
    <3>1. I \in SUBSET Nat
      BY <1>3
    <3> HIDE DEF I
    <3> QED
      BY <1>5, <3>1, Least
  <2>2. Min(I) \in I
    <3> HIDE DEF I
    <3> QED
      BY <2>1 DEF Min
  <2> QED
    BY <1>1, <1>2, <1>5, <2>2
<1> QED
  BY <1>4, <1>5

LEMMA RemoveAtLemma ==
  ASSUME NEW S, NEW ls \in Seq(S), Once(ls), NEW i \in 1..Len(ls)
  PROVE  /\ RemoveAt(ls, i) \in Seq(S)
         /\ Once(RemoveAt(ls, i))
         /\ Elements(RemoveAt(ls, i)) = Without(ls, ls[i].subnet)
<1> DEFINE n == Len(ls)
           a == SubSeq(ls, 1, i - 1)
           b == SubSeq(ls, i + 1, n)
           r == a \o b
<1>1. n \in Nat /\ i \in 1..n /\ i \in Nat /\ \A j \in 1..n : ls[j] \in S
  BY LenProperties, ElementOfSeq
<1>2. /\ a \in Seq(S) /\ Len(a) = i - 1
      /\ \A j \in 1..(i - 1) : a[j] = ls[j]
  <2>1. \A j \in 1..(i - 1) : ls[j] \in S
    BY <1>1
  <2> QED
    BY <1>1, <2>1, SubSeqProperties
<1>3. /\ b \in Seq(S) /\ Len(b) = n - i
      /\ \A j \in 1..(n - i) : b[j] = ls[i + j]
  <2>1. \A j \in (i + 1)..n : ls[j] \in S
    BY <1>1
  <2> QED
    BY <1>1, <2>1, SubSeqProperties
<1> HIDE DEF n, a, b
<1>4. /\ r \in Seq(S) /\ Len(r) = Len(a) + Len(b)
      /\ \A j \in 1..Len(a) + Len(b) : r[j] = IF j <= Len(a) THEN a[j] ELSE b[j - Len(a)]
  BY <1>2, <1>3, ConcatProperties
<1> HIDE DEF r
<1>5. /\ Len(r) = n - 1
      /\ \A j \in 1..(n - 1) : r[j] = IF j < i THEN ls[j] ELSE ls[j + 1]
  BY <1>1, <1>2, <1>3, <1>4
<1>6. RemoveAt(ls, i) = r
  BY DEF RemoveAt, r, a, b, n
<1>7. Once(r)
  BY <1>1, <1>5 DEF Once, n
<1>8. Elements(r) = Without(ls, ls[i].subnet)
  <2>1. ASSUME NEW h \in Elements(r) PROVE h \in Without(ls, ls[i].subnet)
    <3>1. PICK j \in 1..(n - 1) : h = r[j]
      BY <1>5 DEF Elements
    <3>2. PICK k \in 1..n : h = ls[k] /\ k # i
      <4>1. CASE j < i
        <5>1. j \in 1..n /\ j # i /\ h = ls[j]
          BY <1>1, <1>5, <3>1, <4>1
        <5> QED
          BY <5>1
      <4>2. CASE j >= i
        <5>1. j + 1 \in 1..n /\ j + 1 # i /\ h = ls[j + 1]
          BY <1>1, <1>5, <3>1, <4>2
        <5> QED
          BY <5>1
      <4> QED
        BY <1>1, <3>1, <4>1, <4>2
    <3>3. ls[k].subnet # ls[i].subnet
      BY <1>1, <3>2 DEF Once, n
    <3> QED
      BY <3>2, <3>3 DEF Without, Elements, n
  <2>2. ASSUME NEW h \in Without(ls, ls[i].subnet) PROVE h \in Elements(r)
    <3>1. PICK k \in 1..n : h = ls[k] /\ k # i
      BY DEF Without, Elements, n
    <3>2. PICK j \in 1..(n - 1) : h = r[j]
      <4>1. CASE k < i
        BY <1>1, <1>5, <3>1, <4>1
      <4>2. CASE k > i
        <5>1. k - 1 \in 1..(n - 1) /\ r[k - 1] = ls[k]
          BY <1>1, <1>5, <4>2
        <5> QED
          BY <3>1, <5>1
      <4> QED
        BY <1>1, <3>1, <4>1, <4>2
    <3> QED
      BY <1>5, <3>2 DEF Elements
  <2> QED
    BY <2>1, <2>2
<1> QED
  BY <1>4, <1>6, <1>7, <1>8

\* The list after one event has its lease in the place of the one with its
\* subnet, or that one taken out.
Applied(ls, e) == LWUpdate(OwnLease, ls, <<e>>).leases

LEMMA AppliedStep ==
  ASSUME NEW ls, NEW e, ~IsOwn(OwnLease, e.lease)
  PROVE  Applied(ls, e) = IF e.type = "Added" THEN LWAdd(ls, e.lease).leases
                                              ELSE LWRemove(ls, e.lease).leases
<1> DEFINE b == [leases |-> ls, batch |-> <<>>]
           F(f, k) == IF k = 0 THEN b ELSE LWStep(OwnLease, f[k - 1], <<e>>[k])
           steps == CHOOSE f : f = [k \in 0..Len(<<e>>) |-> F(f, k)]
           g == [k \in 0..1 |-> IF k = 0 THEN b ELSE LWStep(OwnLease, b, e)]
<1>1. Len(<<e>>) = 1 /\ <<e>>[1] = e
  OBVIOUS
<1>2. \A k \in 0..1 : g[k] = F(g, k)
  <2> HIDE DEF b
  <2>1. g[0] = b /\ g[1] = LWStep(OwnLease, b, e)
    OBVIOUS
  <2>2. F(g, 0) = b
    OBVIOUS
  <2>3. F(g, 1) = LWStep(OwnLease, g[0], e)
    BY <1>1
  <2> HIDE DEF g, F
  <2>4. 0..1 = {0, 1}
    OBVIOUS
  <2> QED
    BY <2>1, <2>2, <2>3, <2>4
<1>3. g = [k \in 0..Len(<<e>>) |-> F(g, k)]
  <2> HIDE DEF F, b
  <2>1. g = [k \in 0..1 |-> g[k]]
    OBVIOUS
  <2> HIDE DEF g
  <2> QED
    BY <1>1, <1>2, <2>1
<1>4. steps = [k \in 0..Len(<<e>>) |-> F(steps, k)]
  <2> HIDE DEF F, g
  <2> QED
    BY <1>3
<1>5. steps[0] = b /\ steps[1] = LWStep(OwnLease, b, e)
  <2> HIDE DEF steps, b
  <2>1. steps[0] = F(steps, 0) /\ steps[1] = F(steps, 1)
    <3> HIDE DEF F
    <3> QED
      BY <1>1, <1>4
  <2> QED
    BY <1>1, <2>1
<1>6. LWUpdate(OwnLease, ls, <<e>>) = steps[1]
  BY <1>1 DEF LWUpdate
<1> HIDE DEF steps
<1>7. b.leases = ls
  OBVIOUS
<1> HIDE DEF b
<1> QED
  BY <1>5, <1>6, <1>7 DEF LWStep, Applied

LEMMA AppliedLemma ==
  ASSUME NEW ls \in Seq(PeerLeases), Once(ls), NEW e \in PeerEvents
  PROVE  /\ Applied(ls, e) \in Seq(PeerLeases)
         /\ Once(Applied(ls, e))
         /\ Elements(Applied(ls, e))
              = Without(ls, e.lease.subnet) \cup (IF e.type = "Added" THEN {e.lease} ELSE {})
<1> DEFINE l == e.lease
           r == Applied(ls, e)
<1>1. l \in PeerLeases /\ ~IsOwn(OwnLease, l)
  BY PeerEventLemma, PeerLemma
<1>2. r = IF e.type = "Added" THEN LWAdd(ls, l).leases ELSE LWRemove(ls, l).leases
  BY <1>1, AppliedStep
<1> HIDE DEF r
<1>3. \/ Find(ls, l) = 0 /\ \A i \in 1..Len(ls) : ls[i].subnet # l.subnet
      \/ Find(ls, l) \in 1..Len(ls) /\ ls[Find(ls, l)].subnet = l.subnet
  BY <1>1, FindLemma
<1>4. Len(ls) \in Nat /\ 0 \notin 1..Len(ls)
  BY LenProperties
<1>5. CASE e.type = "Added" /\ Find(ls, l) = 0
  <2> DEFINE n == Len(ls)
  <2>1. r = Append(ls, l)
    BY <1>2, <1>5 DEF LWAdd
  <2>2. /\ r \in Seq(PeerLeases) /\ Len(r) = n + 1
        /\ \A i \in 1..n : r[i] = ls[i]
        /\ r[n + 1] = l
    BY <1>1, <2>1, AppendProperties
  <2>3. 1..(n + 1) = 1..n \cup {n + 1}
    BY <1>4
  <2>4. \A i \in 1..n : ls[i].subnet # l.subnet
    BY <1>3, <1>4, <1>5
  <2>5. Once(r)
    BY <1>4, <2>2, <2>4 DEF Once
  <2>6. Elements(r) = Without(ls, l.subnet) \cup {l}
    BY <2>2, <2>3, <2>4 DEF Elements, Without
  <2> QED
    BY <1>5, <2>2, <2>5, <2>6 DEF r
<1>6. CASE e.type = "Added" /\ Find(ls, l) # 0
  <2> DEFINE i == Find(ls, l)
             s == [ls EXCEPT ![i] = l]
  <2>1. i \in 1..Len(ls) /\ ls[i].subnet = l.subnet
    BY <1>3, <1>6
  <2>2. r = s
    BY <1>2, <1>6 DEF LWAdd, ReplaceAt
  <2> HIDE DEF i
  <2>3. /\ s \in Seq(PeerLeases) /\ Len(s) = Len(ls)
        /\ \A j \in 1..Len(ls) : s[j] = IF j = i THEN l ELSE ls[j]
    BY <1>1, <2>1, ExceptSeq
  <2> HIDE DEF s
  <2>4. Once(s)
    BY <2>1, <2>3 DEF Once
  <2>5. Elements(s) = Without(ls, l.subnet) \cup {l}
    BY <2>1, <2>3 DEF Elements, Without, Once
  <2> QED
    BY <1>6, <2>2, <2>3, <2>4, <2>5 DEF r
<1>7. CASE e.type # "Added" /\ Find(ls, l) = 0
  <2>1. r = ls
    BY <1>2, <1>7 DEF LWRemove
  <2>2. Elements(ls) = Without(ls, l.subnet)
    BY <1>3, <1>4, <1>7 DEF Elements, Without
  <2> QED
    BY <1>7, <2>1, <2>2 DEF r
<1>8. CASE e.type # "Added" /\ Find(ls, l) # 0
  <2>1. r = RemoveAt(ls, Find(ls, l))
    BY <1>2, <1>8 DEF LWRemove
  <2>2. Find(ls, l) \in 1..Len(ls) /\ ls[Find(ls, l)].subnet = l.subnet
    BY <1>3, <1>8
  <2> QED
    BY <1>8, <2>1, <2>2, RemoveAtLemma DEF r
<1> QED
  BY <1>5, <1>6, <1>7, <1>8

\* Once the events s are applied to the leases ls, the lease l is among them:
\* the last event about its subnet adds it, or there is none and it is.
Holds(s, ls, l) ==
  \/ \E i \in 1..Len(s) :
       s[i] = Added(l) /\ \A j \in (i + 1)..Len(s) : s[j].lease.subnet # l.subnet
  \/ (\A i \in 1..Len(s) : s[i].lease.subnet # l.subnet) /\ l \in Elements(ls)

\* Once the events s are applied to ls, no lease has the subnet c.
Silent(s, ls, c) ==
  \/ \E i \in 1..Len(s) :
       /\ s[i].type = "Removed" /\ s[i].lease.subnet = c
       /\ \A j \in (i + 1)..Len(s) : s[j].lease.subnet # c
  \/ (\A i \in 1..Len(s) : s[i].lease.subnet # c) /\ \A l \in Elements(ls) : l.subnet # c

\* The watcher applies the first event.
LEMMA HoldsTail ==
  ASSUME NEW s \in Seq(PeerEvents), s # <<>>, NEW ls \in Seq(PeerLeases), Once(ls),
         NEW l, Holds(s, ls, l)
  PROVE  Holds(Tail(s), Applied(ls, Head(s)), l)
<1> DEFINE t == Tail(s)
           n == Len(s)
           e == s[1]
           r == Applied(ls, e)
<1>1. /\ n \in Nat \ {0} /\ Len(t) = n - 1 /\ \A i \in 1..(n - 1) : t[i] = s[i + 1]
      /\ Head(s) = e /\ e \in PeerEvents
  BY EmptySeq, LenProperties, HeadTailProperties, ElementOfSeq
<1>2. Elements(r) = Without(ls, e.lease.subnet) \cup (IF e.type = "Added" THEN {e.lease} ELSE {})
  BY <1>1, AppliedLemma
<1> HIDE DEF t, n, r, e
<1> SUFFICES Holds(t, r, l)
  BY <1>1 DEF t, r
<1>3. ASSUME NEW i \in 1..n, s[i] = Added(l), \A j \in (i + 1)..n : s[j].lease.subnet # l.subnet
      PROVE  Holds(t, r, l)
  <2>1. CASE i = 1
    <3>0. \A k \in 1..Len(t) : k + 1 \in (i + 1)..n /\ t[k] = s[k + 1]
      BY <1>1, <2>1
    <3>1. \A k \in 1..Len(t) : t[k].lease.subnet # l.subnet
      BY <1>3, <3>0
    <3>2. e.type = "Added" /\ e.lease = l
      BY <1>3, <2>1 DEF Added, e
    <3> QED
      BY <1>2, <3>1, <3>2 DEF Holds
  <2>2. CASE i # 1
    <3>1. i - 1 \in 1..Len(t) /\ t[i - 1] = Added(l)
      BY <1>1, <1>3, <2>2
    <3>0. \A k \in ((i - 1) + 1)..Len(t) : k + 1 \in (i + 1)..n /\ t[k] = s[k + 1]
      BY <1>1, <2>2
    <3>2. \A k \in ((i - 1) + 1)..Len(t) : t[k].lease.subnet # l.subnet
      BY <1>3, <3>0
    <3> QED
      BY <3>1, <3>2 DEF Holds
  <2> QED
    BY <2>1, <2>2
<1>4. ASSUME \A i \in 1..n : s[i].lease.subnet # l.subnet, l \in Elements(ls)
      PROVE  Holds(t, r, l)
  <2>0. \A k \in 1..Len(t) : k + 1 \in 1..n /\ t[k] = s[k + 1]
    BY <1>1
  <2>1. \A k \in 1..Len(t) : t[k].lease.subnet # l.subnet
    BY <1>4, <2>0
  <2>2. l \in Without(ls, e.lease.subnet)
    BY <1>1, <1>4 DEF Without, e
  <2> QED
    BY <1>2, <2>1, <2>2 DEF Holds
<1> QED
  BY <1>3, <1>4 DEF Holds, n

LEMMA SilentTail ==
  ASSUME NEW s \in Seq(PeerEvents), s # <<>>, NEW ls \in Seq(PeerLeases), Once(ls),
         NEW c, Silent(s, ls, c)
  PROVE  Silent(Tail(s), Applied(ls, Head(s)), c)
<1> DEFINE t == Tail(s)
           n == Len(s)
           e == s[1]
           r == Applied(ls, e)
<1>1. /\ n \in Nat \ {0} /\ Len(t) = n - 1 /\ \A i \in 1..(n - 1) : t[i] = s[i + 1]
      /\ Head(s) = e /\ e \in PeerEvents
  BY EmptySeq, LenProperties, HeadTailProperties, ElementOfSeq
<1>2. Elements(r) = Without(ls, e.lease.subnet) \cup (IF e.type = "Added" THEN {e.lease} ELSE {})
  BY <1>1, AppliedLemma
<1> HIDE DEF t, n, r, e
<1> SUFFICES Silent(t, r, c)
  BY <1>1 DEF t, r
<1>3. ASSUME NEW i \in 1..n, s[i].type = "Removed", s[i].lease.subnet = c,
             \A j \in (i + 1)..n : s[j].lease.subnet # c
      PROVE  Silent(t, r, c)
  <2>1. CASE i = 1
    <3>0. \A k \in 1..Len(t) : k + 1 \in (i + 1)..n /\ t[k] = s[k + 1]
      BY <1>1, <2>1
    <3>1. \A k \in 1..Len(t) : t[k].lease.subnet # c
      BY <1>3, <3>0
    <3>2. e.type = "Removed" /\ e.lease.subnet = c
      BY <1>3, <2>1 DEF e
    <3>3. \A l \in Elements(r) : l.subnet # c
      BY <1>2, <3>2 DEF Without
    <3> QED
      BY <3>1, <3>3 DEF Silent
  <2>2. CASE i # 1
    <3>1. i - 1 \in 1..Len(t) /\ t[i - 1].type = "Removed" /\ t[i - 1].lease.subnet = c
      BY <1>1, <1>3, <2>2
    <3>0. \A k \in ((i - 1) + 1)..Len(t) : k + 1 \in (i + 1)..n /\ t[k] = s[k + 1]
      BY <1>1, <2>2
    <3>2. \A k \in ((i - 1) + 1)..Len(t) : t[k].lease.subnet # c
      BY <1>3, <3>0
    <3> QED
      BY <3>1, <3>2 DEF Silent
  <2> QED
    BY <2>1, <2>2
<1>4. ASSUME \A i \in 1..n : s[i].lease.subnet # c, \A l \in Elements(ls) : l.subnet # c
      PROVE  Silent(t, r, c)
  <2>0. \A k \in 1..Len(t) : k + 1 \in 1..n /\ t[k] = s[k + 1]
    BY <1>1
  <2>1. \A k \in 1..Len(t) : t[k].lease.subnet # c
    BY <1>4, <2>0
  <2>2. e.lease.subnet # c
    BY <1>1, <1>4 DEF e
  <2>3. \A l \in Elements(r) : l.subnet # c
    BY <1>2, <1>4, <2>2 DEF Without
  <2> QED
    BY <2>1, <2>3 DEF Silent
<1> QED
  BY <1>3, <1>4 DEF Silent, n

LEMMA Greatest ==
  ASSUME NEW n \in Nat, NEW I \in SUBSET (1..n), I # {}
  PROVE  \E i \in I : \A j \in (i + 1)..n : j \notin I
<1> DEFINE T == {k \in Nat : \E i \in I : k = n - i}
<1>1. T # {}
  <2>1. PICK i \in I : TRUE
    OBVIOUS
  <2>2. n - i \in Nat
    OBVIOUS
  <2> QED
    BY <2>2
<1>2. PICK k \in T : \A m \in T : k <= m
  <2> HIDE DEF T
  <2>1. T \in SUBSET Nat
    BY DEF T
  <2> QED
    BY <1>1, <2>1, Least
<1>3. PICK i \in I : k = n - i
  OBVIOUS
<1>4. ASSUME NEW j \in (i + 1)..n, j \in I PROVE FALSE
  <2>1. n - j \in T /\ n - j < k
    BY <1>3, <1>4
  <2> QED
    BY <1>2, <2>1
<1> QED
  BY <1>4

\* Events join at the end: none about the subnet, or only its addition.
LEMMA HoldsAppend ==
  ASSUME NEW s \in Seq(PeerEvents), NEW t \in Seq(PeerEvents), NEW ls, NEW l,
         \A x \in Elements(t) : x.lease.subnet = l.subnet => x = Added(l),
         Holds(s, ls, l) \/ Added(l) \in Elements(t)
  PROVE  Holds(s \o t, ls, l)
<1> DEFINE r == s \o t
           n == Len(s)
           I == {i \in 1..Len(t) : t[i].lease.subnet = l.subnet}
<1>1. /\ n \in Nat /\ Len(t) \in Nat /\ Len(r) = n + Len(t)
      /\ \A i \in 1..n : r[i] = s[i]
      /\ \A i \in 1..Len(t) : r[n + i] = t[i]
  BY LenProperties, ConcatProperties
<1> HIDE DEF r, n
<1> SUFFICES Holds(r, ls, l)
  BY DEF r
<1>2. CASE I # {}
  <2>1. PICK i \in I : \A j \in (i + 1)..Len(t) : j \notin I
    BY <1>1, <1>2, Greatest
  <2>2. n + i \in 1..Len(r) /\ r[n + i] = Added(l)
    BY <1>1 DEF Elements
  <2>3. ASSUME NEW j \in (n + i + 1)..Len(r) PROVE r[j].lease.subnet # l.subnet
    <3>1. j - n \in (i + 1)..Len(t) /\ j - n \in 1..Len(t) /\ r[j] = t[j - n]
      <4>1. j - n \in (i + 1)..Len(t) /\ j - n \in 1..Len(t) /\ n + (j - n) = j
        BY <1>1
      <4> QED
        BY <1>1, <4>1
    <3> QED
      BY <2>1, <3>1
  <2> QED
    BY <2>2, <2>3 DEF Holds
<1>3. CASE I = {}
  <2>1. Holds(s, ls, l)
    BY <1>3 DEF Elements, Added
  <2>2. ASSUME NEW i \in (n + 1)..Len(r) PROVE r[i].lease.subnet # l.subnet
    <3>1. i - n \in 1..Len(t) /\ n + (i - n) = i
      BY <1>1
    <3> QED
      BY <1>1, <1>3, <3>1
  <2>3. ASSUME NEW i \in 1..n, s[i] = Added(l), \A j \in (i + 1)..n : s[j].lease.subnet # l.subnet
        PROVE  Holds(r, ls, l)
    <3>1. i \in 1..Len(r) /\ r[i] = Added(l)
      BY <1>1, <2>3
    <3>2. \A j \in (i + 1)..Len(r) : r[j].lease.subnet # l.subnet
      BY <1>1, <2>2, <2>3
    <3> QED
      BY <3>1, <3>2 DEF Holds
  <2>4. ASSUME \A i \in 1..n : s[i].lease.subnet # l.subnet, l \in Elements(ls)
        PROVE  Holds(r, ls, l)
    <3>1. \A i \in 1..Len(r) : r[i].lease.subnet # l.subnet
      BY <1>1, <2>2, <2>4
    <3> QED
      BY <2>4, <3>1 DEF Holds
  <2> QED
    BY <2>1, <2>3, <2>4 DEF Holds, n
<1> QED
  BY <1>2, <1>3

LEMMA SilentAppend ==
  ASSUME NEW s \in Seq(PeerEvents), NEW t \in Seq(PeerEvents), NEW ls, NEW c,
         \A x \in Elements(t) : x.lease.subnet = c => x.type = "Removed",
         Silent(s, ls, c) \/ \E x \in Elements(t) : x.lease.subnet = c
  PROVE  Silent(s \o t, ls, c)
<1> DEFINE r == s \o t
           n == Len(s)
           I == {i \in 1..Len(t) : t[i].lease.subnet = c}
<1>1. /\ n \in Nat /\ Len(t) \in Nat /\ Len(r) = n + Len(t)
      /\ \A i \in 1..n : r[i] = s[i]
      /\ \A i \in 1..Len(t) : r[n + i] = t[i]
  BY LenProperties, ConcatProperties
<1> HIDE DEF r, n
<1> SUFFICES Silent(r, ls, c)
  BY DEF r
<1>2. CASE I # {}
  <2>1. PICK i \in I : \A j \in (i + 1)..Len(t) : j \notin I
    BY <1>1, <1>2, Greatest
  <2>2. n + i \in 1..Len(r) /\ r[n + i].type = "Removed" /\ r[n + i].lease.subnet = c
    BY <1>1 DEF Elements
  <2>3. ASSUME NEW j \in (n + i + 1)..Len(r) PROVE r[j].lease.subnet # c
    <3>1. j - n \in (i + 1)..Len(t) /\ j - n \in 1..Len(t) /\ r[j] = t[j - n]
      <4>1. j - n \in (i + 1)..Len(t) /\ j - n \in 1..Len(t) /\ n + (j - n) = j
        BY <1>1
      <4> QED
        BY <1>1, <4>1
    <3> QED
      BY <2>1, <3>1
  <2> QED
    BY <2>2, <2>3 DEF Silent
<1>3. CASE I = {}
  <2>1. Silent(s, ls, c)
    BY <1>3 DEF Elements
  <2>2. ASSUME NEW i \in (n + 1)..Len(r) PROVE r[i].lease.subnet # c
    <3>1. i - n \in 1..Len(t) /\ n + (i - n) = i
      BY <1>1
    <3> QED
      BY <1>1, <1>3, <3>1
  <2>3. ASSUME NEW i \in 1..n, s[i].type = "Removed", s[i].lease.subnet = c,
               \A j \in (i + 1)..n : s[j].lease.subnet # c
        PROVE  Silent(r, ls, c)
    <3>1. i \in 1..Len(r) /\ r[i] = s[i]
      BY <1>1, <2>3
    <3>2. \A j \in (i + 1)..Len(r) : r[j].lease.subnet # c
      BY <1>1, <2>2, <2>3
    <3> QED
      BY <2>3, <3>1, <3>2 DEF Silent
  <2>4. ASSUME \A i \in 1..n : s[i].lease.subnet # c, \A l \in Elements(ls) : l.subnet # c
        PROVE  Silent(r, ls, c)
    <3>1. \A i \in 1..Len(r) : r[i].lease.subnet # c
      BY <1>1, <2>2, <2>4
    <3> QED
      BY <2>4, <3>1 DEF Silent
  <2> QED
    BY <2>1, <2>3, <2>4 DEF Silent, n
<1> QED
  BY <1>2, <1>3

\* The events between the informer and the watcher, oldest first.
Pipe == feed \o (queue \o todo)

\* An event moves on: from the front of one part to the end of the one before.
LEMMA MoveLemma ==
  ASSUME NEW E, NEW s \in Seq(E), NEW t \in Seq(E), t # <<>>
  PROVE  Append(s, Head(t)) \o Tail(t) = s \o t
<1> DEFINE a == Append(s, Head(t)) \o Tail(t)
           b == s \o t
           n == Len(s)
<1>1. /\ n \in Nat /\ Len(t) \in Nat \ {0} /\ Head(t) \in E /\ Tail(t) \in Seq(E) /\ Head(t) = t[1]
      /\ Len(Tail(t)) = Len(t) - 1 /\ \A i \in 1..(Len(t) - 1) : Tail(t)[i] = t[i + 1]
  BY LenProperties, EmptySeq, HeadTailProperties
<1>2. /\ Append(s, Head(t)) \in Seq(E) /\ Len(Append(s, Head(t))) = n + 1
      /\ \A i \in 1..n : Append(s, Head(t))[i] = s[i]
      /\ Append(s, Head(t))[n + 1] = t[1]
  BY <1>1, AppendProperties
<1>3. /\ b \in Seq(E) /\ Len(b) = n + Len(t)
      /\ \A i \in 1..(n + Len(t)) : b[i] = IF i <= n THEN s[i] ELSE t[i - n]
  BY ConcatProperties
<1> DEFINE p == Append(s, Head(t))
           q == Tail(t)
<1> HIDE DEF p, q
<1>4. /\ a \in Seq(E) /\ Len(a) = n + Len(t)
      /\ \A i \in 1..(n + Len(t)) : a[i] = IF i <= n + 1 THEN p[i] ELSE q[i - (n + 1)]
  <2>1. a = p \o q /\ p \in Seq(E) /\ q \in Seq(E) /\ Len(p) = n + 1 /\ Len(q) = Len(t) - 1
    BY <1>1, <1>2 DEF p, q
  <2> HIDE DEF a
  <2>2. /\ a \in Seq(E) /\ Len(a) = Len(p) + Len(q)
        /\ \A i \in 1..Len(p) + Len(q) : a[i] = IF i <= Len(p) THEN p[i] ELSE q[i - Len(p)]
    BY <2>1, ConcatProperties
  <2>3. Len(p) + Len(q) = n + Len(t)
    BY <1>1, <2>1
  <2> QED
    BY <2>1, <2>2, <2>3
<1>5. ASSUME NEW i \in 1..(n + Len(t)) PROVE a[i] = b[i]
  <2> HIDE DEF a, b
  <2>1. CASE i <= n
    <3>1. i \in 1..n /\ i <= n + 1
      BY <1>1, <2>1
    <3>2. p[i] = s[i]
      BY <1>2, <3>1 DEF p
    <3> QED
      BY <1>3, <1>4, <2>1, <3>1, <3>2
  <2>2. CASE i = n + 1
    <3>1. i - n = 1 /\ ~(i <= n)
      BY <1>1, <2>2
    <3> QED
      BY <1>1, <1>2, <1>3, <1>4, <2>2, <3>1 DEF p
  <2>3. CASE i > n + 1
    <3>1. i - (n + 1) \in 1..(Len(t) - 1) /\ (i - (n + 1)) + 1 = i - n
      BY <1>1, <2>3
    <3>2. q[i - (n + 1)] = t[i - n]
      BY <1>1, <3>1 DEF q
    <3> QED
      BY <1>1, <1>3, <1>4, <2>3, <3>2
  <2> QED
    BY <1>1, <2>1, <2>2, <2>3
<1> HIDE DEF a, b
<1>6. a = b
  BY <1>3, <1>4, <1>5, SeqEqual
<1> QED
  BY <1>6 DEF a, b

LEMMA FrontLemma ==
  ASSUME NEW E, NEW s \in Seq(E), NEW t \in Seq(E), s # <<>>
  PROVE  s \o t # <<>> /\ Head(s \o t) = Head(s) /\ Tail(s \o t) = Tail(s) \o t
<1> DEFINE b == s \o t
           n == Len(s)
           a == Tail(s) \o t
<1>1. /\ n \in Nat \ {0} /\ Len(t) \in Nat /\ Head(s) = s[1] /\ Tail(s) \in Seq(E)
      /\ Len(Tail(s)) = n - 1 /\ \A i \in 1..(n - 1) : Tail(s)[i] = s[i + 1]
  BY LenProperties, EmptySeq, HeadTailProperties
<1>2. /\ b \in Seq(E) /\ Len(b) = n + Len(t)
      /\ \A i \in 1..(n + Len(t)) : b[i] = IF i <= n THEN s[i] ELSE t[i - n]
  BY ConcatProperties
<1>3. /\ a \in Seq(E) /\ Len(a) = n - 1 + Len(t)
      /\ \A i \in 1..(n - 1 + Len(t)) : a[i] = IF i <= n - 1 THEN Tail(s)[i] ELSE t[i - (n - 1)]
  BY <1>1, ConcatProperties
<1> HIDE DEF a, b, n
<1>4. b # <<>>
  BY <1>1, <1>2
<1>5. Head(b) = b[1] /\ b[1] = s[1]
  <2>1. 1 \in 1..(n + Len(t)) /\ 1 <= n
    BY <1>1
  <2> QED
    BY <1>2, <1>4, <2>1
<1>6. /\ Tail(b) \in Seq(E) /\ Len(Tail(b)) = n - 1 + Len(t)
      /\ \A i \in 1..(n - 1 + Len(t)) : Tail(b)[i] = b[i + 1]
  <2>1. /\ Tail(b) \in Seq(E) /\ Len(Tail(b)) = Len(b) - 1
        /\ \A i \in 1..Len(Tail(b)) : Tail(b)[i] = b[i + 1]
    BY <1>2, <1>4, HeadTailProperties
  <2>2. Len(b) - 1 = n - 1 + Len(t)
    BY <1>1, <1>2
  <2> QED
    BY <2>1, <2>2
<1>7. ASSUME NEW i \in 1..(n - 1 + Len(t)) PROVE Tail(b)[i] = a[i]
  <2>1. i + 1 \in 1..(n + Len(t)) /\ (i + 1) - n = i - (n - 1) /\ (i + 1 <= n <=> i <= n - 1)
    BY <1>1
  <2>2. b[i + 1] = IF i <= n - 1 THEN s[i + 1] ELSE t[i - (n - 1)]
    BY <1>2, <2>1
  <2>3. i <= n - 1 => Tail(s)[i] = s[i + 1]
    BY <1>1
  <2> QED
    BY <1>3, <1>6, <2>2, <2>3
<1>8. Tail(b) = a
  BY <1>3, <1>6, <1>7, SeqEqual
<1> QED
  BY <1>1, <1>4, <1>5, <1>8 DEF a, b

-----------------------------------------------------------------------------
(* LeaseSync: what the informer announces *)

\* A watch event is announced when it changes what peers are to know.
LEMMA DispatchEvents ==
  ASSUME SyncInv, Dispatch
  PROVE  LET e == log[rv + 1]
             o == e.object
             old == store[e.node]
             l == NodeToLease(e.node, o)
         IN  /\ old = o \/ e.type # "Deleted"
             /\ e.type = "Deleted" \/ old = NoNode \/ old.cidr = o.cidr
             /\ todo' = IF e.type = "Deleted"
                        THEN IF Leasable(o) THEN <<Removed(l)>> ELSE <<>>
                        ELSE IF Leasable(o) /\ old.attrs # o.attrs THEN <<Added(l)>> ELSE <<>>
<1> DEFINE e == log[rv + 1]
           o == e.object
           old == store[e.node]
           l == NodeToLease(e.node, o)
<1>1. rv \in Nat /\ rv + 1 \in 1..Len(log) /\ e \in Changes
  BY DispatchLemma
<1>2. Follows(log, rv + 1) /\ Leaves(log, e.node, old, rv) /\ (rv + 1) - 1 = rv
  BY <1>1 DEF SyncInv, LogInv, StoreInv, Changes
<1>3. e.type = "Added" => old = NoNode
  BY <1>1, <1>2, LeavesOne DEF Follows
<1>4. e.type = "Deleted" => old = o
  BY <1>1, <1>2, LeavesOne DEF Follows
<1>5. e.type = "Modified" => old # NoNode /\ old.cidr = o.cidr
  <2> SUFFICES ASSUME e.type = "Modified" PROVE old # NoNode /\ old.cidr = o.cidr
    OBVIOUS
  <2>1. PICK p : p # NoNode /\ p.cidr = o.cidr /\ Leaves(log, e.node, p, rv)
    BY <1>2 DEF Follows
  <2>2. p = old
    BY <1>1, <1>2, <2>1, LeavesOne
  <2> QED
    BY <2>1, <2>2
<1> HIDE DEF l
<1>6. e.type \in {"Added", "Modified", "Deleted"}
  BY <1>1 DEF Changes
<1>7. todo' = IF e.type = "Deleted" THEN AddEvents("Removed", e.node, o)
              ELSE IF e.type = "Added" THEN AddOrUpdateEvents(e.node, old, o)
              ELSE UpdateEvents(e.node, Known(e.node, o), o)
  BY DEF Dispatch
<1> HIDE DEF e
<1>8. CASE e.type = "Deleted"
  <2>1. todo' = IF Leasable(o) THEN <<Removed(l)>> ELSE <<>>
    BY <1>7, <1>8 DEF AddEvents, Removed, l
  <2> QED
    BY <1>4, <1>8, <2>1 DEF e, l
<1>9. CASE e.type = "Added"
  <2>1. todo' = IF Leasable(o) THEN <<Added(l)>> ELSE <<>>
    BY <1>3, <1>7, <1>9 DEF AddOrUpdateEvents, AddEvents, Added, l
  <2>2. Leasable(o) <=> Leasable(o) /\ old.attrs # o.attrs
    BY <1>3, <1>9 DEF Leasable, Managed, NoNode
  <2> QED
    BY <1>3, <1>9, <2>1, <2>2 DEF e, l
<1>10. CASE e.type = "Modified"
  <2>1. Known(e.node, o) = old
    BY <1>5, <1>10 DEF Known
  <2>2. todo' = IF Leasable(o) /\ old.attrs # o.attrs THEN <<Added(l)>> ELSE <<>>
    BY <1>7, <1>10, <2>1 DEF UpdateEvents, l
  <2> QED
    BY <1>5, <1>10, <2>2 DEF e, l
<1> QED
  BY <1>6, <1>8, <1>9, <1>10

\* A relist announces the nodes whose annotations are not those it knew,
\* and the known ones that are gone.
LEMMA RelistLemma ==
  ASSUME SyncTypes,
         NEW present \in SetToSeqs({n \in Nodes : nodes[n] # NoNode}),
         NEW gone \in SetToSeqs({n \in Nodes : nodes[n] = NoNode /\ store[n] # NoNode})
  PROVE  LET E == RelistEvents(store, nodes, present, gone)
         IN  /\ E \in Seq(PeerEvents)
             /\ \A n \in Nodes : Leasable(nodes[n]) /\ store[n].attrs # nodes[n].attrs =>
                  Added(NodeToLease(n, nodes[n])) \in Elements(E)
             /\ \A x \in Elements(E) :
                  \/ \E n \in Nodes : /\ Leasable(nodes[n]) /\ store[n].attrs # nodes[n].attrs
                                      /\ x = Added(NodeToLease(n, nodes[n]))
                  \/ \E n \in Nodes : /\ nodes[n] = NoNode /\ Leasable(store[n])
                                      /\ x = Removed(NodeToLease(n, store[n]))
<1> DEFINE P == {n \in Nodes : nodes[n] # NoNode}
           G == {n \in Nodes : nodes[n] = NoNode /\ store[n] # NoNode}
           A(n) == AddOrUpdateEvents(n, store[n], nodes[n])
           R(n) == AddEvents("Removed", n, store[n])
           a == [i \in 1..Len(present) |-> A(present[i])]
           r == [i \in 1..Len(gone) |-> R(gone[i])]
           E == RelistEvents(store, nodes, present, gone)
<1>1. \A n \in Nodes : /\ nodes[n] \in Objects /\ store[n] \in Objects
                       /\ Leasable(nodes[n]) => nodes[n] \in PeerObjects
                       /\ Leasable(store[n]) => store[n] \in PeerObjects
  BY DEF SyncTypes, Objects, Leasable, Managed, NoNode
<1>2. /\ present \in Seq(P) /\ Elements(present) = P
      /\ gone \in Seq(G) /\ Elements(gone) = G
  <2>1. P \in SUBSET Nodes /\ G \in SUBSET Nodes
    OBVIOUS
  <2>2. IsFiniteSet(P) /\ IsFiniteSet(G)
    BY <2>1, FS_Subset, NodesAssumption
  <2> HIDE DEF P, G
  <2>3. present \in SetToSeqs(P) /\ gone \in SetToSeqs(G)
    BY DEF P, G
  <2> QED
    BY <2>2, <2>3, OrderLemma
<1>3. ASSUME NEW n \in Nodes
      PROVE  /\ A(n) = IF Leasable(nodes[n]) /\ store[n].attrs # nodes[n].attrs
                       THEN <<Added(NodeToLease(n, nodes[n]))>> ELSE <<>>
             /\ R(n) = IF Leasable(store[n]) THEN <<Removed(NodeToLease(n, store[n]))>> ELSE <<>>
             /\ A(n) \in Seq(PeerEvents) /\ R(n) \in Seq(PeerEvents)
  <2>1. A(n) = IF Leasable(nodes[n]) /\ store[n].attrs # nodes[n].attrs
               THEN <<Added(NodeToLease(n, nodes[n]))>> ELSE <<>>
    <3>1. CASE store[n] = NoNode
      <4>1. store[n].attrs = 0
        BY <3>1 DEF NoNode
      <4> QED
        BY <3>1, <4>1 DEF AddOrUpdateEvents, AddEvents, Added, Leasable, Managed
    <3>2. CASE store[n] # NoNode
      BY <3>2 DEF AddOrUpdateEvents, UpdateEvents
    <3> QED
      BY <3>1, <3>2
  <2>2. R(n) = IF Leasable(store[n]) THEN <<Removed(NodeToLease(n, store[n]))>> ELSE <<>>
    BY DEF AddEvents, Removed
  <2>3. Leasable(nodes[n]) => Added(NodeToLease(n, nodes[n])) \in PeerEvents
    BY <1>1 DEF PeerEvents, PeerLeases
  <2>4. Leasable(store[n]) => Removed(NodeToLease(n, store[n])) \in PeerEvents
    BY <1>1 DEF PeerEvents, PeerLeases
  <2>5. <<>> \in Seq(PeerEvents) /\ \A x \in PeerEvents : <<x>> \in Seq(PeerEvents)
    OBVIOUS
  <2> QED
    BY <2>1, <2>2, <2>3, <2>4, <2>5
<1> HIDE DEF A, R
<1>4. /\ Len(present) \in Nat /\ Len(gone) \in Nat
      /\ \A i \in 1..Len(present) : present[i] \in Nodes /\ nodes[present[i]] # NoNode
      /\ \A i \in 1..Len(gone) : gone[i] \in Nodes /\ nodes[gone[i]] = NoNode
  BY <1>2, LenProperties, ElementOfSeq
<1>5. /\ a \in Seq(Seq(PeerEvents)) /\ Len(a) = Len(present)
      /\ r \in Seq(Seq(PeerEvents)) /\ Len(r) = Len(gone)
  BY <1>3, <1>4
<1>6. E = FlattenSeq(a \o r)
  BY DEF RelistEvents, A, R
<1> HIDE DEF E
<1>7. /\ a \o r \in Seq(Seq(PeerEvents)) /\ Elements(a \o r) = Elements(a) \cup Elements(r)
  <2> HIDE DEF a, r
  <2> QED
    BY <1>5, ConcatElements
<1>8. /\ E \in Seq(PeerEvents)
      /\ \A x : x \in Elements(E) <=> \E s \in Elements(a) \cup Elements(r) : x \in Elements(s)
  <2> HIDE DEF a, r
  <2>1. /\ E \in Seq(PeerEvents)
        /\ \A x : x \in Elements(E) <=> \E i \in 1..Len(a \o r) : x \in Elements((a \o r)[i])
    BY <1>6, <1>7, FlattenLemma
  <2>2. \A s : s \in Elements(a \o r) <=> \E i \in 1..Len(a \o r) : s = (a \o r)[i]
    BY DEF Elements
  <2> QED
    BY <1>7, <2>1, <2>2
<1>9. Elements(a) = {A(n) : n \in P} /\ Elements(r) = {R(n) : n \in G}
  <2>1. Elements(a) = {A(present[i]) : i \in 1..Len(present)}
    BY <1>5 DEF Elements
  <2>2. Elements(r) = {R(gone[i]) : i \in 1..Len(gone)}
    BY <1>5 DEF Elements
  <2> HIDE DEF P, G, a, r
  <2> QED
    BY <1>2, <2>1, <2>2 DEF Elements
<1> HIDE DEF a, r
<1>10. Elements(<<>>) = {} /\ \A x : Elements(<<x>>) = {x}
  BY SingletonLemma
<1>11. ASSUME NEW n \in Nodes, Leasable(nodes[n]), store[n].attrs # nodes[n].attrs
       PROVE  Added(NodeToLease(n, nodes[n])) \in Elements(E)
  <2>1. n \in P
    BY <1>11 DEF Leasable, Managed, NoNode
  <2>2. A(n) = <<Added(NodeToLease(n, nodes[n]))>> /\ A(n) \in Elements(a)
    BY <1>3, <1>9, <1>11, <2>1
  <2> QED
    BY <1>8, <1>10, <2>2
<1>12. ASSUME NEW x \in Elements(E)
       PROVE  \/ \E n \in Nodes : /\ Leasable(nodes[n]) /\ store[n].attrs # nodes[n].attrs
                                  /\ x = Added(NodeToLease(n, nodes[n]))
              \/ \E n \in Nodes : /\ nodes[n] = NoNode /\ Leasable(store[n])
                                  /\ x = Removed(NodeToLease(n, store[n]))
  <2>1. PICK s \in Elements(a) \cup Elements(r) : x \in Elements(s)
    BY <1>8
  <2>2. CASE s \in Elements(a)
    <3>1. PICK n \in P : s = A(n)
      BY <1>9, <2>2
    <3> QED
      BY <1>3, <1>10, <2>1, <3>1
  <2>3. CASE s \in Elements(r)
    <3>1. PICK n \in G : s = R(n)
      BY <1>9, <2>3
    <3> QED
      BY <1>3, <1>10, <2>1, <3>1
  <2> QED
    BY <2>1, <2>2, <2>3
<1> QED
  BY <1>8, <1>11, <1>12 DEF E

-----------------------------------------------------------------------------
(* LeaseSync: the leases follow the nodes *)

\* Before the first list nothing has happened on this side.
BookInv ==
  /\ spawned \in Nat /\ breaks \in Nat /\ lost \in BOOLEAN
  /\ spawned = 0 => retrying = {}
  /\ informer = "list" => todo = <<>>
  /\ informer = "list" /\ breaks = 0 =>
       /\ store = [n \in Nodes |-> NoNode]
       /\ queue = <<>> /\ feed = <<>> /\ leases = <<>> /\ retrying = {}

PipeTypes ==
  /\ feed \in Seq(PeerEvents) /\ queue \in Seq(PeerEvents) /\ todo \in Seq(PeerEvents)
  /\ leases \in Seq(PeerLeases) /\ Once(leases)

\* What the events on their way will make of the leases is what the cache
\* says: the lease of every managed node that converts is there; no subnet is
\* without a node.
PeersHeld ==
  \A n \in Nodes : Leasable(store[n]) => Holds(Pipe, leases, NodeToLease(n, store[n]))
Owned(c) == \E n \in Nodes : Leasable(store[n]) /\ store[n].cidr = c
NoGhosts == \A c \in Cidrs : Silent(Pipe, leases, c) \/ Owned(c)

PipeInv == InOrder => PipeTypes /\ (CidrsStay => PeersHeld) /\ (NoGap => NoGhosts)

FollowInv == SyncInv /\ BookInv /\ PipeInv

LEMMA FollowInit == SyncInit => FollowInv
<1> SUFFICES ASSUME SyncInit PROVE FollowInv
  OBVIOUS
<1>1. BookInv
  BY DEF SyncInit, BookInv
<1>2. /\ feed = <<>> /\ queue = <<>> /\ todo = <<>> /\ leases = <<>>
      /\ Pipe = <<>> /\ Elements(<<>>) = {}
  BY DEF SyncInit, Pipe, Elements
<1>3. PipeTypes
  BY <1>2 DEF PipeTypes, Once
<1>4. PeersHeld
  BY DEF PeersHeld, SyncInit, Leasable, Managed, NoNode
<1>5. NoGhosts
  BY <1>2 DEF NoGhosts, Silent
<1> QED
  BY <1>1, <1>3, <1>4, <1>5, SyncInitInv DEF FollowInv, PipeInv

LEMMA BookNext ==
  ASSUME BookInv, [SyncNext]_syncVars
  PROVE  BookInv'
<1> USE DEF BookInv
<1>1. ASSUME NEW n \in Nodes, CreateNode(n) \/ AnnotateNode(n) \/ DeleteNode(n) PROVE BookInv'
  <2>1. UNCHANGED <<breaks, informerVars, queueVars, watchVars>>
    BY <1>1 DEF CreateNode, AnnotateNode, DeleteNode, Change
  <2> QED
    BY <2>1 DEF informerVars, queueVars, watchVars
<1>2. CASE ListNodes
  BY <1>2 DEF ListNodes, apiVars, queueVars, watchVars
<1>3. CASE StartWatch
  BY <1>3 DEF StartWatch, apiVars, queueVars, watchVars
<1>4. CASE Dispatch
  <2>1. UNCHANGED <<informer, apiVars, queueVars, watchVars>> /\ informer = "watch"
    BY <1>4 DEF Dispatch
  <2> QED
    BY <2>1 DEF apiVars, queueVars, watchVars
<1>5. CASE BreakWatch
  BY <1>5 DEF BreakWatch, queueVars, watchVars
<1>6. CASE EnqueueSend
  BY <1>6 DEF EnqueueSend, apiVars, watchVars
<1>7. CASE EnqueueRetry
  <2>1. todo # <<>> /\ spawned' = spawned + 1 /\ UNCHANGED <<informer, breaks, lost>>
    BY <1>7 DEF EnqueueRetry, apiVars, watchVars
  <2> QED
    BY <2>1
<1>8. CASE RetrySend
  <2>1. PICK r \in retrying : UNCHANGED <<spawned, apiVars, informerVars, watchVars>>
    BY <1>8 DEF RetrySend
  <2> QED
    BY <2>1 DEF apiVars, informerVars, watchVars
<1>9. CASE Publish
  <2>1. /\ queue # <<>> /\ lost' \in BOOLEAN
        /\ UNCHANGED <<retrying, spawned, apiVars, informerVars>>
    BY <1>9 DEF Publish
  <2> QED
    BY <2>1 DEF apiVars, informerVars
<1>10. CASE HubSubscribe
  BY <1>10 DEF HubSubscribe, apiVars, informerVars, queueVars
<1>11. CASE Consume
  <2>1. feed # <<>> /\ UNCHANGED <<lost, apiVars, informerVars, queueVars>>
    BY <1>11 DEF Consume
  <2> QED
    BY <2>1 DEF apiVars, informerVars, queueVars
<1>12. CASE UNCHANGED syncVars
  BY <1>12 DEF syncVars, apiVars, informerVars, queueVars, watchVars
<1> QED
  BY <1>1, <1>2, <1>3, <1>4, <1>5, <1>6, <1>7, <1>8, <1>9, <1>10, <1>11, <1>12 DEF SyncNext

\* While a CIDR has one node and a node one CIDR, so do any two objects the
\* log leaves.
LEMMA OneCidr ==
  ASSUME NEW L, \A i, j \in 1..Len(L) : (L[i].object.cidr = L[j].object.cidr) = (L[i].node = L[j].node),
         Len(L) \in Nat, NEW r \in 0..Len(L), NEW q \in 0..Len(L), NEW m, NEW n, NEW o, NEW p,
         o # NoNode, p # NoNode, Leaves(L, m, o, r), Leaves(L, n, p, q)
  PROVE  o.cidr = p.cidr <=> m = n
<1>1. PICK i \in 1..r : L[i].node = m /\ L[i].object = o
  BY LeavesOrigin
<1>2. PICK j \in 1..q : L[j].node = n /\ L[j].object = p
  BY LeavesOrigin
<1>3. i \in 1..Len(L) /\ j \in 1..Len(L)
  OBVIOUS
<1> QED
  BY <1>1, <1>2, <1>3

\* Events move on, or nothing happens on this side.
LEMMA PipeStays ==
  ASSUME PipeInv, InOrder, PipeTypes', Pipe' = Pipe, leases' = leases, store' = store,
         CidrsStay' => CidrsStay, NoGap' => NoGap
  PROVE  PipeInv'
<1>1. CidrsStay' => PeersHeld'
  BY DEF PipeInv, PeersHeld
<1>2. NoGap' => NoGhosts'
  BY DEF PipeInv, NoGhosts, Owned
<1> QED
  BY <1>1, <1>2 DEF PipeInv

LEMMA PipeConsume ==
  ASSUME PipeInv, InOrder, Consume
  PROVE  PipeInv'
<1>1. PipeTypes /\ (CidrsStay => PeersHeld) /\ (NoGap => NoGhosts)
  BY DEF PipeInv
<1>2. /\ feed # <<>> /\ feed' = Tail(feed) /\ leases' = Applied(leases, Head(feed))
      /\ UNCHANGED <<log, breaks, store, queue, todo>>
  BY DEF Consume, Applied, apiVars, informerVars, queueVars
<1>3. /\ queue \o todo \in Seq(PeerEvents)
      /\ Head(feed) \in PeerEvents /\ Tail(feed) \in Seq(PeerEvents)
  BY <1>1, <1>2, ConcatProperties, HeadTailProperties DEF PipeTypes
<1>4. PipeTypes'
  BY <1>1, <1>2, <1>3, AppliedLemma DEF PipeTypes
<1>5. /\ Pipe \in Seq(PeerEvents) /\ Pipe # <<>> /\ Head(Pipe) = Head(feed) /\ Pipe' = Tail(Pipe)
  <2>1. Pipe' = Tail(feed) \o (queue \o todo)
    BY <1>2 DEF Pipe
  <2> QED
    BY <1>1, <1>2, <1>3, <2>1, ConcatProperties, FrontLemma DEF Pipe, PipeTypes
<1>6. leases' = Applied(leases, Head(Pipe)) /\ leases \in Seq(PeerLeases) /\ Once(leases)
  BY <1>1, <1>2, <1>5 DEF PipeTypes
<1>7. CidrsStay' => PeersHeld'
  <2> SUFFICES ASSUME CidrsStay, NEW n \in Nodes, Leasable(store[n])
               PROVE  Holds(Pipe', leases', NodeToLease(n, store[n]))
    BY <1>2 DEF PeersHeld, CidrsStay
  <2>1. Holds(Pipe, leases, NodeToLease(n, store[n]))
    BY <1>1 DEF PeersHeld
  <2> QED
    BY <1>5, <1>6, <2>1, HoldsTail
<1>8. NoGap' => NoGhosts'
  <2> SUFFICES ASSUME NoGap, NEW c \in Cidrs, ~Owned(c) PROVE Silent(Pipe', leases', c)
    BY <1>2 DEF NoGhosts, Owned, NoGap
  <2>1. Silent(Pipe, leases, c)
    BY <1>1 DEF NoGhosts
  <2> QED
    BY <1>5, <1>6, <2>1, SilentTail
<1> QED
  BY <1>4, <1>7, <1>8 DEF PipeInv

\* New events join the pipe at its end.
LEMMA JoinLemma ==
  ASSUME PipeTypes, todo = <<>>, todo' \in Seq(PeerEvents), UNCHANGED <<feed, queue, leases>>
  PROVE  /\ Pipe \in Seq(PeerEvents) /\ Pipe' = Pipe \o todo'
         /\ PipeTypes'
<1>1. feed \in Seq(PeerEvents) /\ queue \in Seq(PeerEvents)
  BY DEF PipeTypes
<1>2. queue \o <<>> = queue
  BY <1>1, ConcatEmptySeq
<1>3. Pipe = feed \o queue /\ Pipe' = feed \o (queue \o todo')
  BY <1>2 DEF Pipe
<1>4. Pipe \in Seq(PeerEvents)
  BY <1>1, <1>3, ConcatProperties
<1>5. (feed \o queue) \o todo' = feed \o (queue \o todo')
  BY <1>1, ConcatAssociative
<1> QED
  BY <1>3, <1>4, <1>5 DEF PipeTypes

LEMMA PipeDispatch ==
  ASSUME SyncInv, PipeInv, InOrder, Dispatch
  PROVE  PipeInv'
<1> DEFINE e == log[rv + 1]
           n == e.node
           o == e.object
           old == store[n]
           l == NodeToLease(n, o)
<1>1. PipeTypes /\ (CidrsStay => PeersHeld) /\ (NoGap => NoGhosts)
  BY DEF PipeInv
<1>2. /\ todo = <<>> /\ UNCHANGED <<log, breaks, feed, queue, leases>>
  BY DEF Dispatch, apiVars, queueVars, watchVars
<1>3. /\ rv \in Nat /\ rv + 1 \in 1..Len(log) /\ e \in Changes
      /\ store' = [store EXCEPT ![n] = IF e.type = "Deleted" THEN NoNode ELSE o]
  BY DispatchLemma
<1>4. /\ old = o \/ e.type # "Deleted"
      /\ e.type = "Deleted" \/ old = NoNode \/ old.cidr = o.cidr
      /\ todo' = IF e.type = "Deleted"
                 THEN IF Leasable(o) THEN <<Removed(l)>> ELSE <<>>
                 ELSE IF Leasable(o) /\ old.attrs # o.attrs THEN <<Added(l)>> ELSE <<>>
  BY DispatchEvents
<1>5. n \in Nodes /\ o \in PeerObjects /\ l \in PeerLeases
  BY <1>3 DEF Changes, PeerLeases
<1>6. /\ store \in [Nodes -> Objects] /\ Leaves(log, n, old, rv)
      /\ \A m \in Nodes : Leaves(log, m, store[m], rv)
      /\ Len(log) \in Nat /\ rv \in 0..Len(log)
  BY <1>5, LenProperties DEF SyncInv, SyncTypes, StoreInv
<1>7. \A m \in Nodes : store'[m] = IF m = n THEN (IF e.type = "Deleted" THEN NoNode ELSE o) ELSE store[m]
  BY <1>3, <1>6
<1>8. Removed(l) \in PeerEvents /\ Added(l) \in PeerEvents
  BY <1>5 DEF PeerEvents
<1>9. l.subnet = o.cidr
  BY DEF NodeToLease
<1> HIDE DEF l, e
<1>10. todo' \in Seq(PeerEvents)
  BY <1>4, <1>8
<1>11. Pipe \in Seq(PeerEvents) /\ Pipe' = Pipe \o todo' /\ PipeTypes'
  BY <1>1, <1>2, <1>10, JoinLemma
<1>12. \A x \in Elements(todo') : x.lease = l
  BY <1>4, SingletonLemma DEF Added, Removed
<1>13. CidrsStay' => PeersHeld'
  <2> SUFFICES ASSUME CidrsStay, NEW m \in Nodes, Leasable(store'[m])
               PROVE  Holds(Pipe', leases, NodeToLease(m, store'[m]))
    BY <1>2 DEF PeersHeld, CidrsStay
  <2>2. CASE m # n
    <3>1. store'[m] = store[m] /\ Holds(Pipe, leases, NodeToLease(m, store[m]))
      BY <1>1, <1>7, <2>2 DEF PeersHeld
    <3>2. PICK i \in 1..rv : log[i].node = m /\ log[i].object = store[m]
      <4>1. store[m] # NoNode
        BY <3>1 DEF Leasable, Managed, NoNode
      <4> QED
        BY <1>6, <4>1, LeavesOrigin
    <3>3. store[m].cidr # o.cidr
      <4>1. i \in 1..Len(log)
        BY <1>6
      <4> QED
        BY <1>3, <2>2, <3>2, <4>1 DEF CidrsStay, e
    <3>4. \A x \in Elements(todo') : x.lease.subnet # NodeToLease(m, store[m]).subnet
      BY <1>9, <1>12, <3>3 DEF NodeToLease
    <3> QED
      BY <1>10, <1>11, <3>1, <3>4, HoldsAppend
  <2>3. CASE m = n
    <3>1. e.type # "Deleted" /\ store'[m] = o /\ Leasable(o)
      BY <1>7, <2>3 DEF Leasable, Managed, NoNode
    <3>2. NodeToLease(m, store'[m]) = l
      BY <2>3, <3>1 DEF l
    <3>3. CASE old.attrs # o.attrs
      <4>1. todo' = <<Added(l)>>
        BY <1>4, <3>1, <3>3
      <4>2. Elements(todo') = {Added(l)}
        BY <4>1, SingletonLemma
      <4> QED
        BY <1>10, <1>11, <3>2, <4>2, HoldsAppend
    <3>4. CASE old.attrs = o.attrs
      <4>1. todo' = <<>> /\ Elements(todo') = {}
        BY <1>4, <3>1, <3>4, SingletonLemma
      <4>2. old # NoNode
        BY <3>1, <3>4 DEF Leasable, Managed, NoNode
      <4>3. old.cidr = o.cidr
        BY <1>4, <3>1, <4>2
      <4>4. NodeToLease(n, old) = l
        BY <3>4, <4>3 DEF NodeToLease, l
      <4>5. Leasable(old)
        BY <3>1, <3>4, <4>3 DEF Leasable, Managed, Converts
      <4>6. Holds(Pipe, leases, l)
        BY <1>1, <1>5, <4>4, <4>5 DEF PeersHeld
      <4> QED
        BY <1>10, <1>11, <3>2, <4>1, <4>6, HoldsAppend
    <3> QED
      BY <3>3, <3>4
  <2> QED
    BY <2>2, <2>3
<1>14. NoGap' => NoGhosts'
  <2> SUFFICES ASSUME NoGap, NEW c \in Cidrs,
                      ~ \E m \in Nodes : Leasable(store'[m]) /\ store'[m].cidr = c
               PROVE  Silent(Pipe', leases, c)
    BY <1>2 DEF NoGhosts, Owned, NoGap
  <2>1. CASE todo' # <<>> /\ o.cidr = c
    <3>1. e.type = "Deleted"
      BY <1>4, <1>5, <1>7, <2>1
    <3>2. todo' = <<Removed(l)>> /\ Elements(todo') = {Removed(l)}
      BY <1>4, <2>1, <3>1, SingletonLemma
    <3>3. Removed(l).type = "Removed" /\ Removed(l).lease.subnet = c
      BY <1>9, <2>1 DEF Removed
    <3> QED
      BY <1>10, <1>11, <3>2, <3>3, SilentAppend
  <2>2. CASE ~(todo' # <<>> /\ o.cidr = c)
    <3>1. \A x \in Elements(todo') : x.lease.subnet # c
      BY <1>9, <1>12, <2>2, SingletonLemma
    <3>2. ~Owned(c)
      <4> SUFFICES ASSUME NEW m \in Nodes, Leasable(store[m]), store[m].cidr = c PROVE FALSE
        BY DEF Owned
      <4>1. m = n
        BY <1>7
      <4>2. CASE e.type = "Deleted"
        BY <1>4, <2>2, <4>1, <4>2
      <4>3. CASE e.type # "Deleted"
        <5>1. store'[n] = o
          BY <1>5, <1>7, <4>3
        <5>2. old # NoNode /\ o.cidr = c
          BY <1>4, <4>1, <4>3 DEF Leasable, Managed, NoNode
        <5>3. ~Leasable(o)
          BY <1>5, <5>1, <5>2
        <5>4. e.type = "Modified" => Leasable(o)
          <6>1. e.type = "Modified" => Managed(o)
            BY <1>3 DEF SyncInv, LogInv, Follows, e
          <6> QED
            BY <1>3, <6>1 DEF NoGap, Leasable, e
        <5>5. e.type = "Added" => old = NoNode
          <6>1. Follows(log, rv + 1) /\ (rv + 1) - 1 = rv
            BY <1>3 DEF SyncInv, LogInv
          <6> QED
            BY <1>3, <1>6, <6>1, LeavesOne DEF Follows, e
        <5> QED
          BY <1>3, <4>3, <5>2, <5>3, <5>4, <5>5 DEF Changes
      <4> QED
        BY <4>2, <4>3
    <3>3. Silent(Pipe, leases, c)
      BY <1>1, <3>2 DEF NoGhosts
    <3> QED
      BY <1>10, <1>11, <3>1, <3>3, SilentAppend
  <2> QED
    BY <2>1, <2>2
<1> QED
  BY <1>11, <1>13, <1>14 DEF PipeInv

LEMMA PipeList ==
  ASSUME SyncInv, BookInv, PipeInv, InOrder, ListNodes
  PROVE  PipeInv'
<1>1. PipeTypes /\ (CidrsStay => PeersHeld) /\ (NoGap => NoGhosts)
  BY DEF PipeInv
<1>2. /\ informer = "list" /\ todo = <<>> /\ store' = nodes
      /\ UNCHANGED <<log, breaks, feed, queue, leases>>
  BY DEF ListNodes, BookInv, apiVars, queueVars, watchVars
<1>3. PICK present \in SetToSeqs({n \in Nodes : nodes[n] # NoNode}),
           gone \in SetToSeqs({n \in Nodes : nodes[n] = NoNode /\ store[n] # NoNode}) :
             todo' = RelistEvents(store, nodes, present, gone)
  BY DEF ListNodes
<1>4. /\ todo' \in Seq(PeerEvents)
      /\ \A n \in Nodes : Leasable(nodes[n]) /\ store[n].attrs # nodes[n].attrs =>
           Added(NodeToLease(n, nodes[n])) \in Elements(todo')
      /\ \A x \in Elements(todo') :
           \/ \E n \in Nodes : /\ Leasable(nodes[n]) /\ store[n].attrs # nodes[n].attrs
                               /\ x = Added(NodeToLease(n, nodes[n]))
           \/ \E n \in Nodes : /\ nodes[n] = NoNode /\ Leasable(store[n])
                               /\ x = Removed(NodeToLease(n, store[n]))
  BY <1>3, RelistLemma DEF SyncInv
<1>5. Pipe \in Seq(PeerEvents) /\ Pipe' = Pipe \o todo' /\ PipeTypes'
  BY <1>1, <1>2, <1>4, JoinLemma
<1>6. /\ \A n \in Nodes : Leaves(log, n, nodes[n], Len(log)) /\ Leaves(log, n, store[n], rv)
      /\ Len(log) \in Nat /\ rv \in 0..Len(log) /\ Len(log) \in 0..Len(log)
  BY LenProperties DEF SyncInv, SyncTypes, ServerInv, StoreInv
<1>7. \A x : Leasable(x) => x # NoNode
  BY DEF Leasable, Managed, NoNode
<1>8. CidrsStay' => PeersHeld'
  <2> SUFFICES ASSUME CidrsStay, NEW n \in Nodes, Leasable(nodes[n])
               PROVE  Holds(Pipe', leases, NodeToLease(n, nodes[n]))
    BY <1>2 DEF PeersHeld, CidrsStay
  <2> DEFINE l == NodeToLease(n, nodes[n])
  <2>1. \A m \in Nodes : /\ nodes[m] # NoNode => (nodes[m].cidr = nodes[n].cidr <=> m = n)
                         /\ store[m] # NoNode => (store[m].cidr = nodes[n].cidr <=> m = n)
    BY <1>6, <1>7, OneCidr DEF CidrsStay
  <2>2. \A x \in Elements(todo') : x.lease.subnet = l.subnet => x = Added(l)
    <3> SUFFICES ASSUME NEW x \in Elements(todo'), x.lease.subnet = nodes[n].cidr PROVE x = Added(l)
      BY DEF NodeToLease
    <3>1. ASSUME NEW m \in Nodes, Leasable(nodes[m]), x = Added(NodeToLease(m, nodes[m]))
          PROVE  x = Added(l)
      <4>1. nodes[m].cidr = nodes[n].cidr
        BY <3>1 DEF Added, NodeToLease
      <4> QED
        BY <1>7, <2>1, <3>1, <4>1
    <3>2. ASSUME NEW m \in Nodes, nodes[m] = NoNode, Leasable(store[m]),
                 x = Removed(NodeToLease(m, store[m]))
          PROVE  FALSE
      <4>1. store[m].cidr = nodes[n].cidr
        BY <3>2 DEF Removed, NodeToLease
      <4> QED
        BY <1>7, <2>1, <3>2, <4>1
    <3> QED
      BY <1>4, <3>1, <3>2
  <2>3. CASE store[n].attrs # nodes[n].attrs
    BY <1>4, <1>5, <2>2, <2>3, HoldsAppend
  <2>4. CASE store[n].attrs = nodes[n].attrs
    <3>1. store[n] # NoNode
      BY <2>4 DEF Leasable, Managed, NoNode
    <3>2. store[n].cidr = nodes[n].cidr
      BY <2>1, <3>1
    <3>3. NodeToLease(n, store[n]) = l /\ Leasable(store[n])
      BY <2>4, <3>2 DEF NodeToLease, Leasable, Managed, Converts
    <3>4. Holds(Pipe, leases, l)
      BY <1>1, <3>3 DEF PeersHeld
    <3> HIDE DEF l
    <3> QED
      BY <1>4, <1>5, <2>2, <3>4, HoldsAppend DEF l
  <2> QED
    BY <2>3, <2>4
<1>9. NoGap' => NoGhosts'
  <2> SUFFICES ASSUME NoGap, NEW c \in Cidrs,
                      ~ \E n \in Nodes : Leasable(nodes[n]) /\ nodes[n].cidr = c
               PROVE  Silent(Pipe', leases, c)
    BY <1>2 DEF NoGhosts, Owned, NoGap
  <2>1. store = [n \in Nodes |-> NoNode]
    BY <1>2 DEF BookInv, NoGap
  <2>2. Silent(Pipe, leases, c)
    BY <1>1, <1>7, <2>1 DEF NoGhosts, Owned
  <2>3. ASSUME NEW x \in Elements(todo'), x.lease.subnet = c PROVE FALSE
    <3>1. PICK n \in Nodes : Leasable(nodes[n]) /\ x = Added(NodeToLease(n, nodes[n]))
      BY <1>4, <1>7, <2>1
    <3>2. nodes[n].cidr = c
      BY <2>3, <3>1 DEF Added, NodeToLease
    <3> QED
      BY <3>1, <3>2
  <2> QED
    BY <1>4, <1>5, <2>2, <2>3, SilentAppend
<1> QED
  BY <1>5, <1>8, <1>9 DEF PipeInv

LEMMA PipeMove ==
  ASSUME PipeInv, InOrder, InOrder', EnqueueSend \/ Publish
  PROVE  PipeInv'
<1>1. feed \in Seq(PeerEvents) /\ queue \in Seq(PeerEvents) /\ todo \in Seq(PeerEvents) /\ PipeTypes
  BY DEF PipeInv, PipeTypes
<1>2. CASE EnqueueSend
  <2>1. /\ todo # <<>> /\ queue' = Append(queue, Head(todo)) /\ todo' = Tail(todo)
        /\ UNCHANGED <<log, breaks, store, feed, leases>>
    BY <1>2 DEF EnqueueSend, apiVars, watchVars
  <2>2. Head(todo) \in PeerEvents /\ Tail(todo) \in Seq(PeerEvents)
    BY <1>1, <2>1, HeadTailProperties
  <2>3. queue' \in Seq(PeerEvents)
    BY <1>1, <2>1, <2>2, AppendProperties
  <2>4. PipeTypes'
    BY <1>1, <2>1, <2>2, <2>3 DEF PipeTypes
  <2>5. Pipe' = Pipe
    BY <1>1, <2>1, MoveLemma DEF Pipe
  <2> QED
    BY <2>1, <2>4, <2>5, PipeStays DEF CidrsStay, NoGap
<1>3. CASE Publish
  <2>1. /\ queue # <<>> /\ queue' = Tail(queue) /\ feed' = Append(feed, Head(queue))
        /\ UNCHANGED <<log, breaks, store, todo, leases>>
    BY <1>3 DEF Publish, InOrder, apiVars, informerVars
  <2>2. Head(queue) \in PeerEvents /\ Tail(queue) \in Seq(PeerEvents)
    BY <1>1, <2>1, HeadTailProperties
  <2>3. feed' \in Seq(PeerEvents)
    BY <1>1, <2>1, <2>2, AppendProperties
  <2>4. PipeTypes'
    BY <1>1, <2>1, <2>2, <2>3 DEF PipeTypes
  <2>5. Pipe' = Pipe
    <3> DEFINE t == queue \o todo
    <3>1. t \in Seq(PeerEvents) /\ t # <<>> /\ Head(t) = Head(queue) /\ Tail(t) = Tail(queue) \o todo
      BY <1>1, <2>1, ConcatProperties, FrontLemma
    <3>2. Append(feed, Head(t)) \o Tail(t) = feed \o t
      <4> HIDE DEF t
      <4> QED
        BY <1>1, <3>1, MoveLemma
    <3> QED
      BY <2>1, <3>1, <3>2 DEF Pipe
  <2> QED
    BY <2>1, <2>4, <2>5, PipeStays DEF CidrsStay, NoGap
<1> QED
  BY <1>2, <1>3

LEMMA FollowNext ==
  ASSUME FollowInv, [SyncNext]_syncVars
  PROVE  FollowInv'
<1> USE DEF FollowInv
<1>1. SyncInv'
  BY SyncNextInv
<1>2. BookInv'
  BY BookNext
<1>3. PipeInv'
  <2> SUFFICES ASSUME InOrder' PROVE PipeInv'
    BY DEF PipeInv
  <2>1. InOrder
    <3>1. spawned' = 0 => spawned = 0
      <4>1. spawned' = spawned \/ spawned' = spawned + 1
        BY DEF SyncNext, CreateNode, AnnotateNode, DeleteNode, Change, ListNodes, StartWatch,
               Dispatch, BreakWatch, EnqueueSend, EnqueueRetry, RetrySend, Publish, HubSubscribe,
               Consume, syncVars, queueVars
      <4> QED
        BY <4>1 DEF BookInv
    <3>2. lost => lost'
      BY DEF SyncNext, CreateNode, AnnotateNode, DeleteNode, Change, ListNodes, StartWatch,
             Dispatch, BreakWatch, EnqueueSend, EnqueueRetry, RetrySend, Publish, HubSubscribe,
             Consume, syncVars, watchVars
    <3> QED
      BY <3>1, <3>2 DEF InOrder
  <2>2. ASSUME NEW n \in Nodes, CreateNode(n) \/ AnnotateNode(n) \/ DeleteNode(n) PROVE PipeInv'
    <3>1. PICK t, o : log' = Append(log, [type |-> t, node |-> n, object |-> o])
      BY <2>2 DEF CreateNode, AnnotateNode, DeleteNode, Change
    <3>2. UNCHANGED <<breaks, store, feed, queue, todo, leases>>
      BY <2>2 DEF CreateNode, AnnotateNode, DeleteNode, Change, informerVars, queueVars, watchVars
    <3>3. Len(log) \in Nat /\ Len(log') \in Nat /\ Len(log) <= Len(log')
          /\ \A i \in 1..Len(log) : log'[i] = log[i]
      <4>1. log \in Seq(Changes) /\ log' \in Seq(Changes)
        BY <1>1 DEF SyncInv, SyncTypes
      <4>2. Len(log') = Len(log) + 1 /\ \A i \in 1..Len(log) : log'[i] = log[i]
        BY <3>1, <4>1
      <4> QED
        BY <4>1, <4>2, LenProperties
    <3>4. CidrsStay' => CidrsStay
      <4>1. \A i \in 1..Len(log) : i \in 1..Len(log')
        BY <3>3
      <4> QED
        BY <3>3, <4>1 DEF CidrsStay
    <3>5. NoGap' => NoGap
      BY <3>2, <3>3 DEF NoGap
    <3>6. PipeTypes' /\ Pipe' = Pipe
      BY <2>1, <3>2 DEF PipeInv, PipeTypes, Pipe
    <3> QED
      BY <2>1, <3>2, <3>4, <3>5, <3>6, PipeStays
  <2>3. CASE StartWatch \/ BreakWatch \/ HubSubscribe \/ UNCHANGED syncVars
    <3>1. UNCHANGED <<log, store, feed, queue, todo, leases>>
      BY <2>3 DEF StartWatch, BreakWatch, HubSubscribe, syncVars, apiVars, informerVars,
                  queueVars, watchVars
    <3>2. breaks' = breaks \/ breaks' = breaks + 1
      BY <2>3 DEF StartWatch, BreakWatch, HubSubscribe, syncVars, apiVars
    <3>3. breaks' = 0 => breaks = 0
      BY <3>2 DEF BookInv
    <3>4. PipeTypes' /\ Pipe' = Pipe
      BY <2>1, <3>1 DEF PipeInv, PipeTypes, Pipe
    <3> QED
      BY <2>1, <3>1, <3>3, <3>4, PipeStays DEF CidrsStay, NoGap
  <2>4. CASE EnqueueRetry \/ RetrySend
    <3>1. spawned' # 0
      BY <2>4 DEF EnqueueRetry, RetrySend, BookInv
    <3> QED
      BY <3>1 DEF InOrder
  <2> QED
    BY <2>1, <2>2, <2>3, <2>4, PipeList, PipeDispatch, PipeMove, PipeConsume DEF SyncNext
<1> QED
  BY <1>1, <1>2, <1>3

\* In a settled state the pipe is empty and the cache is the nodes.
LEMMA SettledFollows ==
  ASSUME FollowInv
  PROVE  LeasesFollowNodes
<1> SUFFICES ASSUME Settled, InOrder
             PROVE  /\ CidrsStay => \A n \in Nodes : Leasable(nodes[n]) => HasLease(n)
                    /\ NoGap => \A i \in 1..Len(leases) :
                         \E n \in Nodes : nodes[n] # NoNode /\ nodes[n].cidr = leases[i].subnet
  BY DEF LeasesFollowNodes, NoStablePeerMissing, NoMissingPeer, NoGhostLease
<1>1. Pipe = <<>> /\ Len(<<>>) = 0 /\ 1..0 = {}
  BY DEF Settled, Pipe
<1>2. \A n \in Nodes : store[n] = nodes[n]
  <2>1. Len(log) \in Nat /\ rv = Len(log)
    BY LenProperties DEF FollowInv, SyncInv, SyncTypes, Settled
  <2> QED
    BY <2>1, LeavesOne DEF FollowInv, SyncInv, ServerInv, StoreInv
<1>3. PipeTypes /\ (CidrsStay => PeersHeld) /\ (NoGap => NoGhosts)
  BY DEF FollowInv, PipeInv
<1>4. ASSUME CidrsStay, NEW n \in Nodes, Leasable(nodes[n]) PROVE HasLease(n)
  <2>1. Holds(<<>>, leases, NodeToLease(n, nodes[n]))
    BY <1>1, <1>2, <1>3, <1>4 DEF PeersHeld
  <2>2. NodeToLease(n, nodes[n]) \in Elements(leases)
    BY <1>1, <2>1 DEF Holds
  <2> QED
    BY <2>2 DEF HasLease, Elements
<1>5. ASSUME NoGap, NEW i \in 1..Len(leases)
      PROVE  \E n \in Nodes : nodes[n] # NoNode /\ nodes[n].cidr = leases[i].subnet
  <2>1. leases[i] \in PeerLeases /\ leases[i] \in Elements(leases)
    BY <1>3, ElementOfSeq DEF PipeTypes, Elements
  <2>2. leases[i].subnet \in Cidrs
    BY <2>1, PeerLemma
  <2>3. ~Silent(<<>>, leases, leases[i].subnet)
    BY <1>1, <2>1 DEF Silent
  <2>4. Owned(leases[i].subnet)
    BY <1>1, <1>3, <1>5, <2>2, <2>3 DEF NoGhosts
  <2>5. \A o : Leasable(o) => o # NoNode
    BY DEF Leasable, Managed, NoNode
  <2> QED
    BY <1>2, <2>4, <2>5 DEF Owned
<1> QED
  BY <1>4, <1>5

\* The watcher's leases follow the nodes, for any number of nodes, CIDRs,
\* changes and broken watches and any depth of the channel and the backlog:
\* once all is settled, and as long as no event went through a retry task or
\* fell out of the backlog, no managed node that converts is missing while
\* CIDRs stay with their nodes, and no lease is without a node before the
\* first broken watch or the first annotations that do not convert.
THEOREM LeasesAreFollowing == SyncSpec => []LeasesFollowNodes
<1>1. FollowInv /\ [SyncNext]_syncVars => FollowInv'
  BY FollowNext
<1> QED
  BY <1>1, FollowInit, SettledFollows, PTL DEF SyncSpec

-----------------------------------------------------------------------------
(* RunLoop *)

\* The manager's watch, as the step of watch_leases tells it: there is one
\* from the start of run on, it is running in a session, and the lease watch
\* is over only after a clean end or the token.
ManagerInv ==
  /\ run = "start" => watch = "off"
  /\ watch = "off" => manager = "off"
  /\ watch = "session" => manager = "live"
  /\ watch = "drain" => manager \in {"ok", "err"}
  /\ watch = "backoff" => manager = "err"
  /\ watch = "done" => cancelled \/ manager = "ok"
  /\ watch = "send" => manager \in {"live", "ok", "err"}

LoopInv == ManagerInv /\ ErrorsNeverEndRun

LEMMA LoopInitInv == LoopInit => LoopInv
  BY DEF LoopInit, LoopInv, ManagerInv, ErrorsNeverEndRun

LEMMA LoopWatch == ASSUME LoopInv, Forward \/ SessionEnd \/ WatchStep PROVE LoopInv'
<1> USE DEF LoopInv, ManagerInv, ErrorsNeverEndRun
<1>1. CASE Forward \/ SessionEnd
  BY <1>1 DEF Forward, SessionEnd
<1>2. CASE TakeResult
  BY <1>2 DEF TakeResult
<1>3. CASE Send
  BY <1>3 DEF Send
<1>4. CASE DrainEnd
  BY <1>4 DEF DrainEnd
<1>5. CASE BackoffEnd \/ WatchStop
  BY <1>5 DEF BackoffEnd, WatchStop
<1> QED
  BY <1>1, <1>2, <1>3, <1>4, <1>5 DEF WatchStep

LEMMA LoopRun == ASSUME LoopInv, RunStep PROVE LoopInv'
<1> USE DEF LoopInv, ManagerInv, ErrorsNeverEndRun, leaseWatchVars
<1>1. CASE Start
  BY <1>1 DEF Start
<1>2. CASE TakeBatch \/ Handle
  BY <1>2 DEF TakeBatch, Handle
<1>3. CASE ChannelClosed \/ TokenFired \/ InlineEnd
  BY <1>3 DEF ChannelClosed, TokenFired, InlineEnd
<1>4. CASE Join
  BY <1>4 DEF Join
<1> QED
  BY <1>1, <1>2, <1>3, <1>4 DEF RunStep

LEMMA LoopNextInv == LoopInv /\ [LoopNext]_loopVars => LoopInv'
<1> SUFFICES ASSUME LoopInv, [LoopNext]_loopVars PROVE LoopInv'
  OBVIOUS
<1>1. CASE Cancel
  BY <1>1 DEF Cancel, leaseWatchVars, LoopInv, ManagerInv, ErrorsNeverEndRun
<1>2. CASE UNCHANGED loopVars
  BY <1>2 DEF loopVars, leaseWatchVars, LoopInv, ManagerInv, ErrorsNeverEndRun
<1> QED
  BY <1>1, <1>2, LoopWatch, LoopRun DEF LoopNext

\* For every kind of loop and any number of results and of failing sessions:
\* a network that has started stops only at the token or at a clean end of
\* the manager's watch (watch_leases and the run functions that use it).
THEOREM ErrorsAreRetried == LoopSpec => []ErrorsNeverEndRun
<1>1. LoopInv => ErrorsNeverEndRun
  BY DEF LoopInv
<1> QED
  BY <1>1, LoopInitInv, LoopNextInv, PTL DEF LoopSpec
=============================================================================
