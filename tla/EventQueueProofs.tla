-------------------------- MODULE EventQueueProofs --------------------------
(***************************************************************************)
(* Proofs about EventQueue, for every channel depth, number of slots and   *)
(* number of events. Receiving moves an event from the channel to what was *)
(* received and leaves their concatenation (Stream) alone; every send      *)
(* appends one event to it. So the partition of the produced events into   *)
(* streamed, retrying, held and dropped is preserved step by step.         *)
(***************************************************************************)
EXTENDS EventQueue, FiniteSetTheorems, SequenceTheorems, TLAPS

Ids == 1..MaxEvents

\* A retry task exists only for an event recorded as retried, and the event
\* the waiting informer holds is the last one produced.
RetryInv ==
  /\ retrying \subseteq retried
  /\ informer = "acquire" => produced \in Ids

IInv ==
  /\ TypeOK
  /\ RetryInv
  /\ Conserved
  /\ BackpressureNotLoss
  /\ OvertakenOnlyIfRetried

-----------------------------------------------------------------------------
(* Stream *)

\* A send appends to the stream.
LEMMA StreamSend ==
  ASSUME NEW S, NEW o \in Seq(S), NEW q \in Seq(S), NEW e \in S
  PROVE  o \o Append(q, e) = Append(o \o q, e)
<1>1. Append(q, e) = q \o <<e>> /\ <<e>> \in Seq(S)
  BY AppendIsConcat
<1>2. o \o q \in Seq(S) /\ Append(o \o q, e) = (o \o q) \o <<e>>
  BY ConcatProperties, AppendIsConcat
<1> QED
  BY <1>1, <1>2, ConcatAssociative

\* A receive leaves the stream alone.
LEMMA StreamReceive ==
  ASSUME NEW S, NEW o \in Seq(S), NEW q \in Seq(S), q # <<>>
  PROVE  Append(o, Head(q)) \o Tail(q) = o \o q
<1>1. /\ Head(q) \in S /\ Head(q) = q[1] /\ Tail(q) \in Seq(S)
      /\ Len(q) \in Nat \ {0}
      /\ Len(Tail(q)) = Len(q) - 1
      /\ \A i \in 1..Len(Tail(q)) : Tail(q)[i] = q[i + 1]
  BY HeadTailProperties, EmptySeq
<1> DEFINE a == Append(o, Head(q))
           l == a \o Tail(q)
           r == o \o q
<1>2. /\ a \in Seq(S) /\ Len(a) = Len(o) + 1 /\ Len(o) \in Nat
      /\ \A i \in 1..Len(o) : a[i] = o[i]
      /\ a[Len(o) + 1] = q[1]
  BY <1>1, AppendProperties, LenProperties
<1>3. /\ l \in Seq(S) /\ Len(l) = Len(a) + Len(Tail(q))
      /\ \A i \in 1..Len(a) + Len(Tail(q)) :
            l[i] = IF i <= Len(a) THEN a[i] ELSE Tail(q)[i - Len(a)]
  BY <1>1, <1>2, ConcatProperties
<1>4. /\ r \in Seq(S) /\ Len(r) = Len(o) + Len(q)
      /\ \A i \in 1..Len(o) + Len(q) :
            r[i] = IF i <= Len(o) THEN o[i] ELSE q[i - Len(o)]
  BY ConcatProperties
<1> HIDE DEF a, l, r
<1>5. Len(l) = Len(r)
  BY <1>1, <1>2, <1>3, <1>4
<1>6. ASSUME NEW i \in 1..Len(l) PROVE l[i] = r[i]
  <2>1. i \in Nat /\ i \in 1..Len(o) + Len(q) /\ i \in 1..Len(a) + Len(Tail(q))
    BY <1>1, <1>2, <1>3, <1>4, <1>5
  <2>2. CASE i <= Len(o)
    <3>1. i <= Len(a) /\ i \in 1..Len(o)
      BY <2>1, <2>2, <1>2
    <3>2. l[i] = a[i]
      BY <2>1, <3>1, <1>3
    <3>3. r[i] = o[i]
      BY <2>1, <2>2, <1>4
    <3> QED
      BY <3>1, <3>2, <3>3, <1>2
  <2>3. CASE i = Len(o) + 1
    <3>1. i <= Len(a) /\ ~(i <= Len(o)) /\ i - Len(o) = 1
      BY <2>1, <2>3, <1>2
    <3>2. l[i] = a[i]
      BY <2>1, <3>1, <1>3
    <3>3. r[i] = q[i - Len(o)]
      BY <2>1, <3>1, <1>4
    <3> QED
      BY <2>3, <3>1, <3>2, <3>3, <1>2
  <2>4. CASE i > Len(o) + 1
    <3>1. ~(i <= Len(a)) /\ ~(i <= Len(o)) /\ i - Len(a) \in 1..Len(Tail(q))
      BY <2>1, <2>4, <1>1, <1>2
    <3>2. l[i] = Tail(q)[i - Len(a)]
      BY <2>1, <3>1, <1>3
    <3>3. r[i] = q[i - Len(o)]
      BY <2>1, <3>1, <1>4
    <3>4. (i - Len(a)) + 1 = i - Len(o)
      BY <2>1, <1>2
    <3> QED
      BY <3>1, <3>2, <3>3, <3>4, <1>1
  <2> QED
    BY <2>1, <2>2, <2>3, <2>4, <1>2
<1> QED
  BY <1>3, <1>4, <1>5, <1>6, SeqEqual DEF l, r, a

\* The stream after one more event.
LEMMA StreamAppend ==
  ASSUME NEW q \in Seq(Ids), NEW e \in Ids, e \notin Elems(q),
         \A i, j \in 1..Len(q) : q[i] = q[j] => i = j
  PROVE  /\ Append(q, e) \in Seq(Ids)
         /\ Elems(Append(q, e)) = Elems(q) \cup {e}
         /\ \A i, j \in 1..Len(Append(q, e)) :
               Append(q, e)[i] = Append(q, e)[j] => i = j
<1> DEFINE a == Append(q, e)
<1>1. /\ a \in Seq(Ids) /\ Len(a) = Len(q) + 1 /\ Len(q) \in Nat
      /\ \A i \in 1..Len(q) : a[i] = q[i]
      /\ a[Len(q) + 1] = e
  BY AppendProperties, LenProperties
<1> HIDE DEF a
<1>2. \A i \in 1..Len(a) : i = Len(q) + 1 \/ i \in 1..Len(q)
  BY <1>1
<1>3. 1..Len(q) \subseteq 1..Len(a) /\ Len(q) + 1 \in 1..Len(a)
  BY <1>1
<1>4. Elems(a) = Elems(q) \cup {e}
  BY <1>1, <1>2, <1>3 DEF Elems
<1>5. \A i, j \in 1..Len(a) : a[i] = a[j] => i = j
  BY <1>1, <1>2 DEF Elems
<1> QED
  BY <1>1, <1>4, <1>5 DEF a

\* Order after one more event: it may be behind larger ones only if retried.
LEMMA OrderAppend ==
  ASSUME NEW q \in Seq(Ids), NEW e \in Ids, NEW R,
         \A i, j \in 1..Len(q) : i < j /\ q[i] > q[j] => q[j] \in R,
         e \in R \/ (\A i \in 1..Len(q) : ~(q[i] > e))
  PROVE  \A i, j \in 1..Len(Append(q, e)) :
            i < j /\ Append(q, e)[i] > Append(q, e)[j] => Append(q, e)[j] \in R
<1> DEFINE a == Append(q, e)
<1>1. /\ Len(a) = Len(q) + 1 /\ Len(q) \in Nat
      /\ \A i \in 1..Len(q) : a[i] = q[i]
      /\ a[Len(q) + 1] = e
  BY AppendProperties, LenProperties
<1> HIDE DEF a
<1>2. ASSUME NEW i \in 1..Len(a), NEW j \in 1..Len(a), i < j, a[i] > a[j]
      PROVE  a[j] \in R
  <2>1. i \in 1..Len(q)
    BY <1>1, <1>2
  <2>2. CASE j = Len(q) + 1
    BY <1>1, <1>2, <2>1, <2>2
  <2>3. CASE j # Len(q) + 1
    <3>1. j \in 1..Len(q)
      BY <1>1, <2>3
    <3> QED
      BY <1>1, <1>2, <2>1, <3>1
  <2> QED
    BY <2>2, <2>3
<1> QED
  BY <1>2 DEF a

\* What IInv says of the stream.
LEMMA StreamFacts ==
  ASSUME IInv
  PROVE  /\ out \in Seq(Ids) /\ queue \in Seq(Ids) /\ Stream \in Seq(Ids)
         /\ produced \in Nat /\ Elems(Stream) \subseteq 1..produced
         /\ \A i \in 1..Len(Stream) : Stream[i] \in 1..produced
<1>1. out \in Seq(Ids) /\ queue \in Seq(Ids) /\ produced \in Nat
  BY BoundAssumption DEF IInv, TypeOK, Ids
<1>2. Stream \in Seq(Ids)
  BY <1>1, ConcatProperties DEF Stream
<1>3. Elems(Stream) \subseteq 1..produced
  BY DEF IInv, Conserved
<1> QED
  BY <1>1, <1>2, <1>3 DEF Elems

LEMMA RetryingFinite == IInv => IsFiniteSet(retrying)
<1> SUFFICES ASSUME IInv PROVE IsFiniteSet(retrying)
  OBVIOUS
<1>1. IsFiniteSet(1..MaxEvents)
  BY BoundAssumption, FS_Interval
<1>2. retrying \subseteq 1..MaxEvents
  BY DEF IInv, TypeOK
<1> QED
  BY <1>1, <1>2, FS_Subset

-----------------------------------------------------------------------------
(* One lemma per action *)

LEMMA InitInv == Init => IInv
<1> SUFFICES ASSUME Init PROVE IInv
  OBVIOUS
<1> USE DEF Init
<1>1. Stream = <<>> /\ Len(Stream) = 0 /\ Elems(Stream) = {}
  BY ConcatEmptySeq, EmptySeq DEF Stream, Elems
<1>2. TypeOK
  <2>1. <<>> \in Seq(1..MaxEvents) /\ Len(<<>>) <= Depth
    BY EmptySeq, DepthAssumption
  <2>2. produced \in 0..MaxEvents
    BY BoundAssumption
  <2> QED
    BY <2>1, <2>2 DEF TypeOK
<1>3. Conserved
  BY <1>1 DEF Conserved, Held
<1>4. BackpressureNotLoss
  BY FS_EmptySet, SlotsAssumption DEF BackpressureNotLoss
<1>5. OvertakenOnlyIfRetried
  BY <1>1 DEF OvertakenOnlyIfRetried
<1>6. RetryInv
  BY DEF RetryInv
<1> QED
  BY <1>2, <1>3, <1>4, <1>5, <1>6 DEF IInv

LEMMA EnqueueSendInv == IInv /\ EnqueueSend => IInv'
<1> SUFFICES ASSUME IInv, EnqueueSend PROVE IInv'
  OBVIOUS
<1> USE DEF EnqueueSend
<1> DEFINE e == produced + 1
<1>0. e \in Ids /\ produced \in Nat /\ e \notin 1..produced /\ 1..e = 1..produced \cup {e}
  BY BoundAssumption DEF IInv, TypeOK, Ids
<1>1. Stream' = Append(Stream, e) /\ Stream \in Seq(Ids) /\ queue' \in Seq(Ids)
      /\ Len(queue') = Len(queue) + 1
  BY <1>0, StreamFacts, StreamSend, AppendProperties DEF Stream
<1>2. /\ Elems(Stream') = Elems(Stream) \cup {e}
      /\ \A i, j \in 1..Len(Stream') : Stream'[i] = Stream'[j] => i = j
  BY <1>0, <1>1, StreamFacts, StreamAppend DEF IInv, Conserved
<1>3. TypeOK'
  BY <1>0, <1>1, DepthAssumption DEF IInv, TypeOK, Full, Ids
<1>4. Conserved'
  <2>1. Held = {} /\ Held' = {} /\ produced' = e
    BY DEF Held
  <2>2. retrying \subseteq 1..produced /\ dropped \subseteq 1..produced
    BY DEF IInv, Conserved
  <2>3. Elems(Stream') \cap (retrying \cup dropped) = {}
    BY <1>0, <1>2, <2>1, <2>2 DEF IInv, Conserved
  <2>4. 1..e = Elems(Stream') \cup retrying \cup dropped
    BY <1>0, <1>2, <2>1 DEF IInv, Conserved
  <2> HIDE DEF e
  <2> QED
    BY <1>2, <2>1, <2>3, <2>4 DEF IInv, Conserved
<1>5. OvertakenOnlyIfRetried'
  <2>1. \A i \in 1..Len(Stream) : ~(Stream[i] > e)
    BY <1>0, StreamFacts
  <2> QED
    BY <1>0, <1>1, <2>1, OrderAppend DEF IInv, OvertakenOnlyIfRetried
<1> QED
  BY <1>0, <1>3, <1>4, <1>5 DEF IInv, RetryInv, BackpressureNotLoss

LEMMA EnqueueFullInv == IInv /\ EnqueueFull => IInv'
<1> SUFFICES ASSUME IInv, EnqueueFull PROVE IInv'
  OBVIOUS
<1> USE DEF EnqueueFull
<1> DEFINE e == produced + 1
<1>0. e \in Ids /\ produced \in Nat /\ e \notin 1..produced /\ 1..e = 1..produced \cup {e}
  BY BoundAssumption DEF IInv, TypeOK, Ids
<1>1. Stream' = Stream
  BY DEF Stream
<1>2. TypeOK'
  BY <1>0 DEF IInv, TypeOK, Ids
<1>3. Conserved'
  BY <1>0, <1>1 DEF IInv, Conserved, Held
<1> QED
  BY <1>0, <1>1, <1>2, <1>3
  DEF IInv, RetryInv, BackpressureNotLoss, OvertakenOnlyIfRetried

LEMMA AcquireSlotInv == IInv /\ AcquireSlot => IInv'
<1> SUFFICES ASSUME IInv, AcquireSlot PROVE IInv'
  OBVIOUS
<1> USE DEF AcquireSlot
<1>1. Stream' = Stream
  BY DEF Stream
<1>2. TypeOK'
  BY DEF IInv, TypeOK, RetryInv, Ids
<1>3. Conserved'
  BY <1>1 DEF IInv, Conserved, Held, Elems
<1>4. BackpressureNotLoss'
  <2>1. IsFiniteSet(retrying)
    BY RetryingFinite
  <2>2. Cardinality(retrying) \in Nat
    BY <2>1, FS_CardinalityType
  <2>3. Cardinality(retrying \cup {produced}) <= Cardinality(retrying) + 1
    BY <2>1, <2>2, FS_AddElement
  <2>4. Cardinality(retrying \cup {produced}) \in Nat
    BY <2>1, FS_AddElement, FS_CardinalityType
  <2> QED
    BY <2>2, <2>3, <2>4, SlotsAssumption DEF IInv, BackpressureNotLoss
<1>5. OvertakenOnlyIfRetried'
  BY <1>1 DEF IInv, OvertakenOnlyIfRetried
<1> QED
  BY <1>2, <1>3, <1>4, <1>5 DEF IInv, RetryInv

LEMMA AcquireCancelledInv == IInv /\ AcquireCancelled => IInv'
<1> SUFFICES ASSUME IInv, AcquireCancelled PROVE IInv'
  OBVIOUS
<1> USE DEF AcquireCancelled
<1>1. Stream' = Stream
  BY DEF Stream
<1>2. TypeOK'
  BY DEF IInv, TypeOK, RetryInv, Ids
<1>3. Conserved'
  BY <1>1 DEF IInv, Conserved, Held, Elems
<1> QED
  BY <1>1, <1>2, <1>3
  DEF IInv, RetryInv, BackpressureNotLoss, OvertakenOnlyIfRetried

LEMMA RetrySendInv ==
  ASSUME NEW e \in Ids, IInv, RetrySend(e) PROVE IInv'
<1> USE DEF RetrySend
<1>1. Stream' = Append(Stream, e) /\ Stream \in Seq(Ids) /\ queue' \in Seq(Ids)
      /\ Len(queue') = Len(queue) + 1
  BY StreamFacts, StreamSend, AppendProperties DEF Stream
<1>2. /\ Elems(Stream') = Elems(Stream) \cup {e}
      /\ \A i, j \in 1..Len(Stream') : Stream'[i] = Stream'[j] => i = j
  <2>1. e \notin Elems(Stream)
    BY DEF IInv, Conserved
  <2> QED
    BY <1>1, <2>1, StreamAppend DEF IInv, Conserved
<1>3. TypeOK'
  BY <1>1, DepthAssumption DEF IInv, TypeOK, Full, Ids
<1>4. Conserved'
  BY <1>2 DEF IInv, Conserved, Held
<1>5. BackpressureNotLoss'
  <2>1. IsFiniteSet(retrying)
    BY RetryingFinite
  <2>2. Cardinality(retrying') <= Cardinality(retrying) /\ IsFiniteSet(retrying')
    BY <2>1, FS_Subset
  <2> QED
    BY <2>1, <2>2, FS_CardinalityType, SlotsAssumption DEF IInv, BackpressureNotLoss
<1>6. OvertakenOnlyIfRetried'
  BY <1>1, OrderAppend DEF IInv, OvertakenOnlyIfRetried, RetryInv
<1> QED
  BY <1>3, <1>4, <1>5, <1>6 DEF IInv, RetryInv

LEMMA RetryCancelledInv ==
  ASSUME NEW e \in Ids, IInv, RetryCancelled(e) PROVE IInv'
<1> USE DEF RetryCancelled
<1>1. Stream' = Stream
  BY DEF Stream
<1>2. TypeOK'
  BY DEF IInv, TypeOK, Ids
<1>3. Conserved'
  BY <1>1 DEF IInv, Conserved, Held, Elems
<1>4. BackpressureNotLoss'
  <2>1. IsFiniteSet(retrying)
    BY RetryingFinite
  <2>2. Cardinality(retrying') <= Cardinality(retrying) /\ IsFiniteSet(retrying')
    BY <2>1, FS_Subset
  <2> QED
    BY <2>1, <2>2, FS_CardinalityType, SlotsAssumption DEF IInv, BackpressureNotLoss
<1> QED
  BY <1>1, <1>2, <1>3, <1>4 DEF IInv, RetryInv, OvertakenOnlyIfRetried

LEMMA FanOutRecvInv == IInv /\ FanOutRecv => IInv'
<1> SUFFICES ASSUME IInv, FanOutRecv PROVE IInv'
  OBVIOUS
<1> USE DEF FanOutRecv
<1>1. Stream' = Stream
  BY StreamFacts, StreamReceive DEF Stream
<1>2. TypeOK'
  <2>1. /\ Head(queue) \in Ids /\ queue' \in Seq(Ids) /\ Len(queue') = Len(queue) - 1
        /\ Len(queue) \in Nat
    BY StreamFacts, HeadTailProperties, LenProperties
  <2>2. out' \in Seq(Ids)
    BY <2>1, StreamFacts, AppendProperties
  <2> QED
    BY <2>1, <2>2, DepthAssumption DEF IInv, TypeOK, Ids
<1>3. Conserved'
  BY <1>1 DEF IInv, Conserved, Held, Elems
<1> QED
  BY <1>1, <1>2, <1>3
  DEF IInv, RetryInv, BackpressureNotLoss, OvertakenOnlyIfRetried

\* Stopping the informer and cancelling the token move no event.
LEMMA QuietInv ==
  IInv /\ (InformerStop \/ Cancel \/ UNCHANGED vars) => IInv'
<1> SUFFICES ASSUME IInv, InformerStop \/ Cancel \/ UNCHANGED vars PROVE IInv'
  OBVIOUS
<1> USE DEF InformerStop, Cancel, vars
<1>1. Stream' = Stream
  BY DEF Stream
<1>2. TypeOK'
  BY DEF IInv, TypeOK
<1>3. Conserved'
  BY <1>1 DEF IInv, Conserved, Held, Elems
<1> QED
  BY <1>1, <1>2, <1>3
  DEF IInv, RetryInv, BackpressureNotLoss, OvertakenOnlyIfRetried

LEMMA NextInv == IInv /\ [Next]_vars => IInv'
  BY EnqueueSendInv, EnqueueFullInv, AcquireSlotInv, AcquireCancelledInv,
     RetrySendInv, RetryCancelledInv, FanOutRecvInv, QuietInv
  DEF Next, Ids

LEMMA Inductive == Spec => []IInv
  BY InitInv, NextInv, PTL DEF Spec

-----------------------------------------------------------------------------
\* No event is lost or duplicated between the handler and fan_out.
THEOREM QueueConserves == Spec => []Conserved
<1>1. IInv => Conserved
  BY DEF IInv
<1> QED
  BY <1>1, Inductive, PTL

\* A full channel with all slots busy blocks the informer; nothing is
\* given up before cancellation.
THEOREM QueueBackpressure == Spec => []BackpressureNotLoss
<1>1. IInv => BackpressureNotLoss
  BY DEF IInv
<1> QED
  BY <1>1, Inductive, PTL

\* Only events that were retried can be overtaken.
THEOREM QueueOrder == Spec => []OvertakenOnlyIfRetried
<1>1. IInv => OvertakenOnlyIfRetried
  BY DEF IInv
<1> QED
  BY <1>1, Inductive, PTL
=============================================================================
