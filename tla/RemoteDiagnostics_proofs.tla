--------------------- MODULE RemoteDiagnostics_proofs ---------------------
(***************************************************************************)
(* Theorems about RemoteDiagnostics, for every capacity, number of events  *)
(* and set of codes: its invariants, that it implements EventRelay, and    *)
(* that its tasks never wait for ever.                                     *)
(***************************************************************************)
EXTENDS RemoteDiagnostics, SequenceTheorems, TLAPS

\* s is wholly older than t.
Before(s, t) == \A i \in DOMAIN s, j \in DOMAIN t : s[i] < t[j]

\* Everything in s is older than the event n.
Below(s, n) == \A i \in DOMAIN s : s[i] < n

-----------------------------------------------------------------------------
(* Lemmas on sequences of events.                                          *)

\* Pushing a younger event at the back of an increasing sequence keeps it so.
LEMMA IncreasingAppend ==
  ASSUME NEW s \in Seq(Nat), NEW e \in Nat, Increasing(s), Below(s, e)
  PROVE  Increasing(Append(s, e))
BY DEF Increasing, Below

\* What Append returns.
LEMMA PushBack ==
  ASSUME NEW S, NEW s \in Seq(S), NEW e \in S
  PROVE  /\ Append(s, e) \in Seq(S)
         /\ Append(s, e) # <<>>
         /\ Len(Append(s, e)) = Len(s) + 1
<1>1. Append(s, e) \in Seq(S)
  BY AppendProperties
<1>2. Append(s, e) # <<>>
  BY AppendProperties
<1>3. Len(Append(s, e)) = Len(s) + 1
  BY AppendProperties
<1> QED BY <1>1, <1>2, <1>3

\* A sequence with one element pushed at its back, place by place.
LEMMA Pushed ==
  ASSUME NEW s \in Seq(Nat), NEW e \in Nat
  PROVE  /\ DOMAIN Append(s, e) = 1 .. Len(s) + 1 /\ Len(Append(s, e)) = Len(s) + 1
         /\ DOMAIN s = 1 .. Len(s) /\ Len(s) \in Nat
         /\ \A i \in 1 .. Len(s) : Append(s, e)[i] = s[i] /\ i \in DOMAIN s /\ s[i] \in Nat
         /\ Append(s, e)[Len(s) + 1] = e
         /\ \A i \in DOMAIN Append(s, e) : i \in 1 .. Len(s) \/ i = Len(s) + 1
<1>1. Len(s) \in Nat /\ DOMAIN s = 1 .. Len(s) /\ \A i \in 1 .. Len(s) : s[i] \in Nat
  BY LenProperties
<1>2. /\ Append(s, e) \in Seq(Nat) /\ Len(Append(s, e)) = Len(s) + 1
      /\ Append(s, e)[Len(s) + 1] = e
      /\ \A i \in 1 .. Len(s) : Append(s, e)[i] = s[i]
  BY AppendProperties
<1>3. DOMAIN Append(s, e) = 1 .. Len(s) + 1
  BY <1>2, LenProperties
<1>4. \A i \in 1 .. Len(s) + 1 : i \in 1 .. Len(s) \/ i = Len(s) + 1
  BY <1>1
<1> QED BY <1>1, <1>2, <1>3, <1>4

\* Joining two increasing sequences, the older one first, keeps the order.
LEMMA IncreasingConcat ==
  ASSUME NEW s \in Seq(Nat), NEW t \in Seq(Nat),
         Increasing(s), Increasing(t), Before(s, t)
  PROVE  Increasing(s \o t)
BY SMTT(20), ConcatProperties DEF Increasing, Before

\* Dropping the head of a sequence keeps its order.
LEMMA IncreasingTail ==
  ASSUME NEW s \in Seq(Nat), s # <<>>, Increasing(s)
  PROVE  Increasing(Tail(s))
BY SMTT(20), HeadTailProperties DEF Increasing

\* Being older than u, or below n, survives joining, pushing and dropping.
LEMMA ConcatBefore ==
  ASSUME NEW s \in Seq(Nat), NEW t \in Seq(Nat), NEW u \in Seq(Nat),
         Before(s, u), Before(t, u)
  PROVE  Before(s \o t, u)
<1> SUFFICES ASSUME NEW i \in DOMAIN (s \o t), NEW j \in DOMAIN u
             PROVE  (s \o t)[i] < u[j]
  BY DEF Before
<1>1. /\ i \in 1 .. Len(s) + Len(t)
      /\ (s \o t)[i] = IF i <= Len(s) THEN s[i] ELSE t[i - Len(s)]
  BY ConcatProperties
<1> QED
  BY SMTT(20), <1>1 DEF Before

\* Joining keeps below n what was below n.
LEMMA ConcatBelow ==
  ASSUME NEW s \in Seq(Nat), NEW t \in Seq(Nat), NEW n \in Nat,
         Below(s, n), Below(t, n)
  PROVE  Below(s \o t, n)
BY ConcatProperties DEF Below

\* Pushing an event younger than s keeps s before the whole.
LEMMA BeforePush ==
  ASSUME NEW s \in Seq(Nat), NEW t \in Seq(Nat), NEW n \in Nat,
         Before(s, t), Below(s, n)
  PROVE  Before(s, Append(t, n))
BY SMTT(20) DEF Before, Below

\* A pushed event raises the bound to its successor.
LEMMA BelowPush ==
  ASSUME NEW s \in Seq(Nat), NEW n \in Nat, Below(s, n)
  PROVE  Below(Append(s, n), n + 1)
BY DEF Below

\* Being before t survives dropping the head of t.
LEMMA TailBefore ==
  ASSUME NEW s \in Seq(Nat), NEW t \in Seq(Nat), t # <<>>, Before(s, t)
  PROVE  Before(s, Tail(t))
BY HeadTailProperties DEF Before

\* Being below n survives dropping the head.
LEMMA TailBelow ==
  ASSUME NEW s \in Seq(Nat), s # <<>>, NEW n \in Nat, Below(s, n)
  PROVE  Below(Tail(s), n)
BY HeadTailProperties DEF Below

\* Being below a bound is being below every larger one.
LEMMA BelowLater ==
  ASSUME NEW s \in Seq(Nat), NEW m \in Nat, NEW n \in Nat, m <= n, Below(s, m)
  PROVE  Below(s, n)
BY DEF Below

\* The empty sequence is in order, and before and after everything.
LEMMA EmptyOrder ==
  ASSUME NEW s \in Seq(Nat), NEW n \in Nat
  PROVE  /\ Increasing(<<>>) /\ Below(<<>>, n)
         /\ Before(<<>>, s) /\ Before(s, <<>>)
BY DEF Increasing, Below, Before

-----------------------------------------------------------------------------
(* Type correctness.  A flush is only ever under way with something in the *)
(* ring, which is what makes Last(ring) an event in FlushFailed.           *)

TypeInv == TypeOK /\ (Flushing => ring # <<>>)

\* The initial state is well typed.
LEMMA InitTypeInv == Init => TypeInv
<1> SUFFICES ASSUME Init PROVE TypeInv
  OBVIOUS
<1>1. Len(log) = 0 /\ Len(ring) = 0 /\ Len(chan) = 0
  BY DEF Init
<1>2. /\ log \in Seq(Codes) /\ ring \in Seq(Event) /\ chan \in Seq(Seq(Event))
      /\ inflight \in Seq(Event) /\ arrived \in Seq(Event)
  BY EmptySeq DEF Init
<1>3. lost \in [LossReason -> SUBSET Event]
  BY DEF Init
<1>4. Len(ring) <= RingCap /\ Len(chan) <= ChanCap
  BY ConstantsAssumption, <1>1
<1>5. rx \in 1 .. Len(log) + 1 /\ failedUpTo \in 0 .. Len(log)
  BY <1>1 DEF Init
<1>6. backoff \in 0 .. MaxBackoff
  BY ConstantsAssumption DEF Init
<1>7. open \in BOOLEAN /\ aborting \in BOOLEAN /\ failures \in Nat
  BY DEF Init
<1>8. accepted \subseteq Event /\ bpc = "select" /\ ppc = "recv"
  BY DEF Init
<1> QED
  BY <1>2, <1>3, <1>4, <1>5, <1>6, <1>7, <1>8 DEF TypeInv, TypeOK, Flushing

\* Losing events keeps the type of the loss sets.
LEMMA LoseType ==
  ASSUME TypeInv, NEW reason \in LossReason, NEW events \in SUBSET Event,
         Lose(reason, events)
  PROVE  lost' \in [LossReason -> SUBSET Event]
BY DEF Lose, TypeInv, TypeOK

\* The elements of a sequence of events are events.
LEMMA RangeOfEvents == \A s \in Seq(Event) : Range(s) \in SUBSET Event
BY DEF Range

\* Every step of the client, the tasks and the endpoint keeps the types.
LEMMA NextTypeInv == TypeInv /\ [Next]_vars => TypeInv'
<1> SUFFICES ASSUME TypeInv, [Next]_vars PROVE TypeInv'
  OBVIOUS
<1> USE ConstantsAssumption DEF TypeInv, TypeOK, Event, Flushing
<1>1. ASSUME NEW code \in Codes, Broadcast(code) PROVE TypeInv'
  <2>1. log' \in Seq(Codes) /\ Len(log') = Len(log) + 1
    BY <1>1 DEF Broadcast
  <2>2. Event \subseteq Event'
    BY <2>1
  <2>3. ring \in Seq(Event') /\ inflight \in Seq(Event') /\ arrived \in Seq(Event')
    BY <2>2, SeqMonotonic
  <2>4. Seq(Event) \subseteq Seq(Event')
    BY <2>2, SeqMonotonic
  <2>5. chan \in Seq(Seq(Event'))
    BY <2>4, SeqMonotonic
  <2>6. accepted \subseteq Event' /\ lost \in [LossReason -> SUBSET Event']
    BY <2>2
  <2> QED
    BY SMTT(20), <1>1, <2>1, <2>3, <2>5, <2>6
       DEF Broadcast, batcherVars, pollerVars
<1>2. CASE DropSenders
  BY <1>2 DEF DropSenders, batcherVars, pollerVars
<1>3. CASE Abort
  BY <1>3 DEF Abort, batcherVars, pollerVars
<1>4. CASE BatcherRecv
  <2>1. rx \in Event
    BY <1>4 DEF BatcherRecv, Unread
  <2>2. CASE RingFull
    <3>1. ring # <<>> /\ Head(ring) \in Event /\ Tail(ring) \in Seq(Event)
      BY <2>2, HeadTailProperties DEF RingFull
    <3>2. /\ Append(Tail(ring), rx) \in Seq(Event)
          /\ Append(Tail(ring), rx) # <<>>
          /\ Len(Append(Tail(ring), rx)) = Len(Tail(ring)) + 1
      BY <2>1, <3>1, PushBack
    <3>2a. Len(Tail(ring)) + 1 = Len(ring)
      BY <3>1, HeadTailProperties
    <3>3. ring' = Append(Tail(ring), rx) /\ Lose("evicted", {Head(ring)})
      BY <1>4, <2>2 DEF BatcherRecv
    <3>4. lost' \in [LossReason -> SUBSET Event]
      BY <3>1, <3>3, LoseType DEF LossReason
    <3>5. ring' \in Seq(Event) /\ ring' # <<>> /\ Len(ring') <= RingCap
      BY <3>2, <3>2a, <3>3
    <3>6. rx' \in 1 .. Len(log) + 1 /\ bpc' \in {"flush", "select"}
      BY <1>4, <2>1 DEF BatcherRecv
    <3> QED
      BY <1>4, <3>4, <3>5, <3>6 DEF BatcherRecv, pollerVars
  <2>3. CASE ~RingFull
    <3>1. ring' = Append(ring, rx) /\ lost' = lost
      BY <1>4, <2>3 DEF BatcherRecv
    <3>2. /\ Append(ring, rx) \in Seq(Event)
          /\ Append(ring, rx) # <<>>
          /\ Len(Append(ring, rx)) = Len(ring) + 1
      BY <2>1, PushBack
    <3>3. Len(ring) + 1 <= RingCap
      BY <2>3 DEF RingFull
    <3> QED
      BY SMTT(20), <1>4, <2>1, <3>1, <3>2, <3>3 DEF BatcherRecv, pollerVars
  <2> QED BY <2>2, <2>3
<1>5. CASE BatcherLagged
  <2>1. lost' \in [LossReason -> SUBSET Event]
    <3>1. rx .. Len(log) - BroadcastCap \in SUBSET Event
      OBVIOUS
    <3> QED
      BY <1>5, <3>1, LoseType DEF BatcherLagged, LossReason
  <2>2. rx' \in 1 .. Len(log) + 1
    BY <1>5 DEF BatcherLagged, Unread
  <2> QED
    BY <1>5, <2>1, <2>2 DEF BatcherLagged, pollerVars
<1>6. CASE BatcherClosed
  BY <1>6 DEF BatcherClosed, pollerVars
<1>7. CASE BatcherTick
  BY <1>7 DEF BatcherTick, pollerVars
<1>8. CASE FlushSent
  <2>1. chan' \in Seq(Seq(Event)) /\ Len(chan') <= ChanCap
    BY <1>8, AppendProperties DEF FlushSent
  <2>2. ring' = <<>> /\ ring' \in Seq(Event) /\ Len(ring') = 0
    BY <1>8, EmptySeq DEF FlushSent
  <2>3. bpc' \in {"select", "done"}
    BY <1>8 DEF FlushSent
  <2> QED
    BY <1>8, <2>1, <2>2, <2>3 DEF FlushSent, pollerVars
<1>9. CASE FlushFailed
  <2>1. Last(ring) \in Event
    BY <1>9, ElementOfSeq DEF FlushFailed, Last
  <2>2. CASE bpc = "flush"
    BY <1>9, <2>1, <2>2 DEF FlushFailed, pollerVars
  <2>3. CASE bpc = "closing"
    <3>1. ring' = <<>> /\ ring' \in Seq(Event) /\ Len(ring') = 0
      BY <1>9, <2>3, EmptySeq DEF FlushFailed
    <3>2. lost' \in [LossReason -> SUBSET Event]
      BY <1>9, <2>3, RangeOfEvents, LoseType DEF FlushFailed, LossReason
    <3> QED
      BY <1>9, <2>1, <2>3, <3>1, <3>2 DEF FlushFailed, pollerVars
  <2> QED BY <1>9, <2>2, <2>3 DEF FlushFailed
<1>10. CASE KillBatcher
  <2>1. ring' = <<>> /\ ring' \in Seq(Event) /\ Len(ring') = 0
    BY <1>10, EmptySeq DEF KillBatcher
  <2>2. lost' \in [LossReason -> SUBSET Event]
    BY <1>10, RangeOfEvents, LoseType DEF KillBatcher, LossReason
  <2> QED
    BY <1>10, <2>1, <2>2 DEF KillBatcher, pollerVars
<1>11. CASE PollerRecv
  <2>1. Head(chan) \in Seq(Event) /\ Tail(chan) \in Seq(Seq(Event))
        /\ Len(Tail(chan)) <= ChanCap
    BY SMTT(20), <1>11, HeadTailProperties DEF PollerRecv
  <2> QED
    BY <1>11, <2>1 DEF PollerRecv, batcherVars
<1>12. CASE PollerClosed
  BY <1>12 DEF PollerClosed, batcherVars
<1>13. CASE EndpointReceives
  <2>1. arrived' \in Seq(Event)
    BY <1>13, ConcatProperties DEF EndpointReceives
  <2> QED
    BY <1>13, <2>1 DEF EndpointReceives, batcherVars
<1>14. CASE PostOk
  BY <1>14, RangeOfEvents, EmptySeq DEF PostOk, batcherVars
<1>15. CASE PostRateLimited
  <2>1. lost' \in [LossReason -> SUBSET Event]
    BY <1>15, RangeOfEvents, LoseType DEF PostRateLimited, LossReason
  <2> QED
    BY <1>15, <2>1, EmptySeq DEF PostRateLimited, batcherVars
<1>16. CASE PostFailed
  <2>1. lost' \in [LossReason -> SUBSET Event]
    BY <1>16, RangeOfEvents, LoseType DEF PostFailed, LossReason
  <2>2. backoff' \in 0 .. MaxBackoff
    <3>1. (failures + 1) * IntervalSecs \in Nat
      OBVIOUS
    <3> QED
      BY <1>16, <3>1 DEF PostFailed
  <2> QED
    BY <1>16, <2>1, <2>2, EmptySeq DEF PostFailed, batcherVars
<1>17. CASE BackoffEnds
  BY <1>17 DEF BackoffEnds, batcherVars
<1>18. CASE KillPoller
  <2>1. Range(inflight) \union Queued \in SUBSET Event
    <3>1. \A k \in DOMAIN chan : chan[k] \in Seq(Event)
      OBVIOUS
    <3> QED
      BY <3>1, RangeOfEvents DEF Queued
  <2>2. lost' \in [LossReason -> SUBSET Event]
    BY <1>18, <2>1, LoseType DEF KillPoller, LossReason
  <2>3. chan' = <<>> /\ chan' \in Seq(Seq(Event)) /\ Len(chan') = 0
    BY <1>18, EmptySeq DEF KillPoller
  <2> QED
    BY <1>18, <2>2, <2>3, EmptySeq DEF KillPoller, batcherVars
<1>19. CASE UNCHANGED vars
  BY <1>19 DEF vars, batcherVars, pollerVars
<1> QED
  BY <1>1, <1>2, <1>3, <1>4, <1>5, <1>6, <1>7, <1>8, <1>9, <1>10, <1>11,
     <1>12, <1>13, <1>14, <1>15, <1>16, <1>17, <1>18, <1>19
     DEF Next, Environment, Batcher, PollerStep, Endpoint

\* Every variable keeps its type, and the buffers their capacities.
THEOREM TypeCorrect == Spec => []TypeOK
<1>1. Spec => []TypeInv
  BY InitTypeInv, NextTypeInv, PTL DEF Spec
<1>2. TypeInv => TypeOK
  BY DEF TypeInv
<1> QED
  BY <1>1, <1>2, PTL

-----------------------------------------------------------------------------
(* Order.  ArrivesOnceInOrder is about the end of the pipeline only; what  *)
(* is inductive is that the whole pipeline is in order: what has arrived,  *)
(* the batch being POSTed, the batches queued from first to last, the      *)
(* ring, and everything that is still to be received.                      *)

OrderInv ==
  /\ Increasing(arrived) /\ Increasing(inflight) /\ Increasing(ring)
  /\ Below(arrived, rx) /\ Below(inflight, rx) /\ Below(ring, rx)
  /\ Before(arrived, ring) /\ Before(inflight, ring)
  /\ ppc = "sending" => Before(arrived, inflight)
  /\ \A k \in DOMAIN chan :
       /\ Increasing(chan[k]) /\ Below(chan[k], rx)
       /\ Before(arrived, chan[k]) /\ Before(inflight, chan[k])
       /\ Before(chan[k], ring)
       /\ \A l \in DOMAIN chan : k < l => Before(chan[k], chan[l])

\* An empty pipeline is in order.
LEMMA InitOrderInv == Init => OrderInv
BY DEF Init, OrderInv, Increasing, Below, Before

\* Every step keeps the pipeline in order.
LEMMA NextOrderInv == TypeOK /\ TypeOK' /\ OrderInv /\ [Next]_vars => OrderInv'
<1> SUFFICES ASSUME TypeOK, TypeOK', OrderInv, [Next]_vars PROVE OrderInv'
  OBVIOUS
<1>1. /\ ring \in Seq(Nat) /\ inflight \in Seq(Nat) /\ arrived \in Seq(Nat)
      /\ rx \in Nat /\ rx' \in Nat /\ chan \in Seq(Seq(Nat))
  <2>1. Event \subseteq Nat /\ rx \in Nat /\ rx' \in Nat
    <3>1. log \in Seq(Codes) /\ log' \in Seq(Codes)
          /\ rx \in 1 .. Len(log) + 1 /\ rx' \in 1 .. Len(log') + 1
      BY DEF TypeOK
    <3>2. Len(log) \in Nat /\ Len(log') \in Nat
      BY <3>1, LenProperties
    <3> QED BY <3>1, <3>2 DEF Event
  <2>2. Seq(Event) \subseteq Seq(Nat)
    BY <2>1, SeqMonotonic
  <2>3. Seq(Seq(Event)) \subseteq Seq(Seq(Nat))
    BY <2>2, SeqMonotonic
  <2> QED
    BY <2>1, <2>2, <2>3 DEF TypeOK
<1>2. DOMAIN chan = 1 .. Len(chan) /\ \A k \in DOMAIN chan : chan[k] \in Seq(Nat)
  BY <1>1, LenProperties
<1>3. CASE BatcherRecv
  <2>1. rx' = rx + 1 /\ UNCHANGED <<chan, ppc, inflight, arrived>>
    BY <1>3 DEF BatcherRecv, pollerVars
  <2>2. PICK r \in Seq(Nat) :
          /\ ring' = Append(r, rx)
          /\ Increasing(r) /\ Below(r, rx)
          /\ Before(arrived, r) /\ Before(inflight, r)
          /\ \A k \in DOMAIN chan : Before(chan[k], r)
    <3>1. CASE RingFull
      <4>1. ring # <<>> /\ ring' = Append(Tail(ring), rx)
        BY <1>1, <1>3, <3>1, ConstantsAssumption DEF BatcherRecv, RingFull
      <4>2. Tail(ring) \in Seq(Nat) /\ Increasing(Tail(ring)) /\ Below(Tail(ring), rx)
        BY <1>1, <4>1, IncreasingTail, TailBelow, HeadTailProperties DEF OrderInv
      <4>3. Before(arrived, Tail(ring)) /\ Before(inflight, Tail(ring))
            /\ \A k \in DOMAIN chan : Before(chan[k], Tail(ring))
        BY <1>1, <1>2, <4>1, TailBefore DEF OrderInv
      <4> QED BY <4>1, <4>2, <4>3
    <3>2. CASE ~RingFull
      BY <1>1, <1>3, <3>2 DEF BatcherRecv, OrderInv
    <3> QED BY <3>1, <3>2
  <2>3. Increasing(ring') /\ Below(ring', rx')
    BY <1>1, <2>1, <2>2, IncreasingAppend, BelowPush
  <2>4. Before(arrived, ring') /\ Before(inflight, ring')
        /\ \A k \in DOMAIN chan : Before(chan[k], ring')
    BY <1>1, <1>2, <2>2, BeforePush DEF OrderInv
  <2>5. Below(arrived, rx') /\ Below(inflight, rx')
        /\ \A k \in DOMAIN chan : Below(chan[k], rx')
    BY <1>1, <1>2, <2>1, BelowLater DEF OrderInv
  <2> QED
    BY <2>1, <2>3, <2>4, <2>5 DEF OrderInv
<1>4. CASE BatcherLagged
  <2>1. rx <= rx' /\ UNCHANGED <<ring, chan, ppc, inflight, arrived>>
    BY <1>4, ConstantsAssumption DEF BatcherLagged, pollerVars, Unread, TypeOK
  <2>2. /\ Below(arrived, rx') /\ Below(inflight, rx') /\ Below(ring, rx')
        /\ \A k \in DOMAIN chan : Below(chan[k], rx')
    BY <1>1, <1>2, <2>1, BelowLater DEF OrderInv
  <2> QED
    BY <2>1, <2>2 DEF OrderInv
<1>5. CASE FlushSent
  <2>1. chan' = Append(chan, ring) /\ ring' = <<>>
        /\ UNCHANGED <<rx, ppc, inflight, arrived>>
    BY <1>5 DEF FlushSent, pollerVars
  <2>2. /\ DOMAIN chan' = 1 .. Len(chan) + 1
        /\ \A k \in DOMAIN chan : chan'[k] = chan[k]
        /\ chan'[Len(chan) + 1] = ring
        /\ \A k \in DOMAIN chan' : k \in DOMAIN chan \/ k = Len(chan) + 1
    BY <1>1, <1>2, <2>1, AppendProperties
  <2>3. \A s \in Seq(Nat) : Before(s, ring') /\ Increasing(ring') /\ Below(ring', rx)
    BY <1>1, <2>1, EmptyOrder
  <2>4. \A k \in DOMAIN chan' : chan'[k] \in Seq(Nat)
    BY <1>1, <1>2, <2>2
  <2>5. ASSUME NEW k \in DOMAIN chan'
        PROVE  /\ Increasing(chan'[k]) /\ Below(chan'[k], rx)
               /\ Before(arrived, chan'[k]) /\ Before(inflight, chan'[k])
               /\ \A l \in DOMAIN chan' : k < l => Before(chan'[k], chan'[l])
    <3>1. CASE k = Len(chan) + 1
      BY <1>1, <1>2, <2>2, <3>1 DEF OrderInv
    <3>2. CASE k \in DOMAIN chan
      <4>1. chan'[k] = chan[k]
        BY <2>2, <3>2
      <4>2. /\ Increasing(chan[k]) /\ Below(chan[k], rx)
            /\ Before(arrived, chan[k]) /\ Before(inflight, chan[k])
            /\ Before(chan[k], ring)
            /\ \A l \in DOMAIN chan : k < l => Before(chan[k], chan[l])
        BY <3>2 DEF OrderInv
      <4>3. ASSUME NEW l \in DOMAIN chan', k < l
            PROVE  Before(chan'[k], chan'[l])
        BY <2>2, <4>1, <4>2, <4>3
      <4> QED BY <4>1, <4>2, <4>3
    <3> QED BY <2>2, <3>1, <3>2
  <2> QED
    BY <1>1, <2>1, <2>3, <2>4, <2>5 DEF OrderInv
<1>6. CASE PollerRecv
  <2>1. /\ chan # <<>> /\ inflight' = Head(chan) /\ chan' = Tail(chan)
        /\ UNCHANGED <<rx, ring, arrived>>
    BY <1>6 DEF PollerRecv, batcherVars
  <2>2. /\ 1 \in DOMAIN chan /\ inflight' = chan[1]
        /\ DOMAIN chan' = 1 .. Len(chan) - 1
        /\ \A k \in DOMAIN chan' : k + 1 \in DOMAIN chan /\ chan'[k] = chan[k + 1]
    BY <1>1, <1>2, <2>1, HeadTailProperties
  <2>3. /\ Increasing(inflight') /\ Below(inflight', rx)
        /\ Before(inflight', ring) /\ Before(arrived, inflight')
    BY <2>2 DEF OrderInv
  <2>4. ASSUME NEW k \in DOMAIN chan'
        PROVE  /\ Increasing(chan'[k]) /\ Below(chan'[k], rx)
               /\ Before(arrived, chan'[k]) /\ Before(chan'[k], ring)
               /\ Before(inflight', chan'[k])
               /\ \A l \in DOMAIN chan' : k < l => Before(chan'[k], chan'[l])
    <3>1. k + 1 \in DOMAIN chan /\ chan'[k] = chan[k + 1] /\ 1 < k + 1
      BY <1>1, <1>2, <2>2
    <3>2. ASSUME NEW l \in DOMAIN chan', k < l
          PROVE  Before(chan'[k], chan'[l])
      <4>1. l + 1 \in DOMAIN chan /\ chan'[l] = chan[l + 1] /\ k + 1 < l + 1
        BY <1>1, <1>2, <2>2, <3>2
      <4> QED BY <3>1, <4>1 DEF OrderInv
    <3> QED BY <2>2, <3>1, <3>2 DEF OrderInv
  <2> QED
    BY <2>1, <2>3, <2>4 DEF OrderInv
<1>7. CASE EndpointReceives
  <2>1. /\ ppc = "sending" /\ ppc' = "waiting" /\ arrived' = arrived \o inflight
        /\ UNCHANGED <<rx, ring, chan, inflight>>
    BY <1>7 DEF EndpointReceives, batcherVars
  <2>2. Increasing(arrived') /\ Below(arrived', rx)
    BY <1>1, <2>1, IncreasingConcat, ConcatBelow DEF OrderInv
  <2>3. Before(arrived', ring) /\ \A k \in DOMAIN chan : Before(arrived', chan[k])
    BY <1>1, <1>2, <2>1, ConcatBefore DEF OrderInv
  <2> QED
    BY <2>1, <2>2, <2>3 DEF OrderInv
\* The other steps only empty buffers, or leave them alone.
<1>8. ASSUME /\ UNCHANGED <<rx, arrived>>
             /\ ring' = ring \/ ring' = <<>>
             /\ inflight' = inflight \/ inflight' = <<>>
             /\ chan' = chan \/ chan' = <<>>
             /\ ppc' = "sending" => ppc = "sending"
      PROVE  OrderInv'
  <2>1. /\ Increasing(ring') /\ Below(ring', rx) /\ ring' \in Seq(Nat)
        /\ Increasing(inflight') /\ Below(inflight', rx) /\ inflight' \in Seq(Nat)
        /\ Before(arrived, ring') /\ Before(inflight', ring')
        /\ ppc' = "sending" => Before(arrived, inflight')
    BY <1>1, <1>8, EmptyOrder, EmptySeq DEF OrderInv
  <2>2. CASE chan' = <<>>
    BY <1>1, <1>8, <2>1, <2>2 DEF OrderInv
  <2>3. CASE chan' = chan
    <3>1. \A k \in DOMAIN chan : Before(inflight', chan[k]) /\ Before(chan[k], ring')
      BY <1>1, <1>2, <1>8, EmptyOrder DEF OrderInv
    <3> QED
      BY <1>8, <2>1, <2>3, <3>1 DEF OrderInv
  <2> QED BY <1>8, <2>2, <2>3
<1>9. ASSUME NEW code \in Codes, Broadcast(code) PROVE OrderInv'
  BY <1>8, <1>9 DEF Broadcast, batcherVars, pollerVars
<1>10. CASE DropSenders \/ Abort \/ UNCHANGED vars
  BY <1>8, <1>10 DEF DropSenders, Abort, vars, batcherVars, pollerVars
<1>11. CASE BatcherClosed \/ BatcherTick \/ FlushFailed \/ KillBatcher
  BY <1>8, <1>11 DEF BatcherClosed, BatcherTick, FlushFailed, KillBatcher, pollerVars
<1>12. CASE PollerClosed \/ BackoffEnds \/ KillPoller
  BY <1>8, <1>12 DEF PollerClosed, BackoffEnds, KillPoller, batcherVars
<1>13. CASE PostOk \/ PostRateLimited \/ PostFailed
  BY <1>8, <1>13 DEF PostOk, PostRateLimited, PostFailed, batcherVars
<1> QED
  BY <1>3, <1>4, <1>5, <1>6, <1>7, <1>9, <1>10, <1>11, <1>12, <1>13
     DEF Next, Environment, Batcher, PollerStep, Endpoint

\* No event reaches the endpoint twice or after a younger one.
THEOREM OrderCorrect == Spec => []ArrivesOnceInOrder
<1>1. OrderInv => ArrivesOnceInOrder
  BY DEF OrderInv, ArrivesOnceInOrder
<1> QED
  BY <1>1, InitOrderInv, NextOrderInv, TypeCorrect, PTL DEF Spec
-----------------------------------------------------------------------------
(* Eviction.  That an evicted event has RingCap younger ones follows from  *)
(* how many were received since the oldest one in the ring: at least as    *)
(* many as there are behind it.                                            *)

\* Each event in the ring has been followed by as many as are behind it.
Crowded == \A i \in DOMAIN ring : ring[i] + Len(ring) - i < rx

EvictionInv == Crowded /\ OnlyOldEventsEvicted /\ CriticalFlushedFirst

\* Nothing is evicted at the start.
LEMMA InitEvictionInv == Init => EvictionInv
BY DEF Init, EvictionInv, Crowded, OnlyOldEventsEvicted, CriticalFlushedFirst, Range, LossReason

\* After BatcherRecv the ring is r with the new event, and gone was evicted.
ReceivedAs(r, gone) ==
  /\ ring' = Append(r, rx)
  /\ lost'["evicted"] = lost["evicted"] \union gone
  /\ Range(r) \union gone = Range(ring)
  /\ Range(r) \intersect gone = {}
  /\ \A i \in DOMAIN r : r[i] + Len(r) - i < rx
  /\ \A e \in gone : e + RingCap <= rx
  /\ \A e \in lost["evicted"] \union gone, i \in DOMAIN r : e < r[i]

\* That is what BatcherRecv does.
LEMMA Received ==
  ASSUME TypeOK, OrderInv, EvictionInv, BatcherRecv
  PROVE  \E r \in Seq(Nat), gone \in SUBSET Nat : ReceivedAs(r, gone)
<1>1. /\ ring \in Seq(Nat) /\ rx \in Nat /\ Len(ring) \in Nat /\ Len(ring) <= RingCap
      /\ lost \in [LossReason -> SUBSET Event] /\ RingCap \in Nat \ {0}
  <2>1. Event \subseteq Nat /\ rx \in Nat
    <3>1. log \in Seq(Codes) /\ rx \in 1 .. Len(log) + 1
      BY DEF TypeOK
    <3> QED BY <3>1, LenProperties DEF Event
  <2>2. ring \in Seq(Nat)
    BY <2>1, SeqMonotonic DEF TypeOK
  <2> QED BY <2>1, <2>2, LenProperties, ConstantsAssumption DEF TypeOK
<1>2. \A i \in DOMAIN ring : ring[i] + Len(ring) - i < rx
  BY DEF EvictionInv, Crowded
<1>3. \A e \in lost["evicted"], i \in DOMAIN ring : e < ring[i]
  BY DEF EvictionInv, OnlyOldEventsEvicted, Range
<1>4. CASE RingFull
  <2>1. Len(ring) = RingCap /\ ring # <<>>
    BY <1>1, <1>4, EmptySeq DEF RingFull
  <2>2. ring' = Append(Tail(ring), rx) /\ Lose("evicted", {Head(ring)})
    BY <1>4 DEF BatcherRecv
  <2>3. /\ Tail(ring) \in Seq(Nat) /\ Len(Tail(ring)) = Len(ring) - 1
        /\ DOMAIN Tail(ring) = 1 .. Len(ring) - 1
        /\ \A i \in 1 .. Len(ring) - 1 : Tail(ring)[i] = ring[i + 1]
        /\ Head(ring) = ring[1] /\ 1 \in DOMAIN ring /\ ring[1] \in Nat
    BY <1>1, <2>1, HeadTailProperties, LenProperties
  <2>4. \A i \in 1 .. Len(ring) - 1 : i + 1 \in DOMAIN ring /\ 1 < i + 1
    BY <1>1
  <2>5. Range(Tail(ring)) \union {ring[1]} = Range(ring)
    <3>1. Range(Tail(ring)) \union {ring[1]} \subseteq Range(ring)
      BY <2>3, <2>4 DEF Range
    <3>2. \A i \in DOMAIN ring : i = 1 \/ (i - 1 \in 1 .. Len(ring) - 1 /\ (i - 1) + 1 = i)
      BY <1>1, LenProperties
    <3>3. \A i \in DOMAIN ring : i = 1 \/ Tail(ring)[i - 1] = ring[i]
      BY <2>3, <3>2
    <3>4. Range(ring) \subseteq Range(Tail(ring)) \union {ring[1]}
      BY <2>3, <3>2, <3>3 DEF Range
    <3> QED BY <3>1, <3>4
  <2>6. ring[1] + RingCap <= rx
    <3>1. ring[1] + Len(ring) - 1 < rx
      BY <1>2, <2>3
    <3> QED BY <1>1, <2>1, <2>3, <3>1
  <2>7. \A i \in DOMAIN Tail(ring) : ring[1] < Tail(ring)[i]
    BY <2>3, <2>4 DEF OrderInv, Increasing
  <2>8. ASSUME NEW i \in DOMAIN Tail(ring)
        PROVE  Tail(ring)[i] + Len(Tail(ring)) - i < rx
    <3>1. ring[i + 1] + Len(ring) - (i + 1) < rx /\ ring[i + 1] \in Nat /\ i \in Nat
      BY SMTT(20), <1>1, <1>2, <2>3, <2>4
    <3> QED BY <1>1, <2>3, <3>1
  <2>9. lost'["evicted"] = lost["evicted"] \union {ring[1]}
    BY <1>1, <2>2, <2>3 DEF Lose, LossReason
  <2>10. \A e \in lost["evicted"], i \in DOMAIN Tail(ring) : e < Tail(ring)[i]
    BY <1>3, <2>3, <2>4
  <2> DEFINE r == Tail(ring)
             gone == {ring[1]}
  <2>11. r \in Seq(Nat) /\ gone \in SUBSET Nat /\ ring' = Append(r, rx)
    BY <2>2, <2>3
  <2>12. \A e \in lost["evicted"] \union gone, i \in DOMAIN r : e < r[i]
    BY <2>7, <2>10
  <2>13. Range(r) \intersect gone = {}
    <3> SUFFICES ASSUME NEW i \in DOMAIN Tail(ring), Tail(ring)[i] = ring[1] PROVE FALSE
      BY DEF Range
    <3> QED BY <2>3, <2>7
  <2>14. ReceivedAs(r, gone)
    BY <2>5, <2>6, <2>8, <2>9, <2>11, <2>12, <2>13 DEF ReceivedAs
  <2> QED BY <2>11, <2>14, Zenon
<1>5. CASE ~RingFull
  <2>1. ring' = Append(ring, rx) /\ lost' = lost
    BY <1>5 DEF BatcherRecv
  <2>2. lost'["evicted"] = lost["evicted"] \union {}
    BY <2>1
  <2>3. \A e \in lost["evicted"] \union {}, i \in DOMAIN ring : e < ring[i]
    BY <1>3
  <2>4. /\ Range(ring) \union {} = Range(ring) /\ Range(ring) \intersect {} = {}
        /\ {} \in SUBSET Nat
    OBVIOUS
  <2>5. \A e \in {} : e + RingCap <= rx
    OBVIOUS
  <2>6. ReceivedAs(ring, {})
    BY <1>2, <2>1, <2>2, <2>3, <2>4, <2>5 DEF ReceivedAs
  <2> QED BY <1>1, <2>4, <2>6, Zenon
<1> QED
  BY <1>4, <1>5

\* Every step keeps it.
LEMMA NextEvictionInv ==
  TypeInv /\ TypeInv' /\ OrderInv /\ EvictionInv /\ [Next]_vars => EvictionInv'
<1> SUFFICES ASSUME TypeInv, TypeInv', OrderInv, EvictionInv, [Next]_vars
             PROVE  EvictionInv'
  OBVIOUS
<1>1. /\ ring \in Seq(Nat) /\ rx \in Nat /\ Len(ring) \in Nat /\ Len(log) \in Nat
      /\ lost \in [LossReason -> SUBSET Event] /\ Event \subseteq Nat
      /\ failedUpTo \in Nat /\ RingCap \in Nat \ {0} /\ rx <= Len(log) + 1
      /\ DOMAIN ring = 1 .. Len(ring) /\ Range(ring) \subseteq Event
  <2>1. /\ log \in Seq(Codes) /\ rx \in 1 .. Len(log) + 1 /\ failedUpTo \in 0 .. Len(log)
        /\ ring \in Seq(Event) /\ lost \in [LossReason -> SUBSET Event]
    BY DEF TypeInv, TypeOK
  <2>2. /\ Event \subseteq Nat /\ rx \in Nat /\ failedUpTo \in Nat /\ Len(log) \in Nat
        /\ rx <= Len(log) + 1
    BY <2>1, LenProperties DEF Event
  <2>3. ring \in Seq(Nat) /\ Range(ring) \subseteq Event
    BY <2>1, <2>2, SeqMonotonic, RangeOfEvents
  <2> QED BY <2>1, <2>2, <2>3, LenProperties, ConstantsAssumption
<1>2. \A i \in DOMAIN ring : ring[i] + Len(ring) - i < rx
  BY DEF EvictionInv, Crowded
<1>3. /\ \A e \in lost["evicted"] : e + RingCap < rx
      /\ \A e \in lost["evicted"], i \in DOMAIN ring : e < ring[i]
      /\ lost["evicted"] \subseteq Event
  BY <1>1 DEF EvictionInv, OnlyOldEventsEvicted, Range, LossReason
<1>4. \A e \in Range(ring) \union lost["evicted"] :
        log[e] = 10197 => e <= failedUpTo \/ (e \in Range(ring) /\ Flushing)
  BY DEF EvictionInv, CriticalFlushedFirst
\* An event that was evicted is not in the ring.
<1>6. \A e \in lost["evicted"] : log[e] = 10197 => e <= failedUpTo
  <2>1. \A e \in lost["evicted"] : e \notin Range(ring)
    <3> SUFFICES ASSUME NEW e \in lost["evicted"], NEW i \in DOMAIN ring, e = ring[i]
                 PROVE  FALSE
      BY DEF Range
    <3>1. e < ring[i] /\ e \in Nat
      BY <1>1, <1>3
    <3> QED BY <3>1
  <2> QED BY <1>4, <2>1
<1>7. CASE BatcherRecv
  <2>0. PICK r \in Seq(Nat), gone \in SUBSET Nat : ReceivedAs(r, gone)
    BY <1>7, Received DEF TypeInv
  <2>1. /\ ring' = Append(r, rx)
        /\ lost'["evicted"] = lost["evicted"] \union gone
        /\ Range(r) \union gone = Range(ring)
        /\ Range(r) \intersect gone = {}
        /\ \A i \in DOMAIN r : r[i] + Len(r) - i < rx
        /\ \A e \in gone : e + RingCap <= rx
        /\ \A e \in lost["evicted"] \union gone, i \in DOMAIN r : e < r[i]
    BY <2>0 DEF ReceivedAs
  <2>2. /\ rx' = rx + 1 /\ log' = log /\ failedUpTo' = failedUpTo /\ ~Flushing
        /\ bpc' = IF IsCritical(log[rx]) THEN "flush" ELSE "select"
    BY <1>7 DEF BatcherRecv, Flushing
  <2>3. /\ DOMAIN ring' = 1 .. Len(r) + 1 /\ Len(ring') = Len(r) + 1 /\ Len(r) \in Nat
        /\ \A i \in 1 .. Len(r) : ring'[i] = r[i] /\ i \in DOMAIN r /\ r[i] \in Nat
        /\ ring'[Len(r) + 1] = rx
        /\ \A i \in DOMAIN ring' : i \in 1 .. Len(r) \/ i = Len(r) + 1
    BY <1>1, <2>1, Pushed
  <2>4. Crowded'
    <3> SUFFICES ASSUME NEW i \in DOMAIN ring'
                 PROVE  ring'[i] + Len(ring') - i < rx'
      BY DEF Crowded
    <3>1. CASE i \in 1 .. Len(r)
      <4>1. r[i] + Len(r) - i < rx /\ r[i] \in Nat /\ ring'[i] = r[i]
        BY <2>1, <2>3, <3>1
      <4>2. i \in Nat /\ Len(r) \in Nat /\ rx \in Nat
        BY <1>1, <2>3, <3>1
      <4>3. r[i] + (Len(r) + 1) - i < rx + 1
        BY <4>1, <4>2
      <4> QED BY <2>2, <2>3, <4>1, <4>3
    <3>2. CASE i = Len(r) + 1
      BY <1>1, <2>2, <2>3, <3>2
    <3> QED BY <2>3, <3>1, <3>2
  <2>5. OnlyOldEventsEvicted'
    <3> SUFFICES ASSUME NEW e \in lost'["evicted"]
                 PROVE  e + RingCap < rx' /\ \A i \in DOMAIN ring' : e < ring'[i]
      BY DEF OnlyOldEventsEvicted, Range
    <3>1. e \in Nat /\ e + RingCap <= rx
      <4>1. CASE e \in lost["evicted"]
        <5>1. e \in Nat /\ e + RingCap < rx
          BY <1>1, <1>3, <4>1
        <5> QED BY <1>1, <5>1
      <4>2. CASE e \in gone
        BY <2>1, <4>2
      <4> QED BY <2>1, <4>1, <4>2
    <3>2. e + RingCap < rx' /\ e < rx
      BY <1>1, <2>2, <3>1
    <3>3. \A i \in DOMAIN r : e < r[i]
      BY <2>1
    <3> QED BY <2>3, <3>2, <3>3
  <2>6. CriticalFlushedFirst'
    <3> SUFFICES ASSUME NEW e \in Range(ring') \union lost'["evicted"], log[e] = 10197
                 PROVE  e <= failedUpTo \/ (e \in Range(ring') /\ Flushing')
      BY <2>2 DEF CriticalFlushedFirst
    <3>1. CASE e \in Range(ring) \union lost["evicted"]
      BY <1>4, <2>2, <3>1
    <3>2. CASE e \notin Range(ring) \union lost["evicted"]
      <4>1. e \in Range(ring')
        BY <2>1, <3>2
      <4>2. e = rx
        BY <2>1, <2>3, <3>2, <4>1 DEF Range
      <4> QED BY <2>2, <4>1, <4>2 DEF IsCritical, Flushing
    <3> QED BY <3>1, <3>2
  <2> QED BY <2>4, <2>5, <2>6 DEF EvictionInv
<1>8. CASE BatcherLagged
  <2>1. /\ UNCHANGED <<log, ring, bpc, failedUpTo>> /\ rx' = Len(log) - BroadcastCap + 1
        /\ Unread > BroadcastCap /\ lost'["evicted"] = lost["evicted"]
    BY <1>1, <1>8 DEF BatcherLagged, Lose, LossReason
  <2>2. rx' \in Nat /\ rx <= rx'
    BY <1>1, <2>1, ConstantsAssumption DEF Unread
  <2>3. Crowded'
    <3> SUFFICES ASSUME NEW i \in DOMAIN ring PROVE ring[i] + Len(ring) - i < rx'
      BY <2>1 DEF Crowded
    <3>1. ring[i] + Len(ring) - i < rx /\ ring[i] \in Nat /\ i \in Nat
      BY <1>1, <1>2
    <3> QED BY <1>1, <2>2, <3>1
  <2>4. \A e \in lost["evicted"] : e + RingCap < rx'
    <3> SUFFICES ASSUME NEW e \in lost["evicted"] PROVE e + RingCap < rx'
      OBVIOUS
    <3>1. e \in Nat /\ e + RingCap < rx
      BY <1>1, <1>3
    <3> QED BY <1>1, <2>2, <3>1
  <2> QED
    BY <2>1, <2>3, <2>4 DEF EvictionInv, OnlyOldEventsEvicted, CriticalFlushedFirst, Flushing
\* The ring is emptied: what was evicted has been tried before.
<1>9. ASSUME ring' = <<>>, UNCHANGED <<log, rx>>, lost'["evicted"] = lost["evicted"],
             \A e \in lost["evicted"] : e <= failedUpTo => e <= failedUpTo'
      PROVE  EvictionInv'
  <2>1. DOMAIN ring' = {} /\ Range(ring') = {}
    BY <1>9 DEF Range
  <2> QED
    BY <1>3, <1>6, <1>9, <2>1
    DEF EvictionInv, Crowded, OnlyOldEventsEvicted, CriticalFlushedFirst
<1>10. CASE FlushSent \/ KillBatcher
  <2>1. /\ ring' = <<>> /\ UNCHANGED <<log, rx, failedUpTo>>
        /\ lost'["evicted"] = lost["evicted"]
    BY <1>1, <1>10 DEF FlushSent, KillBatcher, Lose, LossReason
  <2> QED BY <1>9, <2>1
<1>11. CASE FlushFailed
  <2>1. ring # <<>> /\ failedUpTo' = Last(ring) /\ UNCHANGED <<log, rx>>
    BY <1>11 DEF FlushFailed, TypeInv
  <2>2. Len(ring) \in DOMAIN ring /\ Last(ring) = ring[Len(ring)] /\ Last(ring) \in Nat
    BY <1>1, <2>1, EmptySeq DEF Last
  <2>3. ASSUME NEW e \in lost["evicted"] PROVE e <= failedUpTo'
    <3>1. e < Last(ring) /\ e \in Nat
      BY <1>1, <1>3, <2>2
    <3> QED BY <2>1, <2>2, <3>1
  <2>4. \A e \in Range(ring) : e <= failedUpTo'
    <3> SUFFICES ASSUME NEW i \in DOMAIN ring PROVE ring[i] <= ring[Len(ring)]
      BY <2>1, <2>2 DEF Range
    <3>1. CASE i = Len(ring)
      BY <1>1, <3>1
    <3>2. CASE i < Len(ring)
      BY <1>1, <2>2, <3>2 DEF OrderInv, Increasing
    <3> QED BY <1>1, <3>1, <3>2
  <2>5. CASE bpc = "flush"
    <3>1. UNCHANGED <<ring, lost>>
      BY <1>11, <2>5 DEF FlushFailed
    <3> QED
      BY <1>2, <1>3, <2>1, <2>3, <2>4, <3>1
      DEF EvictionInv, Crowded, OnlyOldEventsEvicted, CriticalFlushedFirst
  <2>6. CASE bpc = "closing"
    <3>1. ring' = <<>> /\ lost'["evicted"] = lost["evicted"]
      BY <1>1, <1>11, <2>6 DEF FlushFailed, Lose, LossReason
    <3> QED BY <1>9, <2>1, <2>3, <3>1
  <2> QED BY <1>11, <2>5, <2>6 DEF FlushFailed
\* The other steps leave the ring and what was evicted alone.
<1>12. ASSUME UNCHANGED <<rx, ring, failedUpTo>>, lost'["evicted"] = lost["evicted"],
              \A n \in Event : log'[n] = log[n], Flushing => Flushing'
       PROVE  EvictionInv'
  <2>1. CriticalFlushedFirst'
    <3>0. \A n \in Event : log'[n] = log[n]
      BY <1>12
    <3> SUFFICES ASSUME NEW e \in Range(ring) \union lost["evicted"], log'[e] = 10197
                 PROVE  e <= failedUpTo \/ (e \in Range(ring) /\ Flushing')
      BY <1>12 DEF CriticalFlushedFirst
    <3>1. e \in Event
      BY <1>1, <1>3
    <3>2. log'[e] = log[e]
      BY <3>0, <3>1
    <3>3. log[e] = 10197
      BY <3>2
    <3> QED BY <1>4, <1>12, <3>3
  <2> QED
    BY <1>12, <2>1 DEF EvictionInv, Crowded, OnlyOldEventsEvicted
<1>13. ASSUME NEW code \in Codes, Broadcast(code) PROVE EvictionInv'
  <2>1. log' = Append(log, code) /\ log \in Seq(Codes)
    BY <1>13 DEF Broadcast, TypeInv, TypeOK
  <2>2. \A e \in Event : log'[e] = log[e]
    BY <2>1, AppendProperties DEF Event
  <2> QED
    BY <1>12, <1>13, <2>2 DEF Broadcast, batcherVars, Flushing
<1>14. CASE DropSenders \/ Abort \/ UNCHANGED vars \/ BatcherClosed \/ BatcherTick
  BY <1>12, <1>14 DEF DropSenders, Abort, vars, BatcherClosed, BatcherTick, batcherVars, Flushing
<1>15. CASE PollerClosed \/ BackoffEnds \/ PollerRecv \/ EndpointReceives \/ PostOk
  BY <1>12, <1>15
  DEF PollerClosed, BackoffEnds, PollerRecv, EndpointReceives, PostOk, batcherVars, Flushing
<1>16. CASE KillPoller \/ PostRateLimited \/ PostFailed
  <2>1. UNCHANGED <<log, batcherVars>> /\ lost'["evicted"] = lost["evicted"]
    BY <1>1, <1>16 DEF KillPoller, PostRateLimited, PostFailed, Lose, LossReason
  <2> QED BY <1>12, <2>1 DEF batcherVars, Flushing
<1> QED
  BY <1>7, <1>8, <1>10, <1>11, <1>13, <1>14, <1>15, <1>16
     DEF Next, Environment, Batcher, PollerStep, Endpoint

\* The invariants behind both theorems.
LEMMA EvictionCorrect == Spec => []EvictionInv
<1>1. TypeInv => TypeOK
  BY DEF TypeInv
<1> QED
  BY <1>1, InitTypeInv, NextTypeInv, InitOrderInv, NextOrderInv, InitEvictionInv,
     NextEvictionInv, PTL DEF Spec

\* The ring gives up its oldest events only, and none that is young.
THEOREM EvictsOldest == Spec => []OnlyOldEventsEvicted
<1>1. EvictionInv => OnlyOldEventsEvicted
  BY DEF EvictionInv
<1> QED
  BY <1>1, EvictionCorrect, PTL

\* A critical event is flushed at once, and waits or is evicted only after a
\* flush has failed.
THEOREM CriticalCorrect == Spec => []CriticalFlushedFirst
<1>1. EvictionInv => CriticalFlushedFirst
  BY DEF EvictionInv
<1> QED
  BY <1>1, EvictionCorrect, PTL
-----------------------------------------------------------------------------
(* Accounting.  The places of Accounted as sets: they share out the events *)
(* that were received, and a step moves a set from one place to another.   *)
(* That it is a whole batch at a time needs the order of the queue (two    *)
(* batches have no event in common) and that the poller holds no batch     *)
(* when it takes one.                                                      *)

Flat(c) == UNION {Range(c[k]) : k \in DOMAIN c}

\* The sets a .. h are disjoint, and together all of u.
Shared(u, a, b, c, d, e, f, g, h) ==
  /\ u = a \union b \union c \union d \union e \union f \union g \union h
  /\ a \intersect (b \union c \union d \union e \union f \union g \union h) = {}
  /\ b \intersect (c \union d \union e \union f \union g \union h) = {}
  /\ c \intersect (d \union e \union f \union g \union h) = {}
  /\ d \intersect (e \union f \union g \union h) = {}
  /\ e \intersect (f \union g \union h) = {}
  /\ f \intersect (g \union h) = {}
  /\ g \intersect h = {}

Split == Shared(1 .. rx - 1, Range(ring), Flat(chan), Range(inflight), accepted,
                lost["lagged"], lost["evicted"], lost["refused"], lost["shutdown"])

AccountInv == Split /\ (ppc \notin {"sending", "waiting"} => inflight = <<>>)

\* Split is Accounted, without the numbering of the places.
LEMMA SplitIsAccounted == Split => Accounted
<1> SUFFICES ASSUME Split PROVE Accounted
  OBVIOUS
<1>1. DOMAIN Places = 1 .. 8
  BY DEF Places
<1>2. /\ Places[1] = Range(ring) /\ Places[2] = Flat(chan) /\ Places[3] = Range(inflight)
      /\ Places[4] = accepted /\ Places[5] = lost["lagged"] /\ Places[6] = lost["evicted"]
      /\ Places[7] = lost["refused"] /\ Places[8] = lost["shutdown"]
  BY DEF Places, Flat, Queued
<1>3. UNION Range(Places) = 1 .. rx - 1
  <2>1. \A i \in DOMAIN Places : Places[i] \subseteq 1 .. rx - 1
    BY <1>1, <1>2 DEF Split, Shared
  <2>2. \A e \in 1 .. rx - 1 : \E i \in DOMAIN Places : e \in Places[i]
    BY <1>1, <1>2 DEF Split, Shared
  <2> QED BY <2>1, <2>2 DEF Range
<1>4. \A i, j \in 1 .. 8 : i < j => Places[i] \intersect Places[j] = {}
  BY <1>2 DEF Split, Shared
<1>5. \A i, j \in 1 .. 8 : i # j => i < j \/ j < i
  OBVIOUS
<1>6. \A i, j \in DOMAIN Places : i # j => Places[i] \intersect Places[j] = {}
  BY <1>1, <1>4, <1>5
<1> QED BY <1>3, <1>6 DEF Accounted

\* What is queued when a batch is added, and when the first is taken.
LEMMA FlatAppend ==
  ASSUME NEW c \in Seq(Seq(Nat)), NEW s \in Seq(Nat)
  PROVE  Flat(Append(c, s)) = Flat(c) \union Range(s)
<1>1. /\ DOMAIN Append(c, s) = 1 .. Len(c) + 1 /\ DOMAIN c = 1 .. Len(c) /\ Len(c) \in Nat
      /\ \A k \in 1 .. Len(c) : Append(c, s)[k] = c[k]
      /\ Append(c, s)[Len(c) + 1] = s
  BY AppendProperties, LenProperties
<1>2. \A k \in DOMAIN Append(c, s) : k \in DOMAIN c \/ k = Len(c) + 1
  BY <1>1
<1>3. DOMAIN c \subseteq DOMAIN Append(c, s) /\ Len(c) + 1 \in DOMAIN Append(c, s)
  BY <1>1
<1> QED BY <1>1, <1>2, <1>3 DEF Flat

\* What is queued is the first batch and the rest.
LEMMA FlatTail ==
  ASSUME NEW c \in Seq(Seq(Nat)), c # <<>>
  PROVE  /\ Flat(c) = Range(Head(c)) \union Flat(Tail(c))
         /\ \A n \in Flat(Tail(c)) : \E k \in DOMAIN c : 1 < k /\ n \in Range(c[k])
<1>1. /\ DOMAIN Tail(c) = 1 .. Len(c) - 1 /\ DOMAIN c = 1 .. Len(c) /\ Len(c) \in Nat
      /\ \A k \in 1 .. Len(c) - 1 : Tail(c)[k] = c[k + 1]
      /\ Head(c) = c[1] /\ Len(c) >= 1
  BY HeadTailProperties, LenProperties, EmptySeq
<1>2. \A k \in DOMAIN Tail(c) : k + 1 \in DOMAIN c /\ 1 < k + 1 /\ Tail(c)[k] = c[k + 1]
  BY <1>1
<1>3. \A k \in DOMAIN c : k = 1 \/ (k - 1 \in DOMAIN Tail(c) /\ Tail(c)[k - 1] = c[k])
  <2> SUFFICES ASSUME NEW k \in DOMAIN c, k # 1
               PROVE  k - 1 \in DOMAIN Tail(c) /\ Tail(c)[k - 1] = c[k]
    OBVIOUS
  <2>1. k - 1 \in 1 .. Len(c) - 1 /\ (k - 1) + 1 = k
    BY <1>1
  <2> QED BY <1>1, <2>1
<1>4. 1 \in DOMAIN c
  BY <1>1
<1>5. Flat(c) \subseteq Range(Head(c)) \union Flat(Tail(c))
  <2> SUFFICES ASSUME NEW k \in DOMAIN c, NEW n \in Range(c[k])
               PROVE  n \in Range(Head(c)) \/ n \in Flat(Tail(c))
    BY DEF Flat
  <2>1. CASE k = 1
    BY <1>1, <2>1
  <2>2. CASE k # 1
    <3>1. k - 1 \in DOMAIN Tail(c) /\ n \in Range(Tail(c)[k - 1])
      BY <1>3, <2>2
    <3> QED BY <3>1 DEF Flat
  <2> QED BY <2>1, <2>2
<1>6. Range(Head(c)) \union Flat(Tail(c)) \subseteq Flat(c)
  BY <1>1, <1>2, <1>4 DEF Flat
<1>7. \A n \in Flat(Tail(c)) : \E k \in DOMAIN c : 1 < k /\ n \in Range(c[k])
  BY <1>2 DEF Flat
<1> QED BY <1>5, <1>6, <1>7

\* Nothing is queued in an empty queue.
LEMMA FlatEmpty == Flat(<<>>) = {} /\ Range(<<>>) = {}
BY DEF Flat, Range

\* There is nothing to account for at the start.
LEMMA InitAccountInv == Init => AccountInv
<1> SUFFICES ASSUME Init PROVE AccountInv
  OBVIOUS
<1>1. 1 .. rx - 1 = {} /\ Range(ring) = {} /\ Flat(chan) = {} /\ Range(inflight) = {}
  BY FlatEmpty DEF Init
<1>2. accepted = {} /\ \A r \in LossReason : lost[r] = {}
  BY DEF Init
<1> QED
  BY <1>1, <1>2 DEF AccountInv, Split, Shared, LossReason, Init

\* Every step keeps the accounts.
LEMMA NextAccountInv ==
  TypeOK /\ OrderInv /\ EvictionInv /\ AccountInv /\ [Next]_vars => AccountInv'
<1> SUFFICES ASSUME TypeOK, OrderInv, EvictionInv, AccountInv, [Next]_vars
             PROVE  AccountInv'
  OBVIOUS
<1>1. /\ ring \in Seq(Nat) /\ inflight \in Seq(Nat) /\ chan \in Seq(Seq(Nat))
      /\ rx \in Nat \ {0} /\ Len(log) \in Nat /\ lost \in [LossReason -> SUBSET Event]
      /\ DOMAIN chan = 1 .. Len(chan) /\ \A k \in DOMAIN chan : chan[k] \in Seq(Nat)
  <2>1. Event \subseteq Nat /\ rx \in Nat \ {0} /\ Len(log) \in Nat
    <3>1. log \in Seq(Codes) /\ rx \in 1 .. Len(log) + 1
      BY DEF TypeOK
    <3> QED BY <3>1, LenProperties DEF Event
  <2>2. Seq(Event) \subseteq Seq(Nat)
    BY <2>1, SeqMonotonic
  <2>3. Seq(Seq(Event)) \subseteq Seq(Seq(Nat))
    BY <2>2, SeqMonotonic
  <2>4. ring \in Seq(Nat) /\ inflight \in Seq(Nat) /\ chan \in Seq(Seq(Nat))
    BY <2>2, <2>3 DEF TypeOK
  <2>5. DOMAIN chan = 1 .. Len(chan) /\ \A k \in DOMAIN chan : chan[k] \in Seq(Nat)
    BY <2>4, LenProperties
  <2> QED BY <2>1, <2>4, <2>5 DEF TypeOK
<1>2. Split
  BY DEF AccountInv
<1>3. CASE BatcherRecv
  <2>0. PICK r \in Seq(Nat), gone \in SUBSET Nat : ReceivedAs(r, gone)
    BY <1>3, Received
  <2>1. /\ ring' = Append(r, rx)
        /\ lost'["evicted"] = lost["evicted"] \union gone
        /\ Range(r) \union gone = Range(ring)
        /\ Range(r) \intersect gone = {}
    BY <2>0 DEF ReceivedAs
  <2>2. Range(ring') = Range(r) \union {rx}
    <3>1. /\ DOMAIN ring' = 1 .. Len(r) + 1 /\ DOMAIN r = 1 .. Len(r) /\ Len(r) \in Nat
          /\ \A i \in 1 .. Len(r) : ring'[i] = r[i]
          /\ ring'[Len(r) + 1] = rx
      BY <1>1, <2>1, Pushed
    <3>2. \A i \in DOMAIN ring' : i \in DOMAIN r \/ i = Len(r) + 1
      BY <3>1
    <3>3. DOMAIN r \subseteq DOMAIN ring' /\ Len(r) + 1 \in DOMAIN ring'
      BY <3>1
    <3> QED BY <3>1, <3>2, <3>3 DEF Range
  <2>3. 1 .. rx' - 1 = (1 .. rx - 1) \union {rx} /\ rx \notin 1 .. rx - 1
    BY <1>1, <1>3 DEF BatcherRecv
  <2>4. /\ UNCHANGED <<chan, inflight, accepted, ppc>>
        /\ \A q \in {"lagged", "refused", "shutdown"} : lost'[q] = lost[q]
    BY <1>1, <1>3 DEF BatcherRecv, Lose, LossReason, pollerVars
  <2>5. Split'
    BY <1>2, <2>1, <2>2, <2>3, <2>4 DEF Split, Shared
  <2> QED BY <2>4, <2>5 DEF AccountInv
<1>4. CASE BatcherLagged
  <2>1. /\ UNCHANGED <<ring, chan, inflight, accepted, ppc>>
        /\ lost'["lagged"] = lost["lagged"] \union (rx .. Len(log) - BroadcastCap)
        /\ \A q \in {"evicted", "refused", "shutdown"} : lost'[q] = lost[q]
    BY <1>1, <1>4 DEF BatcherLagged, Lose, LossReason, pollerVars
  <2>2. /\ 1 .. rx' - 1 = (1 .. rx - 1) \union (rx .. Len(log) - BroadcastCap)
        /\ (1 .. rx - 1) \intersect (rx .. Len(log) - BroadcastCap) = {}
    BY <1>1, <1>4, ConstantsAssumption DEF BatcherLagged, Unread
  <2>3. Split'
    BY <1>2, <2>1, <2>2 DEF Split, Shared
  <2> QED BY <2>1, <2>3 DEF AccountInv
<1>5. CASE FlushSent
  <2>1. /\ Range(ring') = {} /\ Flat(chan') = Flat(chan) \union Range(ring)
        /\ UNCHANGED <<rx, inflight, accepted, lost, ppc>>
    BY <1>1, <1>5, FlatAppend, FlatEmpty DEF FlushSent, pollerVars
  <2>2. Split'
    BY <1>2, <2>1 DEF Split, Shared
  <2> QED BY <2>1, <2>2 DEF AccountInv
<1>6. CASE FlushFailed \/ KillBatcher
  <2>1. /\ UNCHANGED <<rx, chan, inflight, accepted, ppc>>
        /\ \/ UNCHANGED <<ring, lost>>
           \/ ring' = <<>> /\ Lose("shutdown", Range(ring))
    BY <1>6 DEF FlushFailed, KillBatcher, pollerVars
  <2>2. CASE UNCHANGED <<ring, lost>>
    BY <2>1, <2>2 DEF AccountInv, Split
  <2>3. CASE ring' = <<>> /\ Lose("shutdown", Range(ring))
    <3>1. /\ Range(ring') = {} /\ lost'["shutdown"] = lost["shutdown"] \union Range(ring)
          /\ \A q \in {"lagged", "evicted", "refused"} : lost'[q] = lost[q]
      BY <1>1, <2>3, FlatEmpty DEF Lose, LossReason
    <3>2. Split'
      BY <1>2, <2>1, <3>1 DEF Split, Shared
    <3> QED BY <2>1, <3>2 DEF AccountInv
  <2> QED BY <2>1, <2>2, <2>3
<1>7. CASE PollerRecv
  <2>1. /\ chan # <<>> /\ inflight = <<>> /\ inflight' = Head(chan) /\ chan' = Tail(chan)
        /\ UNCHANGED <<rx, ring, accepted, lost>> /\ ppc' = "sending"
    BY <1>7 DEF PollerRecv, AccountInv, batcherVars
  <2>2. Flat(chan) = Range(inflight') \union Flat(chan') /\ Range(inflight) = {}
    BY <1>1, <2>1, FlatTail, FlatEmpty
  <2>3. Range(inflight') \intersect Flat(chan') = {}
    <3> SUFFICES ASSUME NEW n \in Range(Head(chan)), n \in Flat(Tail(chan))
                 PROVE  FALSE
      BY <2>1
    <3>1. PICK k \in DOMAIN chan : 1 < k /\ n \in Range(chan[k])
      BY <1>1, <2>1, FlatTail
    <3>2. Head(chan) = chan[1] /\ 1 \in DOMAIN chan
      BY <1>1, <2>1, HeadTailProperties, EmptySeq
    <3>3. Before(chan[1], chan[k])
      BY <3>1, <3>2 DEF OrderInv
    <3>4. n < n /\ n \in Nat
      <4>1. PICK i \in DOMAIN chan[1] : n = chan[1][i]
        BY <3>2 DEF Range
      <4>2. n \in Range(chan[k]) /\ chan[1] \in Seq(Nat)
        BY <1>1, <3>1, <3>2
      <4>3. PICK j \in DOMAIN chan[k] : n = chan[k][j]
        BY <4>2, Zenon DEF Range
      <4>4. n \in Nat
        BY <4>1, <4>2
      <4> QED BY <3>3, <4>1, <4>3, <4>4 DEF Before
    <3> QED BY <3>4
  <2>4. Split'
    BY <1>2, <2>1, <2>2, <2>3 DEF Split, Shared
  <2> QED BY <2>1, <2>4 DEF AccountInv
<1>8. CASE PostOk
  <2>1. /\ Range(inflight') = {} /\ inflight' = <<>>
        /\ accepted' = accepted \union Range(inflight)
        /\ UNCHANGED <<rx, ring, chan, lost>>
    BY <1>8, FlatEmpty DEF PostOk, batcherVars
  <2>2. Split'
    BY <1>2, <2>1 DEF Split, Shared
  <2> QED BY <2>1, <2>2 DEF AccountInv
<1>9. CASE PostRateLimited \/ PostFailed
  <2>1. /\ Range(inflight') = {} /\ inflight' = <<>>
        /\ lost'["refused"] = lost["refused"] \union Range(inflight)
        /\ \A q \in {"lagged", "evicted", "shutdown"} : lost'[q] = lost[q]
        /\ UNCHANGED <<rx, ring, chan, accepted>>
    BY <1>1, <1>9, FlatEmpty DEF PostRateLimited, PostFailed, Lose, LossReason, batcherVars
  <2>2. Split'
    BY <1>2, <2>1 DEF Split, Shared
  <2> QED BY <2>1, <2>2 DEF AccountInv
<1>10. CASE KillPoller
  <2>1. /\ Range(inflight') = {} /\ Flat(chan') = {} /\ inflight' = <<>>
        /\ lost'["shutdown"] = lost["shutdown"] \union (Range(inflight) \union Flat(chan))
        /\ \A q \in {"lagged", "evicted", "refused"} : lost'[q] = lost[q]
        /\ UNCHANGED <<rx, ring, accepted>>
    BY <1>1, <1>10, FlatEmpty DEF KillPoller, Lose, LossReason, batcherVars, Queued, Flat
  <2>2. Split'
    BY <1>2, <2>1 DEF Split, Shared
  <2> QED BY <2>1, <2>2 DEF AccountInv
\* The other steps move nothing.
<1>11. ASSUME UNCHANGED <<rx, ring, chan, inflight, accepted, lost>>,
              ppc' = ppc \/ inflight = <<>> \/ ppc' = "waiting"
       PROVE  AccountInv'
  BY <1>11 DEF AccountInv, Split
<1>12. ASSUME NEW code \in Codes, Broadcast(code) PROVE AccountInv'
  BY <1>11, <1>12 DEF Broadcast, batcherVars, pollerVars
<1>13. CASE DropSenders \/ Abort \/ UNCHANGED vars \/ BatcherClosed \/ BatcherTick
  BY <1>11, <1>13
  DEF DropSenders, Abort, vars, BatcherClosed, BatcherTick, batcherVars, pollerVars
<1>14. CASE PollerClosed \/ BackoffEnds \/ EndpointReceives
  BY <1>11, <1>14 DEF PollerClosed, BackoffEnds, EndpointReceives, batcherVars, AccountInv
<1> QED
  BY <1>3, <1>4, <1>5, <1>6, <1>7, <1>8, <1>9, <1>10, <1>12, <1>13, <1>14
     DEF Next, Environment, Batcher, PollerStep, Endpoint

\* The invariants of the whole pipeline.
LEMMA AccountCorrect == Spec => []AccountInv
BY TypeCorrect, InitOrderInv, NextOrderInv, EvictionCorrect, InitAccountInv,
   NextAccountInv, PTL DEF Spec

\* Every event received is in one place, and in one only: none is forgotten
\* and none is held twice.
THEOREM AccountsBalance == Spec => []Accounted
<1>1. AccountInv => Accounted
  BY SplitIsAccounted DEF AccountInv
<1> QED
  BY <1>1, AccountCorrect, PTL

-----------------------------------------------------------------------------
(***************************************************************************)
(* The pipeline implements EventRelay, for every capacity, number of       *)
(* events and set of codes.  The argument rests on two invariants of       *)
(* the sections above: the pipeline is in order from end to end            *)
(* (OrderInv), and every event received is in exactly one place (Split).   *)
(* A batch that arrives is then all that was pending up to its end: what   *)
(* is missing from it has arrived before, was lost, or is younger.         *)
(***************************************************************************)

\* What the poller still holds after the endpoint has it, and was accepted,
\* has arrived; no batch is empty.
ArrivalInv ==
  /\ ppc = "waiting" => Range(inflight) \subseteq Range(arrived)
  /\ accepted \subseteq Range(arrived)
  /\ \A k \in DOMAIN chan : chan[k] # <<>>
  /\ ppc = "sending" => inflight # <<>>

\* Nothing has arrived at the start.
LEMMA InitArrivalInv == Init => ArrivalInv
BY FlatEmpty DEF Init, ArrivalInv

\* Every step keeps it.
LEMMA NextArrivalInv == TypeInv /\ ArrivalInv /\ [Next]_vars => ArrivalInv'
<1> SUFFICES ASSUME TypeInv, ArrivalInv, [Next]_vars PROVE ArrivalInv'
  OBVIOUS
<1>1. /\ chan \in Seq(Seq(Event)) /\ ring \in Seq(Event)
      /\ inflight \in Seq(Event) /\ arrived \in Seq(Event)
  BY DEF TypeInv, TypeOK
<1>2. CASE FlushSent
  <2>1. chan' = Append(chan, ring) /\ ring # <<>> /\ UNCHANGED <<pollerVars, arrived, accepted>>
    BY <1>2 DEF FlushSent, TypeInv
  <2>2. \A k \in DOMAIN chan' : chan'[k] # <<>>
    BY <1>1, <2>1, AppendProperties DEF ArrivalInv
  <2> QED BY <2>1, <2>2 DEF ArrivalInv, pollerVars
<1>3. CASE PollerRecv
  <2>1. /\ chan # <<>> /\ inflight' = Head(chan) /\ chan' = Tail(chan) /\ ppc' = "sending"
        /\ UNCHANGED <<arrived, accepted>>
    BY <1>3 DEF PollerRecv
  <2>2. inflight' # <<>>
    BY <1>1, <2>1, HeadTailProperties, EmptySeq DEF ArrivalInv
  <2>3. \A k \in DOMAIN chan' : chan'[k] # <<>>
    BY <1>1, <2>1, HeadTailProperties DEF ArrivalInv
  <2> QED BY <2>1, <2>2, <2>3 DEF ArrivalInv
<1>4. CASE EndpointReceives
  <2>1. arrived' = arrived \o inflight /\ UNCHANGED <<chan, inflight, accepted>> /\ ppc' = "waiting"
    BY <1>4 DEF EndpointReceives
  <2>2. Range(arrived') = Range(arrived) \union Range(inflight)
    BY <1>1, <2>1, RangeConcatenation
  <2> QED BY <2>1, <2>2 DEF ArrivalInv
<1>5. CASE PostOk
  <2>1. /\ ppc = "waiting" /\ accepted' = accepted \union Range(inflight) /\ ppc' = "recv"
        /\ UNCHANGED <<arrived, chan>>
    BY <1>5 DEF PostOk
  <2> QED BY <2>1 DEF ArrivalInv
\* The other steps leave the batches alone, or drop them.
<1>6. ASSUME UNCHANGED <<arrived, accepted>>, chan' = chan \/ chan' = <<>>,
             ppc' \notin {"sending", "waiting"} \/ UNCHANGED <<ppc, inflight>>
      PROVE  ArrivalInv'
  BY <1>6 DEF ArrivalInv
<1>7. ASSUME NEW code \in Codes, Broadcast(code) PROVE ArrivalInv'
  BY <1>6, <1>7 DEF Broadcast, pollerVars
<1>8. CASE Abort \/ DropSenders \/ UNCHANGED vars
  BY <1>6, <1>8 DEF Abort, DropSenders, vars, pollerVars
<1>9. CASE BatcherRecv \/ BatcherLagged \/ BatcherClosed \/ BatcherTick
  BY <1>6, <1>9 DEF BatcherRecv, BatcherLagged, BatcherClosed, BatcherTick, pollerVars
<1>10. CASE FlushFailed \/ KillBatcher
  BY <1>6, <1>10 DEF FlushFailed, KillBatcher, pollerVars
<1>11. CASE PollerClosed \/ BackoffEnds \/ KillPoller \/ PostRateLimited \/ PostFailed
  BY <1>6, <1>11 DEF PollerClosed, BackoffEnds, KillPoller, PostRateLimited, PostFailed
<1> QED
  BY <1>2, <1>3, <1>4, <1>5, <1>7, <1>8, <1>9, <1>10, <1>11
     DEF Next, Environment, Batcher, PollerStep, Endpoint
-----------------------------------------------------------------------------
(* The steps of the pipeline as steps of the relay.                        *)

\* The types the lemmas below work with: events are natural numbers.
LEMMA PlainTypes ==
  ASSUME TypeInv
  PROVE  /\ arrived \in Seq(Nat) /\ inflight \in Seq(Nat) /\ ring \in Seq(Nat)
         /\ chan \in Seq(Seq(Nat)) /\ Len(log) \in Nat /\ Event \subseteq Nat \ {0}
         /\ rx \in 1 .. Len(log) + 1 /\ lost \in [LossReason -> SUBSET Event]
         /\ \A k \in DOMAIN chan : chan[k] \in Seq(Nat)
<1>1. TypeOK
  BY DEF TypeInv
<1>2. Len(log) \in Nat /\ rx \in 1 .. Len(log) + 1 /\ lost \in [LossReason -> SUBSET Event]
  BY <1>1, LenProperties DEF TypeOK
<1>3. Event \subseteq Nat \ {0} /\ Event \subseteq Nat
  BY <1>2 DEF Event
<1>4. Seq(Event) \subseteq Seq(Nat)
  BY <1>3, SeqMonotonic
<1>5. Seq(Seq(Event)) \subseteq Seq(Seq(Nat))
  BY <1>4, SeqMonotonic
<1>6. chan \in Seq(Seq(Nat))
  BY <1>1, <1>5 DEF TypeOK
<1>7. \A k \in DOMAIN chan : chan[k] \in Seq(Nat)
  BY <1>6
<1>8. arrived \in Seq(Nat) /\ inflight \in Seq(Nat) /\ ring \in Seq(Nat)
  BY <1>1, <1>4 DEF TypeOK
<1> QED BY <1>2, <1>3, <1>6, <1>7, <1>8

\* What comes after a batch is not older than an event of the batch.
LEMMA Younger ==
  ASSUME NEW s \in Seq(Nat), NEW t \in Seq(Nat), Before(s, t),
         NEW k \in DOMAIN s, NEW e \in Nat, e <= s[k]
  PROVE  e \notin Range(t)
<1> SUFFICES ASSUME NEW j \in DOMAIN t, e = t[j] PROVE FALSE
  BY DEF Range
<1>1. s[k] < t[j] /\ s[k] \in Nat /\ t[j] \in Nat
  BY DEF Before
<1> QED BY <1>1

\* Relay's horizon is the youngest event that has arrived.
LEMMA HorizonIsYoungest ==
  ASSUME arrived \in Seq(Nat), Increasing(arrived)
  PROVE  /\ Relay!Horizon \in Nat
         /\ \A e \in Range(arrived) : e <= Relay!Horizon
         /\ \A e \in Nat \ {0} : (\A i \in DOMAIN arrived : arrived[i] < e) => e > Relay!Horizon
<1>1. CASE arrived = <<>>
  BY <1>1, FlatEmpty DEF Relay!Horizon
<1>2. CASE arrived # <<>>
  <2>1. /\ Len(arrived) \in Nat \ {0} /\ DOMAIN arrived = 1 .. Len(arrived)
    BY <1>2, EmptySeq, LenProperties
  <2>2. Relay!Horizon = arrived[Len(arrived)] /\ Len(arrived) \in DOMAIN arrived
    BY <1>2, <2>1 DEF Relay!Horizon, Relay!Last
  <2>3. \A i \in DOMAIN arrived : arrived[i] \in Nat
    BY <2>1
  <2>4. \A i \in DOMAIN arrived : arrived[i] <= Relay!Horizon
    BY <2>1, <2>2, <2>3 DEF Increasing
  <2>5. \A e \in Range(arrived) : e <= Relay!Horizon
    BY <2>4 DEF Range
  <2> QED BY <2>2, <2>3, <2>5
<1> QED BY <1>1, <1>2

\* Losing events that have arrived, or are younger than all that have, is
\* giving up the latter.
LEMMA LosingIsGivingUp ==
  ASSUME TypeInv, OrderInv, NEW more \in SUBSET Event,
         UNCHANGED <<log, arrived>>, Lost' = Lost \union more,
         \A e \in more : e \in Range(arrived) \/ \A i \in DOMAIN arrived : arrived[i] < e
  PROVE  Relay!GiveUp \/ UNCHANGED Relay!vars
<1>1. arrived \in Seq(Nat) /\ Len(log) \in Nat /\ Event \subseteq Nat \ {0}
  BY PlainTypes
<1>2. \A e \in more \ Range(arrived) : e > Relay!Horizon /\ e \in Nat
  BY <1>1, HorizonIsYoungest DEF OrderInv
<1>3. more \ Range(arrived) \subseteq (Relay!Horizon + 1) .. Len(log)
  <2> SUFFICES ASSUME NEW e \in more \ Range(arrived)
               PROVE  e \in (Relay!Horizon + 1) .. Len(log)
    OBVIOUS
  <2>1. Relay!Horizon \in Nat
    BY <1>1, HorizonIsYoungest DEF OrderInv
  <2>2. e \in Nat /\ e <= Len(log) /\ e > Relay!Horizon
    BY <1>1, <1>2 DEF Event
  <2> QED BY <1>1, <2>1, <2>2
<1>4. (Lost \ Range(arrived))' = (Lost \ Range(arrived)) \union (more \ Range(arrived))
  OBVIOUS
<1> QED
  BY <1>3, <1>4 DEF Relay!GiveUp, Relay!vars, Relay!Pending

\* A batch that arrives is a delivery.
LEMMA ArrivalIsDelivery ==
  ASSUME TypeInv, OrderInv, AccountInv, ArrivalInv, EndpointReceives
  PROVE  Relay!Deliver
<1>1. /\ arrived \in Seq(Nat) /\ inflight \in Seq(Nat) /\ ring \in Seq(Nat)
      /\ chan \in Seq(Seq(Nat)) /\ Len(log) \in Nat /\ Event \subseteq Nat \ {0}
      /\ rx \in 1 .. Len(log) + 1 /\ lost \in [LossReason -> SUBSET Event]
      /\ \A k \in DOMAIN chan : chan[k] \in Seq(Nat)
  BY PlainTypes
<1>2. /\ arrived' = arrived \o inflight /\ UNCHANGED <<log, lost>> /\ ppc = "sending"
      /\ inflight # <<>>
  BY DEF EndpointReceives, ArrivalInv
<1>3. /\ Len(arrived) \in Nat /\ Len(inflight) \in Nat \ {0}
      /\ DOMAIN arrived = 1 .. Len(arrived) /\ DOMAIN inflight = 1 .. Len(inflight)
  BY <1>1, <1>2, EmptySeq, LenProperties
<1>4. /\ Increasing(inflight) /\ Increasing(arrived) /\ Before(arrived, inflight)
      /\ Below(inflight, rx) /\ Before(inflight, ring)
      /\ \A k \in DOMAIN chan : Before(inflight, chan[k])
  BY <1>2 DEF OrderInv
<1>5. SubSeq(arrived', Len(arrived) + 1, Len(arrived')) = inflight
  <2>1. Len(arrived') = Len(arrived) + Len(inflight)
    BY <1>1, <1>2, ConcatProperties
  <2>2. /\ Len(arrived) + 1 \in Len(arrived) + 1 .. Len(arrived) + Len(inflight)
        /\ Len(arrived') \in Len(arrived) + 1 .. Len(arrived) + Len(inflight)
        /\ (Len(arrived) + 1) - Len(arrived) = 1
        /\ Len(arrived') - Len(arrived) = Len(inflight)
    BY <1>3, <2>1
  <2>3. SubSeq(arrived \o inflight, Len(arrived) + 1, Len(arrived'))
          = SubSeq(inflight, 1, Len(inflight))
    BY SMTT(20), <1>1, <2>2, SubSeqOfConcat2
  <2> QED BY <1>1, <1>2, <2>3, SubSeqFull
<1>6. Last(inflight) = inflight[Len(inflight)] /\ Len(inflight) \in DOMAIN inflight
  BY <1>3 DEF Last
<1>7. Last(inflight) \in Nat /\ Last(inflight) < rx
  <2>1. inflight[Len(inflight)] \in Nat
    BY <1>1, <1>6
  <2>2. inflight[Len(inflight)] < rx
    BY <1>4, <1>6 DEF Below
  <2> QED BY <1>6, <2>1, <2>2
<1>8. Range(inflight) \intersect Lost = {}
  BY DEF AccountInv, Split, Shared, Lost, LossReason
<1>9. Range(inflight) \subseteq {e \in Relay!Pending : e <= Last(inflight)}
  <2> SUFFICES ASSUME NEW i \in DOMAIN inflight
               PROVE  inflight[i] \in Relay!Pending /\ inflight[i] <= Last(inflight)
    BY DEF Range
  <2>1. inflight[i] \in Nat /\ inflight[i] < rx
    BY <1>1, <1>3, <1>4 DEF Below
  <2>2. inflight[i] <= Last(inflight)
    BY <1>3, <1>4, <1>6, <1>7, <2>1 DEF Increasing
  <2>3. inflight[i] \in Range(inflight)
    BY DEF Range
  <2>4. inflight[i] \in Event
    BY <2>3, RangeOfEvents DEF TypeInv, TypeOK
  <2>5. inflight[i] > Relay!Horizon
    BY <1>1, <1>4, <2>4, HorizonIsYoungest DEF Before
  <2>6. inflight[i] \in (Relay!Horizon + 1) .. Len(log)
    BY <1>1, <1>4, <2>1, <2>4, <2>5, HorizonIsYoungest DEF Event
  <2>7. inflight[i] \notin Lost \ Range(arrived)
    BY <1>8, <2>3
  <2> QED BY <2>2, <2>6, <2>7 DEF Relay!Pending
<1>10. {e \in Relay!Pending : e <= Last(inflight)} \subseteq Range(inflight)
  <2> SUFFICES ASSUME NEW e \in Relay!Pending, e <= Last(inflight)
               PROVE  e \in Range(inflight)
    OBVIOUS
  <2>1. e \in (Relay!Horizon + 1) .. Len(log) /\ e \notin Lost \ Range(arrived)
    BY DEF Relay!Pending
  <2>2. e \in Nat /\ e > Relay!Horizon /\ e \in 1 .. rx - 1
    BY <1>1, <1>4, <1>7, <2>1, HorizonIsYoungest
  <2>3. e \notin Range(arrived)
    BY <1>1, <1>4, <2>2, HorizonIsYoungest
  <2>4. e \notin Lost /\ e \notin accepted
    BY <2>1, <2>3 DEF ArrivalInv
  <2>5. e \notin Range(ring)
    BY <1>1, <1>4, <1>6, <1>7, <2>2, Younger
  <2>6. e \notin Flat(chan)
    <3> SUFFICES ASSUME NEW k \in DOMAIN chan, e \in Range(chan[k]) PROVE FALSE
      BY DEF Flat
    <3> QED
      BY <1>1, <1>4, <1>6, <1>7, <2>2, Younger
  <2> QED
    BY <2>2, <2>4, <2>5, <2>6 DEF AccountInv, Split, Shared, Lost, LossReason
<1>11. Lost' \ Range(arrived') = Lost \ Range(arrived)
  <2>1. Lost' = Lost
    BY <1>2 DEF Lost
  <2>2. Range(arrived') = Range(arrived) \union Range(inflight)
    BY <1>1, <1>2, RangeConcatenation
  <2> QED BY <1>8, <2>1, <2>2
<1>12. \A i, j \in DOMAIN inflight : i < j => inflight[i] < inflight[j]
  BY <1>4 DEF Increasing
<1>13. Relay!Range(inflight) = Range(inflight) /\ Relay!Last(inflight) = Last(inflight)
  BY DEF Relay!Range, Relay!Last, Range, Last
<1>14. Relay!Range(inflight) = {e \in Relay!Pending : e <= Relay!Last(inflight)}
  BY <1>9, <1>10, <1>13
<1>15. UNCHANGED <<Len(log), Lost \ Range(arrived)>>
  BY <1>2, <1>11
<1> QED
  BY <1>2, <1>5, <1>12, <1>14, <1>15 DEF Relay!Deliver

RelayInv == TypeInv /\ OrderInv /\ EvictionInv /\ AccountInv /\ ArrivalInv

\* A step that loses the events of one reason adds them to Lost.
LEMMA LoseAdds ==
  ASSUME TypeInv, NEW reason \in LossReason, NEW events, Lose(reason, events)
  PROVE  Lost' = Lost \union events
<1>1. lost \in [LossReason -> SUBSET Event]
  BY PlainTypes
<1>2. lost' = [lost EXCEPT ![reason] = lost[reason] \union events]
  BY DEF Lose
<1>3. /\ lost'[reason] = lost[reason] \union events
      /\ \A r \in LossReason \ {reason} : lost'[r] = lost[r]
  BY <1>1, <1>2
<1>4. \A n : n \in Lost' <=> n \in Lost \/ n \in events
  BY <1>3 DEF Lost
<1> QED BY <1>4

\* What the pipeline gives up has arrived or is younger than all that has.
LEMMA GivenUp ==
  ASSUME RelayInv, NEW s \in {ring, inflight} \union Range(chan), NEW e \in Range(s),
         s = inflight => ppc \in {"sending", "waiting"}
  PROVE  e \in Range(arrived) \/ \A i \in DOMAIN arrived : arrived[i] < e
<1>1. PICK j \in DOMAIN s : e = s[j]
  BY DEF Range
<1>2. CASE Before(arrived, s)
  BY <1>1, <1>2 DEF Before
<1>3. CASE ~Before(arrived, s)
  <2>1. s = inflight /\ ppc # "sending"
    BY <1>3 DEF RelayInv, OrderInv, Range
  <2> QED
    BY <2>1 DEF RelayInv, ArrivalInv
<1> QED BY <1>2, <1>3

\* Every step of the pipeline is a step of the relay, or none.
LEMMA StepIsRelayed == RelayInv /\ [Next]_vars => [Relay!Next]_(Relay!vars)
<1> SUFFICES ASSUME RelayInv, [Next]_vars
             PROVE  Relay!Next \/ UNCHANGED Relay!vars
  OBVIOUS
<1>1. /\ TypeInv /\ OrderInv /\ AccountInv /\ ArrivalInv
      /\ ring \in Seq(Event) /\ inflight \in Seq(Event) /\ chan \in Seq(Seq(Event))
      /\ log \in Seq(Codes) /\ arrived \in Seq(Nat)
  BY PlainTypes DEF RelayInv, TypeInv, TypeOK
<1>2. ASSUME NEW code \in Codes, Broadcast(code) PROVE Relay!Next
  <2>1. Len(log') = Len(log) + 1 /\ UNCHANGED <<arrived, lost>>
    BY <1>1, <1>2, AppendProperties DEF Broadcast
  <2>2. UNCHANGED <<arrived, Lost \ Range(arrived)>>
    BY <2>1 DEF Lost
  <2> QED BY <2>1, <2>2 DEF Relay!Next, Relay!Publish
<1>3. CASE EndpointReceives
  BY <1>1, <1>3, ArrivalIsDelivery DEF Relay!Next
\* Giving up: what goes is Range(s) for a buffer s, or was never received.
<1>4. ASSUME NEW reason \in LossReason, NEW more \in SUBSET Event, Lose(reason, more),
             UNCHANGED <<log, arrived>>,
             \A e \in more : e \in Range(arrived) \/ \A i \in DOMAIN arrived : arrived[i] < e
      PROVE  Relay!Next \/ UNCHANGED Relay!vars
  BY <1>1, <1>4, LoseAdds, LosingIsGivingUp DEF Relay!Next
<1>5. ASSUME UNCHANGED <<log, arrived, lost>> PROVE UNCHANGED Relay!vars
  BY <1>5 DEF Relay!vars, Lost
<1>6. CASE BatcherRecv
  <2>1. CASE RingFull
    <3>1. ring # <<>>
      BY <1>1, <2>1, ConstantsAssumption, EmptySeq DEF RingFull
    <3>2. Head(ring) \in Range(ring) /\ Head(ring) \in Event
      <4>1. Head(ring) = ring[1] /\ 1 \in DOMAIN ring
        BY <1>1, <3>1, HeadTailProperties, EmptySeq
      <4> QED BY <1>1, <4>1 DEF Range
    <3>3. \A e \in {Head(ring)} :
            e \in Range(arrived) \/ \A i \in DOMAIN arrived : arrived[i] < e
      BY <1>1, <3>2 DEF OrderInv, Before, Range
    <3>4. Lose("evicted", {Head(ring)}) /\ UNCHANGED <<log, arrived>>
      BY <1>6, <2>1 DEF BatcherRecv
    <3> QED BY <1>4, <3>2, <3>3, <3>4 DEF LossReason
  <2>2. CASE ~RingFull
    BY <1>5, <1>6, <2>2 DEF BatcherRecv
  <2> QED BY <2>1, <2>2
<1>7. CASE BatcherLagged
  <2>1. rx \in Nat \ {0} /\ Len(log) \in Nat
    BY <1>1, PlainTypes
  <2>2. rx .. Len(log) - BroadcastCap \in SUBSET Event
    BY <2>1, ConstantsAssumption DEF Event
  <2>3. \A e \in rx .. Len(log) - BroadcastCap : \A i \in DOMAIN arrived : arrived[i] < e
    BY <1>1, <2>1, ConstantsAssumption DEF OrderInv, Below
  <2>4. Lose("lagged", rx .. Len(log) - BroadcastCap) /\ UNCHANGED <<log, arrived>>
    BY <1>7 DEF BatcherLagged
  <2> QED BY <1>4, <2>2, <2>3, <2>4 DEF LossReason
<1>8. CASE FlushFailed \/ KillBatcher
  <2>1. UNCHANGED <<log, arrived>> /\ (UNCHANGED lost \/ Lose("shutdown", Range(ring)))
    BY <1>8 DEF FlushFailed, KillBatcher
  <2>2. \A e \in Range(ring) : \A i \in DOMAIN arrived : arrived[i] < e
    BY <1>1 DEF OrderInv, Before, Range
  <2> QED BY <1>1, <1>4, <1>5, <2>1, <2>2, RangeOfEvents DEF LossReason
<1>9. CASE PostRateLimited \/ PostFailed
  <2>1. /\ UNCHANGED <<log, arrived>> /\ Lose("refused", Range(inflight))
        /\ ppc \in {"sending", "waiting"}
    BY <1>9 DEF PostRateLimited, PostFailed
  <2>2. \A e \in Range(inflight) :
          e \in Range(arrived) \/ \A i \in DOMAIN arrived : arrived[i] < e
    BY <2>1, GivenUp
  <2> QED BY <1>1, <1>4, <2>1, <2>2, RangeOfEvents DEF LossReason
<1>10. CASE KillPoller
  <2>1. UNCHANGED <<log, arrived>> /\ Lose("shutdown", Range(inflight) \union Queued)
    BY <1>10 DEF KillPoller
  <2>2. ASSUME NEW e \in Range(inflight) \union Queued
        PROVE  e \in Event /\ (e \in Range(arrived) \/ \A i \in DOMAIN arrived : arrived[i] < e)
    <3>1. CASE e \in Range(inflight)
      <4>1. ppc \in {"sending", "waiting"}
        BY <1>1, <3>1, FlatEmpty DEF AccountInv
      <4> QED BY <1>1, <3>1, <4>1, GivenUp, RangeOfEvents
    <3>2. CASE e \in Queued
      <4>1. PICK k \in DOMAIN chan : e \in Range(chan[k])
        BY <3>2 DEF Queued
      <4>2. Before(arrived, chan[k]) /\ chan[k] \in Seq(Event)
        BY <1>1 DEF OrderInv
      <4> QED BY <4>1, <4>2, RangeOfEvents DEF Before, Range
    <3> QED BY <3>1, <3>2
  <2>3. Range(inflight) \union Queued \in SUBSET Event
    BY <2>2
  <2> QED BY <1>4, <2>1, <2>2, <2>3 DEF LossReason
\* The other steps are the pipeline's own affair.
<1>11. CASE DropSenders \/ Abort \/ UNCHANGED vars \/ BatcherClosed \/ BatcherTick \/ FlushSent
  BY <1>5, <1>11 DEF DropSenders, Abort, vars, BatcherClosed, BatcherTick, FlushSent
<1>12. CASE PollerRecv \/ PollerClosed \/ BackoffEnds \/ PostOk
  BY <1>5, <1>12 DEF PollerRecv, PollerClosed, BackoffEnds, PostOk
<1> QED
  BY <1>2, <1>3, <1>6, <1>7, <1>8, <1>9, <1>10, <1>11, <1>12
     DEF Next, Environment, Batcher, PollerStep, Endpoint

\* Remote diagnostics keeps the promise of EventRelay: whatever the tasks,
\* buffers, timeouts and failed POSTs do, each batch that reaches the endpoint
\* is all that was pending up to its last event, in order and never given up.
THEOREM RelayRefined == Spec => ImplementsRelay
<1>1. Init => Relay!Init
  <2> SUFFICES ASSUME Init PROVE Relay!Init
    OBVIOUS
  <2>1. Len(log) = 0 /\ arrived = <<>> /\ Lost = {}
    BY DEF Init, Lost
  <2> QED BY <2>1 DEF Relay!Init
<1>2. Spec => []RelayInv
  <2>1. Spec => []TypeInv
    BY InitTypeInv, NextTypeInv, PTL DEF Spec
  <2>2. TypeInv => TypeOK
    BY DEF TypeInv
  <2>3. Spec => []OrderInv
    BY <2>1, <2>2, InitOrderInv, NextOrderInv, PTL DEF Spec
  <2>4. Spec => []ArrivalInv
    BY <2>1, InitArrivalInv, NextArrivalInv, PTL DEF Spec
  <2> QED
    BY <2>1, <2>3, <2>4, EvictionCorrect, AccountCorrect, PTL DEF RelayInv
<1> QED
  BY <1>1, <1>2, StepIsRelayed, PTL DEF Spec, ImplementsRelay, Relay!Spec

-----------------------------------------------------------------------------
(* Liveness, under FairSpec and the invariant NobodyWaitsInVain, which TLC *)
(* checks: TLAPS does not evaluate ENABLED.                                *)

\* FLUSH_TIMEOUT, whatever the poller does: FlushEnds for every capacity.
THEOREM FlushesEnd == FairSpec /\ []NobodyWaitsInVain => FlushEnds
<1>1. Flushing /\ <<Batcher>>_vars => ~Flushing'
  BY DEF Flushing, Batcher, BatcherRecv, BatcherLagged, BatcherClosed, BatcherTick, FlushSent,
         FlushFailed, KillBatcher
<1>2. Flushing => ~BatcherGone /\ ~(bpc = "select" /\ Unread = 0 /\ open /\ ring = <<>>)
  BY DEF Flushing, BatcherGone
<1> QED
  BY <1>1, <1>2, PTL DEF FairSpec, Spec, TaskFairness, FlushEnds, NobodyWaitsInVain

\* A task that is gone stays gone, and an abort is for good.
LEMMA GoneForGood ==
  /\ aborting /\ [Next]_vars => aborting'
  /\ BatcherGone /\ [Next]_vars => BatcherGone'
  /\ PollerGone /\ [Next]_vars => PollerGone'
BY DEF Next, Environment, Broadcast, DropSenders, Abort, Batcher, BatcherRecv, BatcherLagged,
      BatcherClosed, BatcherTick, FlushSent, FlushFailed, KillBatcher, PollerStep, PollerRecv,
      PollerClosed, BackoffEnds, KillPoller, Endpoint, EndpointReceives, PostOk, PostRateLimited,
      PostFailed, vars, batcherVars, pollerVars,
      BatcherGone, PollerGone, Flushing

\* After disconnect both tasks die, whatever they were waiting for.
THEOREM ShutdownEnds == FairSpec /\ []NobodyWaitsInVain => ShutdownCompletes
<1>1. <<KillBatcher>>_vars => BatcherGone'
  BY DEF KillBatcher, BatcherGone
<1>2. <<KillPoller>>_vars => PollerGone'
  BY DEF KillPoller, PollerGone
<1> QED
  BY <1>1, <1>2, GoneForGood, PTL
  DEF FairSpec, Spec, TaskFairness, ShutdownCompletes, NobodyWaitsInVain

-----------------------------------------------------------------------------
\* No Sender is left and every event was received.
Over == ~open /\ Unread = 0

\* It stays so, and the batcher has only its last flushes to do.
LEMMA OverSteps ==
  ASSUME Over, [Next]_vars
  PROVE  /\ Over'
         /\ \/ ~Batcher /\ bpc' = bpc
            \/ bpc = "select" /\ bpc' = "closing"
            \/ bpc = "flush" /\ bpc' = "select"
            \/ BatcherGone'
<1> USE ConstantsAssumption DEF Over, Unread
<1>1. CASE Batcher
  BY <1>1
  DEF Batcher, BatcherRecv, BatcherLagged, BatcherClosed, BatcherTick, FlushSent, FlushFailed,
      KillBatcher, BatcherGone, Flushing
<1>2. CASE ~Batcher
  BY <1>2
  DEF Next, Environment, Broadcast, DropSenders, Abort, Batcher, BatcherRecv, BatcherLagged,
      BatcherClosed, BatcherTick, FlushSent, FlushFailed, KillBatcher, PollerStep, PollerRecv,
      PollerClosed, BackoffEnds, KillPoller, Endpoint, EndpointReceives, PostOk, PostRateLimited,
      PostFailed, vars, batcherVars, pollerVars
<1> QED
  BY <1>1, <1>2

\* Once the Senders are gone and the last event is received, the batcher
\* flushes once more and ends, whether or not its batches get through.
THEOREM LastFlushEnds ==
  FairSpec /\ []NobodyWaitsInVain => (Over ~> BatcherGone)
<1>1. Over /\ [Next]_vars => Over'
  BY OverSteps
<1>2. Over /\ [Next]_vars =>
        \/ bpc' = bpc
        \/ bpc = "select" /\ bpc' = "closing"
        \/ bpc = "flush" /\ bpc' = "select"
        \/ BatcherGone'
  BY OverSteps
<1>3. Over /\ <<Batcher>>_vars =>
        \/ bpc = "select" /\ bpc' = "closing"
        \/ bpc = "flush" /\ bpc' = "select"
        \/ BatcherGone'
  <2> SUFFICES ASSUME Over, <<Batcher>>_vars
               PROVE  \/ bpc = "select" /\ bpc' = "closing"
                      \/ bpc = "flush" /\ bpc' = "select"
                      \/ BatcherGone'
    OBVIOUS
  <2> [Next]_vars
    BY DEF Next
  <2> QED
    BY OverSteps
<1>4. TypeOK => (~BatcherGone <=> bpc = "select" \/ bpc = "flush" \/ bpc = "closing")
  BY DEF TypeOK, BatcherGone
<1>5. Over => ~(bpc = "select" /\ Unread = 0 /\ open /\ ring = <<>>)
  BY DEF Over
<1>6. /\ ~(bpc = "select" /\ bpc = "flush") /\ ~(bpc = "select" /\ bpc = "closing")
      /\ ~(bpc = "flush" /\ bpc = "closing")
  OBVIOUS
<1>7. bpc' = bpc => /\ (bpc = "select" <=> (bpc = "select")')
                    /\ (bpc = "flush" <=> (bpc = "flush")')
                    /\ (bpc = "closing" <=> (bpc = "closing")')
  OBVIOUS
<1>8. bpc' = "closing" <=> (bpc = "closing")'
  OBVIOUS
<1>9. bpc' = "select" <=> (bpc = "select")'
  OBVIOUS
<1> QED
  BY <1>1, <1>2, <1>3, <1>4, <1>5, <1>6, <1>7, <1>8, <1>9, TypeCorrect, PTL
  DEF FairSpec, Spec, TaskFairness, NobodyWaitsInVain

-----------------------------------------------------------------------------
\* The poller's steps: only the endpoint ends a POST, and only the poller itself
\* leaves the others of its states.
LEMMA PollerSteps ==
  ASSUME TypeOK, [Next]_vars
  PROVE  \/ ~PollerStep /\ ~Endpoint /\ ppc' = ppc
         \/ PollerGone'
         \/ Endpoint /\ ppc = "sending" /\ ppc' = "waiting"
         \/ Endpoint /\ Posting /\ ppc' \in {"recv", "backoff"}
         \/ PollerStep /\ ppc = "backoff" /\ ppc' = "recv"
         \/ PollerStep /\ ppc = "recv" /\ chan # <<>> /\ ppc' = "sending"
<1>1. CASE PollerStep
  BY <1>1 DEF PollerStep, PollerRecv, PollerClosed, BackoffEnds, KillPoller, PollerGone
<1>2. CASE Endpoint
  BY <1>2 DEF Endpoint, EndpointReceives, PostOk, PostRateLimited, PostFailed, Posting
<1>3. CASE ~PollerStep /\ ~Endpoint
  BY <1>3
  DEF Next, Environment, Broadcast, DropSenders, Abort, Batcher, BatcherRecv, BatcherLagged,
      BatcherClosed, BatcherTick, FlushSent, FlushFailed, KillBatcher, vars, batcherVars,
      pollerVars
<1> QED
  BY <1>1, <1>2, <1>3

\* What PTL is to know of where the poller is.
LEMMA PollerPlaces ==
  /\ TypeOK => (~PollerGone <=> Posting \/ ppc = "backoff" \/ ppc = "recv")
  /\ Posting <=> ppc = "sending" \/ ppc = "waiting"
  /\ ppc = "sending" => ~(ppc = "waiting" \/ ppc = "backoff" \/ ppc = "recv")
  /\ ppc = "waiting" => ~(ppc = "backoff" \/ ppc = "recv")
  /\ ppc = "backoff" => ~(ppc = "recv")
BY DEF TypeOK, PollerGone, Posting

\* When POSTs end, the poller comes back for the next batch: whatever the answer
\* and however long the back-off, one failed batch never ends the delivery.
THEOREM PollerComesBack ==
  FairSpec /\ EndpointAnswers /\ []NobodyWaitsInVain
    => (~PollerGone ~> ppc = "recv" \/ PollerGone)
<1>1. ppc = "sending" /\ TypeOK /\ [Next]_vars =>
        \/ (ppc = "sending")' \/ (ppc = "waiting")' \/ (ppc = "backoff")'
        \/ (ppc = "recv")' \/ PollerGone'
  BY PollerSteps
<1>2. ppc = "waiting" /\ TypeOK /\ [Next]_vars =>
        (ppc = "waiting")' \/ (ppc = "backoff")' \/ (ppc = "recv")' \/ PollerGone'
  BY PollerSteps DEF Posting
<1>3. ppc = "backoff" /\ TypeOK /\ [Next]_vars =>
        (ppc = "backoff")' \/ (ppc = "recv")' \/ PollerGone'
  BY PollerSteps DEF Posting
<1>4. <<Endpoint>>_vars /\ TypeOK =>
        /\ ppc = "sending" => ~(ppc = "sending")'
        /\ ppc = "waiting" => ~(ppc = "waiting")'
  BY DEF Endpoint, EndpointReceives, PostOk, PostRateLimited, PostFailed
<1>5. <<PollerStep>>_vars /\ ppc = "backoff" => ~(ppc = "backoff")'
  BY DEF PollerStep, PollerRecv, PollerClosed, BackoffEnds, KillPoller
<1>6. Posting /\ <<PollerStep>>_vars => PollerGone'
  BY DEF PollerStep, PollerRecv, PollerClosed, BackoffEnds, KillPoller, Posting, PollerGone
<1> QED
  BY <1>1, <1>2, <1>3, <1>4, <1>5, <1>6, PollerPlaces, TypeCorrect, PTL
  DEF FairSpec, Spec, TaskFairness, EndpointAnswers, NobodyWaitsInVain

\* The last batch is delivered and nothing more can come.
Drained == BatcherGone /\ chan = <<>>

LEMMA DrainedStays == Drained /\ [Next]_vars => Drained'
<1> SUFFICES ASSUME Drained, [Next]_vars PROVE Drained'
  OBVIOUS
<1>1. BatcherGone'
  BY GoneForGood DEF Drained
<1>2. CASE Batcher
  BY <1>1, <1>2 DEF Batcher, BatcherRecv, BatcherLagged, BatcherClosed, BatcherTick, FlushSent,
    FlushFailed, KillBatcher, Drained, BatcherGone, Flushing
<1>3. CASE PollerStep
  BY <1>1, <1>3 DEF PollerStep, PollerRecv, PollerClosed, BackoffEnds, KillPoller, Drained
<1>4. CASE Environment \/ Endpoint \/ UNCHANGED vars
  BY <1>1, <1>4 DEF Environment, Broadcast, DropSenders, Abort, Endpoint, EndpointReceives, PostOk,
    PostRateLimited, PostFailed, vars, Drained
<1> QED
  BY <1>2, <1>3, <1>4 DEF Next

\* After the batcher has ended and its last batch was taken, the poller ends if
\* its POSTs do, which closes the channel of diagnoses.
THEOREM PollerEndsLast ==
  FairSpec /\ EndpointAnswers /\ []NobodyWaitsInVain => (Drained ~> PollerGone)
<1>1. Drained /\ ppc = "recv" /\ TypeOK /\ [Next]_vars => (ppc = "recv")' \/ PollerGone'
  BY PollerSteps DEF Drained, Posting
<1>2. Drained /\ ppc = "recv" /\ <<PollerStep>>_vars => PollerGone'
  BY DEF Drained, PollerStep, PollerRecv, PollerClosed, BackoffEnds, KillPoller, PollerGone
<1>3. Drained => ~(ppc = "recv" /\ chan = <<>> /\ ~BatcherGone)
  BY DEF Drained
<1> QED
  BY <1>1, <1>2, <1>3, PollerPlaces, DrainedStays, PollerComesBack, TypeCorrect, PTL
  DEF FairSpec, Spec, TaskFairness, NobodyWaitsInVain
=============================================================================
