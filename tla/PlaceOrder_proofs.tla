------------------------- MODULE PlaceOrder_proofs -------------------------
(***************************************************************************)
(* place_order_await implements OrderTruth, for every set of orders, every *)
(* choice of codes and every queue bound, unless the notice of a cancel    *)
(* comes ahead of its status (CancelNoticeFirst): then the code answers    *)
(* Rejected for an order that was not refused.                             *)
(*                                                                         *)
(* The inductive invariant is TypeOK and, without such notices,            *)
(* QueueTruthful: an answer is true because the message it is computed     *)
(* from was true of the order when it was queued, and the broker forgets   *)
(* no state (StatesAccumulate).                                            *)
(*                                                                         *)
(* NoPhantomFill has a strengthening of its own, Pricing: a price is only  *)
(* known of a filled order, and a queued message only says a known price.  *)
(***************************************************************************)
EXTENDS PlaceOrder, SequenceTheorems, TLAPS

Truthful == CancelNoticeFirst \/ QueueTruthful

IInv == TypeOK /\ Truthful

-----------------------------------------------------------------------------
(* What each message concludes.                                            *)

\* Acknowledgements and bookkeeping conclude nothing.
LEMMA ChatterOutcome ==
  \A m \in Chatter : Outcome(m) = "none"
BY DEF Chatter, Bookkeeping, Working, Status, Outcome, map_order_status,
       classify_terminal

\* A Filled status concludes a fill or nothing.
LEMMA FilledOutcome ==
  \A p \in Price : Outcome(Status("Filled", p)) \in {"none", "Filled"}
BY DEF Price, Status, Outcome, map_order_status, classify_terminal

\* The status of an order that is done concludes what it says.
LEMMA StatusOutcome ==
  /\ Outcome(Status("Inactive", "none")) = "Inactive"
  /\ Outcome(Status("Cancelled", "none")) = "Cancelled"
BY DEF Status, Outcome, map_order_status, classify_terminal

\* An error concludes a refusal or that nothing is known.
LEMMA ErrorOutcome ==
  ASSUME NEW err
  PROVE  Outcome(Error(err)) \in {"Rejected", "Pending"}
BY DEF Error, Outcome, outcome_for_stream_error

\* A warning or a transport notice concludes that nothing is known.
LEMMA NoticeOutcome ==
  ASSUME NEW c \in WarningCodes \union TransportCodes
  PROVE  Outcome(Error(Notice(c))) = "Pending"
<1>1. FromIbapi(Notice(c)) = classify_notice(c)
  BY DEF FromIbapi, Notice
<1>2. classify_notice(c).kind # "OrderRejected"
  BY CodesAssumption
<1> QED
  BY <1>1, <1>2 DEF Error, Outcome, outcome_for_stream_error

\* A transport error concludes that nothing is known.
LEMMA TransportOutcome ==
  ASSUME NEW v \in {"ConnectionReset", "Shutdown"}
  PROVE  Outcome(Error(Transport(v))) = "Pending"
<1>1. FromIbapi(Transport(v)).kind = "ConnectionReset"
  BY DEF FromIbapi, Transport, IbError
<1> QED
  BY <1>1 DEF Error, Outcome, outcome_for_stream_error

\* A submission is only answered with a rejection when the broker refused it.
LEMMA SubmitOutcome ==
  ASSUME NEW err \in SubmitErrors,
         order_submit_error(err).kind = "OrderRejected"
  PROVE  err.type = "Notice" /\ err.code \in RefusalCodes
<1>1. CASE err \in {Notice(c) : c \in RefusalCodes}
  BY <1>1 DEF Notice
<1>2. CASE err \in {Notice(c) : c \in TransportCodes}
  <2>1. PICK c \in TransportCodes : err = Notice(c)
    BY <1>2
  <2>2. is_connection_dead(classify_notice(c)) /\ err.type = "Notice" /\ err.code = c
    BY <2>1, CodesAssumption DEF Notice
  <2>3. order_submit_error(err) = with_context(classify_notice(c))
    BY <2>1, <2>2 DEF order_submit_error, FromIbapi
  <2> QED
    BY SMTT(20), <2>2, <2>3 DEF is_connection_dead, with_context, classify_notice, IbError
<1>3. CASE err \in {Io(k) : k \in IoKind}
  BY <1>3 DEF Io, IoKind, order_submit_error, FromIbapi, FromIo, with_context, IbError
<1>4. CASE err = Unclassifiable
  BY <1>4 DEF Unclassifiable, order_submit_error, FromIbapi, with_context, IbError
<1>5. CASE err \in {Transport(v) : v \in {"ConnectionFailed", "ConnectionReset", "Shutdown"}}
  BY <1>5 DEF Transport, order_submit_error, FromIbapi, with_context, IbError
<1> QED
  BY <1>1, <1>2, <1>3, <1>4, <1>5 DEF SubmitErrors

\* Every answer to a failed submission is an answer.
LEMMA SubmitAnswers ==
  ASSUME NEW err \in SubmitErrors
  PROVE  order_submit_error(err).kind \in Answers \ {"none"}
<1>1. CASE err \in {Notice(c) : c \in RefusalCodes \union TransportCodes}
  <2>1. err.type = "Notice"
    BY <1>1 DEF Notice
  <2>2. CASE is_connection_dead(classify_notice(err.code))
    <3>1. order_submit_error(err) = with_context(classify_notice(err.code))
      BY <2>1, <2>2 DEF order_submit_error, FromIbapi
    <3>2. classify_notice(err.code).kind \in {"ConnectionReset", "ConnectionFailed"}
      BY <2>2 DEF is_connection_dead
    <3>3. with_context(classify_notice(err.code)).kind = classify_notice(err.code).kind
      BY SMTT(20), <3>2 DEF with_context, classify_notice, IbError
    <3> QED
      BY <3>1, <3>2, <3>3 DEF Answers
  <2>3. CASE ~is_connection_dead(classify_notice(err.code))
    BY <2>1, <2>3 DEF order_submit_error, order_rejected_from, Answers
  <2> QED
    BY <2>2, <2>3
<1>2. CASE err \in {Io(k) : k \in IoKind}
  BY <1>2 DEF Io, IoKind, order_submit_error, FromIbapi, FromIo, with_context, IbError, Answers
<1>3. CASE err = Unclassifiable
  BY <1>3 DEF Unclassifiable, order_submit_error, FromIbapi, with_context, IbError, Answers
<1>4. CASE err \in {Transport(v) : v \in {"ConnectionFailed", "ConnectionReset", "Shutdown"}}
  BY <1>4 DEF Transport, order_submit_error, FromIbapi, with_context, IbError, Answers
<1> QED
  BY <1>1, <1>2, <1>3, <1>4 DEF SubmitErrors

\* A failed submission is never answered with a stream outcome.
LEMMA SubmitKinds ==
  ASSUME NEW err \in SubmitErrors
  PROVE  order_submit_error(err).kind \in IbErrorKind
<1>1. \A c : classify_notice(c).kind \in IbErrorKind
  BY DEF classify_notice, IbError, IbErrorKind
<1>2. \A k : FromIo(k).kind \in IbErrorKind
  BY DEF FromIo, IbError, IbErrorKind
<1>3. FromIbapi(err).kind \in IbErrorKind
  BY <1>1, <1>2 DEF FromIbapi, IbError, IbErrorKind
<1> QED
  BY <1>3 DEF order_submit_error, order_rejected_from, with_context, IbErrorKind

-----------------------------------------------------------------------------
(* What the steps share.                                                   *)

\* What was true of an order stays true.
LEMMA StatesAccumulate ==
  ASSUME NEW S, NEW T, S \subseteq T, NEW a, Truth!Justified(S, a)
  PROVE  Truth!Justified(T, a)
BY DEF Truth!Justified

\* Nothing, or no news, is always true.
LEMMA NoNews ==
  ASSUME NEW S, NEW a \in {"none", "Pending"}
  PROVE  Truth!Justified(S, a)
BY DEF Truth!Justified

\* The broker moves one order and forgets nothing.
LEMMA MoveFacts ==
  ASSUME TypeOK, NEW o \in Order, NEW f \in Fate, Move(o, f)
  PROVE  /\ fate' \in [Order -> Fate]
         /\ been' \in [Order -> SUBSET Fate]
         /\ f \in been'[o]
         /\ \A q \in Order : fate'[q] \in been'[q] /\ been[q] \subseteq been'[q]
         /\ \A q \in Order \ {o} : fate'[q] = fate[q]
BY DEF TypeOK, Move

\* What was said truly stays true.
LEMMA SayingsAccumulate ==
  ASSUME NEW S, NEW T, S \subseteq T, NEW msgs, SaysTrue(S, msgs)
  PROVE  SaysTrue(T, msgs)
BY StatesAccumulate DEF SaysTrue

\* True messages behind true messages are true messages.
LEMMA ConcatTrue ==
  ASSUME NEW S, NEW a \in Seq(Message), NEW b \in Seq(Message),
         SaysTrue(S, a), SaysTrue(S, b)
  PROVE  SaysTrue(S, a \o b)
<1>1. /\ Len(a \o b) = Len(a) + Len(b)
      /\ \A i \in 1 .. Len(a) + Len(b) :
           (a \o b)[i] = IF i <= Len(a) THEN a[i] ELSE b[i - Len(a)]
      /\ Len(a) \in Nat /\ Len(b) \in Nat
  BY ConcatProperties, LenProperties
<1>2. ASSUME NEW i \in 1 .. Len(a \o b)
      PROVE  \/ Truth!Justified(S, Outcome((a \o b)[i]))
             \/ \E j \in 1 .. i - 1 : Outcome((a \o b)[j]) # "none"
  <2>1. CASE i <= Len(a)
    <3>1. i \in 1 .. Len(a) /\ \A j \in 1 .. i : (a \o b)[j] = a[j]
      BY <1>1, <2>1
    <3>2. \/ Truth!Justified(S, Outcome(a[i]))
          \/ \E j \in 1 .. i - 1 : Outcome(a[j]) # "none"
      BY <3>1 DEF SaysTrue
    <3>3. \A j \in 1 .. i - 1 : (a \o b)[j] = a[j]
      BY <3>1
    <3>4. (a \o b)[i] = a[i]
      BY <3>1
    <3> QED
      BY <3>2, <3>3, <3>4, Zenon
  <2>2. CASE i > Len(a)
    <3> DEFINE k == i - Len(a)
    <3>1. /\ k \in 1 .. Len(b) /\ (a \o b)[i] = b[k]
          /\ \A j \in 1 .. k - 1 :
               j + Len(a) \in 1 .. i - 1 /\ (a \o b)[j + Len(a)] = b[j]
      BY <1>1, <2>2
    <3>2. \/ Truth!Justified(S, Outcome(b[k]))
          \/ \E j \in 1 .. k - 1 : Outcome(b[j]) # "none"
      BY <3>1 DEF SaysTrue
    <3> HIDE DEF k
    <3> QED
      BY <3>1, <3>2, Zenon
  <2> QED
    BY <1>1, <2>1, <2>2
<1> QED
  BY <1>2 DEF SaysTrue

\* An empty queue says nothing untrue.
LEMMA EmptyTrue ==
  ASSUME NEW S
  PROVE  SaysTrue(S, <<>>)
BY DEF SaysTrue

\* The head of a true queue is true, and so is what follows a head that
\* concludes nothing.
LEMMA HeadTailTrue ==
  ASSUME NEW S, NEW q \in Seq(Message), q # <<>>, SaysTrue(S, q)
  PROVE  /\ Truth!Justified(S, Outcome(Head(q)))
         /\ Outcome(Head(q)) = "none" => SaysTrue(S, Tail(q))
<1>1. Len(q) \in Nat /\ Len(q) >= 1
  BY LenProperties, EmptySeq
<1>2. /\ Head(q) = q[1] /\ Tail(q) \in Seq(Message) /\ Len(Tail(q)) = Len(q) - 1
      /\ \A i \in 1 .. Len(Tail(q)) : Tail(q)[i] = q[i + 1]
  BY <1>1, HeadTailProperties
<1>3. Truth!Justified(S, Outcome(Head(q)))
  <2>1. 1 \in 1 .. Len(q) /\ ~\E j \in 1 .. 1 - 1 : Outcome(q[j]) # "none"
    BY <1>1
  <2> QED
    BY <1>2, <2>1 DEF SaysTrue
<1>4. ASSUME Outcome(Head(q)) = "none", NEW i \in 1 .. Len(Tail(q))
      PROVE  \/ Truth!Justified(S, Outcome(Tail(q)[i]))
             \/ \E j \in 1 .. i - 1 : Outcome(Tail(q)[j]) # "none"
  <2>1. i + 1 \in 1 .. Len(q) /\ Tail(q)[i] = q[i + 1]
    BY <1>1, <1>2
  <2>2. CASE Truth!Justified(S, Outcome(q[i + 1]))
    BY <2>1, <2>2
  <2>3. CASE \E j \in 1 .. (i + 1) - 1 : Outcome(q[j]) # "none"
    <3>1. PICK j \in 1 .. (i + 1) - 1 : Outcome(q[j]) # "none"
      BY <2>3
    <3>2. j # 1
      BY <1>2, <1>4, <3>1
    <3>3. j - 1 \in 1 .. i - 1 /\ j - 1 \in 1 .. Len(Tail(q)) /\ Tail(q)[j - 1] = q[j]
      <4>1. j - 1 \in 1 .. i - 1 /\ j - 1 \in 1 .. Len(Tail(q)) /\ (j - 1) + 1 = j
        BY <1>1, <1>2, <2>1, <3>2
      <4> QED
        BY <1>2, <4>1
    <3> QED
      BY <3>1, <3>3
  <2> QED
    BY <2>1, <2>2, <2>3 DEF SaysTrue
<1> QED
  BY <1>3, <1>4 DEF SaysTrue

\* Queueing true messages keeps the queues typed and true.
LEMMA DeliverFacts ==
  ASSUME IInv, NEW o \in Order, NEW msgs \in Seq(Message), Deliver(o, msgs),
         \A q \in Order : been[q] \subseteq been'[q],
         CancelNoticeFirst \/ SaysTrue(been'[o], msgs)
  PROVE  /\ stream' \in [Order -> Seq(Message)]
         /\ \A q \in Order : call[q] # "waiting" => stream'[q] = <<>>
         /\ Truthful'
<1>1. \A q \in Order : /\ stream[q] \in Seq(Message)
                       /\ call[q] # "waiting" => stream[q] = <<>>
  BY DEF IInv, TypeOK
<1>2. ~CancelNoticeFirst => \A q \in Order : SaysTrue(been'[q], stream[q])
  BY SayingsAccumulate DEF IInv, Truthful, QueueTruthful
<1>3. CASE connected /\ call[o] = "waiting"
  <2>1. stream' = [stream EXCEPT ![o] = @ \o msgs] /\ stream \in [Order -> Seq(Message)]
    BY <1>3 DEF Deliver, IInv, TypeOK
  <2>2. stream'[o] = stream[o] \o msgs /\ \A q \in Order \ {o} : stream'[q] = stream[q]
    BY <2>1
  <2>3. stream[o] \o msgs \in Seq(Message)
    BY <1>1, ConcatProperties
  <2>4. stream' \in [Order -> Seq(Message)]
    BY <2>1, <2>3
  <2>5. ~CancelNoticeFirst => SaysTrue(been'[o], stream'[o])
    BY <1>1, <1>2, <2>2, ConcatTrue
  <2>6. Truthful'
    BY <1>2, <2>2, <2>5 DEF Truthful, QueueTruthful
  <2> QED
    BY <1>1, <1>3, <2>2, <2>4, <2>6
<1>4. CASE ~(connected /\ call[o] = "waiting")
  <2>1. stream' = stream
    BY <1>4 DEF Deliver
  <2> QED
    BY <1>1, <1>2, <2>1 DEF IInv, TypeOK, Truthful, QueueTruthful
<1> QED
  BY <1>3, <1>4

\* A step in which the broker moves order o to f and sends messages that are
\* true of it preserves the invariant.
LEMMA BrokerStep ==
  ASSUME IInv, NEW o \in Order, NEW f \in Fate, NEW msgs \in Seq(Message),
         call[o] # "idle", Move(o, f), Deliver(o, msgs),
         priced' \in [Order -> BOOLEAN],
         UNCHANGED <<connected, asked, call, answer>>,
         CancelNoticeFirst \/ SaysTrue(been'[o], msgs)
  PROVE  IInv'
<1>1. TypeOK
  BY DEF IInv
<1>2. /\ fate' \in [Order -> Fate]
      /\ been' \in [Order -> SUBSET Fate]
      /\ \A q \in Order : fate'[q] \in been'[q] /\ been[q] \subseteq been'[q]
      /\ \A q \in Order \ {o} : fate'[q] = fate[q]
  BY <1>1, MoveFacts
<1>3. /\ stream' \in [Order -> Seq(Message)]
      /\ \A q \in Order : call[q] # "waiting" => stream'[q] = <<>>
      /\ Truthful'
  BY <1>2, DeliverFacts
<1>4. TypeOK'
  BY <1>1, <1>2, <1>3 DEF TypeOK
<1> QED
  BY <1>3, <1>4 DEF IInv

\* One message, and two, that conclude something true.
LEMMA OneMessage ==
  ASSUME NEW S, NEW m \in Message, Truth!Justified(S, Outcome(m))
  PROVE  <<m>> \in Seq(Message) /\ SaysTrue(S, <<m>>)
BY DEF SaysTrue

\* The same for two messages.
LEMMA TwoMessages ==
  ASSUME NEW S, NEW m \in Message, NEW n \in Message,
         Truth!Justified(S, Outcome(m)), Truth!Justified(S, Outcome(n))
  PROVE  <<m, n>> \in Seq(Message) /\ SaysTrue(S, <<m, n>>)
<1>1. Len(<<m, n>>) = 2 /\ <<m, n>>[1] = m /\ <<m, n>>[2] = n
  OBVIOUS
<1> QED
  BY <1>1 DEF SaysTrue

\* The second message is not read when the first concludes the order.
LEMMA ConcludedMessages ==
  ASSUME NEW S, NEW m \in Message, NEW n \in Message,
         Truth!Justified(S, Outcome(m)), Outcome(m) # "none"
  PROVE  <<m, n>> \in Seq(Message) /\ SaysTrue(S, <<m, n>>)
<1>1. Len(<<m, n>>) = 2 /\ <<m, n>>[1] = m /\ <<m, n>>[2] = n
  OBVIOUS
<1>2. 1 \in 1 .. 2 - 1
  OBVIOUS
<1> QED
  BY <1>1, <1>2 DEF SaysTrue

\* The messages the broker sends are messages.
LEMMA MessageTypes ==
  /\ Chatter \subseteq Message
  /\ \A p \in Price : Status("Filled", p) \in Message
  /\ Status("Inactive", "none") \in Message
  /\ Status("Cancelled", "none") \in Message
  /\ \A c \in RefusalCodes \union TransportCodes \union WarningCodes \union {CancelCode} :
       Error(Notice(c)) \in Message
  /\ \A v \in {"ConnectionReset", "Shutdown"} : Error(Transport(v)) \in Message
<1>1. Chatter \subseteq Message
  BY DEF Chatter, Message, StatusKind, Price
<1>2. \A p \in Price : Status("Filled", p) \in Message
  BY DEF Message, StatusKind
<1>3. Status("Inactive", "none") \in Message /\ Status("Cancelled", "none") \in Message
  BY DEF Message, StatusKind, Price
<1>4. \A c \in RefusalCodes \union TransportCodes \union WarningCodes \union {CancelCode} :
        Error(Notice(c)) \in Message
  BY DEF Message
<1>5. \A v \in {"ConnectionReset", "Shutdown"} : Error(Transport(v)) \in Message
  BY DEF Message
<1> QED
  BY <1>1, <1>2, <1>3, <1>4, <1>5

-----------------------------------------------------------------------------
(* The steps of the broker.                                                *)

\* Every move of the broker preserves the invariant: what it says of an order
\* is true of it.
LEMMA BrokerKeepsTruth ==
  ASSUME IInv, NEW o \in Order, Broker(o)
  PROVE  IInv'
<1>0. /\ TypeOK
      /\ fate[o] # "unsent" => call[o] # "idle"
      /\ priced \in [Order -> BOOLEAN]
  BY DEF IInv, TypeOK
<1>1. CASE BrokerAccepts(o)
  <2>1. PICK k \in {"PreSubmitted", "Submitted"} : Deliver(o, <<Status(k, "none")>>)
    BY <1>1 DEF BrokerAccepts
  <2>2. Status(k, "none") \in Chatter
    BY DEF Chatter, Working
  <2>3. Truth!Justified(been'[o], Outcome(Status(k, "none")))
    BY <2>2, ChatterOutcome, NoNews
  <2>4. <<Status(k, "none")>> \in Seq(Message)
    BY <2>2, MessageTypes
  <2> QED
    BY <1>0, <1>1, <2>1, <2>2, <2>3, <2>4, BrokerStep, OneMessage, MessageTypes
       DEF BrokerAccepts, Fate
<1>2. CASE BrokerRefuses(o)
  <2>1. PICK c \in RefusalCodes :
          \E msgs \in {<<Error(Notice(c))>>, <<Status("Inactive", "none")>>,
                       <<Error(Notice(c)), Status("Inactive", "none")>>,
                       <<Status("Inactive", "none"), Error(Notice(c))>>} :
            Deliver(o, msgs)
    BY <1>2 DEF BrokerRefuses
  <2>2. "refused" \in been'[o]
    BY <1>0, <1>2, MoveFacts DEF BrokerRefuses, Fate
  <2>3. Truth!Justified(been'[o], Outcome(Error(Notice(c))))
    <3>1. Outcome(Error(Notice(c))) \in {"Rejected", "Pending"}
      BY ErrorOutcome
    <3> QED
      BY <2>2, <3>1, NoNews DEF Truth!Justified
  <2>4. Truth!Justified(been'[o], Outcome(Status("Inactive", "none")))
    BY <2>2, StatusOutcome DEF Truth!Justified
  <2>5. Error(Notice(c)) \in Message /\ Status("Inactive", "none") \in Message
    BY MessageTypes
  <2>6. PICK msgs \in Seq(Message) : Deliver(o, msgs) /\ SaysTrue(been'[o], msgs)
    BY <2>1, <2>3, <2>4, <2>5, OneMessage, TwoMessages
  <2> QED
    BY <1>0, <1>2, <2>6, BrokerStep DEF BrokerRefuses, Fate
<1>3. CASE BrokerParks(o)
  <2>1. "parked" \in been'[o]
    BY <1>0, <1>3, MoveFacts DEF BrokerParks, Fate
  <2>2. Truth!Justified(been'[o], Outcome(Status("Inactive", "none")))
    BY <2>1, StatusOutcome DEF Truth!Justified
  <2> QED
    BY <1>0, <1>3, <2>2, BrokerStep, OneMessage, MessageTypes DEF BrokerParks, Fate
<1>4. CASE BrokerFills(o)
  <2>1. PICK p \in Price : /\ priced' = [priced EXCEPT ![o] = (p = "positive")]
                           /\ Deliver(o, <<Status("Filled", p)>>)
    BY <1>4 DEF BrokerFills
  <2>2. "filled" \in been'[o]
    BY <1>0, <1>4, MoveFacts DEF BrokerFills, Fate
  <2>3. Truth!Justified(been'[o], Outcome(Status("Filled", p)))
    BY <2>2, FilledOutcome DEF Truth!Justified
  <2>4. priced' \in [Order -> BOOLEAN]
    BY <1>0, <2>1
  <2> QED
    BY <1>0, <1>4, <2>1, <2>3, <2>4, BrokerStep, OneMessage, MessageTypes
       DEF BrokerFills, Fate
<1>5. CASE BrokerPrices(o)
  <2>1. /\ fate[o] = "filled"
        /\ UNCHANGED <<fate, been, connected, asked, call, answer>>
        /\ Deliver(o, <<Status("Filled", "positive")>>)
        /\ priced' = [priced EXCEPT ![o] = TRUE]
    BY <1>5 DEF BrokerPrices
  <2>2. "filled" \in been'[o]
    BY <1>0, <2>1 DEF TypeOK
  <2>3. Truth!Justified(been'[o], Outcome(Status("Filled", "positive")))
    BY <2>2, FilledOutcome DEF Truth!Justified, Price
  <2>4. Status("Filled", "positive") \in Message
    BY MessageTypes DEF Price
  <2>5. /\ stream' \in [Order -> Seq(Message)]
        /\ \A q \in Order : call[q] # "waiting" => stream'[q] = <<>>
        /\ Truthful'
    BY <2>1, <2>3, <2>4, DeliverFacts, OneMessage
  <2>6. priced' \in [Order -> BOOLEAN]
    BY <1>0, <2>1
  <2> QED
    BY <1>0, <2>1, <2>5, <2>6 DEF IInv, TypeOK
<1>6. CASE BrokerCancels(o)
  <2> DEFINE cancelled == Status("Cancelled", "none")
             error     == Error(Notice(CancelCode))
  <2>1. \E msgs \in {<<cancelled>>, <<cancelled, error>>}
                      \union (IF CancelNoticeFirst
                              THEN {<<error>>, <<error, cancelled>>} ELSE {}) :
          Deliver(o, msgs)
    BY <1>6 DEF BrokerCancels
  <2>2. "cancelled" \in been'[o]
    BY <1>0, <1>6, MoveFacts DEF BrokerCancels, Fate
  <2>3. Truth!Justified(been'[o], Outcome(cancelled)) /\ Outcome(cancelled) # "none"
    BY <2>2, StatusOutcome DEF Truth!Justified
  <2>4. error \in Message /\ cancelled \in Message
    BY MessageTypes
  <2> HIDE DEF cancelled, error
  <2>5. PICK msgs \in Seq(Message) :
          Deliver(o, msgs) /\ (CancelNoticeFirst \/ SaysTrue(been'[o], msgs))
    <3>1. CASE CancelNoticeFirst
      <4>1. PICK msgs \in {<<cancelled>>, <<cancelled, error>>, <<error>>, <<error, cancelled>>} :
              Deliver(o, msgs)
        BY <2>1
      <4>2. /\ <<cancelled>> \in Seq(Message) /\ <<cancelled, error>> \in Seq(Message)
            /\ <<error>> \in Seq(Message) /\ <<error, cancelled>> \in Seq(Message)
        BY <2>4
      <4>3. msgs \in Seq(Message)
        BY <4>1, <4>2, Zenon
      <4> QED
        BY <3>1, <4>1, <4>3
    <3>2. CASE ~CancelNoticeFirst
      BY <2>1, <2>3, <2>4, <3>2, OneMessage, ConcludedMessages
    <3> QED
      BY <3>1, <3>2
  <2> QED
    BY <1>0, <1>6, <2>5, BrokerStep DEF BrokerCancels, Fate
<1>7. CASE BrokerChatters(o)
  <2>1. PICK m \in Chatter \union {Error(Notice(c)) : c \in WarningCodes \union TransportCodes} :
          Deliver(o, <<m>>)
    BY <1>7 DEF BrokerChatters
  <2>2. m \in Message /\ Outcome(m) \in {"none", "Pending"}
    BY <2>1, MessageTypes, ChatterOutcome, NoticeOutcome
  <2>3. Truth!Justified(been'[o], Outcome(m))
    BY <2>2, NoNews
  <2>4. UNCHANGED <<brokerVars, connected, asked, call, answer>>
    BY <1>7 DEF BrokerChatters
  <2>5. /\ stream' \in [Order -> Seq(Message)]
        /\ \A q \in Order : call[q] # "waiting" => stream'[q] = <<>>
        /\ Truthful'
    BY <2>1, <2>2, <2>3, <2>4, DeliverFacts, OneMessage DEF brokerVars
  <2> QED
    BY <1>0, <2>4, <2>5 DEF IInv, TypeOK, brokerVars
<1> QED
  BY <1>1, <1>2, <1>3, <1>4, <1>5, <1>6, <1>7 DEF Broker

\* Losing the connection preserves the invariant: the error it leaves in a
\* stream concludes nothing.
LEMMA DropKeepsTruth ==
  ASSUME IInv, ConnectionDrops
  PROVE  IInv'
<1>1. PICK told \in SUBSET {o \in Order : call[o] = "waiting"},
           v \in {"ConnectionReset", "Shutdown"} :
        stream' = [o \in Order |-> IF o \in told
                                   THEN Append(stream[o], Error(Transport(v)))
                                   ELSE stream[o]]
  BY DEF ConnectionDrops
<1>2. UNCHANGED <<fate, been, priced, asked, call, answer>> /\ connected' = FALSE
  BY DEF ConnectionDrops, brokerVars
<1>3. ASSUME NEW q \in Order
      PROVE  /\ stream'[q] \in Seq(Message)
             /\ call[q] # "waiting" => stream'[q] = <<>>
             /\ CancelNoticeFirst \/ SaysTrue(been[q], stream'[q])
  <2>1. /\ stream[q] \in Seq(Message)
        /\ call[q] # "waiting" => stream[q] = <<>>
        /\ CancelNoticeFirst \/ SaysTrue(been[q], stream[q])
    BY DEF IInv, TypeOK, Truthful, QueueTruthful
  <2>2. CASE q \in told
    <3> DEFINE m == Error(Transport(v))
    <3>1. m \in Message
      BY MessageTypes
    <3>2. Truth!Justified(been[q], Outcome(m))
      BY TransportOutcome, NoNews
    <3>3. stream'[q] = Append(stream[q], m) /\ call[q] = "waiting"
      BY <1>1, <2>2
    <3> HIDE DEF m
    <3>4. <<m>> \in Seq(Message) /\ SaysTrue(been[q], <<m>>)
      BY <3>1, <3>2, OneMessage
    <3>5. Append(stream[q], m) = stream[q] \o <<m>>
      BY <2>1, <3>1, AppendIsConcat
    <3>6. stream'[q] \in Seq(Message)
      BY <2>1, <3>1, <3>3
    <3> QED
      BY <2>1, <3>3, <3>4, <3>5, <3>6, ConcatTrue
  <2>3. CASE q \notin told
    BY <1>1, <2>1, <2>3
  <2> QED
    BY <2>2, <2>3
<1>4. stream' \in [Order -> Seq(Message)]
  <2>1. stream' = [q \in Order |-> stream'[q]]
    BY <1>1
  <2> QED
    BY <1>3, <2>1
<1>5. TypeOK'
  BY <1>2, <1>3, <1>4 DEF IInv, TypeOK
<1>6. Truthful'
  BY <1>2, <1>3 DEF Truthful, QueueTruthful
<1> QED
  BY <1>5, <1>6 DEF IInv

-----------------------------------------------------------------------------
(* The steps of the client.                                                *)

\* What place_order_await does with a message: it throws it away, or answers
\* with it.
LEMMA AwaitFacts ==
  ASSUME IInv, NEW o \in Order, AwaitMessage(o)
  PROVE  LET outcome == Outcome(Head(stream[o]))
         IN  /\ Head(stream[o]) \in Message
             /\ Tail(stream[o]) \in Seq(Message)
             /\ \/ CancelNoticeFirst
                \/ /\ Truth!Justified(been[o], outcome)
                   /\ outcome = "none" => SaysTrue(been[o], Tail(stream[o]))
<1>1. stream[o] \in Seq(Message) /\ stream[o] # <<>>
  BY DEF IInv, TypeOK, AwaitMessage
<1>2. Head(stream[o]) \in Message /\ Tail(stream[o]) \in Seq(Message)
  BY <1>1, HeadTailProperties
<1>3. CancelNoticeFirst \/ SaysTrue(been[o], stream[o])
  BY DEF IInv, Truthful, QueueTruthful
<1> QED
  BY <1>1, <1>2, <1>3, HeadTailTrue

\* The outcome of a message is "none" or an answer.
LEMMA OutcomeTypes ==
  ASSUME NEW m \in Message
  PROVE  Outcome(m) \in Answers
<1>1. CASE m \in {Status(k, p) : k \in StatusKind, p \in Price}
  BY <1>1 DEF StatusKind, Working, Price, Status, Outcome, map_order_status,
              classify_terminal, Answers, Concludes
<1>2. CASE m \in Bookkeeping
  BY <1>2 DEF Bookkeeping, Outcome, Answers
<1>3. CASE \E err : m = Error(err)
  BY <1>3, ErrorOutcome DEF Answers, Concludes
<1> QED
  BY <1>1, <1>2, <1>3 DEF Message

\* Returning an answer, from a call whose queue is dropped or was never open.
LEMMA ReturnKeepsTruth ==
  ASSUME IInv, NEW o \in Order, NEW a \in Answers \ {"none"}, Return(o, a),
         call[o] = "waiting", stream' = [stream EXCEPT ![o] = <<>>],
         UNCHANGED <<brokerVars, connected, asked>>
  PROVE  IInv'
<1>1. TypeOK
  BY DEF IInv
<1>2. <<>> \in Seq(Message)
  OBVIOUS
<1>3. /\ stream' \in [Order -> Seq(Message)]
      /\ stream'[o] = <<>>
      /\ \A q \in Order \ {o} : stream'[q] = stream[q]
  BY <1>1, <1>2 DEF TypeOK
<1>4. /\ call' \in [Order -> {"idle", "waiting", "returned"}]
      /\ answer' \in [Order -> Answers]
      /\ call'[o] = "returned" /\ answer'[o] = a
      /\ \A q \in Order \ {o} : call'[q] = call[q] /\ answer'[q] = answer[q]
  BY <1>1 DEF TypeOK, Return
<1>5. TypeOK'
  BY <1>1, <1>3, <1>4 DEF TypeOK, brokerVars
<1>6. Truthful'
  BY <1>3, EmptyTrue DEF IInv, Truthful, QueueTruthful, brokerVars
<1> QED
  BY <1>5, <1>6 DEF IInv

\* Every step of the client preserves the invariant.
LEMMA ClientKeepsTruth ==
  ASSUME IInv, NEW o \in Order,
         SubmitOk(o) \/ SubmitFails(o) \/ CancelOrder(o) \/ Await(o)
  PROVE  IInv'
<1>0. TypeOK
  BY DEF IInv
<1>1. CASE SubmitOk(o)
  <2>1. /\ fate' \in [Order -> Fate]
        /\ been' \in [Order -> SUBSET Fate]
        /\ \A q \in Order : fate'[q] \in been'[q] /\ been[q] \subseteq been'[q]
        /\ \A q \in Order \ {o} : fate'[q] = fate[q]
    BY <1>0, <1>1, MoveFacts DEF SubmitOk, Fate
  <2>2. TypeOK'
    BY <1>0, <1>1, <2>1 DEF TypeOK, SubmitOk
  <2>3. Truthful'
    BY <1>1, <2>1, SayingsAccumulate DEF IInv, Truthful, QueueTruthful, SubmitOk
  <2> QED
    BY <2>2, <2>3 DEF IInv
<1>2. CASE SubmitFails(o)
  <2>1. PICK err \in SubmitErrors :
          /\ Return(o, order_submit_error(err).kind)
          /\ IF err.type = "Notice" /\ err.code \in RefusalCodes
             THEN Move(o, "refused")
             ELSE Move(o, "sent") \/ UNCHANGED <<fate, been>>
    BY <1>2 DEF SubmitFails
  <2>2. /\ fate' \in [Order -> Fate]
        /\ been' \in [Order -> SUBSET Fate]
        /\ \A q \in Order : fate'[q] \in been'[q] /\ been[q] \subseteq been'[q]
        /\ \A q \in Order \ {o} : fate'[q] = fate[q]
    <3>1. CASE Move(o, "refused")
      BY <1>0, <3>1, MoveFacts DEF Fate
    <3>2. CASE Move(o, "sent")
      BY <1>0, <3>2, MoveFacts DEF Fate
    <3>3. CASE UNCHANGED <<fate, been>>
      BY <1>0, <3>3 DEF TypeOK
    <3> QED
      BY <2>1, <3>1, <3>2, <3>3
  <2>3. order_submit_error(err).kind \in Answers \ {"none"}
    BY SubmitAnswers
  <2>4. /\ call' \in [Order -> {"idle", "waiting", "returned"}]
        /\ answer' \in [Order -> Answers]
        /\ call'[o] = "returned" /\ answer'[o] # "none"
        /\ \A q \in Order \ {o} : call'[q] = call[q] /\ answer'[q] = answer[q]
    BY <1>0, <2>1, <2>3 DEF TypeOK, Return
  <2>5. stream[o] = <<>>
    BY <1>0, <1>2 DEF TypeOK, SubmitFails
  <2>6. TypeOK'
    BY <1>0, <1>2, <2>2, <2>4, <2>5 DEF TypeOK, SubmitFails
  <2>7. Truthful'
    BY <1>2, <2>2, SayingsAccumulate DEF IInv, Truthful, QueueTruthful, SubmitFails
  <2> QED
    BY <2>6, <2>7 DEF IInv
<1>3. CASE CancelOrder(o)
  <2>1. TypeOK'
    BY <1>0, <1>3 DEF TypeOK, CancelOrder, brokerVars
  <2> QED
    BY <1>3, <2>1 DEF IInv, Truthful, QueueTruthful, CancelOrder, brokerVars
<1>4. CASE AwaitMessage(o)
  <2> DEFINE outcome == Outcome(Head(stream[o]))
  <2>1. /\ Head(stream[o]) \in Message
        /\ Tail(stream[o]) \in Seq(Message)
        /\ CancelNoticeFirst \/ (outcome = "none" => SaysTrue(been[o], Tail(stream[o])))
    BY <1>4, AwaitFacts
  <2>2. CASE outcome = "none"
    <3>1. stream' = [stream EXCEPT ![o] = Tail(@)] /\ UNCHANGED <<call, answer>>
      BY <1>4, <2>2 DEF AwaitMessage
    <3>2. UNCHANGED <<fate, been, priced, connected, asked>> /\ call[o] = "waiting"
      BY <1>4 DEF AwaitMessage, brokerVars
    <3>3. /\ stream' \in [Order -> Seq(Message)]
          /\ stream'[o] = Tail(stream[o])
          /\ \A q \in Order \ {o} : stream'[q] = stream[q]
      BY <1>0, <2>1, <3>1 DEF TypeOK
    <3>4. TypeOK'
      BY <1>0, <3>1, <3>2, <3>3 DEF TypeOK
    <3>5. Truthful'
      BY <2>1, <2>2, <3>2, <3>3 DEF IInv, Truthful, QueueTruthful
    <3> QED
      BY <3>4, <3>5 DEF IInv
  <2>3. CASE outcome # "none"
    <3>1. outcome \in Answers \ {"none"}
      BY <2>1, <2>3, OutcomeTypes
    <3>2. /\ call[o] = "waiting" /\ stream' = [stream EXCEPT ![o] = <<>>]
          /\ Return(o, outcome) /\ UNCHANGED <<brokerVars, connected, asked>>
      BY <1>4, <2>3 DEF AwaitMessage
    <3> QED
      BY <3>1, <3>2, ReturnKeepsTruth
  <2> QED
    BY <2>2, <2>3
<1>5. CASE AwaitStreamEnds(o) \/ AwaitTimesOut(o)
  <2>1. /\ call[o] = "waiting" /\ stream[o] = <<>> /\ Return(o, "Pending")
        /\ UNCHANGED <<brokerVars, connected, asked, stream>>
    BY <1>5 DEF AwaitStreamEnds, AwaitTimesOut
  <2>2. stream' = [stream EXCEPT ![o] = <<>>]
    BY <1>0, <2>1 DEF TypeOK
  <2>3. "Pending" \in Answers \ {"none"}
    BY DEF Answers, Concludes
  <2> QED
    BY <2>1, <2>2, <2>3, ReturnKeepsTruth
<1> QED
  BY <1>1, <1>2, <1>3, <1>4, <1>5 DEF Await

-----------------------------------------------------------------------------
(* The theorems.                                                           *)

\* The invariant holds at the start and is kept by every step.
LEMMA Inductive ==
  /\ Init => IInv
  /\ IInv /\ [Next]_vars => IInv'
<1>1. ASSUME Init
      PROVE  IInv
  <2>1. <<>> \in Seq(Message) /\ Len(<<>>) = 0
    OBVIOUS
  <2>2. TypeOK
    BY <1>1, <2>1 DEF Init, TypeOK, Fate, Answers
  <2>3. Truthful
    BY <1>1, EmptyTrue DEF Init, Truthful, QueueTruthful
  <2> QED
    BY <2>2, <2>3 DEF IInv
<1>2. ASSUME IInv, [Next]_vars
      PROVE  IInv'
  <2>1. CASE ConnectionDrops
    BY <1>2, <2>1, DropKeepsTruth
  <2>2. ASSUME NEW o \in Order, Broker(o)
        PROVE  IInv'
    BY <1>2, <2>2, BrokerKeepsTruth
  <2>3. ASSUME NEW o \in Order,
               SubmitOk(o) \/ SubmitFails(o) \/ CancelOrder(o) \/ Await(o)
        PROVE  IInv'
    BY <1>2, <2>3, ClientKeepsTruth
  <2>4. CASE UNCHANGED vars
    BY <1>2, <2>4 DEF vars, brokerVars, IInv, TypeOK, Truthful, QueueTruthful
  <2> QED
    BY <1>2, <2>1, <2>2, <2>3, <2>4 DEF Next
<1> QED
  BY <1>1, <1>2

\* Every state has its type: a call that is not waiting has no queued message,
\* and exactly the returned calls have an answer.
THEOREM TypeCorrect == Spec => []TypeOK
<1>1. IInv => TypeOK
  BY DEF IInv
<1> QED
  BY <1>1, Inductive, PTL DEF Spec

\* Unless the notice of a cancel comes ahead of its status, what a queue will
\* answer has been true of the order, and Rejected that the broker refused it.
THEOREM QueueCorrect == ~CancelNoticeFirst => (Spec => []QueueTruthful)
<1> SUFFICES ASSUME ~CancelNoticeFirst PROVE Spec => []QueueTruthful
  OBVIOUS
<1>1. IInv => QueueTruthful
  BY DEF IInv, Truthful
<1> QED
  BY <1>1, Inductive, PTL DEF Spec

\* A step of the broker, and of CancelOrder, answers nothing and forgets
\* nothing.
LEMMA BrokerMaps ==
  ASSUME IInv, ConnectionDrops \/ \E o \in Order : Broker(o) \/ CancelOrder(o)
  PROVE  answer' = answer /\ Truth!BrokerMoves
<1>0. TypeOK
  BY DEF IInv
<1>1. CASE ConnectionDrops
  BY <1>1 DEF ConnectionDrops, brokerVars, Truth!BrokerMoves
<1>2. ASSUME NEW o \in Order, Broker(o)
      PROVE  answer' = answer /\ Truth!BrokerMoves
  <2>1. CASE UNCHANGED been
    BY <1>2, <2>1 DEF Truth!BrokerMoves, Broker, BrokerAccepts, BrokerRefuses,
       BrokerParks, BrokerFills, BrokerPrices, BrokerCancels, BrokerChatters
  <2>2. CASE \E f \in Fate : Move(o, f)
    <3>1. Truth!BrokerMoves
      BY <1>0, <2>2, MoveFacts DEF Truth!BrokerMoves
    <3> QED
      BY <1>2, <3>1 DEF Broker, BrokerAccepts, BrokerRefuses, BrokerParks,
         BrokerFills, BrokerPrices, BrokerCancels, BrokerChatters
  <2> QED
    BY <1>2, <2>1, <2>2 DEF Broker, BrokerAccepts, BrokerRefuses, BrokerParks,
       BrokerFills, BrokerPrices, BrokerCancels, BrokerChatters, Fate, brokerVars
<1>3. ASSUME NEW o \in Order, CancelOrder(o)
      PROVE  answer' = answer /\ Truth!BrokerMoves
  BY <1>3 DEF CancelOrder, brokerVars, Truth!BrokerMoves
<1> QED
  BY <1>1, <1>2, <1>3

\* A return is an answer of the abstract specification when it is justified.
LEMMA ReturnMaps ==
  ASSUME IInv, NEW o \in Order, NEW a \in Answers \ {"none"}, Return(o, a),
         call[o] # "returned", Truth!Justified(been'[o], a)
  PROVE  Truth!Answer(o)
<1>1. answer[o] = "none"
  BY DEF IInv, TypeOK
<1>2. answer'[o] = a /\ \A q \in Order \ {o} : answer'[q] = answer[q]
  BY DEF IInv, TypeOK, Return
<1> QED
  BY <1>1, <1>2 DEF Truth!Answer

\* A step of the call answers once, truly, or is a step that answers nothing.
LEMMA ClientMaps ==
  ASSUME IInv, ~CancelNoticeFirst, NEW o \in Order, SubmitOk(o) \/ SubmitFails(o) \/ Await(o)
  PROVE  Truth!BrokerMoves /\ (answer' = answer \/ Truth!Answer(o))
<1>0. TypeOK
  BY DEF IInv
<1>1. CASE SubmitOk(o)
  <2>1. Truth!BrokerMoves
    BY <1>0, <1>1, MoveFacts DEF SubmitOk, Fate, Truth!BrokerMoves
  <2> QED
    BY <1>1, <2>1 DEF SubmitOk
<1>2. CASE SubmitFails(o)
  <2>1. PICK err \in SubmitErrors :
          /\ Return(o, order_submit_error(err).kind)
          /\ IF err.type = "Notice" /\ err.code \in RefusalCodes
             THEN Move(o, "refused")
             ELSE Move(o, "sent") \/ UNCHANGED <<fate, been>>
    BY <1>2 DEF SubmitFails
  <2> DEFINE a == order_submit_error(err).kind
  <2>2. a \in Answers \ {"none"}
    BY SubmitAnswers
  <2>3. Truth!BrokerMoves
    <3>1. ASSUME NEW f \in {"refused", "sent"}, Move(o, f)
          PROVE  Truth!BrokerMoves
      BY <1>0, <3>1, MoveFacts DEF Fate, Truth!BrokerMoves
    <3> QED
      BY <2>1, <3>1 DEF Truth!BrokerMoves
  <2>4. a \notin {"Filled", "Rejected", "Cancelled", "Inactive"}
    BY SubmitKinds DEF IbErrorKind
  <2>5. CASE a = "OrderRejected"
    <3>1. Move(o, "refused")
      BY <2>1, <2>5, SubmitOutcome
    <3>2. "refused" \in been'[o]
      BY <1>0, <3>1, MoveFacts DEF Fate
    <3> QED
      BY <1>2, <2>1, <2>2, <2>3, <2>5, <3>2, ReturnMaps DEF SubmitFails, Truth!Justified
  <2>6. CASE a # "OrderRejected"
    BY <1>2, <2>1, <2>2, <2>3, <2>4, <2>6, ReturnMaps DEF SubmitFails, Truth!Justified
  <2> QED
    BY <2>5, <2>6
<1>3. CASE AwaitMessage(o)
  <2>1. Truth!BrokerMoves
    BY <1>3 DEF AwaitMessage, brokerVars, Truth!BrokerMoves
  <2> DEFINE a == Outcome(Head(stream[o]))
  <2>2. CASE a = "none"
    BY <1>3, <2>1, <2>2 DEF AwaitMessage
  <2>3. CASE a # "none"
    <3>1. a \in Answers \ {"none"} /\ Truth!Justified(been[o], a)
      BY <1>3, <2>3, AwaitFacts, OutcomeTypes
    <3>2. Return(o, a) /\ call[o] # "returned" /\ been' = been
      BY <1>3, <2>3 DEF AwaitMessage, brokerVars
    <3> QED
      BY <2>1, <3>1, <3>2, ReturnMaps
  <2> QED
    BY <2>2, <2>3
<1>4. CASE AwaitStreamEnds(o) \/ AwaitTimesOut(o)
  <2>1. Truth!BrokerMoves
    BY <1>4 DEF AwaitStreamEnds, AwaitTimesOut, brokerVars, Truth!BrokerMoves
  <2>2. Return(o, "Pending") /\ call[o] # "returned"
    BY <1>4 DEF AwaitStreamEnds, AwaitTimesOut
  <2>3. "Pending" \in Answers \ {"none"}
    BY DEF Answers, Concludes
  <2> QED
    BY <2>1, <2>2, <2>3, NoNews, ReturnMaps
<1> QED
  BY <1>1, <1>2, <1>3, <1>4 DEF Await

\* place_order_await implements OrderTruth: what it answers was true of the
\* order at the broker, and it answers once, unless the notice of a cancel comes
\* ahead of its status.
THEOREM TruthRefined == ~CancelNoticeFirst => (Spec => ImplementsOrderTruth)
<1> SUFFICES ASSUME ~CancelNoticeFirst PROVE Spec => ImplementsOrderTruth
  OBVIOUS
<1>1. Init => Truth!Init
  BY DEF Init, Truth!Init
<1>2. IInv /\ [Next]_vars => [Truth!Next]_<<been, answer>>
  <2> SUFFICES ASSUME IInv, [Next]_vars
               PROVE  [Truth!Next]_<<been, answer>>
    OBVIOUS
  <2>1. CASE ConnectionDrops \/ \E o \in Order : Broker(o) \/ CancelOrder(o)
    BY <2>1, BrokerMaps DEF Truth!Next
  <2>2. CASE \E o \in Order : SubmitOk(o) \/ SubmitFails(o) \/ Await(o)
    BY <2>2, ClientMaps DEF Truth!Next
  <2>3. CASE UNCHANGED vars
    BY <2>3 DEF vars, brokerVars
  <2> QED
    BY <2>1, <2>2, <2>3 DEF Next
<1> QED
  BY <1>1, <1>2, Inductive, PTL DEF Spec, ImplementsOrderTruth, Truth!Spec, Truth!vars
-----------------------------------------------------------------------------
(* NoPhantomFill: a price, once known, stays known, and what would conclude *)
(* a fill was sent with one.                                               *)

\* Only a filled order is priced.
PricedIsFilled == \A o \in Order : priced[o] => fate[o] = "filled"

\* What would conclude a fill says a price that the broker has.
QueuePriced ==
  \A o \in Order : \A i \in 1 .. Len(stream[o]) :
    Outcome(stream[o][i]) = "Filled" => priced[o]

Pricing == PricedIsFilled /\ QueuePriced /\ NoPhantomFill

\* Queueing messages that say no price, or one that is known, keeps QueuePriced.
LEMMA DeliverKeepsPrices ==
  ASSUME TypeOK, QueuePriced, NEW o \in Order, NEW msgs \in Seq(Message),
         Deliver(o, msgs), \A q \in Order : priced[q] => priced'[q],
         \A i \in 1 .. Len(msgs) : Outcome(msgs[i]) = "Filled" => priced'[o]
  PROVE  QueuePriced'
<1>1. CASE connected /\ call[o] = "waiting"
  <2>1. stream' = [stream EXCEPT ![o] = @ \o msgs] /\ stream \in [Order -> Seq(Message)]
    BY <1>1 DEF Deliver, TypeOK
  <2>2. stream'[o] = stream[o] \o msgs /\ \A q \in Order \ {o} : stream'[q] = stream[q]
    BY <2>1
  <2>3. /\ Len(stream[o] \o msgs) = Len(stream[o]) + Len(msgs)
        /\ \A i \in 1 .. Len(stream[o]) + Len(msgs) :
             (stream[o] \o msgs)[i] =
               IF i <= Len(stream[o]) THEN stream[o][i] ELSE msgs[i - Len(stream[o])]
        /\ Len(stream[o]) \in Nat /\ Len(msgs) \in Nat
    BY <2>1, ConcatProperties, LenProperties
  <2>4. ASSUME NEW i \in 1 .. Len(stream'[o]), Outcome(stream'[o][i]) = "Filled"
        PROVE  priced'[o]
    <3>1. CASE i <= Len(stream[o])
      <4>1. i \in 1 .. Len(stream[o]) /\ stream'[o][i] = stream[o][i]
        BY <2>2, <2>3, <3>1
      <4> QED
        BY <2>4, <4>1 DEF QueuePriced
    <3>2. CASE i > Len(stream[o])
      <4>1. /\ i - Len(stream[o]) \in 1 .. Len(msgs)
            /\ stream'[o][i] = msgs[i - Len(stream[o])]
        BY <2>2, <2>3, <3>2
      <4> QED
        BY <2>4, <4>1
    <3> QED
      BY <2>3, <3>1, <3>2
  <2> QED
    BY <2>2, <2>4 DEF QueuePriced
<1>2. CASE ~(connected /\ call[o] = "waiting")
  BY <1>2 DEF Deliver, QueuePriced
<1> QED
  BY <1>1, <1>2

\* So does a step in which the broker says no price.
LEMMA UnpricedStep ==
  ASSUME TypeOK, Pricing, NEW o \in Order, NEW f \in Fate, ~priced[o],
         Move(o, f) \/ UNCHANGED <<fate, been>>,
         NEW msgs \in Seq(Message), Deliver(o, msgs), UNCHANGED <<priced, answer>>,
         \A i \in 1 .. Len(msgs) : Outcome(msgs[i]) # "Filled"
  PROVE  Pricing'
<1>1. QueuePriced'
  BY DeliverKeepsPrices DEF Pricing
<1>2. PricedIsFilled'
  <2>1. \A q \in Order \ {o} : fate'[q] = fate[q]
    BY MoveFacts
  <2> QED
    BY <2>1 DEF Pricing, PricedIsFilled
<1> QED
  BY <1>1, <1>2 DEF Pricing, NoPhantomFill

\* One message, and two, that conclude no fill.
LEMMA UnpricedMessages ==
  ASSUME NEW m \in Message, NEW n \in Message, Outcome(m) # "Filled", Outcome(n) # "Filled"
  PROVE  /\ <<m>> \in Seq(Message)
         /\ \A i \in 1 .. Len(<<m>>) : Outcome(<<m>>[i]) # "Filled"
         /\ <<m, n>> \in Seq(Message)
         /\ \A i \in 1 .. Len(<<m, n>>) : Outcome(<<m, n>>[i]) # "Filled"
OBVIOUS

\* Every move of the broker keeps the prices in order.
LEMMA BrokerKeepsPrices ==
  ASSUME TypeOK, Pricing, NEW o \in Order, Broker(o)
  PROVE  Pricing'
<1>0. \A q \in Order : fate[q] # "filled" => ~priced[q]
  BY DEF Pricing, PricedIsFilled
<1>1. CASE BrokerAccepts(o)
  <2>1. PICK k \in {"PreSubmitted", "Submitted"} : Deliver(o, <<Status(k, "none")>>)
    BY <1>1 DEF BrokerAccepts
  <2>2. Status(k, "none") \in Chatter
    BY DEF Chatter, Working
  <2>3. Status(k, "none") \in Message /\ Outcome(Status(k, "none")) # "Filled"
    BY <2>2, MessageTypes, ChatterOutcome
  <2>4. ~priced[o] /\ Move(o, "live") /\ UNCHANGED <<priced, answer>> /\ "live" \in Fate
    BY <1>0, <1>1 DEF BrokerAccepts, Fate
  <2> QED
    BY <2>1, <2>3, <2>4, UnpricedStep, UnpricedMessages
<1>2. CASE BrokerRefuses(o)
  <2>1. PICK c \in RefusalCodes :
          \E msgs \in {<<Error(Notice(c))>>, <<Status("Inactive", "none")>>,
                       <<Error(Notice(c)), Status("Inactive", "none")>>,
                       <<Status("Inactive", "none"), Error(Notice(c))>>} :
            Deliver(o, msgs)
    BY <1>2 DEF BrokerRefuses
  <2>2. Error(Notice(c)) \in Message /\ Status("Inactive", "none") \in Message
    BY MessageTypes
  <2>3. Outcome(Error(Notice(c))) # "Filled" /\ Outcome(Status("Inactive", "none")) # "Filled"
    <3>1. Outcome(Error(Notice(c))) \in {"Rejected", "Pending"}
      BY ErrorOutcome
    <3> QED
      BY <3>1, StatusOutcome
  <2>4. PICK msgs \in Seq(Message) :
          Deliver(o, msgs) /\ \A i \in 1 .. Len(msgs) : Outcome(msgs[i]) # "Filled"
    BY <2>1, <2>2, <2>3, UnpricedMessages
  <2>5. ~priced[o] /\ Move(o, "refused") /\ UNCHANGED <<priced, answer>> /\ "refused" \in Fate
    BY <1>0, <1>2 DEF BrokerRefuses, Fate
  <2> QED
    BY <2>4, <2>5, UnpricedStep
<1>3. CASE BrokerParks(o)
  <2>1. Status("Inactive", "none") \in Message /\ Outcome(Status("Inactive", "none")) # "Filled"
    BY MessageTypes, StatusOutcome
  <2>2. /\ ~priced[o] /\ Move(o, "parked") /\ UNCHANGED <<priced, answer>> /\ "parked" \in Fate
        /\ Deliver(o, <<Status("Inactive", "none")>>)
    BY <1>0, <1>3 DEF BrokerParks, Fate
  <2> QED
    BY <2>1, <2>2, UnpricedStep, UnpricedMessages
<1>4. CASE BrokerFills(o)
  <2>1. PICK p \in Price : /\ priced' = [priced EXCEPT ![o] = (p = "positive")]
                           /\ Deliver(o, <<Status("Filled", p)>>)
    BY <1>4 DEF BrokerFills
  <2>2. ~priced[o] /\ Move(o, "filled") /\ answer' = answer
    BY <1>0, <1>4 DEF BrokerFills
  <2>3. priced'[o] = (p = "positive") /\ \A q \in Order \ {o} : priced'[q] = priced[q]
    BY <2>1 DEF TypeOK
  <2>4. Outcome(Status("Filled", p)) = "Filled" => p = "positive"
    BY DEF Status, Outcome, map_order_status, classify_terminal
  <2>5. /\ <<Status("Filled", p)>> \in Seq(Message)
        /\ \A i \in 1 .. Len(<<Status("Filled", p)>>) :
             Outcome(<<Status("Filled", p)>>[i]) = "Filled" => priced'[o]
    <3>1. Status("Filled", p) \in Message
      BY MessageTypes
    <3>2. <<Status("Filled", p)>> \in Seq(Message) /\ Len(<<Status("Filled", p)>>) = 1
      BY <3>1
    <3>3. <<Status("Filled", p)>>[1] = Status("Filled", p)
      OBVIOUS
    <3>4. Outcome(Status("Filled", p)) = "Filled" => priced'[o]
      BY <2>3, <2>4
    <3>5. \A i \in 1 .. Len(<<Status("Filled", p)>>) : i = 1
      BY <3>2
    <3> QED
      BY <3>2, <3>3, <3>4, <3>5, Zenon
  <2>6. QueuePriced'
    BY <2>1, <2>2, <2>3, <2>5, DeliverKeepsPrices DEF Pricing
  <2>7. fate'[o] = "filled" /\ \A q \in Order \ {o} : fate'[q] = fate[q]
    BY <2>2 DEF TypeOK, Move
  <2> QED
    BY <2>2, <2>3, <2>6, <2>7 DEF Pricing, PricedIsFilled, NoPhantomFill
<1>5. CASE BrokerPrices(o)
  <2>1. /\ fate[o] = "filled" /\ UNCHANGED <<fate, answer>>
        /\ Deliver(o, <<Status("Filled", "positive")>>)
        /\ priced' = [priced EXCEPT ![o] = TRUE]
    BY <1>5 DEF BrokerPrices
  <2>2. priced'[o] = TRUE /\ \A q \in Order \ {o} : priced'[q] = priced[q]
    BY <2>1 DEF TypeOK
  <2>3. <<Status("Filled", "positive")>> \in Seq(Message)
    BY MessageTypes DEF Price
  <2>4. QueuePriced'
    BY <2>1, <2>2, <2>3, DeliverKeepsPrices DEF Pricing
  <2> QED
    BY <2>1, <2>2, <2>4 DEF Pricing, PricedIsFilled, NoPhantomFill
<1>6. CASE BrokerCancels(o)
  <2>1. \E msgs \in {<<Status("Cancelled", "none")>>, <<Error(Notice(CancelCode))>>,
                     <<Error(Notice(CancelCode)), Status("Cancelled", "none")>>,
                     <<Status("Cancelled", "none"), Error(Notice(CancelCode))>>} :
          Deliver(o, msgs)
    BY <1>6 DEF BrokerCancels
  <2>2. Error(Notice(CancelCode)) \in Message /\ Status("Cancelled", "none") \in Message
    BY MessageTypes
  <2>3. /\ Outcome(Error(Notice(CancelCode))) # "Filled"
        /\ Outcome(Status("Cancelled", "none")) # "Filled"
    <3>1. Outcome(Error(Notice(CancelCode))) \in {"Rejected", "Pending"}
      BY ErrorOutcome
    <3> QED
      BY <3>1, StatusOutcome
  <2>4. PICK msgs \in Seq(Message) :
          Deliver(o, msgs) /\ \A i \in 1 .. Len(msgs) : Outcome(msgs[i]) # "Filled"
    BY <2>1, <2>2, <2>3, UnpricedMessages
  <2>5. ~priced[o] /\ Move(o, "cancelled") /\ UNCHANGED <<priced, answer>> /\ "cancelled" \in Fate
    BY <1>0, <1>6 DEF BrokerCancels, Fate
  <2> QED
    BY <2>4, <2>5, UnpricedStep
<1>7. CASE BrokerChatters(o)
  <2>1. PICK m \in Chatter \union {Error(Notice(c)) : c \in WarningCodes \union TransportCodes} :
          Deliver(o, <<m>>)
    BY <1>7 DEF BrokerChatters
  <2>2. m \in Message /\ Outcome(m) \in {"none", "Pending"}
    BY <2>1, MessageTypes, ChatterOutcome, NoticeOutcome
  <2>3. UNCHANGED <<fate, priced, answer>>
    BY <1>7 DEF BrokerChatters, brokerVars
  <2>4. QueuePriced'
    BY <2>1, <2>2, <2>3, UnpricedMessages, DeliverKeepsPrices DEF Pricing
  <2> QED
    BY <2>3, <2>4 DEF Pricing, PricedIsFilled, NoPhantomFill
<1> QED
  BY <1>1, <1>2, <1>3, <1>4, <1>5, <1>6, <1>7 DEF Broker

\* A transport error says no price.
LEMMA DropKeepsPrices ==
  ASSUME TypeOK, Pricing, ConnectionDrops
  PROVE  Pricing'
<1>1. PICK told \in SUBSET {o \in Order : call[o] = "waiting"},
           v \in {"ConnectionReset", "Shutdown"} :
        stream' = [o \in Order |-> IF o \in told
                                   THEN Append(stream[o], Error(Transport(v)))
                                   ELSE stream[o]]
  BY DEF ConnectionDrops
<1> DEFINE m == Error(Transport(v))
<1>2. m \in Message /\ Outcome(m) # "Filled"
  BY TransportOutcome, MessageTypes
<1> HIDE DEF m
<1>3. ASSUME NEW q \in Order, NEW i \in 1 .. Len(stream'[q]),
             Outcome(stream'[q][i]) = "Filled"
      PROVE  priced[q]
  <2>1. stream[q] \in Seq(Message) /\ Len(stream[q]) \in Nat
    BY LenProperties DEF TypeOK
  <2>2. CASE q \in told
    <3>1. stream'[q] = Append(stream[q], m)
      BY <1>1, <2>2 DEF m
    <3>2. /\ Len(Append(stream[q], m)) = Len(stream[q]) + 1
          /\ \A j \in 1 .. Len(stream[q]) : Append(stream[q], m)[j] = stream[q][j]
          /\ Append(stream[q], m)[Len(stream[q]) + 1] = m
      BY <1>2, <2>1, AppendProperties
    <3>3. i # Len(stream[q]) + 1
      BY <1>2, <1>3, <3>1, <3>2
    <3>4. i \in 1 .. Len(stream[q])
      BY <2>1, <3>1, <3>2, <3>3
    <3> QED
      BY <1>3, <3>1, <3>2, <3>4 DEF Pricing, QueuePriced
  <2>3. CASE q \notin told
    BY <1>1, <1>3, <2>3 DEF Pricing, QueuePriced
  <2> QED
    BY <2>2, <2>3
<1>4. UNCHANGED <<fate, priced, answer>>
  BY DEF ConnectionDrops, brokerVars
<1> QED
  BY <1>3, <1>4 DEF Pricing, PricedIsFilled, QueuePriced, NoPhantomFill

\* The call answers with what its first message says, and drops the others.
LEMMA ClientKeepsPrices ==
  ASSUME IInv, Pricing, NEW o \in Order,
         SubmitOk(o) \/ SubmitFails(o) \/ CancelOrder(o) \/ Await(o)
  PROVE  Pricing'
<1>0. TypeOK
  BY DEF IInv
<1>1. CASE SubmitOk(o)
  <2>1. fate[o] # "filled" /\ \A q \in Order \ {o} : fate'[q] = fate[q]
    BY <1>0, <1>1, MoveFacts DEF SubmitOk, TypeOK, Fate
  <2>2. UNCHANGED <<priced, stream, answer>>
    BY <1>1 DEF SubmitOk
  <2> QED
    BY <2>1, <2>2 DEF Pricing, PricedIsFilled, QueuePriced, NoPhantomFill
<1>2. CASE SubmitFails(o)
  <2>1. PICK err \in SubmitErrors :
          /\ Return(o, order_submit_error(err).kind)
          /\ Move(o, "refused") \/ Move(o, "sent") \/ UNCHANGED <<fate, been>>
    BY <1>2 DEF SubmitFails
  <2>2. fate[o] # "filled" /\ UNCHANGED <<priced, stream>>
    BY <1>0, <1>2 DEF SubmitFails, TypeOK
  <2>3. \A q \in Order \ {o} : fate'[q] = fate[q]
    BY <1>0, <2>1, MoveFacts DEF Fate
  <2>4. answer'[o] # "Filled" /\ \A q \in Order \ {o} : answer'[q] = answer[q]
    <3>1. order_submit_error(err).kind # "Filled"
      BY SubmitKinds DEF IbErrorKind
    <3> QED
      BY <1>0, <2>1, <3>1 DEF Return, TypeOK
  <2>5. PricedIsFilled'
    BY <2>2, <2>3 DEF Pricing, PricedIsFilled
  <2> QED
    BY <2>2, <2>4, <2>5 DEF Pricing, QueuePriced, NoPhantomFill
<1>3. CASE CancelOrder(o)
  BY <1>3 DEF CancelOrder, brokerVars, Pricing, PricedIsFilled, QueuePriced, NoPhantomFill
<1>4. CASE AwaitMessage(o)
  <2> DEFINE outcome == Outcome(Head(stream[o]))
  <2>1. /\ stream[o] \in Seq(Message) /\ stream[o] # <<>> /\ UNCHANGED <<fate, priced>>
        /\ stream \in [Order -> Seq(Message)] /\ answer \in [Order -> Answers]
    BY <1>0, <1>4 DEF AwaitMessage, TypeOK, brokerVars
  <2>2. Len(stream[o]) \in Nat /\ Len(stream[o]) >= 1
    BY <2>1, LenProperties, EmptySeq
  <2>3. /\ Head(stream[o]) = stream[o][1]
        /\ Len(Tail(stream[o])) = Len(stream[o]) - 1
        /\ \A i \in 1 .. Len(Tail(stream[o])) : Tail(stream[o])[i] = stream[o][i + 1]
    BY <2>1, <2>2, HeadTailProperties
  <2>4. outcome = "Filled" => priced[o]
    BY <2>2, <2>3 DEF Pricing, QueuePriced
  <2>5. CASE outcome = "none"
    <3>1. stream' = [stream EXCEPT ![o] = Tail(@)] /\ answer' = answer
      BY <1>4, <2>5 DEF AwaitMessage
    <3>2. stream'[o] = Tail(stream[o]) /\ \A q \in Order \ {o} : stream'[q] = stream[q]
      BY <2>1, <3>1
    <3>3. ASSUME NEW i \in 1 .. Len(stream'[o]), Outcome(stream'[o][i]) = "Filled"
          PROVE  priced[o]
      <4>1. i + 1 \in 1 .. Len(stream[o]) /\ stream'[o][i] = stream[o][i + 1]
        BY <2>2, <2>3, <3>2
      <4> QED
        BY <3>3, <4>1 DEF Pricing, QueuePriced
    <3>4. QueuePriced'
      BY <2>1, <3>2, <3>3 DEF Pricing, QueuePriced
    <3> QED
      BY <2>1, <3>1, <3>4 DEF Pricing, PricedIsFilled, NoPhantomFill
  <2>6. CASE outcome # "none"
    <3>1. stream' = [stream EXCEPT ![o] = <<>>] /\ Return(o, outcome)
      BY <1>4, <2>6 DEF AwaitMessage
    <3>2. /\ answer'[o] = outcome /\ \A q \in Order \ {o} : answer'[q] = answer[q]
          /\ stream'[o] = <<>> /\ \A q \in Order \ {o} : stream'[q] = stream[q]
      BY <2>1, <3>1 DEF Return
    <3>3. Len(<<>>) = 0
      OBVIOUS
    <3>4. QueuePriced'
      BY SMTT(20), <2>1, <3>2, <3>3 DEF Pricing, QueuePriced
    <3> QED
      BY <2>1, <2>4, <3>2, <3>4 DEF Pricing, PricedIsFilled, NoPhantomFill
  <2> QED
    BY <2>5, <2>6
<1>5. CASE AwaitStreamEnds(o) \/ AwaitTimesOut(o)
  <2>1. Return(o, "Pending") /\ UNCHANGED <<fate, priced, stream>>
    BY <1>5 DEF AwaitStreamEnds, AwaitTimesOut, brokerVars
  <2>2. answer'[o] = "Pending" /\ \A q \in Order \ {o} : answer'[q] = answer[q]
    BY <1>0, <2>1 DEF Return, TypeOK
  <2> QED
    BY <2>1, <2>2 DEF Pricing, PricedIsFilled, QueuePriced, NoPhantomFill
<1> QED
  BY <1>1, <1>2, <1>3, <1>4, <1>5 DEF Await

\* A fill is only reported when the broker has priced it.
THEOREM FillsPriced == Spec => []NoPhantomFill
<1>1. Init => Pricing
  BY DEF Init, Pricing, PricedIsFilled, QueuePriced, NoPhantomFill
<1>2. IInv /\ Pricing /\ [Next]_vars => Pricing'
  <2> SUFFICES ASSUME IInv, Pricing, [Next]_vars PROVE Pricing'
    OBVIOUS
  <2>1. TypeOK
    BY DEF IInv
  <2>2. CASE UNCHANGED vars
    BY <2>2 DEF vars, brokerVars, Pricing, PricedIsFilled, QueuePriced, NoPhantomFill
  <2> QED
    BY <2>1, <2>2, BrokerKeepsPrices, DropKeepsPrices, ClientKeepsPrices DEF Next
<1>3. Pricing => NoPhantomFill
  BY DEF Pricing
<1> QED
  BY <1>1, <1>2, <1>3, Inductive, PTL DEF Spec

-----------------------------------------------------------------------------
(* Liveness, under FairSpec and AwaitNeverStuck, a hypothesis on ENABLED,  *)
(* which TLAPS does not evaluate.                                          *)

\* A call that waits goes on waiting or has returned.
LEMMA CallSteps ==
  ASSUME TypeOK, NEW o \in Order, call[o] = "waiting", [Next]_vars
  PROVE  call'[o] \in {"waiting", "returned"}
<1>1. ASSUME NEW q \in Order, Broker(q) PROVE UNCHANGED call
  BY <1>1 DEF Broker, BrokerAccepts, BrokerRefuses, BrokerParks, BrokerFills, BrokerPrices,
    BrokerCancels, BrokerChatters
<1>2. CASE ConnectionDrops \/ UNCHANGED vars
  BY <1>2 DEF ConnectionDrops, vars
<1>3. ASSUME NEW q \in Order, SubmitOk(q) \/ SubmitFails(q) \/ CancelOrder(q)
      PROVE  call'[o] \in {"waiting", "returned"}
  BY <1>3 DEF SubmitOk, SubmitFails, CancelOrder, Return, TypeOK
<1>4. ASSUME NEW q \in Order, Await(q) PROVE call'[o] \in {"waiting", "returned"}
  BY <1>4 DEF Await, AwaitMessage, AwaitStreamEnds, AwaitTimesOut, Return, TypeOK
<1> QED
  BY <1>1, <1>2, <1>3, <1>4 DEF Next

\* A call that waits returns, whatever it is sent: its timeout runs out as soon
\* as the broker gives it a moment of silence, connection or none.
THEOREM AwaitEnds == FairSpec /\ []AwaitNeverStuck => AwaitReturns
<1> SUFFICES ASSUME NEW o \in Order
             PROVE  FairSpec /\ []AwaitNeverStuck /\ []<>(stream[o] = <<>>)
                      => [](CanTimeOut(o) /\ (call[o] = "waiting" => <>(call[o] = "returned")))
  BY DEF AwaitReturns, BrokerPauses
<1>1. call[o] = "waiting" /\ TypeOK /\ [Next]_vars
        => (call[o] = "waiting")' \/ (call[o] = "returned")'
  BY CallSteps
<1>2. call[o] = "waiting" /\ TypeOK /\ <<AwaitTimesOut(o)>>_vars => (call[o] = "returned")'
  BY DEF AwaitTimesOut, Return, TypeOK
<1>3. /\ AwaitNeverStuck => CanTimeOut(o)
      /\ call[o] = "waiting" /\ stream[o] = <<>> /\ CanTimeOut(o)
           => ENABLED <<AwaitTimesOut(o)>>_vars
  BY DEF AwaitNeverStuck, CanTimeOut
<1>4. FairSpec => Spec /\ AwaitFairness(o)
  BY DEF FairSpec
<1> QED
  BY <1>1, <1>2, <1>3, <1>4, TypeCorrect, PTL DEF Spec, AwaitFairness
=============================================================================
