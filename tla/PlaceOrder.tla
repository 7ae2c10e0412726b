----------------------------- MODULE PlaceOrder -----------------------------
(***************************************************************************)
(* Orders placed with IbClient::place_order_await (src/src/orders.rs), the *)
(* broker that works them, and the subscription between the two.           *)
(*                                                                         *)
(* The client side is the code: submit, then a loop that takes messages    *)
(* off the subscription under a timeout.  The broker and ibapi are modelled*)
(* from how the code uses them: the messages it matches on, the orders in  *)
(* which its comments say they come, and a transport that fails at any     *)
(* time, with or without an error in the stream.                           *)
(***************************************************************************)
EXTENDS IbErrors, Sequences, SequencesExt

CONSTANTS
  Order,            \* the order ids
  RefusalCodes,     \* notice codes that mean the broker refused the order
  TransportCodes,   \* notice codes that mean the connection is in trouble
  WarningCodes,     \* notice codes that mean nothing for the order
  CancelNoticeFirst, \* the notice of a cancel may come before its status, or alone
  MaxQueue          \* bound: messages waiting in one subscription

\* The notice sent for a cancelled order (errors.rs:336, "Order cancelled").
CancelCode == 202

ASSUME CodesAssumption ==
  /\ RefusalCodes \union TransportCodes \union WarningCodes \subseteq Int
  /\ \A c \in WarningCodes \union TransportCodes :
       classify_notice(c).kind # "OrderRejected"
  /\ \A c \in TransportCodes : is_connection_dead(classify_notice(c))
  /\ CancelNoticeFirst \in BOOLEAN
  /\ MaxQueue \in Nat

VARIABLES
  fate,       \* the order's state at the broker
  been,       \* history: every state the order has been in
  priced,     \* the broker knows the average fill price
  connected,  \* the transport is up
  asked,      \* cancel_order was called for the order
  call,       \* where the place_order_await call is
  stream,     \* the messages queued in its subscription
  answer      \* what the call returned, "none" before

brokerVars == <<fate, been, priced>>
vars == <<brokerVars, connected, asked, call, stream, answer>>

Fate == {"unsent", "sent", "live", "parked", "filled", "cancelled", "refused"}

\* average_fill_price: absent, zero, not a number, or a real price.
Price == {"none", "zero", "nan", "positive"}

Working == {"PendingSubmit", "PreSubmitted", "Submitted", "PendingCancel",
            "ApiPending", "ApiCancelled"}

Status(kind, price) == [type |-> "OrderStatus", kind |-> kind, price |-> price]
Error(err)          == [type |-> "Err", err |-> err]
Bookkeeping         == [type : {"OpenOrder", "ExecutionData", "CommissionReport"}]

StatusKind == Working \union {"Filled", "Cancelled", "Inactive"}

Message ==
  {Status(k, p) : k \in StatusKind, p \in Price} \union Bookkeeping
    \union {Error(Notice(c)) :
              c \in RefusalCodes \union TransportCodes \union WarningCodes \union {CancelCode}}
    \union {Error(Transport(v)) : v \in {"ConnectionReset", "Shutdown"}}

Chatter == Bookkeeping \union {Status(k, "none") : k \in Working}

Init ==
  /\ fate = [o \in Order |-> "unsent"]
  /\ been = [o \in Order |-> {"unsent"}]
  /\ priced = [o \in Order |-> FALSE]
  /\ connected = TRUE
  /\ asked = [o \in Order |-> FALSE]
  /\ call = [o \in Order |-> "idle"]
  /\ stream = [o \in Order |-> <<>>]
  /\ answer = [o \in Order |-> "none"]

Move(o, f) ==
  /\ fate' = [fate EXCEPT ![o] = f]
  /\ been' = [been EXCEPT ![o] = @ \union {f}]

\* Messages reach the call while it waits on a live connection; a dropped
\* subscription receives nothing.
Deliver(o, msgs) ==
  IF connected /\ call[o] = "waiting"
  THEN /\ Len(stream[o]) + Len(msgs) <= MaxQueue
       /\ stream' = [stream EXCEPT ![o] = @ \o msgs]
  ELSE UNCHANGED stream

-----------------------------------------------------------------------------
(* The broker and the transport.                                           *)

BrokerAccepts(o) ==
  /\ fate[o] \in {"sent", "parked"}
  /\ Move(o, "live")
  /\ \E k \in {"PreSubmitted", "Submitted"} : Deliver(o, <<Status(k, "none")>>)
  /\ UNCHANGED <<priced, connected, asked, call, answer>>

\* A rejection is an error notice and an Inactive status, in either order, or
\* one of the two alone (orders.rs:523-530).
BrokerRefuses(o) ==
  /\ fate[o] = "sent"
  /\ Move(o, "refused")
  /\ \E c \in RefusalCodes :
       LET error    == Error(Notice(c))
           inactive == Status("Inactive", "none")
       IN  \E msgs \in {<<error>>, <<inactive>>, <<error, inactive>>,
                        <<inactive, error>>} : Deliver(o, msgs)
  /\ UNCHANGED <<priced, connected, asked, call, answer>>

\* Not working for now: the market is closed, a GTC order has expired.
BrokerParks(o) ==
  /\ fate[o] \in {"sent", "live"}
  /\ Move(o, "parked")
  /\ Deliver(o, <<Status("Inactive", "none")>>)
  /\ UNCHANGED <<priced, connected, asked, call, answer>>

\* A Filled status may come before the average price is known.
BrokerFills(o) ==
  /\ fate[o] = "live"
  /\ Move(o, "filled")
  /\ \E p \in Price :
       /\ priced' = [priced EXCEPT ![o] = (p = "positive")]
       /\ Deliver(o, <<Status("Filled", p)>>)
  /\ UNCHANGED <<connected, asked, call, answer>>

BrokerPrices(o) ==
  /\ fate[o] = "filled"
  /\ ~priced[o]
  /\ priced' = [priced EXCEPT ![o] = TRUE]
  /\ Deliver(o, <<Status("Filled", "positive")>>)
  /\ UNCHANGED <<fate, been, connected, asked, call, answer>>

\* On request, or for the broker's own reasons.  What is sent first decides the
\* answer: the code counts the notice, a code in 200-299, as a refusal
\* (errors.rs:336-337).  CancelNoticeFirst says whether the broker may send it
\* ahead of the status, as it does the notice of a refusal.
BrokerCancels(o) ==
  /\ fate[o] \in {"live", "parked"}
  /\ Move(o, "cancelled")
  /\ LET cancelled == Status("Cancelled", "none")
         error     == Error(Notice(CancelCode))
     IN  \E msgs \in {<<cancelled>>, <<cancelled, error>>}
                       \union (IF CancelNoticeFirst
                               THEN {<<error>>, <<error, cancelled>>} ELSE {}) :
           Deliver(o, msgs)
  /\ UNCHANGED <<priced, connected, asked, call, answer>>

\* Acknowledgements, executions, warnings: at any time after the submission.
BrokerChatters(o) ==
  /\ fate[o] # "unsent"
  /\ connected /\ call[o] = "waiting"
  /\ \E m \in Chatter \union {Error(Notice(c)) : c \in WarningCodes \union TransportCodes} :
       Deliver(o, <<m>>)
  /\ UNCHANGED <<brokerVars, connected, asked, call, answer>>

\* The connection is gone for good: reconnect needs the client exclusively and
\* no call can be in flight then.  Some of the waiting calls get an error, the
\* others see their stream end.
ConnectionDrops ==
  /\ connected
  /\ connected' = FALSE
  /\ \E told \in SUBSET {o \in Order : call[o] = "waiting"},
        variant \in {"ConnectionReset", "Shutdown"} :
       stream' = [o \in Order |-> IF o \in told
                                  THEN Append(stream[o], Error(Transport(variant)))
                                  ELSE stream[o]]
  /\ UNCHANGED <<brokerVars, asked, call, answer>>

Broker(o) ==
  \/ BrokerAccepts(o) \/ BrokerRefuses(o) \/ BrokerParks(o) \/ BrokerFills(o)
  \/ BrokerPrices(o) \/ BrokerCancels(o) \/ BrokerChatters(o)

-----------------------------------------------------------------------------
(* Faulty variants, for the mutation runs.                                 *)

\* Issue 22: a fill without a price is booked.
classify_terminal_Priceless(event) ==
  IF event.type \in {"Filled", "Rejected", "Cancelled", "Inactive"}
  THEN event.type ELSE "none"

\* ApiCancelled, which only says that the API cancelled its request, taken
\* for the broker's Cancelled.
map_order_status_ApiCancelled(status) ==
  CASE status.kind \in {"Cancelled", "ApiCancelled"} -> [type |-> "Cancelled"]
    [] status.kind \in {"Submitted", "Inactive"} -> [type |-> status.kind]
    [] status.kind = "Filled" ->
         [type |-> "Filled",
          avg_price |-> IF status.price = "none" THEN "zero" ELSE status.price]
    [] OTHER -> [type |-> "Other"]

\* The loop waits for as long as the stream is open.
TimesOutOnlyWhenClosed(o) ==
  /\ call[o] = "waiting" /\ stream[o] = <<>> /\ ~connected
  /\ call' = [call EXCEPT ![o] = "returned"]
  /\ answer' = [answer EXCEPT ![o] = "Pending"]
  /\ UNCHANGED <<brokerVars, connected, asked, stream>>

-----------------------------------------------------------------------------
(* The client.                                                             *)

map_order_status(status) ==
  CASE status.kind \in {"Submitted", "Cancelled", "Inactive"} -> [type |-> status.kind]
    [] status.kind = "Filled" ->
         [type |-> "Filled",
          avg_price |-> IF status.price = "none" THEN "zero" ELSE status.price]
    [] OTHER -> [type |-> "Other"]

\* The outcome an event concludes the order with, "none" to keep waiting.
classify_terminal(event) ==
  CASE event.type = "Filled" /\ event.avg_price = "positive" -> "Filled"
    [] event.type \in {"Rejected", "Cancelled", "Inactive"}  -> event.type
    [] OTHER -> "none"

Outcome(msg) ==
  CASE msg.type = "OrderStatus" -> classify_terminal(map_order_status(msg))
    [] msg.type = "Err"         -> outcome_for_stream_error(FromIbapi(msg.err))
    [] OTHER                    -> "none"

SubmitErrors ==
  {Notice(c) : c \in RefusalCodes \union TransportCodes}
    \union {Io(k) : k \in IoKind} \union {Unclassifiable}
    \union {Transport(v) : v \in {"ConnectionFailed", "ConnectionReset", "Shutdown"}}

Return(o, value) ==
  /\ call' = [call EXCEPT ![o] = "returned"]
  /\ answer' = [answer EXCEPT ![o] = value]

\* inner.place_order has written the request; the subscription is open.
SubmitOk(o) ==
  /\ call[o] = "idle"
  /\ connected
  /\ call' = [call EXCEPT ![o] = "waiting"]
  /\ Move(o, "sent")
  /\ UNCHANGED <<priced, connected, asked, stream, answer>>

\* inner.place_order failed.  A refusal is the broker's; after any other error
\* the request may have been sent or not.
SubmitFails(o) ==
  /\ call[o] = "idle"
  /\ \E err \in SubmitErrors :
       /\ Return(o, order_submit_error(err).kind)
       /\ IF err.type = "Notice" /\ err.code \in RefusalCodes
          THEN Move(o, "refused")
          ELSE Move(o, "sent") \/ UNCHANGED <<fate, been>>
  /\ UNCHANGED <<priced, connected, asked, stream>>

\* cancel_order, called from another task while the await is in flight.
CancelOrder(o) ==
  /\ call[o] # "idle"
  /\ connected
  /\ ~asked[o]
  /\ asked' = [asked EXCEPT ![o] = TRUE]
  /\ UNCHANGED <<brokerVars, connected, call, stream, answer>>

\* One turn of the loop.  Returning drops the subscription.
AwaitMessage(o) ==
  /\ call[o] = "waiting"
  /\ stream[o] # <<>>
  /\ LET outcome == Outcome(Head(stream[o]))
     IN  IF outcome = "none"
         THEN /\ stream' = [stream EXCEPT ![o] = Tail(@)]
              /\ UNCHANGED <<call, answer>>
         ELSE /\ stream' = [stream EXCEPT ![o] = <<>>]
              /\ Return(o, outcome)
  /\ UNCHANGED <<brokerVars, connected, asked>>

AwaitStreamEnds(o) ==
  /\ call[o] = "waiting"
  /\ stream[o] = <<>>
  /\ ~connected
  /\ Return(o, "Pending")
  /\ UNCHANGED <<brokerVars, connected, asked, stream>>

\* timeout polls the loop before the clock, so the deadline counts only when
\* the loop has found its stream empty.
AwaitTimesOut(o) ==
  /\ call[o] = "waiting"
  /\ stream[o] = <<>>
  /\ Return(o, "Pending")
  /\ UNCHANGED <<brokerVars, connected, asked, stream>>

Await(o) == AwaitMessage(o) \/ AwaitStreamEnds(o) \/ AwaitTimesOut(o)

Next ==
  \/ ConnectionDrops
  \/ \E o \in Order :
       Broker(o) \/ SubmitOk(o) \/ SubmitFails(o) \/ CancelOrder(o) \/ Await(o)

Spec == Init /\ [][Next]_vars

\* The runtime polls the call when a message is ready, and its timer fires: the
\* clock is looked at whenever the loop has found its stream empty.
AwaitFairness(o) == WF_vars(AwaitMessage(o)) /\ SF_vars(AwaitTimesOut(o))

FairSpec == Spec /\ \A o \in Order : AwaitFairness(o)

\* The broker does not send messages faster, for ever, than the loop takes them.
BrokerPauses == \A o \in Order : []<>(stream[o] = <<>>)

-----------------------------------------------------------------------------
(* Properties.                                                             *)

Concludes == {"Filled", "Rejected", "Cancelled", "Inactive", "Pending"}

Answers == {"none", "OrderRejected", "ConnectionFailed", "ConnectionReset",
            "Timeout", "Other"} \union Concludes

\* The type of the state; a call that is not waiting has no queued message,
\* only a returned one has an answer, and only a placed order has a fate.
TypeOK ==
  /\ fate \in [Order -> Fate]
  /\ been \in [Order -> SUBSET Fate]
  /\ priced \in [Order -> BOOLEAN]
  /\ connected \in BOOLEAN
  /\ asked \in [Order -> BOOLEAN]
  /\ stream \in [Order -> Seq(Message)]
  /\ call \in [Order -> {"idle", "waiting", "returned"}]
  /\ answer \in [Order -> Answers]
  /\ \A o \in Order :
       /\ fate[o] \in been[o]
       /\ call[o] # "waiting" => stream[o] = <<>>
       /\ (call[o] = "returned") <=> (answer[o] # "none")
       /\ call[o] = "idle" => fate[o] = "unsent"

Truth == INSTANCE OrderTruth

\* place_order_await answers once, and what it answers was true of the order
\* at the broker, whichever message came first, was lost, or found the call
\* gone; only Pending, Timeout and the connection errors promise nothing.
ImplementsOrderTruth == Truth!Spec

\* What a queue will answer has been true of the order: the first of its
\* messages that concludes anything.  Those behind that one are never read.
SaysTrue(states, msgs) ==
  \A i \in 1 .. Len(msgs) :
    \/ Truth!Justified(states, Outcome(msgs[i]))
    \/ \E j \in 1 .. i - 1 : Outcome(msgs[j]) # "none"

\* The same of what is still to come: the queued message that would conclude
\* the order concludes it with what has been true of it.
QueueTruthful == \A o \in Order : SaysTrue(been[o], stream[o])

\* "Only a proven broker rejection ... maps to Rejected ... so we never claim a
\* rejection we cannot prove" (orders.rs:443-446), and Rejected is "a hard
\* broker refusal", distinct from "an explicit cancel" (orders.rs:174-177).
RejectedIsRefused ==
  \A o \in Order : answer[o] = "Rejected" => "refused" \in been[o]

\* A fill is only reported with a real average price (orders.rs:326-331): the
\* broker had priced it by then.
NoPhantomFill == \A o \in Order : answer[o] = "Filled" => priced[o]

\* The timer of a call that waits can fire whenever its stream is empty, also
\* while the connection is down (orders.rs:544-571): the hypothesis on ENABLED
\* under which the theorem about AwaitReturns is proved.
CanTimeOut(o) ==
  call[o] = "waiting" /\ stream[o] = <<>> => ENABLED <<AwaitTimesOut(o)>>_vars

AwaitNeverStuck == \A o \in Order : CanTimeOut(o)

\* The call ends, whatever the broker and the transport do: a message that
\* concludes the order, the end of the stream, or the timeout.
AwaitReturns ==
  BrokerPauses =>
    \A o \in Order :
      [](CanTimeOut(o) /\ (call[o] = "waiting" => <>(call[o] = "returned")))
=============================================================================
