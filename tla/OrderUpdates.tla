----------------------------- MODULE OrderUpdates -----------------------------
(***************************************************************************)
(* The live stream of order updates, IbClient::order_updates and           *)
(* OrderStatusStream (src/src/orders.rs): executions, commissions and      *)
(* statuses of all orders on one subscription, with errors between them;   *)
(* and the flat form the Python binding gives an update.                   *)
(*                                                                         *)
(* A commission names no order: the consumer joins it to an execution with *)
(* the same execution id, and to the order through that.  IB may leave an  *)
(* id empty.  An update is numbered by its place in what ibapi delivered;  *)
(* fills, which no client sees, are numbered by the broker.                *)
(***************************************************************************)
EXTENDS Integers, Sequences, SequencesExt

CONSTANTS
  Order,     \* the order ids
  MaxFills,  \* bound: fills at the broker
  MaxSent    \* bound: items delivered to the subscription

ASSUME BoundsAssumption == MaxFills \in Nat /\ MaxSent \in Nat

VARIABLES
  fills,   \* the order of each fill at the broker
  named,   \* the fills that IB gave an execution id; the id is the number
  at,      \* the stream: "unsubscribed", "open", "ended" or "dropped"
  up,      \* the subscription is alive at the gateway
  sent,    \* history: the items ibapi has delivered
  queue,   \* those that next() has not taken
  handed   \* history: the numbers of the items next() has handed out, and as what

vars == <<fills, named, at, up, sent, queue, handed>>

EmptyId == 0
IdOf(k) == IF k \in named THEN k ELSE EmptyId

Init ==
  /\ fills = <<>>
  /\ named = {}
  /\ at = "unsubscribed"
  /\ up = FALSE
  /\ sent = <<>>
  /\ queue = <<>>
  /\ handed = <<>>

-----------------------------------------------------------------------------
(* The broker and ibapi.                                                   *)

BrokerFills(o) ==
  /\ Len(fills) < MaxFills
  /\ fills' = Append(fills, o)
  /\ named' = named \/ named' = named \union {Len(fills) + 1}
  /\ UNCHANGED <<at, up, sent, queue, handed>>

\* ibapi's OrderStatusKind, one of each kind that is mapped in its own way.
OrderStatusKind == {"ApiCancelled", "Submitted", "Filled", "Cancelled", "Inactive"}

Item == [type : {"OrderStatus"}, order : Order, status : OrderStatusKind]
          \union [type : {"OpenOrder"}, order : Order]
          \union [type : {"ExecutionData", "CommissionReport"}, fill : DOMAIN fills]
          \union [type : {"Err"}]

\* Any item, in any order: a commission may overtake its execution.
Delivers(item) ==
  /\ up
  /\ Len(sent) < MaxSent
  /\ sent' = Append(sent, item)
  /\ queue' = Append(queue, Len(sent) + 1)
  /\ UNCHANGED <<fills, named, at, up, handed>>

SubscriptionEnds ==
  /\ up
  /\ up' = FALSE
  /\ UNCHANGED <<fills, named, at, sent, queue, handed>>

-----------------------------------------------------------------------------
(* Faulty variants, for the mutation runs.                                 *)

\* Issue 35: an empty id is a correlation id like any other.
execution_correlation_id_Empty(id) == <<id>>

-----------------------------------------------------------------------------
(* The stream.                                                             *)

Nothing == <<>>

\* The events the stream makes; an order that is rejected is not among them.
OrderStatusEvent ==
  [type : {"Submitted", "Cancelled", "Inactive", "Other"}, order : Order]
    \union [type : {"Filled"}, order : Order, commission : {Nothing}, id : {Nothing}]
    \union [type : {"Execution"}, order : Order, id : DOMAIN fills]
    \union [type : {"Commission"}, id : DOMAIN fills]

\* None for an empty id.
execution_correlation_id(id) == IF id = EmptyId THEN Nothing ELSE <<id>>

\* The fill status carries neither a commission nor an id (issue 23).
map_order_status(item) ==
  CASE item.status \in {"Submitted", "Cancelled", "Inactive"} ->
         [type |-> item.status, order |-> item.order]
    [] item.status = "Filled" ->
         [type |-> "Filled", order |-> item.order, commission |-> Nothing, id |-> Nothing]
    [] OTHER -> [type |-> "Other", order |-> item.order]

\* The event of an item, Nothing for one that the stream does not surface.
map_order_update(item) ==
  LET id == execution_correlation_id(IdOf(item.fill))
  IN  CASE item.type = "OrderStatus" -> map_order_status(item)
        [] item.type = "ExecutionData" ->
             IF id = Nothing THEN Nothing
             ELSE [type |-> "Execution", order |-> fills[item.fill], id |-> id[1]]
        [] item.type = "CommissionReport" ->
             IF id = Nothing THEN Nothing ELSE [type |-> "Commission", id |-> id[1]]
        [] item.type = "OpenOrder" -> Nothing
        [] item.type = "Err"       -> [type |-> "Err"]

\* The one shape all events have in Python: what an event lacks is zero or None.
PyOrderStatusEvent(event) ==
  CASE event.type = "Filled" ->
         [kind |-> "Filled", order_id |-> event.order,
          commission |-> event.commission, execution_id |-> event.id]
    [] event.type = "Execution" ->
         [kind |-> "Execution", order_id |-> event.order,
          commission |-> Nothing, execution_id |-> <<event.id>>]
    [] event.type = "Commission" ->
         [kind |-> "Commission", order_id |-> 0,
          commission |-> <<"paid">>, execution_id |-> <<event.id>>]
    [] event.type \in {"Submitted", "Cancelled", "Inactive", "Other"} ->
         [kind |-> event.type, order_id |-> event.order,
          commission |-> Nothing, execution_id |-> Nothing]

order_updates ==
  /\ at = "unsubscribed"
  /\ at' = "open" /\ up' = TRUE
  /\ UNCHANGED <<fills, named, sent, queue, handed>>

\* Faulty: an update that is not surfaced ends the stream.
TakeItem_SkipEnds ==
  /\ at = "open"
  /\ queue # <<>>
  /\ queue' = Tail(queue)
  /\ LET event == map_order_update(sent[Head(queue)])
     IN  IF event = Nothing
         THEN at' = "ended" /\ UNCHANGED handed
         ELSE /\ handed' = Append(handed, [item |-> Head(queue), event |-> event])
              /\ UNCHANGED at
  /\ UNCHANGED <<fills, named, up, sent>>

\* One turn of the loop in next(): hand the event out, or go on.
TakeItem ==
  /\ at = "open"
  /\ queue # <<>>
  /\ queue' = Tail(queue)
  /\ LET event == map_order_update(sent[Head(queue)])
     IN  handed' = IF event = Nothing THEN handed
                   ELSE Append(handed, [item |-> Head(queue), event |-> event])
  /\ UNCHANGED <<fills, named, at, up, sent>>

\* next() returns None.
StreamEnds ==
  /\ at = "open"
  /\ queue = <<>>
  /\ ~up
  /\ at' = "ended"
  /\ UNCHANGED <<fills, named, up, sent, queue, handed>>

\* Dropping the stream cancels the subscription.
DropStream ==
  /\ at \in {"open", "ended"}
  /\ at' = "dropped"
  /\ up' = FALSE
  /\ queue' = <<>>
  /\ UNCHANGED <<fills, named, sent, handed>>

Next ==
  \/ \E o \in Order : BrokerFills(o)
  \/ \E item \in Item : Delivers(item)
  \/ SubscriptionEnds
  \/ order_updates \/ TakeItem \/ StreamEnds \/ DropStream

Spec == Init /\ [][Next]_vars

-----------------------------------------------------------------------------
(* Properties.                                                             *)

\* The types of the variables.
TypeOK ==
  /\ fills \in Seq(Order) /\ named \subseteq DOMAIN fills
  /\ at \in {"unsubscribed", "open", "ended", "dropped"}
  /\ up \in BOOLEAN
  /\ sent \in Seq(Item)
  /\ queue \in Seq(DOMAIN sent)
  /\ handed \in Seq([item : DOMAIN sent, event : OrderStatusEvent \union {[type |-> "Err"]}])

\* A commission is never attributed to the wrong order: whatever execution its
\* id joins it to, that execution is of the order the broker charged, also when
\* ids are missing and reports overtake each other (issues 23 and 35).  The
\* flat form loses none of this: the test a Python consumer is told to use
\* (README.md:476) picks the commissions, all of them and nothing else, and
\* an event has an execution id there exactly when it can be joined.
CommissionsAttributable ==
  LET Event(h) == PyOrderStatusEvent(h.event)
      Updates  == {h \in Range(handed) : h.event.type # "Err"}
      IsCharge(h) == Event(h).order_id = 0 /\ Event(h).commission # Nothing
  IN  /\ \A h \in Updates :
           /\ IsCharge(h) <=> h.event.type = "Commission"
           /\ Event(h).execution_id # Nothing <=> h.event.type \in {"Execution", "Commission"}
      /\ \A c, x \in Updates :
           /\ IsCharge(c) /\ ~IsCharge(x)
           /\ Event(c).execution_id = Event(x).execution_id
           => Event(x).order_id = fills[sent[c.item].fill]

\* next() loses nothing it should surface: each status, each error and each
\* report with an id comes out, in order, whatever is skipped before it and
\* whatever errors come between, and None comes after the last of them.
Surfaced(item) ==
  /\ item.type # "OpenOrder"
  /\ item.type \in {"ExecutionData", "CommissionReport"} => item.fill \in named

EveryUpdateComesOut ==
  at # "dropped" =>
    /\ {handed[i].item : i \in DOMAIN handed}
         = {n \in 1 .. Len(sent) - Len(queue) : Surfaced(sent[n])}
    /\ \A i, j \in DOMAIN handed : i < j => handed[i].item < handed[j].item
    /\ at = "ended" => queue = <<>>
=====
