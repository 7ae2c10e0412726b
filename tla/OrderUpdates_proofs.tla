-------------------------- MODULE OrderUpdates_proofs --------------------------
(***************************************************************************)
(* CommissionsAttributable and EveryUpdateComesOut of OrderUpdates, for    *)
(* any orders and any number of fills and items.                           *)
(*                                                                         *)
(* What a commission was charged for is only known at the broker, and the  *)
(* event is handed out long after its report was sent.  Faithful says that *)
(* an event still is what its item maps to: the broker adds fills but does *)
(* not change the id or the order of one.  That every update comes out     *)
(* needs what the queue is: the items sent and not taken, in order.        *)
(***************************************************************************)
EXTENDS OrderUpdates, TLAPS

\* Each event handed out is that of its item.
Faithful ==
  \A i \in DOMAIN handed :
    /\ handed[i].item \in DOMAIN sent
    /\ handed[i].event = map_order_update(sent[handed[i].item])
    /\ handed[i].event # Nothing

IInv == TypeOK /\ Faithful

-----------------------------------------------------------------------------
\* A sequence of elements of a set is one of a larger set.
LEMMA SeqGrows ==
  ASSUME NEW S, NEW T, \A x \in S : x \in T, NEW s \in Seq(S)
  PROVE  s \in Seq(T)
OBVIOUS

\* The empty sequence is one of any set.
LEMMA EmptyIsSeq == \A S : <<>> \in Seq(S)
OBVIOUS

\* Sequences of one element are equal when the elements are.
LEMMA SingletonsDiffer == \A a, b : <<a>> = <<b>> => a = b
<1> SUFFICES ASSUME NEW a, NEW b, <<a>> = <<b>> PROVE a = b
  OBVIOUS
<1>1. <<a>>[1] = <<b>>[1]
  OBVIOUS
<1> QED
  BY <1>1

\* What an event says of the report it was made from.
LEMMA Reports ==
  ASSUME fills \in Seq(Order), NEW item \in Item, NEW e,
         e = map_order_update(item), e # Nothing, e.type # "Err"
  PROVE  LET py == PyOrderStatusEvent(e)
         IN  \/ /\ e.type = "Commission"
                /\ item.fill \in DOMAIN fills
                /\ py.order_id = 0 /\ py.commission = <<"paid">>
                /\ py.execution_id = <<item.fill>>
             \/ /\ e.type = "Execution"
                /\ item.fill \in DOMAIN fills
                /\ py.order_id = fills[item.fill] /\ py.commission = Nothing
                /\ py.execution_id = <<item.fill>>
             \/ /\ e.type \in {"Submitted", "Filled", "Cancelled", "Inactive", "Other"}
                /\ py.commission = Nothing /\ py.execution_id = Nothing
<1> DEFINE id == execution_correlation_id(IdOf(item.fill))
<1>1. id # Nothing => IdOf(item.fill) = item.fill /\ id = <<item.fill>>
  BY DEF execution_correlation_id, IdOf, EmptyId, Nothing
<1>2. CASE item.type = "OrderStatus"
  <2>1. e = map_order_status(item)
    BY <1>2 DEF map_order_update
  <2>2. item.status \in OrderStatusKind
    BY <1>2 DEF Item
  <2> QED
    BY <2>1, <2>2 DEF map_order_status, PyOrderStatusEvent, OrderStatusKind
<1>3. CASE item.type = "ExecutionData"
  <2>1. e = [type |-> "Execution", order |-> fills[item.fill], id |-> id[1]]
    BY <1>3 DEF map_order_update
  <2>2. id # Nothing
    BY <1>3 DEF map_order_update
  <2>3. item.fill \in DOMAIN fills
    BY <1>3 DEF Item
  <2> QED
    BY <1>1, <2>1, <2>2, <2>3 DEF PyOrderStatusEvent
<1>4. CASE item.type = "CommissionReport"
  <2>1. e = [type |-> "Commission", id |-> id[1]]
    BY <1>4 DEF map_order_update
  <2>2. id # Nothing
    BY <1>4 DEF map_order_update
  <2>3. item.fill \in DOMAIN fills
    BY <1>4 DEF Item
  <2> QED
    BY <1>1, <2>1, <2>2, <2>3 DEF PyOrderStatusEvent
<1>5. CASE item.type \in {"OpenOrder", "Err"}
  BY <1>5 DEF map_order_update
<1> QED
  BY <1>2, <1>3, <1>4, <1>5 DEF Item

\* A fill that is there keeps its id and its order.
LEMMA MapStable ==
  ASSUME fills \in Seq(Order), named \subseteq DOMAIN fills,
         NEW item \in Item, NEW o \in Order, BrokerFills(o)
  PROVE  /\ item \in Item'
         /\ map_order_update(item)' = map_order_update(item)
<1>1. \A k \in DOMAIN fills : k \in DOMAIN fills' /\ fills'[k] = fills[k]
  BY DEF BrokerFills
<1>2. \A k \in DOMAIN fills : IdOf(k)' = IdOf(k)
  BY DEF BrokerFills, IdOf
<1>3. item \in Item'
  BY <1>1 DEF Item
<1>4. CASE item.type \in {"ExecutionData", "CommissionReport"}
  <2>1. item.fill \in DOMAIN fills
    BY <1>4 DEF Item
  <2> QED
    BY <1>1, <1>2, <1>3, <1>4, <2>1 DEF map_order_update, execution_correlation_id
<1>5. CASE item.type \in {"OrderStatus", "OpenOrder", "Err"}
  BY <1>3, <1>5 DEF map_order_update, map_order_status
<1> QED
  BY <1>3, <1>4, <1>5 DEF Item

\* What an item maps to, if it is surfaced, is an event.
LEMMA EventType ==
  ASSUME fills \in Seq(Order), NEW item \in Item, map_order_update(item) # Nothing
  PROVE  map_order_update(item) \in OrderStatusEvent \union {[type |-> "Err"]}
<1> DEFINE id == execution_correlation_id(IdOf(item.fill))
<1>1. id # Nothing => id[1] = item.fill
  BY DEF execution_correlation_id, IdOf, EmptyId, Nothing
<1>2. CASE item.type = "OrderStatus"
  <2>1. map_order_update(item) = map_order_status(item)
    BY <1>2 DEF map_order_update
  <2>2. item.status \in OrderStatusKind /\ item.order \in Order
    BY <1>2 DEF Item
  <2> QED
    BY <2>1, <2>2 DEF map_order_status, OrderStatusKind, OrderStatusEvent
<1>3. CASE item.type = "ExecutionData"
  <2>1. id # Nothing
        /\ map_order_update(item)
             = [type |-> "Execution", order |-> fills[item.fill], id |-> id[1]]
    BY <1>3 DEF map_order_update
  <2>2. item.fill \in DOMAIN fills /\ fills[item.fill] \in Order
    BY <1>3 DEF Item
  <2> QED
    BY <1>1, <2>1, <2>2 DEF OrderStatusEvent
<1>4. CASE item.type = "CommissionReport"
  <2>1. id # Nothing
        /\ map_order_update(item) = [type |-> "Commission", id |-> id[1]]
    BY <1>4 DEF map_order_update
  <2>2. item.fill \in DOMAIN fills
    BY <1>4 DEF Item
  <2> QED
    BY <1>1, <2>1, <2>2 DEF OrderStatusEvent
<1>5. CASE item.type \in {"OpenOrder", "Err"}
  BY <1>5 DEF map_order_update
<1> QED
  BY <1>2, <1>3, <1>4, <1>5 DEF Item

-----------------------------------------------------------------------------
\* The initial states satisfy the invariant.
LEMMA InitInv == Init => IInv
<1> SUFFICES ASSUME Init PROVE IInv
  OBVIOUS
<1> DEFINE H == [item : DOMAIN sent, event : OrderStatusEvent \union {[type |-> "Err"]}]
<1>1. fills \in Seq(Order) /\ sent \in Seq(Item) /\ queue \in Seq(DOMAIN sent)
      /\ handed \in Seq(H)
  <2> HIDE DEF H
  <2> QED
    BY EmptyIsSeq DEF Init
<1>2. Faithful
  BY DEF Init, Faithful
<1>3. named \subseteq DOMAIN fills /\ up \in BOOLEAN /\ at = "unsubscribed"
  BY DEF Init
<1> QED
  BY <1>1, <1>2, <1>3 DEF IInv, TypeOK

\* A fill more changes no fill that was reported.
LEMMA FillKeeps == IInv /\ (\E o \in Order : BrokerFills(o)) => IInv'
<1> SUFFICES ASSUME IInv, NEW o \in Order, BrokerFills(o) PROVE IInv'
  OBVIOUS
<1> USE DEF IInv, TypeOK
<1>1. \A k \in DOMAIN fills : k \in DOMAIN fills' /\ fills'[k] = fills[k]
  BY DEF BrokerFills
<1>2. fills' \in Seq(Order) /\ named' \subseteq DOMAIN fills'
  <2>1. /\ fills' \in Seq(Order)
        /\ DOMAIN fills = 1 .. Len(fills) /\ DOMAIN fills' = 1 .. Len(fills) + 1
        /\ Len(fills) \in Nat
    BY DEF BrokerFills
  <2> QED
    BY <2>1 DEF BrokerFills
<1>3. \A item \in Item : item \in Item'
  BY MapStable
<1>4. sent' \in Seq(Item')
  BY <1>3 DEF BrokerFills
<1>5. \A e \in OrderStatusEvent : e \in OrderStatusEvent'
  BY <1>1 DEF OrderStatusEvent
<1>6. handed' \in Seq([item : DOMAIN sent',
                       event : OrderStatusEvent' \union {[type |-> "Err"]}])
  <2> DEFINE H == [item : DOMAIN sent, event : OrderStatusEvent \union {[type |-> "Err"]}]
             HH == [item : DOMAIN sent',
                    event : OrderStatusEvent' \union {[type |-> "Err"]}]
  <2>1. \A h \in H : h \in HH
    BY <1>5 DEF BrokerFills
  <2>2. handed' \in Seq(H)
    BY DEF BrokerFills
  <2> QED
    BY <2>1, <2>2, SeqGrows
<1>7. Faithful'
  <2> SUFFICES ASSUME NEW i \in DOMAIN handed
               PROVE  /\ handed[i].item \in DOMAIN sent
                      /\ handed[i].event = map_order_update(sent[handed[i].item])'
                      /\ handed[i].event # Nothing
    BY DEF Faithful, BrokerFills
  <2>1. sent[handed[i].item] \in Item /\ sent' = sent /\ handed' = handed
    BY DEF Faithful, BrokerFills
  <2>2. map_order_update(sent[handed[i].item])' = map_order_update(sent[handed[i].item])
    BY <2>1, MapStable
  <2> QED
    BY <2>2 DEF Faithful
<1> QED
  BY <1>2, <1>4, <1>6, <1>7 DEF BrokerFills

\* An item more changes no item that was handed out.
LEMMA DeliveryKeeps == IInv /\ (\E item \in Item : Delivers(item)) => IInv'
<1> SUFFICES ASSUME IInv, NEW item \in Item, Delivers(item) PROVE IInv'
  OBVIOUS
<1> USE DEF IInv, TypeOK
<1>1. sent' \in Seq(Item') /\ Len(sent') = Len(sent) + 1
  BY DEF Delivers, Item
<1>2. \A n \in DOMAIN sent : n \in DOMAIN sent' /\ sent'[n] = sent[n]
  BY DEF Delivers
<1>3. queue' \in Seq(DOMAIN sent')
  BY <1>1, <1>2 DEF Delivers
<1>4. handed' \in Seq([item : DOMAIN sent',
                       event : OrderStatusEvent' \union {[type |-> "Err"]}])
  <2> DEFINE H == [item : DOMAIN sent, event : OrderStatusEvent \union {[type |-> "Err"]}]
             HH == [item : DOMAIN sent',
                    event : OrderStatusEvent' \union {[type |-> "Err"]}]
  <2>1. OrderStatusEvent' = OrderStatusEvent
    BY DEF Delivers, OrderStatusEvent
  <2>2. \A h \in H : h \in HH
    BY <1>2, <2>1
  <2>3. handed' \in Seq(H)
    BY DEF Delivers
  <2> QED
    BY <2>2, <2>3, SeqGrows
<1>5. Faithful'
  <2> SUFFICES ASSUME NEW i \in DOMAIN handed
               PROVE  /\ handed[i].item \in DOMAIN sent'
                      /\ handed[i].event = map_order_update(sent[handed[i].item])'
                      /\ handed[i].event # Nothing
    BY DEF Faithful, Delivers
  <2>1. sent'[handed[i].item] = sent[handed[i].item] /\ UNCHANGED <<fills, named, handed>>
    BY <1>2 DEF Faithful, Delivers
  <2>2. map_order_update(sent[handed[i].item])' = map_order_update(sent[handed[i].item])
    BY <2>1 DEF map_order_update, map_order_status, execution_correlation_id, IdOf
  <2> QED
    BY <1>2, <2>2 DEF Faithful
<1> QED
  BY <1>1, <1>3, <1>4, <1>5 DEF Delivers

\* What the stream hands out is the event of the item it takes.
LEMMA TakeKeeps == IInv /\ TakeItem => IInv'
<1> SUFFICES ASSUME IInv, TakeItem PROVE IInv'
  OBVIOUS
<1> USE DEF IInv, TypeOK
<1> DEFINE n == Head(queue)
           event == map_order_update(sent[n])
           Event == OrderStatusEvent \union {[type |-> "Err"]}
<1>1. n \in DOMAIN sent /\ sent[n] \in Item /\ queue' \in Seq(DOMAIN sent)
  BY DEF TakeItem
<1>2. UNCHANGED <<fills, named, at, up, sent>> /\ OrderStatusEvent' = OrderStatusEvent
  BY DEF TakeItem, OrderStatusEvent
<1>3. Item' = Item
  BY <1>2 DEF Item
<1>4. \A m \in DOMAIN sent : map_order_update(sent[m])' = map_order_update(sent[m])
  BY <1>2 DEF map_order_update, map_order_status, execution_correlation_id, IdOf
<1>5. CASE event = Nothing
  <2>1. handed' = handed
    BY <1>5 DEF TakeItem
  <2>2. Faithful'
    BY <1>2, <1>4, <2>1 DEF Faithful
  <2> QED
    BY <1>1, <1>2, <1>3, <2>1, <2>2
<1>6. CASE event # Nothing
  <2> DEFINE h == [item |-> n, event |-> event]
  <2>1. handed' = Append(handed, h)
    BY <1>6 DEF TakeItem
  <2>2. h \in [item : DOMAIN sent, event : Event]
    BY <1>1, <1>6, EventType
  <2> HIDE DEF event
  <2>3. handed' \in Seq([item : DOMAIN sent, event : Event])
    BY <2>1, <2>2
  <2>4. Faithful'
    <3> SUFFICES ASSUME NEW i \in DOMAIN handed'
                 PROVE  /\ handed'[i].item \in DOMAIN sent
                        /\ handed'[i].event = map_order_update(sent[handed'[i].item])
                        /\ handed'[i].event # Nothing
      BY <1>2, <1>4 DEF Faithful
    <3>1. CASE i \in DOMAIN handed
      BY <2>1, <3>1 DEF Faithful
    <3>2. CASE i = Len(handed) + 1
      <4>1. handed'[i] = h
        BY <2>1, <3>2
      <4> QED
        BY <1>1, <1>6, <4>1 DEF event
    <3> QED
      BY <2>1, <3>1, <3>2
  <2> QED
    BY <1>1, <1>2, <1>3, <2>3, <2>4
<1> QED
  BY <1>5, <1>6

\* A step that hands nothing out.
LEMMA QuietKeeps ==
  ASSUME IInv, UNCHANGED <<fills, named, sent, handed>>,
         queue' \in Seq(DOMAIN sent), up' \in BOOLEAN,
         at' \in {"unsubscribed", "open", "ended", "dropped"}
  PROVE  IInv'
<1>1. Item' = Item /\ OrderStatusEvent' = OrderStatusEvent
  BY DEF Item, OrderStatusEvent
<1>2. \A n \in DOMAIN sent : map_order_update(sent[n])' = map_order_update(sent[n])
  BY DEF map_order_update, map_order_status, execution_correlation_id, IdOf
<1> QED
  BY <1>1, <1>2 DEF IInv, TypeOK, Faithful

\* An event that was handed out stays what its item maps to.
LEMMA InvNext == IInv /\ [Next]_vars => IInv'
<1> SUFFICES ASSUME IInv, [Next]_vars PROVE IInv'
  OBVIOUS
<1>1. CASE SubscriptionEnds
  BY <1>1, QuietKeeps DEF SubscriptionEnds, IInv, TypeOK
<1>2. CASE order_updates
  BY <1>2, QuietKeeps DEF order_updates, IInv, TypeOK
<1>3. CASE StreamEnds
  BY <1>3, QuietKeeps DEF StreamEnds, IInv, TypeOK
<1>4. CASE DropStream
  <2>1. queue' \in Seq(DOMAIN sent)
    BY <1>4, EmptyIsSeq DEF DropStream
  <2> QED
    BY <1>4, <2>1, QuietKeeps DEF DropStream
<1>5. CASE UNCHANGED vars
  BY <1>5, QuietKeeps DEF vars, IInv, TypeOK
<1> QED
  BY <1>1, <1>2, <1>3, <1>4, <1>5, FillKeeps, DeliveryKeeps, TakeKeeps DEF Next

-----------------------------------------------------------------------------
\* The types hold in every behaviour.
THEOREM TypeCorrect == Spec => []TypeOK
<1>1. IInv => TypeOK
  BY DEF IInv
<1> QED
  BY <1>1, InitInv, InvNext, PTL DEF Spec

\* A commission is never attributed to the wrong order: it follows from the
\* state being faithful, since ids name fills and a fill has one order.
LEMMA FaithfulAttributes == IInv => CommissionsAttributable
<1> SUFFICES ASSUME IInv PROVE CommissionsAttributable
  OBVIOUS
<1> DEFINE Event(h) == PyOrderStatusEvent(h.event)
           Updates  == {h \in Range(handed) : h.event.type # "Err"}
           IsCharge(h) == Event(h).order_id = 0 /\ Event(h).commission # Nothing
           Fill(h)     == sent[h.item].fill
<1>1. ASSUME NEW h \in Updates
      PROVE  \/ /\ h.event.type = "Commission"
                /\ Event(h).order_id = 0 /\ Event(h).commission = <<"paid">>
                /\ Event(h).execution_id = <<Fill(h)>>
             \/ /\ h.event.type = "Execution"
                /\ Event(h).order_id = fills[Fill(h)] /\ Event(h).commission = Nothing
                /\ Event(h).execution_id = <<Fill(h)>>
             \/ /\ h.event.type \in {"Submitted", "Filled", "Cancelled", "Inactive", "Other"}
                /\ Event(h).commission = Nothing /\ Event(h).execution_id = Nothing
  <2>1. PICK i \in DOMAIN handed : h = handed[i]
    BY DEF Range
  <2>2. /\ sent[h.item] \in Item
        /\ h.event = map_order_update(sent[h.item]) /\ h.event # Nothing
    BY <2>1 DEF IInv, TypeOK, Faithful
  <2> QED
    BY <2>2, Reports DEF IInv, TypeOK
<1>2. <<"paid">> # Nothing /\ \A k : <<k>> # Nothing
  BY DEF Nothing
<1> HIDE DEF Event, Updates, Fill
<1>3. \A h \in Updates :
        /\ IsCharge(h) <=> h.event.type = "Commission"
        /\ Event(h).execution_id # Nothing <=> h.event.type \in {"Execution", "Commission"}
  BY <1>1, <1>2
<1>4. ASSUME NEW c \in Updates, NEW x \in Updates, IsCharge(c), ~IsCharge(x),
             Event(c).execution_id = Event(x).execution_id
      PROVE  Event(x).order_id = fills[Fill(c)]
  <2>1. c.event.type = "Commission" /\ Event(c).execution_id = <<Fill(c)>>
    BY <1>1, <1>2, <1>4
  <2>2. Event(x).execution_id # Nothing
    BY <1>2, <1>4, <2>1
  <2>3. Event(x).order_id = fills[Fill(x)] /\ Event(x).execution_id = <<Fill(x)>>
    BY <1>1, <1>3, <1>4, <2>2
  <2>4. Fill(x) = Fill(c)
    BY <1>4, <2>1, <2>3, SingletonsDiffer
  <2> QED
    BY <2>3, <2>4
<1> QED
  BY <1>3, <1>4 DEF CommissionsAttributable, Event, Updates, Fill

\* A Python consumer that joins commissions to executions by their id attributes
\* each to the order the broker charged, whatever is missing or late.
THEOREM AttributionCorrect == Spec => []CommissionsAttributable
<1> QED
  BY InitInv, FaithfulAttributes, InvNext, PTL DEF Spec

-----------------------------------------------------------------------------
(* EveryUpdateComesOut.  What is queued is the end of what was sent, so what *)
(* next() has taken is its beginning; and an item is surfaced exactly when   *)
(* it maps to an event, for good, since a fill never gets or loses its id.   *)

Taken == Len(sent) - Len(queue)

\* The queue holds the last items sent, in order, and none once the stream ended.
QueueIsTheRest ==
  /\ Len(queue) <= Len(sent)
  /\ \A k \in DOMAIN queue : queue[k] = Taken + k
  /\ at = "ended" => queue = <<>> /\ ~up

\* What has been handed out is what was to be surfaced of the items taken.
HandedAll ==
  at # "dropped" =>
    /\ \A i \in DOMAIN handed : handed[i].item <= Taken /\ Surfaced(sent[handed[i].item])
    /\ \A n \in 1 .. Taken : Surfaced(sent[n]) => \E i \in DOMAIN handed : handed[i].item = n
    /\ \A i, j \in DOMAIN handed : i < j => handed[i].item < handed[j].item

OrderInv == IInv /\ QueueIsTheRest /\ HandedAll

\* An item maps to an event exactly when it is to be surfaced.
LEMMA SurfacedIsMapped ==
  ASSUME fills \in Seq(Order), named \subseteq DOMAIN fills, NEW item \in Item
  PROVE  map_order_update(item) # Nothing <=> Surfaced(item)
<1> DEFINE id == execution_correlation_id(IdOf(item.fill))
<1>1. ASSUME NEW e, e.type = "Err" \/ e.type \in {"Execution", "Commission"}
                      \/ e.type \in {"Submitted", "Filled", "Cancelled", "Inactive", "Other"},
             DOMAIN e # {}
      PROVE  e # Nothing
  BY <1>1 DEF Nothing
<1>2. ASSUME item.fill \in DOMAIN fills
      PROVE  id = Nothing <=> item.fill \notin named
  <2>1. item.fill # EmptyId
    BY <1>2 DEF EmptyId
  <2>2. <<IdOf(item.fill)>> # Nothing
    BY DEF Nothing
  <2> QED
    BY <1>2, <2>1, <2>2 DEF execution_correlation_id, IdOf
<1>3. CASE item.type = "OrderStatus"
  <2>1. map_order_update(item) = map_order_status(item) /\ item.status \in OrderStatusKind
    BY <1>3 DEF map_order_update, Item
  <2>2. DOMAIN map_order_status(item) # {}
    BY <2>1 DEF map_order_status, OrderStatusKind
  <2> QED
    BY <1>3, <2>1, <2>2 DEF Surfaced, Nothing
<1>4. CASE item.type = "ExecutionData"
  <2>1. item.fill \in DOMAIN fills
    BY <1>4 DEF Item
  <2>2. map_order_update(item) =
          IF id = Nothing THEN Nothing
          ELSE [type |-> "Execution", order |-> fills[item.fill], id |-> id[1]]
    BY <1>4 DEF map_order_update
  <2>3. [type |-> "Execution", order |-> fills[item.fill], id |-> id[1]] # Nothing
    BY DEF Nothing
  <2> QED
    BY <1>2, <1>4, <2>1, <2>2, <2>3 DEF Surfaced
<1>5. CASE item.type = "CommissionReport"
  <2>1. item.fill \in DOMAIN fills
    BY <1>5 DEF Item
  <2>2. map_order_update(item) =
          IF id = Nothing THEN Nothing ELSE [type |-> "Commission", id |-> id[1]]
    BY <1>5 DEF map_order_update
  <2>3. [type |-> "Commission", id |-> id[1]] # Nothing
    BY DEF Nothing
  <2> QED
    BY <1>2, <1>5, <2>1, <2>2, <2>3 DEF Surfaced
<1>6. CASE item.type = "OpenOrder"
  BY <1>6 DEF map_order_update, Surfaced
<1>7. CASE item.type = "Err"
  <2>1. [type |-> "Err"] # Nothing
    BY DEF Nothing
  <2> QED
    BY <1>7, <2>1 DEF map_order_update, Surfaced
<1> QED
  BY <1>3, <1>4, <1>5, <1>6, <1>7 DEF Item

\* Nothing is sent, queued or handed out at the start.
LEMMA InitOrder == Init => OrderInv
<1> SUFFICES ASSUME Init PROVE OrderInv
  OBVIOUS
<1>1. sent = <<>> /\ queue = <<>> /\ handed = <<>> /\ at = "unsubscribed"
  BY DEF Init
<1>2. QueueIsTheRest /\ HandedAll
  BY <1>1 DEF QueueIsTheRest, HandedAll, Taken
<1> QED
  BY <1>2, InitInv DEF OrderInv

\* A new fill decides nothing about an item that was sent.
LEMMA FillKeepsOrder ==
  OrderInv /\ (\E o \in Order : BrokerFills(o)) => QueueIsTheRest' /\ HandedAll'
<1> SUFFICES ASSUME OrderInv, NEW o \in Order, BrokerFills(o)
             PROVE  QueueIsTheRest' /\ HandedAll'
  OBVIOUS
<1> USE DEF OrderInv, IInv, TypeOK
<1>1. UNCHANGED <<at, up, sent, queue, handed>>
  BY DEF BrokerFills
<1>2. \A k \in DOMAIN fills : k \in named' <=> k \in named
  BY DEF BrokerFills
<1>3. \A n \in DOMAIN sent : Surfaced(sent[n])' <=> Surfaced(sent[n])
  <2> SUFFICES ASSUME NEW n \in DOMAIN sent PROVE Surfaced(sent[n])' <=> Surfaced(sent[n])
    OBVIOUS
  <2>1. sent[n] \in Item
    OBVIOUS
  <2>2. sent[n].type \in {"ExecutionData", "CommissionReport"} => sent[n].fill \in DOMAIN fills
    BY <2>1 DEF Item
  <2> QED
    BY <1>1, <1>2, <2>2 DEF Surfaced
<1>4. \A i \in DOMAIN handed : handed[i].item \in DOMAIN sent
  BY DEF Faithful
<1>5. 1 .. Taken \subseteq DOMAIN sent /\ Taken' = Taken
  BY <1>1 DEF Taken, QueueIsTheRest
<1>6. QueueIsTheRest'
  BY <1>1, <1>5 DEF QueueIsTheRest
<1>7. HandedAll'
  BY <1>1, <1>3, <1>4, <1>5 DEF HandedAll
<1> QED
  BY <1>6, <1>7

\* A delivery adds the same item to what is sent and to what is queued.
LEMMA DeliveryKeepsOrder ==
  OrderInv /\ (\E item \in Item : Delivers(item)) => QueueIsTheRest' /\ HandedAll'
<1> SUFFICES ASSUME OrderInv, NEW item \in Item, Delivers(item)
             PROVE  QueueIsTheRest' /\ HandedAll'
  OBVIOUS
<1> USE DEF OrderInv, IInv, TypeOK
<1>1. /\ UNCHANGED <<fills, named, at, up, handed>> /\ up
      /\ Len(sent') = Len(sent) + 1 /\ Len(queue') = Len(queue) + 1
      /\ \A n \in DOMAIN sent : sent'[n] = sent[n]
      /\ \A k \in DOMAIN queue : queue'[k] = queue[k]
      /\ queue'[Len(queue) + 1] = Len(sent) + 1
      /\ DOMAIN queue' = 1 .. Len(queue) + 1
      /\ DOMAIN queue = 1 .. Len(queue)
      /\ Len(sent) \in Nat /\ Len(queue) \in Nat
  BY DEF Delivers
<1>2. Taken' = Taken /\ 1 .. Taken \subseteq DOMAIN sent
  BY <1>1 DEF Taken, QueueIsTheRest
<1>3. QueueIsTheRest'
  <2>1. \A k \in DOMAIN queue : queue'[k] = Taken + k
    BY <1>1 DEF QueueIsTheRest
  <2>2. queue'[Len(queue) + 1] = Taken + (Len(queue) + 1)
    BY <1>1 DEF Taken
  <2>3. \A k \in DOMAIN queue' : k \in DOMAIN queue \/ k = Len(queue) + 1
    BY <1>1
  <2>4. Len(queue') <= Len(sent') /\ (at' = "ended" => queue' = <<>> /\ ~up')
    BY <1>1 DEF QueueIsTheRest
  <2>5. \A k \in DOMAIN queue' : queue'[k] = Taken' + k
    BY <1>2, <2>1, <2>2, <2>3
  <2> QED
    BY <2>4, <2>5 DEF QueueIsTheRest
<1>4. \A i \in DOMAIN handed : handed[i].item \in DOMAIN sent
  BY DEF Faithful
<1>5. HandedAll'
  BY <1>1, <1>2, <1>4 DEF HandedAll, Surfaced
<1> QED
  BY <1>3, <1>5

\* next() takes the item after the last one taken, and hands it out if it maps.
LEMMA TakeKeepsOrder == OrderInv /\ TakeItem => QueueIsTheRest' /\ HandedAll'
<1> SUFFICES ASSUME OrderInv, TakeItem PROVE QueueIsTheRest' /\ HandedAll'
  OBVIOUS
<1> USE DEF OrderInv, IInv, TypeOK
<1> DEFINE n == Head(queue)
           event == map_order_update(sent[n])
<1>1. /\ UNCHANGED <<fills, named, at, up, sent>> /\ at = "open"
      /\ queue # <<>> /\ queue' = Tail(queue)
  BY DEF TakeItem
<1>2. /\ Len(queue) \in Nat \ {0} /\ Len(queue') = Len(queue) - 1
      /\ \A k \in DOMAIN queue' : k + 1 \in DOMAIN queue /\ queue'[k] = queue[k + 1]
      /\ n = queue[1] /\ 1 \in DOMAIN queue /\ DOMAIN queue' \subseteq Nat
  BY <1>1
<1>3. n = Taken + 1 /\ Taken' = Taken + 1 /\ Taken \in Nat /\ n \in DOMAIN sent
  <2>1. Len(sent) \in Nat /\ DOMAIN sent = 1 .. Len(sent) /\ Len(queue) <= Len(sent)
    BY DEF QueueIsTheRest
  <2>2. queue[1] = Taken + 1
    BY <1>2 DEF QueueIsTheRest
  <2>3. Taken' = Taken + 1
    BY <1>1, <1>2, <2>1 DEF Taken
  <2> QED
    BY <1>2, <2>1, <2>2, <2>3 DEF Taken
<1>4. QueueIsTheRest'
  <2>1. \A k \in DOMAIN queue' : queue'[k] = Taken' + k
    BY <1>2, <1>3 DEF QueueIsTheRest
  <2> QED
    BY <1>1, <1>2, <2>1 DEF QueueIsTheRest
<1>5. event # Nothing <=> Surfaced(sent[n])
  BY <1>3, SurfacedIsMapped
<1>6. \A m \in DOMAIN sent : Surfaced(sent[m])' <=> Surfaced(sent[m])
  BY <1>1 DEF Surfaced
<1>7. \A m \in 1 .. Taken' : m \in 1 .. Taken \/ m = n
  BY <1>3
<1>8. \A i \in DOMAIN handed :
        /\ handed[i].item \in DOMAIN sent /\ handed[i].item \in Nat
        /\ handed[i].item <= Taken /\ handed[i].item < n
        /\ Surfaced(sent[handed[i].item])
  <2>1. \A i \in DOMAIN handed : handed[i].item \in DOMAIN sent /\ handed[i].item <= Taken
                                /\ Surfaced(sent[handed[i].item])
    BY <1>1 DEF HandedAll, Faithful
  <2>2. DOMAIN sent \subseteq Nat
    OBVIOUS
  <2>3. \A m \in Nat : m <= Taken => m < n
    BY <1>3
  <2> QED
    BY <2>1, <2>2, <2>3
<1>9. \A m \in 1 .. Taken' : m \in DOMAIN sent
  BY <1>1, <1>3 DEF QueueIsTheRest, Taken
<1>10. /\ \A m \in 1 .. Taken : Surfaced(sent[m]) => \E i \in DOMAIN handed : handed[i].item = m
       /\ \A i, j \in DOMAIN handed : i < j => handed[i].item < handed[j].item
  BY <1>1 DEF HandedAll
<1>11. CASE event = Nothing
  <2>1. handed' = handed /\ ~Surfaced(sent[n])
    BY <1>5, <1>11 DEF TakeItem
  <2>2. \A i \in DOMAIN handed : handed[i].item <= Taken + 1
    BY ONLY <1>3, <1>8
  <2>3. \A m \in 1 .. Taken' : Surfaced(sent[m]) => \E i \in DOMAIN handed : handed[i].item = m
    BY <1>7, <1>10, <2>1
  <2>4. HandedAll'
    BY <1>3, <1>6, <1>8, <1>9, <1>10, <2>1, <2>2, <2>3 DEF HandedAll
  <2> QED
    BY <1>4, <2>4
<1>12. CASE event # Nothing
  <2> DEFINE h == [item |-> n, event |-> event]
  <2>1. handed' = Append(handed, h) /\ Surfaced(sent[n])
    BY <1>5, <1>12 DEF TakeItem
  <2> HIDE DEF event
  <2>2. /\ \A i \in DOMAIN handed' : i \in DOMAIN handed \/ i = Len(handed) + 1
        /\ Len(handed) + 1 \in DOMAIN handed'
        /\ \A i \in DOMAIN handed :
             i \in DOMAIN handed' /\ handed'[i] = handed[i] /\ i < Len(handed) + 1
        /\ handed'[Len(handed) + 1].item = n
    BY <2>1
  <2>3. \A i \in DOMAIN handed' :
          /\ handed'[i].item <= Taken' /\ handed'[i].item \in DOMAIN sent
          /\ Surfaced(sent[handed'[i].item])
    <3>1. \A i \in DOMAIN handed : handed[i].item <= Taken'
      BY ONLY <1>3, <1>8
    <3>2. n <= Taken'
      BY <1>3
    <3>3. \A i \in DOMAIN handed : /\ handed[i].item <= Taken' /\ handed[i].item \in DOMAIN sent
                                   /\ Surfaced(sent[handed[i].item])
      BY <1>8, <3>1
    <3>4. n <= Taken' /\ n \in DOMAIN sent /\ Surfaced(sent[n])
      BY <1>3, <2>1, <3>2
    <3> HIDE DEF n
    <3> QED
      BY <2>2, <3>3, <3>4
  <2>4. \A m \in 1 .. Taken' : Surfaced(sent[m]) => \E i \in DOMAIN handed' : handed'[i].item = m
    BY <1>7, <1>10, <2>2
  <2>5. ASSUME NEW i \in DOMAIN handed', NEW j \in DOMAIN handed', i < j
        PROVE  handed'[i].item < handed'[j].item
    <3>1. i \in DOMAIN handed
      <4>1. \A k \in DOMAIN handed' : k \in Nat /\ k <= Len(handed) + 1
        BY <2>1
      <4> QED
        BY <2>2, <2>5, <4>1
    <3>2. CASE j \in DOMAIN handed
      BY <1>10, <2>2, <2>5, <3>1, <3>2
    <3>3. CASE j = Len(handed) + 1
      BY <1>8, <2>2, <3>1, <3>3
    <3> QED
      BY <2>2, <3>2, <3>3
  <2>6. HandedAll'
    BY <1>1, <1>6, <2>3, <2>4, <2>5, <1>9 DEF HandedAll
  <2> QED
    BY <1>4, <2>6
<1> QED
  BY <1>11, <1>12

\* Every step keeps it.
LEMMA NextOrder == OrderInv /\ [Next]_vars => OrderInv'
<1> SUFFICES ASSUME OrderInv, [Next]_vars PROVE OrderInv'
  OBVIOUS
<1>1. IInv'
  BY InvNext DEF OrderInv
<1> SUFFICES QueueIsTheRest' /\ HandedAll'
  BY <1>1 DEF OrderInv
<1>2. ASSUME UNCHANGED <<named, sent, queue, handed>>, at' # "dropped" => at # "dropped",
             at' = "ended" => queue = <<>> /\ ~up'
      PROVE  QueueIsTheRest' /\ HandedAll'
  BY <1>2 DEF OrderInv, QueueIsTheRest, HandedAll, Taken, Surfaced
<1>3. CASE SubscriptionEnds
  BY <1>2, <1>3 DEF SubscriptionEnds, OrderInv, QueueIsTheRest
<1>4. CASE order_updates
  BY <1>2, <1>4 DEF order_updates
<1>5. CASE StreamEnds
  BY <1>2, <1>5 DEF StreamEnds
<1>6. CASE DropStream
  BY <1>6 DEF DropStream, QueueIsTheRest, HandedAll, OrderInv, IInv, TypeOK
<1>7. CASE UNCHANGED vars
  BY <1>2, <1>7 DEF vars, OrderInv, QueueIsTheRest
<1> QED
  BY <1>3, <1>4, <1>5, <1>6, <1>7, FillKeepsOrder, DeliveryKeepsOrder, TakeKeepsOrder DEF Next

\* The invariant says what the property says.
LEMMA OrderInvComesOut == OrderInv => EveryUpdateComesOut
<1> SUFFICES ASSUME OrderInv, at # "dropped" PROVE EveryUpdateComesOut
  BY DEF EveryUpdateComesOut
<1>1. \A i \in DOMAIN handed : handed[i].item \in DOMAIN sent
  BY DEF OrderInv, IInv, Faithful
<1>2. Len(sent) \in Nat /\ Len(queue) \in Nat /\ DOMAIN sent = 1 .. Len(sent)
  BY DEF OrderInv, IInv, TypeOK
<1>3. {handed[i].item : i \in DOMAIN handed} = {n \in 1 .. Taken : Surfaced(sent[n])}
  BY <1>1, <1>2 DEF OrderInv, HandedAll, Taken
<1> QED
  BY <1>3 DEF OrderInv, HandedAll, QueueIsTheRest, EveryUpdateComesOut, Taken

\* next() hands out all that is to be surfaced of what the subscription brought,
\* in order, and None only after the last of it.
THEOREM UpdatesComplete == Spec => []EveryUpdateComesOut
<1> QED
  BY InitOrder, NextOrder, OrderInvComesOut, PTL DEF Spec
=============================================================================
