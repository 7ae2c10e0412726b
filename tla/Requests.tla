-------------------------------- MODULE Requests --------------------------------
(***************************************************************************)
(* The requests of ibcore that are not lookups or snapshots, each on one   *)
(* reply or one subscription: positions, account_summary, net_liquidation, *)
(* pnl, historical_data and tick_stream with its TickStream                *)
(* (src/src/client.rs, src/src/streaming.rs), open_orders, place_order and *)
(* cancel_order (src/src/orders.rs).                                       *)
(*                                                                         *)
(* The gateway may refuse a request with any ibapi error.  A row of an     *)
(* account matters as far as net_liquidation looks at it: its tag, and     *)
(* what its value parses to.  The transport may fail at any item, with an  *)
(* error in the stream or without.                                         *)
(***************************************************************************)
EXTENDS DiagnosticEvents, SequencesExt

CONSTANTS
  MaxCode,      \* bound: the notice codes a request is refused with
  MaxSent,      \* bound: the items of a subscription
  MaxErrors,    \* bound: the errors among them
  StreamErrors  \* the ibapi errors that come in a stream

ASSUME BoundsAssumption == MaxCode \in Nat /\ MaxSent \in Nat /\ MaxErrors \in Nat

Collection == {"positions", "account_summary", "net_liquidation", "pnl", "open_orders"}
MarketData == {"tick_stream", "historical_data"}
OrderEntry == {"place_order", "cancel_order"}
Op         == Collection \union MarketData \union OrderEntry

\* ibapi::market_data::realtime::TickTypes; the greeks of a computation may be absent.
TickTypes ==
  [kind : {"Price", "Size", "String", "Generic", "SnapshotEnd", "MarketDataType",
           "PriceSize", "OptionComputation"}, value : {"given"}]
  \union [kind : {"OptionComputation", "RequestParameters"}, value : {"absent"}]

\* The rows of an account summary; a NetLiquidation row is its value.
SummaryRow == {"another tag", "a number", "another number", "unparseable"}

\* What a stream brings, by call.
Row(o) ==
  CASE o \in {"account_summary", "net_liquidation"} -> SummaryRow
    [] o = "open_orders" -> {"OrderData", "OrderStatus"}
    [] o = "tick_stream" -> TickTypes
    [] OTHER             -> {"a row", "another row"}

IbapiError ==
  {Notice(c) : c \in 0 .. MaxCode} \union {Io(k) : k \in IoKind}
  \union {Transport(v) : v \in {"ConnectionFailed", "ConnectionReset", "Shutdown"}}
  \union {Unclassifiable}

VARIABLES
  op,       \* the call
  refusal,  \* history: the ibapi error it was refused with, if it was
  sent,     \* history: the items its stream has brought
  end,      \* how the stream ended: "open", "complete" or "early"
  taken,    \* how many of the items the call, or next(), has taken
  at,       \* where the call is
  items,    \* what it has collected, or handed out
  saw,      \* saw_end and saw_error
  result    \* what it returned

vars == <<op, refusal, sent, end, taken, at, items, saw, result>>

Data(row)      == [type |-> "data", row |-> row]
End            == [type |-> "end"]
StreamError(e) == [type |-> "error", error |-> e]
Err(error)     == [ok |-> FALSE, error |-> error]
Ok(value)      == [ok |-> TRUE, value |-> value]

NotRefused == [type |-> "not refused"]
NoResult   == [ok |-> FALSE]
OtherError == Err(IbError("Other", 0))

\* Positions and account summaries are closed by an End item.
HasEnd == op \in {"positions", "account_summary", "net_liquidation"}

Init ==
  /\ op \in Op
  /\ refusal = NotRefused
  /\ sent = <<>>
  /\ end = "open"
  /\ taken = 0
  /\ at = "request"
  /\ items = <<>>
  /\ saw = [end |-> FALSE, error |-> FALSE]
  /\ result = NoResult

-----------------------------------------------------------------------------
(* The gateway.                                                            *)

CountOf(type) == Cardinality({i \in DOMAIN sent : sent[i].type = type})

SendRow ==
  /\ at = "collect" /\ end = "open"
  /\ Len(sent) < MaxSent
  /\ \E row \in Row(op) : sent' = Append(sent, Data(row))
  /\ UNCHANGED <<op, refusal, end, taken, at, items, saw, result>>

SendError ==
  /\ at = "collect" /\ end = "open"
  /\ Len(sent) < MaxSent /\ CountOf("error") < MaxErrors
  /\ \E e \in StreamErrors : sent' = Append(sent, StreamError(e))
  /\ UNCHANGED <<op, refusal, end, taken, at, items, saw, result>>

\* All is sent: the gateway says so, or just ends the stream of a call that
\* does not look for an End.
SendEnd ==
  /\ at = "collect" /\ end = "open"
  /\ end' = "complete"
  /\ sent' = IF HasEnd THEN Append(sent, End) ELSE sent
  /\ UNCHANGED <<op, refusal, taken, at, items, saw, result>>

\* The stream ends before its time.
Truncate ==
  /\ at = "collect" /\ end = "open"
  /\ end' = "early"
  /\ UNCHANGED <<op, refusal, sent, taken, at, items, saw, result>>

-----------------------------------------------------------------------------
(* Faulty variants, for the mutation runs.                                 *)

\* Issue 27: what there is is returned, End or not.
collection_result_EndUnseen(xs, saw_end, saw_error) ==
  IF saw_error THEN OtherError ELSE Ok(xs)

\* Issue 27: a value that does not parse is zero.
parsed_PhantomZero(row) == Ok(IF row = "unparseable" THEN "a number" ELSE row)

\* An error is the last that next() hands out.
GoesOnAfterError_Never == FALSE

-----------------------------------------------------------------------------
(* The request.                                                            *)

Return(value) == at' = "returned" /\ result' = value

\* What a call makes of the error it is refused with.
Refused(e) ==
  CASE op \in Collection -> OtherError
    [] op \in MarketData -> Err(market_data_error(e))
    [] op \in OrderEntry -> Err(order_submit_error(e))

\* place_order may be refused its order id, and then its submission.
Refuse ==
  /\ at \in {"request", "submit"}
  /\ \E e \in IbapiError :
       /\ refusal' = e
       /\ Return(Refused(e))
  /\ UNCHANGED <<op, sent, end, taken, items, saw>>

\* The gateway accepts: a subscription opens, or the reply is there.
Accept ==
  /\ at \in {"request", "submit"}
  /\ CASE at = "request" /\ op = "place_order" -> at' = "submit" /\ UNCHANGED result
       [] op \in OrderEntry \union {"historical_data"} -> Return(Ok(<<>>))
       [] OTHER -> at' = "collect" /\ UNCHANGED result
  /\ UNCHANGED <<op, refusal, sent, end, taken, items, saw>>

-----------------------------------------------------------------------------
(* The loops over a stream.                                                *)

collection_result(xs, saw_end, saw_error) ==
  IF saw_error \/ ~saw_end THEN OtherError ELSE Ok(xs)

parsed(row) == IF row = "unparseable" THEN OtherError ELSE Ok(row)

\* The first NetLiquidation row decides.
parse_net_liquidation(summary) ==
  LET tagged == {i \in DOMAIN summary : summary[i] # "another tag"}
  IN  IF tagged = {} THEN OtherError ELSE parsed(summary[Min(tagged)])

\* What a loop that has come to its end returns; next() returns None.
Conclusion(xs, saw_end, saw_error) ==
  LET collected == collection_result(xs, saw_end, saw_error)
  IN  CASE op \in {"positions", "account_summary"} -> collected
        [] op = "net_liquidation" ->
             IF collected.ok THEN parse_net_liquidation(collected.value) ELSE collected
        [] op = "pnl"             -> OtherError
        [] op = "open_orders"     -> Ok(xs)
        [] op = "tick_stream"     -> NoResult

\* From<TickTypes> for TickEvent: an absent number is zero, and the request
\* parameters, which mean nothing to a consumer, come out as an unknown tick.
TickEvent(tick) ==
  CASE tick.kind = "OptionComputation" ->
         [kind |-> "Greeks", value |-> IF tick.value = "absent" THEN "zero" ELSE tick.value]
    [] tick.kind = "RequestParameters" -> [kind |-> "Generic", value |-> "zero"]
    [] OTHER -> tick

\* An open order is a row with its data; its status rows are skipped.
Kept(row) ==
  CASE op = "tick_stream" -> <<Ok(TickEvent(row))>>
    [] op = "open_orders" /\ row = "OrderStatus" -> <<>>
    [] OTHER -> <<row>>

Takes(type) ==
  /\ at = "collect"
  /\ taken < Len(sent)
  /\ sent[taken + 1].type = type
  /\ taken' = taken + 1

\* pnl wants one item only.
TakeRow ==
  /\ Takes("data")
  /\ LET row == sent[taken'].row
     IN  /\ items' = items \o Kept(row)
         /\ IF op = "pnl" THEN Return(Ok(row)) ELSE UNCHANGED <<at, result>>
  /\ UNCHANGED <<op, refusal, sent, end, saw>>

TakeEnd ==
  /\ Takes("end")
  /\ saw' = [saw EXCEPT !.end = TRUE]
  /\ Return(Conclusion(items, saw'.end, saw'.error))
  /\ UNCHANGED <<op, refusal, sent, end, items>>

\* pnl and open_orders log an error and go on; next() hands it out.
GoesOnAfterError == op \in {"pnl", "open_orders", "tick_stream"}

TakeError ==
  /\ Takes("error")
  /\ items' = IF op = "tick_stream"
              THEN Append(items, Err(FromIbapi(sent[taken'].error)))
              ELSE items
  /\ IF GoesOnAfterError
     THEN UNCHANGED <<at, result, saw>>
     ELSE /\ saw' = [saw EXCEPT !.error = TRUE]
          /\ Return(Conclusion(items, saw'.end, saw'.error))
  /\ UNCHANGED <<op, refusal, sent, end>>

TakeNone ==
  /\ at = "collect" /\ taken = Len(sent) /\ end # "open"
  /\ Return(Conclusion(items, saw.end, saw.error))
  /\ UNCHANGED <<op, refusal, sent, end, taken, items, saw>>

\* Dropping a tick stream cancels its subscription.
DropStream ==
  /\ op = "tick_stream" /\ at \in {"collect", "returned"}
  /\ at' = "dropped"
  /\ UNCHANGED <<op, refusal, sent, end, taken, items, saw, result>>

-----------------------------------------------------------------------------
Gateway == SendRow \/ SendError \/ SendEnd \/ Truncate
Call    == Accept \/ Refuse \/ TakeRow \/ TakeEnd \/ TakeError \/ TakeNone \/ DropStream
Next    == Gateway \/ Call
Spec    == Init /\ [][Next]_vars

-----------------------------------------------------------------------------
(* Properties of the collections and the tick stream.                      *)

\* What a stream brings, and what the call makes of it.
Item  == {Data(row) : row \in Row(op)} \union {StreamError(e) : e \in StreamErrors} \union {End}
Entry == IF op = "tick_stream"
         THEN {Ok(TickEvent(tick)) : tick \in TickTypes} \union {Err(FromIbapi(e)) : e \in StreamErrors}
         ELSE Row(op)

\* The types of the variables.
TypeOK ==
  /\ op \in Op
  /\ refusal \in IbapiError \union {NotRefused}
  /\ sent \in Seq(Item)
  /\ end \in {"open", "complete", "early"}
  /\ taken \in 0 .. Len(sent)
  /\ at \in {"request", "submit", "collect", "returned", "dropped"}
  /\ items \in Seq(Entry)
  /\ saw \in [end : BOOLEAN, error : BOOLEAN]
  /\ result.ok \in BOOLEAN

\* A position list or an account summary is never cut short: Ok means that it is
\* all that came, and that the gateway said it was all (client.rs:149-153,
\* issue 27).
WholeOrError ==
  result.ok /\ op \in {"positions", "account_summary"} =>
    /\ end = "complete"
    /\ sent = Append([i \in DOMAIN result.value |-> Data(result.value[i])], End)

\* A net liquidation is a number the gateway sent in a complete summary without
\* an error, and no unparseable one was passed over for it (issue 27).
NetLiquidationIsReal ==
  result.ok /\ op = "net_liquidation" =>
    /\ end = "complete"
    /\ \A i \in DOMAIN sent : sent[i].type # "error"
    /\ \E i \in DOMAIN sent :
         /\ sent[i] = Data(result.value) /\ result.value \in {"a number", "another number"}
         /\ \A j \in 1 .. i - 1 : sent[j] = Data("another tag")

\* What next() hands out tells the item: a number that was given comes out under
\* its own kind, zero stands for one that was not, and a dead connection is told
\* as one.
Tells(out, item) ==
  IF item.type = "error"
  THEN ~out.ok /\ (is_connection_dead(out.error) <=> is_connection_dead(FromIbapi(item.error)))
  ELSE /\ out.ok
       /\ out.value.value = IF item.row.value = "given" THEN "given" ELSE "zero"
       /\ item.row.value = "given" /\ item.row.kind # "OptionComputation"
            => out.value.kind = item.row.kind

\* A tick stream loses nothing, errors between the ticks included: its n-th item
\* tells the n-th of the subscription, and None comes after the last item of a
\* subscription that has ended.  The stream does make zeros up, for absent greeks
\* and for request parameters, which streaming.rs:106 says it skips; they come
\* where the gateway sent no number, and nowhere else.
EveryTickComesOut ==
  op = "tick_stream" /\ at \in {"collect", "returned"} /\ refusal = NotRefused =>
    /\ Len(items) = taken
    /\ \A i \in DOMAIN items : Tells(items[i], sent[i])
    /\ at = "returned" => taken = Len(sent) /\ end # "open"

-----------------------------------------------------------------------------
(* Properties of a refusal: what is said of one ibapi error in different   *)
(* places is one story.                                                    *)

\* "Nothing degrading hides by omission" (client.rs:106): a notice that either
\* classifier takes for a failure or a farm problem is never logged as benign,
\* and the two agree on which code means that a farm is disconnected.  The three
\* forms of the event agree, too: the Python text of a farm is one of the class
\* constants exactly when the code is a farm's, and from_code or unknown gives
\* the same text; the wire names the farm the event names; and the account type
\* that is shown, handed to connect, is the account type of the session.
NoticeTablesAgree ==
  refusal.type = "Notice" =>
    LET code  == refusal.code
        kind  == classify_notice(code).kind
        farm  == classify_farm(code)
        Shown(account) == PyDiagnosticEvent(DiagnosticEvent(1, code, account))
        Posted(account) == DiagnosticBatch(SessionFingerprint(1, account),
                                           <<DiagnosticEvent(1, code, account)>>)
    IN  /\ kind # "Other" \/ farm \in {"Warning", "Inactive"} => notice_is_warn(code)
        /\ kind = "FarmDisconnect" <=> farm = "Inactive"
        /\ \A account \in AccountType :
             LET event == Shown(account) batch == Posted(account)
             IN  /\ event.farm_status \in PyFarmState <=> farm # "Unknown"
                 /\ event.farm_status \in {from_code(code), unknown(code)}
                 /\ event.farm_status = unknown(code) <=>
                      batch.events[1].farm_status = <<"Unknown", code>>
                 /\ event.connection_state \in PyConnectionState
                 /\ event.account_type \in PyAccountType
                 /\ parse_account_type(event.account_type) = <<batch.session.account_type>>

\* The paths an ibapi error takes agree.  A failure that leaves an order's fate
\* open is a rejection on neither the submit path nor the stream path; what the
\* stream path calls a rejection the submit path calls one; only a notice is
\* one; and a refused market data request says that the connection is dead
\* exactly when it is (issues 20, 21 and 32).
ErrorPathsAgree ==
  refusal # NotRefused =>
    LET stream == FromIbapi(refusal)
    IN  /\ op \in OrderEntry =>
             /\ is_connection_dead(stream)
                  => is_connection_dead(result.error) /\ outcome_for_stream_error(stream) = "Pending"
             /\ outcome_for_stream_error(stream) = "Rejected" => result.error.kind = "OrderRejected"
             /\ result.error.kind = "OrderRejected" => refusal.type = "Notice"
        /\ op \in MarketData =>
             /\ is_connection_dead(stream) <=> is_connection_dead(result.error)
             /\ result.error.code \in {0, stream.code}
             /\ HasMessage(result.error) => result.error.ctx
=============================================================================
