---------------------------- MODULE Requests_proofs ----------------------------
(***************************************************************************)
(* Theorems about Requests, for every number of codes and of items, and    *)
(* every set of errors in a stream.  That a list is whole and a tick       *)
(* stream loses nothing rests on what a call has taken so far (Gathered,   *)
(* TicksTold), and on the End being the last item of a complete stream and *)
(* of no other (EndIsLast).  The agreement of the error tables needs of    *)
(* the behaviour only that a refusal's result was made of it (Stage).      *)
(***************************************************************************)
EXTENDS Requests, SequenceTheorems, WellFoundedInduction, TLAPS

NothingSeen == [end |-> FALSE, error |-> FALSE]

\* What a call has before it has a stream, and once it was refused.
Stage ==
  /\ at \in {"request", "submit"} =>
       sent = <<>> /\ end = "open" /\ taken = 0 /\ items = <<>>
  /\ at = "submit" => op = "place_order"
  /\ at = "collect" => op \in Collection \union {"tick_stream"}
  /\ at \in {"request", "submit", "collect"} =>
       result = NoResult /\ saw = NothingSeen /\ refusal = NotRefused
  /\ refusal # NotRefused => at \in {"returned", "dropped"} /\ result = Refused(refusal)

\* The End closes a complete stream of a call that looks for one.
EndIsLast ==
  \A i \in DOMAIN sent : sent[i].type = "end" <=> HasEnd /\ end = "complete" /\ i = Len(sent)

\* A call that looks for an End has the rows of all it has taken.
Gathered ==
  at = "collect" /\ HasEnd =>
    Len(items) = taken /\ \A i \in 1 .. taken : sent[i] = Data(items[i])

\* What such a call returned without an error.
Whole ==
  result.ok /\ HasEnd =>
    /\ end = "complete"
    /\ sent = Append([i \in DOMAIN items |-> Data(items[i])], End)
    /\ result = IF op = "net_liquidation" THEN parse_net_liquidation(items) ELSE Ok(items)

\* What next() makes of an item.
Told(item) == IF item.type = "error" THEN Err(FromIbapi(item.error)) ELSE Ok(TickEvent(item.row))

\* next() has handed out each item it has taken.
TicksTold ==
  op = "tick_stream" /\ refusal = NotRefused =>
    /\ Len(items) = taken /\ \A i \in 1 .. taken : items[i] = Told(sent[i])
    /\ at = "returned" => taken = Len(sent) /\ end # "open"

IInv == TypeOK /\ Stage /\ EndIsLast /\ Gathered /\ Whole /\ TicksTold

-----------------------------------------------------------------------------
(* Lemmas on the operators.                                                *)

\* A set of naturals that is not empty has a least element, Min.
LEMMA MinIsLeast ==
  ASSUME NEW T, T \subseteq Nat, T # {}
  PROVE  Min(T) \in T /\ \A y \in T : Min(T) <= y
<1> DEFINE R == OpToRel(<, Nat)
<1>1. IsWellFoundedOn(R, Nat)
  BY NatLessThanWellFounded
<1>2. \A a, b \in Nat : <<a, b>> \in R <=> a < b
  BY DEF OpToRel
<1> HIDE DEF R
<1>3. PICK x \in T : \A y \in T : ~(<<y, x>> \in R)
  BY <1>1, WFMin
<1>4. \A y \in T : ~(y < x)
  BY <1>2, <1>3, Zenon
<1>5. \A y \in T : x <= y
  BY <1>4
<1>6. \E z \in T : \A y \in T : z <= y
  BY <1>5
<1> QED
  BY <1>6 DEF Min

\* The types of what items are made of.
LEMMA ItemTypes ==
  /\ \A item \in Item :
       \/ item.type = "data" /\ item.row \in Row(op) /\ item = Data(item.row)
       \/ item.type = "error" /\ item.error \in StreamErrors
       \/ item.type = "end" /\ item = End
  /\ OtherError.ok = FALSE /\ NoResult.ok = FALSE
  /\ \A x : Ok(x).ok = TRUE /\ Ok(x).value = x /\ Err(x).ok = FALSE
BY DEF Item, Data, StreamError, End, OtherError, NoResult, Ok, Err

\* No ibapi error is the mark of a call that was not refused.
LEMMA RefusalsAreErrors == NotRefused \notin IbapiError
BY DEF NotRefused, IbapiError, Notice, Io, Transport, Unclassifiable

\* A call that is refused returns an error.
LEMMA RefusedIsError == ASSUME op \in Op, NEW e PROVE Refused(e).ok = FALSE
BY ItemTypes DEF Refused, Op

\* A row a call looks at is kept as it is, or as a tick.
LEMMA KeptType ==
  ASSUME op \in Op, NEW row \in Row(op)
  PROVE  /\ Kept(row) \in Seq(Entry)
         /\ HasEnd => Kept(row) = <<row>>
         /\ op = "tick_stream" => Kept(row) = <<Ok(TickEvent(row))>> /\ row \in TickTypes
<1>1. ASSUME NEW S, NEW x \in S PROVE <<x>> \in Seq(S) /\ <<>> \in Seq(S)
  OBVIOUS
<1>2. CASE op = "tick_stream"
  <2>1. row \in TickTypes
    BY <1>2 DEF Row
  <2>2. Ok(TickEvent(row)) \in Entry
    BY <1>2, <2>1 DEF Entry
  <2>3. Kept(row) = <<Ok(TickEvent(row))>>
    BY <1>2 DEF Kept
  <2> QED
    BY <1>1, <1>2, <2>1, <2>2, <2>3 DEF HasEnd
<1>3. CASE op # "tick_stream"
  <2>1. Entry = Row(op)
    BY <1>3 DEF Entry
  <2>2. Kept(row) = <<row>> \/ (Kept(row) = <<>> /\ op = "open_orders")
    BY <1>3 DEF Kept
  <2> QED
    BY <1>1, <1>3, <2>1, <2>2 DEF HasEnd
<1> QED
  BY <1>2, <1>3

\* What the conclusion of a loop is.
LEMMA ConclusionType ==
  ASSUME op \in Collection \union {"tick_stream"},
         NEW xs, NEW saw_end \in BOOLEAN, NEW saw_error \in BOOLEAN
  PROVE  /\ Conclusion(xs, saw_end, saw_error).ok \in BOOLEAN
         /\ HasEnd /\ (saw_error \/ ~saw_end) => ~Conclusion(xs, saw_end, saw_error).ok
         /\ HasEnd /\ saw_end /\ ~saw_error =>
              Conclusion(xs, saw_end, saw_error)
                = IF op = "net_liquidation" THEN parse_net_liquidation(xs) ELSE Ok(xs)
<1> DEFINE collected == collection_result(xs, saw_end, saw_error)
<1>1. collected = IF saw_error \/ ~saw_end THEN OtherError ELSE Ok(xs)
  BY DEF collection_result
<1>2. parse_net_liquidation(xs).ok \in BOOLEAN
  BY ItemTypes DEF parse_net_liquidation, parsed
<1> HIDE DEF collected
<1>3. CASE op \in {"positions", "account_summary"}
  <2>1. Conclusion(xs, saw_end, saw_error) = collected
    BY <1>3 DEF Conclusion, collected
  <2> QED
    BY <1>1, <1>3, <2>1, ItemTypes
<1>4. CASE op = "net_liquidation"
  <2>1. Conclusion(xs, saw_end, saw_error) =
          IF collected.ok THEN parse_net_liquidation(collected.value) ELSE collected
    BY <1>4 DEF Conclusion, collected
  <2> QED
    BY <1>1, <1>2, <1>4, <2>1, ItemTypes
<1>5. CASE op \in {"pnl", "open_orders", "tick_stream"}
  <2>1. Conclusion(xs, saw_end, saw_error) \in {OtherError, Ok(xs), NoResult}
    BY <1>5 DEF Conclusion
  <2> QED
    BY <1>5, <2>1, ItemTypes DEF HasEnd
<1> QED
  BY <1>3, <1>4, <1>5 DEF Collection

-----------------------------------------------------------------------------
(* The steps.                                                              *)

\* A call starts with nothing.
LEMMA InitInv == Init => IInv
<1> SUFFICES ASSUME Init PROVE IInv
  OBVIOUS
<1>1. \A S : <<>> \in Seq(S)
  OBVIOUS
<1>2. /\ sent = <<>> /\ items = <<>> /\ taken = 0 /\ end = "open" /\ at = "request"
      /\ result = NoResult /\ refusal = NotRefused /\ saw = NothingSeen /\ op \in Op
  BY DEF Init, NothingSeen
<1>3. TypeOK
  <2>1. sent \in Seq(Item) /\ items \in Seq(Entry)
    BY <1>1, <1>2, Zenon
  <2>2. taken \in 0 .. Len(sent) /\ saw \in [end : BOOLEAN, error : BOOLEAN]
    BY <1>2 DEF NothingSeen
  <2> QED
    BY <1>2, <2>1, <2>2, ItemTypes DEF TypeOK
<1>4. Stage /\ EndIsLast /\ Gathered /\ Whole /\ TicksTold
  BY <1>2, ItemTypes DEF Stage, EndIsLast, Gathered, Whole, TicksTold
<1> QED
  BY <1>3, <1>4 DEF IInv

\* Items come after those that were taken.
LEMMA GatewayKeeps == IInv /\ Gateway => IInv'
<1> SUFFICES ASSUME IInv, Gateway PROVE IInv'
  OBVIOUS
<1>1. /\ at = "collect" /\ end = "open"
      /\ UNCHANGED <<op, refusal, taken, at, items, saw, result>>
  BY DEF Gateway, SendRow, SendError, SendEnd, Truncate
<1>2. TypeOK /\ Stage /\ EndIsLast /\ Gathered /\ Whole /\ TicksTold
  BY DEF IInv
<1>3. sent \in Seq(Item) /\ Len(sent) \in Nat /\ taken \in 0 .. Len(sent)
  BY <1>2 DEF TypeOK
<1>4. \A i \in DOMAIN sent : sent[i].type # "end"
  BY <1>1, <1>2 DEF EndIsLast
<1>5. /\ end' \in {"open", "complete", "early"}
      /\ \/ sent' = sent /\ ~(HasEnd /\ end' = "complete")
         \/ \E item \in Item : /\ sent' = Append(sent, item)
                               /\ item.type = "end" <=> HasEnd /\ end' = "complete"
  <2>1. CASE SendRow
    <3>1. PICK row \in Row(op) : sent' = Append(sent, Data(row))
      BY <2>1 DEF SendRow
    <3>2. Data(row) \in Item /\ Data(row).type = "data" /\ end' = "open"
      BY <1>1, <2>1 DEF SendRow, Item, Data
    <3> QED
      BY <3>1, <3>2
  <2>2. CASE SendError
    <3>1. PICK e \in StreamErrors : sent' = Append(sent, StreamError(e))
      BY <2>2 DEF SendError
    <3>2. StreamError(e) \in Item /\ StreamError(e).type = "error" /\ end' = "open"
      BY <1>1, <2>2 DEF SendError, Item, StreamError
    <3> QED
      BY <3>1, <3>2
  <2>3. CASE SendEnd
    <3>1. End \in Item /\ End.type = "end"
      BY DEF Item, End
    <3> QED
      BY <2>3, <3>1 DEF SendEnd
  <2>4. CASE Truncate
    BY <2>4 DEF Truncate
  <2> QED
    BY <2>1, <2>2, <2>3, <2>4 DEF Gateway
<1>6. /\ sent' \in Seq(Item) /\ Len(sent') \in Nat /\ Len(sent) <= Len(sent')
      /\ \A i \in DOMAIN sent : i \in DOMAIN sent' /\ sent'[i] = sent[i]
  BY <1>3, <1>5
<1>7. Item' = Item /\ Entry' = Entry /\ (HasEnd' <=> HasEnd)
  BY <1>1 DEF Item, Entry, HasEnd
<1>8. EndIsLast'
  <2>1. CASE sent' = sent /\ ~(HasEnd /\ end' = "complete")
    BY <1>4, <1>7, <2>1 DEF EndIsLast
  <2>2. ASSUME NEW item \in Item, sent' = Append(sent, item),
               item.type = "end" <=> HasEnd /\ end' = "complete"
        PROVE  EndIsLast'
    <3>1. /\ DOMAIN sent' = 1 .. Len(sent) + 1 /\ Len(sent') = Len(sent) + 1
          /\ sent'[Len(sent) + 1] = item /\ DOMAIN sent = 1 .. Len(sent)
      BY <1>3, <2>2
    <3>2. \A i \in DOMAIN sent' : i \in DOMAIN sent \/ i = Len(sent')
      BY <1>3, <3>1
    <3>3. \A i \in DOMAIN sent : i # Len(sent')
      BY <1>3, <3>1
    <3> QED
      BY <1>4, <1>6, <1>7, <2>2, <3>1, <3>2, <3>3 DEF EndIsLast
  <2> QED
    BY <1>5, <2>1, <2>2
<1>9. 1 .. taken \subseteq DOMAIN sent /\ taken \in 0 .. Len(sent')
  BY <1>3, <1>6
<1>10. TypeOK'
  BY <1>1, <1>2, <1>5, <1>6, <1>7, <1>9 DEF TypeOK
<1>11. Stage'
  BY <1>1, <1>2 DEF Stage
<1>12. Gathered' /\ TicksTold'
  BY <1>1, <1>2, <1>6, <1>7, <1>9 DEF Gathered, TicksTold, Told, HasEnd
<1>13. Whole'
  BY <1>1, <1>2, ItemTypes DEF Whole, Stage
<1> QED
  BY <1>8, <1>10, <1>11, <1>12, <1>13 DEF IInv

\* A call that is accepted or refused has no stream yet.
LEMMA RequestKeeps == IInv /\ (Accept \/ Refuse) => IInv'
<1> SUFFICES ASSUME IInv, Accept \/ Refuse PROVE IInv'
  OBVIOUS
<1>1. /\ at \in {"request", "submit"}
      /\ UNCHANGED <<op, sent, end, taken, items, saw>>
  BY DEF Accept, Refuse
<1>2. TypeOK /\ Stage /\ EndIsLast
  BY DEF IInv
<1>3. /\ sent = <<>> /\ end = "open" /\ taken = 0 /\ items = <<>>
      /\ result = NoResult /\ refusal = NotRefused /\ saw = NothingSeen /\ op \in Op
      /\ at = "submit" => op = "place_order"
  BY <1>1, <1>2 DEF Stage, TypeOK
<1>4. Item' = Item /\ Entry' = Entry /\ (HasEnd' <=> HasEnd) /\ EndIsLast'
  BY <1>1, <1>2 DEF Item, Entry, HasEnd, EndIsLast
<1>5. CASE Refuse
  <2>1. PICK e \in IbapiError : refusal' = e /\ at' = "returned" /\ result' = Refused(e)
    BY <1>5 DEF Refuse, Return
  <2>2. result'.ok = FALSE /\ refusal' # NotRefused
    BY <1>3, <2>1, RefusedIsError, RefusalsAreErrors
  <2>3. TypeOK'
    BY <1>1, <1>2, <1>4, <2>1, <2>2 DEF TypeOK
  <2>4. Stage'
    BY <1>1, <2>1 DEF Stage, Refused
  <2> QED
    BY <1>1, <1>4, <2>1, <2>2, <2>3, <2>4 DEF IInv, Gathered, Whole, TicksTold
<1>6. CASE Accept
  <2>1. /\ UNCHANGED refusal
        /\ \/ at' = "submit" /\ op = "place_order" /\ UNCHANGED result
           \/ at' = "returned" /\ op \in OrderEntry \union {"historical_data"} /\ result' = Ok(<<>>)
           \/ at' = "collect" /\ op \in Collection \union {"tick_stream"} /\ UNCHANGED result
    BY <1>3, <1>6 DEF Accept, Return, Op, OrderEntry, MarketData
  <2>2. result'.ok \in BOOLEAN
    BY <1>3, <2>1, ItemTypes
  <2>3. TypeOK'
    BY <1>1, <1>2, <1>4, <2>1, <2>2 DEF TypeOK
  <2>4. Stage'
    BY <1>1, <1>3, <2>1 DEF Stage
  <2>5. HasEnd' => ~result'.ok
    BY <1>3, <1>4, <2>1, ItemTypes DEF HasEnd, OrderEntry
  <2>6. Gathered' /\ TicksTold'
    BY <1>1, <1>3, <2>1 DEF Gathered, TicksTold, OrderEntry
  <2> QED
    BY <1>4, <2>3, <2>4, <2>5, <2>6 DEF IInv, Whole
<1> QED
  BY <1>5, <1>6

\* A row that is taken is collected, or handed out.
LEMMA RowKeeps == IInv /\ TakeRow => IInv'
<1> SUFFICES ASSUME IInv, TakeRow PROVE IInv'
  OBVIOUS
<1>1. TypeOK /\ Stage /\ EndIsLast /\ Gathered /\ TicksTold
  BY DEF IInv
<1> DEFINE row == sent[taken + 1].row
<1>2. /\ at = "collect" /\ taken < Len(sent) /\ taken' = taken + 1
      /\ sent[taken + 1].type = "data" /\ items' = items \o Kept(row)
      /\ UNCHANGED <<op, refusal, sent, end, saw>>
      /\ IF op = "pnl" THEN at' = "returned" /\ result' = Ok(row) ELSE UNCHANGED <<at, result>>
  BY DEF TakeRow, Takes, Return
<1>3. /\ sent \in Seq(Item) /\ Len(sent) \in Nat /\ taken \in Nat /\ taken + 1 \in DOMAIN sent
      /\ items \in Seq(Entry) /\ op \in Op
  BY <1>1, <1>2 DEF TypeOK
<1>4. sent[taken + 1] = Data(row) /\ row \in Row(op)
  BY <1>2, <1>3, ItemTypes
<1> HIDE DEF row
<1>5. /\ Kept(row) \in Seq(Entry)
      /\ HasEnd => Kept(row) = <<row>>
      /\ op = "tick_stream" => Kept(row) = <<Ok(TickEvent(row))>>
  BY <1>3, <1>4, KeptType
<1>6. Item' = Item /\ Entry' = Entry /\ (HasEnd' <=> HasEnd)
  BY <1>2 DEF Item, Entry, HasEnd
<1>7. /\ result = NoResult /\ refusal = NotRefused /\ saw = NothingSeen
      /\ op \in Collection \union {"tick_stream"}
  BY <1>1, <1>2 DEF Stage
<1>8. TypeOK'
  <2>1. items' \in Seq(Entry) /\ taken' \in 0 .. Len(sent)
    BY <1>2, <1>3, <1>5
  <2>2. result'.ok \in BOOLEAN /\ at' \in {"collect", "returned"}
    BY <1>2, <1>7, ItemTypes
  <2> QED
    BY <1>1, <1>2, <1>6, <2>1, <2>2 DEF TypeOK
<1>9. Stage' /\ EndIsLast'
  BY <1>1, <1>2, <1>6, <1>7 DEF Stage, EndIsLast
<1>10. \A i \in 1 .. taken' : i \in 1 .. taken \/ i = taken + 1
  BY <1>2, <1>3
<1>11. ASSUME NEW x, Kept(row) = <<x>>, Len(items) = taken
       PROVE  /\ Len(items') = taken' /\ items'[taken + 1] = x
              /\ \A i \in 1 .. taken : items'[i] = items[i]
  <2>1. x \in Entry
    <3>1. Kept(row) \in Seq(Entry) /\ Len(Kept(row)) = 1 /\ Kept(row)[1] = x
      BY <1>5, <1>11
    <3> QED
      BY <3>1
  <2>2. items' = items \o <<x>>
    BY <1>2, <1>11
  <2>3. /\ Len(items') = Len(items) + 1 /\ items'[Len(items) + 1] = x
        /\ \A i \in 1 .. Len(items) : items'[i] = items[i]
    BY <1>3, <2>1, <2>2
  <2> QED
    BY <1>2, <1>11, <2>3
<1>12. Gathered'
  <2> SUFFICES ASSUME HasEnd, at' = "collect"
               PROVE  Len(items') = taken' /\ \A i \in 1 .. taken' : sent[i] = Data(items'[i])
    BY <1>2, <1>6 DEF Gathered
  <2> QED
    BY <1>1, <1>2, <1>4, <1>5, <1>10, <1>11 DEF Gathered
<1>13. TicksTold'
  <2> SUFFICES ASSUME op = "tick_stream"
               PROVE  /\ Len(items') = taken' /\ \A i \in 1 .. taken' : items'[i] = Told(sent[i])
                      /\ at' = "collect"
    BY <1>2 DEF TicksTold, Told
  <2>1. Told(sent[taken + 1]) = Ok(TickEvent(row))
    BY <1>2, <1>4 DEF Told, Data
  <2> QED
    BY <1>1, <1>2, <1>5, <1>7, <1>10, <1>11, <2>1 DEF TicksTold
<1>14. Whole'
  BY <1>2, <1>6, <1>7, ItemTypes DEF Whole, HasEnd
<1> QED
  BY <1>8, <1>9, <1>12, <1>13, <1>14 DEF IInv

\* The End ends a list that is whole.
LEMMA EndKeeps == IInv /\ TakeEnd => IInv'
<1> SUFFICES ASSUME IInv, TakeEnd PROVE IInv'
  OBVIOUS
<1>1. TypeOK /\ Stage /\ EndIsLast /\ Gathered
  BY DEF IInv
<1>2. /\ at = "collect" /\ taken < Len(sent) /\ taken' = taken + 1
      /\ sent[taken + 1].type = "end" /\ saw' = [saw EXCEPT !.end = TRUE]
      /\ at' = "returned" /\ result' = Conclusion(items, saw'.end, saw'.error)
      /\ UNCHANGED <<op, refusal, sent, end, items>>
  BY DEF TakeEnd, Takes, Return
<1>3. /\ sent \in Seq(Item) /\ Len(sent) \in Nat /\ taken \in Nat /\ taken + 1 \in DOMAIN sent
      /\ items \in Seq(Entry) /\ op \in Op
  BY <1>1, <1>2 DEF TypeOK
<1>4. /\ result = NoResult /\ refusal = NotRefused /\ saw = NothingSeen
      /\ op \in Collection \union {"tick_stream"}
  BY <1>1, <1>2 DEF Stage
<1>5. HasEnd /\ end = "complete" /\ taken + 1 = Len(sent)
  BY <1>1, <1>2, <1>3 DEF EndIsLast
<1>6. Item' = Item /\ Entry' = Entry /\ (HasEnd' <=> HasEnd)
  BY <1>2 DEF Item, Entry, HasEnd
<1>7. saw' = [end |-> TRUE, error |-> FALSE]
  BY <1>2, <1>4 DEF NothingSeen
<1>8. /\ result' = IF op = "net_liquidation" THEN parse_net_liquidation(items) ELSE Ok(items)
      /\ result'.ok \in BOOLEAN
  <2>1. saw'.end = TRUE /\ saw'.error = FALSE
    BY <1>7
  <2>2. result' = Conclusion(items, TRUE, FALSE)
    BY <1>2, <2>1, Zenon
  <2> QED
    BY <1>4, <1>5, <2>2, ConclusionType
<1>9. TypeOK'
  <2>1. taken' \in 0 .. Len(sent) /\ saw' \in [end : BOOLEAN, error : BOOLEAN]
    <3>1. taken' \in 0 .. Len(sent)
      BY <1>2, <1>3
    <3>2. saw' \in [end : BOOLEAN, error : BOOLEAN]
      BY <1>7
    <3> QED
      BY <3>1, <3>2
  <2> QED
    BY <1>1, <1>2, <1>6, <1>8, <2>1 DEF TypeOK
<1>10. Stage' /\ EndIsLast' /\ Gathered' /\ TicksTold'
  BY <1>1, <1>2, <1>4, <1>5, <1>6 DEF Stage, EndIsLast, Gathered, TicksTold, HasEnd
<1>11. Whole'
  <2> DEFINE rows == [i \in DOMAIN items |-> Data(items[i])]
  <2>1. Len(items) = taken /\ \A i \in 1 .. taken : sent[i] = Data(items[i])
    BY <1>1, <1>2, <1>5 DEF Gathered
  <2>2. DOMAIN items = 1 .. taken /\ DOMAIN sent = 1 .. taken + 1
    BY <1>3, <1>5, <2>1
  <2>3. rows \in Seq(Item) /\ Len(rows) = taken
    <3>1. rows \in [1 .. taken -> Item]
      BY <1>3, <2>1, <2>2
    <3> QED
      BY <1>3, <3>1
  <2>4. sent[taken + 1] = End /\ End \in Item
    BY <1>2, <1>3, ItemTypes DEF Item
  <2>5. \A i \in 1 .. taken : rows[i] = sent[i]
    BY <2>1, <2>2
  <2> HIDE DEF rows
  <2>6. /\ DOMAIN Append(rows, End) = 1 .. taken + 1
        /\ \A i \in 1 .. taken : Append(rows, End)[i] = rows[i]
        /\ Append(rows, End)[taken + 1] = End
        /\ Append(rows, End) \in Seq(Item) /\ Len(Append(rows, End)) = taken + 1
    BY <1>3, <2>3, <2>4
  <2>7. \A i \in 1 .. taken + 1 : Append(rows, End)[i] = sent[i]
    <3>1. \A i \in 1 .. taken + 1 : i \in 1 .. taken \/ i = taken + 1
      BY <1>3
    <3> QED
      BY <2>4, <2>5, <2>6, <3>1
  <2>8. sent = Append(rows, End)
    BY <1>3, <1>5, <2>6, <2>7, SeqEqual
  <2> QED
    BY <1>2, <1>5, <1>6, <1>8, <2>8 DEF Whole, rows
<1> QED
  BY <1>9, <1>10, <1>11 DEF IInv

\* An error ends a list, as an error, and is an item of a tick stream.
LEMMA ErrorKeeps == IInv /\ TakeError => IInv'
<1> SUFFICES ASSUME IInv, TakeError PROVE IInv'
  OBVIOUS
<1>1. TypeOK /\ Stage /\ EndIsLast /\ TicksTold
  BY DEF IInv
<1> DEFINE e == sent[taken + 1].error
<1>2. /\ at = "collect" /\ taken < Len(sent) /\ taken' = taken + 1
      /\ sent[taken + 1].type = "error"
      /\ items' = IF op = "tick_stream" THEN Append(items, Err(FromIbapi(e))) ELSE items
      /\ UNCHANGED <<op, refusal, sent, end>>
      /\ IF GoesOnAfterError
         THEN UNCHANGED <<at, result, saw>>
         ELSE /\ saw' = [saw EXCEPT !.error = TRUE]
              /\ at' = "returned" /\ result' = Conclusion(items, saw'.end, saw'.error)
  BY DEF TakeError, Takes, Return
<1>3. /\ sent \in Seq(Item) /\ Len(sent) \in Nat /\ taken \in Nat /\ taken + 1 \in DOMAIN sent
      /\ items \in Seq(Entry) /\ op \in Op
  BY <1>1, <1>2 DEF TypeOK
<1>4. e \in StreamErrors
  BY <1>2, <1>3, ItemTypes
<1> HIDE DEF e
<1>5. /\ result = NoResult /\ refusal = NotRefused /\ saw = NothingSeen
      /\ op \in Collection \union {"tick_stream"}
  BY <1>1, <1>2 DEF Stage
<1>6. Item' = Item /\ Entry' = Entry /\ (HasEnd' <=> HasEnd)
  BY <1>2 DEF Item, Entry, HasEnd
<1>7. /\ saw' \in [end : BOOLEAN, error : BOOLEAN] /\ result'.ok \in BOOLEAN
      /\ at' \in {"collect", "returned"}
      /\ HasEnd => ~result'.ok /\ at' = "returned"
      /\ at' = "collect" => UNCHANGED <<result, saw>>
      /\ op = "tick_stream" => at' = "collect"
  <2>1. CASE GoesOnAfterError
    <3>1. UNCHANGED <<at, result, saw>> /\ ~HasEnd
      BY <1>2, <2>1 DEF GoesOnAfterError, HasEnd
    <3> QED
      BY <1>2, <1>5, <3>1, ItemTypes DEF NothingSeen
  <2>2. CASE ~GoesOnAfterError
    <3>1. saw' = [end |-> FALSE, error |-> TRUE] /\ op # "tick_stream"
      BY <1>2, <1>5, <2>2 DEF NothingSeen, GoesOnAfterError
    <3>2. at' = "returned" /\ result' = Conclusion(items, FALSE, TRUE)
      BY <1>2, <2>2, <3>1
    <3> QED
      BY <1>5, <3>1, <3>2, ConclusionType
  <2> QED
    BY <2>1, <2>2
<1>8. items' \in Seq(Entry)
  <2>1. CASE op = "tick_stream"
    <3>1. Err(FromIbapi(e)) \in Entry
      BY <1>4, <2>1 DEF Entry
    <3> QED
      BY <1>2, <1>3, <2>1, <3>1
  <2>2. CASE op # "tick_stream"
    BY <1>2, <1>3, <2>2
  <2> QED
    BY <2>1, <2>2
<1>9. TypeOK'
  <2>1. taken' \in 0 .. Len(sent)
    BY <1>2, <1>3
  <2> QED
    BY <1>1, <1>2, <1>6, <1>7, <1>8, <2>1 DEF TypeOK
<1>10. Stage' /\ EndIsLast' /\ Gathered' /\ Whole'
  BY <1>1, <1>2, <1>5, <1>6, <1>7 DEF Stage, EndIsLast, Gathered, Whole
<1>11. TicksTold'
  <2> SUFFICES ASSUME op = "tick_stream"
               PROVE  /\ Len(items') = taken' /\ \A i \in 1 .. taken' : items'[i] = Told(sent[i])
                      /\ at' = "collect"
    BY <1>2 DEF TicksTold, Told
  <2>1. Len(items) = taken /\ \A i \in 1 .. taken : items[i] = Told(sent[i])
    BY <1>1, <1>5 DEF TicksTold
  <2>2. /\ Len(items') = taken + 1 /\ items'[taken + 1] = Err(FromIbapi(e))
        /\ \A i \in 1 .. taken : items'[i] = items[i]
    BY <1>2, <1>3, <2>1
  <2>3. Told(sent[taken + 1]) = Err(FromIbapi(e))
    BY <1>2 DEF Told, e
  <2>4. \A i \in 1 .. taken' : i \in 1 .. taken \/ i = taken + 1
    BY <1>2, <1>3
  <2> QED
    BY <1>2, <1>7, <2>1, <2>2, <2>3, <2>4
<1> QED
  BY <1>9, <1>10, <1>11 DEF IInv

\* A stream that ends without an End gives no list.
LEMMA NoneKeeps == IInv /\ TakeNone => IInv'
<1> SUFFICES ASSUME IInv, TakeNone PROVE IInv'
  OBVIOUS
<1>1. TypeOK /\ Stage /\ EndIsLast /\ TicksTold
  BY DEF IInv
<1>2. /\ at = "collect" /\ taken = Len(sent) /\ end # "open"
      /\ at' = "returned" /\ result' = Conclusion(items, saw.end, saw.error)
      /\ UNCHANGED <<op, refusal, sent, end, taken, items, saw>>
  BY DEF TakeNone, Return
<1>3. /\ result = NoResult /\ refusal = NotRefused /\ saw = NothingSeen
      /\ op \in Collection \union {"tick_stream"}
  BY <1>1, <1>2 DEF Stage
<1>4. Item' = Item /\ Entry' = Entry /\ (HasEnd' <=> HasEnd)
  BY <1>2 DEF Item, Entry, HasEnd
<1>5. result'.ok \in BOOLEAN /\ (HasEnd => ~result'.ok)
  <2>1. result' = Conclusion(items, FALSE, FALSE)
    BY <1>2, <1>3 DEF NothingSeen
  <2> QED
    BY <1>3, <2>1, ConclusionType
<1>6. TypeOK'
  BY <1>1, <1>2, <1>4, <1>5 DEF TypeOK
<1>7. Stage' /\ EndIsLast' /\ Gathered' /\ Whole'
  BY <1>1, <1>2, <1>3, <1>4, <1>5 DEF Stage, EndIsLast, Gathered, Whole
<1>8. TicksTold'
  BY <1>1, <1>2, <1>3 DEF TicksTold, Told
<1> QED
  BY <1>6, <1>7, <1>8 DEF IInv

\* A stream that is dropped stays as it was read.
LEMMA DropKeeps == IInv /\ (DropStream \/ UNCHANGED vars) => IInv'
<1> SUFFICES ASSUME IInv, DropStream \/ UNCHANGED vars PROVE IInv'
  OBVIOUS
<1>1. TypeOK /\ Stage /\ EndIsLast /\ Gathered /\ Whole /\ TicksTold
  BY DEF IInv
<1>2. /\ UNCHANGED <<op, refusal, sent, end, taken, items, saw, result>>
      /\ at' = at \/ at' = "dropped"
  BY DEF DropStream, vars
<1>3. Item' = Item /\ Entry' = Entry /\ (HasEnd' <=> HasEnd)
  BY <1>2 DEF Item, Entry, HasEnd
<1>4. TypeOK'
  BY <1>1, <1>2, <1>3 DEF TypeOK
<1>5. Stage'
  BY <1>1, <1>2 DEF Stage, Refused
<1>6. EndIsLast' /\ Gathered'
  BY <1>1, <1>2, <1>3 DEF EndIsLast, Gathered
<1>7. Whole'
  BY <1>1, <1>2, <1>3 DEF Whole, parse_net_liquidation
<1>8. TicksTold'
  BY <1>1, <1>2 DEF TicksTold, Told
<1> QED
  BY <1>4, <1>5, <1>6, <1>7, <1>8 DEF IInv

\* Every step keeps the invariant.
LEMMA NextInv == IInv /\ [Next]_vars => IInv'
BY GatewayKeeps, RequestKeeps, RowKeeps, EndKeeps, ErrorKeeps, NoneKeeps, DropKeeps DEF Next, Call

\* So it holds in every behaviour.
LEMMA Invariant == Spec => []IInv
<1> QED
  BY InitInv, NextInv, PTL DEF Spec

-----------------------------------------------------------------------------
\* The types hold in every behaviour.
THEOREM TypeCorrect == Spec => []TypeOK
<1>1. IInv => TypeOK
  BY DEF IInv
<1> QED
  BY <1>1, Invariant, PTL

\* A position list or an account summary that is returned is all that came, in
\* order, and the gateway had said that it was all.
THEOREM ListsAreWhole == Spec => []WholeOrError
<1>1. IInv => WholeOrError
  <2> SUFFICES ASSUME IInv, result.ok, op \in {"positions", "account_summary"}
               PROVE  /\ end = "complete"
                      /\ sent = Append([i \in DOMAIN result.value |-> Data(result.value[i])], End)
    BY DEF WholeOrError
  <2>1. /\ end = "complete"
        /\ sent = Append([i \in DOMAIN items |-> Data(items[i])], End)
        /\ result = Ok(items)
    BY DEF IInv, Whole, HasEnd
  <2>2. result.value = items
    BY <2>1, ItemTypes
  <2> QED
    BY <2>1, <2>2
<1> QED
  BY <1>1, Invariant, PTL

\* Of a summary, the first row that counts decides.
LEMMA FirstTaggedDecides ==
  ASSUME NEW summary \in Seq(SummaryRow), parse_net_liquidation(summary).ok
  PROVE  \E m \in DOMAIN summary :
           /\ parse_net_liquidation(summary).value = summary[m]
           /\ summary[m] \in {"a number", "another number"}
           /\ \A j \in 1 .. m - 1 : summary[j] = "another tag"
<1> DEFINE tagged == {i \in DOMAIN summary : summary[i] # "another tag"}
           m      == Min(tagged)
<1>1. /\ DOMAIN summary = 1 .. Len(summary) /\ Len(summary) \in Nat
      /\ \A i \in DOMAIN summary : i \in Nat /\ summary[i] \in SummaryRow
  OBVIOUS
<1>2. tagged # {} /\ parse_net_liquidation(summary) = parsed(summary[m])
  BY ItemTypes DEF parse_net_liquidation
<1>3. tagged \subseteq Nat
  BY <1>1, Zenon
<1>4. m \in tagged /\ \A y \in tagged : m <= y
  BY <1>2, <1>3, MinIsLeast
<1> HIDE DEF m
<1>5. m \in DOMAIN summary /\ summary[m] # "another tag"
  BY <1>4
<1>6. summary[m] # "unparseable" /\ parse_net_liquidation(summary).value = summary[m]
  BY <1>2, ItemTypes DEF parsed
<1>7. summary[m] \in {"a number", "another number"}
  <2>1. summary[m] \in SummaryRow
    BY <1>1, <1>5, Zenon
  <2> QED
    BY <1>5, <1>6, <2>1 DEF SummaryRow
<1>8. ASSUME NEW j \in 1 .. m - 1 PROVE summary[j] = "another tag"
  <2>1. j \in DOMAIN summary /\ ~(m <= j)
    <3>1. m \in 1 .. Len(summary) /\ Len(summary) \in Nat
      BY <1>1, <1>5
    <3>2. j \in 1 .. Len(summary) /\ ~(m <= j)
      BY <3>1
    <3> QED
      BY <1>1, <3>2
  <2> QED
    BY <1>4, <2>1
<1> QED
  BY <1>5, <1>6, <1>7, <1>8

\* A net liquidation is the first one the gateway sent in a summary that is whole.
THEOREM NetLiquidationIsSent == Spec => []NetLiquidationIsReal
<1>1. IInv => NetLiquidationIsReal
  <2> SUFFICES ASSUME IInv, result.ok, op = "net_liquidation"
               PROVE  /\ end = "complete"
                      /\ \A i \in DOMAIN sent : sent[i].type # "error"
                      /\ \E i \in DOMAIN sent :
                           /\ sent[i] = Data(result.value)
                           /\ result.value \in {"a number", "another number"}
                           /\ \A j \in 1 .. i - 1 : sent[j] = Data("another tag")
    BY DEF NetLiquidationIsReal
  <2> DEFINE rows == [i \in DOMAIN items |-> Data(items[i])]
             n    == Len(items)
  <2>1. /\ end = "complete" /\ sent = Append(rows, End)
        /\ result = parse_net_liquidation(items)
    BY DEF IInv, Whole, HasEnd
  <2>2. items \in Seq(SummaryRow)
    BY DEF IInv, TypeOK, Entry, Row
  <2>3. n \in Nat /\ DOMAIN items = 1 .. n
    BY <2>2
  <2>4. PICK m \in DOMAIN items :
          /\ result.value = items[m] /\ items[m] \in {"a number", "another number"}
          /\ \A j \in 1 .. m - 1 : items[j] = "another tag"
    BY <2>1, <2>2, FirstTaggedDecides
  <2>5. /\ DOMAIN sent = 1 .. n + 1 /\ sent[n + 1] = End
        /\ \A i \in 1 .. n : sent[i] = Data(items[i])
    <3> DEFINE S == {Data(r) : r \in SummaryRow} \union {End}
    <3>1. End \in S
      OBVIOUS
    <3>2. rows \in Seq(S) /\ Len(rows) = n
      <4>1. rows \in [1 .. n -> S]
        BY <2>2, <2>3
      <4> QED
        BY <2>3, <4>1
    <3>3. \A i \in 1 .. n : rows[i] = Data(items[i])
      BY <2>3
    <3>4. /\ DOMAIN Append(rows, End) = 1 .. n + 1 /\ Append(rows, End)[n + 1] = End
          /\ \A i \in 1 .. n : Append(rows, End)[i] = rows[i]
      <4> HIDE DEF rows, n, S
      <4> QED
        BY <2>3, <3>1, <3>2
    <3>5. sent = Append(rows, End)
      BY <2>1
    <3> HIDE DEF rows, n
    <3> QED
      BY ONLY <3>3, <3>4, <3>5
  <2>6. \A i \in DOMAIN sent : sent[i].type # "error"
    <3>1. \A i \in 1 .. n + 1 : i \in 1 .. n \/ i = n + 1
      BY <2>3
    <3>2. \A row : Data(row).type # "error"
      BY DEF Data
    <3>3. End.type # "error"
      BY DEF End
    <3> HIDE DEF n
    <3> QED
      BY <2>5, <3>1, <3>2, <3>3
  <2>7. /\ m \in DOMAIN sent /\ sent[m] = Data(result.value)
        /\ \A j \in 1 .. m - 1 : sent[j] = Data("another tag")
    <3>1. m \in 1 .. n + 1 /\ \A j \in 1 .. m - 1 : j \in 1 .. n
      BY <2>3
    <3> QED
      BY <2>3, <2>4, <2>5, <3>1
  <2> QED
    BY <2>1, <2>4, <2>6, <2>7
<1> QED
  BY <1>1, Invariant, PTL

\* A tick stream tells every item of its subscription, errors included, in order
\* and up to the last; what it was not given, and nothing else, is a zero.
THEOREM TicksComplete == Spec => []EveryTickComesOut
<1>1. IInv => EveryTickComesOut
  <2> SUFFICES ASSUME IInv, op = "tick_stream", at \in {"collect", "returned"}, refusal = NotRefused
               PROVE  /\ Len(items) = taken
                      /\ \A i \in DOMAIN items : Tells(items[i], sent[i])
                      /\ at = "returned" => taken = Len(sent) /\ end # "open"
    BY DEF EveryTickComesOut
  <2>1. /\ Len(items) = taken /\ \A i \in 1 .. taken : items[i] = Told(sent[i])
        /\ at = "returned" => taken = Len(sent) /\ end # "open"
    BY DEF IInv, TicksTold
  <2>2. DOMAIN items = 1 .. taken /\ 1 .. taken \subseteq DOMAIN sent /\ sent \in Seq(Item)
    BY <2>1 DEF IInv, TypeOK
  <2>3. ASSUME NEW i \in DOMAIN items PROVE Tells(items[i], sent[i])
    <3>1. items[i] = Told(sent[i]) /\ i \in DOMAIN sent /\ sent[i] \in Item
      BY <2>1, <2>2
    <3>2. CASE sent[i].type = "error"
      BY <3>1, <3>2 DEF Tells, Told, Err
    <3>3. CASE sent[i].type # "error"
      <4>1. sent[i].type # "end"
        BY <3>1 DEF IInv, EndIsLast, HasEnd
      <4>2. sent[i].row \in TickTypes
        BY <3>1, <3>3, <4>1, ItemTypes DEF Row
      <4>3. items[i].ok /\ items[i].value = TickEvent(sent[i].row)
        BY <3>1, <3>3, ItemTypes DEF Told
      <4>4. \A tick \in TickTypes :
              /\ TickEvent(tick).value = IF tick.value = "given" THEN "given" ELSE "zero"
              /\ tick.value = "given" /\ tick.kind # "OptionComputation"
                   => TickEvent(tick).kind = tick.kind
        BY DEF TickTypes, TickEvent
      <4> QED
        BY <3>3, <4>2, <4>3, <4>4 DEF Tells
    <3> QED
      BY <3>2, <3>3
  <2> QED
    BY <2>1, <2>3
<1> QED
  BY <1>1, Invariant, PTL

-----------------------------------------------------------------------------
(* The tables of errors and notices, for every code.                       *)

\* Nothing that is a failure or a farm's trouble is benign, and the two
\* classifiers have the same idea of a farm that is disconnected.
LEMMA NoticeClasses ==
  ASSUME NEW code \in Nat
  PROVE  LET kind == classify_notice(code).kind
             farm == classify_farm(code)
         IN  /\ kind # "Other" \/ farm \in {"Warning", "Inactive"} => notice_is_warn(code)
             /\ kind = "FarmDisconnect" <=> farm = "Inactive"
             /\ farm \in FarmState
<1>1. CASE code \in {1102, 2100, 2104, 2106, 2137, 2158}
  <2>1. classify_notice(code).kind = "Other"
    <3>1. /\ code # 10197 /\ code # 2107 /\ code \notin (10000 .. 10999) \ {10197}
          /\ code \notin 200 .. 299 /\ code \notin {502, 504, 506} /\ code \notin {507, 100}
      BY <1>1
    <3> QED
      BY <3>1 DEF classify_notice, IbError
  <2>2. classify_farm(code) \in {"Ok", "Unknown"}
    BY <1>1 DEF classify_farm
  <2> QED
    BY <2>1, <2>2 DEF FarmState
<1>2. CASE code \notin {1102, 2100, 2104, 2106, 2137, 2158}
  <2>1. notice_is_warn(code)
    BY <1>2 DEF notice_is_warn
  <2>2. classify_notice(code).kind = "FarmDisconnect" <=> code = 2107
    BY DEF classify_notice, IbError
  <2>3. classify_farm(code) = "Inactive" <=> code = 2107
    BY DEF classify_farm
  <2>4. classify_farm(code) \in FarmState
    BY DEF classify_farm, FarmState
  <2> QED
    BY <2>1, <2>2, <2>3, <2>4
<1> QED
  BY <1>1, <1>2

\* A text with a code is none of the texts without one, nor another code's.
LEMMA CodedTexts ==
  ASSUME NEW code
  PROVE  /\ \A x : <<"unknown", code>> # <<x>>
         /\ \A x : <<"Unknown", code>> # <<x>>
OBVIOUS

\* The forms an event is shown in agree.
LEMMA EventForms ==
  ASSUME NEW code \in Nat, NEW account \in AccountType
  PROVE  LET farm  == classify_farm(code)
             event == PyDiagnosticEvent(DiagnosticEvent(1, code, account))
             batch == DiagnosticBatch(SessionFingerprint(1, account),
                                      <<DiagnosticEvent(1, code, account)>>)
         IN  /\ event.farm_status \in PyFarmState <=> farm # "Unknown"
             /\ event.farm_status \in {from_code(code), unknown(code)}
             /\ event.farm_status = unknown(code) <=>
                  batch.events[1].farm_status = <<"Unknown", code>>
             /\ event.connection_state \in PyConnectionState
             /\ event.account_type \in PyAccountType
             /\ parse_account_type(event.account_type) = <<batch.session.account_type>>
<1> DEFINE farm  == classify_farm(code)
           shown == DiagnosticEvent(1, code, account)
           event == PyDiagnosticEvent(shown)
           batch == DiagnosticBatch(SessionFingerprint(1, account), <<shown>>)
<1>1. /\ shown.error_code = code /\ shown.farm_status = farm
      /\ shown.connection_state = "Connected" /\ shown.account_type = account
  BY DEF DiagnosticEvent
<1>2. farm \in FarmState
  BY NoticeClasses
<1> HIDE DEF farm, shown
<1>3. /\ event.farm_status = FarmText(farm, code)
      /\ event.connection_state = <<"connected">>
      /\ event.account_type = AccountText(account)
  BY <1>1 DEF PyDiagnosticEvent, ConnectionText
<1>4. /\ batch.events[1].farm_status = IF farm = "Unknown" THEN <<"Unknown", code>> ELSE <<farm>>
      /\ batch.session.account_type = account
  BY <1>1 DEF DiagnosticBatch, SessionFingerprint, DiagnosticEventPayload, WireFarm
<1>5. from_code(code) = FarmText(farm, code)
  BY DEF from_code, farm
<1> HIDE DEF event, batch
<1>6. /\ farm = "Unknown" => FarmText(farm, code) = <<"unknown", code>>
      /\ farm # "Unknown" => FarmText(farm, code) \in PyFarmState
  BY <1>2 DEF FarmText, FarmState, PyFarmState
<1>7. <<"unknown", code>> \notin PyFarmState /\ \A x : <<x>> # <<"Unknown", code>>
  BY CodedTexts DEF PyFarmState
<1>8. AccountText(account) \in PyAccountType /\ parse_account_type(AccountText(account)) = <<account>>
  <2>1. <<"live">> # <<"paper">>
    <3>1. <<"live">>[1] # <<"paper">>[1]
      OBVIOUS
    <3> QED
      BY <3>1
  <2>2. CASE account = "Live"
    BY <2>2 DEF AccountText, PyAccountType, parse_account_type
  <2>3. CASE account = "Paper"
    BY <2>1, <2>3 DEF AccountText, PyAccountType, parse_account_type
  <2> QED
    BY <2>2, <2>3 DEF AccountType
<1>9. <<"connected">> \in PyConnectionState
  BY DEF PyConnectionState
<1>10. event.farm_status = unknown(code) <=> farm = "Unknown"
  BY <1>3, <1>6, <1>7 DEF unknown
<1>11. batch.events[1].farm_status = <<"Unknown", code>> <=> farm = "Unknown"
  BY <1>4, <1>7
<1> QED
  BY <1>3, <1>4, <1>5, <1>6, <1>7, <1>8, <1>9, <1>10, <1>11 DEF farm, event, batch, shown, unknown

\* What is logged, broadcast, posted and shown of a notice is one story.
THEOREM NoticesAgree == Spec => []NoticeTablesAgree
<1>1. IInv => NoticeTablesAgree
  <2> SUFFICES ASSUME IInv, refusal.type = "Notice" PROVE NoticeTablesAgree
    BY DEF NoticeTablesAgree
  <2>1. refusal \in IbapiError
    <3>1. refusal \in IbapiError \union {NotRefused}
      BY DEF IInv, TypeOK
    <3>2. NotRefused.type # "Notice"
      BY DEF NotRefused
    <3> QED
      BY <3>1, <3>2
  <2>2. refusal.code \in Nat
    BY <2>1, BoundsAssumption DEF IbapiError, Notice, Io, Transport, Unclassifiable
  <2> QED
    BY <2>2, NoticeClasses, EventForms DEF NoticeTablesAgree
<1> QED
  BY <1>1, Invariant, PTL

\* The errors of the order paths.
LEMMA OrderPaths ==
  ASSUME NEW e \in IbapiError
  PROVE  LET stream == FromIbapi(e)
             submit == order_submit_error(e)
         IN  /\ is_connection_dead(stream)
                  => is_connection_dead(submit) /\ outcome_for_stream_error(stream) = "Pending"
             /\ outcome_for_stream_error(stream) = "Rejected" => submit.kind = "OrderRejected"
             /\ submit.kind = "OrderRejected" => e.type = "Notice"
<1> DEFINE stream == FromIbapi(e)
<1>1. e.type = "Notice" => stream = classify_notice(e.code)
  BY DEF FromIbapi
<1>2. e.type # "Notice" => stream.kind # "OrderRejected"
  BY DEF FromIbapi, FromIo, IbError
<1>3. with_context(stream).kind = stream.kind
  BY DEF with_context
<1> HIDE DEF stream
<1>4. CASE e.type = "Notice" /\ ~is_connection_dead(stream)
  <2>1. order_submit_error(e).kind = "OrderRejected"
    BY <1>1, <1>4 DEF order_submit_error, order_rejected_from
  <2> QED
    BY <1>4, <2>1 DEF stream
<1>5. CASE ~(e.type = "Notice" /\ ~is_connection_dead(stream))
  <2>1. order_submit_error(e) = with_context(stream)
    BY <1>1, <1>5 DEF order_submit_error, stream
  <2>2. order_submit_error(e).kind = stream.kind
    BY <1>3, <2>1
  <2> QED
    BY <1>2, <1>5, <2>2 DEF is_connection_dead, outcome_for_stream_error, stream
<1> QED
  BY <1>4, <1>5

\* The errors of the market data path.
LEMMA MarketDataPath ==
  ASSUME NEW e \in IbapiError
  PROVE  LET stream == FromIbapi(e)
             told   == market_data_error(e)
         IN  /\ is_connection_dead(stream) <=> is_connection_dead(told)
             /\ told.code \in {0, stream.code}
             /\ HasMessage(told) => told.ctx
BY DEF market_data_error, with_context, is_connection_dead, HasMessage

\* A refusal that leaves an order's fate open is a rejection on no path, and a
\* dead connection is told as one on all of them.
THEOREM ErrorPathsCorrect == Spec => []ErrorPathsAgree
<1>1. IInv => ErrorPathsAgree
  <2> SUFFICES ASSUME IInv, refusal # NotRefused PROVE ErrorPathsAgree
    BY DEF ErrorPathsAgree
  <2>1. refusal \in IbapiError /\ result = Refused(refusal)
    BY DEF IInv, TypeOK, Stage
  <2>2. /\ op \in OrderEntry => result.error = order_submit_error(refusal)
        /\ op \in MarketData => result.error = market_data_error(refusal)
    BY <2>1 DEF Refused, OrderEntry, MarketData, Collection, Err
  <2> QED
    BY <2>1, <2>2, OrderPaths, MarketDataPath DEF ErrorPathsAgree
<1> QED
  BY <1>1, Invariant, PTL
=============================================================================
