--------------------------- MODULE FrontEnds_proofs ---------------------------
(***************************************************************************)
(* The two programs that receive diagnostic events: the Python class       *)
(* (PyClient) and, in the last sections, the command line (CliDiagnose).   *)
(*                                                                         *)
(* NoOrphanConnection and SkipsOnlyOverwritten of PyClient, for any number *)
(* of receivers and sessions, any broadcast capacity and any event count.  *)
(* That a reconnect leaves the connection with an owner depends on who may *)
(* be in the middle of a method: Owned says it.  That a receiver hands out *)
(* nothing twice and leaves no hole depends on where it is: Placed does.   *)
(*                                                                         *)
(* ReportIsHonest of CliDiagnose, for any notice codes, version, capacity  *)
(* and number of events.  A report is made after the last event was        *)
(* received, and its counts are of a list: CliInv says what the list is in *)
(* every state, and the counts follow from how the farm states share it.   *)
(* The command ends, or has events to collect for ever.                    *)
(***************************************************************************)
EXTENDS PyClient, CliDiagnose, FiniteSetTheorems, TLAPS

\* Only an object that holds a client is in the middle of a method.
Owned ==
  /\ busy # "no" => object = "alive" /\ held
  /\ NoOrphanConnection

\* A receiver is not ahead of the events, and what it has seen is behind it.
Placed(r) ==
  /\ yielded[r] \subseteq 1 .. rx[r] - 1
  /\ missed[r] \subseteq 1 .. rx[r] - 1
  /\ rx[r] <= events + 1

Skips(r) ==
  LET seen == yielded[r] \union missed[r]
  IN  /\ \A e \in missed[r] : e + BroadcastCap <= events
      /\ yielded[r] \intersect missed[r] = {}
      /\ \A e \in 1 .. rx[r] - 1, f \in seen : f <= e => e \in seen

\* The parts of the state that the receivers' steps need the types of.
ReceiverTypes ==
  /\ events \in Nat
  /\ rx \in [Receiver -> Nat]
  /\ yielded \in [Receiver -> SUBSET Nat]
  /\ missed \in [Receiver -> SUBSET Nat]

\* Only a receiver that has subscribed is asked for an event.
Subscribed == \A r \in Receiver : iterating = r => rx[r] # 0

Reading == ReceiverTypes /\ \A r \in Receiver : Placed(r) /\ Skips(r)

-----------------------------------------------------------------------------
\* Who owns the connection is an invariant of every step.
LEMMA OwnedNext == Owned /\ [Next]_vars => Owned'
<1> SUFFICES ASSUME Owned, [Next]_vars PROVE Owned'
  OBVIOUS
<1> USE DEF Owned, NoOrphanConnection
<1>1. CASE WatcherPublishes \/ ConnectionLost \/ WatcherEnds
  BY <1>1 DEF WatcherPublishes, ConnectionLost, WatcherEnds, clientVars
<1>2. ASSUME NEW account, connect(account) PROVE Owned'
  BY <1>2 DEF connect
<1>3. ASSUME NEW m \in Method, with_client(m) PROVE Owned'
  BY <1>3 DEF with_client, Usable, clientVars
<1>4. CASE request \/ order_updates
  BY <1>4 DEF request, order_updates, clientVars, Return, Raise
<1>5. CASE reconnect_ok \/ reconnect_fails
  BY <1>5 DEF reconnect_ok, reconnect_fails, Return, Raise
<1>6. CASE disconnect
  BY <1>6 DEF disconnect, Return
<1>7. CASE DropObject
  BY <1>7 DEF DropObject, Free
<1>8. ASSUME NEW r \in Receiver, diagnostic_events(r) \/ next(r) \/ next_again(r)
      PROVE  Owned'
  BY <1>8 DEF diagnostic_events, next, next_again, clientVars
<1>9. CASE UNCHANGED vars
  BY <1>9 DEF vars, clientVars
<1> QED
  BY <1>1, <1>2, <1>3, <1>4, <1>5, <1>6, <1>7, <1>8, <1>9 DEF Next

-----------------------------------------------------------------------------
\* Taking an event from the broadcast keeps a receiver in its place.
LEMMA YieldReads ==
  ASSUME Reading, NEW r \in Receiver, rx[r] # 0, Yield(r), UNCHANGED events
  PROVE  Reading'
<1> USE BoundsAssumption DEF Reading, ReceiverTypes, Yield, Unread
<1>1. ReceiverTypes'
  OBVIOUS
<1>2. ASSUME NEW q \in Receiver, q # r PROVE (Placed(q) /\ Skips(q))'
  BY <1>2 DEF Placed, Skips
<1>3. /\ rx[r] \in Nat /\ rx'[r] = rx[r] + 1 /\ rx[r] >= 1
      /\ yielded'[r] = yielded[r] \union {rx[r]} /\ missed'[r] = missed[r]
  BY DEF Placed
<1>4. Placed(r)'
  BY <1>3 DEF Placed
<1>5. Skips(r)'
  BY <1>3 DEF Placed, Skips
<1> QED
  BY <1>1, <1>2, <1>4, <1>5

\* So does a lag: what it skips has been overwritten.
LEMMA LagReads ==
  ASSUME Reading, NEW r \in Receiver, rx[r] # 0, Lag(r), UNCHANGED events
  PROVE  Reading'
<1> USE BoundsAssumption DEF Reading, ReceiverTypes, Lag, Lagging, Unread, Oldest
<1>1. /\ rx[r] \in Nat /\ rx[r] >= 1 /\ events - BroadcastCap + 1 > rx[r]
      /\ rx'[r] = events - BroadcastCap + 1
      /\ yielded'[r] = yielded[r]
      /\ missed'[r] = missed[r] \union (rx[r] .. events - BroadcastCap)
  OBVIOUS
<1>2. ReceiverTypes'
  BY <1>1
<1>3. ASSUME NEW q \in Receiver, q # r PROVE (Placed(q) /\ Skips(q))'
  BY <1>3 DEF Placed, Skips
<1>4. Placed(r)'
  BY <1>1 DEF Placed
<1>5. Skips(r)'
  BY <1>1 DEF Placed, Skips
<1> QED
  BY <1>2, <1>3, <1>4, <1>5

-----------------------------------------------------------------------------
\* So do events that are published and a receiver that subscribes.
LEMMA PublishReads == Reading /\ WatcherPublishes => Reading'
<1> SUFFICES ASSUME Reading, WatcherPublishes PROVE Reading'
  OBVIOUS
<1> QED
  BY BoundsAssumption
  DEF Reading, ReceiverTypes, Placed, Skips, WatcherPublishes, receiverVars

\* A new receiver reads from what is published next.
LEMMA SubscribeReads ==
  ASSUME Reading, NEW r \in Receiver, diagnostic_events(r), Usable
  PROVE  Reading'
<1> USE DEF Reading, ReceiverTypes, diagnostic_events
<1>1. ReceiverTypes'
  OBVIOUS
<1>2. ASSUME NEW q \in Receiver, q # r PROVE (Placed(q) /\ Skips(q))'
  BY <1>2 DEF Placed, Skips
<1>3. yielded[r] = {} /\ missed[r] = {} /\ yielded'[r] = {} /\ missed'[r] = {}
  BY DEF Placed
<1>4. (Placed(r) /\ Skips(r))'
  BY <1>3 DEF Placed, Skips
<1> QED
  BY <1>1, <1>2, <1>4

\* A step that leaves the broadcast and the receivers alone.
LEMMA QuietReads ==
  ASSUME Reading, Subscribed, UNCHANGED <<events, receiverVars>>
  PROVE  Reading' /\ Subscribed'
BY DEF Reading, Subscribed, ReceiverTypes, Placed, Skips, receiverVars

\* A step of the client, or of a receiver.
LEMMA ReadingNext ==
  Reading /\ Subscribed /\ [Next]_vars => Reading' /\ Subscribed'
<1> SUFFICES ASSUME Reading, Subscribed, [Next]_vars PROVE Reading' /\ Subscribed'
  OBVIOUS
<1>1. CASE WatcherPublishes
  BY <1>1, PublishReads DEF Subscribed, WatcherPublishes, receiverVars
<1>2. ASSUME NEW r \in Receiver, diagnostic_events(r) PROVE Reading' /\ Subscribed'
  <2>1. CASE Usable
    <3>1. Subscribed'
      BY <1>2, <2>1 DEF Subscribed, diagnostic_events, Reading, ReceiverTypes
    <3> QED
      BY <1>2, <2>1, <3>1, SubscribeReads
  <2>2. CASE ~Usable
    BY <1>2, <2>2, QuietReads DEF diagnostic_events, receiverVars
  <2> QED
    BY <2>1, <2>2
<1>3. ASSUME NEW r \in Receiver, next(r) PROVE Reading' /\ Subscribed'
  <2> rx[r] # 0 /\ UNCHANGED events /\ (iterating' = r \/ UNCHANGED iterating)
    BY <1>3 DEF next
  <2>1. CASE Yield(r)
    <3>1. Subscribed'
      BY <2>1 DEF Subscribed, Yield, Reading, ReceiverTypes
    <3> QED
      BY <2>1, <3>1, YieldReads
  <2>2. CASE Lag(r)
    <3>1. Subscribed'
      BY <2>2, BoundsAssumption
      DEF Subscribed, Lag, Lagging, Unread, Oldest, Reading, ReceiverTypes
    <3> QED
      BY <2>2, <3>1, LagReads
  <2>3. CASE UNCHANGED receiverVars
    BY <2>3, QuietReads
  <2> QED
    BY <1>3, <2>1, <2>2, <2>3 DEF next, receiverVars
<1>4. ASSUME NEW r \in Receiver, next_again(r) PROVE Reading' /\ Subscribed'
  <2> rx[r] # 0 /\ UNCHANGED events
    BY <1>4 DEF next_again, Subscribed
  <2>1. Subscribed'
    BY <1>4, ReceiverAssumption DEF Subscribed, next_again
  <2> QED
    BY <1>4, <2>1, YieldReads, LagReads DEF next_again
<1>5. ASSUME NEW account, connect(account) PROVE UNCHANGED <<events, receiverVars>>
  BY <1>5 DEF connect
<1>6. ASSUME NEW m \in Method, with_client(m) PROVE UNCHANGED <<events, receiverVars>>
  BY <1>6 DEF with_client
<1>7. CASE \/ ConnectionLost \/ WatcherEnds \/ request \/ order_updates
           \/ reconnect_ok \/ reconnect_fails \/ disconnect \/ DropObject
           \/ UNCHANGED vars
  BY <1>7, QuietReads
  DEF ConnectionLost, WatcherEnds, request, order_updates, reconnect_ok,
      reconnect_fails, disconnect, DropObject, vars
<1> QED
  BY <1>1, <1>2, <1>3, <1>4, <1>5, <1>6, <1>7, QuietReads DEF Next

-----------------------------------------------------------------------------
\* A connection that is up has an owner, whatever failed or panicked.
THEOREM ConnectionsOwned == Spec => []NoOrphanConnection
<1>1. Init => Owned
  BY DEF Init, Owned, NoOrphanConnection
<1>2. Owned => NoOrphanConnection
  BY DEF Owned
<1> QED
  BY <1>1, <1>2, OwnedNext, PTL DEF Spec

\* A receiver skips only what the broadcast has overwritten, and hands out the
\* rest in order, once.
THEOREM ReceiversSkipRightly == Spec => []SkipsOnlyOverwritten
<1>1. Init => Reading /\ Subscribed
  BY ReceiverAssumption
  DEF Init, Reading, Subscribed, ReceiverTypes, Placed, Skips
<1>2. Reading => SkipsOnlyOverwritten
  BY DEF Reading, Skips, SkipsOnlyOverwritten
<1> QED
  BY <1>1, <1>2, ReadingNext, PTL DEF Spec

-----------------------------------------------------------------------------
(* The command line, which receives from the same broadcast.               *)

\* What the watcher of the command's client publishes.
CliEvent == {DiagnosticEvent(Version, code, "Paper") : code \in Codes}

\* What was collected is what was published from the subscription on, and the
\* receiver looks for the event after it.
Heard ==
  /\ sent \in Seq(CliEvent) /\ collected \in Seq(CliEvent)
  /\ subscribed \in Nat /\ cursor \in Nat
  /\ subscribed + Len(collected) <= Len(sent)
  /\ \A i \in DOMAIN collected : collected[i] = sent[subscribed + i]
  /\ pc \in {"parse", "connect", "subscribe"} => collected = <<>>
  /\ pc \in {"deadline", "collect"} => cursor = subscribed + Len(collected) + 1

\* Collecting stopped at the deadline, or at an event that had been overwritten.
Stopped ==
  pc \in {"disconnect", "report"} \/ report # <<>> =>
    expired \/ Len(sent) - DiagnosticBuffer > subscribed + Len(collected)

\* A report is made once, of all that was collected.
Told ==
  report # <<>> =>
    /\ pc = "exited"
    /\ report = IF command.json THEN print_json_report(collected)
                                ELSE print_text_report(collected)

CliInv == Heard /\ Stopped /\ Told

LEMMA CliTypes ==
  ASSUME Heard
  PROVE  /\ Len(sent) \in Nat /\ DOMAIN sent = 1 .. Len(sent)
         /\ Len(collected) \in Nat /\ DOMAIN collected = 1 .. Len(collected)
         /\ \A i \in DOMAIN collected :
              subscribed + i \in DOMAIN sent /\ collected[i] = sent[subscribed + i]
<1>1. Len(sent) \in Nat /\ DOMAIN sent = 1 .. Len(sent)
  BY DEF Heard
<1>2. Len(collected) \in Nat /\ DOMAIN collected = 1 .. Len(collected)
  BY DEF Heard
<1>3. /\ subscribed \in Nat /\ subscribed + Len(collected) <= Len(sent)
      /\ \A i \in DOMAIN collected : collected[i] = sent[subscribed + i]
  BY DEF Heard
<1> QED
  BY ONLY <1>1, <1>2, <1>3

\* The watcher adds to what was sent, and to nothing else.
LEMMA PublishHeard ==
  ASSUME CliInv, NoticePublished
  PROVE  CliInv'
<1> USE DEF CliInv
<1>1. PICK code \in Codes : sent' = Append(sent, DiagnosticEvent(Version, code, "Paper"))
  BY DEF NoticePublished
<1>2. UNCHANGED <<command, pc, collectVars, report>>
  BY DEF NoticePublished
<1> DEFINE e == DiagnosticEvent(Version, code, "Paper")
<1>3. e \in CliEvent
  BY DEF CliEvent
<1> HIDE DEF e
<1>4. sent \in Seq(CliEvent) /\ sent' = Append(sent, e)
  BY <1>1 DEF Heard, e
<1>5. /\ sent' \in Seq(CliEvent) /\ Len(sent') = Len(sent) + 1
      /\ \A i \in DOMAIN sent : sent'[i] = sent[i]
  BY <1>3, <1>4
<1>6. Heard'
  BY <1>2, <1>5, CliTypes DEF Heard, collectVars
<1>7. Stopped'
  <2>1. pc' = pc /\ report' = report /\ expired' = expired /\ subscribed' = subscribed
        /\ collected' = collected /\ Len(sent') = Len(sent) + 1
    BY <1>2, <1>5 DEF collectVars
  <2>2. Len(sent) \in Nat /\ Len(collected) \in Nat /\ subscribed \in Nat
    BY CliTypes DEF Heard
  <2> QED
    BY <2>1, <2>2, CliAssumption DEF Stopped
<1>8. Told'
  BY <1>2 DEF Told, collectVars
<1> QED
  BY <1>6, <1>7, <1>8

\* Before it collects the command has heard nothing and said nothing.
LEMMA SetUpHeard ==
  ASSUME CliInv, main \/ cli_connect \/ subscribe \/ deadline
  PROVE  CliInv'
<1> USE DEF CliInv
<1>1. pc \in {"parse", "connect", "subscribe", "deadline"} /\ report = <<>>
  BY DEF main, cli_connect, subscribe, deadline, Told
<1>2. UNCHANGED <<sent, collected, report>>
  BY DEF main, cli_connect, subscribe, deadline, gatewayVars, collectVars
<1>3. Heard'
  <2>1. CASE main
    BY <1>2, <2>1 DEF main, Heard, collectVars, Exits
  <2>2. CASE cli_connect
    BY <1>2, <2>2 DEF cli_connect, Heard, collectVars, Exits
  <2>3. CASE subscribe
    <3>1. /\ pc' = "deadline" /\ subscribed' = Len(sent) /\ cursor' = Len(sent) + 1
          /\ collected = <<>> /\ Len(sent) \in Nat
      BY <2>3, CliTypes DEF subscribe, Heard
    <3> QED
      BY <1>2, <3>1 DEF Heard
  <2>4. CASE deadline
    BY <1>2, <2>4 DEF deadline, Heard, Exits
  <2> QED
    BY <2>1, <2>2, <2>3, <2>4
<1>4. Stopped'
  <2>1. pc' \notin {"disconnect", "report"}
    BY DEF main, cli_connect, subscribe, deadline, Exits
  <2> QED
    BY <1>1, <1>2, <2>1 DEF Stopped
<1>5. Told'
  BY <1>1, <1>2 DEF Told
<1> QED
  BY <1>3, <1>4, <1>5

\* An event is collected from where the receiver is; a lag or the deadline ends it.
LEMMA CollectHeard ==
  ASSUME CliInv, Collect
  PROVE  CliInv'
<1> USE DEF CliInv
<1>1. /\ pc = "collect" /\ cursor = subscribed + Len(collected) + 1
      /\ UNCHANGED <<command, sent, subscribed, expired, report>>
  BY DEF Collect, RecvEvent, RecvLagged, Timeout, gatewayVars,
         collectVars, Heard
<1>2. report = <<>>
  BY <1>1 DEF Told
<1>3. /\ Len(sent) \in Nat /\ DOMAIN sent = 1 .. Len(sent)
      /\ Len(collected) \in Nat /\ DOMAIN collected = 1 .. Len(collected)
      /\ subscribed \in Nat
  BY CliTypes DEF Heard
<1>4. CASE RecvEvent
  <2>1. /\ cursor <= Len(sent) /\ cursor' = cursor + 1
        /\ collected' = Append(collected, sent[cursor]) /\ pc' = pc
    BY <1>4 DEF RecvEvent
  <2>2. cursor \in DOMAIN sent /\ sent[cursor] \in CliEvent
    BY <1>1, <1>3, <2>1 DEF Heard
  <2>3. /\ collected' \in Seq(CliEvent) /\ Len(collected') = Len(collected) + 1
        /\ DOMAIN collected' = 1 .. Len(collected) + 1
        /\ \A i \in DOMAIN collected : collected'[i] = collected[i]
        /\ collected'[Len(collected) + 1] = sent[cursor]
    BY <2>1, <2>2 DEF Heard
  <2>4. \A i \in DOMAIN collected' : collected'[i] = sent[subscribed + i]
    <3>1. \A i \in DOMAIN collected' : i \in DOMAIN collected \/ i = Len(collected) + 1
      BY <1>3, <2>3
    <3>2. \A i \in DOMAIN collected : collected[i] = sent[subscribed + i]
      BY DEF Heard
    <3>3. subscribed + (Len(collected) + 1) = cursor
      BY <1>1, <1>3
    <3> QED
      BY <2>3, <3>1, <3>2, <3>3
  <2>5. /\ subscribed + Len(collected') <= Len(sent)
        /\ cursor' = subscribed + Len(collected') + 1 /\ cursor' \in Nat
    BY <1>1, <1>3, <2>1, <2>3
  <2>6. Heard'
    BY <1>1, <2>1, <2>3, <2>4, <2>5 DEF Heard
  <2> QED
    BY <1>1, <1>2, <2>1, <2>6 DEF Stopped, Told
<1>5. CASE RecvLagged
  <2>1. /\ Len(sent) - cursor + 1 > DiagnosticBuffer /\ cursor' = Len(sent) - DiagnosticBuffer + 1
        /\ pc' = "disconnect" /\ collected' = collected
    BY <1>5 DEF RecvLagged, Overwritten
  <2>2. Len(sent) - DiagnosticBuffer > subscribed + Len(collected) /\ cursor' \in Nat
    BY <1>1, <1>3, <2>1, CliAssumption
  <2>3. Heard'
    BY <1>1, <2>1, <2>2 DEF Heard
  <2> QED
    BY <1>1, <1>2, <2>1, <2>2, <2>3 DEF Stopped, Told
<1>6. CASE Timeout
  <2>1. expired /\ pc' = "disconnect" /\ UNCHANGED collectVars
    BY <1>6 DEF Timeout
  <2>2. Heard'
    BY <1>1, <2>1 DEF Heard, collectVars
  <2> QED
    BY <1>1, <1>2, <2>1, <2>2 DEF Stopped, Told, collectVars
<1> QED
  BY <1>4, <1>5, <1>6 DEF Collect

\* What ends or passes beside the command changes neither.
LEMMA RestHeard ==
  ASSUME CliInv,
         \/ GatewayLost \/ ListeningEnds \/ DeadlinePasses
         \/ cli_disconnect \/ print_report \/ UNCHANGED cliVars
  PROVE  CliInv'
<1> USE DEF CliInv
<1>1. UNCHANGED <<command, sent, subscribed, cursor, collected>>
  BY DEF GatewayLost, ListeningEnds, DeadlinePasses, cli_disconnect, print_report,
         cliVars, gatewayVars, collectVars
<1>2. \/ pc' = pc /\ (expired => expired') /\ report' = report
      \/ pc = "disconnect" /\ pc' = "report" /\ expired' = expired /\ report' = report
      \/ /\ pc = "report" /\ pc' = "exited" /\ expired' = expired
         /\ report' = IF command.json THEN print_json_report(collected)
                                      ELSE print_text_report(collected)
  BY DEF GatewayLost, ListeningEnds, DeadlinePasses, cli_disconnect, print_report,
         cliVars, gatewayVars, collectVars, Exits
<1>3. Heard'
  BY <1>1, <1>2 DEF Heard
<1>4. Stopped'
  BY <1>1, <1>2 DEF Stopped
<1>5. Told'
  <2>1. /\ print_json_report(collected)' = print_json_report(collected)
        /\ print_text_report(collected)' = print_text_report(collected)
    BY <1>1
  <2> QED
    BY <1>1, <1>2, <2>1 DEF Told
<1> QED
  BY <1>3, <1>4, <1>5

-----------------------------------------------------------------------------
\* Counting from one on.
LEMMA FirstNumbers ==
  ASSUME NEW n \in Nat
  PROVE  IsFiniteSet(1 .. n) /\ Cardinality(1 .. n) = n
<1>1. 1 \in Int /\ n \in Int
  OBVIOUS
<1>2. IsFiniteSet(1 .. n) /\ Cardinality(1 .. n) = IF 1 > n THEN 0 ELSE n - 1 + 1
  BY <1>1, FS_Interval, Zenon
<1>3. (IF 1 > n THEN 0 ELSE n - 1 + 1) = n
  OBVIOUS
<1> QED
  BY <1>2, <1>3

\* The four states of a farm share out whatever is counted by them.
LEMMA FourCounts ==
  ASSUME NEW n \in Nat, NEW f, \A i \in 1 .. n : f[i] \in FarmState
  PROVE  LET Count(state) == Cardinality({i \in 1 .. n : f[i] = state})
         IN  Count("Ok") + Count("Warning") + Count("Inactive") + Count("Unknown") = n
<1> DEFINE S(state) == {i \in 1 .. n : f[i] = state}
<1>1. IsFiniteSet(1 .. n) /\ Cardinality(1 .. n) = n
  BY FirstNumbers
<1>2. \A state \in FarmState :
        IsFiniteSet(S(state)) /\ Cardinality(S(state)) \in Nat
  <2> SUFFICES ASSUME NEW state \in FarmState
               PROVE  IsFiniteSet(S(state)) /\ Cardinality(S(state)) \in Nat
    OBVIOUS
  <2>1. S(state) \subseteq 1 .. n
    OBVIOUS
  <2> HIDE DEF S
  <2> QED
    BY <1>1, <2>1, FS_Subset, FS_CardinalityType
<1>3. /\ S("Ok") \union S("Warning") \union S("Inactive") \union S("Unknown") = 1 .. n
      /\ S("Ok") \intersect S("Warning") = {}
      /\ (S("Ok") \union S("Warning")) \intersect S("Inactive") = {}
      /\ (S("Ok") \union S("Warning") \union S("Inactive")) \intersect S("Unknown") = {}
  BY DEF FarmState
<1> HIDE DEF S
<1>4. /\ "Ok" \in FarmState /\ "Warning" \in FarmState
      /\ "Inactive" \in FarmState /\ "Unknown" \in FarmState
  BY DEF FarmState
<1>5. Cardinality({}) = 0
  BY FS_EmptySet
<1> DEFINE A == S("Ok") \union S("Warning")
           B == A \union S("Inactive")
<1>6. /\ IsFiniteSet(A)
      /\ Cardinality(A) = Cardinality(S("Ok")) + Cardinality(S("Warning"))
  <2>1. /\ IsFiniteSet(A)
        /\ Cardinality(A) = Cardinality(S("Ok")) + Cardinality(S("Warning")) - Cardinality({})
    BY <1>2, <1>3, <1>4, FS_Union
  <2> QED
    BY <1>2, <1>4, <1>5, <2>1
<1>7. /\ IsFiniteSet(B)
      /\ Cardinality(B) = Cardinality(A) + Cardinality(S("Inactive"))
  <2>1. /\ IsFiniteSet(B)
        /\ Cardinality(B) = Cardinality(A) + Cardinality(S("Inactive")) - Cardinality({})
    BY <1>2, <1>3, <1>4, <1>6, FS_Union
  <2>2. Cardinality(A) \in Nat
    BY <1>6, FS_CardinalityType
  <2> QED
    BY <1>2, <1>4, <1>5, <2>1, <2>2
<1>8. Cardinality(1 .. n) = Cardinality(B) + Cardinality(S("Unknown"))
  <2>1. B \union S("Unknown") = 1 .. n /\ B \intersect S("Unknown") = {}
    BY <1>3
  <2>3. IsFiniteSet(B) /\ IsFiniteSet(S("Unknown"))
    BY <1>2, <1>4, <1>7
  <2> HIDE DEF B
  <2>4. Cardinality(1 .. n) = Cardinality(B) + Cardinality(S("Unknown")) - Cardinality({})
    BY <2>1, <2>3, FS_Union
  <2>2. Cardinality(B) \in Nat
    BY <1>7, FS_CardinalityType
  <2> QED
    BY <1>2, <1>4, <1>5, <2>2, <2>4
<1>9. Cardinality(S("Ok")) + Cardinality(S("Warning")) + Cardinality(S("Inactive"))
        + Cardinality(S("Unknown")) = n
  BY <1>1, <1>2, <1>4, <1>6, <1>7, <1>8
<1> QED
  BY <1>9 DEF S

\* The labels of the text and of JSON tell the four states apart.
LEMMA LabelsTellApart ==
  ASSUME NEW event, event.farm_status \in FarmState
  PROVE  /\ FarmLabel(event.farm_status) = "OK"       <=> event.farm_status = "Ok"
         /\ FarmLabel(event.farm_status) = "Warning"  <=> event.farm_status = "Warning"
         /\ FarmLabel(event.farm_status) = "Inactive" <=> event.farm_status = "Inactive"
         /\ FarmLabel(event.farm_status) = "Unknown"  <=> event.farm_status = "Unknown"
         /\ JsonFarm(event) = <<"ok">>       <=> event.farm_status = "Ok"
         /\ JsonFarm(event) = <<"warning">>  <=> event.farm_status = "Warning"
         /\ JsonFarm(event) = <<"inactive">> <=> event.farm_status = "Inactive"
         /\ JsonFarm(event) = <<"unknown">>  <=> event.farm_status = "Unknown"
<1> DEFINE state == event.farm_status
           word  == FarmText(state, event.error_code)[1]
<1>1. \A x, y : <<x>> = <<y>> <=> x = y
  OBVIOUS
<1>2. /\ state = "Ok"       => word = "ok"
      /\ state = "Warning"  => word = "warning"
      /\ state = "Inactive" => word = "inactive"
      /\ state = "Unknown"  => word = "unknown"
  BY DEF FarmText
<1>3. JsonFarm(event) = <<word>>
  BY DEF JsonFarm
<1> HIDE DEF state, word
<1>4. /\ <<word>> = <<"ok">>       <=> state = "Ok"
      /\ <<word>> = <<"warning">>  <=> state = "Warning"
      /\ <<word>> = <<"inactive">> <=> state = "Inactive"
      /\ <<word>> = <<"unknown">>  <=> state = "Unknown"
  BY <1>1, <1>2 DEF FarmState, state
<1>5. /\ FarmLabel(state) = "OK"       <=> state = "Ok"
      /\ FarmLabel(state) = "Warning"  <=> state = "Warning"
      /\ FarmLabel(state) = "Inactive" <=> state = "Inactive"
      /\ FarmLabel(state) = "Unknown"  <=> state = "Unknown"
  BY DEF FarmLabel, FarmState, state
<1> QED
  BY <1>3, <1>4, <1>5 DEF state

\* What a report counts, in its own words, is what the gateway sent.
LEMMA HonestCounts ==
  ASSUME Heard, Told, report # <<>>
  PROVE  CountsAddUp
<1> DEFINE n    == Len(collected)
           last == subscribed + n
           P(state) == {i \in 1 .. n : collected[i].farm_status = state}
           Q(state) == {i \in subscribed + 1 .. last :
                          classify_farm(sent[i].error_code) = state}
<1>1. n \in Nat /\ DOMAIN collected = 1 .. n /\ subscribed \in Nat
  BY CliTypes DEF Heard
<1>2. \A i \in 1 .. n :
        /\ collected[i].error_code = sent[subscribed + i].error_code
        /\ collected[i].farm_status = classify_farm(sent[subscribed + i].error_code)
        /\ collected[i].farm_status \in FarmState
  <2> SUFFICES ASSUME NEW i \in 1 .. n
               PROVE  /\ collected[i].error_code = sent[subscribed + i].error_code
                      /\ collected[i].farm_status = classify_farm(sent[subscribed + i].error_code)
                      /\ collected[i].farm_status \in FarmState
    OBVIOUS
  <2>1. collected[i] = sent[subscribed + i] /\ collected[i] \in CliEvent
    BY <1>1, CliTypes DEF Heard
  <2>2. PICK code \in Codes : collected[i] = DiagnosticEvent(Version, code, "Paper")
    BY <2>1 DEF CliEvent
  <2>3. collected[i].error_code = code /\ collected[i].farm_status = classify_farm(code)
    BY <2>2 DEF DiagnosticEvent
  <2>4. classify_farm(code) \in FarmState
    BY DEF classify_farm, FarmState
  <2> QED
    BY <2>1, <2>3, <2>4
<1>3. \A state : Sent(subscribed + 1, last, state) = Cardinality(P(state))
  <2> SUFFICES ASSUME NEW state PROVE Cardinality(Q(state)) = Cardinality(P(state))
    BY DEF Sent
  <2> DEFINE f == [i \in P(state) |-> subscribed + i]
  <2>1. IsFiniteSet(P(state))
    BY <1>1, FirstNumbers, FS_Subset
  <2>2. \A i \in 1 .. n : i \in P(state) <=> subscribed + i \in Q(state)
    BY <1>1, <1>2
  <2>3. f \in [P(state) -> Q(state)]
    BY <2>2
  <2>4. \A i, j \in P(state) : f[i] = f[j] => i = j
    BY <1>1
  <2>5. \A j \in Q(state) : \E i \in P(state) : f[i] = j
    <3> SUFFICES ASSUME NEW j \in Q(state) PROVE \E i \in P(state) : f[i] = j
      OBVIOUS
    <3>1. j - subscribed \in 1 .. n /\ subscribed + (j - subscribed) = j
      BY <1>1
    <3>2. j - subscribed \in P(state)
      BY <2>2, <3>1
    <3> QED
      BY <3>1, <3>2
  <2> HIDE DEF P, Q, f
  <2>6. f \in Bijection(P(state), Q(state))
    BY <2>3, <2>4, <2>5 DEF Bijection, Injection, Surjection, IsInjective
  <2> QED
    BY <2>1, <2>6, FS_Bijection DEF ExistsBijection
<1>4. Cardinality(P("Ok")) + Cardinality(P("Warning")) + Cardinality(P("Inactive"))
        + Cardinality(P("Unknown")) = n
  <2> DEFINE f == [i \in 1 .. n |-> collected[i].farm_status]
  <2>1. \A i \in 1 .. n : f[i] \in FarmState
    BY <1>2
  <2>2. \A state : {i \in 1 .. n : f[i] = state} = P(state)
    OBVIOUS
  <2> HIDE DEF f, n, P
  <2> QED
    BY <1>1, <2>1, <2>2, FourCounts
<1>5. CASE command.json
  <2>1. report = print_json_report(collected)
    BY <1>5 DEF Told
  <2>3. /\ {i \in 1 .. n : JsonFarm(collected[i]) = <<"ok">>} = P("Ok")
        /\ {i \in 1 .. n : JsonFarm(collected[i]) = <<"warning">>} = P("Warning")
        /\ {i \in 1 .. n : JsonFarm(collected[i]) = <<"inactive">>} = P("Inactive")
        /\ {i \in 1 .. n : JsonFarm(collected[i]) = <<"unknown">>} = P("Unknown")
    BY <1>2, LabelsTellApart
  <2>4. report.total = n
    BY <2>1 DEF print_json_report
  <2>5. report.counts = [label \in {"ok", "warning", "inactive", "unknown"} |->
                           Cardinality({i \in 1 .. n : JsonFarm(collected[i]) = <<label>>})]
    BY <1>1, <2>1 DEF print_json_report, Having
  <2>6. /\ report.counts["ok"] = Cardinality(P("Ok"))
        /\ report.counts["warning"] = Cardinality(P("Warning"))
        /\ report.counts["inactive"] = Cardinality(P("Inactive"))
        /\ report.counts["unknown"] = Cardinality(P("Unknown"))
    BY <2>3, <2>5
  <2>7. \A i \in DOMAIN report.rows :
          report.rows[i].error_code = sent[subscribed + i].error_code
    BY <1>1, <1>2, <2>1 DEF print_json_report
  <2> HIDE DEF P, n
  <2> QED
    BY <1>3, <1>4, <1>5, <2>4, <2>6, <2>7 DEF CountsAddUp, n
<1>6. CASE ~command.json
  <2>1. report = print_text_report(collected)
    BY <1>6 DEF Told
  <2>2. report.total = n
    BY <2>1 DEF print_text_report
  <2>3. /\ {i \in 1 .. n : FarmLabel(collected[i].farm_status) = "OK"} = P("Ok")
        /\ {i \in 1 .. n : FarmLabel(collected[i].farm_status) = "Warning"} = P("Warning")
        /\ {i \in 1 .. n : FarmLabel(collected[i].farm_status) = "Inactive"} = P("Inactive")
        /\ {i \in 1 .. n : FarmLabel(collected[i].farm_status) = "Unknown"} = P("Unknown")
    BY <1>2, LabelsTellApart
  <2>4. report.counts = [label \in {"OK", "Warning", "Inactive", "Unknown"} |->
                           Cardinality({i \in 1 .. n : FarmLabel(collected[i].farm_status) = label})]
    BY <1>1, <2>1 DEF print_text_report, Having
  <2>5. /\ report.counts["OK"] = Cardinality(P("Ok"))
        /\ report.counts["Warning"] = Cardinality(P("Warning"))
        /\ report.counts["Inactive"] = Cardinality(P("Inactive"))
        /\ report.counts["Unknown"] = Cardinality(P("Unknown"))
    BY <2>3, <2>4
  <2>6. report.rows = <<>>
    BY <2>1 DEF print_text_report
  <2> HIDE DEF P, n
  <2> QED
    BY <1>3, <1>4, <1>6, <2>2, <2>5, <2>6 DEF CountsAddUp, n
<1> QED
  BY <1>5, <1>6

\* The report of `ibkr-diag diagnose` is what the gateway said while it listened.
THEOREM ReportCorrect == CliSpec => []ReportIsHonest
<1>1. CliInit => CliInv
  BY DEF CliInit, CliInv, Heard, Stopped, Told
<1>2. CliInv /\ [CliNext]_cliVars => CliInv'
  BY PublishHeard, SetUpHeard, CollectHeard, RestHeard DEF CliNext, Command
<1>3. CliInv => ReportIsHonest
  <2> SUFFICES ASSUME CliInv PROVE ReportIsHonest
    OBVIOUS
  <2>1. NoGap
    BY DEF CliInv, Heard, Stopped, NoGap
  <2>2. CountsAddUp
    BY HonestCounts DEF CliInv, CountsAddUp
  <2> QED
    BY <2>1, <2>2 DEF ReportIsHonest
<1> QED
  BY <1>1, <1>2, <1>3, PTL DEF CliSpec

-----------------------------------------------------------------------------
(* The command comes to its end, under CliFairSpec and the invariant       *)
(* CommandNeverStuck, which TLC checks: TLAPS does not evaluate ENABLED.   *)

\* The command goes through its phases in order and comes back to none.
LEMMA PhaseOrder ==
  ASSUME Command
  PROVE  \/ pc = "parse" /\ pc' \in {"connect", "exited"}
         \/ pc = "connect" /\ pc' \in {"subscribe", "exited"}
         \/ pc = "subscribe" /\ pc' = "deadline"
         \/ pc = "deadline" /\ pc' \in {"collect", "exited"}
         \/ pc = "collect" /\ pc' \in {"collect", "disconnect"} /\ expired' = expired
         \/ pc = "disconnect" /\ pc' = "report"
         \/ pc = "report" /\ pc' = "exited"
<1> USE DEF gatewayVars, collectVars
<1>1. CASE main \/ cli_connect \/ subscribe \/ deadline \/ cli_disconnect \/ print_report
  BY <1>1 DEF main, cli_connect, subscribe, deadline, cli_disconnect, print_report, Exits
<1>2. CASE Collect
  BY <1>2 DEF Collect, RecvEvent, RecvLagged, Timeout
<1> QED
  BY <1>1, <1>2 DEF Command

\* Nothing else moves the command, or takes its deadline back.
LEMMA OthersWait ==
  ASSUME [CliNext]_cliVars, ~Command
  PROVE  pc' = pc /\ (pc = "collect" /\ expired => expired')
BY DEF CliNext, NoticePublished, GatewayLost, ListeningEnds, DeadlinePasses, cliVars,
       gatewayVars, collectVars

\* The deadline has passed and the command still collects.
CollectsOn == pc = "collect" /\ expired

\* diagnose exits, or is for ever given events to collect after its deadline has
\* passed: no other part of it can hang.
THEOREM OnlyCollectingLasts ==
  CliFairSpec /\ []CommandNeverStuck => <>(pc = "exited") \/ <>[]CollectsOn
<1> DEFINE At(p) == pc = p
<1>1. [CliNext]_cliVars =>
        /\ At("parse") => At("parse")' \/ At("connect")' \/ At("exited")'
        /\ At("connect") => At("connect")' \/ At("subscribe")' \/ At("exited")'
        /\ At("subscribe") => At("subscribe")' \/ At("deadline")'
        /\ At("deadline") => At("deadline")' \/ At("collect")' \/ At("exited")'
        /\ At("collect") => At("collect")' \/ At("disconnect")'
        /\ At("disconnect") => At("disconnect")' \/ At("report")'
        /\ At("report") => At("report")' \/ At("exited")'
        /\ CollectsOn => CollectsOn' \/ At("disconnect")'
  BY PhaseOrder, OthersWait DEF CollectsOn
<1>2. <<Command>>_cliVars =>
        /\ At("parse") => ~At("parse")'
        /\ At("connect") => ~At("connect")'
        /\ At("subscribe") => ~At("subscribe")'
        /\ At("deadline") => ~At("deadline")'
        /\ At("disconnect") => ~At("disconnect")'
        /\ At("report") => ~At("report")'
  BY PhaseOrder
<1>3. At("collect") /\ <<DeadlinePasses>>_cliVars => CollectsOn'
  BY DEF DeadlinePasses, CollectsOn, gatewayVars
<1>4. CommandNeverStuck =>
        /\ At("parse") \/ At("connect") \/ At("subscribe") \/ At("deadline")
             \/ At("disconnect") \/ At("report") => ENABLED <<Command>>_cliVars
        /\ At("collect") /\ ~CollectsOn => ENABLED <<DeadlinePasses>>_cliVars
  BY DEF CommandNeverStuck, CollectsOn
<1>5. CliInit => At("parse")
  BY DEF CliInit
<1>6. CollectsOn => At("collect")
  BY DEF CollectsOn
<1> HIDE DEF At
<1>7. CliFairSpec /\ []CommandNeverStuck => <>At("exited") \/ <>[]CollectsOn
  BY <1>1, <1>2, <1>3, <1>4, <1>5, <1>6, PTL DEF CliFairSpec, CliSpec
<1> QED
  BY <1>7 DEF At
=============================================================================
