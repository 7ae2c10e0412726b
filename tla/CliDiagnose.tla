----------------------------- MODULE CliDiagnose ------------------------------
(***************************************************************************)
(* The command line diagnosis (src/cli/src/main.rs): connect, subscribe,   *)
(* collect diagnostic events until a deadline, disconnect, report.         *)
(*                                                                         *)
(* The client's notice watcher runs beside it, from the connection on, and *)
(* publishes on a broadcast that keeps the last DiagnosticBuffer events.   *)
(***************************************************************************)
EXTENDS DiagnosticEvents, FiniteSets

CONSTANTS
  Codes,            \* notice codes the gateway sends
  Version,          \* the gateway's server version
  DiagnosticBuffer, \* DIAGNOSTIC_BUFFER, 1024 in the code
  MaxNotices        \* bound: events published

ASSUME CliAssumption ==
  /\ Codes \subseteq Nat
  /\ Version \in Nat
  /\ DiagnosticBuffer \in Nat \ {0}
  /\ MaxNotices \in Nat

VARIABLES
  command,    \* the arguments, <<>> before they are parsed
  pc,         \* where the main task is
  exit,       \* the status of the process, -1 while it runs
  link,       \* the client's connection: "none", "up", "lost", "closed"
  watching,   \* the client's notice watcher runs
  sent,       \* the events published so far
  subscribed, \* history: how many of them came before the subscription
  cursor,     \* the next event the receiver looks for
  expired,    \* the deadline has passed
  collected,  \* the events collected
  report      \* what was printed, <<>> before that

gatewayVars == <<link, watching, sent>>
collectVars == <<subscribed, cursor, expired, collected>>
cliVars == <<command, pc, exit, gatewayVars, collectVars, report>>

\* A duration of no seconds, of some, or of too many for the clock to add.
Duration == {"zero", "some", "overflow"}

Commands ==
  [name : {"version"}]
    \union [name : {"diagnose"}, duration : Duration, json : BOOLEAN]

CliInit ==
  /\ command = <<>>
  /\ pc = "parse"
  /\ exit = -1
  /\ link = "none" /\ watching = FALSE /\ sent = <<>>
  /\ subscribed = 0 /\ cursor = 0 /\ expired = FALSE /\ collected = <<>>
  /\ report = <<>>

-----------------------------------------------------------------------------
(* Beside the command: the watcher, the gateway and the clock.             *)

NoticePublished ==
  /\ watching
  /\ Len(sent) < MaxNotices
  /\ \E code \in Codes :
       sent' = Append(sent, DiagnosticEvent(Version, code, "Paper"))
  /\ UNCHANGED <<command, pc, exit, link, watching, collectVars, report>>

GatewayLost ==
  /\ link = "up"
  /\ link' = "lost"
  /\ UNCHANGED <<command, pc, exit, watching, sent, collectVars, report>>

\* The notice stream is over, with the connection or by itself.
ListeningEnds ==
  /\ watching
  /\ watching' = FALSE
  /\ UNCHANGED <<command, pc, exit, link, sent, collectVars, report>>

DeadlinePasses ==
  /\ pc = "collect" /\ ~expired
  /\ expired' = TRUE
  /\ UNCHANGED <<command, pc, exit, gatewayVars, subscribed, cursor, collected, report>>

-----------------------------------------------------------------------------
(* The reports: the same four counts and header, each in its own words.    *)

FarmLabel(state) == IF state = "Ok" THEN "OK" ELSE state

Having(list, Label(_), label) ==
  Cardinality({i \in DOMAIN list : Label(list[i]) = label})

\* The header is the first event's; without events there is nothing to show.
Header(list) ==
  IF list = <<>>
  THEN [gateway_version |-> 0, connection_state |-> <<"unknown">>,
        account_type |-> <<"unknown">>]
  ELSE [gateway_version  |-> list[1].gateway_version,
        connection_state |-> ConnectionText(list[1].connection_state),
        account_type     |-> AccountText(list[1].account_type)]

print_text_report(list) ==
  LET Label(event) == FarmLabel(event.farm_status)
  IN  [header |-> Header(list),
       total  |-> Len(list),
       counts |-> [label \in {"OK", "Warning", "Inactive", "Unknown"} |->
                     Having(list, Label, label)],
       rows   |-> <<>>]

\* A farm that is not known is just that here: the code has a field of its own.
JsonFarm(event) == <<FarmText(event.farm_status, event.error_code)[1]>>

print_json_report(list) ==
  [header |-> Header(list),
   total  |-> Len(list),
   counts |-> [label \in {"ok", "warning", "inactive", "unknown"} |->
                 Having(list, JsonFarm, <<label>>)],
   rows   |-> [i \in DOMAIN list |->
                [gateway_version  |-> list[i].gateway_version,
                 error_code       |-> list[i].error_code,
                 farm_status      |-> JsonFarm(list[i]),
                 connection_state |-> ConnectionText(list[i].connection_state),
                 account_type     |-> AccountText(list[i].account_type)]]]

-----------------------------------------------------------------------------
(* The command.                                                            *)

Exits(status) == pc' = "exited" /\ exit' = status

main ==
  /\ pc = "parse"
  /\ command' \in Commands
  /\ IF command'.name = "version" THEN Exits(0)
                                  ELSE pc' = "connect" /\ UNCHANGED exit
  /\ UNCHANGED <<gatewayVars, collectVars, report>>

\* The watcher is spawned in connect, before there can be a subscriber.
cli_connect ==
  /\ pc = "connect"
  /\ \/ /\ pc' = "subscribe"
        /\ link' = "up" /\ watching' = TRUE
        /\ UNCHANGED exit
     \/ Exits(1) /\ UNCHANGED <<link, watching>>
  /\ UNCHANGED <<command, sent, collectVars, report>>

subscribe ==
  /\ pc = "subscribe"
  /\ pc' = "deadline"
  /\ subscribed' = Len(sent)
  /\ cursor' = Len(sent) + 1
  /\ UNCHANGED <<command, exit, gatewayVars, expired, collected, report>>

\* Instant::now() + Duration panics on overflow, and takes the client along.
deadline ==
  /\ pc = "deadline"
  /\ IF command.duration = "overflow"
     THEN Exits(101) /\ link' = "closed" /\ watching' = FALSE /\ UNCHANGED expired
     ELSE /\ pc' = "collect"
          /\ expired' = (command.duration = "zero")
          /\ UNCHANGED <<exit, link, watching>>
  /\ UNCHANGED <<command, sent, subscribed, cursor, collected, report>>

Overwritten == Len(sent) - cursor + 1 > DiagnosticBuffer

\* Faulty: an event is thrown out with the lag, and collecting goes on.
RecvLagged_Continues ==
  /\ pc = "collect"
  /\ Overwritten
  /\ cursor' = Len(sent) - DiagnosticBuffer + 1
  /\ UNCHANGED <<command, pc, exit, gatewayVars, subscribed, expired, collected, report>>

\* Faulty: the deadline is looked at only when an event has come.
Timeout_NotAlone ==
  /\ pc = "collect" /\ expired
  /\ cursor <= Len(sent)
  /\ pc' = "disconnect"
  /\ UNCHANGED <<command, exit, gatewayVars, collectVars, report>>

\* The select of the loop takes any of its branches that is ready.
RecvEvent ==
  /\ pc = "collect"
  /\ cursor <= Len(sent) /\ ~Overwritten
  /\ collected' = Append(collected, sent[cursor])
  /\ cursor' = cursor + 1
  /\ UNCHANGED <<command, pc, exit, gatewayVars, subscribed, expired, report>>

\* The client holds a sender, so that the channel is never closed.
RecvLagged ==
  /\ pc = "collect"
  /\ Overwritten
  /\ pc' = "disconnect"
  /\ cursor' = Len(sent) - DiagnosticBuffer + 1
  /\ UNCHANGED <<command, exit, gatewayVars, subscribed, expired, collected, report>>

Timeout ==
  /\ pc = "collect" /\ expired
  /\ pc' = "disconnect"
  /\ UNCHANGED <<command, exit, gatewayVars, collectVars, report>>

cli_disconnect ==
  /\ pc = "disconnect"
  /\ pc' = "report"
  /\ link' = "closed" /\ watching' = FALSE
  /\ UNCHANGED <<command, exit, sent, collectVars, report>>

print_report ==
  /\ pc = "report"
  /\ report' = IF command.json THEN print_json_report(collected)
                               ELSE print_text_report(collected)
  /\ Exits(0)
  /\ UNCHANGED <<command, gatewayVars, collectVars>>

-----------------------------------------------------------------------------
Collect == RecvEvent \/ RecvLagged \/ Timeout

Command == main \/ cli_connect \/ subscribe \/ deadline \/ Collect \/ cli_disconnect \/ print_report

CliNext ==
  \/ NoticePublished \/ GatewayLost \/ ListeningEnds \/ DeadlinePasses
  \/ Command

CliSpec == CliInit /\ [][CliNext]_cliVars

\* The main task is run, the clock runs, and connect and disconnect return.
CliFairSpec == CliSpec /\ WF_cliVars(Command) /\ WF_cliVars(DeadlinePasses)

-----------------------------------------------------------------------------
(* Properties.                                                             *)

\* The types of the variables.
CliTypeOK ==
  /\ command \in Commands \union {<<>>}
  /\ pc \in {"parse", "connect", "subscribe", "deadline", "collect",
             "disconnect", "report", "exited"}
  /\ exit \in {-1, 0, 1, 101}
  /\ link \in {"none", "up", "lost", "closed"}
  /\ watching \in BOOLEAN /\ expired \in BOOLEAN
  /\ Len(sent) <= MaxNotices
  /\ subscribed \in 0 .. Len(sent)
  /\ cursor \in 0 .. Len(sent) + 1

\* How many of the events the gateway sent have this farm state.
Sent(first, last, state) ==
  Cardinality({i \in first .. last : classify_farm(sent[i].error_code) = state})

\* What is collected is what was published since the subscription, with no gap
\* in it, up to the deadline, or up to an event that was overwritten before it
\* was read.
NoGap ==
  /\ \A i \in DOMAIN collected : collected[i] = sent[subscribed + i]
  /\ report # <<>> /\ ~expired =>
       Len(sent) - DiagnosticBuffer > subscribed + Len(collected)

\* In the text as in JSON the counts are those of the farms of the events
\* collected and add up to their total, and every row names its event.
CountsAddUp ==
  LET last == subscribed + Len(collected)
      Count(state) == Sent(subscribed + 1, last, state)
      c == report.counts
  IN  report # <<>> =>
        /\ report.total = Len(collected)
        /\ <<Count("Ok"), Count("Warning"), Count("Inactive"), Count("Unknown")>>
             = IF command.json
               THEN <<c["ok"], c["warning"], c["inactive"], c["unknown"]>>
               ELSE <<c["OK"], c["Warning"], c["Inactive"], c["Unknown"]>>
        /\ Count("Ok") + Count("Warning") + Count("Inactive") + Count("Unknown")
             = report.total
        /\ \A i \in DOMAIN report.rows :
             report.rows[i].error_code = sent[subscribed + i].error_code

\* The report of `ibkr-diag diagnose` is what the gateway said while it listened,
\* whatever the watcher, the clock and the connection did meanwhile.
ReportIsHonest == NoGap /\ CountsAddUp

\* The command can go on until it has exited: while it collects, at the latest
\* with its deadline, which comes whatever the gateway does.
CommandNeverStuck ==
  /\ pc \notin {"collect", "exited"} => ENABLED <<Command>>_cliVars
  /\ pc = "collect" => IF expired THEN ENABLED <<Command>>_cliVars
                                ELSE ENABLED <<DeadlinePasses>>_cliVars

\* `ibkr-diag diagnose` ends, also when the gateway stays silent or goes away.
DiagnoseEnds == [](CommandNeverStuck /\ <>(pc = "exited"))
=============================================================================
