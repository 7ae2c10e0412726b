--------------------------- MODULE DiagnosticEvents ---------------------------
(***************************************************************************)
(* A diagnostic event and the forms it is shown in: the event the notice   *)
(* watcher broadcasts (src/src/client.rs, src/src/diagnostics.rs), the     *)
(* payload POSTed to the remote endpoint (src/src/remote.rs), the Python   *)
(* object and its constants (src/python/src/lib.rs).                       *)
(*                                                                         *)
(* A text is the sequence of its parts: "unknown(504)" is <<"unknown",     *)
(* 504>>.  The message, the operating system and the times are left out.   *)
(***************************************************************************)
EXTENDS IbErrors, Sequences

FarmState       == {"Ok", "Warning", "Inactive", "Unknown"}
ConnectionState == {"Connected", "Disconnected", "Reconnecting"}
AccountType     == {"Live", "Paper"}

\* What the watcher makes of a notice; it knows one connection state only.
DiagnosticEvent(version, code, account) ==
  [gateway_version  |-> version,
   error_code       |-> code,
   farm_status      |-> classify_farm(code),
   connection_state |-> "Connected",
   account_type     |-> account]

-----------------------------------------------------------------------------
(* impl Display.                                                           *)

\* FarmState::Unknown carries the code it was made from.
FarmText(state, code) ==
  CASE state = "Ok"       -> <<"ok">>
    [] state = "Warning"  -> <<"warning">>
    [] state = "Inactive" -> <<"inactive">>
    [] state = "Unknown"  -> <<"unknown", code>>

ConnectionText(state) ==
  CASE state = "Connected"    -> <<"connected">>
    [] state = "Disconnected" -> <<"disconnected">>
    [] state = "Reconnecting" -> <<"reconnecting">>

AccountText(account) ==
  CASE account = "Live"  -> <<"live">>
    [] account = "Paper" -> <<"paper">>

-----------------------------------------------------------------------------
(* On the wire, where serde writes the names of the variants.              *)

WireFarm(event) ==
  IF event.farm_status = "Unknown" THEN <<"Unknown", event.error_code>>
                                   ELSE <<event.farm_status>>

DiagnosticEventPayload(event) ==
  [error_code      |-> event.error_code,
   farm_status     |-> WireFarm(event),
   gateway_version |-> event.gateway_version]

SessionFingerprint(version, account) ==
  [gateway_version |-> version, account_type |-> account]

DiagnosticBatch(session, events) ==
  [session |-> session,
   events  |-> [i \in DOMAIN events |-> DiagnosticEventPayload(events[i])]]

-----------------------------------------------------------------------------
(* In Python.                                                              *)

PyFarmState       == {<<"ok">>, <<"warning">>, <<"inactive">>}
PyConnectionState == {<<"connected">>, <<"disconnected">>, <<"reconnecting">>}
PyAccountType     == {<<"live">>, <<"paper">>}

\* FarmState.from_code and FarmState.unknown.
from_code(code) == FarmText(classify_farm(code), code)
unknown(code)   == <<"unknown", code>>

PyDiagnosticEvent(event) ==
  [gateway_version  |-> event.gateway_version,
   error_code       |-> event.error_code,
   farm_status      |-> FarmText(event.farm_status, event.error_code),
   connection_state |-> ConnectionText(event.connection_state),
   account_type     |-> AccountText(event.account_type)]

\* The account type a Python caller names when it connects, if it is one.
parse_account_type(text) ==
  CASE text = <<"live">>  -> <<"Live">>
    [] text = <<"paper">> -> <<"Paper">>
    [] OTHER              -> <<>>
=============================================================================
