------------------------------ MODULE IbErrors ------------------------------
(***************************************************************************)
(* The error and notice classifiers of ibcore: src/src/errors.rs,          *)
(* src/src/diagnostics.rs, and the helpers of client.rs and orders.rs that *)
(* are built on them.  Pure functions; the text of a message is left out,  *)
(* but whether the call-site context was put into it is kept (ctx).        *)
(***************************************************************************)
EXTENDS Integers

IoKind == {"ConnectionReset", "ConnectionRefused", "BrokenPipe", "TimedOut",
           "Unreachable"}

\* ibapi::Error, as far as ibcore looks into it.
Notice(code)       == [type |-> "Notice", code |-> code]
Io(kind)           == [type |-> "Io", kind |-> kind]
Transport(variant) == [type |-> variant]  \* ConnectionFailed, ConnectionReset, Shutdown
Unclassifiable     == [type |-> "Unclassifiable"]

IbErrorKind == {"ConnectionFailed", "ConnectionReset", "MarketData",
                "OrderRejected", "FarmDisconnect", "ContractResolution",
                "CompetingSession", "Timeout", "Other"}

\* An IbError: its variant, its code (0 when it has none), and whether its
\* message names the call site.
IbError(kind, code) == [kind |-> kind, code |-> code, ctx |-> FALSE]

HasMessage(err) == err.kind \notin {"ConnectionReset", "CompetingSession"}

-----------------------------------------------------------------------------
(* Faulty variants, for the mutation runs.                                 *)

notice_is_warn_FarmInactiveBenign(code) ==
  code \notin {1102, 2100, 2104, 2106, 2107, 2137, 2158}

\* Issue 20: every submission failure was a rejection.
order_submit_error_AlwaysRejected(err) ==
  [kind |-> "OrderRejected",
   code |-> IF err.type = "Notice" THEN err.code ELSE 0, ctx |-> TRUE]

\* Issue 20: every error in the stream was a rejection.
outcome_for_stream_error_AlwaysRejected(err) == "Rejected"

-----------------------------------------------------------------------------
(* The arms of the match are tried in order, so 10197 is not MarketData.   *)
classify_notice(code) ==
  CASE code = 10197                      -> IbError("CompetingSession", 0)
    [] code \in (10000 .. 10999) \ {10197} -> IbError("MarketData", code)
    [] code = 2107                       -> IbError("FarmDisconnect", code)
    [] code \in 200 .. 299               -> IbError("OrderRejected", code)
    [] code \in {502, 504, 506}          -> IbError("ConnectionFailed", 0)
    [] code \in {507, 100}               -> IbError("ConnectionReset", 0)
    [] OTHER                             -> IbError("Other", 0)

\* Prefix the message with the call site, where the variant has a message.
with_context(err) == [kind |-> err.kind, code |-> err.code, ctx |-> HasMessage(err)]

FromIo(kind) ==
  CASE kind \in {"ConnectionReset", "ConnectionRefused", "BrokenPipe"}
                        -> IbError("ConnectionReset", 0)
    [] kind = "TimedOut" -> IbError("Timeout", 0)
    [] OTHER             -> IbError("ConnectionFailed", 0)

FromIbapi(err) ==
  CASE err.type = "ConnectionFailed" -> IbError("ConnectionFailed", 0)
    [] err.type \in {"ConnectionReset", "Shutdown"} -> IbError("ConnectionReset", 0)
    [] err.type = "Notice"           -> classify_notice(err.code)
    [] err.type = "Io"               -> FromIo(err.kind)
    [] OTHER                         -> IbError("Other", 0)

is_connection_dead(err) == err.kind \in {"ConnectionReset", "ConnectionFailed"}

-----------------------------------------------------------------------------
(* client.rs                                                               *)

\* The benign allowlist: everything else is logged at WARN.
notice_is_warn(code) == code \notin {1102, 2100, 2104, 2106, 2137, 2158}

market_data_error(err) ==
  LET classified == FromIbapi(err)
  IN  IF classified.kind = "Other"
      THEN [kind |-> "MarketData", code |-> 0, ctx |-> TRUE]
      ELSE with_context(classified)

(* diagnostics.rs                                                          *)
classify_farm(code) ==
  CASE code \in {2104, 2106} -> "Ok"
    [] code \in {2105, 2108} -> "Warning"
    [] code = 2107           -> "Inactive"
    [] OTHER                 -> "Unknown"

(* orders.rs                                                               *)
order_rejected_from(err) ==
  [kind |-> "OrderRejected",
   code |-> IF err.type = "Notice" THEN err.code ELSE 0,
   ctx  |-> TRUE]

order_submit_error(err) ==
  IF err.type = "Notice" /\ ~is_connection_dead(classify_notice(err.code))
  THEN order_rejected_from(err)
  ELSE with_context(FromIbapi(err))

outcome_for_stream_error(err) ==
  IF err.kind = "OrderRejected" THEN "Rejected" ELSE "Pending"
=============================================================================
