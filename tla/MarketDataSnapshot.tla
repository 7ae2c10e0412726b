-------------------------- MODULE MarketDataSnapshot --------------------------
(***************************************************************************)
(* One call of IbClient::stock_snapshot or option_snapshot_from_contract   *)
(* (src/src/client.rs): up to three attempts, each a subscription whose    *)
(* ticks and errors are collected until the snapshot is usable, the stream *)
(* ends or a deadline passes, with a back-off after each.                  *)
(*                                                                         *)
(* A price is its sign: 0 is the default, -1 IB's no-data sentinel.  An    *)
(* option computation is the tick it comes on and what it says of implied  *)
(* volatility and delta, the two values the code decides on: not there, 0  *)
(* or something else (Absent, 0, 1).                                       *)
(***************************************************************************)
EXTENDS IbErrors

CONSTANTS
  StreamErrors  \* the ibapi errors a subscription or its stream may report

Attempts == 3
Prices   == -1 .. 1
Absent   == -1
Side     == {"bid", "ask", "last", "close", "other"}
Field    == {"bid", "ask", "last", "model", "other"}

PriceTick(form, side, price) ==
  [type |-> form, side |-> side, price |-> price]
Computation(field, iv, delta) ==
  [type |-> "OptionComputation", field |-> field, iv |-> iv, delta |-> delta]

Tick ==
  {PriceTick(f, s, p) : f \in {"Price", "PriceSize"}, s \in Side, p \in Prices}
    \union {Computation(f, iv, d) : f \in Field, iv \in {Absent, 0, 1}, d \in {Absent, 0, 1}}
    \union {[type |-> "Other"]}

NoGreeks == [iv |-> 0, delta |-> 0, from |-> "nothing"]

\* A computation that says something and that the code sources greeks from.
HasGreeks(tick) ==
  {tick.iv, tick.delta} # {Absent} /\ tick.field \in {"bid", "ask", "last", "model"}

VARIABLES
  asset,       \* "stock" or "option"
  pc,          \* "subscribe", "collect", "backoff" or "returned"
  attempt,     \* the attempts begun
  prices,      \* bid, ask, last and close of this attempt's snapshot
  greeks,      \* its implied volatility and delta, and the tick they came on
  greek_rank,  \* the rank of that tick
  saw_tick,    \* a tick has arrived, in this attempt and in any
  last_error,  \* the last stream error, of this attempt and of all
  result,      \* what the call returned
  heard        \* history: what the gateway has sent (see Heard)

vars == <<asset, pc, attempt, prices, greeks, greek_rank, saw_tick, last_error,
          result, heard>>

NoError == "none"

\* tick, error, priced: any tick, the last error, and whether an attempt was given
\* up with a price in hand, of the whole call; real: the ticks that brought real
\* greeks in this attempt.
Heard == [tick : BOOLEAN, error : IbErrorKind \union {NoError}, priced : BOOLEAN,
          real : SUBSET Field]

Init ==
  /\ asset \in {"stock", "option"}
  /\ pc = "subscribe"
  /\ attempt = 1
  /\ prices = [s \in Side \ {"other"} |-> 0]
  /\ greeks = NoGreeks
  /\ greek_rank = 0
  /\ saw_tick = [now |-> FALSE, ever |-> FALSE]
  /\ last_error = [now |-> NoError, ever |-> NoError]
  /\ result = "none"
  /\ heard = [tick |-> FALSE, error |-> NoError, priced |-> FALSE, real |-> {}]

-----------------------------------------------------------------------------
(* Faulty variants, for the mutation runs.                                 *)

\* Issue 27, second fix: a placeholder locks its rank.
Placeholder_Never(tick) == FALSE

\* Issue 24: an option with a price is returned without its greeks.
is_zero_priced_PriceOnly(p, g) ==
  IF asset = "stock" THEN p["bid"] <= 0 /\ p["ask"] <= 0 /\ p["last"] <= 0
                     ELSE p["bid"] <= 0 /\ p["ask"] <= 0

-----------------------------------------------------------------------------
(* The pure parts.                                                         *)

\* The index of a computation tick in the order of trust, 0 to ignore it.
option_computation_rank(field) ==
  CASE field = "model"          -> 3
    [] field = "last"           -> 2
    [] field \in {"bid", "ask"} -> 1
    [] OTHER                    -> 0

Placeholder(tick) == tick.iv = Absent /\ tick.delta = Absent

Outranked(rank) == rank < greek_rank

\* apply_option_computation goes on past its early returns.
Applied(tick) ==
  /\ asset = "option"
  /\ tick.type = "OptionComputation"
  /\ option_computation_rank(tick.field) > 0
  /\ ~Placeholder(tick)
  /\ ~Outranked(option_computation_rank(tick.field))

unwrap_or_0(value) == IF value = Absent THEN 0 ELSE value

option_snapshot_complete(p, g) ==
  (p["bid"] > 0 \/ p["ask"] > 0) /\ (g.iv > 0 \/ g.delta # 0)

\* The prices after a tick.  For an option a close stands in for the last.
SetPrice(p, tick) ==
  LET side == IF asset = "option" /\ tick.side = "close" THEN "last" ELSE tick.side
  IN  IF tick.side \in DOMAIN p /\ ~(tick.type = "PriceSize" /\ tick.side = "close")
      THEN [p EXCEPT ![side] = tick.price]
      ELSE p

\* The collector stops as soon as this holds.
Complete(p, g) ==
  IF asset = "stock" THEN p["last"] > 0 \/ (p["bid"] > 0 /\ p["ask"] > 0)
                     ELSE option_snapshot_complete(p, g)

is_zero_priced(p, g) ==
  IF asset = "stock" THEN p["bid"] <= 0 /\ p["ask"] <= 0 /\ p["last"] <= 0
                     ELSE ~option_snapshot_complete(p, g)

snapshot_failure_error(saw, err) ==
  IF err # NoError THEN err
  ELSE IF saw THEN "CompetingSession" ELSE "Timeout"

-----------------------------------------------------------------------------
\* A price a caller could use, and the history of the attempts given up.
Priced  == \E s \in {"bid", "ask", "last"} : prices[s] > 0
GivenUp == heard' = [heard EXCEPT !.priced = @ \/ Priced]

Return(value) == pc' = "returned" /\ result' = value

\* subscribe failed: the call returns at once, whatever went before.
SubscribeFails ==
  /\ pc = "subscribe"
  /\ \E e \in StreamErrors :
       /\ Return(market_data_error(e).kind)
       /\ heard' = [heard EXCEPT !.error = market_data_error(e).kind]
  /\ UNCHANGED <<asset, attempt, prices, greeks, greek_rank, saw_tick, last_error>>

Subscribe ==
  /\ pc = "subscribe"
  /\ pc' = "collect"
  /\ prices' = [s \in DOMAIN prices |-> 0]
  /\ greeks' = NoGreeks
  /\ greek_rank' = 0
  /\ saw_tick' = [saw_tick EXCEPT !.now = FALSE]
  /\ last_error' = [last_error EXCEPT !.now = NoError]
  /\ heard' = [heard EXCEPT !.real = {}]
  /\ UNCHANGED <<asset, attempt, result>>

\* The attempt is over: return a usable snapshot, or remember what went wrong
\* and back off.
Conclude(p, g, saw, err) ==
  IF ~is_zero_priced(p, g)
  THEN /\ Return("Ok")
       /\ saw_tick' = [saw_tick EXCEPT !.now = saw]
       /\ last_error' = [last_error EXCEPT !.now = err]
  ELSE /\ pc' = "backoff"
       /\ saw_tick' = [now |-> saw, ever |-> saw_tick.ever \/ saw]
       /\ last_error' = [now |-> err, ever |-> IF err # NoError THEN err ELSE last_error.ever]
       /\ UNCHANGED result

\* Go on collecting, or conclude when the snapshot is complete.
Collected(p, g, saw, err) ==
  IF Complete(p, g)
  THEN Conclude(p, g, saw, err)
  ELSE /\ saw_tick' = [saw_tick EXCEPT !.now = saw]
       /\ last_error' = [last_error EXCEPT !.now = err]
       /\ UNCHANGED <<pc, result>>

CollectTick(tick) ==
  /\ pc = "collect"
  /\ prices' = IF tick.type \in {"Price", "PriceSize"} THEN SetPrice(prices, tick) ELSE prices
  /\ IF Applied(tick)
     THEN /\ greek_rank' = option_computation_rank(tick.field)
          /\ greeks' = [iv |-> unwrap_or_0(tick.iv), delta |-> unwrap_or_0(tick.delta),
                        from |-> tick.field]
     ELSE UNCHANGED <<greeks, greek_rank>>
  /\ heard' = [heard EXCEPT
       !.tick = TRUE,
       !.real = IF tick.type = "OptionComputation" /\ HasGreeks(tick)
                THEN @ \union {tick.field} ELSE @]
  /\ Collected(prices', greeks', TRUE, last_error.now)
  /\ UNCHANGED <<asset, attempt>>

\* An error does not end the attempt.
CollectError(error) ==
  /\ pc = "collect"
  /\ heard' = [heard EXCEPT !.error = FromIbapi(error).kind]
  /\ Collected(prices, greeks, saw_tick.now, FromIbapi(error).kind)
  /\ UNCHANGED <<asset, attempt, prices, greeks, greek_rank>>

\* The deadline races with the stream: select picks either when both are ready.
CollectEnds ==
  /\ pc = "collect"
  /\ Conclude(prices, greeks, saw_tick.now, last_error.now)
  /\ UNCHANGED <<asset, attempt, prices, greeks, greek_rank, heard>>

\* Faulty: the attempts are not counted.
BackoffEnds_Forever ==
  /\ pc = "backoff"
  /\ pc' = "subscribe"
  /\ UNCHANGED <<asset, attempt, prices, greeks, greek_rank, saw_tick, last_error,
                 result, heard>>

\* Faulty: only the last attempt decides the error.
BackoffEnds_LastAttempt ==
  /\ pc = "backoff"
  /\ IF attempt < Attempts
     THEN /\ pc' = "subscribe"
          /\ attempt' = attempt + 1
          /\ UNCHANGED result
     ELSE /\ Return(snapshot_failure_error(saw_tick.now, last_error.now))
          /\ UNCHANGED attempt
  /\ GivenUp
  /\ UNCHANGED <<asset, prices, greeks, greek_rank, saw_tick, last_error>>

\* The back-off comes after the last attempt too.
BackoffEnds ==
  /\ pc = "backoff"
  /\ IF attempt < Attempts
     THEN /\ pc' = "subscribe"
          /\ attempt' = attempt + 1
          /\ UNCHANGED result
     ELSE /\ Return(snapshot_failure_error(saw_tick.ever, last_error.ever))
          /\ UNCHANGED attempt
  /\ GivenUp
  /\ UNCHANGED <<asset, prices, greeks, greek_rank, saw_tick, last_error>>

Next ==
  \/ SubscribeFails \/ Subscribe \/ CollectEnds \/ BackoffEnds
  \/ \E tick \in Tick : CollectTick(tick)
  \/ \E error \in StreamErrors : CollectError(error)

Spec == Init /\ [][Next]_vars

\* Timers fire and ibapi answers a subscription; the gateway may be silent, or
\* send ticks for ever that never make the snapshot usable.
FairSpec ==
  Spec /\ WF_vars(Subscribe \/ SubscribeFails) /\ WF_vars(CollectEnds) /\ WF_vars(BackoffEnds)

-----------------------------------------------------------------------------
(* Properties.                                                             *)

\* The type of the state.  Greeks and their rank go together.
TypeOK ==
  /\ asset \in {"stock", "option"}
  /\ pc \in {"subscribe", "collect", "backoff", "returned"}
  /\ attempt \in 1 .. Attempts
  /\ prices \in [Side \ {"other"} -> Prices]
  /\ greeks \in [iv : 0 .. 1, delta : 0 .. 1, from : Field \union {"nothing"}]
  /\ greek_rank = option_computation_rank(greeks.from)
  /\ saw_tick \in [now : BOOLEAN, ever : BOOLEAN]
  /\ last_error \in [now : IbErrorKind \union {NoError}, ever : IbErrorKind \union {NoError}]
  /\ result \in {"none", "Ok"} \union IbErrorKind
  /\ heard \in Heard
  /\ (pc = "returned") <=> (result # "none")

\* The greeks are those of the best computation that came in this attempt, in
\* whatever order model, last, bid and ask ticks and their placeholders arrive:
\* a placeholder neither locks out a real value nor stands in for one
\* (client.rs:1252-1267, issue 27).
BestGreeksWin ==
  asset = "option" =>
    IF heard.real = {} THEN greeks = NoGreeks
    ELSE /\ greeks.from \in heard.real
         /\ \A f \in heard.real :
              option_computation_rank(f) <= option_computation_rank(greeks.from)

\* What the call calls a success the caller can use (issue 24): an option has a
\* price and greeks that a tick of the same attempt brought.  And nothing usable
\* is retried away.
SuccessIsUsable ==
  /\ result = "Ok" /\ asset = "option" =>
       /\ heard.real # {}
       /\ \E s \in {"bid", "ask"} : prices[s] > 0
  /\ result = "Ok" /\ asset = "stock" => \E s \in {"bid", "ask", "last"} : prices[s] > 0
  /\ pc = "backoff" => ~Complete(prices, greeks)

\* An error says what the whole call met, not only its last attempt
\* (client.rs:1137-1146, issue 27): the last error of all attempts if there was
\* any, and only then; Timeout only if nothing came at all; CompetingSession for
\* a stock only if ticks came and no attempt was given up with a price in hand
\* (client.rs:644-646).  The same is written of options (client.rs:813-815,
\* CHANGELOG.md:27-28) and is not so: an option with prices and no greeks is given
\* up with CompetingSession, too, which tells there no more than that ticks came.
FailureIsTruthful ==
  result \notin {"none", "Ok"} =>
    IF heard.error # NoError THEN result = heard.error
    ELSE /\ result \in {"CompetingSession", "Timeout"}
         /\ result = "CompetingSession" <=> heard.tick
         /\ result = "CompetingSession" /\ asset = "stock" => ~heard.priced

\* No await of a call outlives its time: the request is answered or refused, the
\* collection ends at its deadline, the back-off after its delay.
CallNeverStuck ==
  /\ pc = "subscribe" => ENABLED <<Subscribe \/ SubscribeFails>>_vars
  /\ pc = "collect"   => ENABLED <<CollectEnds>>_vars
  /\ pc = "backoff"   => ENABLED <<BackoffEnds>>_vars

\* Both calls return, whatever the gateway sends or does not send.
SnapshotReturns == [](CallNeverStuck /\ <>(pc = "returned"))
=============================================================================
