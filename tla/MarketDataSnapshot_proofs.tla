----------------------- MODULE MarketDataSnapshot_proofs -----------------------
(***************************************************************************)
(* The safety invariants of MarketDataSnapshot, for any set of errors that *)
(* ibapi may report, and that a call returns.                              *)
(*                                                                         *)
(* FailureIsTruthful speaks of the answer only; Remembered says what makes *)
(* it true: at every step the call remembers, in its two memories, what it *)
(* has met so far, and that no attempt at a stock is given up with a price *)
(* in hand.  SuccessIsUsable follows from BestGreeksWin.                   *)
(***************************************************************************)
EXTENDS MarketDataSnapshot, TLAPS

\* What was met so far is in the memory of the call, or of the attempt, and a
\* stock whose attempts failed had no price.
Remembered ==
  /\ asset = "stock" => ~heard.priced /\ (pc = "backoff" => ~Priced)
  /\ pc \in {"subscribe", "backoff"} =>
       heard.error = last_error.ever /\ heard.tick = saw_tick.ever
  /\ pc = "collect" =>
       /\ heard.error = IF last_error.now # NoError THEN last_error.now ELSE last_error.ever
       /\ heard.tick = (saw_tick.now \/ saw_tick.ever)

Safety == BestGreeksWin /\ SuccessIsUsable /\ FailureIsTruthful /\ Remembered

IInv == TypeOK /\ Safety

-----------------------------------------------------------------------------
\* Every ibapi error becomes one of the kinds of errors.
LEMMA KindsOfErrors ==
  ASSUME NEW e
  PROVE  /\ FromIbapi(e).kind \in IbErrorKind
         /\ market_data_error(e).kind \in IbErrorKind
         /\ NoError \notin IbErrorKind /\ "Ok" \notin IbErrorKind /\ "none" \notin IbErrorKind
<1>1. \A code : classify_notice(code).kind \in IbErrorKind
  BY DEF classify_notice, IbError, IbErrorKind
<1>2. \A kind : FromIo(kind).kind \in IbErrorKind
  BY DEF FromIo, IbError, IbErrorKind
<1>3. FromIbapi(e).kind \in IbErrorKind
  BY <1>1, <1>2 DEF FromIbapi, IbError, IbErrorKind
<1>4. market_data_error(e).kind \in IbErrorKind
  BY <1>3 DEF market_data_error, with_context, IbErrorKind
<1> QED
  BY <1>3, <1>4 DEF NoError, IbErrorKind

\* The initial states satisfy the invariant.
LEMMA InitInv == Init => IInv
<1> SUFFICES ASSUME Init PROVE IInv
  OBVIOUS
<1>1. TypeOK
  BY DEF Init, TypeOK, Attempts, Prices, NoGreeks, Heard, NoError, Field, IbErrorKind,
         option_computation_rank
<1>2. Safety
  BY DEF Init, Safety, BestGreeksWin, SuccessIsUsable, FailureIsTruthful, Remembered
<1> QED
  BY <1>1, <1>2 DEF IInv

-----------------------------------------------------------------------------
\* Prices stay prices.
LEMMA PricesTyped ==
  ASSUME TypeOK, NEW tick \in Tick, tick.type \in {"Price", "PriceSize"}
  PROVE  SetPrice(prices, tick) \in [Side \ {"other"} -> Prices]
<1>1. tick.price \in Prices /\ tick.side \in Side
  BY DEF Tick, PriceTick, Computation
<1> QED
  BY <1>1 DEF TypeOK, SetPrice, Side

\* The greeks a computation brings, if it is applied.
LEMMA GreeksTyped ==
  ASSUME TypeOK, NEW tick \in Tick, Applied(tick)
  PROVE  /\ [iv |-> unwrap_or_0(tick.iv), delta |-> unwrap_or_0(tick.delta),
             from |-> tick.field]
              \in [iv : 0 .. 1, delta : 0 .. 1, from : Field \union {"nothing"}]
         /\ tick.field \in {"bid", "ask", "last", "model"}
         /\ HasGreeks(tick)
<1>1. /\ tick.iv \in {Absent, 0, 1} /\ tick.delta \in {Absent, 0, 1}
      /\ tick.field \in Field
  BY DEF Tick, PriceTick, Computation, Applied
<1>2. tick.field \in {"bid", "ask", "last", "model"}
  BY <1>1 DEF Applied, option_computation_rank
<1>3. HasGreeks(tick)
  BY <1>1, <1>2 DEF Applied, Placeholder, HasGreeks
<1> QED
  BY <1>1, <1>2, <1>3 DEF unwrap_or_0, Absent, Field

-----------------------------------------------------------------------------
(* The end of an attempt, and a step that may be the end.                  *)

Prices4 == [Side \ {"other"} -> Prices]
Greeks3 == [iv : 0 .. 1, delta : 0 .. 1, from : Field \union {"nothing"}]
Errors  == IbErrorKind \union {NoError}

\* What has been collected when an attempt is to be concluded, or goes on.
Gathered(saw, err) ==
  /\ UNCHANGED <<asset, attempt>>
  /\ prices' \in Prices4 /\ greeks' \in Greeks3 /\ heard' \in Heard
  /\ greek_rank' = option_computation_rank(greeks'.from)
  /\ saw \in BOOLEAN /\ err \in Errors
  /\ BestGreeksWin'
  /\ heard'.error = IF err # NoError THEN err ELSE last_error.ever
  /\ heard'.tick = (saw \/ saw_tick.ever)
  /\ heard'.priced = heard.priced

\* Greeks that are not zero have come on a tick of this attempt.
LEMMA CompleteIsUsable ==
  ASSUME NEW p \in Prices4, NEW g \in Greeks3, ~is_zero_priced(p, g)
  PROVE  /\ asset = "option" => g # NoGreeks /\ \E s \in {"bid", "ask"} : p[s] > 0
         /\ asset = "stock" => \E s \in {"bid", "ask", "last"} : p[s] > 0
<1>1. \A s \in {"bid", "ask", "last"} : p[s] \in -1 .. 1
  BY DEF Prices4, Prices, Side
<1>2. CASE asset = "stock"
  BY <1>1, <1>2 DEF is_zero_priced
<1>3. CASE asset # "stock"
  <2>1. option_snapshot_complete(p, g)
    BY <1>3 DEF is_zero_priced
  <2>2. g # NoGreeks
    BY <2>1 DEF option_snapshot_complete, NoGreeks
  <2> QED
    BY <1>3, <2>1, <2>2 DEF option_snapshot_complete
<1> QED
  BY <1>2, <1>3

\* What the retry gate throws away the collector would not have kept either.
LEMMA GatesAgree ==
  ASSUME asset \in {"stock", "option"}, NEW p \in Prices4, NEW g, is_zero_priced(p, g)
  PROVE  ~Complete(p, g)
<1>1. \A s \in {"bid", "ask", "last"} : p[s] \in -1 .. 1
  BY DEF Prices4, Prices, Side
<1> QED
  BY <1>1 DEF is_zero_priced, Complete

\* An attempt that is over leaves its memory to the call, or answers from it.
LEMMA ConcludeKeeps ==
  ASSUME IInv, pc = "collect", NEW saw, NEW err, Gathered(saw, err),
         Conclude(prices', greeks', saw, err)
  PROVE  IInv'
<1> USE DEF IInv
<1>0. /\ prices' \in Prices4 /\ greeks' \in Greeks3 /\ heard' \in Heard
      /\ greek_rank' = option_computation_rank(greeks'.from)
      /\ saw \in BOOLEAN /\ err \in Errors /\ BestGreeksWin'
      /\ heard'.error = (IF err # NoError THEN err ELSE last_error.ever)
      /\ heard'.tick = (saw \/ saw_tick.ever)
      /\ heard'.priced = heard.priced
      /\ asset' = asset /\ attempt' = attempt
  BY DEF Gathered
<1>1. CASE ~is_zero_priced(prices', greeks')
  <2>1. /\ pc' = "returned" /\ result' = "Ok"
        /\ saw_tick' = [saw_tick EXCEPT !.now = saw]
        /\ last_error' = [last_error EXCEPT !.now = err]
    BY <1>1 DEF Conclude, Return
  <2>2. TypeOK'
    BY <1>0, <2>1 DEF TypeOK, Prices4, Greeks3, Errors
  <2>3. SuccessIsUsable'
    BY <1>0, <1>1, <2>1, CompleteIsUsable DEF SuccessIsUsable, BestGreeksWin
  <2>4. FailureIsTruthful' /\ Remembered'
    BY <1>0, <2>1 DEF FailureIsTruthful, Safety, Remembered
  <2> QED
    BY <1>0, <2>2, <2>3, <2>4 DEF Safety
<1>2. CASE is_zero_priced(prices', greeks')
  <2>1. /\ pc' = "backoff" /\ result' = result
        /\ saw_tick' = [now |-> saw, ever |-> saw_tick.ever \/ saw]
        /\ last_error' = [now |-> err, ever |-> IF err # NoError THEN err ELSE last_error.ever]
    BY <1>2 DEF Conclude
  <2>2. result' = "none" /\ last_error.ever \in Errors /\ saw_tick.ever \in BOOLEAN
    BY <2>1 DEF TypeOK, Errors
  <2>3. TypeOK'
    BY <1>0, <2>1, <2>2 DEF TypeOK, Prices4, Greeks3, Errors
  <2>4. SuccessIsUsable'
    <3>1. ~Complete(prices', greeks')
      BY <1>0, <1>2, GatesAgree DEF TypeOK
    <3> QED
      BY <1>0, <2>2, <3>1 DEF SuccessIsUsable, Complete
  <2>5. FailureIsTruthful'
    BY <2>2 DEF FailureIsTruthful
  <2>6. Remembered'
    <3>1. asset = "stock" => ~Priced'
      <4>1. \A s \in {"bid", "ask", "last"} : prices'[s] \in -1 .. 1
        BY <1>0 DEF Prices4, Prices, Side
      <4> QED
        BY <1>2, <4>1 DEF is_zero_priced, Priced
    <3> QED
      BY <1>0, <2>1, <2>2, <3>1 DEF Safety, Remembered
  <2> QED
    BY <1>0, <2>3, <2>4, <2>5, <2>6 DEF Safety
<1> QED
  BY <1>1, <1>2

\* What a tick or an error adds to the attempt.
LEMMA CollectedKeeps ==
  ASSUME IInv, pc = "collect", NEW saw, NEW err, Gathered(saw, err),
         Collected(prices', greeks', saw, err)
  PROVE  IInv'
<1>1. CASE Complete(prices', greeks')
  BY <1>1, ConcludeKeeps DEF Collected
<1>2. CASE ~Complete(prices', greeks')
  <2>1. /\ pc' = "collect" /\ result' = result
        /\ saw_tick' = [saw_tick EXCEPT !.now = saw]
        /\ last_error' = [last_error EXCEPT !.now = err]
    BY <1>2 DEF Collected
  <2>2. result' = "none"
    BY <2>1 DEF IInv, TypeOK
  <2>3. TypeOK'
    BY <2>1, <2>2 DEF IInv, TypeOK, Gathered, Prices4, Greeks3, Errors
  <2>4. SuccessIsUsable' /\ FailureIsTruthful'
    BY <2>1, <2>2 DEF SuccessIsUsable, FailureIsTruthful
  <2>5. saw_tick'.now = saw /\ saw_tick'.ever = saw_tick.ever
        /\ last_error'.now = err /\ last_error'.ever = last_error.ever
    BY <2>1 DEF IInv, TypeOK
  <2>6. Remembered'
    BY <2>1, <2>5 DEF IInv, Safety, Remembered, Gathered
  <2> QED
    BY <2>3, <2>4, <2>6 DEF IInv, Safety, Gathered
<1> QED
  BY <1>1, <1>2

-----------------------------------------------------------------------------
\* The best greeks so far are still the best with a tick more.
LEMMA TickGathers ==
  ASSUME IInv, NEW tick \in Tick, CollectTick(tick)
  PROVE  Gathered(TRUE, last_error.now)
<1> USE DEF IInv, TypeOK
<1>1. prices' \in Prices4
  BY PricesTyped DEF CollectTick, Prices4
<1>2. /\ heard' \in Heard /\ heard'.tick = TRUE /\ heard'.error = heard.error
      /\ heard'.priced = heard.priced
  <2>1. tick.type = "OptionComputation" => tick.field \in Field
    BY DEF Tick, PriceTick, Computation
  <2> QED
    BY <2>1 DEF CollectTick, Heard
<1>3. greeks' \in Greeks3 /\ greek_rank' = option_computation_rank(greeks'.from)
  BY GreeksTyped DEF CollectTick, Greeks3
<1>4. heard'.error = IF last_error.now # NoError THEN last_error.now ELSE last_error.ever
  BY <1>2 DEF CollectTick, Safety, Remembered
<1>5. BestGreeksWin'
  <2> SUFFICES ASSUME asset = "option"
               PROVE  IF heard'.real = {} THEN greeks' = NoGreeks
                      ELSE /\ greeks'.from \in heard'.real
                           /\ \A f \in heard'.real :
                                option_computation_rank(f)
                                  <= option_computation_rank(greeks'.from)
    BY DEF BestGreeksWin, CollectTick
  <2>0. \A f : option_computation_rank(f) \in 0 .. 3
    BY DEF option_computation_rank
  <2>1. CASE Applied(tick)
    <3>1. /\ greeks'.from = tick.field
          /\ heard'.real = heard.real \union {tick.field}
          /\ greek_rank <= option_computation_rank(tick.field)
      BY <2>0, <2>1, GreeksTyped DEF CollectTick, Applied, Outranked, Heard
    <3> QED
      BY <2>0, <3>1 DEF Safety, BestGreeksWin
  <2>2. CASE ~Applied(tick)
    <3>1. UNCHANGED greeks
      BY <2>2 DEF CollectTick
    <3>2. CASE tick.type = "OptionComputation" /\ HasGreeks(tick)
      <4>1. ~Placeholder(tick) /\ option_computation_rank(tick.field) > 0
        BY <3>2 DEF HasGreeks, Placeholder, option_computation_rank
      <4>2. option_computation_rank(tick.field) < greek_rank
        BY <2>2, <3>2, <4>1 DEF Applied, Outranked
      <4>3. heard'.real = heard.real \union {tick.field}
        BY <3>2 DEF CollectTick, Heard
      <4>4. greeks # NoGreeks
        BY <2>0, <4>2 DEF NoGreeks, option_computation_rank
      <4> QED
        BY <2>0, <3>1, <4>2, <4>3, <4>4 DEF Safety, BestGreeksWin
    <3>3. CASE ~(tick.type = "OptionComputation" /\ HasGreeks(tick))
      <4>1. heard'.real = heard.real
        BY <3>3 DEF CollectTick, Heard
      <4> QED
        BY <3>1, <4>1 DEF Safety, BestGreeksWin
    <3> QED
      BY <3>2, <3>3
  <2> QED
    BY <2>1, <2>2
<1> QED
  BY <1>1, <1>2, <1>3, <1>4, <1>5 DEF Gathered, CollectTick, Errors

\* Every step keeps the invariant.
LEMMA InvNext == IInv /\ [Next]_vars => IInv'
<1> SUFFICES ASSUME IInv, [Next]_vars PROVE IInv'
  OBVIOUS
<1>1. ASSUME NEW tick \in Tick, CollectTick(tick) PROVE IInv'
  BY <1>1, TickGathers, CollectedKeeps DEF CollectTick
<1>2. ASSUME NEW error \in StreamErrors, CollectError(error) PROVE IInv'
  <2> DEFINE kind == FromIbapi(error).kind
  <2>1. kind \in IbErrorKind /\ kind # NoError
    BY KindsOfErrors
  <2>2. heard' \in Heard /\ heard'.error = kind /\ heard'.tick = heard.tick
        /\ heard'.real = heard.real /\ heard'.priced = heard.priced
    BY <1>2, <2>1 DEF CollectError, IInv, TypeOK, Heard
  <2>3. BestGreeksWin'
    BY <1>2, <2>2 DEF CollectError, IInv, Safety, BestGreeksWin
  <2>4. Gathered(saw_tick.now, kind)
    BY <1>2, <2>1, <2>2, <2>3
    DEF CollectError, IInv, TypeOK, Safety, Remembered, Gathered, Prices4, Greeks3, Errors
  <2> QED
    BY <1>2, <2>4, CollectedKeeps DEF CollectError
<1>3. CASE CollectEnds
  <2>1. Gathered(saw_tick.now, last_error.now)
    BY <1>3 DEF CollectEnds, IInv, TypeOK, Safety, Remembered, BestGreeksWin, Gathered,
                Prices4, Greeks3, Errors
  <2> QED
    BY <1>3, <2>1, ConcludeKeeps DEF CollectEnds
<1>4. CASE SubscribeFails
  <2>1. PICK e \in StreamErrors :
          /\ pc' = "returned" /\ result' = market_data_error(e).kind
          /\ heard' = [heard EXCEPT !.error = market_data_error(e).kind]
    BY <1>4 DEF SubscribeFails, Return
  <2>2. market_data_error(e).kind \in IbErrorKind
        /\ NoError \notin IbErrorKind /\ "Ok" \notin IbErrorKind /\ "none" \notin IbErrorKind
    BY KindsOfErrors
  <2>3. heard' \in Heard /\ heard'.error = result' /\ heard'.real = heard.real
        /\ heard'.priced = heard.priced
    BY <2>1, <2>2 DEF IInv, TypeOK, Heard
  <2>4. TypeOK'
    BY <1>4, <2>1, <2>2, <2>3 DEF SubscribeFails, IInv, TypeOK
  <2> QED
    BY <1>4, <2>1, <2>2, <2>3, <2>4
    DEF SubscribeFails, IInv, Safety, BestGreeksWin, SuccessIsUsable, FailureIsTruthful,
        Remembered
<1>5. CASE Subscribe
  <2>1. TypeOK'
    <3>1. prices' \in Prices4 /\ greek_rank' = option_computation_rank(greeks'.from)
      BY <1>5 DEF Subscribe, IInv, TypeOK, Prices4, Prices, NoGreeks, option_computation_rank
    <3>2. greeks' \in Greeks3
      BY <1>5 DEF Subscribe, NoGreeks, Greeks3
    <3>3. heard' \in Heard
      BY <1>5 DEF Subscribe, IInv, TypeOK, Heard
    <3>4. last_error' \in [now : Errors, ever : Errors]
          /\ saw_tick' \in [now : BOOLEAN, ever : BOOLEAN]
      BY <1>5 DEF Subscribe, IInv, TypeOK, Errors
    <3> QED
      BY <1>5, <3>1, <3>2, <3>3, <3>4
      DEF Subscribe, IInv, TypeOK, Prices4, Greeks3, Errors
  <2>2. heard'.real = {} /\ heard'.error = heard.error /\ heard'.tick = heard.tick
        /\ heard'.priced = heard.priced /\ asset' = asset
        /\ last_error'.now = NoError /\ last_error'.ever = last_error.ever
        /\ saw_tick'.now = FALSE /\ saw_tick'.ever = saw_tick.ever
    BY <1>5 DEF Subscribe, IInv, TypeOK, Heard
  <2>3. result' = "none" /\ pc' = "collect" /\ greeks' = NoGreeks
    BY <1>5 DEF Subscribe, IInv, TypeOK
  <2>4. Remembered'
    <3>1. heard.error = last_error.ever /\ heard.tick = saw_tick.ever
          /\ saw_tick.ever \in BOOLEAN
      BY <1>5 DEF Subscribe, IInv, TypeOK, Safety, Remembered
    <3>2. heard'.tick = (saw_tick'.now \/ saw_tick'.ever)
      BY <2>2, <3>1
    <3> QED
      BY <2>2, <2>3, <3>1, <3>2 DEF IInv, Safety, Remembered
  <2> QED
    BY <2>1, <2>2, <2>3, <2>4
    DEF IInv, Safety, BestGreeksWin, SuccessIsUsable, FailureIsTruthful
<1>6. CASE BackoffEnds
  <2>0. /\ heard' \in Heard /\ heard'.tick = heard.tick /\ heard'.error = heard.error
        /\ heard'.real = heard.real
        /\ asset = "stock" => ~heard'.priced
    BY <1>6 DEF BackoffEnds, GivenUp, IInv, TypeOK, Heard, Safety, Remembered
  <2>1. CASE attempt < Attempts
    <3>1. pc' = "subscribe" /\ attempt' = attempt + 1 /\ result' = "none"
      BY <1>6, <2>1 DEF BackoffEnds, IInv, TypeOK
    <3>2. TypeOK'
      BY <1>6, <2>0, <2>1, <3>1 DEF BackoffEnds, IInv, TypeOK, Attempts
    <3> QED
      BY <1>6, <2>0, <3>1, <3>2
      DEF BackoffEnds, IInv, Safety, BestGreeksWin, SuccessIsUsable, FailureIsTruthful,
          Remembered
  <2>2. CASE ~(attempt < Attempts)
    <3>1. pc' = "returned" /\ attempt' = attempt
          /\ result' = snapshot_failure_error(heard.tick, heard.error)
      BY <1>6, <2>2 DEF BackoffEnds, Return, IInv, Safety, Remembered
    <3>2. result' \in IbErrorKind
      BY <3>1 DEF snapshot_failure_error, IInv, TypeOK, Heard, IbErrorKind
    <3>3. "Ok" \notin IbErrorKind /\ "none" \notin IbErrorKind
      BY KindsOfErrors
    <3>4. TypeOK'
      BY <1>6, <2>0, <3>1, <3>2, <3>3 DEF BackoffEnds, IInv, TypeOK
    <3>5. FailureIsTruthful'
      BY <1>6, <2>0, <3>1 DEF BackoffEnds, FailureIsTruthful, snapshot_failure_error
    <3> QED
      BY <1>6, <2>0, <3>1, <3>2, <3>3, <3>4, <3>5
      DEF BackoffEnds, IInv, Safety, BestGreeksWin, SuccessIsUsable, Remembered
  <2> QED
    BY <2>1, <2>2
<1>7. CASE UNCHANGED vars
  BY <1>7 DEF vars, IInv, TypeOK, Safety, BestGreeksWin, SuccessIsUsable,
              FailureIsTruthful, Remembered, Priced, Complete, option_snapshot_complete
<1> QED
  BY <1>1, <1>2, <1>3, <1>4, <1>5, <1>6, <1>7 DEF Next

-----------------------------------------------------------------------------
\* The types hold in every behaviour; greeks and their rank go together.
THEOREM TypeCorrect == Spec => []TypeOK
<1>1. IInv => TypeOK
  BY DEF IInv
<1> QED
  BY <1>1, InitInv, InvNext, PTL DEF Spec

\* The greeks are those of the best computation that came, in whatever order
\* computations and placeholders arrive.
THEOREM GreeksCorrect == Spec => []BestGreeksWin
<1>1. IInv => BestGreeksWin
  BY DEF IInv, Safety
<1> QED
  BY <1>1, InitInv, InvNext, PTL DEF Spec

\* A snapshot that is called a success is usable, and a usable one is not
\* retried away.
THEOREM SuccessCorrect == Spec => []SuccessIsUsable
<1>1. IInv => SuccessIsUsable
  BY DEF IInv, Safety
<1> QED
  BY <1>1, InitInv, InvNext, PTL DEF Spec

\* An error tells what the whole call met, whichever attempt met it; a stock that
\* is said to have a competing session had no price when an attempt was given up.
THEOREM FailureCorrect == Spec => []FailureIsTruthful
<1>1. IInv => FailureIsTruthful
  BY DEF IInv, Safety
<1> QED
  BY <1>1, InitInv, InvNext, PTL DEF Spec

-----------------------------------------------------------------------------
(* Liveness, under FairSpec and the invariant CallNeverStuck, which TLC    *)
(* checks: TLAPS does not evaluate ENABLED.                                *)

\* Where a call is, in attempt n.
At(p, n)  == pc = p /\ attempt = n
Before(n) == pc # "returned" /\ attempt = n
Later(n)  == pc # "returned" /\ attempt = n + 1 /\ n < Attempts

AttemptOver(n) == Before(n) ~> (pc = "returned" \/ Later(n))

\* An attempt subscribes, collects and backs off, in this order, and then the
\* next one begins.
LEMMA AttemptSteps ==
  ASSUME TypeOK, [Next]_vars
  PROVE  \/ pc' = pc /\ attempt' = attempt
         \/ pc = "subscribe" /\ pc' = "collect" /\ attempt' = attempt
         \/ pc = "collect" /\ pc' = "backoff" /\ attempt' = attempt
         \/ pc = "backoff" /\ pc' = "subscribe" /\ attempt < Attempts /\ attempt' = attempt + 1
         \/ pc' = "returned"
<1>1. CASE SubscribeFails \/ Subscribe \/ BackoffEnds \/ UNCHANGED vars
  BY <1>1 DEF SubscribeFails, Subscribe, BackoffEnds, vars, Return
<1>2. CASE CollectEnds
  BY <1>2 DEF CollectEnds, Conclude, Return
<1>3. ASSUME NEW tick \in Tick, CollectTick(tick)
      PROVE  /\ pc' \in {pc, "backoff", "returned"}
             /\ pc = "collect" /\ attempt' = attempt
  BY <1>3 DEF CollectTick, Collected, Conclude, Return
<1>4. ASSUME NEW error \in StreamErrors, CollectError(error)
      PROVE  /\ pc' \in {pc, "backoff", "returned"}
             /\ pc = "collect" /\ attempt' = attempt
  BY <1>4 DEF CollectError, Collected, Conclude, Return
<1> QED
  BY <1>1, <1>2, <1>3, <1>4 DEF Next

\* Every attempt is over some time, and no attempt follows the last.
LEMMA AttemptEnds ==
  ASSUME NEW n \in 1 .. Attempts
  PROVE  FairSpec /\ []CallNeverStuck => AttemptOver(n)
<1>1. At("subscribe", n) /\ TypeOK /\ [Next]_vars
        => At("subscribe", n)' \/ At("collect", n)' \/ (pc = "returned")'
  BY AttemptSteps DEF At
<1>2. At("collect", n) /\ TypeOK /\ [Next]_vars
        => At("collect", n)' \/ At("backoff", n)' \/ (pc = "returned")'
  BY AttemptSteps DEF At
<1>3. At("backoff", n) /\ TypeOK /\ [Next]_vars
        => At("backoff", n)' \/ Later(n)' \/ (pc = "returned")'
  BY AttemptSteps DEF At, TypeOK, Later, Attempts
<1>4. At("subscribe", n) /\ <<Subscribe \/ SubscribeFails>>_vars => ~At("subscribe", n)'
  BY DEF At, Subscribe, SubscribeFails, Return
<1>5. At("collect", n) /\ <<CollectEnds>>_vars => ~At("collect", n)'
  BY DEF At, CollectEnds, Conclude, Return
<1>6. At("backoff", n) /\ <<BackoffEnds>>_vars => ~At("backoff", n)'
  BY DEF At, BackoffEnds, Return
<1>7. TypeOK /\ Before(n) => At("subscribe", n) \/ At("collect", n) \/ At("backoff", n)
  BY DEF TypeOK, At, Before
<1>8. CallNeverStuck =>
        /\ At("subscribe", n) => ENABLED <<Subscribe \/ SubscribeFails>>_vars
        /\ At("collect", n) => ENABLED <<CollectEnds>>_vars
        /\ At("backoff", n) => ENABLED <<BackoffEnds>>_vars
  BY DEF CallNeverStuck, At
<1> QED
  BY <1>1, <1>2, <1>3, <1>4, <1>5, <1>6, <1>7, <1>8, TypeCorrect, PTL
  DEF FairSpec, Spec, AttemptOver

\* A snapshot call returns, after its third attempt at the latest, whatever the
\* gateway sends or keeps to itself.
THEOREM SnapshotEnds == FairSpec /\ []CallNeverStuck => SnapshotReturns
<1>1. FairSpec /\ []CallNeverStuck => AttemptOver(1) /\ AttemptOver(2) /\ AttemptOver(3)
  BY AttemptEnds DEF Attempts
<1>2. /\ Later(1) => Before(2)
      /\ Later(2) => Before(3)
      /\ ~Later(3)
  BY DEF Attempts, Later, Before
<1>3. TypeOK => pc = "returned" \/ Before(1) \/ Before(2) \/ Before(3)
  BY DEF TypeOK, Attempts, Before
<1> QED
  BY <1>1, <1>2, <1>3, TypeCorrect, PTL DEF FairSpec, SnapshotReturns, AttemptOver
=============================================================================
