-------------------------- MODULE ContractResolution --------------------------
(***************************************************************************)
(* Contract lookups of src/src/client.rs that share the contract cache of  *)
(* one session: resolve_contract_with_exchange_fallback (for               *)
(* option_snapshot and option_strikes_for_expiry), resolve_option_conid    *)
(* and fetch_option_chain, with the chain's src/src/chain.rs.  Any number  *)
(* of them run at a time.                                                  *)
(*                                                                         *)
(* An option is <<expiry, strike, right>>; a partial contract, which asks  *)
(* for all options of an expiry, is <<expiry>>, and the stock is <<>>.     *)
(* What the gateway lists grows while its data farms come up.  Clearing    *)
(* the cache on reconnect is in ClientLifecycle.                           *)
(***************************************************************************)
EXTENDS IbErrors, Sequences, FiniteSets, SequencesExt

CONSTANTS
  Task,          \* the calls
  Option,        \* the options there are
  Wanted,        \* the options callers ask for
  Preferred,     \* the exchanges they ask for
  Listable,      \* the contracts that come to be listed, each with its exchange
  MaxListed,     \* bound: contracts listed
  Chain,         \* the chains the gateway answers with
  LookupErrors   \* the ibapi errors contract_details may end in

Exchange == {"SMART", "CBOE", "ARCA", "NASDAQ", ""}

ASSUME ExchangesAssumption == Preferred \subseteq Exchange
ASSUME BoundAssumption     == MaxListed \in Nat

Stock    == <<>>
Expiry   == {o[1] : o \in Option}
Contract == Option \union {Stock}

\* An option has an expiry, a strike and a right.
ASSUME OptionAssumption == Option \subseteq Int \X Int \X {"C", "P"}
ASSUME ChainAssumption  == \A chain \in Chain : chain.strikes \in Seq(Int)
ASSUME ListableAssumption == Wanted \subseteq Option /\ Listable \subseteq Contract \X Exchange

Query    == Wanted \union {<<e>> : e \in Expiry} \union {Stock}
Op       == {"resolve", "conid", "strikes", "chain"}

\* The contracts a call may ask for.
QueriesOf(op) ==
  CASE op = "chain"   -> {Stock}
    [] op = "strikes" -> {<<e>> : e \in Expiry}
    [] OTHER          -> Wanted

VARIABLES
  listing,  \* the contracts the gateway lists, each with its exchange
  cache,    \* contract_cache: the details stored, by key
  call,     \* each task's call
  begun     \* history: what a call found when it began, asked and met since

vars == <<listing, cache, call, begun>>

Empty    == <<>>  \* contract_details answered with an empty list
NoError  == "none"
NoAnswer == [expirations |-> <<>>, strikes |-> <<>>]

\* What the gateway lists of a query on an exchange.
Matching(query, ex) ==
  {entry \in listing : entry[2] = ex /\ IsPrefix(query, entry[1])
                       /\ (query = Stock => entry[1] = Stock)}

IdleCall == [at |-> "idle", op |-> "conid", query |-> Stock, todo |-> <<>>,
             hand |-> Empty, err |-> NoError, answer |-> NoAnswer]

Init ==
  /\ listing = {}
  /\ cache = [k \in {} |-> Empty]
  /\ call = [t \in Task |-> IdleCall]
  /\ begun = [t \in Task |-> [plan |-> <<>>, listed |-> {}, cached |-> {}, asked |-> 0, erred |-> FALSE]]

\* The exchanges a call tries, in order.
Plan(op, ex) ==
  IF op = "chain" THEN <<"SMART", "CBOE", "ARCA", "NASDAQ", "">>
  ELSE IF op \in {"resolve", "strikes"} /\ ex \notin {"", "SMART"} THEN <<ex, "">>
  ELSE <<ex>>

ChainPlan == <<"SMART", "CBOE", "">>

-----------------------------------------------------------------------------
(* Faulty variants, for the mutation runs.                                 *)

\* The key describes the contract only.
contract_cache_key_NoExchange(query, ex) == <<query, "">>

\* An empty answer is cached too (the is_empty test is missing).
Cacheable_Always(details) == TRUE

\* The strikes are taken as they come, from call and put alike.
distinct_sorted_strikes_AsTheyCome(details) == [i \in DOMAIN details |-> details[i][1][2]]

-----------------------------------------------------------------------------
(* The answers.                                                            *)

\* The elements of S in a row, all of them, each in front of those it precedes.
InRow(row, S, Precedes) ==
  /\ \A x \in S : \E i \in DOMAIN row : row[i] = x
  /\ \A i, j \in DOMAIN row : i < j => <<row[i], row[j]>> \in Precedes

InOrder(S, Precedes) ==
  CHOOSE row \in [1 .. Cardinality(S) -> S] : InRow(row, S, Precedes)

\* Distinct, ascending, positive.
distinct_sorted_strikes(details) ==
  LET strikes == {k \in {details[i][1][2] : i \in DOMAIN details} : k > 0}
  IN  InOrder(strikes, {pair \in strikes \X strikes : pair[1] < pair[2]})

\* A strike that comes twice stays twice: it is the places that are put in order.
PlacesByStrike(strikes) ==
  LET places == DOMAIN strikes
  IN  InOrder(places, {pair \in places \X places :
                         \/ strikes[pair[1]] < strikes[pair[2]]
                         \/ strikes[pair[1]] = strikes[pair[2]] /\ pair[1] < pair[2]})

\* OptionChainData::from_ib: the dates that parse, in the order they came, and
\* the strikes sorted; nothing when no date parses.
from_ib(chain) ==
  LET dates  == SelectSeq(chain.expirations, LAMBDA e : e # "unparseable")
      places == PlacesByStrike(chain.strikes)
  IN  IF dates = <<>> THEN NoAnswer
      ELSE [expirations |-> dates,
            strikes     |-> [i \in DOMAIN chain.strikes |-> chain.strikes[places[i]]]]

\* option_strikes_for_expiry enumerates the details; the others hand them on.
Answer(op, details) ==
  IF op = "strikes" THEN [NoAnswer EXCEPT !.strikes = distinct_sorted_strikes(details)]
                    ELSE NoAnswer

-----------------------------------------------------------------------------
contract_cache_key(query, ex) == <<query, ex>>

Asked(t) == Head(call[t].todo)
Key(t)   == contract_cache_key(call[t].query, Asked(t))
Hit(t)   == Key(t) \in DOMAIN cache

Cacheable(details) == details # Empty

\* The fallback keeps the last error and returns it when it found nothing; the
\* others say that the contract was not resolved, whatever the reason.
KeepsError(op)      == op \in {"resolve", "strikes"}
FinalError(op, err) == IF KeepsError(op) THEN err ELSE "ContractResolution"

\* The gateway lists one more contract.
Lists ==
  /\ \E entry \in Listable \ listing : listing' = listing \union {entry}
  /\ Cardinality(listing) < MaxListed
  /\ UNCHANGED <<cache, call, begun>>

Start(t, op, query, ex) ==
  /\ call[t].at = "idle"
  /\ LET plan == Plan(op, ex)
     IN  /\ call' = [call EXCEPT ![t] = [IdleCall EXCEPT
                       !.at = "look", !.op = op, !.query = query, !.todo = plan]]
         /\ begun' = [begun EXCEPT ![t] = [@ EXCEPT
              !.plan = plan,
              !.listed = {i \in DOMAIN plan : Matching(query, plan[i]) # {}},
              !.cached = {i \in DOMAIN plan : contract_cache_key(query, plan[i]) \in DOMAIN cache}]]
  /\ UNCHANGED <<listing, cache>>

\* Faulty: the exchange that had nothing is asked again.
Continue_SameExchange(cl, err) ==
  [cl EXCEPT !.at = "look", !.hand = Empty, !.err = err]

\* On to the next exchange; the call fails when there is none left.
Continue(cl, err) ==
  IF Len(cl.todo) > 1
  THEN [cl EXCEPT !.at = "look", !.todo = Tail(@), !.hand = Empty,
                  !.err = IF KeepsError(cl.op) THEN err ELSE NoError]
  ELSE [cl EXCEPT !.at = "failed", !.hand = Empty, !.err = FinalError(cl.op, err)]

\* fetch_option_chain goes on to ask for the chain.
Resolved(cl, details) ==
  IF cl.op = "chain"
  THEN [cl EXCEPT !.at = "request", !.todo = ChainPlan, !.hand = details, !.err = NoError]
  ELSE [cl EXCEPT !.at = "done", !.hand = details, !.err = NoError,
                  !.answer = Answer(cl.op, details)]

\* The details in hand end the search, if there are any.
Settle(t, details) ==
  /\ call' = [call EXCEPT ![t] =
       IF details = Empty
       THEN Continue(@, "ContractResolution")
       ELSE Resolved(@, details)]
  /\ begun' = [begun EXCEPT ![t].asked = Len(begun[t].plan) - Len(call[t].todo) + 1]

\* The cache is locked for the look only.
LookHits(t) ==
  /\ call[t].at = "look"
  /\ Hit(t)
  /\ Settle(t, cache[Key(t)])
  /\ UNCHANGED <<listing, cache>>

LookMisses(t) ==
  /\ call[t].at = "look"
  /\ ~Hit(t)
  /\ call' = [call EXCEPT ![t].at = "fetch"]
  /\ UNCHANGED <<listing, cache, begun>>

\* The gateway answers, in its own order; the cache is locked again, later, if
\* there is something to insert.
FetchReturns(t) ==
  /\ call[t].at = "fetch"
  /\ \E details \in SetToSeqs(Matching(call[t].query, Asked(t))) :
       IF Cacheable(details)
       THEN /\ call' = [call EXCEPT ![t].at = "insert", ![t].hand = details]
            /\ UNCHANGED begun
       ELSE Settle(t, details)
  /\ UNCHANGED <<listing, cache>>

Insert(t) ==
  /\ call[t].at = "insert"
  /\ cache' = [k \in DOMAIN cache \union {Key(t)} |-> IF k = Key(t) THEN call[t].hand ELSE cache[k]]
  /\ Settle(t, call[t].hand)
  /\ UNCHANGED listing

FetchFails(t, e) ==
  /\ call[t].at = "fetch"
  /\ call' = [call EXCEPT ![t] = Continue(@, FromIbapi(e).kind)]
  /\ begun' = [begun EXCEPT ![t].erred = TRUE]
  /\ UNCHANGED <<listing, cache>>

-----------------------------------------------------------------------------
(* fetch_option_chain, once the contract id is known.                      *)

\* The first chain that is not empty is the answer, and one that has no date
\* that parses ends the call.  Empty ones, notices and errors are passed over.
ChainArrives(t) ==
  /\ call[t].at = "request"
  /\ \E chain \in Chain :
       /\ ~(chain.expirations = <<>> /\ chain.strikes = <<>>)
       /\ call' = [call EXCEPT ![t] =
            IF from_ib(chain) = NoAnswer
            THEN [@ EXCEPT !.at = "failed", !.err = "ContractResolution"]
            ELSE [@ EXCEPT !.at = "done", !.answer = from_ib(chain)]]
  /\ UNCHANGED <<listing, cache, begun>>

\* The request is refused, or its stream ends without a chain.
ChainMissing(t) ==
  /\ call[t].at = "request"
  /\ IF Len(call[t].todo) > 1
     THEN call' = [call EXCEPT ![t].todo = Tail(@)]
     ELSE call' = [call EXCEPT ![t].at = "failed", ![t].err = "ContractResolution"]
  /\ UNCHANGED <<listing, cache, begun>>

-----------------------------------------------------------------------------
Step(t) ==
  \/ LookHits(t) \/ LookMisses(t) \/ FetchReturns(t) \/ Insert(t)
  \/ ChainArrives(t) \/ ChainMissing(t)
  \/ \E e \in LookupErrors : FetchFails(t, e)

Next ==
  \/ Lists
  \/ \E t \in Task : Step(t)
  \/ \E t \in Task, op \in Op, ex \in Preferred :
       \E query \in QueriesOf(op) : Start(t, op, query, ex)

Spec == Init /\ [][Next]_vars

\* The gateway ends every request it is sent, and a call that can run does.
FairSpec == Spec /\ \A t \in Task : WF_vars(Step(t))

-----------------------------------------------------------------------------
(* Properties.                                                             *)

Answered(t) == call[t].hand # Empty /\ call[t].at \in {"request", "done"}

\* The call ended without a contract; one with a contract may lack a chain.
NotFound(t) == call[t].at = "failed" /\ call[t].hand = Empty

Ascending(s) == \A i, j \in DOMAIN s : i < j => s[i] < s[j]

\* The types; a call that is under way has an exchange left to try.
TypeOK ==
  /\ listing \subseteq Contract \X Exchange
  /\ DOMAIN cache \subseteq Query \X Exchange
  /\ \A k \in DOMAIN cache : cache[k] \in Seq(Contract \X Exchange)
  /\ \A t \in Task :
       /\ call[t].at \in {"idle", "look", "fetch", "insert", "request", "done", "failed"}
       /\ call[t].op \in Op
       /\ call[t].query \in Query
       /\ call[t].err \in IbErrorKind \union {NoError}
       /\ call[t].at \in {"look", "fetch", "insert", "request"} => call[t].todo # <<>>
       /\ call[t].at = "failed" => call[t].err # NoError

\* A call is answered with details of what it asked for on the exchange it asked
\* last, whoever put them into the cache.
AnswerIsTheQuerys ==
  \A t \in Task : Answered(t) =>
    \A i \in DOMAIN call[t].hand :
      call[t].hand[i] \in Matching(call[t].query, begun[t].plan[begun[t].asked])

\* The strikes enumerated for an expiry are strikes that trade (issue 45): each
\* is listed for that expiry, and not for another or by the chain only, on the
\* exchange that answered, whoever asked first; they ascend, none comes twice
\* for its call and its put, and none of the details in hand is left out.  A
\* chain has an expiration, and the strikes of a chain the gateway has sent,
\* each as often as it was sent, in order.
StrikesTrade ==
  \A t \in Task : call[t].at = "done" =>
    LET answer == call[t].answer
        hand   == call[t].hand
    IN  /\ call[t].op = "strikes" =>
             /\ Ascending(answer.strikes)
             /\ \A i \in DOMAIN answer.strikes :
                  \E entry \in Matching(call[t].query, begun[t].plan[begun[t].asked]) :
                    /\ entry[1][1] = call[t].query[1] /\ entry[1][2] = answer.strikes[i]
                    /\ answer.strikes[i] > 0
             /\ \A i \in DOMAIN hand : hand[i][1][2] > 0 =>
                  \E j \in DOMAIN answer.strikes : answer.strikes[j] = hand[i][1][2]
        /\ call[t].op = "chain" =>
             /\ answer.expirations # <<>>
             /\ \A i, j \in DOMAIN answer.strikes : i < j => answer.strikes[i] <= answer.strikes[j]
             /\ \E chain \in Chain : \E p \in Bijection(DOMAIN answer.strikes, DOMAIN chain.strikes) :
                  \A i \in DOMAIN p : answer.strikes[i] = chain.strikes[p[i]]

\* "Trying the preferred exchange first" (client.rs:234): a call that met no
\* error finds a contract that was listed when it began, on no later exchange
\* than the first that had it; that another call looked too early hides nothing.
\* And what was in the cache when a call began is found, whatever the gateway
\* does to the requests the call makes before it comes to it.
FirstListedWins ==
  \A t \in Task :
    /\ ~begun[t].erred /\ begun[t].listed # {} =>
         /\ ~NotFound(t)
         /\ Answered(t) => \A i \in begun[t].listed : begun[t].asked <= i
    /\ NotFound(t) => begun[t].cached = {}

\* A lookup ends: each exchange is asked once, and the chain requests come to
\* an end as well, as long as the gateway ends what it is asked.
LookupsEnd ==
  \A t \in Task : call[t].at # "idle" ~> call[t].at \in {"done", "failed"}
=============================================================================
