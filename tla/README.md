# A TLA+ model of ibcore

ibcore is a Rust library, with a Python binding and a small command line tool,
that wraps the `ibapi` crate: one persistent connection to an Interactive
Brokers gateway, market data snapshots, contract lookups, account collections,
orders, and a stream of diagnostic events that can be relayed to a remote
endpoint. This directory models its control: which task does what, in which
order, between which await points, what happens when a stream breaks, a timer
fires, a buffer is full or a task is aborted, and what the caller is told.

Paths below are relative to the repository's `src/` directory: `client.rs` is
`src/src/client.rs`, `lib.rs` of the binding is `src/python/src/lib.rs`.

## 1. Inventory

| Part | State it keeps | Operations | Hard behaviour |
|---|---|---|---|
| **Client lifecycle** (`client.rs`) | `inner` (the ibapi client), the watcher's handle, the contract cache, the remote tasks' handles, the double-call guard | `connect`, `reconnect`, `disconnect`, drop, `with_remote_diagnostics` | `abort` takes effect only when a task yields; `reconnect` may fail half way; dropped handles do not stop tasks |
| **Notice watcher** (`client.rs`) | its notice stream | classify each notice, log it, broadcast a `DiagnosticEvent` | bursts, the end of the stream with the connection or before it, abort in the middle |
| **Classification** (`errors.rs`, `diagnostics.rs`, `client.rs`, `orders.rs`) | none | tables and conversions from codes and ibapi errors to `IbError`, `FarmState`, log level, `OrderOutcome`; the text, wire and Python forms of an event | several tables in five files must agree |
| **Remote diagnostics** (`remote.rs`) | ring buffer, channel of batches, failure count | receive, flush on tick, on a critical event, at the end; POST, back off | lagging receiver, full ring, full channel, POST that never ends, POST that failed after it arrived, shutdown at any await |
| **Orders** (`orders.rs`) | one subscription for each awaited order | `place_order`, `place_order_await`, `cancel_order` | notices and statuses in any order, or lost; the timeout racing a late answer; transport failures that leave the order's fate open |
| **Order updates** (`orders.rs`) | a subscription | `order_updates`, `next`, drop | executions and commissions joined by an id that may be empty; errors in between |
| **Snapshots** (`client.rs`, `snapshots.rs`) | the attempt: prices, greeks, their rank, what was seen | `stock_snapshot`, `option_snapshot` | tick order, placeholders, a deadline at any point, three attempts with memory |
| **Lookups and chains** (`client.rs`, `chain.rs`, `contract.rs`) | the contract cache, shared | `option_snapshot`, `option_strikes_for_expiry`, `resolve_option_conid`, `fetch_option_chain` | look and insert under separate locks; fallback over exchanges; farms coming up meanwhile |
| **Requests** (`client.rs`, `orders.rs`) | none beyond the call | `positions`, `account_summary`, `net_liquidation`, `pnl`, `open_orders`, `historical_data`, `place_order`, `cancel_order` | a stream that breaks in the middle; one ibapi error told in different ways |
| **Tick stream** (`streaming.rs`) | a subscription | `tick_stream`, `next` | errors between ticks, ticks without values |
| **Python binding** (`lib.rs`) | a mutex with the client, a runtime, receivers | the client's methods, blocking; iteration over events | a panic under the mutex; lagging receivers; who owns a connection |
| **Command line tool** (`cli/src/main.rs`) | a connection, a receiver, a list of events | connect, collect for a time, disconnect, print | the deadline racing events, a lag, a connection that goes away |
| **The rest** | none | re-exports, the exchange table, scripts | none |

How they interact. The watcher owns a sender of the diagnostic broadcast, and
the client another one. Subscribers (the batcher of the remote pipeline,
Python's receivers, the command line tool) have a receiver each, with a lag of
their own. Batcher and poller are two tasks with a bounded channel between
them. Calls on `&self` (requests, lookups, `disconnect`) run beside each other;
`reconnect` takes `&mut self` and `with_remote_diagnostics` takes `self`, so Rust
lets them run only when nothing else does. Lookups share only the cache; every
other request has only its own subscription.

What makes each part correct:

* lifecycle: a client that is up is watched, on the connection it talks
  through; there is one connection at a time; nothing of an old session is left
  in the cache; disconnect and drop end the tasks.
* classification: the tables agree, and never report as rejected an order whose
  fate is open.
* remote diagnostics: an event arrives at most once and in order, or is given up
  for a reason; nothing stalls the batcher for ever; shutdown completes.
* orders: an answer is given once, and is true of the order at the broker.
* order updates: a commission joins its own order only; nothing is lost.
* snapshots: the best greeks that came; a success is usable; a failure tells what
  happened; the call returns.
* lookups: an answer is that of the query; another caller's early look hides
  nothing; the first exchange that lists the contract wins; the strikes of an
  expiry are strikes that trade.
* requests: whole, or an error; one ibapi error is one story on every path.
* tick stream: an item for each item of the subscription.
* Python: no connection without an owner; a receiver skips only what is gone.
* command line: the report is what the gateway said while it listened.

## 2. Modules

| Module | Models | Composition |
|---|---|---|
| `RemoteDiagnostics` | batcher, flush, poller, both channels | implements `EventRelay` |
| `EventRelay` | the promise: at most once, in order, never after being given up | abstract |
| `IbErrors` | all classifiers and conversions | extended by the modules that classify |
| `DiagnosticEvents` | a diagnostic event: as the watcher makes it, as text, on the wire, in Python | extends `IbErrors` |
| `PlaceOrder` | the awaited order, the broker, the transport | extends `IbErrors`, implements `OrderTruth` |
| `OrderTruth` | the promise: one answer, true when given | abstract |
| `ClientLifecycle` | the client, watchers, pipelines as wholes, the cache across sessions | abstracts `RemoteDiagnostics` to "running" and "ended" |
| `MarketDataSnapshot` | one snapshot call of either kind | extends `IbErrors` |
| `ContractResolution` | several lookups of four kinds and the cache of one session | extends `IbErrors` |
| `Requests` | one request of any other kind, refused or answered; the tick stream | extends `DiagnosticEvents` |
| `OrderUpdates` | the order update stream, the fills behind it, its events in Python | |
| `PyClient` | the Python class and its receivers | extends `DiagnosticEvents` |
| `CliDiagnose` | the command line tool, with the watcher, the gateway and the clock beside it | extends `DiagnosticEvents` |
| `*_proofs` | theorems about the module they are named after | section 5 |
| `FrontEnds_proofs` | theorems about `PyClient` and `CliDiagnose` | section 5 |

The `MC*` modules give the constants of a run that are not plain model values.

Where two modules touch the same code, one has the detail and the other its
outside: `ClientLifecycle` ends a pipeline as a whole (`PipelineDies`,
`PipelineCloses`), which `ShutdownCompletes` of `RemoteDiagnostics` justifies and, if the
endpoint ends its POSTs (`EndpointAnswers`, a hypothesis there and here),
`PollerEndsWithSenders`; its `SendersGone` and `DisconnectStarts` are the
`DropSenders` and `Abort` there. `ContractResolution` has one session, and
`ClientLifecycle` clears the cache between sessions. `PyClient` takes the client
below it as answered or failed. `CliDiagnose` has the broadcast of `PyClient` with a
receiver that gives up at its first lag.

### State and actions against the code

A step is the code between two await points; a handler that does not await is
one action. Every definition's source lines are in `PROJECT.json` under `map`.
Definitions with a suffix such as `_KeepsCache` (or, in `RemoteDiagnostics`,
those of the section on faulty variants) are bugs the code could have had. No
specification uses them; each is put in place of the definition after it to see
that the property it is meant for notices.

*RemoteDiagnostics.* `log` is all that was ever broadcast and events are positions
in it, so identity and order are exact. `rx`, `ring`, `chan`, `inflight`,
`failures` are the locals and channels of `run_batcher` and `run_poller`; `bpc` and
`ppc` the await each task is at. `select!` is `biased`: `BatcherTick` is enabled only
when the receiver has nothing. `flush_batch` has two outcomes (`FlushSent`,
`FlushFailed`), the second after five seconds with a full channel or without a
receiver. A POST is two steps, so that it can fail before or after the endpoint
has it. `lost`, `accepted`, `arrived` and `failedUpTo` are history.

*PlaceOrder.* `call`, `stream` and `answer` are the call; `fate`, `been` and `priced`
are the broker's, which no client sees and only properties compare with.
`AwaitTimesOut` needs an empty stream: `tokio::time::timeout` polls the loop before
its clock, so a message that is there is taken first. `NoPhantomFill` is about the
price test of `classify_terminal`. A cancel is told by a status and by the notice 202, which
the code takes for a refusal (section 6). The constant `CancelNoticeFirst` says whether the
notice may come ahead of the status, or alone; what the code promises of a rejection it keeps
only if not.

*ClientLifecycle.* Sessions are numbered; each has a connection, a watcher task and
the notices waiting for it. `handle` is the watcher `_diagnostic_task` belongs to,
`watchAborted` those told to stop. `reconnect` is four actions, one for each await,
and may fail at two of them. A connection is up, or up and "mute": ibapi ended its notice
stream by itself (`NoticeStreamEnds`), the watcher leaves its loop, and the session stays silent until
a reconnect (`client.rs:362-370`). `WatcherPublishes` repeats without a yield, so an
aborted watcher may still finish a burst.

*MarketDataSnapshot.* Prices are signs and greeks are present, zero or real: what
`apply_option_computation`, `is_zero_priced` and `option_snapshot_complete` test.
`saw_tick` and `last_error` are kept for the attempt and for the call, as
`SnapshotAttempt` and `retry_market_data` do. `Attempts` is the code's 3, not a bound. `heard`
is history: what the gateway sent, and whether an attempt was given up with a price in hand.

*ContractResolution.* An option is an expiry, a strike and a right, a query is the
beginning of one, and a listing is an option on an exchange; `Lists` makes the
gateway list more over time. Look, fetch and insert are separate steps, as in
`resolve_contract_details`. `todo` is what is left of the fallback, `hand` the details
found, `answer` what a strikes or chain call returns. `begun` is history: the
exchanges a call was to ask, and where the contract was listed or cached when it began.

*DiagnosticEvents.* A text is the sequence of its parts, so that `unknown(504)` keeps its
code. `FarmText`, `DiagnosticBatch` and `PyDiagnosticEvent` are the three forms of an event.

*Requests.* `refusal` is the ibapi error the request itself met, any that exists. `sent` is
the subscription and `end` how it ends, with its end marker or without; `taken` is how far
the loop has read, `items` and `result` what the caller gets. A net liquidation looks at
tags and at what parses, so that is all a row has.

*OrderUpdates.* Fills carry the order only the broker knows; the client joins on
ids. `named` are the fills IB gave an id. `handed` are the events that came out, with the
item each was made from; `PyOrderStatusEvent` is their flat form in Python.

*PyClient.* Every method holds the GIL and the mutex from start to end, so methods
do not interleave with each other, only with the runtime's workers. `busy` is the
method that holds the mutex, `poisoned` the mutex after a panic.

*CliDiagnose.* `pc` is the await the main task is at. The watcher publishes from the
connection on, so events come before the subscription, between a lag and the end, and after
the connection is gone. The report is counted from the collected events by two functions, one
for the text and one for JSON; the property compares both with what the gateway sent.

## 3. Runs

| Run | Specification | Properties | Bounds |
|---|---|---|---|
| `relay` | `FairSpec` | 10 | 3 events, broadcast 2, ring 2, channel 1 |
| `orders` | `FairSpec` | 4 | 1 order, 3 queued messages; the notice of a cancel not before its status |
| `client` | `FairSpec` | 6 | 3 sessions, 1 pipeline, 1 waiting notice, 1 lookup task, 1 key |
| `snapshots` | `FairSpec` | 4 | 2 stream errors; the 3 attempts are the code's |
| `lookups` | `FairSpec` | 4 | 2 calls, 4 options, 2 listed at a time, 2 chains |
| `requests` | `Spec` | 5 | every notice code from 0 to 11000, every other ibapi error; 3 items, 2 of them errors |
| `order_updates` | `Spec` | 2 | 2 orders, 2 fills, 3 items |
| `python` | `Spec` | 2 | 1 receiver, broadcast 2, 6 events, 3 connections |
| `cli` | `CliFairSpec` | 2 | codes 504, 2104, 2105, 2107; broadcast 2, 4 events |
| `doc_one_pipeline`, `doc_py_disconnect`, `doc_cancel_rejected` | | 1 each | see section 6 |

**Why the bounds are enough.**
*relay*: with capacities 2, 2 and 1, three events lag the receiver (needs more than
the broadcast holds), overflow the ring, fill the channel and leave one event
behind each; the properties relate at most two events. What a larger capacity
could change is covered by the proofs, which are for every capacity.
*orders*: orders share the connection and nothing else, the answer to one depends
only on its own messages, and the safety theorems hold for every set of orders; three
messages hold both halves of a rejection and one more.
*client*: three sessions are a first one, a failed and a completed reconnect; stale
watchers need two. One lookup task suffices for `CacheOfThisSession`, which is about what
`reconnect` leaves in the cache: no lookup is in flight across it, by the borrow rules. A second pipeline is the subject of `doc_one_pipeline`.
*lookups*: an insertion races with one other look. Two listings at a time are a contract on
two exchanges, a call beside its put, or a strike beside another; the preferred exchange and
its fallback are both asked. One error stands for all: each goes on to the next exchange.
*requests*: the refusals are exhaustive up to the greatest code the tables name and some
beyond; in a stream, three items hold a row, an error and a row after it. *order_updates*: an
execution and a commission of different orders with the same id need two fills and two items;
the third comes between them. *python*: a receiver that lags twice in one call needs the
capacity plus two events, and the rest is room before and after. The lag and the
connection do not influence each other, and receivers do not either. *cli*: the four codes
are one of each farm state, and one event more than the broadcast holds lags the receiver,
before and after its first event.

**Deadlock** is not checked in runs whose system may stop: a call has returned, a
client was dropped, a bound is reached. `relay`, `orders`, `client`, `snapshots`, `lookups` and
`cli` state liveness instead.

**What they show.** All properties hold. In words:

* *relay*: `Accounted` (each event is in one place, or lost for one reason),
  `ArrivesOnceInOrder`, `CriticalFlushedFirst`, `OnlyOldEventsEvicted`, the refinement
  of `EventRelay`; `NobodyWaitsInVain` (whoever waits has somebody who can end the wait: a live
  sender, a live batcher, the endpoint, a timer); under fairness `FlushEnds`, `ShutdownCompletes`, and, if POSTs end,
  `EveryEventSettles` and `PollerEndsWithSenders`.
* *orders*: the refinement of `OrderTruth`, where `Rejected` is the answer to a refusal only;
  `QueueTruthful`; no fill before there is a price; the call returns, and at any time it waits
  with no message its timer may fire (`CanTimeOut`). All this where the status of a cancel
  comes before its notice; where it does not, `doc_cancel_rejected` shows what happens.
* *client*: `LiveClientIsWatched` (the handle is that of the session the client talks through, and
  its watcher listens unless that session's notice stream ended by itself), `OneConnection`, `StrayWatchersAborted`,
  `CacheOfThisSession`, `DisconnectStops`, and `DropEndsTasks`, which also says that no task
  waits in vain and that a burst of notices ends (`NothingStuck`); that a detached pipeline ends
  it says only for an endpoint that answers (`EndpointAnswers`).
* *snapshots*: `BestGreeksWin`, `SuccessIsUsable`, `FailureIsTruthful`,
  `SnapshotReturns`, with no await that could outlive its time (`CallNeverStuck`).
  `FailureIsTruthful` says of `CompetingSession` that no attempt had a price for stocks only: for
  options the code does not keep to that (section 6).
* *lookups*: `AnswerIsTheQuerys`; `FirstListedWins`, which also says that what was cached when
  a call began is found; `StrikesTrade`, for the strikes of an expiry and for chains; `LookupsEnd`.
* *requests*: `WholeOrError` and `NetLiquidationIsReal` of the collections; `EveryTickComesOut`
  (an item for each item, a zero exactly where the gateway sent no number);
  `NoticeTablesAgree` (a notice that either classifier calls bad is logged loudly, both mean the
  same by a disconnected farm, and so do the forms an event is shown in); `ErrorPathsAgree` (one
  ibapi error on the submit path, on the stream path and of a refused market data request).
* *order_updates*: `CommissionsAttributable`, in Rust and in the flat form Python gets;
  `EveryUpdateComesOut`.
* *python*: `NoOrphanConnection`, `SkipsOnlyOverwritten`.
* *cli*: `ReportIsHonest` (what was collected has no gap, and the counts of text and JSON are
  those of what the gateway sent), `DiagnoseEnds`, at every point of which the command or its
  deadline can go on (`CommandNeverStuck`).

## 4. Fairness, and why the code justifies it

* Tasks (`TaskFairness`, and the watcher and pipeline actions of `ClientLifecycle`):
  tokio polls a task that was woken and drops an aborted one at its next yield;
  timers fire. Abort has a fairness condition of its own, since a task that always
  has something else to do must still be killed.
* The flush: `FLUSH_TIMEOUT` bounds the send.
* The POST has *no* fairness in `FairSpec`, because `reqwest::Client::new()` sets no
  timeout. What needs the POST to end says so as a hypothesis (`EndpointAnswers =>`): in
  `RemoteDiagnostics`, and in `ClientLifecycle`, whose `FairSpec` kills an aborted pipeline but
  does not make one end whose senders are gone.
* ibapi has no obligation to end a notice stream, nor to keep it.
* `AwaitTimesOut` has strong fairness: it is enabled each time the loop finds its
  stream empty, and the timer is looked at every time. That the stream is empty again
  and again is a hypothesis about the broker (`BrokerPauses =>`), since a stream that
  is never empty would keep `timeout` from looking at its clock.
* Snapshots: the deadline and the back-off are timers, and ibapi answers a
  subscription. The gateway has no obligation to send anything.
* Lookups (`WF_vars(Step(t))`): a call that can run does, and the gateway ends the requests it
  is asked for, with details or an error. The code sets no deadline, so a silent gateway hangs the
  caller; `LookupsEnd` says what is left when it answers.
* The command line: the main task runs (`WF_vars(Command)`) and the clock does
  (`WF_vars(DeadlinePasses)`); `connect` and `disconnect` return, with or without a connection. A
  watcher that publishes without end does not delay the deadline: once it has passed, `select!`
  picks among what is ready, and the bound on events stands for its doing so at some point.
* No caller must call anything; no gateway must accept a connection.

## 5. Proofs

Every invariant that says what is true of a state, and every refinement, that a passing run checks is a
theorem; of the liveness properties, those that do not count anything down are, from the fairness of the
`FairSpec` and one invariant about what is enabled. What is left to the model checker is at the end of
this section.

| Theorem | States | For every |
|---|---|---|
| `RemoteDiagnostics_proofs!TypeCorrect` | `TypeOK` | capacity, interval, set of codes |
| `!OrderCorrect` | `ArrivesOnceInOrder` | the same |
| `!EvictsOldest` | `OnlyOldEventsEvicted` | the same |
| `!CriticalCorrect` | `CriticalFlushedFirst` | the same |
| `!AccountsBalance` | `Accounted` | the same |
| `!RelayRefined` | `Spec => Relay!Spec` | the same |
| `PlaceOrder_proofs!TypeCorrect` | `TypeOK` | set of orders, set of codes that fits the assumptions, queue length |
| `!QueueCorrect` | `QueueTruthful` | the same, if `~CancelNoticeFirst` |
| `!TruthRefined` | `Spec => Truth!Spec` | the same, if `~CancelNoticeFirst` |
| `!FillsPriced` | `NoPhantomFill` | the same |
| `ClientLifecycle_proofs!TypeCorrect` | `TypeOK` | number of sessions, pipelines and notices, set of tasks and keys |
| `!WatchCorrect`, `!ConnectionCorrect` | `LiveClientIsWatched`, `OneConnection` | the same |
| `!StraysCorrect`, `!CacheCorrect` | `StrayWatchersAborted`, `CacheOfThisSession` | the same |
| `MarketDataSnapshot_proofs!TypeCorrect` | `TypeOK` | set of stream errors |
| `!GreeksCorrect`, `!SuccessCorrect`, `!FailureCorrect` | `BestGreeksWin`, `SuccessIsUsable`, `FailureIsTruthful` | the same |
| `ContractResolution_proofs!AnswersMatch`, `!FirstListed` | `AnswerIsTheQuerys`, `FirstListedWins` | set of calls, options, listings, chains, errors |
| `!StrikesAreListed` | `StrikesTrade` | the same |
| `OrderUpdates_proofs!TypeCorrect`, `!AttributionCorrect` | `TypeOK`, `CommissionsAttributable` | set of orders, number of fills and items |
| `!UpdatesComplete` | `EveryUpdateComesOut` | the same |
| `Requests_proofs!TypeCorrect` | `TypeOK` | greatest code, number of items and of errors, set of stream errors |
| `!ListsAreWhole`, `!NetLiquidationIsSent` | `WholeOrError`, `NetLiquidationIsReal` | the same |
| `!TicksComplete` | `EveryTickComesOut` | the same |
| `!NoticesAgree`, `!ErrorPathsCorrect` | `NoticeTablesAgree`, `ErrorPathsAgree` | the same |
| `FrontEnds_proofs!ConnectionsOwned`, `!ReceiversSkipRightly` | `NoOrphanConnection`, `SkipsOnlyOverwritten` | set of receivers, capacity, number of events and sessions |
| `!ReportCorrect` | `ReportIsHonest` of `CliDiagnose` | set of codes, version, capacity, number of events |

| Theorem | From the fair specification and | To |
|---|---|---|
| `RemoteDiagnostics_proofs!FlushesEnd`, `!ShutdownEnds` | `[]NobodyWaitsInVain` | `FlushEnds`, `ShutdownCompletes` |
| `!LastFlushEnds` | the same | with no sender and nothing to receive, the batcher ends |
| `!PollerComesBack` | the same, `EndpointAnswers` | the poller takes its next batch or is gone |
| `!PollerEndsLast` | the same, `EndpointAnswers` | the batcher gone and the channel empty, the poller ends |
| `PlaceOrder_proofs!AwaitEnds` | `[]AwaitNeverStuck` | `AwaitReturns` |
| `MarketDataSnapshot_proofs!SnapshotEnds` | `[]CallNeverStuck` | `SnapshotReturns` |
| `ClientLifecycle_proofs!DisconnectStopsTasks` | `NothingStuck` | `DisconnectStops` |
| `!DroppedTasksEnd` | `NothingStuck` | each watcher of a dropped client ends |
| the same, second half | `NothingStuck`, `EndpointAnswers` | each pipeline ends once all watchers have |
| `FrontEnds_proofs!OnlyCollectingLasts` | `[]CommandNeverStuck` | the command exits, or collects for ever past its deadline |

These hold for every value of the constants, too.

Hardly any of these is inductive as it stands; what has to be added is where the argument is.

*OrderCorrect.* A step that appends the in-flight batch must know that it is increasing and
younger than what has arrived. `OrderInv` says this of the whole pipeline: what has
arrived, what is in flight unless it has arrived, the batches in the channel in their order, the
ring and the events still to be received are each increasing, and each part is younger
than the part before it. Every action moves a piece from one part to the next or drops it.

*EvictsOldest, CriticalCorrect.* An event is evicted when the ring is full, so `EvictionInv` counts:
as the ring is increasing and ends before `rx`, the event is as far behind `rx` as the ring is
long (`Crowded`). A critical event makes the batcher flush before it receives again, so that it
can only be passed by when that flush has failed.

*AccountsBalance.* The buffers are sequences, `Accounted` speaks of their ranges. `AccountInv`
says that the ranges partition what was received (`Split`) and that nothing is in flight between two
batches. That taking the first of a sequence takes it out of the range needs that the sequence holds
nothing twice, which `OrderInv` gives.

*RelayRefined.* A batch arrives in one step, and `EventRelay` lets a batch arrive only when it is
all that was pending up to its end. Order, accounts and `ArrivalInv` (what arrived is accepted,
lost, or in flight still) give it: everything older than the batch has arrived or is given up. Every
other step gives up events that have not arrived, broadcasts, or stutters.

*TruthRefined.* The answer is computed from a message, perhaps long after the broker sent it. The
invariant is `QueueTruthful`: every queued message that would conclude the order concludes it
truthfully. It is kept because the broker's history `been` only grows, and because the broker's
actions append only messages that are true of the state they go to (one lemma per kind of
message), the notice of a cancel only behind its status, where it is never read. A step of `PlaceOrder` is then an answer, a move of the broker, or a stutter
of `OrderTruth`.

*FillsPriced.* `Pricing`: a queued message that would conclude the order as filled says a price the
broker has (`QueuePriced`), and only filled orders are priced (`PricedIsFilled`).

*ClientLifecycle.* `Shape` says for each phase of `call` which session has what: when the client is
idle its handle is that of its session (`HandleIsInner`); a watcher passed over by a reconnect is
aborted (`OldWatcherAborted`); sessions not opened yet are untouched (`LaterUntouched`); a session has a
watcher only after it was opened (`SpawnedFirst`); only the current session, or in a setup the one
just opened, may be connected (`UpIsCurrent`), and the latter is not watched yet (`SetUpUnwatched`). The cache
needs the borrow rule: a fetch is in flight only while the client is idle.

*MarketDataSnapshot.* `Remembered`: the collected greeks, prices, tick flag and errors are what the
history of the attempt and of the call says, before and after `retry_market_data` folds one into the
other; and a stock's attempt that is given up has no price, since the retry gate threw it away for that
reason. All three properties read off it.

*ContractResolution.* `CallOk` is about one call: what is left to try is the end of the plan
(`OnPlan`); what was listed or cached when it began still is, as both only grow (`Known`), and
lies ahead unless there was an error (`Ahead`); what it holds was listed for its query. As it is
kept when listing or cache grow, the other calls do not matter.

*StrikesAreListed.* A call's strikes are computed in one step from what it has in hand, and in hand
are details that were listed on the exchange last asked: `AnswerOk` keeps the two together until the
call is done, while other calls and the gateway go on. The model says what a sort returns, not how: the
elements of a set in a row (`InOrder`, a `CHOOSE`). That there is such a row for every finite set
(`RowExists`) is an induction on its size: take the last element off, put the rest in a row, append. A
chain may name a strike twice; there it is the positions that are sorted, by strike and then by
position, so that the row is a rearrangement of the positions (a bijection).

*AttributionCorrect.* `Faithful`: every event that came out was made from its item.

*UpdatesComplete.* `QueueIsTheRest`: the queue is the positions of `sent` that were not taken, in
their order. `HandedAll`: of those taken, the events that came out are those with something to
surface, in increasing order. Taking an item moves one position from the first to the second;
`SurfacedIsMapped` says that `map_order_update` gives an event for exactly the items to be surfaced,
which depends on the id of a fill only as far as it was known when the item was sent.

*ListsAreWhole, NetLiquidationIsSent, TicksComplete.* `Gathered` and `TicksTold` say what a call has
after each item it has taken, `EndIsLast` that an end marker closes a complete stream and no other, `Stage`
that nothing is there before the request was accepted. A call that returns at the marker has then
taken all. A net liquidation is found by the least position with a tag (`MinIsLeast`, from the
well-foundedness of the naturals).

*NoticesAgree, ErrorPathsCorrect.* Of the behaviour these need only that a refusal's result was made from
that refusal (`Stage`). The rest is a case distinction over the ranges of codes the tables name, which a
run can enumerate only up to some code.

*ConnectionsOwned, ReceiversSkipRightly.* `Owned`: a connection is up only while the object is alive and
holds the client, whichever method is inside. `Placed` and `Skips`: what a receiver has yielded and missed
lies behind it, with no gap from its first event on, and it missed only what the broadcast had overwritten.

*ReportCorrect.* `Heard`: what was collected is `sent` from the subscription on, and the receiver looks
for the event after it. `Stopped`: collecting ended at the deadline or at an event that was overwritten,
and as events are only ever added, it stays so. `Told`: a report is made once, after the last event was
collected. That its four counts add up to the total is a statement about sets: the four states share out
the positions of the list (`FourCounts`); that they are the gateway's is a bijection between the positions
in the list and those after the subscription; and both sets of labels tell the four states apart
(`LabelsTellApart`).

*Liveness.* The prover knows the fairness conditions of a `FairSpec` but nothing of `ENABLED`: it takes
`ENABLED <<A>>_vars` for a formula of its own. So each theorem has one hypothesis that says, for every place
where a task can be, that the step it is to take is enabled: `NobodyWaitsInVain`, `AwaitNeverStuck`,
`CallNeverStuck`, `TasksNeverStuck`, `CommandNeverStuck`. These are statements about a state that TLC
checks in the runs (as invariants, or inside the liveness property that needs them), and worth stating by themselves: they are what a deadlock of tasks would
violate. The rest is proved: which steps leave a place, where to, and what cannot be undone meanwhile (a task
that is gone stays gone, `GoneForGood`; an abort, a closed connection, `ClosedStays`; a drained channel,
`DrainedStays`). A snapshot call has three attempts, so that its theorem is three times the lemma that an
attempt is over some time (`AttemptEnds`).

`AwaitEnds` is where strong fairness is needed: the timer is enabled whenever the stream is empty, and
`BrokerPauses` has it empty again and again. In `DisconnectStopsTasks` the watcher may be in the middle of a
burst of notices, where an abort does not reach it. `Told` says that from the moment `disconnect` waits for the
gateway the tasks have been aborted, and which pipelines there are; the connection is closed in the end; then
the watcher parks no more (`WatcherSteps`) and its next step, parked or with no notice left, is its last
(`LastWatcherStep`). That the notices left are published one by one is an induction on their number in a
temporal formula, which the provers cannot make, so it is the second half of `NothingStuck` (`BurstEnds`).

*Assumptions*, all evaluated by TLC: `ConstantsAssumption` of `RemoteDiagnostics` (capacities
positive, the others naturals), `CodesAssumption` (what is called a warning or a transport code is
not classified as a rejection; a transport code is classified as a dead connection), the
`BoundsAssumption` of `ClientLifecycle`, `OrderUpdates`, `Requests` and `PyClient` (bounds are naturals,
the broadcast holds something; `ReportCorrect` uses it for the broadcast that both front ends share),
`ReceiverAssumption` ("none" is no receiver), `ExchangesAssumption` (the preferred exchanges are
exchanges), `OptionAssumption`, `ChainAssumption` and `ListableAssumption` (an option is an expiry, a
strike and a right, a chain has a list of strikes, what is listed are contracts on exchanges; strikes and
expiries are whole numbers, which only order matters of).

*Only model-checked.* The enabledness invariants above and `BurstEnds`, as the provers do not evaluate
`ENABLED`; the liveness that counts something down, as it is an induction in a temporal formula:
`EveryEventSettles` and `PollerEndsWithSenders` (events, batches), `LookupsEnd` (exchanges, chains),
`DropEndsTasks` (all watchers from each of them) and `DiagnoseEnds` (events after the deadline; the theorem
above leaves exactly this open); and the violations of section 6. The library's induction theorems take an
operator as a parameter, which the installed provers cannot instantiate; where the argument for an invariant
is an induction (on the size of a set, on a position in a sequence) it is made on a set of naturals, as a
least counterexample (`MinIsLeast`, `Induction`), which a temporal formula has no place in.

## 6. Where the code and its documents disagree

Three disagreements are runs that end in a violation (they are chosen for what they can do to a
caller; the rest of this section lists the others):

* `doc_one_pipeline`: `reconnect` drops the handles of running remote tasks and clears
  the guard (`client.rs:494`). A second `with_remote_diagnostics` then starts a second
  pipeline beside the first, against "panics if called more than once on the same
  client" (`client.rs:510`); each event is then POSTed twice, and `disconnect` reaches only the
  second pipeline.
* `doc_py_disconnect`: Python's `order_updates()` spawns its task outside of the runtime
  (`lib.rs:921`) and panics with the mutex held; the mutex is poisoned and every later
  call, `disconnect()` included, raises "lock error", against `README.md:229`, `:243` and the
  example at 474-486. The connection stays up until the object is dropped.
* `doc_cancel_rejected`: the notice of a cancel, 202, is in the range 200-299 and becomes
  `IbError::OrderRejected` (`errors.rs:336`), so that `place_order_await` answers `Rejected`
  (`orders.rs:453`) for an order that was cancelled and never refused, if the notice comes before the
  status or alone. `orders.rs:174-177` tells `Rejected`, "a hard broker refusal", from `Cancelled`, "an
  explicit cancel", and `orders.rs:443-446` says "we never claim a rejection we cannot prove".
  The promise `OrderTruth`, and the theorems about it, keep to those words and are for the other order.

Others met on the way, without a run of their own. The models do what the code does.

Orders and errors:

* `open_orders` logs an error in its stream and returns `Ok` with what it has (`orders.rs:630`),
  against "a Vec<OpenOrder> of all open orders" (`orders.rs:602`, `README.md:242`); positions and
  account summaries are errors then.
* A lookup answered with notice 200 is `OrderRejected` (`client.rs:766`, `errors.rs:43`).
* `orders.rs:408-409` calls every `Io` error connection-dead; one of kind TimedOut becomes `Timeout`
  (`errors.rs:205`).
* `orders.rs:491-492`: the doc of `place_order` says `OrderRejected` for any failed submission;
  `order_submit_error` keeps dead connections apart.
* `OrderStatusStream::with_diagnostics` stores a sender that nothing sends to.
* `README.md:492` describes commissions as `kind="Filled"`, which are `"Commission"`; the example at
  `README.md:480` waits for a kind `"Rejected"` that no status of the stream becomes.

Market data and lookups:

* An option that has prices and no greeks in its attempts fails with `CompetingSession`
  (`client.rs:1098`, `:1155`), against "ticks arrived, all zero" (`client.rs:813-814`), "ticks arrived
  but every price was zero" (`client.rs:1143`) and `CHANGELOG.md:27-28`. `FailureIsTruthful` is
  therefore about options what the code keeps: ticks came, and there was no error.
* A price that came and was overwritten by IB's -1 before the attempt ended does not count
  (`client.rs:1315`): such a stock is a `CompetingSession` although a price was seen.
* `client.rs:685` asks for a snapshot subscription where `client.rs:658-660` describes a stream.
* The back-off of `retry_market_data` is slept through after the last attempt too.
* `resolve_contract_with_exchange_fallback` says it keeps the last error seen; an empty
  answer after an error replaces it (`client.rs:243-245`).
* `fetch_option_chain` and `resolve_option_conid` turn every error, a dead connection included, into
  `ContractResolution` (`client.rs:876`).
* `fetch_option_chain` returns the first chain that is not empty, against "All expirations + all
  strikes" (`README.md:232`), and `expirations`, "sorted ascending" (`chain.rs:34`), are in the
  gateway's order.
* `parse_expiry`, which nothing in the crate calls, takes "+7" for a month and month 13 as well, and
  panics on eight bytes that do not split into characters; Python's `option_snapshot` wraps the parts
  of a date instead (`lib.rs:772`).
* `streaming.rs:106` says request parameters are skipped; they come out as a generic tick of value
  0, which the consumer cannot tell from one the gateway sent.
* `net_liquidation` does not look at its account and returns the first row of all accounts.

Diagnostics:

* `remote.rs:120` flushes at once for 10197 only; `remote.rs:92` and
  `specs/remote-diagnostics.md:51` speak of farm disconnects too.
* The log of a flush timeout says the batch was dropped, which is kept.
* With a batch interval below a second the back-off is zero (`remote.rs:220`).
* The session fingerprint is taken once (`client.rs:526`); a reconnect to another gateway version does
  not change it.

Python and command line:

* Python's `__next__` returns `None` after a second lag in one call, which ends a `for`
  loop although events are waiting. `SkipsOnlyOverwritten` holds all the same.
* `poll(timeout)` does not look at its timeout (`lib.rs:1025`) and blocks as `__next__` does.
* `__exit__` says nothing of a `disconnect` that failed (`lib.rs:973`).
* The command line tool connects as a paper account whatever the gateway's is (`main.rs:85`), so its
  report says "paper"; the gateway version is that of the first event, 0 without one; after a lag it
  ends its collection early, and its report names the full duration all the same.
* `IBAPI_VERSION` is "3.0" (`lib.rs:82` of the library), the dependency 3.1.0 (`Cargo.toml:16`).

## 7. What is assumed of the code outside

* A dropped ibapi client closes its connection; a dropped subscription is cancelled.
* Futures are polled to the end: a caller who drops a future of `reconnect` in the middle is
  not modelled.
* The broker sends what the comments and tests of `orders.rs` say it sends; the transport
  may fail at any moment, with an error or without.
* tokio's broadcast overwrites its oldest value and tells a lagging receiver once; its mpsc
  channel keeps order; `timeout` polls the future before the clock.
* The GIL is held for the whole of every Python method (none of them uses `allow_threads`,
  except that of `OrderUpdateReceiver`).

## 8. Not modelled

* Wording: messages, logs, the layout of reports. Of the poller, the branch that fails to serialize a
  batch and the broadcast of the diagnoses in an answer.
* Values no decision depends on: sizes, gamma, theta, vega.
* The copies Python makes of snapshots, orders and accounts field by field, and Python's
  `OrderUpdateReceiver` with the task behind it: the code panics before it creates them.
* `parse_expiry` and `find_expirations_near_dte`: pure helpers nothing in the crate calls.
* `historical.rs`, `exchange.rs`, `lib.rs` of the library: re-exports and a table, no control. Scripts
  and CI.

## 9. Plan

Done, in this order: the relay and its promise, the classifiers, orders and their promise, the client,
snapshots, lookups, order updates, Python, then requests with the tick stream, chains and strikes, the
forms of an event, the command line. Each was model-checked before it was proved about; the
proofs went the same way: first the invariants and refinements, then liveness.

Left:

1. The diagnoses of the poller, which go out on a broadcast of their own.
2. A composition of `ClientLifecycle` with two watchers' events, to state which events a
   subscriber may see after which session.

## 10. Running

    tlc -config MCRemoteDiagnostics.cfg MCRemoteDiagnostics
    tlapm RemoteDiagnostics_proofs.tla

`PROJECT.json` lists for each run its module, configuration and properties. Every run ends within two
minutes on two cores; every proof module within a few minutes.
