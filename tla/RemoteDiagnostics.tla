------------------------- MODULE RemoteDiagnostics -------------------------
(***************************************************************************)
(* The remote diagnostics pipeline of src/src/remote.rs, as one call of    *)
(* IbClient::with_remote_diagnostics sets it up:                           *)
(*                                                                         *)
(*   notice watcher --broadcast--> batcher --mpsc--> poller --HTTP POST--> *)
(*                                                                         *)
(* An event is named by its position in the log of everything the watcher  *)
(* has broadcast; of its payload only the IB error code is kept.  A step   *)
(* of a task is the code between two of its await points.                  *)
(***************************************************************************)
EXTENDS Integers, Sequences, SequencesExt

CONSTANTS
  Codes,          \* the IB notice codes the gateway emits
  MaxEvents,      \* bound: how many events are broadcast
  BroadcastCap,   \* DIAGNOSTIC_BUFFER, 1024 in the code
  RingCap,        \* RING_BUFFER_CAPACITY, 64 in the code
  ChanCap,        \* BATCHER_TO_POLLER_CAPACITY, 16 in the code
  IntervalSecs,   \* batch_interval.as_secs(): 0 for an interval under 1s
  MaxBackoff      \* MAX_BACKOFF_SECS, 60 in the code

ASSUME ConstantsAssumption ==
  /\ Codes \subseteq Int
  /\ MaxEvents \in Nat
  /\ BroadcastCap \in Nat \ {0}
  /\ RingCap \in Nat \ {0}
  /\ ChanCap \in Nat \ {0}
  /\ IntervalSecs \in Nat
  /\ MaxBackoff \in Nat

VARIABLES
  log,        \* the codes broadcast so far; an event is an index into it
  open,       \* some Sender of the diagnostic broadcast is alive
  rx,         \* the next event the batcher's broadcast receiver looks for
  ring,       \* the batcher's ring buffer
  bpc,        \* where the batcher task is
  failedUpTo, \* history: the newest event a failed flush left in the ring
  chan,       \* the mpsc channel of batches
  ppc,        \* where the poller task is
  inflight,   \* the batch the poller is POSTing
  failures,   \* consecutive_failures
  backoff,    \* the poller's current sleep in seconds, 0 when not asleep
  aborting,   \* disconnect has called abort() on both tasks
  arrived,    \* history: the events that reached the endpoint, in order
  accepted,   \* history: the events of batches answered with a 2xx
  lost        \* history: the events given up, by reason

batcherVars == <<rx, ring, bpc, failedUpTo>>
pollerVars  == <<ppc, inflight, failures, backoff>>
vars == <<log, open, batcherVars, chan, pollerVars, aborting, arrived,
          accepted, lost>>

Event       == 1 .. Len(log)
Unread      == Len(log) - rx + 1
LossReason  == {"lagged", "evicted", "refused", "shutdown"}
Queued      == UNION {Range(chan[k]) : k \in DOMAIN chan}
Lost        == UNION {lost[r] : r \in LossReason}

BatcherGone == bpc \in {"done", "aborted"}
Flushing    == bpc \in {"flush", "closing"}
Posting     == ppc \in {"sending", "waiting"}
PollerGone  == ppc \in {"done", "aborted"}

Lose(reason, events) == lost' = [lost EXCEPT ![reason] = @ \union events]

-----------------------------------------------------------------------------
Init ==
  /\ log = <<>>
  /\ open = TRUE
  /\ rx = 1
  /\ ring = <<>>
  /\ bpc = "select"
  /\ failedUpTo = 0
  /\ chan = <<>>
  /\ ppc = "recv"
  /\ inflight = <<>>
  /\ failures = 0
  /\ backoff = 0
  /\ aborting = FALSE
  /\ arrived = <<>>
  /\ accepted = {}
  /\ lost = [r \in LossReason |-> {}]

-----------------------------------------------------------------------------
(* The client around the pipeline.                                         *)

\* The watcher broadcasts a notice: tx.send never blocks and never fails here.
Broadcast(code) ==
  /\ open
  /\ Len(log) < MaxEvents
  /\ log' = Append(log, code)
  /\ UNCHANGED <<open, batcherVars, chan, pollerVars, aborting, arrived,
                 accepted, lost>>

\* The client is dropped and its watcher has ended: no Sender is left.
DropSenders ==
  /\ open
  /\ open' = FALSE
  /\ UNCHANGED <<log, batcherVars, chan, pollerVars, aborting, arrived,
                 accepted, lost>>

\* IbClient::disconnect aborts both handles, with no await in between.  The
\* tasks die later, at an await point (KillBatcher, KillPoller).
Abort ==
  /\ ~aborting
  /\ aborting' = TRUE
  /\ UNCHANGED <<log, open, batcherVars, chan, pollerVars, arrived, accepted,
                 lost>>

-----------------------------------------------------------------------------
(* Faulty variants of the definitions below, each a bug this code could    *)
(* have had.  Nothing uses them but the mutation runs.                     *)

CriticalIsFarmDisconnect(code) == code = 2107

RingFullTooEarly == Len(ring) >= RingCap - 1

SendNeverTimesOut == PollerGone

ChannelNeverCloses == FALSE

FlushSentKeepsRing ==
  /\ Flushing /\ ~PollerGone
  /\ Len(chan) < ChanCap
  /\ chan' = Append(chan, ring)
  /\ bpc' = IF bpc = "closing" THEN "done" ELSE "select"
  /\ UNCHANGED <<log, open, rx, ring, failedUpTo, pollerVars, aborting,
                 arrived, accepted, lost>>

FlushFailedDropsBatch ==
  /\ Flushing
  /\ PollerGone \/ Len(chan) >= ChanCap
  /\ ring' = <<>>
  /\ bpc' = IF bpc = "closing" THEN "done" ELSE "select"
  /\ UNCHANGED <<log, open, rx, failedUpTo, chan, pollerVars, aborting,
                 arrived, accepted, lost>>

ClosedWithoutFlush ==
  /\ bpc = "select" /\ Unread = 0 /\ ~open
  /\ bpc' = "done"
  /\ UNCHANGED <<log, open, rx, ring, failedUpTo, chan, pollerVars, aborting,
                 arrived, accepted, lost>>

PostFailedRetries ==
  /\ ppc \in {"sending", "waiting"}
  /\ failures' = failures + 1
  /\ failures < 2
  /\ ppc' = "sending"
  /\ UNCHANGED <<log, open, batcherVars, chan, inflight, backoff, aborting,
                 arrived, accepted, lost>>

PollerNotAborted == aborting /\ PollerGone /\ UNCHANGED vars

-----------------------------------------------------------------------------
(* run_batcher.  The select! is biased: the receiver is polled first, and  *)
(* the interval tick is taken only when the receiver has nothing to say.   *)

\* code == 10197, the only code the batcher flushes for at once.
IsCritical(code) == code = 10197

RingFull == Len(ring) >= RingCap

\* Ok(event): push it, evicting the oldest entry of a full ring; a critical
\* event goes on to flush_batch.
BatcherRecv ==
  /\ bpc = "select"
  /\ Unread \in 1 .. BroadcastCap
  /\ rx' = rx + 1
  /\ IF RingFull
     THEN /\ ring' = Append(Tail(ring), rx)
          /\ Lose("evicted", {Head(ring)})
     ELSE /\ ring' = Append(ring, rx)
          /\ UNCHANGED lost
  /\ bpc' = IF IsCritical(log[rx]) THEN "flush" ELSE "select"
  /\ UNCHANGED <<log, open, failedUpTo, chan, pollerVars, aborting, arrived,
                 accepted>>

\* Err(Lagged(n)): the broadcast channel has overwritten n unread events.
BatcherLagged ==
  /\ bpc = "select"
  /\ Unread > BroadcastCap
  /\ rx' = Len(log) - BroadcastCap + 1
  /\ Lose("lagged", rx .. Len(log) - BroadcastCap)
  /\ UNCHANGED <<log, open, ring, bpc, failedUpTo, chan, pollerVars, aborting,
                 arrived, accepted>>

\* Err(Closed): everything was received and no Sender is left; flush once
\* more and return.
BatcherClosed ==
  /\ bpc = "select"
  /\ Unread = 0
  /\ ~open
  /\ bpc' = IF ring = <<>> THEN "done" ELSE "closing"
  /\ UNCHANGED <<log, open, rx, ring, failedUpTo, chan, pollerVars, aborting,
                 arrived, accepted, lost>>

\* interval.tick(): flush_batch returns at once when the ring is empty.
BatcherTick ==
  /\ bpc = "select"
  /\ Unread = 0
  /\ open
  /\ ring # <<>>
  /\ bpc' = "flush"
  /\ UNCHANGED <<log, open, rx, ring, failedUpTo, chan, pollerVars, aborting,
                 arrived, accepted, lost>>

-----------------------------------------------------------------------------
(* flush_batch, suspended in timeout(FLUSH_TIMEOUT, batch_tx.send(batch)). *)
(* The task is suspended, so the ring cannot change: the batch is the ring.*)
(* "flush" goes back to the select!, "closing" is the flush after Closed.  *)

\* The send ends without having sent: no receiver, or no room for 5 seconds.
SendFails == PollerGone \/ Len(chan) >= ChanCap

\* Ok(Ok(())): the channel had room; the ring is cleared.
FlushSent ==
  /\ Flushing
  /\ ~PollerGone
  /\ Len(chan) < ChanCap
  /\ chan' = Append(chan, ring)
  /\ ring' = <<>>
  /\ bpc' = IF bpc = "closing" THEN "done" ELSE "select"
  /\ UNCHANGED <<log, open, rx, failedUpTo, pollerVars, aborting, arrived,
                 accepted, lost>>

\* Err(_) after FLUSH_TIMEOUT with the channel full, or SendError because the
\* receiver is gone: the ring is kept, unless the task is about to return.
FlushFailed ==
  /\ Flushing
  /\ SendFails
  /\ failedUpTo' = Last(ring)
  /\ \/ /\ bpc = "flush"
        /\ bpc' = "select"
        /\ UNCHANGED <<ring, lost>>
     \/ /\ bpc = "closing"
        /\ bpc' = "done"
        /\ ring' = <<>>
        /\ Lose("shutdown", Range(ring))
  /\ UNCHANGED <<log, open, rx, chan, pollerVars, aborting, arrived, accepted>>

\* The aborted batcher is dropped at an await, with whatever its ring holds.
KillBatcher ==
  /\ aborting
  /\ ~BatcherGone
  /\ bpc' = "aborted"
  /\ ring' = <<>>
  /\ Lose("shutdown", Range(ring))
  /\ UNCHANGED <<log, open, rx, failedUpTo, chan, pollerVars, aborting,
                 arrived, accepted>>

-----------------------------------------------------------------------------
(* run_poller.  A POST is in two halves: the request reaches the endpoint  *)
(* ("sending" to "waiting") and the poller sees how it ended.  It may fail *)
(* on either side of the first half.                                       *)

PollerRecv ==
  /\ ppc = "recv"
  /\ chan # <<>>
  /\ inflight' = Head(chan)
  /\ chan' = Tail(chan)
  /\ ppc' = "sending"
  /\ UNCHANGED <<log, open, batcherVars, failures, backoff, aborting, arrived,
                 accepted, lost>>

\* The batcher holds the only Sender of the batches: the one it was cloned
\* from dies when with_remote_diagnostics returns.
ChannelClosed == chan = <<>> /\ BatcherGone

\* recv() returned None.
PollerClosed ==
  /\ ppc = "recv"
  /\ ChannelClosed
  /\ ppc' = "done"
  /\ UNCHANGED <<log, open, batcherVars, chan, inflight, failures, backoff,
                 aborting, arrived, accepted, lost>>

\* The endpoint receives the request.
EndpointReceives ==
  /\ ppc = "sending"
  /\ ppc' = "waiting"
  /\ arrived' = arrived \o inflight
  /\ UNCHANGED <<log, open, batcherVars, chan, inflight, failures, backoff,
                 aborting, accepted, lost>>

\* A 2xx answer: the diagnoses in it are broadcast, the failure count reset.
PostOk ==
  /\ ppc = "waiting"
  /\ accepted' = accepted \union Range(inflight)
  /\ failures' = 0
  /\ ppc' = "recv"
  /\ inflight' = <<>>
  /\ UNCHANGED <<log, open, batcherVars, chan, backoff, aborting, arrived, lost>>

\* 429: the batch is gone, and the poller goes straight back to recv.
PostRateLimited ==
  /\ ppc = "waiting"
  /\ ppc' = "recv"
  /\ inflight' = <<>>
  /\ Lose("refused", Range(inflight))
  /\ UNCHANGED <<log, open, batcherVars, chan, failures, backoff, aborting,
                 arrived, accepted>>

\* Any other status, or a transport error before or after the request got
\* there: the batch is gone, and the poller sleeps.
PostFailed ==
  /\ ppc \in {"sending", "waiting"}
  /\ failures' = failures + 1
  /\ LET secs == (failures + 1) * IntervalSecs
     IN  backoff' = IF secs < MaxBackoff THEN secs ELSE MaxBackoff
  /\ ppc' = "backoff"
  /\ inflight' = <<>>
  /\ Lose("refused", Range(inflight))
  /\ UNCHANGED <<log, open, batcherVars, chan, aborting, arrived, accepted>>

BackoffEnds ==
  /\ ppc = "backoff"
  /\ ppc' = "recv"
  /\ backoff' = 0
  /\ UNCHANGED <<log, open, batcherVars, chan, inflight, failures, aborting,
                 arrived, accepted, lost>>

\* The aborted poller is dropped at an await, with its batch and its channel.
KillPoller ==
  /\ aborting
  /\ ~PollerGone
  /\ ppc' = "aborted"
  /\ inflight' = <<>>
  /\ backoff' = 0
  /\ chan' = <<>>
  /\ Lose("shutdown", Range(inflight) \union Queued)
  /\ UNCHANGED <<log, open, batcherVars, failures, aborting, arrived, accepted>>

-----------------------------------------------------------------------------
Environment == (\E code \in Codes : Broadcast(code)) \/ DropSenders \/ Abort

Batcher ==
  \/ BatcherRecv \/ BatcherLagged \/ BatcherClosed \/ BatcherTick
  \/ FlushSent \/ FlushFailed \/ KillBatcher

PollerStep == PollerRecv \/ PollerClosed \/ BackoffEnds \/ KillPoller

Endpoint == EndpointReceives \/ PostOk \/ PostRateLimited \/ PostFailed

Next == Environment \/ Batcher \/ PollerStep \/ Endpoint

Spec == Init /\ [][Next]_vars

\* The runtime polls a task that is ready, timers fire, and an aborted task is
\* dropped the next time it yields, however often it could go on.  Nothing says
\* that a POST ever ends: reqwest::Client::new() sets no request timeout.
TaskFairness ==
  /\ WF_vars(Batcher) /\ WF_vars(KillBatcher)
  /\ WF_vars(PollerStep) /\ WF_vars(KillPoller)

FairSpec == Spec /\ TaskFairness

\* An endpoint that ends every POST one way or the other: what the properties
\* below assume where they speak of events that settle.
EndpointAnswers == WF_vars(Endpoint)

-----------------------------------------------------------------------------
(* Properties.                                                             *)

\* The type of every variable, with the bounds the capacities impose.
TypeOK ==
  /\ log \in Seq(Codes)
  /\ open \in BOOLEAN
  /\ rx \in 1 .. Len(log) + 1
  /\ ring \in Seq(Event) /\ Len(ring) <= RingCap
  /\ bpc \in {"select", "flush", "closing", "done", "aborted"}
  /\ failedUpTo \in 0 .. Len(log)
  /\ chan \in Seq(Seq(Event)) /\ Len(chan) <= ChanCap
  /\ ppc \in {"recv", "sending", "waiting", "backoff", "done", "aborted"}
  /\ inflight \in Seq(Event)
  /\ failures \in Nat
  /\ backoff \in 0 .. MaxBackoff
  /\ aborting \in BOOLEAN
  /\ arrived \in Seq(Event)
  /\ accepted \subseteq Event
  /\ lost \in [LossReason -> SUBSET Event]

Increasing(s) == \A i, j \in DOMAIN s : i < j => s[i] < s[j]

\* The endpoint sees every event at most once and in the order the gateway
\* emitted them, although a failed flush keeps its events for the next one,
\* a full ring drops from the middle of the pipeline, and a POST that failed
\* may have arrived (flush_batch, "Clears the ring after a successful send to
\* prevent cumulative duplication").
ArrivesOnceInOrder == Increasing(arrived)

\* Every event the batcher's receiver has moved past is in exactly one place:
\* a buffer, the accepted set, or the set of one reason for giving it up.
\* No step of the pipeline forgets an event or holds it twice.
Places == <<Range(ring), Queued, Range(inflight), accepted, lost["lagged"],
            lost["evicted"], lost["refused"], lost["shutdown"]>>

Accounted ==
  LET held == Places
  IN  /\ UNION Range(held) = 1 .. rx - 1
      /\ \A i, j \in DOMAIN held : i # j => held[i] \intersect held[j] = {}

\* A critical event waits in the ring for a tick, or is evicted from it, only
\* if a flush was tried while it was there and failed (run_batcher, "On
\* error_code 10197 [...] flushes immediately").
CriticalFlushedFirst ==
  \A e \in Range(ring) \union lost["evicted"] :
    log[e] = 10197 => e <= failedUpTo \/ (e \in Range(ring) /\ Flushing)

\* The ring keeps the last RingCap events: one is evicted only after RingCap
\* younger ones were received, and everything still buffered is younger.
OnlyOldEventsEvicted ==
  \A e \in lost["evicted"] :
    /\ e + RingCap < rx
    /\ \A f \in Range(ring) : e < f

\* No task waits for something that nothing will bring, and a step that ends the
\* wait is never disabled: the batcher waits in the select! only for Senders that
\* live, the poller in recv only for a batcher that lives; a flush, however full
\* the channel, a POST and an abort can each come to their end.
NobodyWaitsInVain ==
  /\ ~BatcherGone =>
       \/ ENABLED <<Batcher>>_vars
       \/ bpc = "select" /\ Unread = 0 /\ open /\ ring = <<>>
  /\ ~PollerGone =>
       \/ ENABLED <<PollerStep>>_vars
       \/ Posting
       \/ ppc = "recv" /\ chan = <<>> /\ ~BatcherGone
  /\ Posting => ENABLED <<Endpoint>>_vars
  /\ aborting /\ ~BatcherGone => ENABLED <<KillBatcher>>_vars
  /\ aborting /\ ~PollerGone => ENABLED <<KillPoller>>_vars

\* The pipeline implements the relay it promises.  An event counts as given
\* up when it is in a loss set without having arrived.
Relay == INSTANCE EventRelay WITH
           published <- Len(log),
           delivered <- arrived,
           gone      <- Lost \ Range(arrived)

ImplementsRelay == Relay!Spec

\* FLUSH_TIMEOUT: a stalled poller never keeps the batcher from going back to
\* its receiver, even when no POST ever ends.
FlushEnds == Flushing ~> ~Flushing

\* After disconnect both tasks die, whatever they were waiting for.
ShutdownCompletes == aborting ~> (BatcherGone /\ PollerGone)

\* When POSTs end, no event stays in the pipeline for ever: it is accepted or
\* given up for a reason, unless the client disconnects.
EveryEventSettles ==
  EndpointAnswers =>
    \A e \in 1 .. MaxEvents :
      (e <= Len(log)) ~> (e \in accepted \union Lost \/ aborting)

\* When the last Sender is dropped the batcher flushes and ends, then, if its
\* POSTs end, the poller does, which closes the channel of diagnoses for its
\* receivers.
PollerEndsWithSenders == EndpointAnswers => (~open ~> PollerGone)
=============================================================================
