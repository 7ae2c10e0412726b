--------------------------- MODULE ClientLifecycle ---------------------------
(***************************************************************************)
(* The life of one IbClient (src/src/client.rs): connect, reconnect,       *)
(* disconnect, with_remote_diagnostics, and what they do to the connection *)
(* (inner), the notice watcher, the remote diagnostics tasks and the       *)
(* contract cache, with contract lookups running beside them.              *)
(*                                                                         *)
(* A step is the code between two await points.  Rust's borrows are        *)
(* guards: reconnect (&mut self) and with_remote_diagnostics (self) run    *)
(* only when no &self call, a lookup or a disconnect, is in flight.  What  *)
(* the pipelines do inside is RemoteDiagnostics; its DropSenders and Abort *)
(* are SendersGone and DisconnectStarts here.                              *)
(***************************************************************************)
EXTENDS Integers, FiniteSets

CONSTANTS
  Task,          \* the tasks that look contracts up
  Key,           \* contract cache keys
  MaxSessions,   \* bound: connections opened
  MaxPipelines,  \* bound: calls of with_remote_diagnostics
  MaxNotices     \* bound: notices waiting in one notice stream

ASSUME BoundsAssumption ==
  MaxSessions \in Nat /\ MaxPipelines \in Nat /\ MaxNotices \in Nat

Session  == 1 .. MaxSessions
Pipeline == 1 .. MaxPipelines
None     == 0  \* no session, no pipeline; never a lookup key
Idle     == "no lookup"

VARIABLES
  call,           \* the connect or reconnect in progress, or "idle"
  opened,         \* the sessions opened so far; the last is the one being set up
  inner,          \* the session self.inner talks through
  net,            \* each session's connection; a mute one is up without notices
  watcher,        \* each session's notice watcher task
  notices,        \* the notices waiting in each watcher's stream
  watchAborted,   \* the sessions whose watcher was aborted
  handle,         \* the watcher self._diagnostic_task belongs to
  disconnecting,  \* a disconnect waits for the gateway
  cache,          \* the session each cached contract was fetched from
  fetch,          \* the key each task is fetching
  configured,     \* _remote_diag_configured
  remote,         \* the pipeline _remote_batcher and _remote_poller belong to
  pipes,          \* the pipelines started so far
  pipe,           \* each pipeline's tasks
  pipeAborted     \* the pipelines whose tasks were aborted

watchVars  == <<watcher, notices, watchAborted, handle>>
cacheVars  == <<cache, fetch>>
remoteVars == <<configured, remote, pipes, pipe, pipeAborted>>
vars == <<call, opened, inner, net, watchVars, disconnecting, cacheVars, remoteVars>>

Watching(s)  == watcher[s] \in {"parked", "polling"}
Exclusive    == call = "idle" /\ ~disconnecting /\ \A t \in Task : fetch[t] = Idle
EmptyCache   == [k \in Key |-> None]
Connected(s) == net[s] \in {"up", "mute"}
SendersGone  == call = "dropped" /\ \A s \in Session : ~Watching(s)

Init ==
  /\ call = "none"
  /\ opened = 0
  /\ inner = None
  /\ net = [s \in Session |-> "free"]
  /\ watcher = [s \in Session |-> "none"]
  /\ notices = [s \in Session |-> 0]
  /\ watchAborted = {}
  /\ handle = None
  /\ disconnecting = FALSE
  /\ cache = EmptyCache
  /\ fetch = [t \in Task |-> Idle]
  /\ configured = FALSE
  /\ remote = None
  /\ pipes = 0
  /\ pipe = [p \in Pipeline |-> "none"]
  /\ pipeAborted = {}

-----------------------------------------------------------------------------
(* The gateway.                                                            *)

ConnectionLost(s) ==
  /\ Connected(s)
  /\ net' = [net EXCEPT ![s] = "lost"]
  /\ UNCHANGED <<call, opened, inner, watchVars, disconnecting, cacheVars, remoteVars>>

NoticeArrives(s) ==
  /\ net[s] = "up" /\ Watching(s)
  /\ notices[s] < MaxNotices
  /\ notices' = [notices EXCEPT ![s] = @ + 1]
  /\ UNCHANGED <<call, opened, inner, net, watcher, watchAborted, handle,
                 disconnecting, cacheVars, remoteVars>>

\* ibapi ends the notice stream of a connection that is "nominally live"
\* (client.rs:363): no notice comes any more until a reconnect.
NoticeStreamEnds(s) ==
  /\ net[s] = "up" /\ Watching(s)
  /\ net' = [net EXCEPT ![s] = "mute"]
  /\ UNCHANGED <<call, opened, inner, watchVars, disconnecting, cacheVars, remoteVars>>

-----------------------------------------------------------------------------
(* connect and reconnect.                                                  *)

\* ibapi::Client::connect has succeeded, in connect or in reconnect.
TransportConnects ==
  /\ call \in {"none", "reconnecting"}
  /\ opened < MaxSessions
  /\ opened' = opened + 1
  /\ net' = [net EXCEPT ![opened + 1] = "up"]
  /\ call' = IF call = "none" THEN "connect setup" ELSE "reconnect setup"
  /\ UNCHANGED <<inner, watchVars, disconnecting, cacheVars, remoteVars>>

\* switch_market_data_type or notice_stream has failed: the new ibapi client
\* is dropped.  A reconnect leaves self as it is, with the old, closed inner.
SetupFails ==
  /\ call \in {"connect setup", "reconnect setup"}
  /\ net' = [net EXCEPT ![opened] = "closed"]
  /\ call' = IF call = "connect setup" THEN "none" ELSE "idle"
  /\ UNCHANGED <<opened, inner, watchVars, disconnecting, cacheVars, remoteVars>>

ReconnectRefused ==
  /\ call = "reconnecting"
  /\ call' = "idle"
  /\ UNCHANGED <<opened, inner, net, watchVars, disconnecting, cacheVars, remoteVars>>

\* Subscribe to the notices of the new session and spawn its watcher.
SpawnWatcher ==
  /\ watcher' = [watcher EXCEPT ![opened] = "parked"]
  /\ handle' = opened
  /\ UNCHANGED <<notices, watchAborted>>

ConnectCompletes ==
  /\ call = "connect setup"
  /\ SpawnWatcher
  /\ inner' = opened
  /\ call' = "idle"
  /\ UNCHANGED <<opened, net, disconnecting, cacheVars, remoteVars>>

\* Faulty: the old watcher is only detached.
ReconnectStarts_KeepsWatcher ==
  /\ Exclusive
  /\ call' = "releasing"
  /\ UNCHANGED <<opened, inner, net, watchVars, disconnecting, cacheVars, remoteVars>>

ReconnectStarts ==
  /\ Exclusive
  /\ watchAborted' = watchAborted \union {handle}
  /\ call' = "releasing"
  /\ UNCHANGED <<opened, inner, net, watcher, notices, handle, disconnecting,
                 cacheVars, remoteVars>>

\* Faulty: the old connection is left to its own devices.
OldConnectionReleased_Kept ==
  /\ call = "releasing"
  /\ call' = "reconnecting"
  /\ UNCHANGED <<opened, inner, net, watchVars, disconnecting, cacheVars, remoteVars>>

\* self.inner.disconnect() is done: the gateway has freed the client id.
OldConnectionReleased ==
  /\ call = "releasing"
  /\ net' = [net EXCEPT ![inner] = "closed"]
  /\ call' = "reconnecting"
  /\ UNCHANGED <<opened, inner, watchVars, disconnecting, cacheVars, remoteVars>>

\* Faulty: the cache outlives the session (issue 5).
ReconnectCompletes_KeepsCache ==
  /\ call = "reconnect setup"
  /\ SpawnWatcher
  /\ inner' = opened
  /\ configured' = FALSE
  /\ remote' = None
  /\ call' = "idle"
  /\ UNCHANGED <<opened, net, disconnecting, cacheVars, pipes, pipe, pipeAborted>>

\* The handles of the remote tasks are dropped, which does not stop the tasks.
ReconnectCompletes ==
  /\ call = "reconnect setup"
  /\ SpawnWatcher
  /\ inner' = opened
  /\ cache' = EmptyCache
  /\ configured' = FALSE
  /\ remote' = None
  /\ call' = "idle"
  /\ UNCHANGED <<opened, net, disconnecting, fetch, pipes, pipe, pipeAborted>>

-----------------------------------------------------------------------------
(* disconnect, and dropping the client.                                    *)

\* Faulty: only the watcher is aborted.
DisconnectStarts_KeepsRemote ==
  /\ call = "idle" /\ ~disconnecting
  /\ watchAborted' = watchAborted \union {handle}
  /\ disconnecting' = TRUE
  /\ UNCHANGED <<call, opened, inner, net, watcher, notices, handle, cacheVars,
                 remoteVars>>

DisconnectStarts ==
  /\ call = "idle" /\ ~disconnecting
  /\ watchAborted' = watchAborted \union {handle}
  /\ pipeAborted' = pipeAborted \union ({remote} \ {None})
  /\ disconnecting' = TRUE
  /\ UNCHANGED <<call, opened, inner, net, watcher, notices, handle, cacheVars,
                 configured, remote, pipes, pipe>>

DisconnectReturns ==
  /\ disconnecting
  /\ net' = [net EXCEPT ![inner] = "closed"]
  /\ disconnecting' = FALSE
  /\ UNCHANGED <<call, opened, inner, watchVars, cacheVars, remoteVars>>

\* The caller lets go of the client; or calls with_remote_diagnostics a second
\* time, which panics with the client in its hands.  The tasks are detached.
DropClient ==
  /\ Exclusive
  /\ net' = [net EXCEPT ![inner] = "closed"]
  /\ call' = "dropped"
  /\ UNCHANGED <<opened, inner, watchVars, disconnecting, cacheVars, remoteVars>>

-----------------------------------------------------------------------------
(* The notice watcher: it publishes every notice that is ready before it   *)
(* yields, and abort takes effect only when it has yielded.                *)

WatcherWakes(s) ==
  /\ watcher[s] = "parked"
  /\ s \notin watchAborted
  /\ notices[s] > 0 \/ net[s] # "up"
  /\ watcher' = [watcher EXCEPT ![s] = "polling"]
  /\ UNCHANGED <<call, opened, inner, net, notices, watchAborted, handle,
                 disconnecting, cacheVars, remoteVars>>

WatcherPublishes(s) ==
  /\ watcher[s] = "polling"
  /\ notices[s] > 0
  /\ notices' = [notices EXCEPT ![s] = @ - 1]
  /\ UNCHANGED <<call, opened, inner, net, watcher, watchAborted, handle,
                 disconnecting, cacheVars, remoteVars>>

\* Faulty: the loop gives up on a quiet stream.
WatcherParks_Stops(s) ==
  /\ watcher[s] = "polling"
  /\ notices[s] = 0
  /\ net[s] = "up"
  /\ watcher' = [watcher EXCEPT ![s] = "ended"]
  /\ UNCHANGED <<call, opened, inner, net, notices, watchAborted, handle,
                 disconnecting, cacheVars, remoteVars>>

WatcherParks(s) ==
  /\ watcher[s] = "polling"
  /\ notices[s] = 0
  /\ net[s] = "up"
  /\ watcher' = [watcher EXCEPT ![s] = "parked"]
  /\ UNCHANGED <<call, opened, inner, net, notices, watchAborted, handle,
                 disconnecting, cacheVars, remoteVars>>

\* Faulty: the end of the stream is taken for a quiet moment.
WatcherStreamEnds_Parks(s) ==
  /\ watcher[s] = "polling"
  /\ notices[s] = 0
  /\ net[s] # "up"
  /\ watcher' = [watcher EXCEPT ![s] = "parked"]
  /\ UNCHANGED <<call, opened, inner, net, notices, watchAborted, handle,
                 disconnecting, cacheVars, remoteVars>>

\* The stream is over, with its connection or by itself, and its notices are
\* published: None leaves the loop.
WatcherStreamEnds(s) ==
  /\ watcher[s] = "polling"
  /\ notices[s] = 0
  /\ net[s] # "up"
  /\ watcher' = [watcher EXCEPT ![s] = "ended"]
  /\ UNCHANGED <<call, opened, inner, net, notices, watchAborted, handle,
                 disconnecting, cacheVars, remoteVars>>

WatcherDies(s) ==
  /\ watcher[s] = "parked"
  /\ s \in watchAborted
  /\ watcher' = [watcher EXCEPT ![s] = "ended"]
  /\ UNCHANGED <<call, opened, inner, net, notices, watchAborted, handle,
                 disconnecting, cacheVars, remoteVars>>

Watcher(s) ==
  \/ WatcherWakes(s) \/ WatcherPublishes(s) \/ WatcherParks(s)
  \/ WatcherStreamEnds(s) \/ WatcherDies(s)

-----------------------------------------------------------------------------
(* The remote diagnostics pipelines.                                       *)

\* with_remote_diagnostics, when it does not panic.
WithRemoteDiagnostics ==
  /\ Exclusive
  /\ ~configured
  /\ pipes < MaxPipelines
  /\ pipes' = pipes + 1
  /\ pipe' = [pipe EXCEPT ![pipes + 1] = "running"]
  /\ configured' = TRUE
  /\ remote' = pipes + 1
  /\ UNCHANGED <<call, opened, inner, net, watchVars, disconnecting, cacheVars, pipeAborted>>

PipelineDies(p) ==
  /\ pipe[p] = "running"
  /\ p \in pipeAborted
  /\ pipe' = [pipe EXCEPT ![p] = "ended"]
  /\ UNCHANGED <<call, opened, inner, net, watchVars, disconnecting, cacheVars,
                 configured, remote, pipes, pipeAborted>>

\* No sender of the diagnostic broadcast is left: the batcher flushes and ends,
\* and the poller with it.
PipelineCloses(p) ==
  /\ pipe[p] = "running"
  /\ SendersGone
  /\ pipe' = [pipe EXCEPT ![p] = "ended"]
  /\ UNCHANGED <<call, opened, inner, net, watchVars, disconnecting, cacheVars,
                 configured, remote, pipes, pipeAborted>>

-----------------------------------------------------------------------------
(* cached_contract_details: the cache is locked to look and locked again   *)
(* to insert, not in between.  A hit changes nothing.                      *)

FetchMissing(t, k) ==
  /\ call = "idle"
  /\ fetch[t] = Idle
  /\ cache[k] = None
  /\ fetch' = [fetch EXCEPT ![t] = k]
  /\ UNCHANGED <<call, opened, inner, net, watchVars, disconnecting, cache, remoteVars>>

FetchReturns(t) ==
  /\ fetch[t] # Idle
  /\ fetch' = [fetch EXCEPT ![t] = Idle]
  /\ \/ cache' = [cache EXCEPT ![fetch[t]] = inner]  \* some details
     \/ UNCHANGED cache                              \* none, or an error
  /\ UNCHANGED <<call, opened, inner, net, watchVars, disconnecting, remoteVars>>

-----------------------------------------------------------------------------
Client ==
  \/ TransportConnects \/ SetupFails \/ ReconnectRefused
  \/ ConnectCompletes \/ ReconnectStarts \/ OldConnectionReleased \/ ReconnectCompletes
  \/ DisconnectStarts \/ DisconnectReturns \/ DropClient \/ WithRemoteDiagnostics

Next ==
  \/ Client
  \/ \E s \in Session :
       ConnectionLost(s) \/ NoticeArrives(s) \/ NoticeStreamEnds(s) \/ Watcher(s)
  \/ \E p \in Pipeline : PipelineDies(p) \/ PipelineCloses(p)
  \/ \E t \in Task : FetchReturns(t) \/ \E k \in Key : FetchMissing(t, k)

Spec == Init /\ [][Next]_vars

\* The runtime polls every task that is ready and kills every task that was
\* aborted and has yielded, and ibapi's disconnect returns.  No caller has to
\* call anything, no connection attempt has to be answered, and no notice
\* stream ends by itself.
CallFairness        == WF_vars(OldConnectionReleased) /\ WF_vars(DisconnectReturns)
WatcherFairness(s)  == WF_vars(Watcher(s))
PipelineFairness(p) == WF_vars(PipelineDies(p))

FairSpec ==
  /\ Spec
  /\ CallFairness
  /\ \A s \in Session : WatcherFairness(s)
  /\ \A p \in Pipeline : PipelineFairness(p)

\* A POST of a batch has no timeout (remote.rs:181-199): a pipeline gets to its
\* end, after the last flush, only if the endpoint answers, as in
\* RemoteDiagnostics.  The code does not see to that.
PipelineAnswers(p) == WF_vars(PipelineCloses(p))
EndpointAnswers    == \A p \in Pipeline : PipelineAnswers(p)

-----------------------------------------------------------------------------
(* Properties.                                                             *)

\* The types, and what is not there yet.
TypeOK ==
  /\ call \in {"none", "connect setup", "idle", "releasing", "reconnecting",
               "reconnect setup", "dropped"}
  /\ opened \in 0 .. MaxSessions
  /\ inner \in 0 .. opened
  /\ net \in [Session -> {"free", "up", "mute", "lost", "closed"}]
  /\ watcher \in [Session -> {"none", "parked", "polling", "ended"}]
  /\ notices \in [Session -> 0 .. MaxNotices]
  /\ watchAborted \subseteq Session
  /\ handle \in 0 .. opened
  /\ disconnecting \in BOOLEAN
  /\ cache \in [Key -> 0 .. opened]
  /\ fetch \in [Task -> Key \union {Idle}]
  /\ configured \in BOOLEAN
  /\ pipes \in 0 .. MaxPipelines
  /\ remote \in 0 .. pipes
  /\ pipe \in [Pipeline -> {"none", "running", "ended"}]
  /\ pipeAborted \subseteq Pipeline
  /\ (call \in {"none", "connect setup"}) <=> (inner = None)
  /\ disconnecting => call = "idle"
  /\ \A t \in Task : fetch[t] # Idle => call = "idle"

\* A client whose connection is up is watched: outside of its own calls, the
\* watcher it holds listens to the session it talks through and has not been
\* aborted, whatever reconnects failed half way (client.rs:419-486).  Only a
\* session whose own notice stream broke is silent, "until reconnect"
\* (client.rs:362-370), and what reconnect hands over is watched again.
LiveClientIsWatched ==
  call = "idle" /\ ~disconnecting /\ Connected(inner)
    => /\ handle = inner
       /\ net[inner] = "up" => Watching(inner)
       /\ inner \notin watchAborted

\* One client never holds two connections of its client id: the old one is
\* released before the new one is made ("freeing its client_id", client.rs:408).
OneConnection ==
  \A s, r \in Session : Connected(s) /\ Connected(r) => s = r

\* Every watcher but the one the client holds has been told to stop, so no
\* notice is broadcast for two sessions at a time for longer than the old
\* watcher takes to yield.
StrayWatchersAborted ==
  \A s \in Session : Watching(s) => s = handle \/ s \in watchAborted

\* "Cleared on reconnect" (client.rs:212): a cached contract is always one of
\* the session the client talks through, whatever reconnects failed half way.
CacheOfThisSession == \A k \in Key : cache[k] \in {None, inner}

\* A task that runs has something to wait for: the watcher a stream that is
\* open, unless it was aborted, a pipeline a sender that lives or an answer of
\* the endpoint; and a call that waits for the old connection to close is not
\* alone in waiting.
TasksNeverStuck ==
  /\ call = "releasing" => ENABLED <<OldConnectionReleased>>_vars
  /\ disconnecting => ENABLED <<DisconnectReturns>>_vars
  /\ \A s \in Session : Watching(s) =>
       \/ ENABLED <<Watcher(s)>>_vars
       \/ watcher[s] = "parked" /\ s \notin watchAborted /\ net[s] = "up"
  /\ \A p \in Pipeline : pipe[p] = "running" =>
       /\ p \in pipeAborted => ENABLED <<PipelineDies(p)>>_vars
       /\ SendersGone => ENABLED <<PipelineCloses(p)>>_vars

\* A burst of notices is over some time after its connection is.
BurstEnds(s) == ~(net[s] = "up") ~> (watcher[s] = "polling" => notices[s] = 0)

NothingStuck == []TasksNeverStuck /\ \A s \in Session : BurstEnds(s)

\* disconnect stops the tasks the client holds: the watcher, even in the middle
\* of a burst of notices, and the remote tasks.
DisconnectStops ==
  /\ \A s \in Session : disconnecting /\ handle = s ~> ~Watching(s)
  /\ \A p \in Pipeline : disconnecting /\ remote = p ~> pipe[p] = "ended"

\* Tasks never wait in vain, and a dropped client leaves none behind, detached
\* ones included: no watcher whatever happens, and no remote task if the
\* endpoint answers.
DropEndsTasks ==
  /\ NothingStuck
  /\ call = "dropped" ~> \A s \in Session : ~Watching(s)
  /\ EndpointAnswers
       => (call = "dropped" ~> \A p \in Pipeline : pipe[p] # "running")

\* "Panics if called more than once on the same client (double-invocation
\* guard)" (client.rs:510): one pipeline at a time posts the client's events.
OnePipeline ==
  \A p, q \in Pipeline : pipe[p] = "running" /\ pipe[q] = "running" => p = q
=============================================================================
