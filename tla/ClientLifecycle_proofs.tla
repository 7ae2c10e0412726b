------------------------ MODULE ClientLifecycle_proofs ------------------------
(***************************************************************************)
(* The safety invariants of ClientLifecycle, and the end of its tasks, for *)
(* any number of tasks, keys, sessions, pipelines and notices.             *)
(*                                                                         *)
(* The invariants are not inductive by themselves: that a completed        *)
(* connect is watched, and that the connection it replaces is gone,        *)
(* depends on where the call is and on which sessions exist yet.  Shape    *)
(* says that.                                                              *)
(*                                                                         *)
(* The tasks end under FairSpec if NothingStuck: TLAPS neither evaluates   *)
(* ENABLED nor counts a burst of notices down, and TLC checks both.        *)
(***************************************************************************)
EXTENDS ClientLifecycle, TLAPS

Settings == {"connect setup", "reconnect setup"}

\* The session that may be up is the one the call is about.
Current == IF call \in Settings THEN opened
           ELSE IF call \in {"idle", "releasing"} THEN inner ELSE None

HandleIsInner == handle = inner

\* Nothing is known yet of the sessions to come.
LaterUntouched ==
  \A s \in Session : s > opened => net[s] = "free" /\ watcher[s] = "none"

\* A session without a watcher yet is neither aborted nor talked through.
SpawnedFirst ==
  \A s \in Session : watcher[s] = "none" => s \notin watchAborted /\ s # inner

UpIsCurrent == \A s \in Session : Connected(s) => s = Current

SetUpUnwatched == call \in Settings => inner < opened /\ watcher[opened] = "none"

\* While a reconnect is under way the watcher it leaves has been told to stop.
OldWatcherAborted ==
  call \in {"releasing", "reconnecting", "reconnect setup"} => inner \in watchAborted

Shape ==
  /\ HandleIsInner
  /\ OldWatcherAborted
  /\ LaterUntouched
  /\ SpawnedFirst
  /\ UpIsCurrent
  /\ SetUpUnwatched

Safety ==
  /\ LiveClientIsWatched
  /\ StrayWatchersAborted
  /\ CacheOfThisSession

IInv == TypeOK /\ Shape /\ Safety

-----------------------------------------------------------------------------
(* What the types say of the numbers.                                      *)

NetState   == {"free", "up", "mute", "lost", "closed"}
WatchState == {"none", "parked", "polling", "ended"}

\* The sessions and pipelines of the state are numbers within their bounds.
LEMMA Numbers ==
  ASSUME TypeOK
  PROVE  /\ opened \in Nat /\ opened <= MaxSessions
         /\ inner \in Nat /\ inner <= opened
         /\ pipes \in Nat /\ pipes <= MaxPipelines
         /\ Session \subseteq Nat \ {0}
         /\ \A n \in Nat : n # 0 /\ n <= MaxSessions => n \in Session
         /\ inner # None => inner \in Session
         /\ net \in [Session -> NetState] /\ watcher \in [Session -> WatchState]
         /\ call \in {"none", "connect setup"} <=> inner = None
<1>1. opened \in Nat /\ opened <= MaxSessions /\ pipes \in Nat /\ pipes <= MaxPipelines
  <2>1. opened \in 0 .. MaxSessions /\ pipes \in 0 .. MaxPipelines
    BY DEF TypeOK
  <2> QED
    BY <2>1, BoundsAssumption
<1>2. inner \in 0 .. opened
  BY DEF TypeOK
<1>3. inner \in Nat /\ inner <= opened
  BY <1>1, <1>2
<1>4. /\ Session \subseteq Nat \ {0}
      /\ \A n \in Nat : n # 0 /\ n <= MaxSessions => n \in Session
  BY BoundsAssumption DEF Session
<1>5. inner # None => inner \in Session
  <2>1. inner # 0 => inner <= MaxSessions
    BY <1>1, <1>3, BoundsAssumption
  <2> QED
    BY <1>3, <1>4, <2>1 DEF None
<1>6. /\ net \in [Session -> NetState] /\ watcher \in [Session -> WatchState]
      /\ call \in {"none", "connect setup"} <=> inner = None
  BY DEF TypeOK, NetState, WatchState
<1> QED
  BY <1>1, <1>3, <1>4, <1>5, <1>6

\* What a session undergoes.
Gateway(s) == ConnectionLost(s) \/ NoticeArrives(s) \/ NoticeStreamEnds(s)

\* A session that is being set up is new; the sessions to come are others.
LEMMA SettingUp ==
  ASSUME IInv, call \in Settings
  PROVE  opened \in Session /\ inner < opened /\ watcher[opened] = "none"
<1>1. inner < opened /\ watcher[opened] = "none"
  BY DEF IInv, Shape, SetUpUnwatched
<1>2. opened \in Nat /\ inner \in Nat /\ opened <= MaxSessions
  BY Numbers DEF IInv
<1>3. opened # 0
  BY <1>1, <1>2
<1>4. \A n \in Nat : n # 0 /\ n <= MaxSessions => n \in Session
  BY Numbers DEF IInv
<1>5. opened \in Session
  BY <1>2, <1>3, <1>4
<1> QED
  BY <1>1, <1>5

\* A session to come is none of the sessions there are.
LEMMA LaterIsOther ==
  ASSUME TypeOK, NEW s \in Session, s > opened
  PROVE  s # opened /\ s # inner /\ (s # opened + 1 => s > opened + 1)
<1>1. s \in Nat /\ opened \in Nat /\ inner \in Nat /\ inner <= opened
  BY Numbers
<1> QED
  BY <1>1

\* A session after the next one is to come already now.
LEMMA EarlierThanNext ==
  ASSUME TypeOK, NEW s \in Session, s > opened + 1
  PROVE  s > opened /\ s # opened + 1
<1>1. s \in Nat /\ opened \in Nat
  BY Numbers
<1> QED
  BY <1>1

\* The initial states satisfy the invariant.
LEMMA InitInv == Init => IInv
<1> SUFFICES ASSUME Init PROVE IInv
  OBVIOUS
<1>1. TypeOK
  <2>1. /\ opened \in 0 .. MaxSessions /\ inner \in 0 .. opened /\ handle \in 0 .. opened
        /\ pipes \in 0 .. MaxPipelines /\ remote \in 0 .. pipes
    BY BoundsAssumption DEF Init, None
  <2>2. /\ net \in [Session -> NetState] /\ watcher \in [Session -> WatchState]
        /\ pipe \in [Pipeline -> {"none", "running", "ended"}]
        /\ fetch \in [Task -> Key \union {Idle}] /\ \A t \in Task : fetch[t] = Idle
    BY DEF Init, NetState, WatchState
  <2>3. notices \in [Session -> 0 .. MaxNotices] /\ cache \in [Key -> 0 .. opened]
    BY BoundsAssumption DEF Init, EmptyCache, None
  <2>4. /\ watchAborted = {} /\ pipeAborted = {}
        /\ disconnecting = FALSE /\ configured = FALSE /\ call = "none" /\ inner = None
    BY DEF Init
  <2> HIDE DEF Init
  <2> QED
    BY <2>1, <2>2, <2>3, <2>4 DEF TypeOK, NetState, WatchState
<1>2. Shape
  BY DEF Init, Shape, HandleIsInner, OldWatcherAborted, LaterUntouched,
         SpawnedFirst, UpIsCurrent,
         SetUpUnwatched, Settings, Current, Connected, Session, None
<1>3. Safety
  BY DEF Init, Safety, LiveClientIsWatched, StrayWatchersAborted, CacheOfThisSession,
         Watching, EmptyCache, None
<1> QED
  BY <1>1, <1>2, <1>3 DEF IInv

-----------------------------------------------------------------------------
\* A watcher ends only when its stream is over or when it was told to.
LEMMA WatcherMoves ==
  ASSUME IInv, NEW s \in Session, Watching(s),
         NEW w \in {"parked", "polling", "ended"},
         w = "ended" => net[s] # "up" \/ s \in watchAborted,
         watcher' = [watcher EXCEPT ![s] = w],
         UNCHANGED <<call, opened, inner, net, notices, watchAborted, handle,
                     disconnecting, cacheVars, remoteVars>>
  PROVE  IInv'
<1>1. TypeOK'
  BY DEF IInv, TypeOK, cacheVars, remoteVars
<1>2. watcher \in [Session -> WatchState] /\ inner # None => inner \in Session
  BY Numbers DEF IInv
<1>3. \A q \in Session : watcher'[q] = "none" <=> watcher[q] = "none"
  BY <1>2 DEF Watching, IInv, TypeOK
<1>4. \A q \in Session : /\ Watching(q)' => Watching(q)
                         /\ Watching(q) => \/ Watching(q)'
                                           \/ net[q] # "up" \/ q \in watchAborted
  BY DEF Watching, IInv, TypeOK
<1>5. Shape'
  <2>1. SetUpUnwatched'
    <3>1. call \in Settings => opened \in Session
      BY SettingUp
    <3> QED
      BY <1>3, <3>1 DEF IInv, Shape, SetUpUnwatched
  <2> QED
    BY <1>3, <2>1 DEF IInv, Shape, HandleIsInner, OldWatcherAborted, LaterUntouched, SpawnedFirst,
                      UpIsCurrent, Current, Connected
<1>6. Safety'
  <2>1. LiveClientIsWatched'
    <3>1. call = "idle" => inner \in Session
      BY Numbers DEF IInv, TypeOK
    <3> QED
      BY <1>4, <3>1 DEF IInv, Safety, LiveClientIsWatched, Connected
  <2> QED
    BY <1>4, <2>1 DEF IInv, Safety, StrayWatchersAborted, CacheOfThisSession, cacheVars
<1> QED
  BY <1>1, <1>5, <1>6 DEF IInv

\* A step that leaves the sessions, their watchers and the cache alone.
LEMMA ElsewhereKeeps ==
  ASSUME IInv, TypeOK',
         UNCHANGED <<call, opened, inner, net, watcher, watchAborted, handle,
                     disconnecting, cache>>
  PROVE  IInv'
BY DEF IInv, Shape, HandleIsInner, OldWatcherAborted, LaterUntouched,
         SpawnedFirst, UpIsCurrent, SetUpUnwatched, Current, Connected,
       Safety, LiveClientIsWatched, StrayWatchersAborted, CacheOfThisSession, Watching

\* A connection that is made is not watched yet, and the only one that is up.
LEMMA TransportKeeps == ASSUME IInv, TransportConnects PROVE IInv'
<1>0. /\ opened' = opened + 1 /\ call' \in Settings
      /\ net' = [net EXCEPT ![opened + 1] = "up"]
      /\ UNCHANGED <<inner, watcher, notices, watchAborted, handle, disconnecting, cache,
                     fetch, remoteVars>>
  BY DEF TransportConnects, Settings, watchVars, cacheVars
<1>9. opened \in Nat /\ inner \in Nat /\ inner <= opened /\ opened < MaxSessions
  BY Numbers DEF IInv, TransportConnects
<1>1. opened + 1 \in Session /\ opened + 1 > opened /\ inner < opened + 1
  <2>1. opened + 1 \in Nat /\ opened + 1 # 0 /\ opened + 1 <= MaxSessions
    BY <1>9, BoundsAssumption
  <2>2. \A n \in Nat : n # 0 /\ n <= MaxSessions => n \in Session
    BY Numbers DEF IInv
  <2>3. opened + 1 > opened /\ inner < opened + 1
    BY <1>9
  <2> QED
    BY <2>1, <2>2, <2>3
<1>2. /\ net' \in [Session -> NetState]
      /\ \A s \in Session : s # opened + 1 => net'[s] = net[s]
  BY <1>0, <1>1, Numbers DEF IInv, NetState
<1>3. TypeOK'
  <2>1. opened' \in 0 .. MaxSessions /\ \A n \in 0 .. opened : n \in 0 .. opened'
    <3>1. opened + 1 \in 0 .. MaxSessions
      BY <1>9, BoundsAssumption
    <3>2. \A n \in 0 .. opened : n \in 0 .. opened + 1
      BY <1>9
    <3> QED
      BY <1>0, <3>1, <3>2
  <2>2. /\ inner' \in 0 .. opened' /\ handle' \in 0 .. opened'
        /\ cache' \in [Key -> 0 .. opened']
    BY <1>0, <2>1 DEF IInv, TypeOK
  <2>3. /\ call \in {"none", "reconnecting"} /\ call' \in {"connect setup", "reconnect setup"}
        /\ call' = "connect setup" <=> inner' = None
        /\ ~disconnecting /\ \A t \in Task : fetch[t] = Idle
    BY <1>0 DEF IInv, TypeOK, TransportConnects, Settings
  <2> QED
    BY <1>0, <1>2, <2>1, <2>2, <2>3 DEF IInv, TypeOK, NetState, remoteVars
<1>4. Shape'
  <2>1. \A s \in Session : ~Connected(s)
    <3>1. Current = None
      BY DEF TransportConnects, Current, Settings
    <3> QED
      BY <3>1, Numbers DEF IInv, Shape, UpIsCurrent, None
  <2>2. LaterUntouched'
    BY <1>0, <1>2, EarlierThanNext DEF IInv, Shape, LaterUntouched
  <2>5. UpIsCurrent'
    BY <1>0, <1>2, <2>1 DEF UpIsCurrent, Current, Connected
  <2>3. SetUpUnwatched'
    BY <1>0, <1>1 DEF IInv, Shape, LaterUntouched, SetUpUnwatched
  <2> QED
    BY <1>0, <2>2, <2>3, <2>5
    DEF TransportConnects, IInv, Shape, HandleIsInner, OldWatcherAborted, SpawnedFirst
<1>5. Safety'
  BY <1>0 DEF Settings, IInv, Safety, LiveClientIsWatched, StrayWatchersAborted,
              CacheOfThisSession, Watching
<1> QED
  BY <1>3, <1>4, <1>5 DEF IInv

\* A connection given up during its set-up was not in use yet.
LEMMA SetupFailKeeps == ASSUME IInv, SetupFails PROVE IInv'
<1>0. /\ net' = [net EXCEPT ![opened] = "closed"]
      /\ call \in Settings /\ call' \in {"none", "idle"}
      /\ UNCHANGED <<opened, inner, watcher, notices, watchAborted, handle, disconnecting,
                     cache, fetch, remoteVars>>
  BY DEF SetupFails, Settings, watchVars, cacheVars
<1>1. inner < opened /\ watcher[opened] = "none" /\ opened \in Session
  BY <1>0, SettingUp
<1>2. /\ net' \in [Session -> NetState] /\ net'[opened] = "closed"
      /\ \A s \in Session : s # opened => net'[s] = net[s]
  BY <1>0, <1>1, Numbers DEF IInv, NetState
<1>3. \A s \in Session : ~Connected(s)'
  BY <1>0, <1>2 DEF IInv, Shape, UpIsCurrent, Current, Connected
<1>4. TypeOK'
  <2>1. (call' = "none") <=> (inner = None)
    BY <1>0, Numbers DEF SetupFails, IInv, Settings
  <2> QED
    BY <1>0, <1>2, <2>1 DEF IInv, TypeOK, NetState, Settings, remoteVars
<1>5. Shape'
  <2>1. LaterUntouched'
    BY <1>0, <1>2, LaterIsOther DEF IInv, Shape, LaterUntouched
  <2> QED
    BY <1>0, <1>3, <2>1
    DEF IInv, Shape, HandleIsInner, OldWatcherAborted, SpawnedFirst, UpIsCurrent,
        SetUpUnwatched, Settings
<1>6. Safety'
  <2>1. call' = "idle" => inner \in Session
    BY <1>0, Numbers DEF SetupFails, IInv, Settings
  <2> QED
    BY <1>0, <1>3, <2>1
    DEF IInv, Safety, LiveClientIsWatched, StrayWatchersAborted, CacheOfThisSession, Watching
<1> QED
  BY <1>4, <1>5, <1>6 DEF IInv

\* A connection handed to the client is watched, and its cache is empty.
LEMMA SpawnKeeps ==
  ASSUME IInv, call \in Settings, SpawnWatcher, inner' = opened, call' = "idle",
         \A k \in Key : cache'[k] = None, cache' \in [Key -> 0 .. opened],
         configured' \in BOOLEAN, remote' \in 0 .. pipes,
         UNCHANGED <<opened, net, disconnecting, fetch, pipes, pipe, pipeAborted>>
  PROVE  IInv'
<1>0. /\ inner < opened /\ watcher[opened] = "none" /\ opened \in Session
      /\ opened \notin watchAborted /\ handle = inner
  BY SettingUp DEF IInv, Shape, SpawnedFirst, HandleIsInner
<1>1. /\ watcher' = [watcher EXCEPT ![opened] = "parked"] /\ handle' = opened
      /\ UNCHANGED <<notices, watchAborted>>
  BY DEF SpawnWatcher
<1>2. /\ watcher' \in [Session -> WatchState] /\ watcher'[opened] = "parked"
      /\ \A s \in Session : s # opened => watcher'[s] = watcher[s]
  BY <1>0, <1>1, Numbers DEF IInv, WatchState
<1>3. TypeOK'
  <2>1. opened \in Nat /\ opened # 0
    BY <1>0, Numbers DEF IInv
  <2>2. opened \in 0 .. opened /\ opened # None
    BY <2>1 DEF None
  <2>3. ~disconnecting /\ \A t \in Task : fetch[t] = Idle
    BY DEF IInv, TypeOK, Settings
  <2> QED
    BY <1>1, <1>2, <2>2, <2>3 DEF IInv, TypeOK, WatchState
<1>4. Shape'
  <2>1. LaterUntouched'
    BY <1>2, LaterIsOther DEF IInv, Shape, LaterUntouched
  <2>2. SpawnedFirst'
    BY <1>0, <1>1, <1>2 DEF IInv, Shape, SpawnedFirst
  <2> QED
    BY <1>1, <2>1, <2>2
    DEF IInv, Shape, HandleIsInner, OldWatcherAborted, UpIsCurrent, Current, Connected,
        SetUpUnwatched, Settings
<1>5. StrayWatchersAborted'
  <2>1. \A s \in Session : Watching(s) => s \in watchAborted \/ s = inner
    BY <1>0 DEF IInv, Safety, StrayWatchersAborted
  <2>2. inner \in Session => inner \in watchAborted
    BY Numbers DEF IInv, Shape, OldWatcherAborted, Settings, None
  <2> QED
    BY <1>1, <1>2, <2>1, <2>2 DEF StrayWatchersAborted, Watching
<1>6. Safety'
  BY <1>0, <1>1, <1>2, <1>5 DEF Safety, LiveClientIsWatched, CacheOfThisSession, Watching
<1> QED
  BY <1>3, <1>4, <1>6 DEF IInv

\* connect and reconnect hand the session over with an empty cache.
LEMMA CompletionKeeps == ASSUME IInv, ConnectCompletes \/ ReconnectCompletes PROVE IInv'
<1>1. CASE ConnectCompletes
  <2>1. /\ cache \in [Key -> 0 .. opened] /\ inner = None
        /\ configured \in BOOLEAN /\ remote \in 0 .. pipes
    BY <1>1 DEF ConnectCompletes, IInv, TypeOK
  <2>2. \A k \in Key : cache[k] = None
    BY <2>1 DEF IInv, Safety, CacheOfThisSession
  <2> QED
    BY <1>1, <2>1, <2>2, SpawnKeeps DEF ConnectCompletes, Settings, cacheVars, remoteVars
<1>2. CASE ReconnectCompletes
  <2>1. EmptyCache \in [Key -> 0 .. opened] /\ 0 \in 0 .. pipes
    <3>1. opened \in Nat /\ pipes \in Nat
      BY Numbers DEF IInv
    <3>2. 0 \in 0 .. opened /\ 0 \in 0 .. pipes
      BY <3>1
    <3> QED
      BY <3>2 DEF EmptyCache, None
  <2> QED
    BY <1>2, <2>1, SpawnKeeps DEF ReconnectCompletes, Settings, EmptyCache, None
<1> QED
  BY <1>1, <1>2

\* A watcher is aborted for good when a call comes that is to end its session.
LEMMA AbortKeeps ==
  ASSUME IInv, call = "idle", ~disconnecting,
         watchAborted' = watchAborted \union {handle},
         \/ /\ call' = "releasing" /\ UNCHANGED disconnecting
            /\ \A t \in Task : fetch[t] = Idle
         \/ call' = "idle" /\ disconnecting' = TRUE,
         pipeAborted' \subseteq Pipeline,
         UNCHANGED <<opened, inner, net, watcher, notices, handle, cacheVars, configured,
                     remote, pipes, pipe>>
  PROVE  IInv'
<1>1. inner \in Session /\ handle = inner /\ inner # None /\ inner <= opened
  BY Numbers DEF IInv, Shape, HandleIsInner, None
<1>2. TypeOK'
  <2>1. watchAborted' \subseteq Session
    BY <1>1 DEF IInv, TypeOK
  <2>2. disconnecting = FALSE
    BY DEF IInv, TypeOK
  <2>3. \/ call' = "releasing" /\ disconnecting' = FALSE
        \/ call' = "idle" /\ disconnecting' = TRUE
    BY <2>2
  <2>4. \A t \in Task : fetch[t] # Idle => call' = "idle"
    OBVIOUS
  <2> QED
    BY <1>1, <2>1, <2>3, <2>4 DEF IInv, TypeOK, cacheVars
<1>4. Shape'
  <2>1. SpawnedFirst'
    BY <1>1 DEF IInv, Shape, SpawnedFirst
  <2>2. UpIsCurrent' /\ Current' = inner
    BY <1>1 DEF IInv, Shape, UpIsCurrent, Settings, Current, Connected
  <2>3. HandleIsInner' /\ LaterUntouched'
    BY DEF IInv, Shape, HandleIsInner, LaterUntouched
  <2>4. OldWatcherAborted' /\ SetUpUnwatched'
    BY <1>1 DEF OldWatcherAborted, SetUpUnwatched, Settings
  <2> QED
    BY <2>1, <2>2, <2>3, <2>4 DEF Shape
<1>5. Safety'
  BY DEF IInv, Safety, LiveClientIsWatched, StrayWatchersAborted, CacheOfThisSession,
         Watching, cacheVars
<1> QED
  BY <1>2, <1>4, <1>5 DEF IInv

\* reconnect and disconnect begin by aborting what the client holds.
LEMMA StartKeeps == ASSUME IInv, ReconnectStarts \/ DisconnectStarts PROVE IInv'
<1>1. pipeAborted \subseteq Pipeline /\ (remote # None => remote \in Pipeline)
  <2>1. remote \in 0 .. pipes /\ pipeAborted \subseteq Pipeline
    BY DEF IInv, TypeOK
  <2>2. pipes \in Nat /\ pipes <= MaxPipelines
    BY Numbers DEF IInv
  <2>3. remote # 0 => remote \in 1 .. MaxPipelines
    BY <2>1, <2>2, BoundsAssumption
  <2> QED
    BY <2>1, <2>3 DEF Pipeline, None
<1> QED
  BY <1>1, AbortKeeps DEF ReconnectStarts, DisconnectStarts, Exclusive, remoteVars

\* The client's connection is closed, by a reconnect, a disconnect or a drop.
LEMMA CloseKeeps ==
  ASSUME IInv, call \in {"idle", "releasing"}, net' = [net EXCEPT ![inner] = "closed"],
         \/ call' = "reconnecting" /\ call = "releasing"
         \/ call' = "idle" /\ call = "idle"
         \/ call' = "dropped" /\ call = "idle" /\ \A t \in Task : fetch[t] = Idle,
         disconnecting' \in BOOLEAN, disconnecting' => call' = "idle",
         UNCHANGED <<opened, inner, watchVars, cacheVars, remoteVars>>
  PROVE  IInv'
<1>1. inner \in Session /\ inner # None /\ inner <= opened
  BY Numbers DEF IInv, None
<1>2. /\ net' \in [Session -> NetState] /\ net'[inner] = "closed"
      /\ \A s \in Session : s # inner => net'[s] = net[s]
  BY <1>1, Numbers DEF IInv, NetState
<1>3. \A s \in Session : ~Connected(s)'
  BY <1>2 DEF IInv, Shape, UpIsCurrent, Current, Settings, Connected
<1>4. UNCHANGED <<watcher, notices, watchAborted, handle, cache, fetch, configured, remote,
                  pipes, pipe, pipeAborted>>
  BY DEF watchVars, cacheVars, remoteVars
<1>5. TypeOK'
  <2>1. call = "releasing" => \A t \in Task : fetch[t] = Idle
    BY DEF IInv, TypeOK
  <2> QED
    BY <1>1, <1>2, <1>4, <2>1 DEF IInv, TypeOK, NetState
<1>6. Shape'
  <2>1. LaterUntouched'
    BY <1>2, <1>4, LaterIsOther DEF IInv, Shape, LaterUntouched
  <2> QED
    BY <1>3, <1>4, <2>1
    DEF IInv, Shape, HandleIsInner, OldWatcherAborted, SpawnedFirst, UpIsCurrent,
        SetUpUnwatched, Settings
<1>7. Safety'
  BY <1>1, <1>3, <1>4
  DEF IInv, Safety, LiveClientIsWatched, StrayWatchersAborted, CacheOfThisSession, Watching
<1> QED
  BY <1>5, <1>6, <1>7 DEF IInv

\* reconnect, disconnect and drop all end by closing the connection.
LEMMA EndKeeps ==
  ASSUME IInv, OldConnectionReleased \/ DisconnectReturns \/ DropClient
  PROVE  IInv'
<1>1. CASE OldConnectionReleased
  BY <1>1, CloseKeeps DEF OldConnectionReleased, IInv, TypeOK
<1>2. CASE DisconnectReturns
  BY <1>2, CloseKeeps DEF DisconnectReturns, IInv, TypeOK
<1>3. CASE DropClient
  BY <1>3, CloseKeeps DEF DropClient, Exclusive, IInv, TypeOK
<1> QED
  BY <1>1, <1>2, <1>3

\* A refused reconnect leaves a client without a connection.
LEMMA RefusalKeeps == ASSUME IInv, ReconnectRefused PROVE IInv'
<1>1. UNCHANGED <<opened, inner, net, watcher, notices, watchAborted, handle, disconnecting,
                  cache, fetch, remoteVars>>
  BY DEF ReconnectRefused, watchVars, cacheVars
<1>2. TypeOK'
  BY <1>1 DEF ReconnectRefused, IInv, TypeOK, remoteVars
<1>3. \A s \in Session : ~Connected(s)
  BY Numbers DEF ReconnectRefused, IInv, Shape, UpIsCurrent, Current, Settings, None
<1>4. Shape'
  BY <1>1, <1>3
  DEF ReconnectRefused, IInv, Shape, HandleIsInner, OldWatcherAborted, LaterUntouched,
      SpawnedFirst, UpIsCurrent, SetUpUnwatched, Settings, Connected
<1>5. Safety'
  <2>1. inner \in Session
    BY Numbers DEF ReconnectRefused, IInv
  <2> QED
    BY <1>1, <1>3, <2>1
    DEF IInv, Safety, LiveClientIsWatched, StrayWatchersAborted, CacheOfThisSession, Watching,
        Connected
<1> QED
  BY <1>2, <1>4, <1>5 DEF IInv

\* A connection that is lost frees its place, and one that goes mute keeps it.
LEMMA GatewayKeeps ==
  ASSUME IInv, NEW s \in Session, ConnectionLost(s) \/ NoticeStreamEnds(s)
  PROVE  IInv'
<1>1. TypeOK'
  <2>1. UNCHANGED <<call, opened, inner, watchVars, disconnecting, cacheVars, remoteVars>>
    BY DEF ConnectionLost, NoticeStreamEnds
  <2>2. net' \in [Session -> NetState]
    BY DEF ConnectionLost, NoticeStreamEnds, IInv, TypeOK, NetState
  <2> QED
    BY <2>1, <2>2 DEF IInv, TypeOK, NetState, watchVars, cacheVars, remoteVars
<1>2. /\ \A q \in Session : q # s => net'[q] = net[q]
      /\ net'[s] \in {"lost", "mute"} /\ Connected(s)
  BY DEF ConnectionLost, NoticeStreamEnds, Connected, IInv, TypeOK
<1>3. UNCHANGED <<call, opened, inner, watcher, watchAborted, handle, disconnecting, cache>>
  BY DEF ConnectionLost, NoticeStreamEnds, watchVars, cacheVars
<1>4. \A q \in Session : /\ Connected(q)' => Connected(q)
                         /\ net'[q] = "up" => net[q] = "up"
  BY <1>2 DEF Connected
<1>5. call = "idle" => inner \in Session
  BY Numbers DEF IInv
<1>6. Shape'
  <2>1. LaterUntouched'
    BY <1>2, <1>3 DEF IInv, Shape, LaterUntouched, Connected
  <2> QED
    BY <1>3, <1>4, <2>1
    DEF IInv, Shape, HandleIsInner, OldWatcherAborted, SpawnedFirst, UpIsCurrent,
        SetUpUnwatched, Current
<1>7. Safety'
  BY <1>3, <1>4, <1>5
  DEF IInv, Safety, LiveClientIsWatched, StrayWatchersAborted, CacheOfThisSession, Watching
<1> QED
  BY <1>1, <1>6, <1>7 DEF IInv

\* Notices come and go without the rest.
LEMMA NoticesKeep ==
  ASSUME IInv, NEW s \in Session, NoticeArrives(s) \/ WatcherPublishes(s)
  PROVE  IInv'
<1>0. notices \in [Session -> 0 .. MaxNotices]
  BY DEF IInv, TypeOK
<1>1. PICK n : notices' = [notices EXCEPT ![s] = n] /\ n \in 0 .. MaxNotices
  <2>1. notices[s] < MaxNotices => notices[s] + 1 \in 0 .. MaxNotices
    BY <1>0, BoundsAssumption
  <2>2. notices[s] > 0 => notices[s] - 1 \in 0 .. MaxNotices
    BY <1>0, BoundsAssumption
  <2> QED
    BY <2>1, <2>2 DEF NoticeArrives, WatcherPublishes
<1>2. notices' \in [Session -> 0 .. MaxNotices]
  BY <1>0, <1>1
<1>3. UNCHANGED <<call, opened, inner, net, watcher, watchAborted, handle, disconnecting,
                  cacheVars, remoteVars>>
  BY DEF NoticeArrives, WatcherPublishes
<1>4. TypeOK'
  BY <1>2, <1>3 DEF IInv, TypeOK, cacheVars, remoteVars
<1> QED
  BY <1>3, <1>4, ElsewhereKeeps DEF cacheVars

\* Pipelines live and die without the sessions.
LEMMA PipelinesKeep ==
  ASSUME IInv, WithRemoteDiagnostics \/ \E p \in Pipeline : PipelineDies(p) \/ PipelineCloses(p)
  PROVE  IInv'
<1>1. CASE WithRemoteDiagnostics
  <2>1. pipes \in Nat /\ pipes < MaxPipelines
    BY <1>1, Numbers DEF WithRemoteDiagnostics, IInv
  <2>2. pipes + 1 \in 0 .. MaxPipelines /\ pipes + 1 \in 0 .. pipes + 1
    BY <2>1, BoundsAssumption
  <2>3. pipe' \in [Pipeline -> {"none", "running", "ended"}]
    BY <1>1 DEF WithRemoteDiagnostics, IInv, TypeOK
  <2>4. /\ pipes' = pipes + 1 /\ remote' = pipes + 1 /\ configured' = TRUE
        /\ UNCHANGED <<call, opened, inner, net, watchVars, disconnecting, cacheVars,
                       pipeAborted>>
    BY <1>1 DEF WithRemoteDiagnostics
  <2>5. TypeOK'
    BY <2>2, <2>3, <2>4 DEF IInv, TypeOK, watchVars, cacheVars
  <2> QED
    BY <1>1, <2>5, ElsewhereKeeps DEF WithRemoteDiagnostics, watchVars, cacheVars
<1>2. ASSUME NEW p \in Pipeline, PipelineDies(p) \/ PipelineCloses(p) PROVE IInv'
  <2>1. pipe' \in [Pipeline -> {"none", "running", "ended"}]
    BY <1>2 DEF PipelineDies, PipelineCloses, IInv, TypeOK
  <2>2. UNCHANGED <<call, opened, inner, net, watchVars, disconnecting, cacheVars,
                    configured, remote, pipes, pipeAborted>>
    BY <1>2 DEF PipelineDies, PipelineCloses
  <2>3. TypeOK'
    BY <2>1, <2>2 DEF IInv, TypeOK, watchVars, cacheVars
  <2> QED
    BY <1>2, <2>3, ElsewhereKeeps DEF PipelineDies, PipelineCloses, watchVars, cacheVars
<1> QED
  BY <1>1, <1>2

\* A lookup is over before the session changes, so that it stores the right one.
LEMMA LookupsKeep ==
  ASSUME IInv, NEW t \in Task, FetchReturns(t) \/ \E k \in Key : FetchMissing(t, k)
  PROVE  IInv'
<1>1. CASE FetchReturns(t)
  <2>1. fetch[t] \in Key /\ call = "idle"
    BY <1>1 DEF FetchReturns, IInv, TypeOK
  <2>2. cache' \in [Key -> 0 .. opened] /\ CacheOfThisSession'
    BY <1>1, <2>1 DEF FetchReturns, IInv, TypeOK, Safety, CacheOfThisSession
  <2>3. fetch' \in [Task -> Key \union {Idle}] /\ \A u \in Task : fetch'[u] # Idle => call = "idle"
    BY <1>1, <2>1 DEF FetchReturns, IInv, TypeOK
  <2>4. TypeOK'
    BY <1>1, <2>2, <2>3 DEF FetchReturns, IInv, TypeOK, watchVars, remoteVars
  <2> QED
    BY <1>1, <2>2, <2>4
    DEF FetchReturns, IInv, Shape, HandleIsInner, OldWatcherAborted, LaterUntouched, SpawnedFirst,
        UpIsCurrent, SetUpUnwatched, Current, Connected, Safety, LiveClientIsWatched,
        StrayWatchersAborted, Watching, watchVars
<1>2. ASSUME NEW k \in Key, FetchMissing(t, k) PROVE IInv'
  <2>1. fetch' \in [Task -> Key \union {Idle}] /\ call = "idle"
    BY <1>2 DEF FetchMissing, IInv, TypeOK
  <2>2. TypeOK'
    BY <1>2, <2>1 DEF FetchMissing, IInv, TypeOK, watchVars, remoteVars
  <2> QED
    BY <1>2, <2>2, ElsewhereKeeps DEF FetchMissing, watchVars
<1> QED
  BY <1>1, <1>2

\* Every step keeps the invariant.
LEMMA InvNext == IInv /\ [Next]_vars => IInv'
<1> SUFFICES ASSUME IInv, [Next]_vars PROVE IInv'
  OBVIOUS
<1>1. ASSUME NEW s \in Session, Watcher(s) PROVE IInv'
  <2>1. CASE WatcherPublishes(s)
    BY <2>1, NoticesKeep
  <2>2. CASE WatcherWakes(s) \/ WatcherParks(s) \/ WatcherStreamEnds(s) \/ WatcherDies(s)
    BY <2>2, WatcherMoves
    DEF WatcherWakes, WatcherParks, WatcherStreamEnds, WatcherDies, Watching
  <2> QED
    BY <1>1, <2>1, <2>2 DEF Watcher
<1>2. CASE UNCHANGED vars
  <2>1. TypeOK'
    BY <1>2 DEF IInv, TypeOK, vars, watchVars, cacheVars, remoteVars
  <2> QED
    BY <1>2, <2>1, ElsewhereKeeps DEF vars, watchVars, cacheVars
<1> QED
  BY <1>1, <1>2, TransportKeeps, SetupFailKeeps, CompletionKeeps, StartKeeps, EndKeeps,
     RefusalKeeps, GatewayKeeps, NoticesKeep, PipelinesKeep, LookupsKeep
  DEF Next, Client, Gateway

-----------------------------------------------------------------------------
\* The types hold in every behaviour.
THEOREM TypeCorrect == Spec => []TypeOK
<1>1. IInv => TypeOK
  BY DEF IInv
<1> QED
  BY <1>1, InitInv, InvNext, PTL DEF Spec

\* A client whose connection is up is watched on that connection, also after
\* reconnects that failed half way, unless the notice stream of that very
\* session ended by itself.
THEOREM WatchCorrect == Spec => []LiveClientIsWatched
<1>1. IInv => LiveClientIsWatched
  BY DEF IInv, Safety
<1> QED
  BY <1>1, InitInv, InvNext, PTL DEF Spec

\* A client has one connection at a time.
THEOREM ConnectionCorrect == Spec => []OneConnection
<1>1. IInv => OneConnection
  BY DEF IInv, Shape, UpIsCurrent, OneConnection
<1> QED
  BY <1>1, InitInv, InvNext, PTL DEF Spec

\* No watcher but the client's own is left running without having been aborted.
THEOREM StraysCorrect == Spec => []StrayWatchersAborted
<1>1. IInv => StrayWatchersAborted
  BY DEF IInv, Safety
<1> QED
  BY <1>1, InitInv, InvNext, PTL DEF Spec

\* The cache holds nothing of another session.
THEOREM CacheCorrect == Spec => []CacheOfThisSession
<1>1. IInv => CacheOfThisSession
  BY DEF IInv, Safety
<1> QED
  BY <1>1, InitInv, InvNext, PTL DEF Spec

-----------------------------------------------------------------------------
(* The tasks of a client that disconnects.                                 *)


\* What a step does to the connection of a session that was closed, and to the
\* sessions that were aborted.
LEMMA ClosedStays ==
  ASSUME IInv, NEW s \in Session, [Next]_vars
  PROVE  /\ net[s] = "closed" => net'[s] = "closed"
         /\ s \in watchAborted => s \in watchAborted'
<1> USE DEF watchVars, cacheVars, remoteVars
<1>1. CASE TransportConnects
  <2>1. net[s] = "closed" => s # opened + 1
    <3> opened \in Nat
      BY Numbers DEF IInv
    <3>1. opened + 1 > opened
      OBVIOUS
    <3>2. s > opened => net[s] = "free"
      BY DEF IInv, Shape, LaterUntouched
    <3> QED
      BY <3>1, <3>2
  <2> QED
    BY <1>1, <2>1 DEF TransportConnects, IInv, TypeOK
<1>2. CASE Client /\ ~TransportConnects
  BY <1>2 DEF Client, SetupFails, ReconnectRefused, ConnectCompletes, ReconnectStarts,
    OldConnectionReleased, ReconnectCompletes, DisconnectStarts, DisconnectReturns, DropClient,
    WithRemoteDiagnostics, SpawnWatcher, IInv, TypeOK
<1>3. ASSUME NEW r \in Session, Gateway(r) \/ Watcher(r)
      PROVE  /\ net[s] = "closed" => net'[s] = "closed"
             /\ watchAborted' = watchAborted
  <2>1. CASE ConnectionLost(r) \/ NoticeStreamEnds(r)
    BY <2>1 DEF ConnectionLost, NoticeStreamEnds, Connected, IInv, TypeOK
  <2>2. CASE NoticeArrives(r) \/ Watcher(r)
    BY <2>2 DEF NoticeArrives, Watcher, WatcherWakes, WatcherPublishes, WatcherParks,
      WatcherStreamEnds, WatcherDies
  <2> QED
    BY <1>3, <2>1, <2>2 DEF Gateway
<1>4. ASSUME NEW p \in Pipeline, PipelineDies(p) \/ PipelineCloses(p)
      PROVE  UNCHANGED <<net, watchAborted>>
  BY <1>4 DEF PipelineDies, PipelineCloses
<1>5. ASSUME NEW t \in Task, FetchReturns(t) \/ \E k \in Key : FetchMissing(t, k)
      PROVE  UNCHANGED <<net, watchAborted>>
  BY <1>5 DEF FetchReturns, FetchMissing
<1>6. CASE UNCHANGED vars
  BY <1>6 DEF vars
<1> QED
  BY <1>1, <1>2, <1>3, <1>4, <1>5, <1>6 DEF Next, Gateway

LEMMA WatcherTypes ==
  ASSUME IInv, NEW s \in Session
  PROVE  s \in DOMAIN watcher /\ s \in DOMAIN notices /\ notices[s] \in Nat
<1>1. watcher \in [Session -> WatchState]
  BY Numbers DEF IInv
<1>2. notices \in [Session -> 0 .. MaxNotices]
  BY DEF IInv, TypeOK
<1>3. 0 .. MaxNotices \subseteq Nat
  BY BoundsAssumption
<1> QED
  BY <1>1, <1>2, <1>3

Parked(s)  == watcher[s] = "parked"
Polling(s) == watcher[s] = "polling"
Quiet(s)   == notices[s] = 0

\* With its connection gone a watcher goes on only to publish what is left.
LEMMA WatcherSteps ==
  ASSUME IInv, NEW s \in Session, net[s] # "up", Watching(s), [Next]_vars
  PROVE  \/ watcher'[s] = "ended"
         \/ watcher'[s] = watcher[s] /\ (notices[s] = 0 => notices'[s] = 0)
         \/ Parked(s) /\ watcher'[s] = "polling" /\ s \notin watchAborted
<1> USE DEF watchVars, cacheVars, remoteVars
<1>1. call \in Settings => watcher[opened] = "none" /\ opened # s
  BY SettingUp DEF Watching
<1>2. CASE ConnectCompletes \/ ReconnectCompletes
  BY <1>1, <1>2 DEF ConnectCompletes, ReconnectCompletes, SpawnWatcher, IInv, TypeOK, Settings
<1>3. CASE Client /\ ~ConnectCompletes /\ ~ReconnectCompletes
  BY <1>3 DEF Client, TransportConnects, SetupFails, ReconnectRefused, ReconnectStarts,
    OldConnectionReleased, DisconnectStarts, DisconnectReturns, DropClient, WithRemoteDiagnostics
<1>4. ASSUME NEW r \in Session, Gateway(r)
      PROVE  watcher'[s] = watcher[s] /\ (notices[s] = 0 => notices'[s] = 0)
  BY <1>4 DEF Gateway, ConnectionLost, NoticeArrives, NoticeStreamEnds, IInv, TypeOK
<1>5. ASSUME NEW r \in Session, r # s, Watcher(r)
      PROVE  watcher'[s] = watcher[s] /\ notices'[s] = notices[s]
  BY <1>5 DEF Watcher, WatcherWakes, WatcherPublishes, WatcherParks, WatcherStreamEnds,
    WatcherDies, IInv, TypeOK
<1>6. CASE Watcher(s)
  <2> s \in DOMAIN watcher /\ s \in DOMAIN notices /\ notices[s] \in Nat
    BY WatcherTypes
  <2>1. CASE WatcherPublishes(s)
    BY <2>1 DEF WatcherPublishes
  <2>2. CASE WatcherWakes(s) \/ WatcherParks(s) \/ WatcherStreamEnds(s) \/ WatcherDies(s)
    BY <2>2 DEF WatcherWakes, WatcherParks, WatcherStreamEnds, WatcherDies, Parked
  <2> QED
    BY <1>6, <2>1, <2>2 DEF Watcher
<1>7. CASE \/ \E p \in Pipeline : PipelineDies(p) \/ PipelineCloses(p)
           \/ \E t \in Task : FetchReturns(t) \/ \E k \in Key : FetchMissing(t, k)
           \/ UNCHANGED vars
  BY <1>7 DEF PipelineDies, PipelineCloses, FetchReturns, FetchMissing, vars
<1> QED
  BY <1>2, <1>3, <1>4, <1>5, <1>6, <1>7 DEF Next, Gateway

\* With nothing left, or when it is parked and aborted, its next step is its last.
LEMMA LastWatcherStep ==
  ASSUME IInv, NEW s \in Session, net[s] # "up", Watcher(s)
  PROVE  /\ watcher[s] = "polling" /\ notices[s] = 0 => watcher'[s] = "ended"
         /\ watcher[s] = "parked" => watcher'[s] = IF s \in watchAborted THEN "ended"
                                                                        ELSE "polling"
<1> s \in DOMAIN watcher /\ notices[s] \in Nat
  BY WatcherTypes
<1>1. CASE WatcherPublishes(s)
  BY <1>1 DEF WatcherPublishes
<1>2. CASE WatcherWakes(s) \/ WatcherParks(s) \/ WatcherStreamEnds(s) \/ WatcherDies(s)
  BY <1>2 DEF WatcherWakes, WatcherParks, WatcherStreamEnds, WatcherDies
<1> QED
  BY <1>1, <1>2 DEF Watcher

-----------------------------------------------------------------------------
\* While a disconnect waits for the gateway its aborts are done; the pipelines
\* to come are untouched, and the one that the client holds was started.
Told ==
  /\ disconnecting => handle \in watchAborted /\ remote \in pipeAborted \union {None}
  /\ remote # None => pipe[remote] # "none"
  /\ \A p \in Pipeline : p > pipes => pipe[p] = "none"

\* The pipeline the client holds is one there is.
LEMMA Remote == TypeOK /\ remote # None => remote \in DOMAIN pipe
<1> SUFFICES ASSUME TypeOK, remote # None PROVE remote \in DOMAIN pipe
  OBVIOUS
<1>1. pipes \in 0 .. MaxPipelines /\ remote \in 0 .. pipes
  BY DEF TypeOK
<1>2. remote \in 1 .. MaxPipelines
  BY <1>1, BoundsAssumption DEF None
<1> QED
  BY <1>2 DEF TypeOK, Pipeline

LEMMA ToldNext == IInv /\ Told /\ [Next]_vars => Told'
<1> SUFFICES ASSUME IInv, Told, [Next]_vars PROVE Told'
  OBVIOUS
<1> USE DEF Told, watchVars, cacheVars, remoteVars
<1>1. disconnecting => call = "idle"
  BY DEF IInv, TypeOK
<1>2. CASE \/ TransportConnects \/ SetupFails \/ ReconnectRefused \/ OldConnectionReleased
           \/ DisconnectReturns \/ DropClient
  <2>1. /\ UNCHANGED <<handle, watchAborted, remoteVars>>
        /\ disconnecting' = disconnecting \/ disconnecting' = FALSE
    BY <1>2 DEF TransportConnects, SetupFails, ReconnectRefused, OldConnectionReleased,
      DisconnectReturns, DropClient
  <2> QED
    BY <2>1
<1>3. CASE ReconnectStarts
  BY <1>3 DEF ReconnectStarts, Exclusive
<1>4. CASE ConnectCompletes \/ ReconnectCompletes
  <2>1. ~disconnecting'
    BY <1>1, <1>4 DEF ConnectCompletes, ReconnectCompletes
  <2>2. pipe' = pipe /\ pipes' = pipes /\ remote' \in {remote, None}
    BY <1>4 DEF ConnectCompletes, ReconnectCompletes
  <2> QED
    BY <2>1, <2>2
<1>5. CASE DisconnectStarts
  BY <1>5 DEF DisconnectStarts
<1>6. CASE WithRemoteDiagnostics
  <2>1. pipes + 1 \in DOMAIN pipe
    <3>1. pipes \in Nat /\ pipes < MaxPipelines
      BY <1>6, Numbers DEF IInv, WithRemoteDiagnostics
    <3>2. pipes + 1 \in Pipeline
      BY <3>1, BoundsAssumption DEF Pipeline
    <3> QED
      BY <3>2 DEF IInv, TypeOK
  <2> QED
    <3>1. pipes \in Nat
      BY Numbers DEF IInv
    <3>2. pipe \in [Pipeline -> {"none", "running", "ended"}]
      BY DEF IInv, TypeOK
    <3>3. Pipeline \subseteq Nat
      BY BoundsAssumption DEF Pipeline
    <3>4. \A p \in Pipeline : p > pipes' => p > pipes /\ p # pipes + 1
      BY <1>6, <3>1, <3>3 DEF WithRemoteDiagnostics
    <3>5. pipe' = [pipe EXCEPT ![pipes + 1] = "running"] /\ remote' = pipes + 1
          /\ ~disconnecting'
      BY <1>6 DEF WithRemoteDiagnostics, Exclusive
    <3> QED
      BY <2>1, <3>2, <3>4, <3>5
<1>7. ASSUME NEW p \in Pipeline, PipelineDies(p) \/ PipelineCloses(p) PROVE Told'
  <2>1. pipe' = [pipe EXCEPT ![p] = "ended"]
        /\ UNCHANGED <<disconnecting, handle, watchAborted, remote, pipeAborted>>
    BY <1>7 DEF PipelineDies, PipelineCloses
  <2>2. remote # None => remote \in DOMAIN pipe
    BY Remote DEF IInv
  <2>3. pipe[p] = "running" /\ pipe \in [Pipeline -> {"none", "running", "ended"}]
    BY <1>7 DEF PipelineDies, PipelineCloses, IInv, TypeOK
  <2>4. pipes' = pipes
    BY <1>7 DEF PipelineDies, PipelineCloses, remoteVars
  <2> QED
    BY <2>1, <2>2, <2>3, <2>4
<1>8. ASSUME NEW r \in Session, Gateway(r) \/ Watcher(r)
      PROVE  Told'
  BY <1>8 DEF Gateway, ConnectionLost, NoticeArrives, NoticeStreamEnds, Watcher,
    WatcherWakes, WatcherPublishes, WatcherParks, WatcherStreamEnds, WatcherDies
<1>9. CASE \/ \E t \in Task : FetchReturns(t) \/ \E k \in Key : FetchMissing(t, k)
           \/ UNCHANGED vars
  BY <1>9 DEF FetchReturns, FetchMissing, vars
<1> QED
  BY <1>2, <1>3, <1>4, <1>5, <1>6, <1>7, <1>8, <1>9 DEF Next, Client, Gateway

LEMMA ToldAlways == Spec => [](IInv /\ Told)
<1>1. Init => Told
  BY DEF Init, Told
<1> QED
  BY <1>1, InitInv, InvNext, ToldNext, PTL DEF Spec

\* A disconnect ends with the connection of the watcher the client holds closed.
LEMMA DisconnectSteps ==
  ASSUME IInv, Told, NEW s \in Session, disconnecting, handle = s, [Next]_vars
  PROVE  /\ (disconnecting' /\ handle' = s) \/ net'[s] = "closed"
         /\ DisconnectReturns => net'[s] = "closed"
<1> USE DEF watchVars, cacheVars, remoteVars
<1>1. call = "idle" /\ inner = s
  BY DEF IInv, TypeOK, Shape, HandleIsInner
<1>2. DisconnectReturns => net'[s] = "closed"
  BY <1>1 DEF DisconnectReturns, IInv, TypeOK
<1>3. CASE Client /\ ~DisconnectReturns
  BY <1>1, <1>3 DEF Client, TransportConnects, SetupFails, ReconnectRefused, ConnectCompletes,
    ReconnectStarts, OldConnectionReleased, ReconnectCompletes, DisconnectStarts, DropClient,
    WithRemoteDiagnostics, Exclusive
<1>4. ASSUME NEW r \in Session, Gateway(r) \/ Watcher(r)
      PROVE  disconnecting' /\ handle' = s
  BY <1>4 DEF Gateway, ConnectionLost, NoticeArrives, NoticeStreamEnds, Watcher,
    WatcherWakes, WatcherPublishes, WatcherParks, WatcherStreamEnds, WatcherDies
<1>5. CASE \/ \E p \in Pipeline : PipelineDies(p) \/ PipelineCloses(p)
           \/ \E t \in Task : FetchReturns(t) \/ \E k \in Key : FetchMissing(t, k)
           \/ UNCHANGED vars
  BY <1>2, <1>5 DEF PipelineDies, PipelineCloses, FetchReturns, FetchMissing, vars
<1>6. (disconnecting' /\ handle' = s) \/ net'[s] = "closed"
  <2>1. CASE Client
    BY <1>2, <1>3, <2>1
  <2>2. CASE \E r \in Session : Gateway(r) \/ Watcher(r)
    BY <1>4, <2>2
  <2>3. CASE \/ \E p \in Pipeline : PipelineDies(p) \/ PipelineCloses(p)
             \/ \E t \in Task : FetchReturns(t) \/ \E k \in Key : FetchMissing(t, k)
             \/ UNCHANGED vars
    BY <1>5, <2>3
  <2> QED
    BY <2>1, <2>2, <2>3 DEF Next, Gateway
<1> QED
  BY <1>2, <1>6

\* The watcher the client holds is stopped.
LEMMA HeldWatcherStops ==
  ASSUME NEW s \in Session
  PROVE  Spec /\ CallFairness /\ WatcherFairness(s) /\ BurstEnds(s)
           /\ []TasksNeverStuck
           => (disconnecting /\ handle = s ~> ~Watching(s))
<1>1. disconnecting /\ handle = s /\ IInv /\ Told /\ [Next]_vars
        => (disconnecting /\ handle = s)' \/ (net[s] = "closed")'
  BY DisconnectSteps
<1>2. disconnecting /\ handle = s /\ IInv /\ Told /\ <<DisconnectReturns>>_vars
        => (net[s] = "closed")'
  BY DisconnectSteps DEF Next, Client, Gateway
<1>3. disconnecting /\ handle = s /\ Told => s \in watchAborted
  BY DEF Told
<1>4. IInv /\ [Next]_vars =>
        /\ net[s] = "closed" => (net[s] = "closed")'
        /\ s \in watchAborted => (s \in watchAborted)'
  BY ClosedStays
<1>5. net[s] = "closed" => ~(net[s] = "up")
  OBVIOUS
<1>6. Watching(s) <=> Parked(s) \/ Polling(s)
  BY DEF Watching, Parked, Polling
<1>7. Parked(s) /\ s \in watchAborted /\ net[s] = "closed" /\ IInv /\ [Next]_vars
        => Parked(s)' \/ ~Watching(s)'
  BY WatcherSteps DEF Parked, Watching
<1>8. Parked(s) /\ s \in watchAborted /\ net[s] = "closed" /\ IInv /\ <<Watcher(s)>>_vars
        => ~Watching(s)'
  BY LastWatcherStep DEF Parked, Watching
<1>9. Polling(s) /\ s \in watchAborted /\ net[s] = "closed" /\ IInv /\ [Next]_vars
        => (Polling(s)' /\ (Quiet(s) => Quiet(s)')) \/ ~Watching(s)'
  BY WatcherSteps DEF Polling, Watching, Quiet
<1>10. Polling(s) /\ Quiet(s) /\ net[s] = "closed" /\ IInv /\ <<Watcher(s)>>_vars
        => ~Watching(s)'
  BY LastWatcherStep DEF Polling, Watching, Quiet
<1>11. TasksNeverStuck => (disconnecting => ENABLED <<DisconnectReturns>>_vars)
  BY DEF TasksNeverStuck
<1>12. TasksNeverStuck /\ net[s] = "closed" /\ Watching(s) => ENABLED <<Watcher(s)>>_vars
  BY DEF TasksNeverStuck
<1>13. BurstEnds(s) => (~(net[s] = "up") ~> (Polling(s) => Quiet(s)))
  BY PTL DEF BurstEnds, Polling, Quiet
<1> QED
  BY <1>1, <1>2, <1>3, <1>4, <1>5, <1>6, <1>7, <1>8, <1>9, <1>10, <1>11, <1>12, <1>13, ToldAlways,
     PTL
  DEF Spec, CallFairness, WatcherFairness

-----------------------------------------------------------------------------
(* The pipelines.                                                          *)

Running(p) == pipe[p] = "running"
Ended(p)   == pipe[p] = "ended"

\* What a step does to a pipeline that was started.
LEMMA PipelineSteps ==
  ASSUME IInv, Told, NEW p \in Pipeline, Running(p) \/ Ended(p), [Next]_vars
  PROVE  /\ Running(p)' \/ Ended(p)'
         /\ Ended(p) => Ended(p)'
         /\ p \in pipeAborted => p \in pipeAborted'
<1> USE DEF watchVars, cacheVars, remoteVars, Running, Ended
<1> pipe \in [Pipeline -> {"none", "running", "ended"}]
  BY DEF IInv, TypeOK
<1>1. CASE WithRemoteDiagnostics
  <2>1. pipes + 1 # p
    <3>1. pipes \in Nat
      BY Numbers DEF IInv
    <3>2. pipes + 1 > pipes
      BY <3>1
    <3>3. p > pipes => pipe[p] = "none"
      BY DEF Told
    <3> QED
      BY <3>2, <3>3
  <2> QED
    BY <1>1, <2>1 DEF WithRemoteDiagnostics
<1>2. CASE Client /\ ~WithRemoteDiagnostics
  BY <1>2 DEF Client, TransportConnects, SetupFails, ReconnectRefused, ConnectCompletes,
    ReconnectStarts, OldConnectionReleased, ReconnectCompletes, DisconnectStarts,
    DisconnectReturns, DropClient
<1>3. ASSUME NEW q \in Pipeline, PipelineDies(q) \/ PipelineCloses(q)
      PROVE  pipe' = [pipe EXCEPT ![q] = "ended"] /\ pipeAborted' = pipeAborted
  BY <1>3 DEF PipelineDies, PipelineCloses
<1>4. ASSUME NEW r \in Session, Gateway(r) \/ Watcher(r)
      PROVE  UNCHANGED <<pipe, pipeAborted>>
  BY <1>4 DEF Gateway, ConnectionLost, NoticeArrives, NoticeStreamEnds, Watcher,
    WatcherWakes, WatcherPublishes, WatcherParks, WatcherStreamEnds, WatcherDies
<1>5. CASE (\E t \in Task : FetchReturns(t) \/ \E k \in Key : FetchMissing(t, k))
           \/ UNCHANGED vars
  BY <1>5 DEF FetchReturns, FetchMissing, vars
<1> QED
  BY <1>1, <1>2, <1>3, <1>4, <1>5 DEF Next, Gateway

\* The pipeline the client holds is stopped.
LEMMA HeldPipelineStops ==
  ASSUME NEW p \in Pipeline
  PROVE  Spec /\ PipelineFairness(p) /\ []TasksNeverStuck
           => (disconnecting /\ remote = p ~> Ended(p))
<1>1. disconnecting /\ remote = p /\ IInv /\ Told
        => p \in pipeAborted /\ (Running(p) \/ Ended(p))
  BY BoundsAssumption DEF Told, IInv, TypeOK, Running, Ended, None, Pipeline
<1>2. IInv /\ Told /\ (Running(p) \/ Ended(p)) /\ [Next]_vars
        => /\ Running(p)' \/ Ended(p)'
           /\ p \in pipeAborted => (p \in pipeAborted)'
  BY PipelineSteps
<1>3. IInv /\ Running(p) /\ <<PipelineDies(p)>>_vars => Ended(p)'
  BY DEF PipelineDies, Ended, IInv, TypeOK
<1>4. TasksNeverStuck /\ Running(p) /\ p \in pipeAborted
        => ENABLED <<PipelineDies(p)>>_vars
  BY DEF TasksNeverStuck, Running
<1> QED
  BY <1>1, <1>2, <1>3, <1>4, ToldAlways, PTL DEF Spec, PipelineFairness

\* Disconnecting stops the watcher, even in the middle of a burst of notices, and
\* the remote tasks.
THEOREM DisconnectStopsTasks == FairSpec /\ NothingStuck => DisconnectStops
<1>1. FairSpec => Spec /\ CallFairness
  BY DEF FairSpec
<1>2. ASSUME NEW s \in Session
      PROVE  FairSpec /\ []TasksNeverStuck /\ BurstEnds(s)
               => (disconnecting /\ handle = s ~> ~Watching(s))
  <2>1. FairSpec => WatcherFairness(s)
    BY DEF FairSpec
  <2> QED
    BY <1>1, <2>1, HeldWatcherStops, PTL
<1>3. ASSUME NEW p \in Pipeline
      PROVE  FairSpec /\ []TasksNeverStuck
               => (disconnecting /\ remote = p ~> pipe[p] = "ended")
  <2>1. FairSpec => PipelineFairness(p)
    BY DEF FairSpec
  <2> QED
    BY <1>1, <2>1, HeldPipelineStops, PTL DEF Ended
<1> QED
  BY <1>2, <1>3 DEF DisconnectStops, NothingStuck

-----------------------------------------------------------------------------
(* The tasks of a client that was dropped.                                 *)

Dropped == call = "dropped"

\* A client that was dropped stays so, with no connection left.
LEMMA DroppedStays ==
  /\ Dropped /\ [Next]_vars => Dropped'
  /\ IInv /\ Dropped => \A s \in Session : net[s] # "up"
<1>1. ASSUME Dropped, [Next]_vars PROVE Dropped'
  <2> USE <1>1 DEF Dropped, watchVars, cacheVars, remoteVars
  <2>1. CASE Client
    BY <2>1 DEF Client, TransportConnects, SetupFails, ReconnectRefused, ConnectCompletes,
      ReconnectStarts, OldConnectionReleased, ReconnectCompletes, DisconnectStarts,
      DisconnectReturns, DropClient, WithRemoteDiagnostics, Exclusive
  <2>2. ASSUME NEW r \in Session, Gateway(r) \/ Watcher(r)
        PROVE  Dropped'
    BY <2>2 DEF Gateway, ConnectionLost, NoticeArrives, NoticeStreamEnds,
      Watcher, WatcherWakes, WatcherPublishes,
      WatcherParks, WatcherStreamEnds, WatcherDies
  <2>3. CASE \/ \E p \in Pipeline : PipelineDies(p) \/ PipelineCloses(p)
             \/ \E t \in Task : FetchReturns(t) \/ \E k \in Key : FetchMissing(t, k)
             \/ UNCHANGED vars
    BY <2>3 DEF PipelineDies, PipelineCloses, FetchReturns, FetchMissing, vars
  <2> QED
    BY <2>1, <2>2, <2>3 DEF Next, Gateway
<1>2. ASSUME IInv, Dropped, NEW s \in Session, net[s] = "up" PROVE FALSE
  <2>1. s = None
    BY <1>2 DEF IInv, Shape, UpIsCurrent, Current, Settings, Dropped, Connected
  <2>2. Session \subseteq Nat \ {0}
    BY <1>2, Numbers DEF IInv
  <2> QED
    BY <2>1, <2>2 DEF None
<1> QED
  BY <1>1, <1>2

\* A watcher the dropped client left behind ends.
LEMMA LeftWatcherEnds ==
  ASSUME NEW s \in Session
  PROVE  Spec /\ WatcherFairness(s) /\ BurstEnds(s) /\ []TasksNeverStuck
           => (Dropped ~> ~Watching(s))
<1>1. Dropped /\ IInv => ~(net[s] = "up")
  BY DroppedStays
<1>2. Watching(s) <=> Parked(s) \/ Polling(s)
  BY DEF Watching, Parked, Polling
<1>3. Parked(s) /\ Dropped /\ IInv /\ [Next]_vars
        => Parked(s)' \/ Polling(s)' \/ ~Watching(s)'
  BY <1>1, WatcherSteps DEF Parked, Polling, Watching
<1>4. Parked(s) /\ Dropped /\ IInv /\ <<Watcher(s)>>_vars => ~Parked(s)'
  BY <1>1, LastWatcherStep DEF Parked
<1>5. Polling(s) /\ Dropped /\ IInv /\ [Next]_vars
        => (Polling(s)' /\ (Quiet(s) => Quiet(s)')) \/ ~Watching(s)'
  BY <1>1, WatcherSteps DEF Parked, Polling, Watching, Quiet
<1>6. Polling(s) /\ Quiet(s) /\ Dropped /\ IInv /\ <<Watcher(s)>>_vars => ~Watching(s)'
  BY <1>1, LastWatcherStep DEF Polling, Watching, Quiet
<1>7. TasksNeverStuck /\ ~(net[s] = "up") /\ Watching(s) => ENABLED <<Watcher(s)>>_vars
  BY DEF TasksNeverStuck
<1>8. BurstEnds(s) => (~(net[s] = "up") ~> (Polling(s) => Quiet(s)))
  BY PTL DEF BurstEnds, Polling, Quiet
<1>9. Dropped /\ [Next]_vars => Dropped'
  BY DroppedStays
<1> QED
  BY <1>1, <1>2, <1>3, <1>4, <1>5, <1>6, <1>7, <1>8, <1>9, ToldAlways, PTL
  DEF Spec, WatcherFairness

\* A pipeline whose senders are all gone ends, if the endpoint answers it.
LEMMA LeftPipelineEnds ==
  ASSUME NEW p \in Pipeline
  PROVE  Spec /\ PipelineAnswers(p) /\ []TasksNeverStuck => (SendersGone ~> ~Running(p))
<1>1. SendersGone /\ IInv /\ Told /\ [Next]_vars => SendersGone'
  <2> SUFFICES ASSUME SendersGone, IInv, Told, [Next]_vars
               PROVE  SendersGone'
    OBVIOUS
  <2>1. call' = "dropped"
    BY DroppedStays DEF SendersGone, Dropped
  <2>2. watcher' = watcher
    <3> USE DEF SendersGone, watchVars
    <3>1. CASE Client
      BY <3>1 DEF Client, TransportConnects, SetupFails, ReconnectRefused, ConnectCompletes,
        ReconnectStarts, OldConnectionReleased, ReconnectCompletes, DisconnectStarts,
        DisconnectReturns, DropClient, WithRemoteDiagnostics, Exclusive
    <3>2. ASSUME NEW r \in Session, Gateway(r) \/ Watcher(r)
          PROVE  watcher' = watcher
      BY <3>2 DEF Gateway, ConnectionLost, NoticeArrives, NoticeStreamEnds,
      Watcher, WatcherWakes, WatcherPublishes,
        WatcherParks, WatcherStreamEnds, WatcherDies, Watching
    <3>3. CASE \/ \E q \in Pipeline : PipelineDies(q) \/ PipelineCloses(q)
               \/ \E t \in Task : FetchReturns(t) \/ \E k \in Key : FetchMissing(t, k)
               \/ UNCHANGED vars
      BY <3>3 DEF PipelineDies, PipelineCloses, FetchReturns, FetchMissing, vars
    <3> QED
      BY <3>1, <3>2, <3>3 DEF Next, Gateway
  <2> QED
    BY <2>1, <2>2 DEF SendersGone, Watching
<1>2. IInv /\ Told /\ Running(p) /\ [Next]_vars => Running(p)' \/ Ended(p)'
  BY PipelineSteps
<1>3. Ended(p) => ~Running(p)
  BY DEF Ended, Running
<1>4. IInv /\ Running(p) /\ <<PipelineCloses(p)>>_vars => ~Running(p)'
  BY DEF PipelineCloses, Running, IInv, TypeOK
<1>5. TasksNeverStuck /\ Running(p) /\ SendersGone
        => ENABLED <<PipelineCloses(p)>>_vars
  BY DEF TasksNeverStuck, Running
<1> QED
  BY <1>1, <1>2, <1>3, <1>4, <1>5, ToldAlways, PTL DEF Spec, PipelineAnswers

\* A dropped client leaves no task behind: every watcher ends, and, if the
\* endpoint answers, every pipeline does once the watchers all have.
THEOREM DroppedTasksEnd ==
  FairSpec /\ NothingStuck
    => /\ \A s \in Session : Dropped ~> ~Watching(s)
       /\ EndpointAnswers => \A p \in Pipeline : SendersGone ~> ~Running(p)
<1>1. FairSpec => Spec
  BY DEF FairSpec
<1>2. ASSUME NEW s \in Session
      PROVE  FairSpec /\ []TasksNeverStuck /\ BurstEnds(s) => (Dropped ~> ~Watching(s))
  <2>1. FairSpec => WatcherFairness(s)
    BY DEF FairSpec
  <2> QED
    BY <1>1, <2>1, LeftWatcherEnds, PTL
<1>3. ASSUME NEW p \in Pipeline
      PROVE  FairSpec /\ []TasksNeverStuck /\ EndpointAnswers
               => (SendersGone ~> ~Running(p))
  <2>1. EndpointAnswers => PipelineAnswers(p)
    BY DEF EndpointAnswers
  <2> QED
    BY <1>1, <2>1, LeftPipelineEnds, PTL
<1> QED
  BY <1>2, <1>3 DEF NothingStuck
=============================================================================
