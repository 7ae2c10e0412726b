------------------------------- MODULE PyClient -------------------------------
(***************************************************************************)
(* The Python class IbClient (src/python/src/lib.rs): a Rust client in a   *)
(* mutex, a runtime it blocks on, and receivers of diagnostic events.      *)
(*                                                                         *)
(* Every method holds the GIL from its first to its last line, so Python   *)
(* threads run them one at a time; the runtime's workers, the watcher      *)
(* among them, run beside them.  A panic while the mutex is held poisons   *)
(* it.  Diagnostic events are numbered; the broadcast keeps the last       *)
(* BroadcastCap of them.                                                   *)
(***************************************************************************)
EXTENDS DiagnosticEvents

CONSTANTS
  Receiver,      \* DiagnosticEventReceiver objects
  BroadcastCap,  \* DIAGNOSTIC_BUFFER, 1024 in the code
  MaxEvents,     \* bound: diagnostic events
  MaxSessions    \* bound: connections opened

ASSUME BoundsAssumption ==
  BroadcastCap \in Nat \ {0} /\ MaxEvents \in Nat /\ MaxSessions \in Nat

ASSUME ReceiverAssumption == "none" \notin Receiver

VARIABLES
  object,    \* the Python object: "new", "alive" or "dropped"
  held,      \* its mutex holds Some(client)
  poisoned,  \* the mutex is poisoned
  busy,      \* the method in progress: its name, or "no"
  opened,    \* connections opened
  net,       \* the client's connection: "none", "up", "lost", "closed"
  watcher,   \* its notice watcher runs
  events,    \* diagnostic events broadcast so far
  rx,        \* the next event each receiver looks for, 0 before there is one
  iterating, \* the receiver in its second try_recv, or "none"
  yielded,   \* history: the events each receiver has handed out
  missed,    \* history: the events each receiver was told it lagged behind on
  raised     \* what the last method raised, "nothing" if it returned

clientVars   == <<object, held, poisoned, opened, net, watcher>>
receiverVars == <<rx, iterating, yielded, missed>>
vars == <<clientVars, busy, events, receiverVars, raised>>

Init ==
  /\ object = "new"
  /\ held = FALSE
  /\ poisoned = FALSE
  /\ busy = "no"
  /\ opened = 0
  /\ net = "none"
  /\ watcher = FALSE
  /\ events = 0
  /\ rx = [r \in Receiver |-> 0]
  /\ iterating = "none"
  /\ yielded = [r \in Receiver |-> {}]
  /\ missed = [r \in Receiver |-> {}]
  /\ raised = "nothing"

-----------------------------------------------------------------------------
(* Beside the methods.                                                     *)

WatcherPublishes ==
  /\ watcher
  /\ events < MaxEvents
  /\ events' = events + 1
  /\ UNCHANGED <<clientVars, busy, receiverVars, raised>>

ConnectionLost ==
  /\ net = "up"
  /\ net' = "lost"
  /\ UNCHANGED <<object, held, poisoned, opened, watcher, busy, events, receiverVars, raised>>

\* Its notice stream is over, with the connection or by itself.
WatcherEnds ==
  /\ watcher
  /\ watcher' = FALSE
  /\ UNCHANGED <<object, held, poisoned, opened, net, busy, events, receiverVars, raised>>

-----------------------------------------------------------------------------
(* Exceptions.                                                             *)

\* The Python class of an IbError: one for each variant, the base for Other.
ib_err_to_py_err(kind) == IF kind = "Other" THEN "IbError" ELSE kind

Exception == {ib_err_to_py_err(k) : k \in IbErrorKind} \union {"PanicException"}

\* The method in progress is over.
Return           == busy' = "no" /\ raised' = "nothing"
Raise(exception) == busy' = "no" /\ raised' = exception

-----------------------------------------------------------------------------
(* Faulty variants, for the mutation runs.                                 *)

\* The client is taken out of the mutex, and neither disconnected nor dropped.
disconnect_Leaks ==
  /\ busy \in {"disconnect", "__exit__"}
  /\ held' = FALSE
  /\ Return
  /\ UNCHANGED <<object, poisoned, opened, net, watcher, events, receiverVars>>

\* The lagged receiver starts over with the events still to come.
Oldest_Resubscribes == events + 1

-----------------------------------------------------------------------------
(* The methods of IbClient.                                                *)

Free == busy = "no" /\ iterating = "none"

\* connect: an object comes of it only when the account type is one and the
\* gateway has accepted.
connect(account) ==
  /\ object = "new"
  /\ opened < MaxSessions
  /\ \/ /\ parse_account_type(account) # <<>>
        /\ object' = "alive" /\ held' = TRUE
        /\ opened' = opened + 1 /\ net' = "up" /\ watcher' = TRUE
        /\ raised' = "nothing"
     \/ /\ IF parse_account_type(account) = <<>>
           THEN raised' = ib_err_to_py_err("ConnectionFailed")
           ELSE \E k \in {"ConnectionFailed", "ConnectionReset", "Timeout", "Other"} :
                  raised' = ib_err_to_py_err(k)
        /\ UNCHANGED <<object, held, opened, net, watcher>>
  /\ UNCHANGED <<poisoned, busy, events, receiverVars>>

Method == {"request", "order_updates", "reconnect", "disconnect", "__exit__"}

\* What with_client raises instead of running a method: the mutex is poisoned,
\* or the client is gone.
Usable  == held /\ ~poisoned
Refusal == IF poisoned THEN "IbError" ELSE "ConnectionFailed"

\* What a failed disconnect raises is not seen in __exit__.
Unless(method, exception) == IF method = "__exit__" THEN "nothing" ELSE exception

\* with_client, and its like in reconnect: lock, and look for the client.
with_client(method) ==
  /\ object = "alive" /\ Free
  /\ IF Usable THEN busy' = method /\ UNCHANGED raised
               ELSE raised' = Unless(method, Refusal) /\ UNCHANGED busy
  /\ UNCHANGED <<clientVars, events, receiverVars>>

\* The snapshots, collections and orders, and server_version: an answer, or any
\* of the errors, which an action that is neither BUY nor SELL is as well.
request ==
  /\ busy = "request"
  /\ Return \/ \E k \in IbErrorKind : Raise(ib_err_to_py_err(k))
  /\ UNCHANGED <<clientVars, events, receiverVars>>

\* The subscription fails, or it is there and the task that is to read it is
\* spawned outside of the runtime, which panics under the lock.
order_updates ==
  /\ busy = "order_updates"
  /\ \/ Raise(ib_err_to_py_err("Other")) /\ UNCHANGED poisoned
     \/ Raise("PanicException") /\ poisoned' = TRUE
  /\ UNCHANGED <<object, held, opened, net, watcher, events, receiverVars>>

reconnect_ok ==
  /\ busy = "reconnect"
  /\ opened < MaxSessions
  /\ opened' = opened + 1
  /\ net' = "up"
  /\ watcher' = TRUE
  /\ Return
  /\ UNCHANGED <<object, held, poisoned, events, receiverVars>>

\* The old connection is given up before the new one is tried; the client stays.
reconnect_fails ==
  /\ busy = "reconnect"
  /\ net' = "closed"
  /\ \E k \in {"ConnectionFailed", "ConnectionReset", "Timeout", "Other"} :
       Raise(ib_err_to_py_err(k))
  /\ UNCHANGED <<object, held, poisoned, opened, watcher, events, receiverVars>>

\* The gateway has let go, and the mutex is locked once more, to drop the client.
disconnect ==
  /\ busy \in {"disconnect", "__exit__"}
  /\ held' = FALSE
  /\ net' = "closed"
  /\ Return
  /\ UNCHANGED <<object, poisoned, opened, watcher, events, receiverVars>>

\* Python drops the object: the client goes, then the runtime with all its tasks.
DropObject ==
  /\ object = "alive" /\ Free
  /\ object' = "dropped"
  /\ held' = FALSE
  /\ net' = "closed"
  /\ watcher' = FALSE
  /\ UNCHANGED <<poisoned, opened, busy, events, receiverVars, raised>>

-----------------------------------------------------------------------------
(* DiagnosticEventReceiver.                                                *)

Unread(r) == events - rx[r] + 1
Lagging(r) == Unread(r) > BroadcastCap

\* The oldest event the broadcast still has.
Oldest == events - BroadcastCap + 1

diagnostic_events(r) ==
  /\ object = "alive" /\ Free
  /\ rx[r] = 0
  /\ IF Usable THEN rx' = [rx EXCEPT ![r] = events + 1] /\ raised' = "nothing"
               ELSE raised' = Refusal /\ UNCHANGED rx
  /\ UNCHANGED <<clientVars, busy, events, iterating, yielded, missed>>

Yield(r) ==
  /\ Unread(r) \in 1 .. BroadcastCap
  /\ yielded' = [yielded EXCEPT ![r] = @ \union {rx[r]}]
  /\ rx' = [rx EXCEPT ![r] = @ + 1]
  /\ UNCHANGED missed

\* Err(Lagged(n)): the receiver is moved up to what is still there.
Lag(r) ==
  /\ Lagging(r)
  /\ missed' = [missed EXCEPT ![r] = @ \union (rx[r] .. Oldest - 1)]
  /\ rx' = [rx EXCEPT ![r] = Oldest]
  /\ UNCHANGED yielded

\* __next__: an event, or None, which ends a for loop; after a lag try again.
next(r) ==
  /\ Free /\ rx[r] # 0
  /\ \/ Yield(r) /\ raised' = "nothing" /\ UNCHANGED iterating
     \/ Lag(r) /\ iterating' = r /\ UNCHANGED raised
     \/ /\ Unread(r) = 0
        /\ raised' = "StopIteration"
        /\ UNCHANGED <<rx, yielded, missed, iterating>>
  /\ UNCHANGED <<clientVars, busy, events>>

\* The second try_recv; the watcher may have published since the first, and a
\* second lag is answered with None, too.
next_again(r) ==
  /\ iterating = r
  /\ iterating' = "none"
  /\ \/ Yield(r) /\ raised' = "nothing"
     \/ Lag(r) /\ raised' = "StopIteration"
  /\ UNCHANGED <<clientVars, busy, events>>

-----------------------------------------------------------------------------
Next ==
  \/ WatcherPublishes \/ ConnectionLost \/ WatcherEnds
  \/ \E account \in PyAccountType \union {<<"demo">>} : connect(account)
  \/ \E m \in Method : with_client(m)
  \/ request \/ order_updates \/ reconnect_ok \/ reconnect_fails \/ disconnect
  \/ DropObject
  \/ \E r \in Receiver : diagnostic_events(r) \/ next(r) \/ next_again(r)

Spec == Init /\ [][Next]_vars

-----------------------------------------------------------------------------
(* Properties.                                                             *)

\* The types; an event was yielded, missed or is still to be read.
TypeOK ==
  /\ object \in {"new", "alive", "dropped"}
  /\ held \in BOOLEAN /\ poisoned \in BOOLEAN /\ watcher \in BOOLEAN
  /\ busy \in Method \union {"no"}
  /\ opened \in 0 .. MaxSessions
  /\ net \in {"none", "up", "lost", "closed"}
  /\ events \in 0 .. MaxEvents
  /\ rx \in [Receiver -> 0 .. MaxEvents + 1]
  /\ iterating \in Receiver \union {"none"}
  /\ raised \in Exception \union {"nothing", "StopIteration"}
  /\ \A r \in Receiver :
       /\ yielded[r] \subseteq 1 .. events
       /\ rx[r] <= events + 1
  /\ busy # "no" => object = "alive" /\ held

\* A connection that is up belongs to a client that some Python object can
\* still disconnect or drop, whatever failed or panicked on the way.
NoOrphanConnection == net = "up" => object = "alive" /\ held

\* A receiver skips an event only when as many younger ones were broadcast as
\* the broadcast holds ("slow subscribers will miss old events", README.md:264):
\* a second lag in one call of next and a None in between cost nothing more.
SkipsOnlyOverwritten ==
  \A r \in Receiver :
    LET seen == yielded[r] \union missed[r]
    IN  /\ \A e \in missed[r] : e + BroadcastCap <= events
        /\ yielded[r] \intersect missed[r] = {}
        /\ \A e \in 1 .. rx[r] - 1, f \in seen : f <= e => e \in seen

\* "Graceful disconnect" (README.md:229), as in the example that iterates the
\* order updates and then disconnects (README.md:474-486): a client that is
\* connected lets disconnect through.
DisconnectGoesThrough ==
  [][with_client("disconnect") /\ held => busy' = "disconnect"]_vars
=============================================================================
