---------------------------- MODULE EventRelay ----------------------------
(***************************************************************************)
(* What remote diagnostics promises of the events it relays, whatever      *)
(* buffers, tasks and timeouts are in between: an event reaches the        *)
(* endpoint at most once, never after a younger one, and never after it    *)
(* was given up.  Events are numbered in the order they were published.    *)
(***************************************************************************)
EXTENDS Integers, Sequences, SequencesExt

VARIABLES
  published,  \* how many events there are
  delivered,  \* the events the endpoint has received, as it received them
  gone        \* the events that will never be delivered

vars == <<published, delivered, gone>>

Horizon == IF delivered = <<>> THEN 0 ELSE Last(delivered)
Pending == ((Horizon + 1) .. published) \ gone

Init ==
  /\ published = 0
  /\ delivered = <<>>
  /\ gone = {}

Publish ==
  /\ published' = published + 1
  /\ UNCHANGED <<delivered, gone>>

\* One batch arrives: in order, all that is pending up to its last event, no
\* more, no less.  What a batch skips must have been given up before.
Deliver ==
  LET batch == SubSeq(delivered', Len(delivered) + 1, Len(delivered'))
  IN  /\ batch # <<>>
      /\ delivered' = delivered \o batch
      /\ \A i, j \in DOMAIN batch : i < j => batch[i] < batch[j]
      /\ Range(batch) = {e \in Pending : e <= Last(batch)}
      /\ UNCHANGED <<published, gone>>

GiveUp ==
  /\ gone \subseteq gone'
  /\ gone' # gone
  /\ gone' \ gone \subseteq Pending
  /\ UNCHANGED <<published, delivered>>

Next == Publish \/ Deliver \/ GiveUp

Spec == Init /\ [][Next]_vars
=============================================================================
