---------------------------- MODULE OrderTruth ----------------------------
(***************************************************************************)
(* What place_order_await promises about an order, whatever messages are   *)
(* lost, reordered or late: an answer is given once, and it was true of    *)
(* the order at the broker when it was given.  Pending promises nothing.   *)
(***************************************************************************)
CONSTANT Order

VARIABLES
  been,    \* the states each order has been in at the broker
  answer   \* what the caller was told, "none" before

vars == <<been, answer>>

(* Rejected is a proven refusal of the broker, and an explicit cancel is   *)
(* not one (src/src/orders.rs:174-177, 443-446).  Inactive says that the   *)
(* order was not working at some moment: an order parked while the market  *)
(* is closed may well work later.                                          *)
Justified(states, a) ==
  CASE a = "Filled"        -> "filled" \in states
    [] a = "Rejected"      -> "refused" \in states
    [] a = "Cancelled"     -> "cancelled" \in states
    [] a = "Inactive"      -> states \intersect {"refused", "parked"} # {}
    [] a = "OrderRejected" -> "refused" \in states
    [] OTHER               -> TRUE

Init ==
  /\ been = [o \in Order |-> {"unsent"}]
  /\ answer = [o \in Order |-> "none"]

\* The broker moves on with any number of orders, and forgets nothing.
BrokerMoves == \A o \in Order : been[o] \subseteq been'[o]

Answer(o) ==
  /\ answer[o] = "none"
  /\ answer'[o] # "none"
  /\ Justified(been'[o], answer'[o])
  /\ \A p \in Order \ {o} : answer'[p] = answer[p]

Next == BrokerMoves /\ (answer' = answer \/ \E o \in Order : Answer(o))

Spec == Init /\ [][Next]_vars
=============================================================================
