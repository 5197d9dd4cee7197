--------------------------- MODULE AtomicExchange ---------------------------
(***************************************************************************)
(* What an exchange of points for a product promises: while it is open its *)
(* effects come and go one at a time, and it ends either with all of them  *)
(* or with none, after which nothing changes any more.                     *)
(***************************************************************************)
CONSTANT Exchanges

VARIABLES
  outcome,   \* exchange -> how far it is
  effects    \* exchange -> the effects that are in place

vars == <<outcome, effects>>

\* The order is confirmed, the units are sold, the points are debited.
Effects == {"order", "goods", "points"}

Init ==
  /\ outcome = [e \in Exchanges |-> "none"]
  /\ effects = [e \in Exchanges |-> {}]

Open(e) ==
  /\ outcome[e] = "none"
  /\ outcome' = [outcome EXCEPT ![e] = "open"]
  /\ UNCHANGED effects

Work(e) ==
  /\ outcome[e] = "open"
  /\ \E x \in Effects :
       \/ effects' = [effects EXCEPT ![e] = @ \cup {x}]
       \/ effects' = [effects EXCEPT ![e] = @ \ {x}]
  /\ UNCHANGED outcome

Commit(e) ==
  /\ outcome[e] = "open"
  /\ outcome' = [outcome EXCEPT ![e] = "committed"]
  /\ effects' = [effects EXCEPT ![e] = Effects]

Abort(e) ==
  /\ outcome[e] = "open"
  /\ outcome' = [outcome EXCEPT ![e] = "aborted"]
  /\ effects' = [effects EXCEPT ![e] = {}]

Next == \E e \in Exchanges : Open(e) \/ Work(e) \/ Commit(e) \/ Abort(e)

Spec == Init /\ [][Next]_vars
=============================================================================
