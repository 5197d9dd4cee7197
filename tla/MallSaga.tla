------------------------------ MODULE MallSaga ------------------------------
(***************************************************************************)
(* The exchange saga: the order, inventory and points branches, DTM's      *)
(* branch barrier that each service keeps in its own database, and the DTM *)
(* server that drives the five branches submitted by                       *)
(* DTMSagaSubmitter.Submit.                                                *)
(*                                                                         *)
(* DTM is not part of the repository; its server is modelled by the use    *)
(* the code makes of it.  It runs the actions of a saga in order, one call *)
(* at a time, and on a failure compensates in reverse order, starting with *)
(* the failed branch, retrying each compensation until it succeeds.  A     *)
(* call either returns (the handler ran and the server saw the reply) or   *)
(* times out; a timed-out request stays in the network and its handler     *)
(* may run at any later moment, once, several times or never.  A server    *)
(* that crashes and resumes a saga repeats its current call, which is the  *)
(* same as a timeout followed by a retry.                                  *)
(***************************************************************************)
EXTENDS MallOrder, MallInventory, MallPoints

CONSTANTS
  RetryLimit,    \* saga.RetryLimit: timeouts of one action before rollback
  MaxTimeouts    \* bound of the model: timeouts over all sagas

ASSUME SagaAssumption == RetryLimit \in Nat /\ MaxTimeouts \in Nat

VARIABLES
  phase,      \* order -> state of its saga at the DTM server
  step,       \* order -> branch whose action or compensation is being called
  tries,      \* order -> timeouts of the current action
  payload,    \* order -> payload the saga was submitted with
  barrier,    \* order -> op -> branches with a dtm_barrier row for op
  late,       \* order -> op -> branches with a timed-out request in the network
  timeouts    \* timeouts so far

dtmVars == <<phase, step, tries, payload, timeouts>>
tables == <<orders, inventoryVars, pointsVars, barrier>>
vars == <<orders, inventory, reservations, balance, ledger,
          phase, step, tries, payload, barrier, late, timeouts>>

Branches == 1..5
Ops == {"action", "compensate"}
Phases == {"none", "acting", "compensating", "succeeded", "aborted"}
NoPayload == [order |-> "none"]

TypeOK ==
  /\ OrderTypeOK /\ InventoryTypeOK /\ PointsTypeOK
  /\ phase \in [OrderIds -> Phases]
  /\ step \in [OrderIds -> 0..5]
  /\ tries \in [OrderIds -> 0..RetryLimit]
  /\ payload \in [OrderIds -> SagaPayload \cup {NoPayload}]
  /\ barrier \in [OrderIds -> [Ops -> SUBSET Branches]]
  /\ late \in [OrderIds -> [Ops -> SUBSET Branches]]
  /\ timeouts \in 0..MaxTimeouts

Init ==
  /\ OrderInit /\ InventoryInit /\ PointsInit
  /\ phase = [o \in OrderIds |-> "none"]
  /\ step = [o \in OrderIds |-> 0]
  /\ tries = [o \in OrderIds |-> 0]
  /\ payload = [o \in OrderIds |-> NoPayload]
  /\ barrier = [o \in OrderIds |-> [op \in Ops |-> {}]]
  /\ late = [o \in OrderIds |-> [op \in Ops |-> {}]]
  /\ timeouts = 0

----------------------------------------------------------------------------
(* The business operation behind branch i, in the order Submit adds them.  *)
OrderBranch(i, op, p, r) ==
  /\ \/ i = 1 /\ op = "action" /\ prepareOrder(p, r)
     \/ i = 5 /\ op = "action" /\ confirmOrder(p, r)
     \/ i \in {1, 5} /\ op = "compensate" /\ cancelOrder(p, r)
  /\ UNCHANGED <<inventoryVars, pointsVars>>

InventoryBranch(i, op, p, r) ==
  /\ \/ i = 2 /\ op = "action" /\ reserveInventoryTx(p, r)
     \/ i = 2 /\ op = "compensate" /\ releaseInventoryTx(p, r)
     \/ i = 4 /\ op = "action" /\ confirmInventoryTx(p, r)
     \/ i = 4 /\ op = "compensate" /\ unconfirmInventoryTx(p, r)
  /\ UNCHANGED <<orders, pointsVars>>

PointsBranch(i, op, p, r) ==
  /\ \/ i = 3 /\ op = "action" /\ debitPointsTx(p, r)
     \/ i = 3 /\ op = "compensate" /\ refundPointsTx(p, r)
  /\ UNCHANGED <<orders, inventoryVars>>

Operation(i, op, p, r) ==
  \/ OrderBranch(i, op, p, r)
  \/ InventoryBranch(i, op, p, r)
  \/ PointsBranch(i, op, p, r)

(* barrier.CallWithDB.  A call whose own row exists is a duplicate; a      *)
(* compensation whose action left no row is a null compensation, and it    *)
(* leaves the action's row behind so that a late action is suppressed.     *)
Skipped(o, i, op) ==
  \/ i \in barrier[o][op]
  \/ op = "compensate" /\ i \notin barrier[o]["action"]

\* Mutant: a null compensation leaves no action row.
RecordOwnRow(o, i, op) ==
  barrier' = [barrier EXCEPT ![o][op] = @ \cup {i}]

RecordRows(o, i, op) ==
  barrier' = [barrier EXCEPT ![o] =
                [b \in Ops |-> IF b \in {"action", op} THEN barrier[o][b] \cup {i}
                               ELSE barrier[o][b]]]

(* BranchServer.branch: the handler of one request.  The barrier row and   *)
(* the operation commit in one transaction or not at all.                  *)
branch(o, i, op, r) ==
  \/ /\ Skipped(o, i, op)
     /\ r = "ok"
     /\ RecordRows(o, i, op)
     /\ UNCHANGED <<orders, inventoryVars, pointsVars>>
  \/ /\ ~Skipped(o, i, op)
     /\ Operation(i, op, payload[o], r)
     /\ IF r = "ok" THEN RecordRows(o, i, op) ELSE UNCHANGED barrier

----------------------------------------------------------------------------
\* What the DTM server does once the current call of saga o reported r.
Advance(o, r) ==
  /\ tries' = [tries EXCEPT ![o] = 0]
  /\ \/ /\ phase[o] = "acting" /\ r = "ok" /\ step[o] < 5
        /\ step' = [step EXCEPT ![o] = @ + 1]
        /\ UNCHANGED phase
     \/ /\ phase[o] = "acting" /\ r = "ok" /\ step[o] = 5
        /\ phase' = [phase EXCEPT ![o] = "succeeded"]
        /\ UNCHANGED step
     \/ /\ phase[o] = "acting" /\ r # "ok"
        /\ phase' = [phase EXCEPT ![o] = "compensating"]
        /\ UNCHANGED step
     \/ /\ phase[o] = "compensating" /\ r = "ok"
        /\ step' = [step EXCEPT ![o] = @ - 1]
        /\ phase' = [phase EXCEPT ![o] = IF step[o] = 1 THEN "aborted" ELSE @]
     \/ /\ phase[o] = "compensating" /\ r # "ok"
        /\ UNCHANGED <<phase, step>>

Running(o) == phase[o] \in {"acting", "compensating"}
CurrentOp(o) == IF phase[o] = "acting" THEN "action" ELSE "compensate"

\* DTMSagaSubmitter.Submit: the server accepts a gid once.
Submit(p) ==
  /\ p.user = p.order[1]
  /\ phase[p.order] = "none"
  /\ phase' = [phase EXCEPT ![p.order] = "acting"]
  /\ step' = [step EXCEPT ![p.order] = 1]
  /\ payload' = [payload EXCEPT ![p.order] = p]
  /\ UNCHANGED <<tables, tries, late, timeouts>>

\* The current call runs its handler and the server sees the reply.
CallReturns(o, r) ==
  /\ Running(o)
  /\ branch(o, step[o], CurrentOp(o), r)
  /\ Advance(o, r)
  /\ UNCHANGED <<payload, late, timeouts>>

(* The reply is a failure although the operation would have succeeded: an  *)
(* injected failure, a database error or exhausted deadlock retries before *)
(* the commit.                                                             *)
CallFails(o) ==
  /\ Running(o)
  /\ Advance(o, "error")
  /\ UNCHANGED <<tables, payload, late, timeouts>>

\* The commit took effect but the connection broke: the handler reports an error.
CommitUnknown(o) ==
  /\ Running(o)
  /\ branch(o, step[o], CurrentOp(o), "ok")
  /\ Advance(o, "error")
  /\ UNCHANGED <<payload, late, timeouts>>

\* No reply: an action is retried up to RetryLimit times, a compensation for ever.
CallTimesOut(o) ==
  /\ Running(o) /\ timeouts < MaxTimeouts
  /\ timeouts' = timeouts + 1
  /\ late' = [late EXCEPT ![o][CurrentOp(o)] = @ \cup {step[o]}]
  /\ IF phase[o] = "acting" /\ tries[o] < RetryLimit
       THEN tries' = [tries EXCEPT ![o] = @ + 1] /\ UNCHANGED <<phase, step>>
       ELSE Advance(o, "error")
  /\ UNCHANGED <<tables, payload>>

\* A timed-out request reaches its handler after all; nobody reads the reply.
LateDelivery(o, i, op, r) ==
  /\ i \in late[o][op]
  /\ branch(o, i, op, r)
  /\ UNCHANGED <<dtmVars, late>>

Next ==
  \/ \E p \in SagaPayload : Submit(p)
  \/ \E o \in OrderIds, r \in Results : CallReturns(o, r)
  \/ \E o \in OrderIds : CallFails(o) \/ CommitUnknown(o) \/ CallTimesOut(o)
  \/ \E o \in OrderIds, i \in Branches, op \in Ops, r \in Results :
       LateDelivery(o, i, op, r)

Spec == Init /\ [][Next]_vars

(* A submitted saga is driven until its calls return: the server retries   *)
(* every second and a request that does not time out is answered.          *)
Fairness == \A o \in OrderIds : WF_vars(\E r \in Results : CallReturns(o, r))

FairSpec == Spec /\ Fairness

----------------------------------------------------------------------------
OrderStatus(o) == orders[o].status
ReservationStatus(o) == reservations[o].status
Debited(o) == ledger[o]["debit"] # NoEntry /\ ledger[o]["refund"] = NoEntry

(* All or nothing.  When DTM has finished a saga, the three databases      *)
(* agree: after success the order and its reservation are confirmed and    *)
(* the points are debited; after rollback the order is compensated or was  *)
(* never created, no unit is held and no point is missing.  Late and       *)
(* duplicated branch requests cannot break it.                             *)
SagaAtomic ==
  \A o \in OrderIds :
    /\ phase[o] = "succeeded" =>
         /\ OrderStatus(o) = "confirmed"
         /\ ReservationStatus(o) = "confirmed"
         /\ Debited(o)
    /\ phase[o] = "aborted" =>
         /\ OrderStatus(o) \in {"none", "compensated"}
         /\ ReservationStatus(o) \in {"none", "released"}
         /\ ~Debited(o)

(* The end of a saga is final: once DTM has reported success or rollback,  *)
(* no late delivery changes the order, its reservation or its ledger.      *)
EndIsFinal ==
  [][\A o \in OrderIds :
       phase[o] \in {"succeeded", "aborted"} =>
         /\ orders'[o] = orders[o]
         /\ reservations'[o] = reservations[o]
         /\ ledger'[o] = ledger[o]]_vars

\* The rows that branch i expects, which leave it no reason to fail but a shortage.
Settleable(p, from, source) ==
  LET row == reservations[p.order] IN
  row.status = from /\ SameItem(row, p) /\ inventory[p.product][source] >= p.quantity

Ready(i, op, p) ==
  /\ op = "action" =>
       /\ i = 1 => orders[p.order] = NoOrder
       /\ i = 2 => reservations[p.order] = NoReservation
       /\ i = 3 => ledger[p.order]["debit"] = NoEntry
       /\ i = 4 => Settleable(p, "reserved", "reserved")
       /\ i = 5 => orders[p.order].status = "pending"
  /\ op = "compensate" =>
       /\ i = 2 => Settleable(p, "reserved", "reserved")
       /\ i = 3 => /\ ledger[p.order]["debit"] = DebitEntry(p)
                   /\ ledger[p.order]["refund"] = NoEntry
       /\ i = 4 => Settleable(p, "confirmed", "sold")

(* Whatever late and repeated requests ran before, the current call finds  *)
(* the rows it expects or is skipped: no compensation can fail, and no     *)
(* action after the debit, but for a database or network error; an earlier *)
(* action fails only for lack of stock or points.  So the errors that      *)
(* would keep DTM retrying a compensation for ever never happen.           *)
CallsReady ==
  \A o \in OrderIds :
    Running(o) /\ ~Skipped(o, step[o], CurrentOp(o)) => Ready(step[o], CurrentOp(o), payload[o])

(* Every submitted saga ends: no interleaving of late requests and other   *)
(* sagas makes a compensation fail for ever.                               *)
SagaEnds ==
  \A o \in OrderIds : Running(o) ~> phase[o] \in {"succeeded", "aborted"}

(* Nothing leaks: when no saga runs, no unit stays reserved (mallbench:    *)
(* no_reserved_leak), late and repeated requests included.                 *)
NoReservedLeak ==
  (\A o \in OrderIds : ~Running(o)) => \A p \in Products : inventory[p]["reserved"] = 0

----------------------------------------------------------------------------
(* The inductive invariant behind SagaAtomic.  Acted and Undone say which  *)
(* barrier rows a saga has, Pending which late requests it has.            *)
Acted(o, i) == i \in barrier[o]["action"]
Undone(o, i) == i \in barrier[o]["compensate"]
Pending(o, i, op) == i \in late[o][op]

\* A submitted saga carries the payload of its own order.
PayloadOwn(o) ==
  phase[o] # "none" => payload[o] \in SagaPayload /\ payload[o].order = o

\* How far the server got, compared with the rows and the late requests.
PhaseMatchesRows(o) ==
  /\ \A i \in Branches : Undone(o, i) => Acted(o, i)
  /\ phase[o] = "none" =>
       \A i \in Branches, op \in Ops : ~Acted(o, i) /\ ~Pending(o, i, op)
  /\ phase[o] = "acting" =>
       /\ step[o] \in Branches
       /\ \A i \in Branches :
            /\ i < step[o] => Acted(o, i)
            /\ i > step[o] => ~Acted(o, i) /\ ~Pending(o, i, "action")
            /\ ~Undone(o, i) /\ ~Pending(o, i, "compensate")
  /\ phase[o] = "compensating" =>
       /\ step[o] \in Branches
       /\ \A i \in Branches :
            /\ i < step[o] => /\ Acted(o, i) /\ ~Undone(o, i)
                              /\ ~Pending(o, i, "compensate")
            /\ i > step[o] => (Acted(o, i) \/ Pending(o, i, "action") => Undone(o, i))
            /\ i > step[o] => (Pending(o, i, "compensate") => Undone(o, i))
  /\ phase[o] = "succeeded" =>
       \A i \in Branches :
         Acted(o, i) /\ ~Undone(o, i) /\ ~Pending(o, i, "compensate")
  /\ phase[o] = "aborted" =>
       \A i \in Branches, op \in Ops : Acted(o, i) \/ Pending(o, i, op) => Undone(o, i)

\* The business rows of an order, as its barrier rows determine them.
OrderMatchesRows(o) ==
  /\ ~Acted(o, 1) => orders[o] = NoOrder
  /\ Acted(o, 1) /\ ~Undone(o, 1) =>
       /\ orders[o] # NoOrder
       /\ ~Acted(o, 5) => OrderStatus(o) = "pending"
       /\ Acted(o, 5) /\ ~Undone(o, 5) => OrderStatus(o) = "confirmed"
  /\ Undone(o, 1) => OrderStatus(o) \in {"none", "compensated"}

ReservationMatchesRows(o) ==
  /\ ~Acted(o, 2) => reservations[o] = NoReservation
  /\ Acted(o, 2) /\ ~Undone(o, 2) =>
       ReservationStatus(o) = IF Acted(o, 4) /\ ~Undone(o, 4)
                              THEN "confirmed" ELSE "reserved"
  /\ Undone(o, 2) => ReservationStatus(o) \in {"none", "released"}

LedgerMatchesRows(o) ==
  LET debit == ledger[o]["debit"] # NoEntry
      refund == ledger[o]["refund"] # NoEntry
  IN
  /\ ~Acted(o, 3) => ~debit
  /\ Acted(o, 3) /\ ~Undone(o, 3) => debit
  /\ refund => Undone(o, 3)
  /\ Undone(o, 3) => (debit <=> refund)

(* The barrier rows of a saga determine what its order, reservation and    *)
(* ledger rows are, and never run ahead of the server's own progress.      *)
BarrierMatchesTables ==
  \A o \in OrderIds :
    /\ PayloadOwn(o)
    /\ PhaseMatchesRows(o)
    /\ OrderMatchesRows(o)
    /\ ReservationMatchesRows(o)
    /\ LedgerMatchesRows(o)

----------------------------------------------------------------------------
\* The refinement mapping to AtomicExchange.
OutcomeOf(o) ==
  CASE phase[o] = "none" -> "none"
    [] phase[o] = "succeeded" -> "committed"
    [] phase[o] = "aborted" -> "aborted"
    [] OTHER -> "open"

EffectsOf(o) ==
  {x \in {"order", "goods", "points"} :
     \/ x = "order" /\ OrderStatus(o) = "confirmed"
     \/ x = "goods" /\ ReservationStatus(o) = "confirmed"
     \/ x = "points" /\ Debited(o)}

Exchange == INSTANCE AtomicExchange WITH
  Exchanges <- OrderIds,
  outcome <- [o \in OrderIds |-> OutcomeOf(o)],
  effects <- [o \in OrderIds |-> EffectsOf(o)]

(* The five branches with their barrier implement one atomic exchange:     *)
(* every step of the saga changes at most one effect of one open exchange, *)
(* and an exchange ends with all three effects or with none.               *)
ImplementsExchange == Exchange!Spec
=============================================================================
