----------------------------- MODULE MallPoints -----------------------------
(***************************************************************************)
(* The points service: one balance per user and a ledger with at most one  *)
(* "debit" and one "refund" row per order.  Each operation is one SQL      *)
(* transaction, one atomic step.  PointsSpec lets callers issue them in    *)
(* any order with any payload, as the Kitex methods do.                    *)
(***************************************************************************)
EXTENDS MallModel

VARIABLES
  balance,   \* user -> points
  ledger     \* order -> operation -> ledger row, or NoEntry

pointsVars == <<balance, ledger>>

NoEntry == [user |-> "none", delta |-> 0]
Entry == [user : Users, delta : Int]
LedgerOps == {"debit", "refund"}

PointsTypeOK ==
  /\ balance \in [Users -> Nat]
  /\ ledger \in [OrderIds -> [LedgerOps -> Entry \cup {NoEntry}]]

PointsInit ==
  /\ balance = InitialPoints
  /\ ledger = [o \in OrderIds |-> [op \in LedgerOps |-> NoEntry]]

----------------------------------------------------------------------------
DebitEntry(p) == [user |-> p.user, delta |-> -p.total]
RefundEntry(p) == [user |-> p.user, delta |-> p.total]

\* INSERT into mall_points_ledgers together with the balance update.
Post(p, op, entry) ==
  /\ ledger' = [ledger EXCEPT ![p.order][op] = entry]
  /\ balance' = [balance EXCEPT ![p.user] = @ + entry.delta]

debitPointsTx(p, r) ==
  LET row == ledger[p.order]["debit"]
      enough == balance[p.user] >= p.total
  IN
  \/ /\ row = NoEntry /\ enough
     /\ r = "ok"
     /\ Post(p, "debit", DebitEntry(p))
  \/ /\ row = NoEntry /\ ~enough
     /\ r = "refused"
     /\ UNCHANGED pointsVars
  \/ /\ row # NoEntry
     /\ r = IF row = DebitEntry(p) THEN "ok" ELSE "refused"
     /\ UNCHANGED pointsVars

refundPointsTx(p, r) ==
  LET debit == ledger[p.order]["debit"]
      refund == ledger[p.order]["refund"]
  IN
  \/ /\ debit = DebitEntry(p) /\ refund = NoEntry
     /\ r = "ok"
     /\ Post(p, "refund", RefundEntry(p))
  \/ /\ debit # DebitEntry(p) \/ refund # NoEntry
     /\ r = IF debit = NoEntry \/ (debit = DebitEntry(p) /\ refund = RefundEntry(p))
            THEN "ok" ELSE "refused"
     /\ UNCHANGED pointsVars

----------------------------------------------------------------------------
ApplyPointsMutation(p, r) == debitPointsTx(p, r) \/ refundPointsTx(p, r)

PointsNext == \E p \in SagaPayload, r \in Results : ApplyPointsMutation(p, r)

PointsSpec == PointsInit /\ [][PointsNext]_pointsVars

----------------------------------------------------------------------------
(* A refund gives back exactly what the same order's debit took, to the    *)
(* same user, whatever payloads later calls carry: a refund row never      *)
(* stands without a debit row of the same user and the opposite amount.    *)
RefundMatchesDebit ==
  \A o \in OrderIds :
    ledger[o]["refund"] # NoEntry =>
      /\ ledger[o]["debit"] # NoEntry
      /\ ledger[o]["refund"].user = ledger[o]["debit"].user
      /\ ledger[o]["refund"].delta = -ledger[o]["debit"].delta

\* What the orders of a user took and did not give back.
Spent(u) ==
  [o \in {x \in OrderIds : /\ ledger[x]["debit"] # NoEntry /\ ledger[x]["debit"].user = u
                           /\ ledger[x]["refund"] = NoEntry}
     |-> -ledger[o]["debit"].delta]

(* No point is created or lost: the balance of a user and what the debits  *)
(* without a refund took add up to the initial balance, whatever payloads  *)
(* callers send in whatever order (mallbench: points_conserved).           *)
PointsConserved ==
  \A u \in Users : balance[u] + Total(Spent(u)) = InitialPoints[u]
=============================================================================
