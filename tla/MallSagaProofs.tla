--------------------------- MODULE MallSagaProofs ---------------------------
(***************************************************************************)
(* Proofs about the inventory and points services and the exchange saga,   *)
(* for any users, requests, products, quantities and amounts: each service *)
(* alone under any callers, the saga as their caller, the exchange it      *)
(* implements, and the calls that it makes.                                *)
(***************************************************************************)
EXTENDS MallSaga, FiniteSetTheorems, TLAPS

----------------------------------------------------------------------------
(* Moving units between two counters keeps them natural numbers when the   *)
(* source holds enough, and keeps the sum of the three counters.           *)
LEMMA MoveKeepsStock ==
  ASSUME InventoryTypeOK, InventoryConserved,
         NEW product \in Products, NEW q \in Nat,
         NEW from \in Counters, NEW to \in Counters, from # to,
         inventory[product][from] >= q,
         Move(product, q, from, to)
  PROVE  /\ inventory' \in [Products -> [Counters -> Nat]]
         /\ InventoryConserved'
<1>1. inventory' \in [Products -> [Counters -> Nat]]
  BY DEF InventoryTypeOK, Move
<1>2. ASSUME NEW p \in Products
      PROVE  inventory'[p]["available"] + inventory'[p]["reserved"]
               + inventory'[p]["sold"] = InitialStock[p]
  <2>1. CASE p # product
    BY <2>1 DEF InventoryTypeOK, InventoryConserved, Move
  <2>2. CASE p = product
    BY <2>2 DEF InventoryTypeOK, InventoryConserved, Move, Counters
  <2> QED BY <2>1, <2>2
<1> QED BY <1>1, <1>2 DEF InventoryConserved

(* One inventory operation keeps the type of the tables and the stock.     *)
LEMMA InventoryStep ==
  ASSUME InventoryTypeOK, InventoryConserved,
         NEW p \in SagaPayload, NEW r \in Results,
         ApplyInventoryMutation(p, r)
  PROVE  InventoryTypeOK' /\ InventoryConserved'
<1> USE MallAssumption
<1>p. /\ p.order \in OrderIds /\ p.product \in Products
      /\ p.quantity \in Quantities /\ p.quantity \in Nat
  BY DEF SagaPayload
<1>u. ASSUME UNCHANGED inventoryVars PROVE InventoryTypeOK' /\ InventoryConserved'
  BY <1>u DEF inventoryVars, InventoryTypeOK, InventoryConserved
<1>s. ASSUME NEW done, NEW from, NEW to \in {"reserved", "confirmed", "released"},
             NEW source \in Counters, NEW target \in Counters, source # target,
             Settle(p, r, done, from, to, source, target)
      PROVE  InventoryTypeOK' /\ InventoryConserved'
  <2>1. CASE UNCHANGED inventoryVars
    BY <2>1, <1>u
  <2>2. CASE /\ reservations[p.order] # NoReservation
             /\ inventory[p.product][source] >= p.quantity
             /\ Move(p.product, p.quantity, source, target)
             /\ reservations' = [reservations EXCEPT ![p.order].status = to]
    <3>1. inventory' \in [Products -> [Counters -> Nat]] /\ InventoryConserved'
      BY <1>p, <1>s, <2>2, MoveKeepsStock
    <3>2. reservations[p.order] \in Reservation
      BY <1>p, <2>2 DEF InventoryTypeOK
    <3>3. [reservations[p.order] EXCEPT !.status = to] \in Reservation
      BY <3>2, <1>s DEF Reservation
    <3>4. reservations' \in [OrderIds -> Reservation \cup {NoReservation}]
      BY <1>p, <2>2, <3>3 DEF InventoryTypeOK
    <3> QED BY <3>1, <3>4 DEF InventoryTypeOK
  <2> QED BY <1>s, <2>1, <2>2 DEF Settle
<1>1. CASE reserveInventoryTx(p, r)
  <2>1. CASE UNCHANGED inventoryVars
    BY <2>1, <1>u
  <2>2. CASE /\ inventory[p.product]["available"] >= p.quantity
             /\ Move(p.product, p.quantity, "available", "reserved")
             /\ reservations' = [reservations EXCEPT ![p.order] =
                                   [status |-> "reserved", product |-> p.product,
                                    quantity |-> p.quantity]]
    <3>1. inventory' \in [Products -> [Counters -> Nat]] /\ InventoryConserved'
      BY <1>p, <2>2, MoveKeepsStock DEF Counters
    <3>2. reservations' \in [OrderIds -> Reservation \cup {NoReservation}]
      BY <1>p, <2>2 DEF InventoryTypeOK, Reservation
    <3> QED BY <3>1, <3>2 DEF InventoryTypeOK
  <2> QED BY <1>1, <2>1, <2>2 DEF reserveInventoryTx
<1>2. CASE releaseInventoryTx(p, r)
  BY <1>2, <1>u, <1>s DEF releaseInventoryTx, Missing, Counters
<1>3. CASE confirmInventoryTx(p, r)
  BY <1>3, <1>u, <1>s DEF confirmInventoryTx, Missing, Counters
<1>4. CASE unconfirmInventoryTx(p, r)
  BY <1>4, <1>u, <1>s DEF unconfirmInventoryTx, Missing, Counters
<1> QED BY <1>1, <1>2, <1>3, <1>4 DEF ApplyInventoryMutation

\* The inventory's invariants hold at the start.
LEMMA InventoryStart == InventoryInit => InventoryTypeOK /\ InventoryConserved
BY MallAssumption DEF InventoryInit, InventoryTypeOK, InventoryConserved, Counters

(* Whatever operations callers of the inventory service issue, in whatever *)
(* order and however often, stock counters stay natural numbers and add up *)
(* to the initial stock.                                                   *)
THEOREM InventorySafe == InventorySpec => [](InventoryTypeOK /\ InventoryConserved)
<1>1. InventoryInit => InventoryTypeOK /\ InventoryConserved
  BY InventoryStart
<1>2. InventoryTypeOK /\ InventoryConserved /\ [InventoryNext]_inventoryVars
        => (InventoryTypeOK /\ InventoryConserved)'
  <2> SUFFICES ASSUME InventoryTypeOK, InventoryConserved, [InventoryNext]_inventoryVars
               PROVE  (InventoryTypeOK /\ InventoryConserved)'
    OBVIOUS
  <2>1. CASE InventoryNext
    BY <2>1, InventoryStep DEF InventoryNext
  <2>2. CASE UNCHANGED inventoryVars
    BY <2>2 DEF inventoryVars, InventoryTypeOK, InventoryConserved
  <2> QED BY <2>1, <2>2
<1> QED BY <1>1, <1>2, PTL DEF InventorySpec

----------------------------------------------------------------------------
\* The debit and the refund of an order are rows of the ledger.
LEMMA EntriesDiffer ==
  ASSUME NEW p \in SagaPayload
  PROVE  /\ DebitEntry(p) # NoEntry /\ RefundEntry(p) # NoEntry
         /\ DebitEntry(p) \in Entry /\ RefundEntry(p) \in Entry
<1>1. p.user \in Users /\ p.total \in Nat /\ p.total # 0
  BY MallAssumption DEF SagaPayload
<1>2. DebitEntry(p).delta # 0 /\ RefundEntry(p).delta # 0
  BY <1>1 DEF DebitEntry, RefundEntry
<1>3. NoEntry.delta = 0
  BY DEF NoEntry
<1> QED BY <1>1, <1>2, <1>3 DEF DebitEntry, RefundEntry, Entry

(* One points operation keeps the type of the tables and the pairing of    *)
(* refunds with debits.                                                    *)
LEMMA PointsStep ==
  ASSUME PointsTypeOK, RefundMatchesDebit,
         NEW p \in SagaPayload, NEW r \in Results,
         ApplyPointsMutation(p, r)
  PROVE  PointsTypeOK' /\ RefundMatchesDebit'
<1>p. /\ p.order \in OrderIds /\ p.user \in Users
      /\ p.total \in Nat /\ p.total # 0
  BY MallAssumption DEF SagaPayload
<1>e. /\ DebitEntry(p) # NoEntry /\ RefundEntry(p) # NoEntry
      /\ DebitEntry(p) \in Entry /\ RefundEntry(p) \in Entry
  BY EntriesDiffer
<1>u. ASSUME UNCHANGED pointsVars PROVE PointsTypeOK' /\ RefundMatchesDebit'
  BY <1>u DEF pointsVars, PointsTypeOK, RefundMatchesDebit
<1>1. CASE debitPointsTx(p, r)
  <2>1. CASE UNCHANGED pointsVars
    BY <2>1, <1>u
  <2>2. CASE /\ ledger[p.order]["debit"] = NoEntry
             /\ balance[p.user] >= p.total
             /\ Post(p, "debit", DebitEntry(p))
    <3>1. balance' \in [Users -> Nat]
      BY <1>p, <2>2 DEF Post, DebitEntry, PointsTypeOK
    <3>2. ledger' \in [OrderIds -> [LedgerOps -> Entry \cup {NoEntry}]]
      BY <1>p, <1>e, <2>2 DEF Post, PointsTypeOK, LedgerOps
    <3>3. RefundMatchesDebit'
      BY <1>p, <1>e, <2>2 DEF Post, PointsTypeOK, LedgerOps, RefundMatchesDebit
    <3> QED BY <3>1, <3>2, <3>3 DEF PointsTypeOK
  <2> QED BY <1>1, <2>1, <2>2 DEF debitPointsTx
<1>2. CASE refundPointsTx(p, r)
  <2>1. CASE UNCHANGED pointsVars
    BY <2>1, <1>u
  <2>2. CASE /\ ledger[p.order]["debit"] = DebitEntry(p)
             /\ Post(p, "refund", RefundEntry(p))
    <3>1. balance' \in [Users -> Nat]
      BY <1>p, <2>2 DEF Post, RefundEntry, PointsTypeOK
    <3>2. ledger' \in [OrderIds -> [LedgerOps -> Entry \cup {NoEntry}]]
      BY <1>p, <1>e, <2>2 DEF Post, PointsTypeOK, LedgerOps
    <3>3. /\ ledger'[p.order]["debit"] = DebitEntry(p)
          /\ ledger'[p.order]["refund"] = RefundEntry(p)
          /\ \A o \in OrderIds \ {p.order} : ledger'[o] = ledger[o]
      BY <1>p, <2>2 DEF Post, PointsTypeOK, LedgerOps
    <3>4. RefundEntry(p).user = DebitEntry(p).user /\ RefundEntry(p).delta = -DebitEntry(p).delta
      BY <1>p DEF RefundEntry, DebitEntry
    <3>5. RefundMatchesDebit'
      BY <1>e, <3>3, <3>4 DEF RefundMatchesDebit
    <3> QED BY <3>1, <3>2, <3>5 DEF PointsTypeOK
  <2> QED BY <1>2, <2>1, <2>2 DEF refundPointsTx
<1> QED BY <1>1, <1>2 DEF ApplyPointsMutation

\* The ledger's invariants hold at the start.
LEMMA PointsStart == PointsInit => PointsTypeOK /\ RefundMatchesDebit
BY MallAssumption DEF PointsInit, PointsTypeOK, RefundMatchesDebit, LedgerOps

(* Whatever operations callers of the points service issue, balances stay  *)
(* natural numbers and a refund gives back what its own order debited.     *)
THEOREM PointsSafe == PointsSpec => [](PointsTypeOK /\ RefundMatchesDebit)
<1>1. PointsInit => PointsTypeOK /\ RefundMatchesDebit
  BY PointsStart
<1>2. PointsTypeOK /\ RefundMatchesDebit /\ [PointsNext]_pointsVars
        => (PointsTypeOK /\ RefundMatchesDebit)'
  <2> SUFFICES ASSUME PointsTypeOK, RefundMatchesDebit, [PointsNext]_pointsVars
               PROVE  (PointsTypeOK /\ RefundMatchesDebit)'
    OBVIOUS
  <2>1. CASE PointsNext
    BY <2>1, PointsStep DEF PointsNext
  <2>2. CASE UNCHANGED pointsVars
    BY <2>2 DEF pointsVars, PointsTypeOK, RefundMatchesDebit
  <2> QED BY <2>1, <2>2
<1> QED BY <1>1, <1>2, PTL DEF PointsSpec

----------------------------------------------------------------------------
(* One order operation keeps the type of the order table.                  *)
LEMMA OrderStep ==
  ASSUME OrderTypeOK, NEW p \in SagaPayload, NEW r \in Results,
         prepareOrder(p, r) \/ cancelOrder(p, r) \/ confirmOrder(p, r)
  PROVE  OrderTypeOK'
<1>p. /\ p.order \in OrderIds /\ p.product \in Products
      /\ p.quantity \in Quantities /\ p.total \in Amounts
  BY DEF SagaPayload
<1>1. CASE prepareOrder(p, r)
  BY <1>1, <1>p DEF prepareOrder, OrderTypeOK, Order
<1>2. ASSUME NEW s \in {"compensated", "confirmed"}, orders[p.order] # NoOrder,
             orders' = [orders EXCEPT ![p.order].status = s]
      PROVE  OrderTypeOK'
  <2>1. orders[p.order] \in Order
    BY <1>p, <1>2 DEF OrderTypeOK
  <2>2. [orders[p.order] EXCEPT !.status = s] \in Order
    BY <2>1, <1>2 DEF Order
  <2> QED BY <1>p, <1>2, <2>2 DEF OrderTypeOK
<1>3. CASE cancelOrder(p, r)
  <2>1. CASE orders[p.order] = NoOrder
    BY <1>3, <2>1 DEF cancelOrder, OrderTypeOK
  <2>2. CASE orders[p.order] # NoOrder
    BY <1>3, <2>2, <1>2 DEF cancelOrder
  <2> QED BY <2>1, <2>2
<1>4. CASE confirmOrder(p, r)
  <2>1. CASE UNCHANGED orders
    BY <2>1 DEF OrderTypeOK
  <2>2. CASE /\ orders[p.order].status = "pending"
             /\ orders' = [orders EXCEPT ![p.order].status = "confirmed"]
    BY <2>2, <1>2 DEF NoOrder
  <2> QED BY <1>4, <2>1, <2>2 DEF confirmOrder
<1> QED BY <1>1, <1>3, <1>4

TablesOK ==
  /\ OrderTypeOK /\ InventoryTypeOK /\ PointsTypeOK
  /\ InventoryConserved /\ RefundMatchesDebit
  /\ barrier \in [OrderIds -> [Ops -> SUBSET Branches]]

(* The handler of one branch request is one order, inventory or points     *)
(* operation, or changes no business table.                                *)
LEMMA BranchKeepsTables ==
  ASSUME TablesOK, NEW o \in OrderIds, NEW i \in Branches, NEW op \in Ops,
         NEW r \in Results, payload[o] \in SagaPayload, branch(o, i, op, r)
  PROVE  TablesOK'
<1>b. barrier' \in [OrderIds -> [Ops -> SUBSET Branches]]
  BY DEF TablesOK, branch, RecordRows, Ops
<1>o. ASSUME UNCHANGED orders PROVE OrderTypeOK'
  BY <1>o DEF OrderTypeOK, TablesOK
<1>i. ASSUME UNCHANGED inventoryVars PROVE InventoryTypeOK' /\ InventoryConserved'
  BY <1>i DEF inventoryVars, InventoryTypeOK, InventoryConserved, TablesOK
<1>p. ASSUME UNCHANGED pointsVars PROVE PointsTypeOK' /\ RefundMatchesDebit'
  BY <1>p DEF pointsVars, PointsTypeOK, RefundMatchesDebit, TablesOK
<1>1. CASE UNCHANGED <<orders, inventoryVars, pointsVars>>
  BY <1>1, <1>b, <1>o, <1>i, <1>p DEF TablesOK
<1>2. CASE OrderBranch(i, op, payload[o], r)
  <2>1. OrderTypeOK'
    BY <1>2, OrderStep DEF OrderBranch, TablesOK
  <2> QED BY <1>2, <2>1, <1>b, <1>i, <1>p DEF OrderBranch, TablesOK
<1>3. CASE InventoryBranch(i, op, payload[o], r)
  <2>1. InventoryTypeOK' /\ InventoryConserved'
    BY <1>3, InventoryStep DEF InventoryBranch, ApplyInventoryMutation, TablesOK
  <2> QED BY <1>3, <2>1, <1>b, <1>o, <1>p DEF InventoryBranch, TablesOK
<1>4. CASE PointsBranch(i, op, payload[o], r)
  <2>1. PointsTypeOK' /\ RefundMatchesDebit'
    BY <1>4, PointsStep DEF PointsBranch, ApplyPointsMutation, TablesOK
  <2> QED BY <1>4, <2>1, <1>b, <1>o, <1>i DEF PointsBranch, TablesOK
<1> QED BY <1>1, <1>2, <1>3, <1>4 DEF branch, Operation

----------------------------------------------------------------------------
(* The requests a handler may see: the server's current call, or one that  *)
(* timed out earlier.                                                      *)
Callable(o, i, op) ==
  \/ Running(o) /\ i = step[o] /\ op = CurrentOp(o)
  \/ i \in late[o][op]

\* What the handler of a request may change outside the business rows of its order.
Frame(o, i, op, r) ==
  /\ \A x \in OrderIds \ {o} :
       /\ orders'[x] = orders[x] /\ reservations'[x] = reservations[x]
       /\ ledger'[x] = ledger[x] /\ barrier'[x] = barrier[x]
  /\ r # "ok" => UNCHANGED <<orders, reservations, ledger, barrier>>
  /\ r = "ok" => /\ barrier'[o]["action"] = barrier[o]["action"] \cup {i}
                 /\ barrier'[o]["compensate"] =
                      IF op = "compensate" THEN barrier[o]["compensate"] \cup {i}
                      ELSE barrier[o]["compensate"]

(* Which rows the handler leaves in the barrier table, and that it touches *)
(* no other order's rows.                                                  *)
LEMMA BranchFrame ==
  ASSUME TablesOK, NEW o \in OrderIds, NEW i \in Branches, NEW op \in Ops,
         NEW r \in Results, payload[o] \in SagaPayload, payload[o].order = o,
         branch(o, i, op, r)
  PROVE  Frame(o, i, op, r)
<1>1. /\ \A x \in OrderIds \ {o} : barrier'[x] = barrier[x]
      /\ r # "ok" => UNCHANGED barrier
      /\ r = "ok" => /\ barrier'[o]["action"] = barrier[o]["action"] \cup {i}
                     /\ barrier'[o]["compensate"] =
                          IF op = "compensate" THEN barrier[o]["compensate"] \cup {i}
                          ELSE barrier[o]["compensate"]
  BY DEF TablesOK, branch, RecordRows, Ops
<1>2. CASE UNCHANGED <<orders, inventoryVars, pointsVars>> /\ Skipped(o, i, op) /\ r = "ok"
  BY <1>1, <1>2 DEF Frame, inventoryVars, pointsVars
<1>3. CASE OrderBranch(i, op, payload[o], r)
  <2>1. /\ \A x \in OrderIds \ {o} : orders'[x] = orders[x]
        /\ r # "ok" => UNCHANGED orders
    BY <1>3 DEF OrderBranch, prepareOrder, confirmOrder, cancelOrder, TablesOK, OrderTypeOK
  <2> QED BY <1>1, <1>3, <2>1 DEF Frame, OrderBranch, inventoryVars, pointsVars
<1>4. CASE InventoryBranch(i, op, payload[o], r)
  <2>1. /\ \A x \in OrderIds \ {o} : reservations'[x] = reservations[x]
        /\ r # "ok" => UNCHANGED reservations
    BY <1>4 DEF InventoryBranch, reserveInventoryTx, releaseInventoryTx, confirmInventoryTx,
                unconfirmInventoryTx, Settle, Missing, inventoryVars, TablesOK, InventoryTypeOK
  <2> QED BY <1>1, <1>4, <2>1 DEF Frame, InventoryBranch, pointsVars
<1>5. CASE PointsBranch(i, op, payload[o], r)
  <2>1. /\ \A x \in OrderIds \ {o} : ledger'[x] = ledger[x]
        /\ r # "ok" => UNCHANGED ledger
    BY <1>5 DEF PointsBranch, debitPointsTx, refundPointsTx, Post, pointsVars, TablesOK, PointsTypeOK
  <2> QED BY <1>1, <1>5, <2>1 DEF Frame, PointsBranch, inventoryVars
<1> QED BY <1>2, <1>3, <1>4, <1>5 DEF branch, Operation

(* Under the server's progress, an action that has not run yet is called   *)
(* only while nothing that builds on it stands.                            *)
LEMMA ActsInOrder ==
  ASSUME TypeOK, NEW o \in OrderIds, PhaseMatchesRows(o),
         NEW i \in Branches, NEW j \in Branches, i < j,
         Callable(o, i, "action"), ~Acted(o, i)
  PROVE  Acted(o, j) => Undone(o, j)
<1>1. phase[o] \in Phases /\ step[o] \in 0..5
  BY DEF TypeOK
<1>2. CASE phase[o] = "acting"
  BY <1>1, <1>2 DEF PhaseMatchesRows, Callable, Pending, Branches
<1>3. CASE phase[o] = "compensating"
  BY <1>1, <1>3 DEF PhaseMatchesRows, Callable, Pending, Branches, CurrentOp
<1>4. CASE phase[o] \in {"none", "succeeded", "aborted"}
  BY <1>4 DEF PhaseMatchesRows, Callable, Pending, Branches, Running, Ops
<1> QED BY <1>1, <1>2, <1>3, <1>4 DEF Phases

(* The handler keeps the order row in step with the barrier rows.          *)
LEMMA OrderRowStep ==
  ASSUME TypeOK, TablesOK, NEW o \in OrderIds, NEW i \in Branches, NEW op \in Ops,
         NEW r \in Results, payload[o] \in SagaPayload, payload[o].order = o,
         branch(o, i, op, r), PhaseMatchesRows(o), Callable(o, i, op),
         OrderMatchesRows(o)
  PROVE  OrderMatchesRows(o)'
<1>t. orders \in [OrderIds -> Order \cup {NoOrder}]
  BY DEF TablesOK, OrderTypeOK
<1>c. \A j \in Branches : Undone(o, j) => Acted(o, j)
  BY DEF PhaseMatchesRows
<1>f. Frame(o, i, op, r)
  BY BranchFrame
<1>1. CASE r # "ok"
  BY <1>1, <1>f DEF Frame, OrderMatchesRows, OrderStatus, Acted, Undone
<1>2. CASE r = "ok"
  <2>a. \A j \in Branches : Acted(o, j)' <=> (Acted(o, j) \/ j = i)
    BY <1>2, <1>f DEF Frame, Acted
  <2>u. \A j \in Branches : Undone(o, j)' <=> (Undone(o, j) \/ (j = i /\ op = "compensate"))
    BY <1>2, <1>f DEF Frame, Undone
  <2>n. NoOrder.status = "none"
    BY DEF NoOrder
  <2>1. CASE UNCHANGED orders /\ (Skipped(o, i, op) \/ i \notin {1, 5})
    BY <1>c, <2>1, <2>a, <2>u, <2>n
       DEF OrderMatchesRows, OrderStatus, Skipped, Acted, Undone, Branches, Ops
  <2>2. CASE ~Skipped(o, i, op) /\ i = 1 /\ op = "action" /\ prepareOrder(payload[o], r)
    <3>1. ~Acted(o, 1) /\ orders[o] = NoOrder
      BY <2>2 DEF Skipped, Acted, OrderMatchesRows
    <3>2. orders'[o] # NoOrder /\ orders'[o].status = "pending"
      BY <2>2, <3>1, <1>t, <2>n DEF prepareOrder
    <3>3. Acted(o, 5) => Undone(o, 5)
      BY <2>2, <3>1, ActsInOrder DEF Branches
    <3> QED BY <1>c, <2>2, <2>a, <2>u, <3>1, <3>2, <3>3 DEF OrderMatchesRows, OrderStatus, Branches
  <2>3. CASE ~Skipped(o, i, op) /\ i = 5 /\ op = "action" /\ confirmOrder(payload[o], r)
    <3>1. ~Acted(o, 5)
      BY <2>3 DEF Skipped, Acted
    <3>2. \/ orders[o].status = "pending" /\ orders'[o].status = "confirmed"
          \/ orders[o].status = "confirmed" /\ orders' = orders
      <4>1. CASE orders[o].status = "pending"
        <5>1. orders[o] \in Order
          BY <1>t, <2>n, <4>1
        <5>2. orders'[o] = [orders[o] EXCEPT !.status = "confirmed"]
          BY <1>t, <2>3, <4>1 DEF confirmOrder
        <5> QED BY <4>1, <5>1, <5>2 DEF Order
      <4>2. CASE orders[o].status # "pending"
        BY <1>2, <2>3, <4>2 DEF confirmOrder
      <4> QED BY <4>1, <4>2
    <3>3. Acted(o, 1) /\ ~Undone(o, 1) /\ orders'[o].status = "confirmed"
      BY <1>c, <3>2, <2>n DEF OrderMatchesRows, OrderStatus, Branches
    <3> QED BY <1>c, <2>3, <2>a, <2>u, <2>n, <3>1, <3>3 DEF OrderMatchesRows, OrderStatus, Branches
  <2>4. CASE ~Skipped(o, i, op) /\ i \in {1, 5} /\ op = "compensate" /\ cancelOrder(payload[o], r)
    <3>1. Acted(o, i) /\ ~Undone(o, i)
      BY <2>4 DEF Skipped, Acted, Undone
    <3>2. \/ orders[o] = NoOrder /\ orders' = orders
          \/ orders[o] # NoOrder /\ orders'[o].status = "compensated"
      <4>1. CASE orders[o] = NoOrder
        BY <2>4, <4>1 DEF cancelOrder
      <4>2. CASE orders[o] # NoOrder
        <5>1. orders[o] \in Order
          BY <1>t, <4>2
        <5>2. orders'[o] = [orders[o] EXCEPT !.status = "compensated"]
          BY <1>t, <2>4, <4>2 DEF cancelOrder
        <5> QED BY <4>2, <5>1, <5>2 DEF Order
      <4> QED BY <4>1, <4>2
    <3> QED BY <1>c, <2>4, <2>a, <2>u, <2>n, <3>1, <3>2 DEF OrderMatchesRows, OrderStatus, Branches
  <2> QED BY <2>1, <2>2, <2>3, <2>4
          DEF branch, Operation, OrderBranch, InventoryBranch, PointsBranch
<1> QED BY <1>1, <1>2

(* The handler keeps the ledger rows in step with the barrier rows.        *)
LEMMA LedgerRowStep ==
  ASSUME TypeOK, TablesOK, NEW o \in OrderIds, NEW i \in Branches, NEW op \in Ops,
         NEW r \in Results, payload[o] \in SagaPayload, payload[o].order = o,
         branch(o, i, op, r), PhaseMatchesRows(o),
         LedgerMatchesRows(o)
  PROVE  LedgerMatchesRows(o)'
<1>t. ledger \in [OrderIds -> [LedgerOps -> Entry \cup {NoEntry}]]
  BY DEF TablesOK, PointsTypeOK
<1>e. DebitEntry(payload[o]) # NoEntry /\ RefundEntry(payload[o]) # NoEntry
  BY EntriesDiffer
<1>c. \A j \in Branches : Undone(o, j) => Acted(o, j)
  BY DEF PhaseMatchesRows
<1>f. Frame(o, i, op, r)
  BY BranchFrame
<1>1. CASE r # "ok"
  BY <1>1, <1>f DEF Frame, LedgerMatchesRows, Acted, Undone
<1>2. CASE r = "ok"
  <2>a. \A j \in Branches : Acted(o, j)' <=> (Acted(o, j) \/ j = i)
    BY <1>2, <1>f DEF Frame, Acted
  <2>u. \A j \in Branches : Undone(o, j)' <=> (Undone(o, j) \/ (j = i /\ op = "compensate"))
    BY <1>2, <1>f DEF Frame, Undone
  <2>1. CASE UNCHANGED ledger /\ (Skipped(o, i, op) \/ i # 3)
    BY <1>c, <2>1, <2>a, <2>u DEF LedgerMatchesRows, Skipped, Acted, Undone, Branches, Ops
  <2>2. CASE ~Skipped(o, i, op) /\ i = 3 /\ op = "action" /\ debitPointsTx(payload[o], r)
    <3>1. /\ ~Acted(o, 3) /\ ~Undone(o, 3)
          /\ ledger[o]["debit"] = NoEntry /\ ledger[o]["refund"] = NoEntry
      BY <1>c, <2>2 DEF Skipped, Acted, LedgerMatchesRows, Branches
    <3>2. ledger'[o]["debit"] # NoEntry /\ ledger'[o]["refund"] = NoEntry
      BY <1>2, <1>t, <1>e, <2>2, <3>1 DEF debitPointsTx, Post, LedgerOps
    <3> QED BY <2>2, <2>a, <2>u, <3>1, <3>2 DEF LedgerMatchesRows, Branches
  <2>3. CASE ~Skipped(o, i, op) /\ i = 3 /\ op = "compensate" /\ refundPointsTx(payload[o], r)
    <3>1. /\ Acted(o, 3) /\ ~Undone(o, 3)
          /\ ledger[o]["debit"] # NoEntry /\ ledger[o]["refund"] = NoEntry
      BY <2>3 DEF Skipped, Acted, Undone, LedgerMatchesRows
    <3>2. ledger'[o]["debit"] # NoEntry /\ ledger'[o]["refund"] # NoEntry
      BY <1>2, <1>t, <1>e, <2>3, <3>1 DEF refundPointsTx, Post, LedgerOps
    <3> QED BY <2>3, <2>a, <2>u, <3>1, <3>2 DEF LedgerMatchesRows, Branches
  <2> QED BY <2>1, <2>2, <2>3
          DEF branch, Operation, OrderBranch, InventoryBranch, PointsBranch, pointsVars
<1> QED BY <1>1, <1>2

(* What Settle does to a reservation row when it reports success.          *)
LEMMA SettleRow ==
  ASSUME InventoryTypeOK, NEW p \in SagaPayload,
         NEW done, NEW from, NEW to \in {"reserved", "confirmed", "released"},
         NEW source, NEW target,
         Settle(p, "ok", done, from, to, source, target)
  PROVE  \/ /\ ReservationStatus(p.order) \in done
            /\ reservations' = reservations
         \/ /\ ReservationStatus(p.order) = from
            /\ ReservationStatus(p.order) # "none"
            /\ ReservationStatus(p.order)' = to
<1>p. p.order \in OrderIds
  BY DEF SagaPayload
<1>1. reservations[p.order] \in Reservation /\ reservations[p.order] # NoReservation
  BY <1>p DEF Settle, InventoryTypeOK
<1>2. CASE /\ "ok" = IF reservations[p.order].status \in done THEN "ok" ELSE "error"
           /\ UNCHANGED inventoryVars
  <2>1. reservations[p.order].status \in done
    BY <1>2
  <2> QED BY <1>2, <2>1 DEF ReservationStatus, inventoryVars
<1>3. CASE /\ reservations[p.order].status = from
           /\ reservations' = [reservations EXCEPT ![p.order].status = to]
  <2>1. reservations'[p.order] = [reservations[p.order] EXCEPT !.status = to]
    BY <1>p, <1>3 DEF InventoryTypeOK
  <2>2. reservations'[p.order].status = to
    BY <1>1, <2>1 DEF Reservation
  <2>3. reservations[p.order].status # "none"
    BY <1>1 DEF Reservation
  <2> QED BY <1>3, <2>2, <2>3 DEF ReservationStatus
<1>4. "ok" # "refused"
  OBVIOUS
<1> QED BY <1>2, <1>3, <1>4 DEF Settle

(* The handler keeps the reservation row in step with the barrier rows.    *)
LEMMA ReservationRowStep ==
  ASSUME TypeOK, TablesOK, NEW o \in OrderIds, NEW i \in Branches, NEW op \in Ops,
         NEW r \in Results, payload[o] \in SagaPayload, payload[o].order = o,
         branch(o, i, op, r), PhaseMatchesRows(o), Callable(o, i, op),
         ReservationMatchesRows(o)
  PROVE  ReservationMatchesRows(o)'
<1>t. InventoryTypeOK /\ reservations \in [OrderIds -> Reservation \cup {NoReservation}]
  BY DEF TablesOK, InventoryTypeOK
<1>c. \A j \in Branches : Undone(o, j) => Acted(o, j)
  BY DEF PhaseMatchesRows
<1>f. Frame(o, i, op, r)
  BY BranchFrame
<1>1. CASE r # "ok"
  BY <1>1, <1>f DEF Frame, ReservationMatchesRows, ReservationStatus, Acted, Undone
<1>2. CASE r = "ok"
  <2>a. \A j \in Branches : Acted(o, j)' <=> (Acted(o, j) \/ j = i)
    BY <1>2, <1>f DEF Frame, Acted
  <2>u. \A j \in Branches : Undone(o, j)' <=> (Undone(o, j) \/ (j = i /\ op = "compensate"))
    BY <1>2, <1>f DEF Frame, Undone
  <2>n. NoReservation.status = "none"
    BY DEF NoReservation
  <2>m. ReservationStatus(o) = "none" <=> reservations[o] = NoReservation
    BY <1>t, <2>n DEF ReservationStatus, Reservation
  <2>1. CASE UNCHANGED reservations /\ (Skipped(o, i, op) \/ i \notin {2, 4})
    BY <1>c, <2>1, <2>a, <2>u, <2>n
       DEF ReservationMatchesRows, ReservationStatus, Skipped, Acted, Undone, Branches, Ops
  <2>2. CASE ~Skipped(o, i, op) /\ i = 2 /\ op = "action" /\ reserveInventoryTx(payload[o], r)
    <3>1. ~Acted(o, 2) /\ reservations[o] = NoReservation
      BY <2>2 DEF Skipped, Acted, ReservationMatchesRows
    <3>2. ReservationStatus(o)' = "reserved"
      BY <1>2, <1>t, <2>2, <3>1 DEF reserveInventoryTx, ReservationStatus
    <3>3. Acted(o, 4) => Undone(o, 4)
      BY <2>2, <3>1, ActsInOrder DEF Branches
    <3> QED BY <1>c, <2>2, <2>a, <2>u, <3>1, <3>2, <3>3 DEF ReservationMatchesRows, Branches
  <2>3. CASE ~Skipped(o, i, op) /\ i = 4 /\ op = "action" /\ confirmInventoryTx(payload[o], r)
    <3>1. ~Acted(o, 4) /\ ~Undone(o, 4)
      BY <1>c, <2>3 DEF Skipped, Acted, Branches
    <3>2. \/ ReservationStatus(o) \in {"confirmed"} /\ reservations' = reservations
          \/ ReservationStatus(o) = "reserved" /\ ReservationStatus(o)' = "confirmed"
      BY <1>2, <1>t, <2>3, SettleRow DEF confirmInventoryTx, Missing
    <3>3. Acted(o, 2) /\ ~Undone(o, 2) /\ ReservationStatus(o)' = "confirmed"
      BY <1>c, <2>n, <2>m, <3>1, <3>2 DEF ReservationMatchesRows, Branches, ReservationStatus
    <3> QED BY <2>3, <2>a, <2>u, <3>1, <3>3 DEF ReservationMatchesRows, Branches
  <2>4. CASE ~Skipped(o, i, op) /\ i = 2 /\ op = "compensate" /\ releaseInventoryTx(payload[o], r)
    <3>1. Acted(o, 2) /\ ~Undone(o, 2)
      BY <2>4 DEF Skipped, Acted, Undone
    <3>2. ReservationStatus(o) \in {"reserved", "confirmed"}
      BY <3>1 DEF ReservationMatchesRows
    <3>3. Settle(payload[o], "ok", {"released"}, "reserved", "released", "reserved", "available")
      BY <1>2, <2>4, <2>m, <3>2 DEF releaseInventoryTx, Missing
    <3>4. ReservationStatus(o)' = "released"
      BY <1>t, <3>2, <3>3, SettleRow
    <3> QED BY <1>c, <2>4, <2>a, <2>u, <3>1, <3>4 DEF ReservationMatchesRows, Branches
  <2>5. CASE ~Skipped(o, i, op) /\ i = 4 /\ op = "compensate" /\ unconfirmInventoryTx(payload[o], r)
    <3>1. Acted(o, 4) /\ ~Undone(o, 4)
      BY <2>5 DEF Skipped, Acted, Undone
    <3>2. \/ ReservationStatus(o) \in {"none", "reserved", "released"} /\ reservations' = reservations
          \/ ReservationStatus(o) = "confirmed" /\ ReservationStatus(o)' = "reserved"
      <4>1. CASE Missing(payload[o], "ok", "ok")
        BY <2>m, <4>1 DEF Missing, inventoryVars
      <4>2. CASE Settle(payload[o], "ok", {"reserved", "released"}, "confirmed", "reserved", "sold", "reserved")
        BY <1>t, <4>2, SettleRow
      <4> QED BY <1>2, <2>5, <4>1, <4>2 DEF unconfirmInventoryTx
    <3>3. CASE Acted(o, 2) /\ ~Undone(o, 2)
      <4>1. ReservationStatus(o) = "confirmed"
        BY <3>1, <3>3 DEF ReservationMatchesRows
      <4> QED BY <2>5, <2>a, <2>u, <3>1, <3>2, <3>3, <4>1 DEF ReservationMatchesRows, Branches
    <3>4. CASE ~Acted(o, 2) \/ Undone(o, 2)
      <4>1. ReservationStatus(o) \in {"none", "released"}
        BY <2>n, <3>4 DEF ReservationMatchesRows, ReservationStatus
      <4>2. reservations' = reservations
        BY <3>2, <4>1
      <4> QED BY <1>c, <2>5, <2>a, <2>u, <3>1, <3>4, <4>2 DEF ReservationMatchesRows, Branches, ReservationStatus
    <3> QED BY <3>3, <3>4
  <2> QED BY <2>1, <2>2, <2>3, <2>4, <2>5
          DEF branch, Operation, OrderBranch, InventoryBranch, PointsBranch, inventoryVars
<1> QED BY <1>1, <1>2

----------------------------------------------------------------------------
(* A reply, a failure or a timeout of the current call keeps the server's  *)
(* progress in step with the rows.  c says whether the call committed its  *)
(* rows, a what the server was told.                                       *)
LEMMA ServerStep ==
  ASSUME TypeOK, NEW o \in OrderIds, PhaseMatchesRows(o), Running(o),
         NEW c \in BOOLEAN, NEW a \in Results, a = "ok" => c,
         \A i \in Branches :
           /\ Acted(o, i)' <=> Acted(o, i) \/ (c /\ i = step[o])
           /\ Undone(o, i)' <=> Undone(o, i) \/ (c /\ i = step[o] /\ phase[o] = "compensating"),
         \A i \in Branches, op \in Ops :
           Pending(o, i, op)' => Pending(o, i, op) \/ (i = step[o] /\ op = CurrentOp(o)),
         \/ Advance(o, a)
         \/ phase[o] = "acting" /\ phase' = phase /\ step' = step
  PROVE  PhaseMatchesRows(o)'
<1>t. /\ phase \in [OrderIds -> Phases] /\ step \in [OrderIds -> 0..5]
      /\ step[o] \in Branches
  BY DEF TypeOK, PhaseMatchesRows, Running
<1>0. \A i \in Branches : Undone(o, i)' => Acted(o, i)'
  BY DEF PhaseMatchesRows
<1>1. CASE phase[o] = "acting" /\ phase'[o] = "acting"
  <2>1. step'[o] = step[o] \/ (step'[o] = step[o] + 1 /\ step[o] < 5 /\ c)
    BY <1>1, <1>t DEF Advance
  <2>2. CASE step'[o] = step[o]
    BY <1>0, <1>1, <1>t, <2>2 DEF PhaseMatchesRows, CurrentOp, Branches, Ops
  <2>3. CASE step'[o] = step[o] + 1 /\ step[o] < 5 /\ c
    BY <1>0, <1>1, <1>t, <2>3 DEF PhaseMatchesRows, CurrentOp, Branches, Ops
  <2> QED BY <2>1, <2>2, <2>3
<1>2. CASE phase[o] = "acting" /\ phase'[o] = "succeeded"
  <2>1. step[o] = 5 /\ c
    BY <1>2, <1>t DEF Advance
  <2> QED BY <1>0, <1>2, <1>t, <2>1 DEF PhaseMatchesRows, CurrentOp, Branches, Ops
<1>3. CASE phase[o] = "acting" /\ phase'[o] = "compensating"
  <2>1. step'[o] = step[o]
    BY <1>3, <1>t DEF Advance
  <2> QED BY <1>0, <1>3, <1>t, <2>1 DEF PhaseMatchesRows, CurrentOp, Branches, Ops
<1>4. CASE phase[o] = "compensating" /\ phase'[o] = "compensating"
  <2>1. step'[o] = step[o] \/ (step'[o] = step[o] - 1 /\ step[o] # 1 /\ c)
    BY <1>4, <1>t DEF Advance, Branches
  <2>2. CASE step'[o] = step[o]
    BY <1>0, <1>4, <1>t, <2>2 DEF PhaseMatchesRows, CurrentOp, Branches, Ops
  <2>3. CASE step'[o] = step[o] - 1 /\ step[o] # 1 /\ c
    BY <1>0, <1>4, <1>t, <2>3 DEF PhaseMatchesRows, CurrentOp, Branches, Ops
  <2> QED BY <2>1, <2>2, <2>3
<1>5. CASE phase[o] = "compensating" /\ phase'[o] = "aborted"
  <2>1. step[o] = 1 /\ c
    BY <1>5, <1>t DEF Advance
  <2> QED BY <1>0, <1>5, <1>t, <2>1 DEF PhaseMatchesRows, CurrentOp, Branches, Ops
<1>6. \/ phase[o] = "acting" /\ phase'[o] \in {"acting", "succeeded", "compensating"}
      \/ phase[o] = "compensating" /\ phase'[o] \in {"compensating", "aborted"}
  BY <1>t DEF Advance, Running
<1> QED BY <1>1, <1>2, <1>3, <1>4, <1>5, <1>6

(* A late delivery keeps the server's progress in step with the rows.      *)
LEMMA LateStep ==
  ASSUME TypeOK, NEW o \in OrderIds, PhaseMatchesRows(o),
         NEW i \in Branches, NEW op \in Ops, NEW c \in BOOLEAN, Pending(o, i, op),
         \A j \in Branches :
           /\ Acted(o, j)' <=> Acted(o, j) \/ (c /\ j = i)
           /\ Undone(o, j)' <=> Undone(o, j) \/ (c /\ j = i /\ op = "compensate"),
         UNCHANGED <<phase, step, late>>
  PROVE  PhaseMatchesRows(o)'
<1>t. phase[o] \in Phases /\ step[o] \in 0..5
  BY DEF TypeOK
<1>l. \A j \in Branches, q \in Ops : Pending(o, j, q)' <=> Pending(o, j, q)
  BY DEF Pending
<1>0. \A j \in Branches : Undone(o, j)' => Acted(o, j)'
  BY DEF PhaseMatchesRows
<1>1. CASE phase[o] = "acting"
  BY <1>0, <1>1, <1>l, <1>t DEF PhaseMatchesRows, Branches, Ops
<1>2. CASE phase[o] = "compensating"
  BY <1>0, <1>2, <1>l, <1>t DEF PhaseMatchesRows, Branches, Ops
<1>3. CASE phase[o] \in {"none", "succeeded", "aborted"}
  BY <1>0, <1>3, <1>l, <1>t DEF PhaseMatchesRows, Branches, Ops
<1> QED BY <1>1, <1>2, <1>3, <1>t DEF Phases

----------------------------------------------------------------------------
\* BarrierMatchesTables for one order, and the whole inductive invariant.
OrderInv(o) ==
  /\ PayloadOwn(o) /\ PhaseMatchesRows(o)
  /\ OrderMatchesRows(o) /\ ReservationMatchesRows(o) /\ LedgerMatchesRows(o)

SagaInv == TypeOK /\ TablesOK /\ \A o \in OrderIds : OrderInv(o)

(* A step that leaves the rows and the saga of an order alone keeps its    *)
(* part of the invariant.                                                  *)
LEMMA Untouched ==
  ASSUME NEW x \in OrderIds, OrderInv(x),
         phase'[x] = phase[x], step'[x] = step[x], payload'[x] = payload[x],
         barrier'[x] = barrier[x], late'[x] = late[x],
         orders'[x] = orders[x], reservations'[x] = reservations[x], ledger'[x] = ledger[x]
  PROVE  OrderInv(x)'
<1>1. PayloadOwn(x)'
  BY DEF OrderInv, PayloadOwn
<1>2. PhaseMatchesRows(x)'
  BY DEF OrderInv, PhaseMatchesRows, Acted, Undone, Pending
<1>3. OrderMatchesRows(x)' /\ ReservationMatchesRows(x)' /\ LedgerMatchesRows(x)'
  BY DEF OrderInv, OrderMatchesRows, ReservationMatchesRows, LedgerMatchesRows,
         Acted, Undone, OrderStatus, ReservationStatus
<1> QED BY <1>1, <1>2, <1>3 DEF OrderInv

(* The server's bookkeeping stays typed.                                   *)
LEMMA AdvanceTyped ==
  ASSUME TypeOK, NEW o \in OrderIds, Running(o), PhaseMatchesRows(o),
         NEW a \in Results, Advance(o, a)
  PROVE  /\ phase' \in [OrderIds -> Phases] /\ step' \in [OrderIds -> 0..5]
         /\ tries' \in [OrderIds -> 0..RetryLimit]
         /\ \A x \in OrderIds \ {o} : phase'[x] = phase[x] /\ step'[x] = step[x]
         /\ phase'[o] # "none"
<1>t. /\ phase \in [OrderIds -> Phases] /\ step \in [OrderIds -> 0..5]
      /\ tries \in [OrderIds -> 0..RetryLimit] /\ step[o] \in 1..5
      /\ phase[o] \in {"acting", "compensating"}
  BY DEF TypeOK, PhaseMatchesRows, Running, Branches
<1>1. tries' \in [OrderIds -> 0..RetryLimit]
  BY <1>t, SagaAssumption DEF Advance
<1>2. phase' \in [OrderIds -> Phases] /\ step' \in [OrderIds -> 0..5]
  BY <1>t DEF Advance, Phases
<1>3. \A x \in OrderIds \ {o} : phase'[x] = phase[x] /\ step'[x] = step[x]
  BY <1>t DEF Advance
<1>4. phase'[o] # "none"
  BY <1>t DEF Advance
<1> QED BY <1>1, <1>2, <1>3, <1>4

(* One request handled: the rows of its order still match the barrier, and *)
(* the barrier gained exactly the rows of that request.                    *)
LEMMA Handled ==
  ASSUME SagaInv, NEW o \in OrderIds, NEW i \in Branches, NEW op \in Ops,
         NEW r \in Results, Callable(o, i, op), branch(o, i, op, r)
  PROVE  /\ TablesOK' /\ Frame(o, i, op, r)
         /\ phase[o] # "none" /\ payload[o] \in SagaPayload /\ payload[o].order = o
         /\ OrderMatchesRows(o)' /\ ReservationMatchesRows(o)' /\ LedgerMatchesRows(o)'
         /\ \A j \in Branches :
              /\ Acted(o, j)' <=> Acted(o, j) \/ (r = "ok" /\ j = i)
              /\ Undone(o, j)' <=> Undone(o, j) \/ (r = "ok" /\ j = i /\ op = "compensate")
<1>1. TypeOK /\ TablesOK /\ OrderInv(o)
  BY DEF SagaInv
<1>2. phase[o] # "none"
  BY <1>1 DEF OrderInv, PhaseMatchesRows, Callable, Pending, Running
<1>3. payload[o] \in SagaPayload /\ payload[o].order = o
  BY <1>1, <1>2 DEF OrderInv, PayloadOwn
<1>4. TablesOK'
  BY <1>1, <1>3, BranchKeepsTables
<1>5. Frame(o, i, op, r)
  BY <1>1, <1>3, BranchFrame
<1>6. OrderMatchesRows(o)'
  BY <1>1, <1>3, OrderRowStep DEF OrderInv
<1>7. ReservationMatchesRows(o)'
  BY <1>1, <1>3, ReservationRowStep DEF OrderInv
<1>8. LedgerMatchesRows(o)'
  BY <1>1, <1>3, LedgerRowStep DEF OrderInv
<1>9. ASSUME NEW j \in Branches
      PROVE  /\ Acted(o, j)' <=> Acted(o, j) \/ (r = "ok" /\ j = i)
             /\ Undone(o, j)' <=> Undone(o, j) \/ (r = "ok" /\ j = i /\ op = "compensate")
  BY <1>5 DEF Frame, Acted, Undone
<1> QED BY <1>2, <1>3, <1>4, <1>5, <1>6, <1>7, <1>8, <1>9

(* A call that ran its handler with result r, after which the server was   *)
(* told a.                                                                 *)
LEMMA CallStep ==
  ASSUME SagaInv, NEW o \in OrderIds, NEW r \in Results, NEW a \in Results,
         a = "ok" => r = "ok", Running(o),
         branch(o, step[o], CurrentOp(o), r), Advance(o, a),
         UNCHANGED <<payload, late, timeouts>>
  PROVE  SagaInv'
<1>1. TypeOK /\ TablesOK /\ OrderInv(o) /\ PhaseMatchesRows(o)
  BY DEF SagaInv, OrderInv
<1>2. step[o] \in Branches /\ CurrentOp(o) \in Ops /\ Callable(o, step[o], CurrentOp(o))
      /\ (CurrentOp(o) = "compensate" <=> phase[o] = "compensating")
  BY <1>1 DEF PhaseMatchesRows, Running, CurrentOp, Ops, Callable
<1> DEFINE i == step[o]
           op == CurrentOp(o)
<1>3. /\ TablesOK' /\ Frame(o, i, op, r)
      /\ phase[o] # "none" /\ payload[o] \in SagaPayload /\ payload[o].order = o
      /\ OrderMatchesRows(o)' /\ ReservationMatchesRows(o)' /\ LedgerMatchesRows(o)'
      /\ \A j \in Branches :
           /\ Acted(o, j)' <=> Acted(o, j) \/ (r = "ok" /\ j = i)
           /\ Undone(o, j)' <=> Undone(o, j) \/ (r = "ok" /\ j = i /\ op = "compensate")
  BY <1>2, Handled
<1>4. /\ phase' \in [OrderIds -> Phases] /\ step' \in [OrderIds -> 0..5]
      /\ tries' \in [OrderIds -> 0..RetryLimit]
      /\ \A x \in OrderIds \ {o} : phase'[x] = phase[x] /\ step'[x] = step[x]
      /\ phase'[o] # "none"
  BY <1>1, AdvanceTyped
<1>5. TypeOK'
  BY <1>1, <1>3, <1>4 DEF TypeOK, TablesOK
<1>6. PhaseMatchesRows(o)'
  <2>1. \A j \in Branches, q \in Ops : Pending(o, j, q)' => Pending(o, j, q)
    BY DEF Pending
  <2>2. \A j \in Branches :
          /\ Acted(o, j)' <=> Acted(o, j) \/ ((r = "ok") /\ j = step[o])
          /\ Undone(o, j)' <=> Undone(o, j) \/ ((r = "ok") /\ j = step[o] /\ phase[o] = "compensating")
    BY <1>2, <1>3
  <2>3. (r = "ok") \in BOOLEAN
    OBVIOUS
  <2> HIDE DEF i, op
  <2> QED BY <1>1, <2>1, <2>2, <2>3, ServerStep
<1>7. OrderInv(o)'
  BY <1>3, <1>4, <1>6 DEF OrderInv, PayloadOwn
<1>8. ASSUME NEW x \in OrderIds \ {o} PROVE OrderInv(x)'
  <2>1. OrderInv(x)
    BY DEF SagaInv
  <2>2. /\ orders'[x] = orders[x] /\ reservations'[x] = reservations[x]
        /\ ledger'[x] = ledger[x] /\ barrier'[x] = barrier[x]
    BY <1>3 DEF Frame
  <2> QED BY <1>4, <2>1, <2>2, Untouched
<1> QED BY <1>3, <1>5, <1>7, <1>8 DEF SagaInv

(* The server's own bookkeeping moves on while the databases stand still.  *)
LEMMA ServerOnly ==
  ASSUME SagaInv, NEW o \in OrderIds, Running(o),
         Advance(o, "error") \/ (/\ phase[o] = "acting"
                                 /\ UNCHANGED <<phase, step>>
                                 /\ tries' \in [OrderIds -> 0..RetryLimit]),
         late' \in [OrderIds -> [Ops -> SUBSET Branches]],
         \A x \in OrderIds \ {o} : late'[x] = late[x],
         \A j \in Branches, q \in Ops :
           Pending(o, j, q)' => Pending(o, j, q) \/ (j = step[o] /\ q = CurrentOp(o)),
         timeouts' \in 0..MaxTimeouts, UNCHANGED <<tables, payload>>
  PROVE  SagaInv'
<1>1. TypeOK /\ TablesOK /\ OrderInv(o) /\ PhaseMatchesRows(o)
  BY DEF SagaInv, OrderInv
<1>u. UNCHANGED <<orders, inventory, reservations, balance, ledger, barrier, payload>>
  BY DEF tables, inventoryVars, pointsVars
<1>2. TablesOK'
  BY <1>1, <1>u DEF TablesOK, OrderTypeOK, InventoryTypeOK, PointsTypeOK, InventoryConserved,
                    RefundMatchesDebit
<1>e. "error" \in Results /\ "error" # "ok"
  BY DEF Results
<1>3. /\ phase' \in [OrderIds -> Phases] /\ step' \in [OrderIds -> 0..5]
      /\ tries' \in [OrderIds -> 0..RetryLimit]
      /\ \A x \in OrderIds \ {o} : phase'[x] = phase[x] /\ step'[x] = step[x]
      /\ phase'[o] # "none"
  <2>1. CASE Advance(o, "error")
    BY <1>1, <1>e, <2>1, AdvanceTyped
  <2>2. CASE /\ phase[o] = "acting" /\ UNCHANGED <<phase, step>>
             /\ tries' \in [OrderIds -> 0..RetryLimit]
    BY <1>1, <2>2 DEF TypeOK
  <2> QED BY <2>1, <2>2
<1>4. TypeOK'
  BY <1>1, <1>2, <1>3, <1>u DEF TypeOK, TablesOK
<1>5. PhaseMatchesRows(o)'
  <2>1. \A j \in Branches :
          /\ Acted(o, j)' <=> Acted(o, j) \/ (FALSE /\ j = step[o])
          /\ Undone(o, j)' <=> Undone(o, j) \/ (FALSE /\ j = step[o] /\ phase[o] = "compensating")
    BY <1>u DEF Acted, Undone
  <2> QED BY <1>1, <1>e, <2>1, ServerStep
<1>6. OrderMatchesRows(o)' /\ ReservationMatchesRows(o)' /\ LedgerMatchesRows(o)'
  BY <1>1, <1>u DEF OrderInv, OrderMatchesRows, ReservationMatchesRows, LedgerMatchesRows,
                    Acted, Undone, OrderStatus, ReservationStatus
<1>7. PayloadOwn(o)'
  BY <1>1, <1>u DEF OrderInv, PayloadOwn, Running
<1>8. OrderInv(o)'
  BY <1>5, <1>6, <1>7 DEF OrderInv
<1>9. ASSUME NEW x \in OrderIds \ {o} PROVE OrderInv(x)'
  BY <1>3, <1>u, Untouched DEF SagaInv
<1> QED BY <1>2, <1>4, <1>8, <1>9 DEF SagaInv

(* Accepting a saga: no row and no late request of its order exists yet.   *)
LEMMA SubmitStep ==
  ASSUME SagaInv, NEW p \in SagaPayload, Submit(p)
  PROVE  SagaInv'
<1> DEFINE o == p.order
<1>1. TypeOK /\ TablesOK /\ o \in OrderIds /\ OrderInv(o)
  BY DEF SagaInv, SagaPayload
<1>u. UNCHANGED <<orders, inventory, reservations, balance, ledger, barrier, late, tries, timeouts>>
  BY DEF Submit, tables, inventoryVars, pointsVars
<1>2. TablesOK'
  BY <1>1, <1>u DEF TablesOK, OrderTypeOK, InventoryTypeOK, PointsTypeOK, InventoryConserved,
                    RefundMatchesDebit
<1>3. /\ phase' \in [OrderIds -> Phases] /\ step' \in [OrderIds -> 0..5]
      /\ payload' \in [OrderIds -> SagaPayload \cup {NoPayload}]
  BY <1>1 DEF Submit, TypeOK, Phases
<1>4. /\ \A x \in OrderIds \ {o} :
           phase'[x] = phase[x] /\ step'[x] = step[x] /\ payload'[x] = payload[x]
      /\ phase'[o] = "acting" /\ step'[o] = 1 /\ payload'[o] = p /\ phase[o] = "none"
  BY <1>1 DEF Submit, TypeOK
<1>5. TypeOK'
  BY <1>1, <1>2, <1>3, <1>u DEF TypeOK, TablesOK
<1>6. PhaseMatchesRows(o)'
  <2>1. \A j \in Branches, q \in Ops : ~Acted(o, j) /\ ~Undone(o, j) /\ ~Pending(o, j, q)
    BY <1>1, <1>4 DEF OrderInv, PhaseMatchesRows, Ops
  <2>2. \A j \in Branches, q \in Ops : ~Acted(o, j)' /\ ~Undone(o, j)' /\ ~Pending(o, j, q)'
    BY <2>1, <1>u DEF Acted, Undone, Pending
  <2>3. \A j \in Branches : ~(j < 1)
    BY DEF Branches
  <2> QED BY <1>4, <2>2, <2>3 DEF PhaseMatchesRows, Branches, Ops
<1>7. OrderMatchesRows(o)' /\ ReservationMatchesRows(o)' /\ LedgerMatchesRows(o)'
  BY <1>1, <1>u DEF OrderInv, OrderMatchesRows, ReservationMatchesRows, LedgerMatchesRows,
                    Acted, Undone, OrderStatus, ReservationStatus
<1>8. OrderInv(o)'
  BY <1>4, <1>6, <1>7 DEF OrderInv, PayloadOwn
<1>9. ASSUME NEW x \in OrderIds \ {o} PROVE OrderInv(x)'
  <2>1. OrderInv(x)
    BY DEF SagaInv
  <2> QED BY <1>4, <1>u, <2>1, Untouched
<1> QED BY <1>2, <1>5, <1>8, <1>9 DEF SagaInv

(* A request that the server gave up on reaches its handler.               *)
LEMMA LateDeliveryStep ==
  ASSUME SagaInv, NEW o \in OrderIds, NEW i \in Branches, NEW op \in Ops,
         NEW r \in Results, LateDelivery(o, i, op, r)
  PROVE  SagaInv'
<1>1. TypeOK /\ TablesOK /\ OrderInv(o) /\ PhaseMatchesRows(o)
  BY DEF SagaInv, OrderInv
<1>2. /\ Pending(o, i, op) /\ Callable(o, i, op) /\ branch(o, i, op, r)
      /\ UNCHANGED <<phase, step, tries, payload, late, timeouts>>
  BY DEF LateDelivery, Pending, Callable, dtmVars
<1>3. /\ TablesOK' /\ Frame(o, i, op, r)
      /\ phase[o] # "none" /\ payload[o] \in SagaPayload /\ payload[o].order = o
      /\ OrderMatchesRows(o)' /\ ReservationMatchesRows(o)' /\ LedgerMatchesRows(o)'
      /\ \A j \in Branches :
           /\ Acted(o, j)' <=> Acted(o, j) \/ (r = "ok" /\ j = i)
           /\ Undone(o, j)' <=> Undone(o, j) \/ (r = "ok" /\ j = i /\ op = "compensate")
  BY <1>2, Handled
<1>4. TypeOK'
  BY <1>1, <1>2, <1>3 DEF TypeOK, TablesOK
<1>5. PhaseMatchesRows(o)'
  <2>0. TypeOK /\ PhaseMatchesRows(o) /\ Pending(o, i, op) /\ UNCHANGED <<phase, step, late>>
    BY <1>1, <1>2
  <2>1. CASE r = "ok"
    <3>1. \A j \in Branches :
            /\ Acted(o, j)' <=> Acted(o, j) \/ (TRUE /\ j = i)
            /\ Undone(o, j)' <=> Undone(o, j) \/ (TRUE /\ j = i /\ op = "compensate")
      BY <1>3, <2>1
    <3> QED BY <2>0, <3>1, LateStep
  <2>2. CASE r # "ok"
    <3>1. \A j \in Branches :
            /\ Acted(o, j)' <=> Acted(o, j) \/ (FALSE /\ j = i)
            /\ Undone(o, j)' <=> Undone(o, j) \/ (FALSE /\ j = i /\ op = "compensate")
      BY <1>3, <2>2
    <3> QED BY <2>0, <3>1, LateStep
  <2> QED BY <2>1, <2>2
<1>6. OrderInv(o)'
  BY <1>1, <1>2, <1>3, <1>5 DEF OrderInv, PayloadOwn
<1>7. ASSUME NEW x \in OrderIds \ {o} PROVE OrderInv(x)'
  <2>1. OrderInv(x)
    BY DEF SagaInv
  <2>2. /\ orders'[x] = orders[x] /\ reservations'[x] = reservations[x]
        /\ ledger'[x] = ledger[x] /\ barrier'[x] = barrier[x]
    BY <1>3 DEF Frame
  <2> QED BY <1>2, <2>1, <2>2, Untouched
<1> QED BY <1>3, <1>4, <1>6, <1>7 DEF SagaInv

(* The databases start empty and no saga has been accepted.                *)
LEMMA SagaStart == Init => SagaInv
<1> SUFFICES ASSUME Init PROVE SagaInv
  OBVIOUS
<1>1. InventoryTypeOK /\ InventoryConserved /\ PointsTypeOK /\ RefundMatchesDebit
  BY InventoryStart, PointsStart DEF Init
<1>2. OrderTypeOK
  BY DEF Init, OrderInit, OrderTypeOK
<1>3. barrier \in [OrderIds -> [Ops -> SUBSET Branches]]
  BY DEF Init
<1>4. TypeOK
  BY <1>1, <1>2, <1>3, SagaAssumption DEF Init, TypeOK, Phases
<1>5. ASSUME NEW o \in OrderIds PROVE OrderInv(o)
  <2>1. \A i \in Branches, op \in Ops : ~Acted(o, i) /\ ~Undone(o, i) /\ ~Pending(o, i, op)
    BY <1>5 DEF Init, Acted, Undone, Pending, Ops
  <2>2. phase[o] = "none"
    BY <1>5 DEF Init
  <2>3. PhaseMatchesRows(o) /\ PayloadOwn(o)
    BY <2>1, <2>2 DEF PhaseMatchesRows, PayloadOwn, Ops
  <2>4. OrderMatchesRows(o) /\ ReservationMatchesRows(o)
    BY <1>5, <2>1 DEF Init, OrderInit, InventoryInit, OrderMatchesRows, ReservationMatchesRows,
                      Branches, Ops
  <2>5. LedgerMatchesRows(o)
    BY <1>5, <2>1 DEF Init, PointsInit, LedgerOps, LedgerMatchesRows, Branches, Ops
  <2> QED BY <2>3, <2>4, <2>5 DEF OrderInv
<1> QED BY <1>1, <1>2, <1>3, <1>4, <1>5 DEF SagaInv, TablesOK

(* Every step of the composed system keeps the inductive invariant.        *)
LEMMA SagaStep == SagaInv /\ [Next]_vars => SagaInv'
<1> SUFFICES ASSUME SagaInv, [Next]_vars PROVE SagaInv'
  OBVIOUS
<1>1. ASSUME NEW p \in SagaPayload, Submit(p) PROVE SagaInv'
  BY <1>1, SubmitStep
<1>2. ASSUME NEW o \in OrderIds, NEW r \in Results, CallReturns(o, r) PROVE SagaInv'
  BY <1>2, CallStep DEF CallReturns
<1>3. ASSUME NEW o \in OrderIds, CallFails(o) PROVE SagaInv'
  <2>1. /\ late' \in [OrderIds -> [Ops -> SUBSET Branches]]
        /\ timeouts' \in 0..MaxTimeouts
        /\ \A x \in OrderIds \ {o} : late'[x] = late[x]
        /\ \A j \in Branches, q \in Ops : Pending(o, j, q)' => Pending(o, j, q)
    BY <1>3 DEF CallFails, SagaInv, TypeOK, Pending
  <2> QED BY <1>3, <2>1, ServerOnly DEF CallFails
<1>4. ASSUME NEW o \in OrderIds, CommitUnknown(o) PROVE SagaInv'
  <2>1. "ok" \in Results /\ "error" \in Results
    BY DEF Results
  <2> QED BY <1>4, <2>1, CallStep DEF CommitUnknown
<1>5. ASSUME NEW o \in OrderIds, CallTimesOut(o) PROVE SagaInv'
  <2>1. /\ late \in [OrderIds -> [Ops -> SUBSET Branches]] /\ timeouts \in 0..MaxTimeouts
        /\ tries \in [OrderIds -> 0..RetryLimit] /\ PhaseMatchesRows(o)
    BY <1>5 DEF SagaInv, TypeOK, OrderInv
  <2>2. step[o] \in Branches /\ CurrentOp(o) \in Ops
    BY <1>5, <2>1 DEF CallTimesOut, Running, PhaseMatchesRows, CurrentOp, Ops
  <2>3. /\ late' \in [OrderIds -> [Ops -> SUBSET Branches]]
        /\ \A x \in OrderIds \ {o} : late'[x] = late[x]
        /\ \A j \in Branches, q \in Ops :
             Pending(o, j, q)' => Pending(o, j, q) \/ (j = step[o] /\ q = CurrentOp(o))
    BY <1>5, <2>1, <2>2 DEF CallTimesOut, Pending
  <2>4. timeouts' \in 0..MaxTimeouts
    BY <1>5, <2>1, SagaAssumption DEF CallTimesOut
  <2>5. Advance(o, "error") \/ (/\ phase[o] = "acting"
                                /\ UNCHANGED <<phase, step>>
                                /\ tries' \in [OrderIds -> 0..RetryLimit])
    BY <1>5, <2>1, SagaAssumption DEF CallTimesOut
  <2>6. Running(o) /\ UNCHANGED <<tables, payload>>
    BY <1>5 DEF CallTimesOut
  <2> QED BY <2>3, <2>4, <2>5, <2>6, ServerOnly
<1>6. ASSUME NEW o \in OrderIds, NEW i \in Branches, NEW op \in Ops, NEW r \in Results,
             LateDelivery(o, i, op, r)
      PROVE  SagaInv'
  BY <1>6, LateDeliveryStep
<1>7. CASE UNCHANGED vars
  <2>1. TypeOK' /\ TablesOK'
    BY <1>7 DEF SagaInv, vars, TypeOK, TablesOK, OrderTypeOK, InventoryTypeOK, PointsTypeOK,
                InventoryConserved, RefundMatchesDebit
  <2>2. ASSUME NEW x \in OrderIds PROVE OrderInv(x)'
    BY <1>7, Untouched DEF SagaInv, vars
  <2> QED BY <2>1, <2>2 DEF SagaInv
<1> QED BY <1>1, <1>2, <1>3, <1>4, <1>5, <1>6, <1>7 DEF Next

(* The inductive invariant holds in every reachable state.                 *)
THEOREM SagaInvariant == Spec => []SagaInv
BY SagaStart, SagaStep, PTL DEF Spec

(* Type correctness of the composed system: no counter, balance or ledger  *)
(* entry leaves its range, whatever is retried, lost or delivered late.    *)
THEOREM SagaTypeCorrect == Spec => []TypeOK
<1>1. SagaInv => TypeOK
  BY DEF SagaInv
<1> QED BY <1>1, SagaInvariant, PTL

(* The barrier rows determine the business rows.                           *)
THEOREM SagaBarrierMatchesTables == Spec => []BarrierMatchesTables
<1>1. SagaInv => BarrierMatchesTables
  BY DEF SagaInv, OrderInv, BarrierMatchesTables
<1> QED BY <1>1, SagaInvariant, PTL

(* The inductive invariant makes a finished saga atomic.                   *)
LEMMA AtomicAtEnd == SagaInv => SagaAtomic
<1> SUFFICES ASSUME SagaInv, NEW o \in OrderIds
             PROVE  /\ phase[o] = "succeeded" =>
                         /\ OrderStatus(o) = "confirmed"
                         /\ ReservationStatus(o) = "confirmed"
                         /\ Debited(o)
                    /\ phase[o] = "aborted" =>
                         /\ OrderStatus(o) \in {"none", "compensated"}
                         /\ ReservationStatus(o) \in {"none", "released"}
                         /\ ~Debited(o)
  BY DEF SagaAtomic
<1>1. OrderInv(o)
  BY DEF SagaInv
<1>2. CASE phase[o] = "succeeded"
  <2>1. \A i \in Branches : Acted(o, i) /\ ~Undone(o, i)
    BY <1>1, <1>2 DEF OrderInv, PhaseMatchesRows
  <2>2. OrderStatus(o) = "confirmed" /\ ReservationStatus(o) = "confirmed"
    BY <1>1, <2>1 DEF OrderInv, OrderMatchesRows, ReservationMatchesRows, Branches
  <2>3. Debited(o)
    BY <1>1, <2>1 DEF OrderInv, LedgerMatchesRows, Debited, Branches
  <2> QED BY <1>2, <2>2, <2>3
<1>3. CASE phase[o] = "aborted"
  <2>1. \A i \in Branches : Acted(o, i) => Undone(o, i)
    BY <1>1, <1>3 DEF OrderInv, PhaseMatchesRows, Ops
  <2>2. OrderStatus(o) \in {"none", "compensated"}
    BY <1>1, <2>1 DEF OrderInv, OrderMatchesRows, OrderStatus, NoOrder, Branches
  <2>3. ReservationStatus(o) \in {"none", "released"}
    BY <1>1, <2>1 DEF OrderInv, ReservationMatchesRows, ReservationStatus, NoReservation, Branches
  <2>4. ~Debited(o)
    BY <1>1, <2>1 DEF OrderInv, LedgerMatchesRows, Debited, Branches
  <2> QED BY <1>3, <2>2, <2>3, <2>4
<1> QED BY <1>2, <1>3

(* All or nothing: DTM's barrier and the five branch handlers make the     *)
(* exchange atomic across the three databases.                             *)
THEOREM SagaIsAtomic == Spec => []SagaAtomic
BY AtomicAtEnd, SagaInvariant, PTL

----------------------------------------------------------------------------
RowsKept(o) ==
  /\ orders'[o] = orders[o]
  /\ reservations'[o] = reservations[o]
  /\ ledger'[o] = ledger[o]

(* A handler that serves another order keeps this order's rows.            *)
LEMMA OthersKept ==
  ASSUME SagaInv, NEW o \in OrderIds, NEW i \in Branches, NEW op \in Ops,
         NEW r \in Results, Callable(o, i, op), branch(o, i, op, r),
         NEW x \in OrderIds \ {o}
  PROVE  RowsKept(x)
<1>1. Frame(o, i, op, r)
  BY Handled
<1> QED BY <1>1 DEF Frame, RowsKept

(* Once a saga has ended, each of its late requests finds its barrier row. *)
LEMMA LateIsSkipped ==
  ASSUME SagaInv, NEW o \in OrderIds, phase[o] \in {"succeeded", "aborted"},
         NEW i \in Branches, NEW op \in Ops, i \in late[o][op]
  PROVE  Skipped(o, i, op)
<1>1. PhaseMatchesRows(o)
  BY DEF SagaInv, OrderInv
<1> QED BY <1>1 DEF PhaseMatchesRows, Skipped, Acted, Undone, Pending, Ops

(* A step after the end of a saga keeps its rows.                          *)
LEMMA EndedRowsKept ==
  ASSUME SagaInv, Next, NEW x \in OrderIds, phase[x] \in {"succeeded", "aborted"}
  PROVE  RowsKept(x)
<1>0. ~Running(x)
  BY DEF Running
<1>c. ASSUME NEW o \in OrderIds, Running(o)
      PROVE  /\ step[o] \in Branches /\ CurrentOp(o) \in Ops
             /\ Callable(o, step[o], CurrentOp(o))
  BY <1>c DEF SagaInv, OrderInv, PhaseMatchesRows, Running, CurrentOp, Ops, Callable
<1>1. ASSUME NEW p \in SagaPayload, Submit(p) PROVE RowsKept(x)
  BY <1>1 DEF Submit, tables, inventoryVars, pointsVars, RowsKept
<1>2. ASSUME NEW o \in OrderIds, NEW r \in Results, Running(o),
             branch(o, step[o], CurrentOp(o), r)
      PROVE  RowsKept(x)
  <2>1. x \in OrderIds \ {o}
    BY <1>0, <1>2
  <2> QED BY <1>2, <1>c, <2>1, OthersKept
<1>3. ASSUME NEW o \in OrderIds, CallFails(o) \/ CallTimesOut(o) PROVE RowsKept(x)
  BY <1>3 DEF CallFails, CallTimesOut, tables, inventoryVars, pointsVars, RowsKept
<1>4. ASSUME NEW o \in OrderIds, NEW i \in Branches, NEW op \in Ops, NEW r \in Results,
             LateDelivery(o, i, op, r)
      PROVE  RowsKept(x)
  <2>1. i \in late[o][op] /\ branch(o, i, op, r) /\ Callable(o, i, op)
    BY <1>4 DEF LateDelivery, Callable
  <2>2. CASE o = x
    <3>1. Skipped(o, i, op)
      BY <2>1, <2>2, LateIsSkipped
    <3> QED BY <2>1, <3>1 DEF branch, inventoryVars, pointsVars, RowsKept
  <2>3. CASE o # x
    BY <2>1, <2>3, OthersKept
  <2> QED BY <2>2, <2>3
<1>5. "ok" \in Results
  BY DEF Results
<1>6. ASSUME NEW o \in OrderIds, NEW r \in Results, CallReturns(o, r) PROVE RowsKept(x)
  BY <1>2, <1>6 DEF CallReturns
<1>7. ASSUME NEW o \in OrderIds, CommitUnknown(o) PROVE RowsKept(x)
  BY <1>2, <1>5, <1>7 DEF CommitUnknown
<1> QED BY <1>1, <1>3, <1>4, <1>6, <1>7 DEF Next

(* The end of a saga is final: no late or duplicated branch request        *)
(* changes the rows of an order whose saga DTM has finished.               *)
THEOREM SagaEndIsFinal == Spec => EndIsFinal
<1>1. SagaInv /\ [Next]_vars
        => [\A o \in OrderIds :
              phase[o] \in {"succeeded", "aborted"} =>
                /\ orders'[o] = orders[o]
                /\ reservations'[o] = reservations[o]
                /\ ledger'[o] = ledger[o]]_vars
  BY EndedRowsKept DEF RowsKept
<1> QED BY <1>1, SagaInvariant, PTL DEF Spec, EndIsFinal

----------------------------------------------------------------------------
(* An order whose rows are kept keeps its effects.                         *)
LEMMA KeptEffects ==
  ASSUME NEW o \in OrderIds, RowsKept(o)
  PROVE  EffectsOf(o)' = EffectsOf(o)
BY DEF RowsKept, EffectsOf, OrderStatus, ReservationStatus, Debited

(* One request changes one table, and so at most one effect of its order.  *)
LEMMA OneEffect ==
  ASSUME NEW o \in OrderIds, NEW i \in Branches, NEW op \in Ops, NEW r \in Results,
         branch(o, i, op, r)
  PROVE  \E x \in Exchange!Effects :
           \/ EffectsOf(o)' = EffectsOf(o) \cup {x}
           \/ EffectsOf(o)' = EffectsOf(o) \ {x}
<1>u. \/ UNCHANGED <<reservations, ledger>>
      \/ UNCHANGED <<orders, ledger>>
      \/ UNCHANGED <<orders, reservations>>
  BY DEF branch, Operation, OrderBranch, InventoryBranch, PointsBranch, inventoryVars, pointsVars
<1>1. CASE UNCHANGED <<reservations, ledger>>
  <2>1. \/ EffectsOf(o)' = EffectsOf(o) \cup {"order"}
        \/ EffectsOf(o)' = EffectsOf(o) \ {"order"}
    BY <1>1 DEF EffectsOf, OrderStatus, ReservationStatus, Debited
  <2> QED BY <2>1 DEF Exchange!Effects
<1>2. CASE UNCHANGED <<orders, ledger>>
  <2>1. \/ EffectsOf(o)' = EffectsOf(o) \cup {"goods"}
        \/ EffectsOf(o)' = EffectsOf(o) \ {"goods"}
    BY <1>2 DEF EffectsOf, OrderStatus, ReservationStatus, Debited
  <2> QED BY <2>1 DEF Exchange!Effects
<1>3. CASE UNCHANGED <<orders, reservations>>
  <2>1. \/ EffectsOf(o)' = EffectsOf(o) \cup {"points"}
        \/ EffectsOf(o)' = EffectsOf(o) \ {"points"}
    BY <1>3 DEF EffectsOf, OrderStatus, ReservationStatus, Debited
  <2> QED BY <2>1 DEF Exchange!Effects
<1> QED BY <1>u, <1>1, <1>2, <1>3

\* A finished saga left all effects or none.
EndEffects ==
  \A o \in OrderIds :
    /\ phase[o] = "succeeded" => EffectsOf(o) = Exchange!Effects
    /\ phase[o] = "aborted" => EffectsOf(o) = {}

(* The effects of a finished saga, from its rows.                          *)
LEMMA AllOrNothing == SagaInv => EndEffects
BY AtomicAtEnd DEF SagaAtomic, EndEffects, EffectsOf, Exchange!Effects

(* A step of a running saga is a step of its open exchange: one effect     *)
(* comes or goes, or the exchange ends with all effects or with none.      *)
LEMMA OpenStep ==
  ASSUME SagaInv', NEW o \in OrderIds, Running(o),
         phase'[o] \in {"acting", "compensating", "succeeded", "aborted"},
         \A x \in OrderIds \ {o} : phase'[x] = phase[x] /\ EffectsOf(x)' = EffectsOf(x),
         \E e \in Exchange!Effects :
           \/ EffectsOf(o)' = EffectsOf(o) \cup {e}
           \/ EffectsOf(o)' = EffectsOf(o) \ {e}
  PROVE  Exchange!Next
<1> DEFINE outcome == [x \in OrderIds |-> OutcomeOf(x)]
           effects == [x \in OrderIds |-> EffectsOf(x)]
<1>1. EndEffects'
  BY AllOrNothing, PTL
<1>2. outcome[o] = "open"
  BY DEF OutcomeOf, Running
<1>3. \A x \in OrderIds \ {o} : OutcomeOf(x)' = OutcomeOf(x)
  BY DEF OutcomeOf
<1>4. CASE phase'[o] \in {"acting", "compensating"}
  <2>1. OutcomeOf(o)' = OutcomeOf(o)
    BY <1>4 DEF OutcomeOf, Running
  <2>2. outcome' = outcome
    BY <1>3, <2>1
  <2>3. \E e \in Exchange!Effects :
          \/ effects' = [effects EXCEPT ![o] = @ \cup {e}]
          \/ effects' = [effects EXCEPT ![o] = @ \ {e}]
    OBVIOUS
  <2> QED BY <1>2, <2>2, <2>3 DEF Exchange!Next, Exchange!Work
<1>5. CASE phase'[o] = "succeeded"
  <2>1. outcome' = [outcome EXCEPT ![o] = "committed"]
    BY <1>3, <1>5 DEF OutcomeOf
  <2>2. EffectsOf(o)' = Exchange!Effects
    BY <1>1, <1>5 DEF EndEffects, Exchange!Effects
  <2>3. effects' = [effects EXCEPT ![o] = Exchange!Effects]
    BY <2>2
  <2> QED BY <1>2, <2>1, <2>3 DEF Exchange!Next, Exchange!Commit
<1>6. CASE phase'[o] = "aborted"
  <2>1. outcome' = [outcome EXCEPT ![o] = "aborted"]
    BY <1>3, <1>6 DEF OutcomeOf
  <2>2. EffectsOf(o)' = {}
    BY <1>1, <1>6 DEF EndEffects
  <2>3. effects' = [effects EXCEPT ![o] = {}]
    BY <2>2
  <2> QED BY <1>2, <2>1, <2>3 DEF Exchange!Next, Exchange!Abort
<1> QED BY <1>4, <1>5, <1>6

(* A saga that is advanced while running stays in one of four phases.      *)
LEMMA AdvancePhase ==
  ASSUME SagaInv, NEW o \in OrderIds, Running(o), NEW a \in Results, Advance(o, a)
  PROVE  /\ phase'[o] \in {"acting", "compensating", "succeeded", "aborted"}
         /\ \A x \in OrderIds \ {o} : phase'[x] = phase[x]
<1>1. TypeOK /\ PhaseMatchesRows(o)
  BY DEF SagaInv, OrderInv
<1>2. /\ phase' \in [OrderIds -> Phases] /\ phase'[o] # "none"
      /\ \A x \in OrderIds \ {o} : phase'[x] = phase[x]
  BY <1>1, AdvanceTyped
<1> QED BY <1>2 DEF Phases

(* Every step of the composed system is a step of the abstract exchange or *)
(* leaves it unchanged.                                                    *)
LEMMA Simulation ==
  ASSUME SagaInv, SagaInv', Next
  PROVE  Exchange!Next \/ UNCHANGED Exchange!vars
<1>ok. "ok" \in Results /\ "error" \in Results
  BY DEF Results
<1>p. /\ phase \in [OrderIds -> Phases] /\ phase' \in [OrderIds -> Phases]
  BY DEF SagaInv, TypeOK
<1>k. ASSUME \A x \in OrderIds : RowsKept(x)
      PROVE  \A x \in OrderIds : EffectsOf(x)' = EffectsOf(x)
  BY <1>k, KeptEffects
<1>1. ASSUME NEW p \in SagaPayload, Submit(p) PROVE Exchange!Next
  <2> DEFINE o == p.order
             outcome == [x \in OrderIds |-> OutcomeOf(x)]
             effects == [x \in OrderIds |-> EffectsOf(x)]
  <2>1. o \in OrderIds /\ phase[o] = "none" /\ phase' = [phase EXCEPT ![o] = "acting"]
    BY <1>1 DEF SagaPayload, Submit
  <2>2. effects' = effects
    BY <1>1, <1>k DEF Submit, tables, inventoryVars, pointsVars, RowsKept
  <2>3. outcome[o] = "none" /\ OutcomeOf(o)' = "open"
    BY <1>p, <2>1 DEF OutcomeOf
  <2>4. \A x \in OrderIds \ {o} : OutcomeOf(x)' = OutcomeOf(x)
    BY <1>p, <2>1 DEF OutcomeOf
  <2>5. outcome' = [outcome EXCEPT ![o] = "open"]
    BY <2>1, <2>3, <2>4
  <2> QED BY <2>1, <2>2, <2>3, <2>5 DEF Exchange!Next, Exchange!Open
<1>2. ASSUME NEW o \in OrderIds, NEW r \in Results, NEW a \in Results, Running(o),
             branch(o, step[o], CurrentOp(o), r), Advance(o, a)
      PROVE  Exchange!Next
  <2>1. step[o] \in Branches /\ CurrentOp(o) \in Ops /\ Callable(o, step[o], CurrentOp(o))
    BY <1>2 DEF SagaInv, OrderInv, PhaseMatchesRows, Running, CurrentOp, Ops, Callable
  <2>2. \A x \in OrderIds \ {o} : EffectsOf(x)' = EffectsOf(x)
    BY <1>2, <2>1, OthersKept, KeptEffects
  <2>3. \E e \in Exchange!Effects :
          \/ EffectsOf(o)' = EffectsOf(o) \cup {e}
          \/ EffectsOf(o)' = EffectsOf(o) \ {e}
    BY <1>2, <2>1, OneEffect
  <2> QED BY <1>2, <2>2, <2>3, AdvancePhase, OpenStep
<1>3. ASSUME NEW o \in OrderIds, Running(o), \A x \in OrderIds : RowsKept(x),
             Advance(o, "error") \/ phase' = phase
      PROVE  Exchange!Next \/ UNCHANGED Exchange!vars
  <2>1. \A x \in OrderIds : EffectsOf(x)' = EffectsOf(x)
    BY <1>3, <1>k
  <2>2. CASE phase' = phase
    BY <2>1, <2>2 DEF Exchange!vars, OutcomeOf
  <2>3. CASE Advance(o, "error") /\ phase'[o] # phase[o]
    <3>1. phase'[o] = "compensating"
      BY <1>3, <1>p, <2>3 DEF Advance
    <3>2. \A x \in OrderIds \ {o} : phase'[x] = phase[x]
      BY <1>3, <1>ok, <2>3, AdvancePhase
    <3>3. \A x \in OrderIds : OutcomeOf(x)' = OutcomeOf(x)
      BY <1>3, <3>1, <3>2 DEF OutcomeOf, Running
    <3> QED BY <2>1, <3>3 DEF Exchange!vars
  <2>4. CASE Advance(o, "error") /\ phase'[o] = phase[o]
    <3>1. \A x \in OrderIds : phase'[x] = phase[x]
      BY <1>3, <1>ok, <2>4, AdvancePhase
    <3> QED BY <2>1, <3>1 DEF Exchange!vars, OutcomeOf
  <2> QED BY <1>3, <2>2, <2>3, <2>4
<1>4. ASSUME NEW o \in OrderIds, NEW i \in Branches, NEW op \in Ops, NEW r \in Results,
             LateDelivery(o, i, op, r)
      PROVE  Exchange!Next \/ UNCHANGED Exchange!vars
  <2>1. branch(o, i, op, r) /\ Callable(o, i, op) /\ phase' = phase
    BY <1>4 DEF LateDelivery, Callable, dtmVars
  <2>2. \A x \in OrderIds \ {o} : EffectsOf(x)' = EffectsOf(x)
    BY <2>1, OthersKept, KeptEffects
  <2>3. phase[o] # "none"
    BY <2>1, Handled
  <2>4. CASE phase[o] \in {"succeeded", "aborted"}
    <3>1. EffectsOf(o)' = EffectsOf(o)
      BY <2>4, EndedRowsKept, KeptEffects
    <3> QED BY <2>1, <2>2, <3>1 DEF Exchange!vars, OutcomeOf
  <2>5. CASE phase[o] \in {"acting", "compensating"}
    <3>1. \E e \in Exchange!Effects :
            \/ EffectsOf(o)' = EffectsOf(o) \cup {e}
            \/ EffectsOf(o)' = EffectsOf(o) \ {e}
      BY <2>1, OneEffect
    <3> QED BY <2>1, <2>2, <2>5, <3>1, OpenStep DEF Running
  <2> QED BY <1>p, <2>3, <2>4, <2>5 DEF Phases
<1>5. ASSUME NEW o \in OrderIds, NEW r \in Results, CallReturns(o, r) PROVE Exchange!Next
  BY <1>2, <1>5 DEF CallReturns
<1>6. ASSUME NEW o \in OrderIds, CommitUnknown(o) PROVE Exchange!Next
  BY <1>2, <1>6, <1>ok DEF CommitUnknown
<1>7. ASSUME NEW o \in OrderIds, CallFails(o) \/ CallTimesOut(o)
      PROVE  Exchange!Next \/ UNCHANGED Exchange!vars
  <2>1. /\ Running(o) /\ \A x \in OrderIds : RowsKept(x)
        /\ Advance(o, "error") \/ phase' = phase
    BY <1>7 DEF CallFails, CallTimesOut, tables, inventoryVars, pointsVars, RowsKept
  <2> QED BY <1>3, <2>1
<1> QED BY <1>1, <1>4, <1>5, <1>6, <1>7 DEF Next

(* The saga implements the atomic exchange, for any number of users,       *)
(* requests, products, retries and timeouts.                               *)
THEOREM SagaImplementsExchange == Spec => ImplementsExchange
<1>1. Init => Exchange!Init
  <2> SUFFICES ASSUME Init PROVE Exchange!Init
    OBVIOUS
  <2>1. ASSUME NEW o \in OrderIds PROVE OutcomeOf(o) = "none" /\ EffectsOf(o) = {}
    BY <2>1 DEF Init, OrderInit, InventoryInit, PointsInit, OutcomeOf, EffectsOf, OrderStatus,
                ReservationStatus, Debited, NoOrder, NoReservation, LedgerOps
  <2> QED BY <2>1 DEF Exchange!Init
<1>2. SagaInv /\ SagaInv' /\ [Next]_vars => [Exchange!Next]_(Exchange!vars)
  <2> SUFFICES ASSUME SagaInv, SagaInv', [Next]_vars
               PROVE  Exchange!Next \/ UNCHANGED Exchange!vars
    OBVIOUS
  <2>1. CASE Next
    BY <2>1, Simulation
  <2>2. CASE UNCHANGED vars
    BY <2>2 DEF vars, Exchange!vars, OutcomeOf, EffectsOf, OrderStatus, ReservationStatus, Debited
  <2> QED BY <2>1, <2>2
<1> QED BY <1>1, <1>2, SagaInvariant, PTL DEF Spec, ImplementsExchange, Exchange!Spec

----------------------------------------------------------------------------
(* The sums behind the counters and the balances.                          *)

(* The units of an amount are as many as the amount.                       *)
LEMMA BlockSize ==
  ASSUME NEW o, NEW n \in Nat
  PROVE  IsFiniteSet({o} \X (1..n)) /\ Cardinality({o} \X (1..n)) = n
<1> DEFINE one == {o}
           units == 1..n
<1>1. IsFiniteSet(one) /\ Cardinality(one) = 1
  BY FS_Singleton
<1>2. IsFiniteSet(units) /\ Cardinality(units) = n
  BY FS_Interval
<1> HIDE DEF one, units
<1>3. /\ IsFiniteSet(one \X units)
      /\ Cardinality(one \X units) = Cardinality(one) * Cardinality(units)
  BY <1>1, <1>2, FS_Product
<1>4. Cardinality(one) * Cardinality(units) = n
  BY <1>1, <1>2
<1> QED BY <1>3, <1>4 DEF one, units

(* One more row adds its amount to the sum.                                *)
LEMMA TotalGrows ==
  ASSUME NEW f, NEW g, NEW o, o \notin DOMAIN f, DOMAIN g = DOMAIN f \cup {o},
         \A x \in DOMAIN f : g[x] = f[x], g[o] \in Nat, IsFiniteSet(Units(f))
  PROVE  IsFiniteSet(Units(g)) /\ Total(g) = Total(f) + g[o]
<1> DEFINE block == {o} \X (1..g[o])
<1>1. IsFiniteSet(block) /\ Cardinality(block) = g[o]
  BY BlockSize
<1>2. Units(g) = Units(f) \cup block
  BY DEF Units
<1>3. Units(f) \cap block = {}
  BY DEF Units
<1>4. Cardinality({}) = 0 /\ Cardinality(Units(f)) \in Nat
  BY FS_EmptySet, FS_CardinalityType
<1>5. /\ IsFiniteSet(Units(f) \cup block)
      /\ Cardinality(Units(f) \cup block)
           = Cardinality(Units(f)) + Cardinality(block) - Cardinality(Units(f) \cap block)
  <2> HIDE DEF block
  <2> QED BY <1>1, FS_Union
<1>6. Cardinality(Units(g)) = Cardinality(Units(f)) + g[o] - 0
  BY <1>1, <1>2, <1>3, <1>4, <1>5, Zenon
<1>7. IsFiniteSet(Units(g))
  BY <1>2, <1>5, Zenon
<1>8. Cardinality(Units(g)) = Cardinality(Units(f)) + g[o]
  BY <1>4, <1>6
<1> QED BY <1>7, <1>8 DEF Total

(* One row less takes its amount from the sum.                             *)
LEMMA TotalShrinks ==
  ASSUME NEW f, NEW g, NEW o, o \in DOMAIN f, DOMAIN g = DOMAIN f \ {o},
         \A x \in DOMAIN g : g[x] = f[x], f[o] \in Nat, IsFiniteSet(Units(f))
  PROVE  IsFiniteSet(Units(g)) /\ Total(g) = Total(f) - f[o] /\ f[o] <= Total(f)
<1>1. Units(g) \subseteq Units(f)
  BY DEF Units
<1>2. IsFiniteSet(Units(g)) /\ Cardinality(Units(g)) \in Nat
  BY <1>1, FS_Subset, FS_CardinalityType
<1>3. Total(f) = Total(g) + f[o]
  BY <1>2, TotalGrows
<1> QED BY <1>2, <1>3 DEF Total

----------------------------------------------------------------------------
(* A row that enters a status adds its quantity to that sum of its product *)
(* and leaves the other products' sums alone.                              *)
LEMMA HeldGrows ==
  ASSUME NEW o \in OrderIds, NEW s, NEW q, NEW product, NEW n \in Nat,
         NEW d, d = (IF q = product THEN n ELSE 0),
         \A x \in OrderIds \ {o} : reservations'[x] = reservations[x],
         reservations[o].status # s, reservations'[o].status = s,
         reservations'[o].product = product, reservations'[o].quantity = n,
         IsFiniteSet(Units(Held(q, s)))
  PROVE  /\ IsFiniteSet(Units(Held(q, s)'))
         /\ Total(Held(q, s)') = Total(Held(q, s)) + d
<1>1. PICK f, g : f = Held(q, s) /\ g = Held(q, s)'
  OBVIOUS
<1>2. CASE q = product
  <2>1. /\ o \notin DOMAIN f /\ DOMAIN g = DOMAIN f \cup {o}
        /\ \A x \in DOMAIN f : g[x] = f[x]
        /\ g[o] = n
    BY <1>1, <1>2 DEF Held
  <2>2. IsFiniteSet(Units(g)) /\ Total(g) = Total(f) + n
    BY <1>1, <2>1, TotalGrows
  <2> QED BY <1>1, <1>2, <2>2
<1>3. CASE q # product
  <2>1. f = g
    BY <1>1, <1>3 DEF Held
  <2>2. IsFiniteSet(Units(f)) /\ Total(f) = Total(f) + 0
    BY <1>1, FS_CardinalityType DEF Total
  <2> QED BY <1>1, <1>3, <2>1, <2>2
<1> QED BY <1>2, <1>3

(* A row that leaves a status takes its quantity from that sum, which      *)
(* held it.                                                                *)
LEMMA HeldShrinks ==
  ASSUME NEW o \in OrderIds, NEW s, NEW q, NEW product, NEW n \in Nat,
         NEW d, d = (IF q = product THEN n ELSE 0),
         \A x \in OrderIds \ {o} : reservations'[x] = reservations[x],
         reservations[o].status = s, NEW t, reservations'[o].status = t, t # s,
         reservations[o].product = product, reservations[o].quantity = n,
         IsFiniteSet(Units(Held(q, s)))
  PROVE  /\ IsFiniteSet(Units(Held(q, s)'))
         /\ Total(Held(q, s)') = Total(Held(q, s)) - d
<1>1. PICK f, g : f = Held(q, s) /\ g = Held(q, s)'
  OBVIOUS
<1>2. CASE q = product
  <2>1. /\ o \in DOMAIN f /\ DOMAIN g = DOMAIN f \ {o}
        /\ \A x \in DOMAIN g : g[x] = f[x]
        /\ f[o] = n
    BY <1>1, <1>2 DEF Held
  <2>2. IsFiniteSet(Units(g)) /\ Total(g) = Total(f) - n
    BY <1>1, <2>1, TotalShrinks
  <2> QED BY <1>1, <1>2, <2>2
<1>3. CASE q # product
  <2>1. f = g
    BY <1>1, <1>3 DEF Held
  <2>2. IsFiniteSet(Units(f)) /\ Total(f) = Total(f) - 0
    BY <1>1, FS_CardinalityType DEF Total
  <2> QED BY <1>1, <1>3, <2>1, <2>2
<1> QED BY <1>2, <1>3

(* The sums of a status that no row enters or leaves stay.                 *)
LEMMA HeldStays ==
  ASSUME NEW o \in OrderIds, NEW s, NEW q,
         \A x \in OrderIds \ {o} : reservations'[x] = reservations[x],
         reservations[o].status # s, reservations'[o].status # s
  PROVE  Held(q, s)' = Held(q, s)
BY DEF Held

----------------------------------------------------------------------------
\* The counters are the sums of finitely many units.
CountersInv ==
  \A q \in Products :
    /\ \A s \in {"reserved", "confirmed"} : IsFiniteSet(Units(Held(q, s)))
    /\ inventory[q]["reserved"] = Total(Held(q, "reserved"))
    /\ inventory[q]["sold"] = Total(Held(q, "confirmed"))

(* The row of an order and the counters of its product move together.      *)
LEMMA MovedTogether ==
  ASSUME InventoryTypeOK, CountersInv, NEW o \in OrderIds, NEW product \in Products,
         NEW n \in Nat, NEW from, NEW to, NEW source, NEW target,
         \/ from = "none" /\ to = "reserved" /\ source = "available" /\ target = "reserved"
         \/ from = "reserved" /\ to = "released" /\ source = "reserved" /\ target = "available"
         \/ from = "reserved" /\ to = "confirmed" /\ source = "reserved" /\ target = "sold"
         \/ from = "confirmed" /\ to = "reserved" /\ source = "sold" /\ target = "reserved",
         Move(product, n, source, target),
         \A x \in OrderIds \ {o} : reservations'[x] = reservations[x],
         reservations[o].status = from, reservations'[o].status = to,
         from # "none" => reservations[o].product = product /\ reservations[o].quantity = n,
         reservations'[o].product = product, reservations'[o].quantity = n
  PROVE  CountersInv'
<1> SUFFICES ASSUME NEW q \in Products
             PROVE  /\ \A s \in {"reserved", "confirmed"} : IsFiniteSet(Units(Held(q, s)'))
                    /\ inventory'[q]["reserved"] = Total(Held(q, "reserved")')
                    /\ inventory'[q]["sold"] = Total(Held(q, "confirmed")')
  BY DEF CountersInv
<1>1. /\ IsFiniteSet(Units(Held(q, "reserved"))) /\ IsFiniteSet(Units(Held(q, "confirmed")))
      /\ inventory[q]["reserved"] = Total(Held(q, "reserved"))
      /\ inventory[q]["sold"] = Total(Held(q, "confirmed"))
  BY DEF CountersInv
<1>2. inventory[q]["reserved"] \in Nat /\ inventory[q]["sold"] \in Nat
  BY DEF InventoryTypeOK, Counters
<1>d. PICK d : d = IF q = product THEN n ELSE 0
  OBVIOUS
<1>n. d \in Nat
  BY <1>d
<1>3. /\ inventory'[q]["reserved"] = inventory[q]["reserved"]
           + (IF target = "reserved" THEN d ELSE 0) - (IF source = "reserved" THEN d ELSE 0)
      /\ inventory'[q]["sold"] = inventory[q]["sold"]
           + (IF target = "sold" THEN d ELSE 0) - (IF source = "sold" THEN d ELSE 0)
  BY <1>2, <1>d DEF InventoryTypeOK, Counters, Move
<1>4. CASE from = "none"
  <2>1. /\ IsFiniteSet(Units(Held(q, "reserved")'))
        /\ Total(Held(q, "reserved")') = Total(Held(q, "reserved")) + d
    BY <1>1, <1>d, <1>4, HeldGrows
  <2>2. Held(q, "confirmed")' = Held(q, "confirmed")
    BY <1>4, HeldStays
  <2>3. /\ inventory'[q]["reserved"] = inventory[q]["reserved"] + d
        /\ inventory'[q]["sold"] = inventory[q]["sold"]
    BY <1>2, <1>3, <1>n, <1>4
  <2> QED BY <1>1, <2>1, <2>2, <2>3
<1>5. CASE from = "reserved"
  <2>0. /\ to # "reserved" /\ reservations[o].status = "reserved" /\ reservations'[o].status = to
        /\ reservations[o].product = product /\ reservations[o].quantity = n
    BY <1>5
  <2>1. /\ IsFiniteSet(Units(Held(q, "reserved")'))
        /\ Total(Held(q, "reserved")') = Total(Held(q, "reserved")) - d
    <3>1. PICK s : s = "reserved"
      OBVIOUS
    <3>2. /\ to # s /\ reservations[o].status = s /\ reservations'[o].status = to
          /\ IsFiniteSet(Units(Held(q, s)))
      BY <1>1, <2>0, <3>1
    <3>3. /\ IsFiniteSet(Units(Held(q, s)'))
          /\ Total(Held(q, s)') = Total(Held(q, s)) - d
      BY <1>d, <2>0, <3>2, HeldShrinks
    <3> QED BY <3>1, <3>3
  <2>2. CASE to = "released"
    <3>1. Held(q, "confirmed")' = Held(q, "confirmed")
      BY <1>5, <2>2, HeldStays
    <3>2. /\ inventory'[q]["reserved"] = inventory[q]["reserved"] - d
          /\ inventory'[q]["sold"] = inventory[q]["sold"]
      BY <1>2, <1>3, <1>n, <1>5, <2>2
    <3> QED BY <1>1, <2>1, <3>1, <3>2
  <2>3. CASE to = "confirmed"
    <3>1. /\ IsFiniteSet(Units(Held(q, "confirmed")'))
          /\ Total(Held(q, "confirmed")') = Total(Held(q, "confirmed")) + d
      BY <1>1, <1>d, <1>5, <2>3, HeldGrows
    <3>2. /\ inventory'[q]["reserved"] = inventory[q]["reserved"] - d
          /\ inventory'[q]["sold"] = inventory[q]["sold"] + d
      BY <1>2, <1>3, <1>n, <1>5, <2>3
    <3> QED BY <1>1, <2>1, <3>1, <3>2
  <2> QED BY <1>5, <2>2, <2>3
<1>6. CASE from = "confirmed"
  <2>1. /\ IsFiniteSet(Units(Held(q, "confirmed")'))
        /\ Total(Held(q, "confirmed")') = Total(Held(q, "confirmed")) - d
    BY <1>1, <1>d, <1>6, HeldShrinks
  <2>2. /\ IsFiniteSet(Units(Held(q, "reserved")'))
        /\ Total(Held(q, "reserved")') = Total(Held(q, "reserved")) + d
    BY <1>1, <1>d, <1>6, HeldGrows
  <2>3. /\ inventory'[q]["reserved"] = inventory[q]["reserved"] + d
        /\ inventory'[q]["sold"] = inventory[q]["sold"] - d
    BY <1>2, <1>3, <1>n, <1>6
  <2> QED BY <1>1, <2>1, <2>2, <2>3
<1> QED BY <1>4, <1>5, <1>6

(* One inventory operation keeps the counters equal to the rows.           *)
LEMMA CountersStep ==
  ASSUME InventoryTypeOK, CountersInv, NEW p \in SagaPayload, NEW r,
         ApplyInventoryMutation(p, r)
  PROVE  CountersInv'
<1> DEFINE o == p.order
<1>p. /\ o \in OrderIds /\ p.product \in Products /\ p.quantity \in Nat
      /\ reservations \in [OrderIds -> Reservation \cup {NoReservation}]
      /\ NoReservation.status = "none"
  BY MallAssumption DEF SagaPayload, InventoryTypeOK, NoReservation
<1>u. ASSUME UNCHANGED inventoryVars PROVE CountersInv'
  <2>1. \A q, s : Held(q, s)' = Held(q, s)
    BY <1>u DEF inventoryVars, Held
  <2> QED BY <1>u, <2>1 DEF inventoryVars, CountersInv
<1>1. CASE /\ reservations[o] = NoReservation
           /\ Move(p.product, p.quantity, "available", "reserved")
           /\ reservations' = [reservations EXCEPT ![o] =
                                 [status |-> "reserved", product |-> p.product,
                                  quantity |-> p.quantity]]
  <2>1. /\ \A x \in OrderIds \ {o} : reservations'[x] = reservations[x]
        /\ reservations[o].status = "none" /\ reservations'[o].status = "reserved"
        /\ reservations'[o].product = p.product /\ reservations'[o].quantity = p.quantity
    BY <1>p, <1>1
  <2> QED BY <1>p, <1>1, <2>1, MovedTogether
<1>s. ASSUME NEW done, NEW from, NEW to, NEW source, NEW target,
             Settle(p, r, done, from, to, source, target), ~UNCHANGED inventoryVars
      PROVE  /\ Move(p.product, p.quantity, source, target)
             /\ \A x \in OrderIds \ {o} : reservations'[x] = reservations[x]
             /\ reservations[o].status = from /\ reservations'[o].status = to
             /\ reservations[o].product = p.product /\ reservations[o].quantity = p.quantity
             /\ reservations'[o].product = p.product
             /\ reservations'[o].quantity = p.quantity
  <2>1. /\ reservations[o] # NoReservation /\ SameItem(reservations[o], p)
        /\ reservations[o].status = from
        /\ Move(p.product, p.quantity, source, target)
        /\ reservations' = [reservations EXCEPT ![o].status = to]
    BY <1>s DEF Settle
  <2>2. reservations[o] \in Reservation
    BY <1>p, <2>1
  <2>3. reservations'[o] = [reservations[o] EXCEPT !.status = to]
    BY <1>p, <2>1
  <2>4. /\ reservations'[o].status = to /\ reservations'[o].product = reservations[o].product
        /\ reservations'[o].quantity = reservations[o].quantity
    BY <2>2, <2>3 DEF Reservation
  <2> QED BY <1>p, <2>1, <2>4 DEF SameItem
<1>2. CASE releaseInventoryTx(p, r) /\ ~UNCHANGED inventoryVars
  <2>1. Settle(p, r, {"released"}, "reserved", "released", "reserved", "available")
    BY <1>2 DEF releaseInventoryTx, Missing
  <2> QED BY <1>2, <1>p, <1>s, <2>1, MovedTogether
<1>3. CASE confirmInventoryTx(p, r) /\ ~UNCHANGED inventoryVars
  <2>1. Settle(p, r, {"confirmed"}, "reserved", "confirmed", "reserved", "sold")
    BY <1>3 DEF confirmInventoryTx, Missing
  <2> QED BY <1>3, <1>p, <1>s, <2>1, MovedTogether
<1>4. CASE unconfirmInventoryTx(p, r) /\ ~UNCHANGED inventoryVars
  <2>1. Settle(p, r, {"reserved", "released"}, "confirmed", "reserved", "sold", "reserved")
    BY <1>4 DEF unconfirmInventoryTx, Missing
  <2> QED BY <1>4, <1>p, <1>s, <2>1, MovedTogether
<1>5. CASE reserveInventoryTx(p, r)
  BY <1>1, <1>u, <1>5 DEF reserveInventoryTx
<1> QED BY <1>u, <1>2, <1>3, <1>4, <1>5 DEF ApplyInventoryMutation

(* There are no rows at the start, and nothing is reserved or sold.        *)
LEMMA CountersStart == InventoryInit => CountersInv
<1> SUFFICES ASSUME InventoryInit, NEW q \in Products, NEW s \in {"reserved", "confirmed"}
             PROVE  /\ IsFiniteSet(Units(Held(q, s)))
                    /\ Total(Held(q, s)) = 0
                    /\ inventory[q]["reserved"] = 0 /\ inventory[q]["sold"] = 0
  BY DEF CountersInv
<1>1. DOMAIN Held(q, s) = {}
  BY DEF InventoryInit, NoReservation, Held
<1>2. Units(Held(q, s)) = {}
  BY <1>1 DEF Units
<1>3. inventory[q]["reserved"] = 0 /\ inventory[q]["sold"] = 0
  BY DEF InventoryInit, Counters
<1> QED BY <1>2, <1>3, FS_EmptySet DEF Total

(* A row's amount is part of its sum.                                      *)
LEMMA TotalHolds ==
  ASSUME NEW f, NEW o, o \in DOMAIN f, f[o] \in Nat, IsFiniteSet(Units(f))
  PROVE  f[o] <= Total(f)
<1>1. PICK g : g = [x \in DOMAIN f \ {o} |-> f[x]]
  OBVIOUS
<1>2. DOMAIN g = DOMAIN f \ {o} /\ \A x \in DOMAIN g : g[x] = f[x]
  BY <1>1
<1> QED BY <1>2, TotalShrinks

(* A reserved or confirmed row is covered by its product's counter.        *)
LEMMA RowsCovered == InventoryTypeOK /\ CountersInv => SettleCovered
<1> SUFFICES ASSUME InventoryTypeOK, CountersInv, NEW o \in OrderIds, NEW s \in {"reserved", "confirmed"},
                    reservations[o].status = s
             PROVE  reservations[o].quantity
                      <= inventory[reservations[o].product][IF s = "reserved" THEN "reserved" ELSE "sold"]
  BY DEF SettleCovered
<1>1. reservations[o] \in Reservation
  BY DEF InventoryTypeOK, NoReservation
<1>2. PICK q \in Products, n \in Nat : reservations[o].product = q /\ reservations[o].quantity = n
  BY <1>1, MallAssumption DEF Reservation
<1>3. PICK f : f = Held(q, s)
  OBVIOUS
<1>4. o \in DOMAIN f /\ f[o] = n /\ IsFiniteSet(Units(f))
  BY <1>2, <1>3 DEF Held, CountersInv
<1>5. n <= Total(f)
  BY <1>4, TotalHolds
<1>6. Total(f) = inventory[q][IF s = "reserved" THEN "reserved" ELSE "sold"]
  BY <1>3 DEF CountersInv
<1> QED BY <1>2, <1>5, <1>6

(* Whatever callers do, the counters are the sums of the rows, and the     *)
(* "inventory invariant violation" errors of release, confirm and          *)
(* unconfirm cannot happen.                                                *)
THEOREM InventoryCountersExact == InventorySpec => [](CountersMatchRows /\ SettleCovered)
<1>1. InventoryInit => CountersInv
  BY CountersStart
<1>2. InventoryTypeOK /\ CountersInv /\ [InventoryNext]_inventoryVars => CountersInv'
  <2> SUFFICES ASSUME InventoryTypeOK, CountersInv, [InventoryNext]_inventoryVars
               PROVE  CountersInv'
    OBVIOUS
  <2>1. CASE InventoryNext
    BY <2>1, CountersStep DEF InventoryNext
  <2>2. CASE UNCHANGED inventoryVars
    <3>1. \A q, s : Held(q, s)' = Held(q, s)
      BY <2>2 DEF inventoryVars, Held
    <3> QED BY <2>2, <3>1 DEF inventoryVars, CountersInv
  <2> QED BY <2>1, <2>2
<1>3. InventoryTypeOK /\ CountersInv => CountersMatchRows /\ SettleCovered
  BY RowsCovered DEF CountersInv, CountersMatchRows
<1> QED BY <1>1, <1>2, <1>3, InventorySafe, PTL DEF InventorySpec

----------------------------------------------------------------------------
\* Balances and open debits add up, over finitely many points.
BalanceInv ==
  \A u \in Users : /\ IsFiniteSet(Units(Spent(u)))
                   /\ balance[u] + Total(Spent(u)) = InitialPoints[u]

(* A debit opens a row of its user with the points that it takes.          *)
LEMMA DebitOpens ==
  ASSUME PointsTypeOK, RefundMatchesDebit, BalanceInv, NEW p \in SagaPayload,
         ledger[p.order]["debit"] = NoEntry, Post(p, "debit", DebitEntry(p))
  PROVE  BalanceInv'
<1> DEFINE o == p.order
<1>p. /\ o \in OrderIds /\ p.user \in Users /\ p.total \in Nat
      /\ balance \in [Users -> Nat]
      /\ ledger \in [OrderIds -> [LedgerOps -> Entry \cup {NoEntry}]]
  BY MallAssumption DEF SagaPayload, PointsTypeOK
<1>1. /\ \A x \in OrderIds \ {o} : ledger'[x] = ledger[x]
      /\ ledger[o]["refund"] = NoEntry /\ ledger'[o]["refund"] = NoEntry
      /\ ledger'[o]["debit"] = DebitEntry(p) /\ DebitEntry(p) # NoEntry
  BY <1>p, EntriesDiffer DEF Post, LedgerOps, RefundMatchesDebit
<1>2. DebitEntry(p).user = p.user /\ DebitEntry(p).delta = -p.total
  BY DEF DebitEntry
<1> SUFFICES ASSUME NEW u \in Users
             PROVE  /\ IsFiniteSet(Units(Spent(u)'))
                    /\ balance'[u] + Total(Spent(u)') = InitialPoints[u]
  BY DEF BalanceInv
<1>3. IsFiniteSet(Units(Spent(u))) /\ balance[u] + Total(Spent(u)) = InitialPoints[u]
  BY DEF BalanceInv
<1>4. PICK f, g : f = Spent(u) /\ g = Spent(u)'
  OBVIOUS
<1>5. CASE u = p.user
  <2>1. /\ o \notin DOMAIN f /\ DOMAIN g = DOMAIN f \cup {o}
        /\ \A x \in DOMAIN f : g[x] = f[x]
    BY <1>p, <1>1, <1>2, <1>4, <1>5 DEF Spent
  <2>2. g[o] = p.total
    <3>1. g[o] = -(ledger'[o]["debit"].delta)
      BY <1>4, <2>1 DEF Spent
    <3> QED BY <1>p, <1>1, <1>2, <3>1
  <2>3. IsFiniteSet(Units(g)) /\ Total(g) = Total(f) + p.total
    BY <1>p, <1>3, <1>4, <2>1, <2>2, TotalGrows
  <2>4. balance'[u] = balance[u] - p.total /\ balance[u] \in Nat
    BY <1>p, <1>2, <1>5 DEF Post
  <2>5. Total(f) \in Nat
    BY <1>3, <1>4, FS_CardinalityType DEF Total
  <2> QED BY <1>p, <1>3, <1>4, <2>3, <2>4, <2>5
<1>6. CASE u # p.user
  <2>1. f = g
    BY <1>p, <1>1, <1>2, <1>4, <1>6 DEF Spent
  <2>2. balance'[u] = balance[u]
    BY <1>p, <1>6 DEF Post
  <2> QED BY <1>3, <1>4, <2>1, <2>2
<1> QED BY <1>5, <1>6

(* A refund closes the row of its order and gives its points back.         *)
LEMMA RefundCloses ==
  ASSUME PointsTypeOK, BalanceInv, NEW p \in SagaPayload,
         ledger[p.order]["debit"] = DebitEntry(p), ledger[p.order]["refund"] = NoEntry,
         Post(p, "refund", RefundEntry(p))
  PROVE  BalanceInv'
<1> DEFINE o == p.order
<1>p. /\ o \in OrderIds /\ p.user \in Users /\ p.total \in Nat
      /\ balance \in [Users -> Nat]
      /\ ledger \in [OrderIds -> [LedgerOps -> Entry \cup {NoEntry}]]
  BY MallAssumption DEF SagaPayload, PointsTypeOK
<1>1. /\ \A x \in OrderIds \ {o} : ledger'[x] = ledger[x]
      /\ ledger'[o]["refund"] = RefundEntry(p) /\ RefundEntry(p) # NoEntry
      /\ ledger'[o]["debit"] = DebitEntry(p) /\ DebitEntry(p) # NoEntry
  BY <1>p, EntriesDiffer DEF Post, LedgerOps
<1>2. /\ DebitEntry(p).user = p.user /\ DebitEntry(p).delta = -p.total
      /\ RefundEntry(p).delta = p.total
  BY DEF DebitEntry, RefundEntry
<1> SUFFICES ASSUME NEW u \in Users
             PROVE  /\ IsFiniteSet(Units(Spent(u)'))
                    /\ balance'[u] + Total(Spent(u)') = InitialPoints[u]
  BY DEF BalanceInv
<1>3. IsFiniteSet(Units(Spent(u))) /\ balance[u] + Total(Spent(u)) = InitialPoints[u]
  BY DEF BalanceInv
<1>4. PICK f, g : f = Spent(u) /\ g = Spent(u)'
  OBVIOUS
<1>5. CASE u = p.user
  <2>1. /\ o \in DOMAIN f /\ DOMAIN g = DOMAIN f \ {o}
        /\ \A x \in DOMAIN g : g[x] = f[x]
    BY <1>p, <1>1, <1>2, <1>4, <1>5 DEF Spent
  <2>2. f[o] = p.total
    <3>1. f[o] = -(ledger[o]["debit"].delta)
      BY <1>4, <2>1 DEF Spent
    <3> QED BY <1>p, <1>2, <3>1
  <2>3. IsFiniteSet(Units(g)) /\ Total(g) = Total(f) - p.total
    BY <1>p, <1>3, <1>4, <2>1, <2>2, TotalShrinks
  <2>4. balance'[u] = balance[u] + p.total /\ balance[u] \in Nat
    BY <1>p, <1>2, <1>5 DEF Post
  <2>5. Total(f) \in Nat
    BY <1>3, <1>4, FS_CardinalityType DEF Total
  <2> QED BY <1>p, <1>3, <1>4, <2>3, <2>4, <2>5
<1>6. CASE u # p.user
  <2>0. ledger[o]["debit"].user # u /\ ledger'[o]["debit"].user # u
    BY <1>1, <1>2, <1>6
  <2>1. f = g
    BY <1>1, <1>4, <2>0 DEF Spent
  <2>2. balance'[u] = balance[u]
    BY <1>p, <1>6 DEF Post
  <2> QED BY <1>3, <1>4, <2>1, <2>2
<1> QED BY <1>5, <1>6

(* Whatever callers do, no point is created or lost.                       *)
THEOREM PointsConservedAlways == PointsSpec => []PointsConserved
<1>1. PointsInit => BalanceInv
  <2> SUFFICES ASSUME PointsInit, NEW u \in Users
               PROVE  /\ IsFiniteSet(Units(Spent(u)))
                      /\ balance[u] + Total(Spent(u)) = InitialPoints[u]
    BY DEF BalanceInv
  <2>1. DOMAIN Spent(u) = {}
    BY DEF PointsInit, Spent, LedgerOps
  <2>2. Units(Spent(u)) = {}
    BY <2>1 DEF Units
  <2>3. IsFiniteSet(Units(Spent(u))) /\ Total(Spent(u)) = 0
    BY <2>2, FS_EmptySet DEF Total
  <2>4. balance[u] = InitialPoints[u] /\ InitialPoints[u] \in Nat
    BY MallAssumption DEF PointsInit
  <2> QED BY <2>3, <2>4
<1>2. PointsTypeOK /\ RefundMatchesDebit /\ BalanceInv /\ [PointsNext]_pointsVars => BalanceInv'
  <2> SUFFICES ASSUME PointsTypeOK, RefundMatchesDebit, BalanceInv, [PointsNext]_pointsVars
               PROVE  BalanceInv'
    OBVIOUS
  <2>1. CASE UNCHANGED pointsVars
    <3>1. \A u : Spent(u)' = Spent(u)
      BY <2>1 DEF pointsVars, Spent
    <3> QED BY <2>1, <3>1 DEF pointsVars, BalanceInv
  <2>2. ASSUME NEW p \in SagaPayload, NEW r, debitPointsTx(p, r) PROVE BalanceInv'
    BY <2>1, <2>2, DebitOpens DEF debitPointsTx
  <2>3. ASSUME NEW p \in SagaPayload, NEW r, refundPointsTx(p, r) PROVE BalanceInv'
    BY <2>1, <2>3, RefundCloses DEF refundPointsTx
  <2> QED BY <2>1, <2>2, <2>3 DEF PointsNext, ApplyPointsMutation
<1>3. BalanceInv => PointsConserved
  BY DEF BalanceInv, PointsConserved
<1> QED BY <1>1, <1>2, <1>3, PointsSafe, PTL DEF PointsSpec

----------------------------------------------------------------------------
(* What a branch does to the inventory and points tables is one of their   *)
(* services' operations with a payload of the saga, or nothing.            *)
LEMMA BranchUsesServices ==
  ASSUME NEW o \in OrderIds, NEW i \in Branches, NEW op \in Ops, NEW r \in Results,
         payload[o] \in SagaPayload, branch(o, i, op, r)
  PROVE  [InventoryNext]_inventoryVars /\ [PointsNext]_pointsVars
<1>1. CASE OrderBranch(i, op, payload[o], r)
  BY <1>1 DEF OrderBranch
<1>2. CASE InventoryBranch(i, op, payload[o], r)
  BY <1>2 DEF InventoryBranch, InventoryNext, ApplyInventoryMutation
<1>3. CASE PointsBranch(i, op, payload[o], r)
  BY <1>3 DEF PointsBranch, PointsNext, ApplyPointsMutation
<1> QED BY <1>1, <1>2, <1>3 DEF branch, Operation

(* So every step of the composed system is a step of each service.         *)
LEMMA SagaUsesServices ==
  SagaInv /\ [Next]_vars => [InventoryNext]_inventoryVars /\ [PointsNext]_pointsVars
<1> SUFFICES ASSUME SagaInv, [Next]_vars
             PROVE  [InventoryNext]_inventoryVars /\ [PointsNext]_pointsVars
  OBVIOUS
<1>1. ASSUME NEW o \in OrderIds, NEW i \in Branches, NEW op \in Ops, NEW r \in Results,
             Callable(o, i, op), branch(o, i, op, r)
      PROVE  [InventoryNext]_inventoryVars /\ [PointsNext]_pointsVars
  BY <1>1, Handled, BranchUsesServices
<1>2. ASSUME NEW o \in OrderIds, Running(o)
      PROVE  step[o] \in Branches /\ CurrentOp(o) \in Ops /\ Callable(o, step[o], CurrentOp(o))
  BY <1>2 DEF SagaInv, OrderInv, PhaseMatchesRows, Running, CurrentOp, Ops, Callable
<1>3. ASSUME NEW o \in OrderIds, NEW r \in Results, CallReturns(o, r) \/ CommitUnknown(o)
      PROVE  [InventoryNext]_inventoryVars /\ [PointsNext]_pointsVars
  <2>1. PICK q \in Results : Running(o) /\ branch(o, step[o], CurrentOp(o), q)
    BY <1>3 DEF CallReturns, CommitUnknown, Results
  <2> QED BY <1>1, <1>2, <2>1
<1>4. ASSUME NEW o \in OrderIds, NEW i \in Branches, NEW op \in Ops, NEW r \in Results,
             LateDelivery(o, i, op, r)
      PROVE  [InventoryNext]_inventoryVars /\ [PointsNext]_pointsVars
  BY <1>1, <1>4 DEF LateDelivery, Callable
<1>5. CASE UNCHANGED vars \/ UNCHANGED tables
  BY <1>5 DEF vars, tables, inventoryVars, pointsVars
<1>6. "ok" \in Results
  BY DEF Results
<1> QED BY <1>3, <1>4, <1>5, <1>6 DEF Next, Submit, CallFails, CallTimesOut

(* The saga uses the inventory service as its interface allows: what holds *)
(* of the service under any callers holds of it under the saga.            *)
THEOREM SagaUsesInventory == Spec => InventorySpec
<1>1. Init => InventoryInit
  BY DEF Init
<1>2. SagaInv /\ [Next]_vars => [InventoryNext]_inventoryVars
  BY SagaUsesServices
<1> QED BY <1>1, <1>2, SagaInvariant, PTL DEF Spec, InventorySpec

(* The same for the points service.                                        *)
THEOREM SagaUsesPoints == Spec => PointsSpec
<1>1. Init => PointsInit
  BY DEF Init
<1>2. SagaInv /\ [Next]_vars => [PointsNext]_pointsVars
  BY SagaUsesServices
<1> QED BY <1>1, <1>2, SagaInvariant, PTL DEF Spec, PointsSpec

----------------------------------------------------------------------------
\* Only the saga's own payload reaches the rows of its order.
RowsOwn(o) ==
  /\ reservations[o] # NoReservation => SameItem(reservations[o], payload[o])
  /\ ledger[o]["debit"] \in {NoEntry, DebitEntry(payload[o])}

RowsInv == \A o \in OrderIds : RowsOwn(o)

(* A branch request writes the payload of its order, if anything.          *)
LEMMA BranchWritesOwn ==
  ASSUME SagaInv, RowsInv, NEW o \in OrderIds, NEW i \in Branches, NEW op \in Ops,
         NEW r \in Results, Callable(o, i, op), branch(o, i, op, r), UNCHANGED payload
  PROVE  RowsInv'
<1>1. /\ Frame(o, i, op, r) /\ payload[o] \in SagaPayload /\ payload[o].order = o
  BY Handled
<1>t. /\ reservations \in [OrderIds -> Reservation \cup {NoReservation}]
      /\ ledger \in [OrderIds -> [LedgerOps -> Entry \cup {NoEntry}]]
  BY DEF SagaInv, TypeOK, InventoryTypeOK, PointsTypeOK
<1>2. ASSUME NEW x \in OrderIds \ {o} PROVE RowsOwn(x)'
  BY <1>1 DEF Frame, RowsInv, RowsOwn, SameItem, DebitEntry
<1>3. reservations'[o] # NoReservation => SameItem(reservations'[o], payload[o])
  <2>1. CASE reservations'[o] = reservations[o]
    BY <2>1 DEF RowsInv, RowsOwn, SameItem
  <2>2. CASE /\ reservations' = [reservations EXCEPT ![o] =
                                   [status |-> "reserved", product |-> payload[o].product,
                                    quantity |-> payload[o].quantity]]
    BY <1>t, <2>2 DEF SameItem
  <2>3. ASSUME NEW to, reservations[o] # NoReservation,
               reservations' = [reservations EXCEPT ![o].status = to]
        PROVE  SameItem(reservations'[o], payload[o])
    <3>1. reservations[o] \in Reservation /\ SameItem(reservations[o], payload[o])
      BY <1>t, <2>3 DEF RowsInv, RowsOwn
    <3>2. reservations'[o] = [reservations[o] EXCEPT !.status = to]
      BY <1>t, <2>3
    <3>3. /\ reservations'[o].product = reservations[o].product
          /\ reservations'[o].quantity = reservations[o].quantity
      BY <3>1, <3>2 DEF Reservation
    <3> QED BY <3>1, <3>3 DEF SameItem
  <2>4. CASE InventoryBranch(i, op, payload[o], r)
    BY <1>1, <2>1, <2>2, <2>3, <2>4 DEF InventoryBranch, reserveInventoryTx, releaseInventoryTx,
       confirmInventoryTx, unconfirmInventoryTx, Settle, Missing, inventoryVars
  <2>5. CASE UNCHANGED inventoryVars
    BY <2>1, <2>5 DEF inventoryVars
  <2> QED BY <2>4, <2>5 DEF branch, Operation, OrderBranch, PointsBranch
<1>4. ledger'[o]["debit"] \in {NoEntry, DebitEntry(payload[o])}
  <2>1. CASE ledger'[o]["debit"] = ledger[o]["debit"]
    BY <2>1 DEF RowsInv, RowsOwn
  <2>2. CASE ledger' = [ledger EXCEPT ![o]["debit"] = DebitEntry(payload[o])]
    BY <1>t, <2>2 DEF LedgerOps
  <2>3. CASE ledger' = [ledger EXCEPT ![o]["refund"] = RefundEntry(payload[o])]
    BY <1>t, <2>1, <2>3 DEF LedgerOps
  <2>4. CASE PointsBranch(i, op, payload[o], r)
    BY <1>1, <2>1, <2>2, <2>3, <2>4 DEF PointsBranch, debitPointsTx, refundPointsTx, Post, pointsVars
  <2>5. CASE UNCHANGED pointsVars
    BY <2>1, <2>5 DEF pointsVars
  <2> QED BY <2>4, <2>5 DEF branch, Operation, OrderBranch, InventoryBranch
<1>5. RowsOwn(o)'
  BY <1>3, <1>4 DEF RowsOwn, SameItem, DebitEntry
<1> QED BY <1>2, <1>5 DEF RowsInv

(* Every step keeps the rows an order's own.                               *)
LEMMA RowsStep == SagaInv /\ RowsInv /\ [Next]_vars => RowsInv'
<1> SUFFICES ASSUME SagaInv, RowsInv, [Next]_vars PROVE RowsInv'
  OBVIOUS
<1>1. ASSUME NEW o \in OrderIds, Running(o)
      PROVE  step[o] \in Branches /\ CurrentOp(o) \in Ops /\ Callable(o, step[o], CurrentOp(o))
  BY <1>1 DEF SagaInv, OrderInv, PhaseMatchesRows, Running, CurrentOp, Ops, Callable
<1>2. ASSUME NEW o \in OrderIds, NEW r \in Results, CallReturns(o, r) \/ CommitUnknown(o)
      PROVE  RowsInv'
  <2>1. PICK q \in Results : Running(o) /\ branch(o, step[o], CurrentOp(o), q)
    BY <1>2 DEF CallReturns, CommitUnknown, Results
  <2>2. UNCHANGED payload
    BY <1>2 DEF CallReturns, CommitUnknown
  <2> QED BY <1>1, <2>1, <2>2, BranchWritesOwn
<1>3. ASSUME NEW o \in OrderIds, NEW i \in Branches, NEW op \in Ops, NEW r \in Results,
             LateDelivery(o, i, op, r)
      PROVE  RowsInv'
  BY <1>3, BranchWritesOwn DEF LateDelivery, Callable, dtmVars
<1>4. CASE UNCHANGED <<reservations, ledger, payload>>
  BY <1>4 DEF RowsInv, RowsOwn, SameItem, DebitEntry
<1>5. ASSUME NEW p \in SagaPayload, Submit(p) PROVE RowsInv'
  <2> DEFINE o == p.order
  <2>1. o \in OrderIds /\ OrderInv(o) /\ phase[o] = "none"
    BY <1>5 DEF SagaInv, SagaPayload, Submit
  <2>2. ~Acted(o, 2) /\ ~Acted(o, 3)
    BY <2>1 DEF OrderInv, PhaseMatchesRows, Branches, Ops
  <2>3. reservations[o] = NoReservation /\ ledger[o]["debit"] = NoEntry
    BY <2>1, <2>2 DEF OrderInv, ReservationMatchesRows, LedgerMatchesRows
  <2>4. /\ UNCHANGED <<reservations, ledger>>
        /\ \A x \in OrderIds \ {o} : payload'[x] = payload[x]
    BY <1>5, <2>1 DEF Submit, tables, inventoryVars, pointsVars, SagaInv, TypeOK
  <2> QED BY <2>3, <2>4 DEF RowsInv, RowsOwn, SameItem, DebitEntry
<1>6. "ok" \in Results
  BY DEF Results
<1> QED BY <1>2, <1>3, <1>4, <1>5, <1>6
        DEF Next, CallFails, CallTimesOut, vars, tables, inventoryVars, pointsVars

(* The current call finds the rows it expects.                             *)
LEMMA ReadyCall ==
  ASSUME SagaInv, RowsInv, SettleCovered, NEW o \in OrderIds, Running(o),
         ~Skipped(o, step[o], CurrentOp(o))
  PROVE  Ready(step[o], CurrentOp(o), payload[o])
<1> DEFINE i == step[o]
           op == CurrentOp(o)
           p == payload[o]
<1>1. /\ i \in Branches /\ OrderInv(o)
      /\ phase[o] \in {"acting", "compensating"}
      /\ op = (IF phase[o] = "acting" THEN "action" ELSE "compensate")
      /\ p \in SagaPayload /\ p.order = o
  BY DEF SagaInv, OrderInv, PhaseMatchesRows, Running, CurrentOp, PayloadOwn
<1>t. /\ p.product \in Products /\ p.quantity \in Nat
      /\ \A c \in Counters : inventory[p.product][c] \in Nat
  <2>1. p.product \in Products /\ p.quantity \in Quantities
    BY <1>1 DEF SagaPayload
  <2>2. p.quantity \in Nat
    BY <2>1, MallAssumption
  <2>3. inventory \in [Products -> [Counters -> Nat]]
    BY DEF SagaInv, TypeOK, InventoryTypeOK
  <2> HIDE DEF p
  <2> QED BY <2>1, <2>2, <2>3
<1>r. RowsOwn(o) /\ NoReservation.status = "none" /\ NoOrder.status = "none"
  BY DEF RowsInv, NoReservation, NoOrder
<1>c. /\ reservations[o].status = "reserved" => Settleable(p, "reserved", "reserved")
      /\ reservations[o].status = "confirmed" => Settleable(p, "confirmed", "sold")
  <2>1. reservations[o].status \in {"reserved", "confirmed"} => SameItem(reservations[o], p)
    BY <1>r DEF RowsOwn
  <2>2. /\ reservations[o].status = "reserved" => p.quantity <= inventory[p.product]["reserved"]
        /\ reservations[o].status = "confirmed" => p.quantity <= inventory[p.product]["sold"]
    BY <2>1 DEF SettleCovered, SameItem
  <2>3. /\ inventory[p.product]["reserved"] \in Nat
        /\ inventory[p.product]["sold"] \in Nat
    BY <1>t DEF Counters
  <2>4. \A a, b \in Nat : a <= b => b >= a
    OBVIOUS
  <2> HIDE DEF p
  <2> QED BY <1>1, <1>t, <2>1, <2>2, <2>3, <2>4 DEF Settleable
<1>4. CASE phase[o] = "acting"
  <2>1. op = "action" /\ ~Acted(o, i)
    BY <1>1, <1>4 DEF Skipped, Acted
  <2>2. /\ \A j \in Branches : j < i => Acted(o, j)
        /\ \A j \in Branches : ~Undone(o, j)
    BY <1>1, <1>4 DEF OrderInv, PhaseMatchesRows
  <2>3. i = 1 => orders[o] = NoOrder
    BY <1>1, <2>1 DEF OrderInv, OrderMatchesRows
  <2>4. i = 2 => reservations[o] = NoReservation
    BY <1>1, <2>1 DEF OrderInv, ReservationMatchesRows
  <2>5. i = 3 => ledger[o]["debit"] = NoEntry
    BY <1>1, <2>1 DEF OrderInv, LedgerMatchesRows
  <2>6. i = 4 => reservations[o].status = "reserved"
    BY <1>1, <2>1, <2>2 DEF OrderInv, ReservationMatchesRows, ReservationStatus, Branches
  <2>7. i = 5 => orders[o].status = "pending"
    BY <1>1, <2>1, <2>2 DEF OrderInv, OrderMatchesRows, OrderStatus, Branches
  <2>8. op # "compensate"
    BY <2>1
  <2> QED BY <1>1, <1>c, <2>3, <2>4, <2>5, <2>6, <2>7, <2>8 DEF Ready
<1>5. CASE phase[o] = "compensating"
  <2>1. op = "compensate" /\ Acted(o, i) /\ ~Undone(o, i)
    BY <1>1, <1>5 DEF Skipped, Acted, Undone
  <2>2. /\ \A j \in Branches : j < i => Acted(o, j) /\ ~Undone(o, j)
        /\ \A j \in Branches : j > i /\ Acted(o, j) => Undone(o, j)
    BY <1>1, <1>5 DEF OrderInv, PhaseMatchesRows
  <2>3. i = 2 => reservations[o].status = "reserved"
    BY <1>1, <2>1, <2>2 DEF OrderInv, ReservationMatchesRows, ReservationStatus, Branches
  <2>4. i = 3 => ledger[o]["debit"] = DebitEntry(p) /\ ledger[o]["refund"] = NoEntry
    BY <1>1, <1>r, <2>1 DEF OrderInv, LedgerMatchesRows, RowsOwn
  <2>5. i = 4 => reservations[o].status = "confirmed"
    BY <1>1, <2>1, <2>2 DEF OrderInv, ReservationMatchesRows, ReservationStatus, Branches
  <2>6. op # "action"
    BY <2>1
  <2> QED BY <1>1, <1>c, <2>3, <2>4, <2>5, <2>6 DEF Ready
<1> QED BY <1>1, <1>4, <1>5

(* A ready call replies "refused" for a shortage only, and never fails.    *)
LEMMA RefusalIsShortage ==
  ASSUME SagaInv, NEW o \in OrderIds, NEW r \in Results, CallReturns(o, r), r # "ok",
         Ready(step[o], CurrentOp(o), payload[o])
  PROVE  /\ phase[o] = "acting" /\ r = "refused"
         /\ \/ /\ step[o] = 2
               /\ ~(inventory[payload[o].product]["available"] >= payload[o].quantity)
            \/ step[o] = 3 /\ ~(balance[payload[o].user] >= payload[o].total)
<1> DEFINE i == step[o]
           op == CurrentOp(o)
           p == payload[o]
<1>1. /\ i \in Branches
      /\ phase[o] \in {"acting", "compensating"}
      /\ op = (IF phase[o] = "acting" THEN "action" ELSE "compensate")
      /\ p.order = o
  BY DEF SagaInv, OrderInv, PhaseMatchesRows, Running, CurrentOp, PayloadOwn, CallReturns
<1>2. Operation(i, op, p, r)
  BY DEF CallReturns, branch
<1>3. SagaInv /\ NoReservation.status = "none" /\ NoOrder.status = "none"
  BY DEF NoReservation, NoOrder
<1>4. ASSUME op = "action", i = 1 PROVE FALSE
  BY <1>1, <1>2, <1>4 DEF Ready, Operation, OrderBranch, InventoryBranch, PointsBranch, prepareOrder
<1>5. ASSUME op = "action", i = 2
      PROVE  r = "refused" /\ ~(inventory[p.product]["available"] >= p.quantity)
  <2>1. reserveInventoryTx(p, r)
    BY <1>2, <1>5 DEF Operation, OrderBranch, InventoryBranch, PointsBranch
  <2> QED BY <1>1, <1>5, <2>1 DEF reserveInventoryTx, Ready
<1>6. ASSUME op = "action", i = 3
      PROVE  r = "refused" /\ ~(balance[p.user] >= p.total)
  <2>1. debitPointsTx(p, r)
    BY <1>2, <1>6 DEF Operation, OrderBranch, InventoryBranch, PointsBranch
  <2> QED BY <1>1, <1>6, <2>1 DEF debitPointsTx, Ready
<1>7. ASSUME op = "action", i = 4 PROVE FALSE
  <2>1. confirmInventoryTx(p, r)
    BY <1>2, <1>7 DEF Operation, OrderBranch, InventoryBranch, PointsBranch
  <2> QED BY <1>1, <1>3, <1>7, <2>1 DEF confirmInventoryTx, Settle, Missing, Ready, Settleable
<1>8. ASSUME op = "action", i = 5 PROVE FALSE
  BY <1>1, <1>2, <1>3, <1>8
     DEF Ready, Operation, OrderBranch, InventoryBranch, PointsBranch, confirmOrder
<1>9. ASSUME op = "compensate" PROVE FALSE
  <2>1. CASE i \in {1, 5}
    BY <1>2, <1>9, <2>1 DEF Operation, OrderBranch, InventoryBranch, PointsBranch, cancelOrder
  <2>2. CASE i = 2
    <3>1. releaseInventoryTx(p, r)
      BY <1>2, <1>9, <2>2 DEF Operation, OrderBranch, InventoryBranch, PointsBranch
    <3> QED BY <1>1, <1>3, <1>9, <2>2, <3>1
            DEF releaseInventoryTx, Settle, Missing, Ready, Settleable
  <2>3. CASE i = 3
    BY <1>1, <1>2, <1>9, <2>3
       DEF Ready, Operation, OrderBranch, InventoryBranch, PointsBranch, refundPointsTx
  <2>4. CASE i = 4
    <3>1. unconfirmInventoryTx(p, r)
      BY <1>2, <1>9, <2>4 DEF Operation, OrderBranch, InventoryBranch, PointsBranch
    <3> QED BY <1>1, <1>3, <1>9, <2>4, <3>1
            DEF unconfirmInventoryTx, Settle, Missing, Ready, Settleable
  <2> QED BY <1>1, <2>1, <2>2, <2>3, <2>4 DEF Branches
<1> QED BY <1>1, <1>4, <1>5, <1>6, <1>7, <1>8, <1>9 DEF Branches

(* For any number of sagas, late requests and lost replies, the server's   *)
(* current call is always ready: no compensation finds the row it has to   *)
(* undo missing, settled by another request or not covered by its counter. *)
THEOREM SagaCallsReady == Spec => []CallsReady
<1>1. Init => RowsInv
  BY DEF Init, InventoryInit, PointsInit, RowsInv, RowsOwn, LedgerOps
<1>2. Spec => []RowsInv
  BY <1>1, RowsStep, SagaInvariant, PTL DEF Spec
<1>3. Spec => []SettleCovered
  <2>1. CountersMatchRows /\ SettleCovered => SettleCovered
    OBVIOUS
  <2> QED BY <2>1, SagaUsesInventory, InventoryCountersExact, PTL
<1>4. SagaInv /\ RowsInv /\ SettleCovered => CallsReady
  BY ReadyCall DEF CallsReady
<1> QED BY <1>2, <1>3, <1>4, SagaInvariant, PTL

(* What a reply other than success means: whenever the server's call       *)
(* returns one, an action asked for stock or points that were not there.   *)
THEOREM SagaTurnsOnShortage ==
  Spec => [][\A o \in OrderIds, r \in Results :
               CallReturns(o, r) /\ r # "ok" =>
                 /\ phase[o] = "acting" /\ r = "refused"
                 /\ \/ /\ step[o] = 2
                       /\ ~(inventory[payload[o].product]["available"] >= payload[o].quantity)
                    \/ step[o] = 3 /\ ~(balance[payload[o].user] >= payload[o].total)]_vars
<1> DEFINE Shortage(o, r) ==
             CallReturns(o, r) /\ r # "ok" =>
               /\ phase[o] = "acting" /\ r = "refused"
               /\ \/ /\ step[o] = 2
                     /\ ~(inventory[payload[o].product]["available"] >= payload[o].quantity)
                  \/ step[o] = 3 /\ ~(balance[payload[o].user] >= payload[o].total)
<1>1. ASSUME SagaInv, CallsReady, NEW o \in OrderIds, NEW r \in Results PROVE Shortage(o, r)
  <2> SUFFICES ASSUME CallReturns(o, r), r # "ok" PROVE Shortage(o, r)
    OBVIOUS
  <2>1. Ready(step[o], CurrentOp(o), payload[o])
    BY <1>1 DEF CallsReady, CallReturns, branch
  <2> QED BY <1>1, <2>1, RefusalIsShortage
<1>2. SagaInv /\ CallsReady /\ [Next]_vars
        => [\A o \in OrderIds, r \in Results : Shortage(o, r)]_vars
  BY <1>1
<1> QED BY <1>2, SagaInvariant, SagaCallsReady, PTL DEF Spec

(* Under the saga, too, the counters are the sums of the rows and no point *)
(* is created or lost.                                                     *)
THEOREM SagaConserves == Spec => [](CountersMatchRows /\ PointsConserved)
<1>1. CountersMatchRows /\ SettleCovered => CountersMatchRows
  OBVIOUS
<1> QED BY <1>1, SagaUsesInventory, SagaUsesPoints, InventoryCountersExact,
           PointsConservedAlways, PTL

(* When no saga runs, no unit is reserved: neither a lost reply nor a late *)
(* request leaves stock behind that nobody holds.                          *)
THEOREM SagaLeaksNoStock == Spec => []NoReservedLeak
<1>1. SagaInv /\ CountersMatchRows => NoReservedLeak
  <2> SUFFICES ASSUME SagaInv, CountersMatchRows, \A o \in OrderIds : ~Running(o),
                      NEW p \in Products
               PROVE  inventory[p]["reserved"] = 0
    BY DEF NoReservedLeak
  <2>1. ASSUME NEW o \in OrderIds PROVE reservations[o].status # "reserved"
    <3>1. OrderInv(o) /\ phase[o] \in {"none", "succeeded", "aborted"}
      BY DEF SagaInv, TypeOK, Phases, Running
    <3>2. CASE phase[o] = "none"
      <4>1. ~Acted(o, 2)
        BY <3>1, <3>2 DEF OrderInv, PhaseMatchesRows, Branches, Ops
      <4> QED BY <3>1, <4>1 DEF OrderInv, ReservationMatchesRows, NoReservation
    <3>3. CASE phase[o] \in {"succeeded", "aborted"}
      BY <3>3, AtomicAtEnd DEF SagaAtomic, ReservationStatus
    <3> QED BY <3>1, <3>2, <3>3
  <2>2. DOMAIN Held(p, "reserved") = {}
    BY <2>1 DEF Held
  <2>3. Units(Held(p, "reserved")) = {}
    BY <2>2 DEF Units
  <2>4. Total(Held(p, "reserved")) = 0
    BY <2>3, FS_EmptySet DEF Total
  <2> QED BY <2>4 DEF CountersMatchRows
<1>2. CountersMatchRows /\ PointsConserved => CountersMatchRows
  OBVIOUS
<1> QED BY <1>1, <1>2, SagaInvariant, SagaConserves, PTL
=============================================================================
