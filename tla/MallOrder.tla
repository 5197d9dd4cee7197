----------------------------- MODULE MallOrder -----------------------------
(***************************************************************************)
(* The order branch of the mall service: one row per order id.             *)
(***************************************************************************)
EXTENDS MallModel

VARIABLE orders   \* order -> order row, or NoOrder

NoOrder == [status |-> "none"]
Order ==
  [status : {"pending", "confirmed", "compensated"},
   product : Products, quantity : Quantities, total : Amounts]

OrderTypeOK == orders \in [OrderIds -> Order \cup {NoOrder}]

OrderInit == orders = [o \in OrderIds |-> NoOrder]

----------------------------------------------------------------------------
prepareOrder(p, r) ==
  LET row == orders[p.order]
      same == /\ row.product = p.product
              /\ row.quantity = p.quantity
              /\ row.total = p.total
  IN
  \/ /\ row = NoOrder
     /\ r = "ok"
     /\ orders' = [orders EXCEPT ![p.order] =
                     [status |-> "pending", product |-> p.product,
                      quantity |-> p.quantity, total |-> p.total]]
  \/ /\ row # NoOrder
     /\ r = IF same THEN "ok" ELSE "refused"
     /\ UNCHANGED orders

\* Mutant: only a pending order is cancelled.
cancelPending(p, r) ==
  /\ r = "ok"
  /\ orders' = IF orders[p.order].status # "pending" THEN orders
               ELSE [orders EXCEPT ![p.order].status = "compensated"]

\* Mutant: a confirmed order is no longer cancelled, the call fails.
cancelRefused(p, r) ==
  LET row == orders[p.order] IN
  /\ r = IF row.status = "confirmed" THEN "error" ELSE "ok"
  /\ orders' = IF row.status # "pending" THEN orders
               ELSE [orders EXCEPT ![p.order].status = "compensated"]

\* The update matches every status but compensated, a confirmed order included.
cancelOrder(p, r) ==
  /\ r = "ok"
  /\ orders' = IF orders[p.order] = NoOrder THEN orders
               ELSE [orders EXCEPT ![p.order].status = "compensated"]

confirmOrder(p, r) ==
  LET row == orders[p.order] IN
  \/ /\ row.status = "pending"
     /\ r = "ok"
     /\ orders' = [orders EXCEPT ![p.order].status = "confirmed"]
  \/ /\ row.status # "pending"
     /\ r = IF row.status = "confirmed" THEN "ok" ELSE "error"
     /\ UNCHANGED orders
=============================================================================
