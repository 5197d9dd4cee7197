--------------------------- MODULE MallInventory ---------------------------
(***************************************************************************)
(* The inventory service: stock counters per product and one reservation   *)
(* row per order.  Each operation is one SQL transaction that locks the    *)
(* reservation row, so it is one atomic step.  InventorySpec lets callers  *)
(* issue the operations in any order and with any payload, which is what   *)
(* the Kitex methods allow: they run without the saga's barrier.           *)
(***************************************************************************)
EXTENDS MallModel

VARIABLES
  inventory,     \* product -> counter -> units
  reservations   \* order -> reservation row, or NoReservation

inventoryVars == <<inventory, reservations>>

Counters == {"available", "reserved", "sold"}
NoReservation == [status |-> "none"]
Reservation ==
  [status : {"reserved", "confirmed", "released"},
   product : Products, quantity : Quantities]

InventoryTypeOK ==
  /\ inventory \in [Products -> [Counters -> Nat]]
  /\ reservations \in [OrderIds -> Reservation \cup {NoReservation}]

InventoryInit ==
  /\ inventory = [p \in Products |->
                    [c \in Counters |->
                       IF c = "available" THEN InitialStock[p] ELSE 0]]
  /\ reservations = [o \in OrderIds |-> NoReservation]

----------------------------------------------------------------------------
\* UPDATE mall_inventories: q units of a product change from one counter to another.
Move(product, q, from, to) ==
  inventory' = [inventory EXCEPT ![product][from] = @ - q, ![product][to] = @ + q]

SameItem(row, p) == row.product = p.product /\ row.quantity = p.quantity

reserveInventoryTx(p, r) ==
  LET row == reservations[p.order]
      enough == inventory[p.product]["available"] >= p.quantity
  IN
  \/ /\ row = NoReservation /\ enough
     /\ r = "ok"
     /\ Move(p.product, p.quantity, "available", "reserved")
     /\ reservations' = [reservations EXCEPT ![p.order] =
                           [status |-> "reserved", product |-> p.product,
                            quantity |-> p.quantity]]
  \/ /\ row = NoReservation /\ ~enough
     /\ r = "refused"
     /\ UNCHANGED inventoryVars
  \/ /\ row # NoReservation
     /\ r = IF ~SameItem(row, p) THEN "refused"
            ELSE IF row.status = "released" THEN "error" ELSE "ok"
     /\ UNCHANGED inventoryVars

(* The body that release, confirm and unconfirm share once the row is      *)
(* locked: a row whose status is in done is left alone and reported as     *)
(* success, a row in status from is moved to status to together with its   *)
(* units, anything else is an error.                                       *)
Settle(p, r, done, from, to, source, target) ==
  LET row == reservations[p.order]
      ready == row.status = from /\ inventory[p.product][source] >= p.quantity
  IN
  /\ row # NoReservation
  /\ \/ /\ ~SameItem(row, p)
        /\ r = "refused"
        /\ UNCHANGED inventoryVars
     \/ /\ SameItem(row, p) /\ row.status \notin done /\ ready
        /\ r = "ok"
        /\ Move(p.product, p.quantity, source, target)
        /\ reservations' = [reservations EXCEPT ![p.order].status = to]
     \/ /\ SameItem(row, p) /\ (row.status \in done \/ ~ready)
        /\ r = IF row.status \in done THEN "ok" ELSE "error"
        /\ UNCHANGED inventoryVars

\* lockReservation found no row.
Missing(p, r, report) ==
  /\ reservations[p.order] = NoReservation
  /\ r = report
  /\ UNCHANGED inventoryVars

releaseInventoryTx(p, r) ==
  \/ Missing(p, r, "ok")
  \/ Settle(p, r, {"released"}, "reserved", "released", "reserved", "available")

confirmInventoryTx(p, r) ==
  \/ Missing(p, r, "error")
  \/ Settle(p, r, {"confirmed"}, "reserved", "confirmed", "reserved", "sold")

\* Mutant: unconfirm reports success without undoing the confirmation.
unconfirmNothing(p, r) == r = "ok" /\ UNCHANGED inventoryVars

unconfirmInventoryTx(p, r) ==
  \/ Missing(p, r, "ok")
  \/ Settle(p, r, {"reserved", "released"}, "confirmed", "reserved", "sold", "reserved")

----------------------------------------------------------------------------
ApplyInventoryMutation(p, r) ==
  \/ reserveInventoryTx(p, r)
  \/ releaseInventoryTx(p, r)
  \/ confirmInventoryTx(p, r)
  \/ unconfirmInventoryTx(p, r)

InventoryNext == \E p \in SagaPayload, r \in Results : ApplyInventoryMutation(p, r)

InventorySpec == InventoryInit /\ [][InventoryNext]_inventoryVars

----------------------------------------------------------------------------
(* No unit is created or lost, whatever operations run in whatever order   *)
(* and however often each is repeated: the three counters of a product     *)
(* always add up to its initial stock (mallbench: inventory_conserved).    *)
InventoryConserved ==
  \A p \in Products :
    inventory[p]["available"] + inventory[p]["reserved"] + inventory[p]["sold"]
      = InitialStock[p]

\* The quantities of a product that stand in rows of a status.
Held(p, status) ==
  [o \in {x \in OrderIds : reservations[x].status = status /\ reservations[x].product = p}
     |-> reservations[o].quantity]

(* The counters are the sums of the rows: a product has as many reserved   *)
(* units as its reserved rows ask for and as many sold ones as its         *)
(* confirmed rows (mallbench: no_oversell, no_reserved_leak).              *)
CountersMatchRows ==
  \A p \in Products :
    /\ inventory[p]["reserved"] = Total(Held(p, "reserved"))
    /\ inventory[p]["sold"] = Total(Held(p, "confirmed"))

(* A row can be settled: its counter holds the units that the update       *)
(* takes, so the three "inventory invariant violation" errors of release,  *)
(* confirm and unconfirm never happen.                                     *)
SettleCovered ==
  \A o \in OrderIds :
    LET row == reservations[o] IN
    /\ row.status = "reserved" => row.quantity <= inventory[row.product]["reserved"]
    /\ row.status = "confirmed" => row.quantity <= inventory[row.product]["sold"]
=============================================================================
