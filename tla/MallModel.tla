----------------------------- MODULE MallModel -----------------------------
(***************************************************************************)
(* The data of the classroom points mall that its services share: who      *)
(* orders what, how an order is identified, and the payload that travels   *)
(* to every branch of the exchange saga (internal/rpc/mall/domain).        *)
(***************************************************************************)
EXTENDS Integers, FiniteSets

CONSTANTS
  Users,          \* users with a points account
  Requests,       \* client request ids, the idempotency keys of one user
  Products,       \* products with an inventory row
  Quantities,     \* quantities a caller may ask for
  Amounts,        \* amounts of points a mutation may carry
  InitialStock,   \* available units of a product before any order
  InitialPoints   \* balance of a user before any order

ASSUME MallAssumption ==
  /\ Quantities \subseteq Nat \ {0}
  /\ Amounts \subseteq Nat \ {0}
  /\ InitialStock \in [Products -> Nat]
  /\ InitialPoints \in [Users -> Nat]

\* deterministicOrderID hashes (user, request): one order id per pair.
OrderIds == Users \X Requests

SagaPayload ==
  [order : OrderIds, user : Users, product : Products,
   quantity : Quantities, total : Amounts]

(* What a branch operation reports.  "refused" is the class of business    *)
(* errors (insufficient stock or points, idempotency conflict), "error"    *)
(* is every other error.  Both leave the tables unchanged: the transaction *)
(* is rolled back.                                                         *)
Results == {"ok", "refused", "error"}

(* The sum of the amounts in rows of orders: the units they stand for are  *)
(* counted one by one.                                                     *)
Units(amount) == UNION {{o} \X (1..amount[o]) : o \in DOMAIN amount}
Total(amount) == Cardinality(Units(amount))
=============================================================================
