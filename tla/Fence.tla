------------------------------- MODULE Fence -------------------------------
(***************************************************************************)
(* "THE CONCURRENCY FENCE" of markOrderPaid and recordStripePayment: a     *)
(* payment is judged once, and an Order is paid and its stock taken in one *)
(* step, or neither.  No lock, statement, attempt or connection.           *)
(***************************************************************************)
EXTENDS Naturals

CONSTANTS Orders, Variants, Products, ProductOf, PaymentIntents, OrderOf, Lines, InitialStock

VARIABLES
  paymentStatus,   \* orders.payment_status
  inventory,       \* variants.inventory
  deleted,         \* the Variants that are gone
  payments         \* payments.status, "none" without a row

vars == <<paymentStatus, inventory, deleted, payments>>

Init ==
  /\ paymentStatus = [o \in Orders |-> "pending"]
  /\ inventory = InitialStock
  /\ deleted = {}
  /\ payments = [p \in PaymentIntents |-> "none"]

Sellable(o) ==
  /\ paymentStatus[o] = "pending"
  /\ \A v \in Variants : Lines[o][v] > 0 => v \notin deleted /\ inventory[v] >= Lines[o][v]

Sell(o) ==
  /\ Sellable(o)
  /\ paymentStatus' = [paymentStatus EXCEPT ![o] = "paid"]
  /\ inventory' = [v \in Variants |-> inventory[v] - Lines[o][v]]
  /\ UNCHANGED deleted

Judged(p, verdict) == payments[p] = "none" /\ payments' = [payments EXCEPT ![p] = verdict]

Honour(p)   == Judged(p, "paid") /\ Sell(OrderOf[p])
Decline(p)  == ~Sellable(OrderOf[p]) /\ Judged(p, "refund_due")
               /\ UNCHANGED <<paymentStatus, inventory, deleted>>
MarkPaid(o) == Sell(o) /\ UNCHANGED payments
DeleteProduct(q) ==
  /\ deleted' = deleted \cup {v \in Variants : ProductOf[v] = q}
  /\ UNCHANGED <<paymentStatus, inventory, payments>>

Next ==
  \/ \E p \in PaymentIntents : Honour(p) \/ Decline(p)
  \/ \E o \in Orders : MarkPaid(o)
  \/ \E q \in Products : DeleteProduct(q)

Spec == Init /\ [][Next]_vars
=============================================================================
