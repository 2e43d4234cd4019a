------------------------------ MODULE Ledger ------------------------------
(***************************************************************************)
(* What the payment webhook promises about money and stock, with no word   *)
(* of events, deliveries, requests or crashes: every payment a Customer    *)
(* makes for an Order is judged once.  One that can be honoured pays the   *)
(* Order and takes its stock in the same step; any other is owed back, and *)
(* is returned, or left to a person when Stripe refuses.                   *)
(* Module Webhook implements it.                                           *)
(***************************************************************************)
EXTENDS Naturals

CONSTANTS
  Orders, Variants,
  Payments,      \* the payments made for this Store's Orders
  OrderOf,       \* the Order a payment names, or NoOrder
  NoOrder,
  Matching,      \* the payments whose amount and currency are their Order's
  Lines,         \* how many of each Variant an Order takes
  InitialStock

VARIABLES
  order,         \* is the Order pending or paid?
  inventory, deleted,
  fate           \* what became of a payment's money

vars == <<order, inventory, deleted, fate>>

Fates == {"none", "held", "sold", "owed", "stuck", "returned"}

Init ==
  /\ order = [o \in Orders |-> "pending"]
  /\ inventory = InitialStock
  /\ deleted = {}
  /\ fate = [p \in Payments |-> "none"]

Covered(o) == \A v \in Variants :
  Lines[o][v] > 0 => v \notin deleted /\ inventory[v] >= Lines[o][v]

Honourable(p) ==
  LET o == OrderOf[p] IN
  o # NoOrder /\ order[o] = "pending" /\ p \in Matching /\ Covered(o)

Moves(p, from, to) ==
  /\ fate[p] \in from
  /\ fate' = [fate EXCEPT ![p] = to]

Capture(p) == Moves(p, {"none"}, "held") /\ UNCHANGED <<order, inventory, deleted>>

Honour(p) ==
  LET o == OrderOf[p] IN
  /\ Honourable(p)
  /\ Moves(p, {"held"}, "sold")
  /\ order' = [order EXCEPT ![o] = "paid"]
  /\ inventory' = [v \in Variants |-> inventory[v] - Lines[o][v]]
  /\ UNCHANGED deleted

Decline(p) ==
  /\ ~Honourable(p)
  /\ Moves(p, {"held"}, "owed")
  /\ UNCHANGED <<order, inventory, deleted>>

GivesBack(p, from) ==
  Moves(p, from, "returned") /\ UNCHANGED <<order, inventory, deleted>>
GiveUp(p) ==
  Moves(p, {"owed"}, "stuck") /\ UNCHANGED <<order, inventory, deleted>>

(* A refund may still be made once another attempt was refused. *)
Return(p) == GivesBack(p, {"owed", "stuck"})

DeleteProduct(v) ==
  /\ v \notin deleted
  /\ deleted' = deleted \cup {v}
  /\ UNCHANGED <<order, inventory, fate>>

Judge(p)  == Honour(p) \/ Decline(p)
Settle(p) == GivesBack(p, {"owed"}) \/ GiveUp(p)

Next ==
  \/ \E p \in Payments : Capture(p) \/ Judge(p) \/ Return(p) \/ GiveUp(p)
  \/ \E v \in Variants : DeleteProduct(v)

Safety   == Init /\ [][Next]_vars
Fairness == \A p \in Payments : WF_vars(Judge(p)) /\ WF_vars(Settle(p))
Spec     == Safety /\ Fairness
=============================================================================
