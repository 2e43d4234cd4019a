----------------------------- MODULE MCWebhook -----------------------------
(* Three payments for two Orders that share a scarce Variant. *)
EXTENDS Webhook, TLC

CONSTANTS o1, o2, v1, v2, p1, p2, p3

MCOrderOf  == p1 :> o1 @@ p2 :> o1 @@ p3 :> o2
MCLines    == o1 :> (v1 :> 1 @@ v2 :> 1) @@ o2 :> (v1 :> 2 @@ v2 :> 0)
MCStock    == v1 :> 2 @@ v2 :> 2
MCSymmetry == Permutations(Workers)

(* Payments with something wrong: p1 is in order, p2 has the wrong amount, p3
   is for an Order the Store does not have, p4 is not shp0's. *)
CONSTANT p4
OddOrderOf == [p \in PaymentIntents |-> IF p \in {p1, p2} THEN o1 ELSE NoOrder]
OddLines   == o1 :> (v1 :> 1)
OddStock   == v1 :> 1
=============================================================================
