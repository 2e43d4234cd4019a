---------------------------- MODULE MCStockLocks ----------------------------
(* Three calls at once: two payments of one Order, one of another that shares
   its scarce Variants, the deletion of a Product that has both, and two that
   do what the code does not. *)
EXTENDS StockLocks, TLC

CONSTANTS o1, o2, p1, p2, p3, q

MCProductOf == 1 :> q @@ 2 :> q
MCOrderOf   == p1 :> o1 @@ p2 :> o1 @@ p3 :> o2
MCLines     == o1 :> (1 :> 1 @@ 2 :> 1) @@ o2 :> (1 :> 2 @@ 2 :> 1)
MCStock     == 1 :> 2 @@ 2 :> 2
MCOps ==
  [kind : {"payment"}, row : PaymentIntents] \cup
  {[kind |-> "markPaid", row |-> o2], [kind |-> "delete", row |-> q]} \cup OtherOps
=============================================================================
