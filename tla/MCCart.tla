------------------------------- MODULE MCCart -------------------------------
(* Three requests at once, for two Variants.  Requests are interchangeable, so
   one order of each three operations is enough; at most one of the three is
   of the rarer kinds. *)
EXTENDS Cart, Sequences, TLC

CONSTANTS v1, v2, r1, r2, r3

MCOp(kind, variant, quantity) == [kind |-> kind, variant |-> variant, quantity |-> quantity]
Common == <<MCOp("add", v1, 1), MCOp("checkout", v1, 0)>>
Rare   == {MCOp("add", v2, 1), MCOp("set", v1, 1), MCOp("remove", v1, 0), MCOp("save", v1, 1),
           MCOp("open", v1, 0), MCOp("delete", v1, 0)}
MCOps  == {Common[i] : i \in DOMAIN Common} \cup Rare

MCInit ==
  /\ Init
  /\ \E i, j \in DOMAIN Common :
       /\ i <= j /\ op[r1] = Common[i] /\ op[r2] = Common[j]
       /\ op[r3] \in Rare \cup {Common[k] : k \in j..Len(Common)}
MCSpec == MCInit /\ [][Next]_vars /\ Fairness
=============================================================================
