------------------------------ MODULE MCStores ------------------------------
(* Two requests at once on two Stores, of an Operator, a Merchant who creates
   Stores and a Member who adds domains to them. *)
EXTENDS Stores, TLC

CONSTANTS m1, m2, operator, a, d

MCOps ==
  {op \in AllOps :
     /\ op.kind = "create" => op.user = m1
     /\ op.kind = "domains.manage" => op.user = m2
     /\ op.kind = "operator" => op.user = operator
     /\ op.kind \in {"domains.manage", "visit"} => op.row \in {a, d}
     /\ op.kind = "dns" => op.row = d}

MCSymmetry == Permutations(StoreIds) \cup Permutations(Requests)
=============================================================================
