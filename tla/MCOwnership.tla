----------------------------- MODULE MCOwnership -----------------------------
(* Three transactions at once on two Stores and three Memberships. *)
EXTENDS Ownership, TLC

MCSymmetry == Permutations(Rows) \cup Permutations(Stores) \cup Permutations(Transactions)
=============================================================================
