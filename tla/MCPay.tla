------------------------------- MODULE MCPay -------------------------------
(* Pay with one Order: Orders share nothing a Pay reads or writes.  Either two
   Pays run, or one Pay while the Order's page is read.  The fairness is about
   both Pays, so it speaks of the first only. *)
EXTENDS OrderPage, TLC

CONSTANTS o1, p1, p2

MCOrders   == {o1}
MCOrderOf  == [p \in Pays |-> o1]

NoPage == [pc |-> "none"]
TwoPays    == page = NoPage /\ Next /\ UNCHANGED page
PayAndPage == page # NoPage /\ ViewedNext /\ pay'[p2] = pay[p2]

MCInit == Init /\ page \in {NoPage, Closed}
MCSpec ==
  /\ MCInit
  /\ [][TwoPays \/ PayAndPage]_<<vars, page>>
  /\ Fairness /\ \A p \in Pays : WF_vars(Begin(p))
=============================================================================
