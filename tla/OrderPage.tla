----------------------------- MODULE OrderPage -----------------------------
(***************************************************************************)
(* The Order page while Pays of the Order run: OrderView reads the Order   *)
(* and the Payment of its recorded session (getStorefrontOrder), asks      *)
(* whether Pay would send the Customer to Stripe (getCheckoutAvailability, *)
(* the same assessment as Pay's, in four more reads), and only then        *)
(* decides what to say (describeOrderPayment).  Each read is a step, with  *)
(* anything in between; the page writes nothing.                           *)
(*                                                                         *)
(* One page of one Order, opened again after it was shown.                 *)
(***************************************************************************)
EXTENDS Pay

CONSTANT Viewed  \* the Order whose page it is

ASSUME OrderPageAssumption == Viewed \in Orders

VARIABLE page

Blocks == {"not_pending", "payments_not_set_up", "item_unavailable", "out_of_stock",
           "processing", "refund_pending"}
Notes  == {"none", "returned", "failed", "in_progress"}

(* What getStorefrontOrder answered, what assess has read so far, and the
   answer of getCheckoutAvailability: "available", why not, or "unknown" when
   it failed.  held is history: the sessions of the Order that held money at
   Open. *)
PageState ==
  [pc : {"closed", "order", "payment", "again", "account", "retrieve", "paid", "shown"},
   status : {"pending", "paid"}, session : Sessions \cup {NoSession},
   payment : PaymentRecord, blocked : {"none", "item_unavailable", "out_of_stock"},
   enabled : BOOLEAN, answer : Blocks \cup {"available", "unknown"}, held : SUBSET Sessions]

Closed == [pc |-> "closed", status |-> "pending", session |-> NoSession, payment |-> "none",
           blocked |-> "none", enabled |-> FALSE, answer |-> "unknown", held |-> {}]

PageTypeOK == page \in PageState
PageInit   == Init /\ page = Closed

-----------------------------------------------------------------------------
At(pc)         == page.pc = pc
Turn(p)        == page' = p /\ UNCHANGED vars
Show(p, answer) == Turn([p EXCEPT !.pc = "shown", !.answer = answer,
                                  !.session = NoSession, !.blocked = "none", !.enabled = FALSE])

Open ==
  /\ At("closed")
  /\ Turn([Closed EXCEPT !.pc = "order", !.held = {s \in Sessions : s[1] = Viewed /\ Holds(s)}])
Close == At("shown") /\ Turn(Closed)

(* getStorefrontOrder: the Order's row, then the Payment of its session. *)
ReadStorefrontOrder ==
  /\ At("order")
  /\ Turn([page EXCEPT !.pc = "payment", !.status = paymentStatus[Viewed],
                       !.session = checkout[Viewed].session])

ReadStorefrontPayment ==
  LET found == [page EXCEPT !.payment = IF page.session = NoSession THEN "none" ELSE payment[page.session]] IN
  /\ At("payment")
  /\ \/ found.status = "pending" /\ Turn([found EXCEPT !.pc = "again", !.session = NoSession])
     \/ found.status # "pending" /\ Show(found, "unknown")

(* orderBlock: a line whose Variant was deleted, or is short. *)
OrderBlock(o) ==
  CASE stock[o] = "deleted" -> "item_unavailable"
    [] stock[o] = "short"   -> "out_of_stock"
    [] OTHER                -> "none"

(* assess reads the Order once more, in a transaction of its own. *)
ReadAgain ==
  /\ At("again")
  /\ \/ paymentStatus[Viewed] # "pending" /\ Show(page, "not_pending")
     \/ /\ paymentStatus[Viewed] = "pending"
        /\ Turn([page EXCEPT !.pc = "account", !.session = checkout[Viewed].session,
                             !.blocked = OrderBlock(Viewed)])

(* The end of assess: why Stripe cannot charge the Order now, if it cannot. *)
Assess(p) ==
  Show(p, IF ~p.enabled THEN "payments_not_set_up"
          ELSE IF p.blocked # "none" THEN p.blocked ELSE "available")

(* Mutant: what the Store and the Order allow is looked at first. *)
RecordedLast(p) == p.session # NoSession /\ p.enabled /\ p.blocked = "none"
(* The recorded session first: money in flight or held is what the Customer
   must be told, whatever has changed since. *)
RecordedFirst(p) == p.session # NoSession /\ account # "none"

PageReadAccount ==
  LET p == [page EXCEPT !.enabled = account = "enabled"] IN
  /\ At("account")
  /\ \/ RecordedFirst(p) /\ Turn([p EXCEPT !.pc = "retrieve"])
     \/ ~RecordedFirst(p) /\ Assess(p)

(* recordedSession. *)
PageRetrieve ==
  LET status == session[page.session] IN
  /\ At("retrieve")
  /\ \/ status \in Dead \cup {"open"} /\ Assess(page)
     \/ status = "processing" /\ Show(page, "processing")
     \/ status = "paid" /\ Turn([page EXCEPT !.pc = "paid"])

PageReadPayment ==
  /\ At("paid")
  /\ \/ payment[page.session] = "refunded" /\ Assess(page)
     \/ payment[page.session] \in {"refund_due", "refund_failed"} /\ Show(page, "refund_pending")
     \/ payment[page.session] \in {"none", "paid"} /\ Show(page, "processing")

(* Stripe or the database cannot be reached: the page is shown without. *)
AvailabilityFails == page.pc \in {"again", "account", "retrieve", "paid"} /\ Show(page, "unknown")

PageNext ==
  \/ Open \/ ReadStorefrontOrder \/ ReadStorefrontPayment \/ ReadAgain
  \/ PageReadAccount \/ PageRetrieve \/ PageReadPayment \/ AvailabilityFails \/ Close

ViewedNext == (Next /\ UNCHANGED page) \/ PageNext
PageSpec   == PageInit /\ [][ViewedNext]_<<vars, page>>

-----------------------------------------------------------------------------
(* describeOrderPayment: the notice, and whether Pay is offered. *)
View(notice, payable) == [notice |-> notice, payable |-> payable]

Offered(note) == View(IF note \in {"failed", "in_progress"} THEN note ELSE "none", TRUE)

DescribeAnswer(answer, note) ==
  CASE answer = "available"   -> Offered(note)
    [] answer = "unknown"     -> IF note = "returned" THEN View("confirming", FALSE) ELSE Offered(note)
    [] answer = "processing"  -> View(IF note = "returned" THEN "confirming" ELSE "processing", FALSE)
    [] answer = "not_pending" -> View("none", FALSE)
    [] OTHER                  -> View(answer, FALSE)

Describe(p, note) ==
  IF p.status = "paid" THEN View("paid", FALSE)
  ELSE CASE p.payment = "refund_failed" -> View("refund_failed", FALSE)
         [] p.payment = "refund_due"    -> View("refund_pending", FALSE)
         [] p.payment = "refunded"      -> View("refunded", p.answer \in {"available", "unknown"})
         [] OTHER                       -> DescribeAnswer(p.answer, note)

(* Notices that tell the Customer of money that was taken. *)
TellsOfMoney == {"paid", "refunded", "refund_pending", "refund_failed", "confirming", "processing"}

(* A Customer whose money is held since before the page was opened, and still
   is, is told so and not asked to pay, whatever the URL's note says and
   whatever happened while the page was read.  Two pages say nothing of it:
   one that could not ask Stripe, and one whose Order was paid meanwhile. *)
PageTellsOfHeldMoney ==
  At("shown") /\ page.answer # "unknown" =>
    \A s \in page.held, note \in Notes :
      LET told == Describe(page, note) IN
      Holds(s) => /\ ~told.payable
                  /\ page.answer = "not_pending" \/ told.notice \in TellsOfMoney
=============================================================================
