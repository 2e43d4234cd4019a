-------------------------------- MODULE Pay --------------------------------
(***************************************************************************)
(* Pay (ADR-0006): a Customer presses Pay on a pending Order and is sent   *)
(* to a Stripe Checkout Session on the Store's own account.                *)
(*                                                                         *)
(* Several Pays of one Order run at once (two tabs, a double click, two    *)
(* server processes).  Each runs startCheckout (payments/src/checkout.ts): *)
(* a few database transactions and Stripe requests, with nothing locked in *)
(* between.  Every await of the code is a boundary between two actions.    *)
(* A database transaction is one action: the three that write (reserve,    *)
(* end, record) are single guarded UPDATE statements of one row.           *)
(*                                                                         *)
(* The webhook appears here only by its effect on the Order and on the     *)
(* Payment (WebhookRecords, RefundEnds); module Webhook models how it gets *)
(* there.  Orders here are chargeable (well-formed lines, a total within   *)
(* Stripe's limits): that never changes after the Order is placed, and a   *)
(* Pay of any other Order ends at its assessment.                          *)
(***************************************************************************)
EXTENDS Naturals, FiniteSets

CONSTANTS
  Orders,       \* Orders of one Store
  Pays,         \* server requests that run startCheckout, one at a time each
  OrderOf,      \* the Order a request pays for
  MaxAttempts,  \* bound on the Checkout attempts of an Order
  MaxFaults,    \* bound on the failures, timeouts and expiries of a behaviour
  Rounds,       \* ROUNDS: how often Pay looks again before it gives up
  NoSession     \* checkout_session_id IS NULL

ASSUME PayAssumption ==
  /\ OrderOf \in [Pays -> Orders]
  /\ MaxAttempts \in Nat /\ MaxFaults \in Nat /\ Rounds \in Nat \ {0}
  /\ NoSession \notin Orders \X (1..MaxAttempts)

(***************************************************************************)
(* A session is named by the idempotency key it was created with, because  *)
(* Stripe makes at most one session per key: `checkout:<Order>:<attempt>`. *)
(***************************************************************************)
Sessions == Orders \X (1..MaxAttempts)
Key(o, a) == <<o, a>>

VARIABLES
  paymentStatus, \* orders.payment_status
  checkout,      \* orders.checkout_attempt, _session_id, and whether the lease runs
  stock,         \* the catalog and stock behind the Order's lines
  account,       \* the Store's payment account, as last read from Stripe
  payment,       \* payments.status of the session's PaymentIntent
  session,       \* Stripe: what became of the session (or of its key)
  delivered,     \* the sessions whose URL a Customer was given
  pay,           \* the running Pays
  faults         \* how many of MaxFaults have happened

db     == <<paymentStatus, checkout, payment>>
world  == <<stock, account>>
vars   == <<db, world, session, delivered, pay, faults>>

(***************************************************************************)
(* Stripe's answers about a key: no request has reached Stripe; one is     *)
(* being run; Stripe kept an error for it; or the session's state, where   *)
(* processing, failed and paid are the states of a complete session whose  *)
(* payment is delayed, failed or canceled, or made.                        *)
(***************************************************************************)
SessionStatus == {"none", "creating", "error",
                  "open", "expired", "gone", "processing", "failed", "paid"}
PaymentRecord == {"none", "paid", "refund_due", "refunded", "refund_failed"}

PayStep == {"idle", "readOrder", "readAccount", "retrieve", "readPayment",
            "reserve", "create", "awaiting", "end", "record", "redirect"}

Idle == [pc |-> "idle", round |-> 0, attempt |-> 0, session |-> NoSession,
         inFlight |-> FALSE, blocked |-> FALSE, enabled |-> FALSE,
         resent |-> FALSE]

PayState == [pc : PayStep, round : 0..Rounds, attempt : 0..MaxAttempts,
             session : Sessions \cup {NoSession}, inFlight : BOOLEAN,
             blocked : BOOLEAN, enabled : BOOLEAN, resent : BOOLEAN]

TypeOK ==
  /\ paymentStatus \in [Orders -> {"pending", "paid"}]
  /\ checkout \in [Orders -> [attempt : 0..MaxAttempts,
                              session : Sessions \cup {NoSession},
                              leased : BOOLEAN]]
  /\ stock \in [Orders -> {"available", "short", "deleted"}]
  /\ account \in {"none", "disabled", "enabled"}
  /\ payment \in [Sessions -> PaymentRecord]
  /\ session \in [Sessions -> SessionStatus]
  /\ delivered \subseteq Sessions
  /\ pay \in [Pays -> PayState]
  /\ faults \in 0..MaxFaults

Init ==
  /\ paymentStatus = [o \in Orders |-> "pending"]
  /\ checkout = [o \in Orders |->
                   [attempt |-> 0, session |-> NoSession, leased |-> FALSE]]
  /\ stock = [o \in Orders |-> "available"]
  /\ account = "none"
  /\ payment = [s \in Sessions |-> "none"]
  /\ session = [s \in Sessions |-> "none"]
  /\ delivered = {}
  /\ pay = [p \in Pays |-> Idle]
  /\ faults = 0

Fault == faults < MaxFaults /\ faults' = faults + 1

-----------------------------------------------------------------------------
(* A Pay.                                                                  *)

Become(p, r) == pay' = [pay EXCEPT ![p] = r]
Finish(p)    == Become(p, Idle)
Goto(p, pc)  == Become(p, [pay[p] EXCEPT !.pc = pc])

MoreRounds(p) == pay[p].round < Rounds

(* The next round, or `in_progress` after the last one. *)
LookAgain(p) ==
  \/ /\ MoreRounds(p)
     /\ Become(p, [Idle EXCEPT !.pc = "readOrder", !.round = pay[p].round + 1])
  \/ /\ ~MoreRounds(p)
     /\ Finish(p)

Begin(p) ==
  /\ pay[p].pc = "idle"
  /\ Become(p, [Idle EXCEPT !.pc = "readOrder", !.round = 1])
  /\ UNCHANGED <<db, world, session, delivered, faults>>

(* Mutant: the current attempt counts as in flight however old it is. *)
InFlightForever(o) == checkout[o].session = NoSession /\ checkout[o].attempt > 0

(* An attempt whose create may still be running: Pay shares it. *)
InFlight(o) == checkout[o].session = NoSession /\ checkout[o].leased

(* getOrderForCheckout: the Order, its lines with their live stock, and the
   state of its current attempt, in one transaction. *)
ReadOrder(p) ==
  LET o == OrderOf[p] IN
  /\ pay[p].pc = "readOrder"
  /\ \/ /\ paymentStatus[o] # "pending"
        /\ Finish(p)
     \/ /\ paymentStatus[o] = "pending"
        /\ Become(p, [pay[p] EXCEPT
             !.pc = "readAccount",
             !.attempt = checkout[o].attempt,
             !.session = checkout[o].session,
             !.inFlight = InFlight(o),
             !.blocked = stock[o] # "available"])
  /\ UNCHANGED <<db, world, session, delivered, faults>>

(* The end of assess: what Pay does with everything it read, r.  open says
   that Stripe reported the recorded session open. *)
Assessed(p, r, open) ==
  LET chargeable == r.enabled /\ ~r.blocked
      shared     == r.session = NoSession /\ r.inFlight IN
  \/ ~chargeable /\ Finish(p)
  \/ chargeable /\ open /\ Become(p, [r EXCEPT !.pc = "redirect"])
  \/ chargeable /\ ~open /\ shared /\ Become(p, [r EXCEPT !.pc = "create"])
  \/ chargeable /\ ~open /\ ~shared /\ Become(p, [r EXCEPT !.pc = "reserve"])

(* getPaymentAccount; Stripe is asked only about a recorded session. *)
ReadAccount(p) ==
  LET r == [pay[p] EXCEPT !.enabled = account = "enabled"] IN
  /\ pay[p].pc = "readAccount"
  /\ \/ /\ r.session # NoSession /\ account # "none"
        /\ Become(p, [r EXCEPT !.pc = "retrieve"])
     \/ /\ r.session = NoSession \/ account = "none"
        /\ Assessed(p, r, FALSE)
  /\ UNCHANGED <<db, world, session, delivered, faults>>

(* Mutant: a complete session that is not paid yet can be replaced. *)
DeadOrUnpaid == {"expired", "gone", "failed", "processing"}

(* The session will take no money any more, and took none. *)
Dead == {"expired", "gone", "failed"}

(* recordedSession: what Stripe says of the recorded session. *)
Retrieve(p) ==
  LET status == session[pay[p].session] IN
  /\ pay[p].pc = "retrieve"
  /\ \/ status \in Dead /\ Assessed(p, pay[p], FALSE)
     \/ status = "open" /\ Assessed(p, pay[p], TRUE)
     \/ status = "processing" /\ Finish(p)
     \/ status = "paid" /\ Goto(p, "readPayment")
  /\ UNCHANGED <<db, world, session, delivered, faults>>

(* Mutants: a refund that failed, and a payment not recorded yet, let the
   Customer pay again. *)
GaveUpMoney(s)    == payment[s] \in {"refunded", "refund_failed"}
NotTakenYet(s)    == payment[s] \in {"refunded", "none"}
GaveMoneyBack(s)  == payment[s] = "refunded"

(* A paid session: only a Payment that was refunded lets Pay go on. *)
ReadPayment(p) ==
  LET s == pay[p].session IN
  /\ pay[p].pc = "readPayment"
  /\ \/ GaveMoneyBack(s) /\ Assessed(p, pay[p], FALSE)
     \/ ~GaveMoneyBack(s) /\ Finish(p)
  /\ UNCHANGED <<db, world, session, delivered, faults>>

(* Mutant: the session that was read is not compared. *)
ReservableBlindly(p) ==
  /\ paymentStatus[OrderOf[p]] = "pending"
  /\ checkout[OrderOf[p]].attempt = pay[p].attempt

(* The Order is still pending with the attempt and session this Pay read. *)
Reservable(p) ==
  /\ paymentStatus[OrderOf[p]] = "pending"
  /\ checkout[OrderOf[p]].attempt = pay[p].attempt
  /\ checkout[OrderOf[p]].session = pay[p].session

(* reserveCheckoutAttempt: one guarded UPDATE. *)
Reserve(p) ==
  LET o == OrderOf[p] IN
  /\ pay[p].pc = "reserve"
  /\ \/ /\ Reservable(p)
        /\ checkout[o].attempt < MaxAttempts
        /\ checkout' = [checkout EXCEPT ![o] =
             [attempt |-> checkout[o].attempt + 1, session |-> NoSession,
              leased |-> TRUE]]
        /\ Become(p, [pay[p] EXCEPT !.pc = "create", !.session = NoSession,
                                    !.attempt = checkout[o].attempt + 1])
     \/ /\ ~Reservable(p)
        /\ LookAgain(p)
        /\ UNCHANGED checkout
  /\ UNCHANGED <<paymentStatus, payment, world, session, delivered, faults>>

(* The create request reaches Stripe.  A key Stripe is still running is
   answered 409 (`in_progress`); one it has run gets its kept answer. *)
Create(p) ==
  LET k == Key(OrderOf[p], pay[p].attempt) IN
  /\ pay[p].pc = "create"
  /\ \/ /\ session[k] = "creating"
        /\ Finish(p)
        /\ UNCHANGED session
     \/ /\ session[k] # "creating"
        /\ session' = [session EXCEPT ![k] = IF @ = "none" THEN "creating" ELSE @]
        /\ Goto(p, "awaiting")
  /\ UNCHANGED <<db, world, delivered, faults>>

(* Mutant: Pay waits on when Stripe answers with an error. *)
AnsweredWithSession(p) ==
  LET k == Key(OrderOf[p], pay[p].attempt) IN
  /\ pay[p].pc = "awaiting"
  /\ session[k] \notin {"creating", "error"}
  /\ Become(p, [pay[p] EXCEPT !.pc = "record", !.session = k])
  /\ UNCHANGED <<db, world, session, delivered, faults>>

(* Stripe's answer to the create arrives: the session, or the kept error. *)
Answered(p) ==
  LET k == Key(OrderOf[p], pay[p].attempt) IN
  /\ pay[p].pc = "awaiting"
  /\ session[k] # "creating"
  /\ \/ session[k] = "error" /\ Goto(p, "end")
     \/ /\ session[k] # "error"
        /\ Become(p, [pay[p] EXCEPT !.pc = "record", !.session = k])
  /\ UNCHANGED <<db, world, session, delivered, faults>>

(* The create fails for this Pay: a timeout or a lost answer (Stripe may
   well have run it), or a request Stripe refused without running it. *)
CreateFails(p) ==
  /\ pay[p].pc \in {"create", "awaiting"}
  /\ Goto(p, "end")
  /\ Fault
  /\ UNCHANGED <<db, world, session, delivered>>

(* The SDK's one resend, with the same key, after a dropped connection. *)
Resend(p) ==
  /\ pay[p].pc = "awaiting" /\ ~pay[p].resent
  /\ Become(p, [pay[p] EXCEPT !.pc = "create", !.resent = TRUE])
  /\ Fault
  /\ UNCHANGED <<db, world, session, delivered>>

(* endCheckoutAttempt, then the error is thrown. *)
End(p) ==
  LET o == OrderOf[p]
      current == /\ checkout[o].attempt = pay[p].attempt
                 /\ checkout[o].session = NoSession IN
  /\ pay[p].pc = "end"
  /\ checkout' = [checkout EXCEPT ![o].leased = IF current THEN FALSE ELSE @]
  /\ Finish(p)
  /\ UNCHANGED <<paymentStatus, payment, world, session, delivered, faults>>

(* recordCheckoutSession: one UPDATE, only while the Order is pending and
   the attempt is its current one, without another session. *)
Recordable(o, a, s) ==
  /\ paymentStatus[o] = "pending"
  /\ checkout[o].attempt = a
  /\ checkout[o].session \in {NoSession, s}

Record(p) ==
  LET o == OrderOf[p] IN
  /\ pay[p].pc = "record"
  /\ \/ /\ Recordable(o, pay[p].attempt, pay[p].session)
        /\ checkout' = [checkout EXCEPT ![o].session = pay[p].session]
        /\ Goto(p, "redirect")
     \/ /\ ~Recordable(o, pay[p].attempt, pay[p].session)
        /\ LookAgain(p)
        /\ UNCHANGED checkout
  /\ UNCHANGED <<paymentStatus, payment, world, session, delivered, faults>>

(* The Customer is given the session's URL. *)
Redirect(p) ==
  /\ pay[p].pc = "redirect"
  /\ delivered' = delivered \cup {pay[p].session}
  /\ Finish(p)
  /\ UNCHANGED <<db, world, session, faults>>

(* A database or Stripe failure is thrown, or the server process dies: what
   was committed stays.  This also stands for an endCheckoutAttempt that
   fails, which only logs. *)
Abandon(p) ==
  /\ pay[p].pc # "idle"
  /\ Finish(p)
  /\ Fault
  /\ UNCHANGED <<db, world, session, delivered>>

PayProgress(p) ==
  \/ ReadOrder(p) \/ ReadAccount(p) \/ Retrieve(p) \/ ReadPayment(p)
  \/ Reserve(p) \/ Create(p) \/ Answered(p) \/ End(p) \/ Record(p) \/ Redirect(p)

PayMishap(p) == CreateFails(p) \/ Resend(p) \/ Abandon(p)

-----------------------------------------------------------------------------
(* Time, Stripe, the Customer at Stripe, the Merchant and the webhook.     *)

(* CHECKOUT_ATTEMPT_LEASE_SECONDS pass. *)
LeaseLapses(o) ==
  /\ checkout[o].leased
  /\ checkout' = [checkout EXCEPT ![o].leased = FALSE]
  /\ Fault
  /\ UNCHANGED <<paymentStatus, payment, world, session, delivered, pay>>

SessionMoves(s, from, to) ==
  /\ session[s] \in from
  /\ session' = [session EXCEPT ![s] = to]
  /\ UNCHANGED <<db, world, delivered, pay>>

StripeCreates(s) == SessionMoves(s, {"creating"}, "open") /\ UNCHANGED faults
StripeErrors(s)  == SessionMoves(s, {"creating"}, "error") /\ Fault
Expire(s)        == SessionMoves(s, {"open"}, "expired") /\ Fault
Vanish(s)        == SessionMoves(s, {"open", "expired"}, "gone") /\ Fault

(* Only someone who was given the session's URL can complete it. *)
CustomerPays(s) ==
  /\ s \in delivered
  /\ \E to \in {"paid", "processing"} : SessionMoves(s, {"open"}, to)
  /\ UNCHANGED faults
DelayedSucceeds(s) == SessionMoves(s, {"processing"}, "paid") /\ UNCHANGED faults
DelayedFails(s)    == SessionMoves(s, {"processing"}, "failed") /\ Fault

(* recordStripePayment for a session's payment, seen from here: the Order is
   paid by it, or the Payment is due a refund. *)
WebhookRecords(s) ==
  LET o == s[1]
      honoured == paymentStatus[o] = "pending" /\ stock[o] = "available" IN
  /\ session[s] = "paid" /\ payment[s] = "none"
  /\ \/ /\ honoured
        /\ paymentStatus' = [paymentStatus EXCEPT ![o] = "paid"]
        /\ payment' = [payment EXCEPT ![s] = "paid"]
     \/ /\ ~honoured
        /\ payment' = [payment EXCEPT ![s] = "refund_due"]
        /\ UNCHANGED paymentStatus
  /\ UNCHANGED <<checkout, world, session, delivered, pay, faults>>

(* markPaymentRefunded or markPaymentRefundFailed. *)
RefundEnds(s) ==
  /\ payment[s] = "refund_due"
  /\ \E to \in {"refunded", "refund_failed"} :
       payment' = [payment EXCEPT ![s] = to]
  /\ UNCHANGED <<paymentStatus, checkout, world, session, delivered, pay, faults>>

(* Other Orders take the stock, or the Product is deleted. *)
StockRunsOut(o) ==
  /\ stock[o] = "available"
  /\ \E to \in {"short", "deleted"} : stock' = [stock EXCEPT ![o] = to]
  /\ Fault
  /\ UNCHANGED <<db, account, session, delivered, pay>>

Restock(o) ==
  /\ stock[o] = "short"
  /\ stock' = [stock EXCEPT ![o] = "available"]
  /\ UNCHANGED <<db, account, session, delivered, pay, faults>>

(* recordStripeAccountStatus: Stripe's latest word on the account.  Only a
   connected account has a status; it is never disconnected. *)
AccountChanges ==
  /\ \E to \in {"disabled", "enabled"} : to # account /\ account' = to
  /\ UNCHANGED <<db, stock, session, delivered, pay, faults>>

Environment ==
  \/ AccountChanges
  \/ \E o \in Orders : LeaseLapses(o) \/ StockRunsOut(o) \/ Restock(o)
  \/ \E s \in Sessions :
       \/ StripeCreates(s) \/ StripeErrors(s) \/ Expire(s) \/ Vanish(s)
       \/ CustomerPays(s) \/ DelayedSucceeds(s) \/ DelayedFails(s)
       \/ WebhookRecords(s) \/ RefundEnds(s)

Next ==
  \/ \E p \in Pays : Begin(p) \/ PayProgress(p) \/ PayMishap(p)
  \/ Environment

Spec == Init /\ [][Next]_vars

(***************************************************************************)
(* A running Pay goes on and Stripe answers the requests it has taken in   *)
(* (the SDK's timeout ends the wait otherwise).  Customers who want their  *)
(* Order press Pay again: that assumption is part of PersistentSpec only.  *)
(***************************************************************************)
Fairness ==
  /\ \A p \in Pays : WF_vars(PayProgress(p))
  /\ \A s \in Sessions : WF_vars(StripeCreates(s))
FairSpec == Spec /\ Fairness
PersistentSpec == FairSpec /\ \A p \in Pays : WF_vars(Begin(p))
-----------------------------------------------------------------------------
(* Properties.                                                             *)

SameOrder(s, t) == s[1] = t[1]

(* A Customer can still pay the session. *)
Payable(s) == s \in delivered /\ session[s] = "open"

(* The session has taken money, or is taking it, that was not given back. *)
Holds(s) == session[s] \in {"processing", "paid"} /\ payment[s] # "refunded"

(* The session will never take money again, and holds none. *)
Spent(s) == \/ session[s] \in {"expired", "gone", "failed"}
            \/ session[s] = "paid" /\ payment[s] = "refunded"

(* However many Pays run, and whatever they read too early, an Order never
   has two sessions a Customer could pay (the claim above
   reserveCheckoutAttempt, db/src/index.ts). *)
OneLiveSession ==
  \A s, t \in Sessions : SameOrder(s, t) /\ Payable(s) /\ Payable(t) => s = t

(* While one session holds the Customer's money, no other session of the
   Order holds money too or could take it: the Customer is never asked to
   pay twice (assess and recordedSession in checkout.ts). *)
MoneyHeldOnce ==
  \A s, t \in Sessions :
    SameOrder(s, t) /\ Holds(s) /\ (Holds(t) \/ Payable(t)) => s = t

(* Money that is held was taken by the session recorded on the Order, also
   once the Order is paid.  getStorefrontOrder reports the payment of the
   recorded session only: money held by another would be invisible. *)
HeldMoneyIsShown ==
  \A s \in Sessions : Holds(s) => checkout[s[1]].session = s

(* A recorded session is cleared only when it is spent, although the step
   that clears it (reserveCheckoutAttempt) does not ask Stripe: what assess
   read some steps before must still be true. *)
ReplacedOnlyWhenSpent ==
  [][\A o \in Orders :
       LET s == checkout[o].session IN
       s # NoSession /\ checkout'[o].session # s => Spent(s)]_vars

(* A Pay is always answered: the rounds of startCheckout end, even when other
   Pays keep moving the Order on. *)
PayIsAnswered == \A p \in Pays : pay[p].pc # "idle" ~> pay[p].pc = "idle"

(* An Order that stays payable is never stuck by what went wrong before (an
   error kept for a key, a crash, a lost answer, a dead session): Customers
   who press Pay again end up with a session that can take, or took, their
   money. *)
Healthy(o) == paymentStatus[o] = "pending" /\ stock[o] = "available" /\ account = "enabled"
HasLiveSession(o) ==
  LET s == checkout[o].session IN s # NoSession /\ (Payable(s) \/ Holds(s))
PayRecovers == \A o \in Orders : <>[]Healthy(o) => <>[]HasLiveSession(o)
=============================================================================
