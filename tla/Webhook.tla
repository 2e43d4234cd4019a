------------------------------ MODULE Webhook ------------------------------
(***************************************************************************)
(* The payment webhook (ADR-0006): Stripe tells shp0 that a Checkout       *)
(* Session was completed, and shp0 pays the Order or gives the money back. *)
(*                                                                         *)
(* Stripe delivers an event until it is answered 200, perhaps several      *)
(* times, several deliveries at once, and in any order.  Each delivery is  *)
(* one run of handleStripeWebhook (payments/src/webhook.ts).  Every await  *)
(* of the code is a boundary between two actions; a database transaction   *)
(* is one action.  recordStripePayment takes the unique key, the Order row *)
(* and the Variant rows before it decides, so its transaction is one too.  *)
(*                                                                         *)
(* The events modelled are those that reach the handler's work: verified,  *)
(* of the configured mode and a handled type.  A failure of any await is   *)
(* Fail; what was committed stays.                                         *)
(***************************************************************************)
EXTENDS Naturals, FiniteSets, Functions

CONSTANTS
  Orders,          \* Orders of one Store
  Variants,        \* Variants of its Products, each of its own Product
  PaymentIntents,
  OrderOf,         \* the Order that a session's metadata names, or NoOrder
  NoOrder,         \* an Order id that is no Order of the Store
  Foreign,         \* payments of sessions that are not shp0's
  Matching,        \* payments whose amount and currency are their Order's
  Delayed,         \* payments made with a delayed payment method
  Lines,           \* the quantity of each Variant in an Order
  InitialStock,
  Workers,         \* server processes that handle a delivery, one at a time
  MaxRefunds,      \* bound on the refund attempts of a payment
  MaxFaults        \* bound on the failures and repeated deliveries

ASSUME WebhookAssumption ==
  /\ NoOrder \notin Orders
  /\ OrderOf \in [PaymentIntents -> Orders \cup {NoOrder}]
  /\ Foreign \subseteq PaymentIntents /\ Matching \subseteq PaymentIntents
  /\ Delayed \subseteq PaymentIntents
  /\ Lines \in [Orders -> [Variants -> Nat]]
  /\ InitialStock \in [Variants -> Nat]
  /\ MaxRefunds \in Nat \ {0} /\ MaxFaults \in Nat
ASSUME FinitePayments == IsFiniteSet(PaymentIntents)

Ours == PaymentIntents \ Foreign

(***************************************************************************)
(* An event is a session's PaymentIntent and what the event says of it:    *)
(* checkout.session.completed with payment_status paid or unpaid,          *)
(* async_payment_succeeded or async_payment_failed.                        *)
(***************************************************************************)
PaidKinds == {"completed_paid", "async_succeeded"}
Kinds     == PaidKinds \cup {"completed_unpaid", "async_failed"}
Events    == PaymentIntents \X Kinds
SaysPaid(e) == e[2] \in PaidKinds

VARIABLES
  paymentStatus,   \* orders.payment_status
  inventory,       \* variants.inventory
  deleted,         \* the Variants that are gone
  payments,        \* payments: status ("none" without a row), refund_attempts
  processed,       \* processed_events
  charge,          \* Stripe: where a PaymentIntent's money is
  refundKey,       \* Stripe: the kept answer of key `refund:<pi>:<attempt>`
  emitted,         \* the events Stripe has created
  acked,           \* the events that were answered 200
  work,            \* the deliveries being handled
  faults

db     == <<paymentStatus, inventory, deleted, payments, processed>>
stripe == <<charge, refundKey, emitted, acked>>
vars   == <<db, stripe, work, faults>>

Charge   == {"unpaid", "processing", "failed", "held", "returned"}
Attempts == 1..MaxRefunds
Answers  == {"none", "created", "already", "refused", "error"}
Steps    == {"idle", "check", "record", "refund", "answered", "mark"}

NoEvent == <<"none", "none">>
Idle == [pc |-> "idle", event |-> NoEvent, attempt |-> 0, resent |-> FALSE,
         answer |-> "none"]
WorkState == [pc : Steps, event : Events \cup {NoEvent},
              attempt : 0..MaxRefunds, resent : BOOLEAN, answer : Answers]

TypeOK ==
  /\ paymentStatus \in [Orders -> {"pending", "paid"}]
  /\ inventory \in [Variants -> Nat]
  /\ deleted \subseteq Variants
  /\ payments \in [PaymentIntents ->
       [status : {"none", "paid", "refund_due", "refunded", "refund_failed"},
        attempts : 0..MaxRefunds]]
  /\ processed \subseteq Events
  /\ charge \in [PaymentIntents -> Charge]
  /\ refundKey \in [PaymentIntents -> [Attempts -> Answers]]
  /\ emitted \subseteq Events
  /\ acked \subseteq emitted
  /\ work \in [Workers -> WorkState]
  /\ faults \in 0..MaxFaults

Init ==
  /\ paymentStatus = [o \in Orders |-> "pending"]
  /\ inventory = InitialStock
  /\ deleted = {}
  /\ payments = [pi \in PaymentIntents |-> [status |-> "none", attempts |-> 0]]
  /\ processed = {}
  /\ charge = [pi \in PaymentIntents |-> "unpaid"]
  /\ refundKey = [pi \in PaymentIntents |-> [n \in Attempts |-> "none"]]
  /\ emitted = {} /\ acked = {}
  /\ work = [w \in Workers |-> Idle]
  /\ faults = 0

Fault == faults < MaxFaults /\ faults' = faults + 1

-----------------------------------------------------------------------------
(* A delivery.                                                             *)

Become(w, r) == work' = [work EXCEPT ![w] = r]
Goto(w, pc)  == Become(w, [work[w] EXCEPT !.pc = pc])
Finish(w)    == Become(w, Idle)
Ack(w)       == Finish(w) /\ acked' = acked \cup {work[w].event}
Intent(w)    == work[w].event[1]

Handled(e) == \E w \in Workers : work[w].event = e

(* Stripe delivers an event that was not answered 200 yet.  A second
   delivery at the same time, or after a 200 that Stripe did not receive, is
   a fault. *)
Deliver(w, e) ==
  /\ work[w].pc = "idle" /\ e \in emitted
  /\ \/ e \notin acked /\ ~Handled(e) /\ UNCHANGED faults
     \/ (e \in acked \/ Handled(e)) /\ Fault
  /\ Become(w, [Idle EXCEPT !.pc = "check", !.event = e])
  /\ UNCHANGED <<db, stripe>>

(* isEventProcessed, then what the session is and whether it is paid. *)
Check(w) ==
  LET e == work[w].event IN
  /\ work[w].pc = "check"
  /\ \/ /\ e \in processed \/ Intent(w) \in Foreign
        /\ Ack(w)
     \/ /\ e \notin processed /\ Intent(w) \notin Foreign
        /\ IF SaysPaid(e) THEN Goto(w, "record") ELSE Goto(w, "mark")
        /\ UNCHANGED acked
  /\ UNCHANGED <<db, charge, refundKey, emitted, faults>>

(* Mutants: the quantity is not compared; a deleted Variant is not noticed. *)
CoveredByRows(o)  == \A v \in Variants : Lines[o][v] > 0 => v \notin deleted
CoveredByStock(o) == \A v \in Variants : inventory[v] >= Lines[o][v]

(* takeStock: all the Order's Variants are there with enough stock, *)
Covered(o) == \A v \in Variants :
  Lines[o][v] > 0 => v \notin deleted /\ inventory[v] >= Lines[o][v]

(* Mutant: one is taken of each Variant, whatever the lines' quantity. *)
LeftOfOne(o, v) == inventory[v] - (IF Lines[o][v] > 0 THEN 1 ELSE 0)
(* and it leaves this much of each. *)
Left(o, v) == inventory[v] - Lines[o][v]

(* Mutant: the Order's payment status is not looked at again. *)
HonourableAgain(pi) ==
  OrderOf[pi] # NoOrder /\ pi \in Matching /\ Covered(OrderOf[pi])

Honourable(pi) ==
  LET o == OrderOf[pi] IN
  o # NoOrder /\ paymentStatus[o] = "pending" /\ pi \in Matching /\ Covered(o)

(* recordStripePayment, when the claim of the PaymentIntent inserts its row:
   the Order is paid and its stock taken, or a refund is due. *)
NewPayment(w) ==
  LET pi == Intent(w)
      o  == OrderOf[pi] IN
  /\ payments[pi].status = "none"
  /\ \/ /\ Honourable(pi)
        /\ payments' = [payments EXCEPT ![pi].status = "paid"]
        /\ paymentStatus' = [paymentStatus EXCEPT ![o] = "paid"]
        /\ inventory' = [v \in Variants |-> Left(o, v)]
        /\ Goto(w, "mark")
     \/ /\ ~Honourable(pi)
        /\ payments' = [payments EXCEPT ![pi] =
             [status |-> "refund_due", attempts |-> 1]]
        /\ Become(w, [work[w] EXCEPT !.pc = "refund", !.attempt = 1])
        /\ UNCHANGED <<paymentStatus, inventory>>

(* Mutants: any Payment found is refunded; none needs anything any more. *)
FoundDue(pi)   == payments[pi].status \in {"refund_due", "paid"}
NeverDue(pi)   == FALSE
StillDue(pi)   == payments[pi].status = "refund_due"

(* Mutant: the attempt is not counted. *)
SameAttempt(pi) == payments[pi].attempts
NextAttempt(pi) == payments[pi].attempts + 1

(* recordStripePayment, when the PaymentIntent has its row: only a refund
   still due is tried again, under the next attempt. *)
KnownPayment(w) ==
  LET pi == Intent(w)
      n  == NextAttempt(pi) IN
  /\ payments[pi].status # "none"
  /\ \/ /\ StillDue(pi)
        /\ n <= MaxRefunds
        /\ payments' = [payments EXCEPT ![pi].attempts = n]
        /\ Become(w, [work[w] EXCEPT !.pc = "refund", !.attempt = n])
     \/ /\ ~StillDue(pi)
        /\ Goto(w, "mark")
        /\ UNCHANGED payments
  /\ UNCHANGED <<paymentStatus, inventory>>

RecordPayment(w) ==
  /\ work[w].pc = "record"
  /\ NewPayment(w) \/ KnownPayment(w)
  /\ UNCHANGED <<deleted, processed, stripe, faults>>

(* The refund request reaches Stripe.  A key's first answer is kept: the
   refund, that the money is back already, a refusal for good (or a refund
   that failed), or an error a retry can fix. *)
Refund(w) ==
  LET pi == Intent(w)
      n  == work[w].attempt
      kept == refundKey[pi][n]
      Answer(a) == /\ refundKey' = [refundKey EXCEPT ![pi][n] = a]
                   /\ Become(w, [work[w] EXCEPT !.pc = "answered", !.answer = a])
  IN
  /\ work[w].pc = "refund"
  /\ \/ /\ kept # "none"
        /\ Answer(kept)
        /\ UNCHANGED <<charge, faults>>
     \/ /\ kept = "none" /\ charge[pi] = "held"
        /\ Answer("created")
        /\ charge' = [charge EXCEPT ![pi] = "returned"]
        /\ UNCHANGED faults
     \/ /\ kept = "none" /\ charge[pi] = "held"
        /\ Answer("refused")
        /\ UNCHANGED <<charge, faults>>
     \/ /\ kept = "none" /\ charge[pi] = "returned"
        /\ Answer("already")
        /\ UNCHANGED <<charge, faults>>
     \/ /\ kept = "none"
        /\ Answer("error") /\ Fault
        /\ UNCHANGED charge
  /\ UNCHANGED <<db, emitted, acked>>

(* The Stripe SDK sends the request again, with the same key. *)
Resend(w) ==
  /\ work[w].pc = "answered" /\ ~work[w].resent
  /\ Become(w, [work[w] EXCEPT !.pc = "refund", !.resent = TRUE, !.answer = "none"])
  /\ Fault
  /\ UNCHANGED <<db, stripe>>

(* Mutant: the status is written whatever it was. *)
SettledAnyway(pi, status) == payments' = [payments EXCEPT ![pi].status = status]

(* markPaymentRefunded and markPaymentRefundFailed: only while still due. *)
Settled(pi, status) ==
  payments' = IF StillDue(pi)
              THEN [payments EXCEPT ![pi].status = status] ELSE payments

(* Mutant: a refund Stripe created counts, even one that failed. *)
RefundMadeOrFailed(answer) == answer \in {"created", "already", "refused"}
RefundMade(answer) == answer \in {"created", "already"}

(* The answer to the refund request arrives; a retryable error is thrown. *)
MarkRefund(w) ==
  LET answer == work[w].answer IN
  /\ work[w].pc = "answered"
  /\ \/ /\ RefundMade(answer)
        /\ Settled(Intent(w), "refunded")
        /\ Goto(w, "mark")
     \/ /\ answer = "refused"
        /\ Settled(Intent(w), "refund_failed")
        /\ Goto(w, "mark")
     \/ /\ answer = "error"
        /\ Finish(w)
        /\ UNCHANGED payments
  /\ UNCHANGED <<paymentStatus, inventory, deleted, processed, stripe, faults>>

(* markEventProcessed, then the answer 200. *)
MarkProcessed(w) ==
  /\ work[w].pc = "mark"
  /\ processed' = processed \cup {work[w].event}
  /\ Ack(w)
  /\ UNCHANGED <<paymentStatus, inventory, deleted, payments, charge, refundKey,
                 emitted, faults>>

(* A transaction or request fails (answered 500), or the process dies; a
   request without an answer may have been carried out. *)
Fail(w) ==
  /\ work[w].pc # "idle"
  /\ Finish(w)
  /\ Fault
  /\ UNCHANGED <<db, stripe>>

WorkerProgress(w) ==
  Check(w) \/ RecordPayment(w) \/ Refund(w) \/ MarkRefund(w) \/ MarkProcessed(w)

-----------------------------------------------------------------------------
(* The Customer and Stripe; the Merchant.                                  *)

Pays(pi, from, to, kinds) ==
  /\ charge[pi] = from
  /\ charge' = [charge EXCEPT ![pi] = to]
  /\ emitted' = emitted \cup {<<pi, k>> : k \in kinds}
  /\ UNCHANGED <<db, refundKey, acked, work, faults>>

(* A session is completed and paid.  With a delayed payment method it is
   completed unpaid, and the payment succeeds or fails later; or it succeeds
   before the completed event is made, and two events say it is paid. *)
CompletesPaid(pi) ==
  pi \notin Delayed /\ Pays(pi, "unpaid", "held", {"completed_paid"})
CompletesUnpaid(pi) ==
  pi \in Delayed /\ Pays(pi, "unpaid", "processing", {"completed_unpaid"})
SucceedsAtOnce(pi) ==
  pi \in Delayed /\ Pays(pi, "unpaid", "held", PaidKinds)
DelayedSucceeds(pi) == Pays(pi, "processing", "held", {"async_succeeded"})
DelayedFails(pi)    == Pays(pi, "processing", "failed", {"async_failed"})

(* deleteProduct: its Variants and their stock are gone. *)
DeleteProduct(v) ==
  /\ v \notin deleted
  /\ deleted' = deleted \cup {v}
  /\ UNCHANGED <<paymentStatus, inventory, payments, processed, stripe, work, faults>>

Environment ==
  \/ \E pi \in PaymentIntents :
       \/ CompletesPaid(pi) \/ CompletesUnpaid(pi) \/ SucceedsAtOnce(pi)
       \/ DelayedSucceeds(pi) \/ DelayedFails(pi)
  \/ \E v \in Variants : DeleteProduct(v)

Next ==
  \/ \E w \in Workers :
       \/ WorkerProgress(w) \/ Resend(w) \/ Fail(w)
       \/ \E e \in Events : Deliver(w, e)
  \/ Environment

Spec == Init /\ [][Next]_vars

(***************************************************************************)
(* A delivery is handled to its end, and Stripe delivers an event again as *)
(* long as it is not answered 200.                                         *)
(***************************************************************************)
Fairness ==
  /\ \A w \in Workers : WF_vars(WorkerProgress(w))
  /\ \A e \in Events : WF_vars(\E w \in Workers : e \notin acked /\ Deliver(w, e))
FairSpec == Spec /\ Fairness

-----------------------------------------------------------------------------
(* Properties.                                                             *)

PaidFor(o) == {pi \in PaymentIntents : payments[pi].status = "paid" /\ OrderOf[pi] = o}

(* An Order is paid by exactly one Payment, and an Order without one is
   pending, whatever events arrive at once (CONTEXT.md: "An Order is paid by
   exactly one Payment"). *)
PaidByExactlyOne ==
  \A o \in Orders : Cardinality(PaidFor(o)) = IF paymentStatus[o] = "paid" THEN 1 ELSE 0

(* No oversell and no lost stock: what is left of a Variant is what there was
   less what the honoured Payments bought, each once. *)
StockMatchesSales ==
  \A v \in Variants \ deleted :
    LET sold == [pi \in PaymentIntents |->
          IF payments[pi].status = "paid" THEN Lines[OrderOf[pi]][v] ELSE 0]
    IN inventory[v] + SumFunction(sold) = InitialStock[v]

(* Money goes back to the Customer only for a Payment that was declined, never
   for one that paid its Order. *)
OnlyDeclinedReturned ==
  \A pi \in PaymentIntents : charge[pi] = "returned" =>
    payments[pi].status \in {"refund_due", "refunded", "refund_failed"}

(* A Payment is recorded refunded only once the money is really back: Pay asks
   for the Order to be paid again as soon as it is. *)
RefundedIsReturned ==
  \A pi \in PaymentIntents : payments[pi].status = "refunded" => charge[pi] = "returned"

(* An event is marked processed, and never looked at again, only once all it
   caused is done: a paid event's Payment is honoured, refunded, or left to a
   person (handleStripeWebhook's comment). *)
ProcessedIsDone ==
  \A e \in processed : SaysPaid(e) =>
    payments[e[1]].status \in {"paid", "refunded", "refund_failed"}

(* A refund attempt never meets the answer kept for an earlier one: each claim
   of a Payment uses a key of its own (refundInFull's comment). *)
FreshRefundKey ==
  \A w \in Workers : work[w].pc = "refund" /\ ~work[w].resent =>
    refundKey[Intent(w)][work[w].attempt] = "none"

(* "A repeated, or concurrent, delivery of the same payment change nothing,
   except retrying a refund that is still due" (ADR-0006): what was decided
   about a Payment or an Order stays decided. *)
Final == {"paid", "refunded", "refund_failed"}
DecisionsAreFinal ==
  [][/\ \A pi \in PaymentIntents :
          /\ payments[pi].status \in Final => payments'[pi] = payments[pi]
          /\ payments[pi].status = "refund_due" => payments'[pi].status # "paid"
     /\ \A o \in Orders : paymentStatus[o] = "paid" => paymentStatus'[o] = "paid"]_vars

(* The money of a payment Stripe has refused to refund is still held: that is
   why Pay stays closed on its Order (CheckoutBlock's "refund_pending",
   checkout.ts:31-36). *)
RefundFailedIsHeld ==
  \A pi \in PaymentIntents : payments[pi].status = "refund_failed" => charge[pi] = "held"

(* Every event is answered 200 in the end, so Stripe may forget it. *)
EventsAreAnswered == \A e \in Events : e \in emitted ~> e \in acked

(***************************************************************************)
(* The webhook implements the Ledger.  A payment's fate is where Stripe    *)
(* has its money, and what is recorded while the money is held.            *)
(***************************************************************************)
Fate(pi) ==
  IF charge[pi] = "returned" THEN "returned"
  ELSE IF charge[pi] # "held" THEN "none"
  ELSE CASE payments[pi].status = "none" -> "held"
         [] payments[pi].status = "paid" -> "sold"
         [] payments[pi].status = "refund_failed" -> "stuck"
         [] OTHER -> "owed"

L == INSTANCE Ledger WITH
       Payments <- Ours,
       OrderOf <- [pi \in Ours |-> OrderOf[pi]],
       Matching <- Matching \cap Ours,
       order <- paymentStatus,
       fate <- [pi \in Ours |-> Fate(pi)]

(* Every step of every delivery is a step of the Ledger or changes nothing it
   shows. *)
KeepsLedger == L!Safety

(* Every payment for an Order of the Store is judged, and every declined one
   is refunded or left to a person, however often deliveries fail. *)
ImplementsLedger == L!Spec
=============================================================================
