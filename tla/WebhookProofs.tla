--------------------------- MODULE WebhookProofs ---------------------------
(***************************************************************************)
(* For any number of Orders, payments, deliveries, refund attempts and     *)
(* faults: the webhook is type-correct, an Order is paid by exactly one    *)
(* Payment, money goes back only for a declined one, and an event is       *)
(* processed only once all it caused is done.  Every step keeps what the   *)
(* Ledger promises, and a Variant's stock is what its sales have left.     *)
(*                                                                         *)
(* The properties are not inductive: they say nothing of what a delivery   *)
(* remembers between two awaits.  Inv adds it: what a delivery read stays  *)
(* true (Knows), a refund attempt belongs to one delivery (OwnAttempt), a  *)
(* key is unused until its attempt is claimed (UnusedKeys), and where the  *)
(* money is agrees with what is recorded of it (Money).  The sum over the  *)
(* sales is a recursion on a set chosen element by element; that it exists *)
(* and grows by one sale at a time is proved by induction on the least     *)
(* size of a set for which it would not (LeastNumber).                     *)
(***************************************************************************)
EXTENDS Webhook, FiniteSetTheorems, WellFoundedInduction, TLAPS

PaymentStatus == {"none", "paid", "refund_due", "refunded", "refund_failed"}
PaymentState  == [status : PaymentStatus, attempts : 0..MaxRefunds]
Declined      == {"refund_due", "refunded", "refund_failed"}
Received      == {"held", "returned"}
Refunding(r)  == r.pc \in {"refund", "answered"}

(* What a delivery in state r knows of its Payment and its event. *)
Knows(r) ==
  LET pi == r.event[1] IN
  /\ r.pc # "idle" => r.event \in emitted
  /\ r.pc = "record" \/ Refunding(r) => SaysPaid(r.event) /\ pi \in Ours
  /\ Refunding(r) => /\ r.attempt \in 1..payments[pi].attempts
                     /\ payments[pi].status \in Declined
  /\ r.pc = "mark" /\ SaysPaid(r.event) => payments[pi].status \in Final
  /\ r.pc = "answered" /\ RefundMade(r.answer) => charge[pi] = "returned"
  /\ r.pc = "refund" /\ ~r.resent => refundKey[pi][r.attempt] = "none"

DeliveriesKnow == \A w \in Workers : Knows(work[w])

(* Where a payment's money is, against what is recorded about it. *)
Money ==
  /\ \A e \in emitted : SaysPaid(e) => charge[e[1]] \in Received
  /\ \A pi \in PaymentIntents :
       /\ payments[pi].status # "none" => charge[pi] \in Received
       /\ payments[pi].status = "none" => payments[pi].attempts = 0
       /\ charge[pi] = "returned" => payments[pi].status \in Declined
       /\ payments[pi].status = "refunded" => charge[pi] = "returned"
       /\ \A n \in Attempts :
            RefundMade(refundKey[pi][n]) => charge[pi] = "returned"

UnusedKeys ==
  \A pi \in PaymentIntents : \A n \in Attempts :
    n > payments[pi].attempts => refundKey[pi][n] = "none"

SameClaim(r, s) == /\ Refunding(r) /\ Refunding(s)
                   /\ r.event[1] = s.event[1] /\ r.attempt = s.attempt

OwnAttempt == \A w, x \in Workers : SameClaim(work[w], work[x]) => w = x

PaidOnce ==
  \A o \in Orders :
    /\ paymentStatus[o] = "pending" => PaidFor(o) = {}
    /\ paymentStatus[o] = "paid" => \E pi \in PaymentIntents : PaidFor(o) = {pi}

Inv == /\ TypeOK /\ DeliveriesKnow /\ Money /\ UnusedKeys /\ OwnAttempt
       /\ ProcessedIsDone /\ PaidOnce

-----------------------------------------------------------------------------
USE WebhookAssumption DEF Attempts

LEMMA EventParts ==
  ASSUME NEW e \in Events
  PROVE  e[1] \in PaymentIntents /\ e[2] \in Kinds
  BY DEF Events, Kinds, PaidKinds

LEMMA IdleType == Idle \in WorkState
  BY DEF Idle, WorkState, Steps, Answers

LEMMA WorkType ==
  ASSUME NEW r \in WorkState, NEW pc \in Steps, NEW n \in 0..MaxRefunds,
         NEW b \in BOOLEAN, NEW a \in Answers
  PROVE  [r EXCEPT !.pc = pc, !.attempt = n, !.resent = b, !.answer = a] \in WorkState
  BY DEF WorkState

LEMMA PaymentType ==
  ASSUME NEW q \in PaymentState, NEW s \in PaymentStatus, NEW n \in 0..MaxRefunds
  PROVE  /\ [q EXCEPT !.status = s] \in PaymentState
         /\ [q EXCEPT !.attempts = n] \in PaymentState
  BY DEF PaymentState

(* The initial states are typed, and nothing has happened yet. *)
LEMMA InitInv == Init => Inv
  <1> SUFFICES ASSUME Init PROVE Inv
    OBVIOUS
  <1>1. TypeOK
    BY IdleType DEF Init, TypeOK, Charge, Answers
  <1>2. \A w \in Workers : work[w].pc = "idle"
    BY DEF Init, Idle
  <1>3. DeliveriesKnow /\ OwnAttempt
    BY <1>2 DEF DeliveriesKnow, OwnAttempt, SameClaim, Knows, Refunding
  <1>4. Money /\ UnusedKeys
    BY DEF Init, Money, UnusedKeys, RefundMade
  <1>5. ProcessedIsDone /\ PaidOnce
    BY DEF Init, ProcessedIsDone, PaidOnce, PaidFor
  <1>6. QED
    BY <1>1, <1>3, <1>4, <1>5 DEF Inv

(* What is known survives a step that only adds events, attempts and
   decisions, and that leaves the key of a fresh request alone. *)
LEMMA KnowledgeKept ==
  ASSUME TypeOK, TypeOK', NEW r \in WorkState, Knows(r),
         emitted \subseteq emitted',
         \A pi \in PaymentIntents :
           /\ payments'[pi].attempts >= payments[pi].attempts
           /\ payments[pi].status \in Declined => payments'[pi].status \in Declined
           /\ payments[pi].status \in Final => payments'[pi].status \in Final
           /\ charge[pi] = "returned" => charge'[pi] = "returned",
         r.pc = "refund" /\ ~r.resent =>
           refundKey'[r.event[1]][r.attempt] = refundKey[r.event[1]][r.attempt]
  PROVE  Knows(r)'
  <1>1. r.pc # "idle" => r.event[1] \in PaymentIntents
    BY EventParts DEF Knows, TypeOK
  <1>2. Refunding(r) => r.attempt \in 1..payments'[r.event[1]].attempts
    <2>1. \A pi \in PaymentIntents : /\ payments[pi].attempts \in Nat
                                     /\ payments'[pi].attempts \in Nat
      BY DEF TypeOK
    <2>2. QED
      BY <1>1, <2>1 DEF Knows, Refunding
  <1>3. QED
    BY <1>1, <1>2 DEF Knows, Refunding

(* The same of every delivery but w, which moves to a state r it knows all
   about. *)
LEMMA DeliveriesKept ==
  ASSUME Inv, TypeOK', NEW w \in Workers, NEW r \in WorkState, Become(w, r), Knows(r)',
         emitted \subseteq emitted',
         \A pi \in PaymentIntents :
           /\ payments'[pi].attempts >= payments[pi].attempts
           /\ payments[pi].status \in Declined => payments'[pi].status \in Declined
           /\ payments[pi].status \in Final => payments'[pi].status \in Final
           /\ charge[pi] = "returned" => charge'[pi] = "returned",
         \A x \in Workers \ {w} : work[x].pc = "refund" /\ ~work[x].resent =>
           refundKey'[Intent(x)][work[x].attempt] = refundKey[Intent(x)][work[x].attempt]
  PROVE  DeliveriesKnow'
  <1> SUFFICES ASSUME NEW x \in Workers PROVE Knows(work[x])'
    BY DEF DeliveriesKnow
  <1>1. work'[x] = IF x = w THEN r ELSE work[x]
    BY DEF Become, Inv, TypeOK
  <1>2. CASE x = w
    BY <1>1, <1>2 DEF Knows, Refunding
  <1>3. CASE x # w
    <2>1. PICK q \in WorkState : q = work[x]
      BY DEF Inv, TypeOK
    <2>2. Knows(q)
      BY <2>1 DEF Inv, DeliveriesKnow, Knows, Refunding
    <2>3. q.pc = "refund" /\ ~q.resent =>
            refundKey'[q.event[1]][q.attempt] = refundKey[q.event[1]][q.attempt]
      BY <1>3, <2>1 DEF Intent
    <2>4. Knows(q)'
      BY <2>2, <2>3, KnowledgeKept DEF Inv
    <2>5. work'[x] = q
      BY <1>1, <1>3, <2>1
    <2>6. QED
      BY <2>4, <2>5 DEF Knows, Refunding
  <1>4. QED
    BY <1>2, <1>3

(* Two deliveries still never share an attempt, if w takes none or keeps its
   own, or takes one that no other delivery has. *)
LEMMA AttemptsKept ==
  ASSUME Inv, NEW w \in Workers, NEW r \in WorkState, Become(w, r),
         \A x \in Workers \ {w} : ~SameClaim(r, work[x])
  PROVE  OwnAttempt'
  <1>1. \A x \in Workers : work'[x] = IF x = w THEN r ELSE work[x]
    BY DEF Become, Inv, TypeOK
  <1>2. QED
    BY <1>1 DEF Inv, OwnAttempt, SameClaim, Refunding

LEMMA OwnClaim ==
  ASSUME Inv, NEW w \in Workers, NEW r \in WorkState,
         Refunding(r) => SameClaim(r, work[w])
  PROVE  \A x \in Workers \ {w} : ~SameClaim(r, work[x])
  BY DEF Inv, OwnAttempt, SameClaim

(* A step that moves one delivery and decides nothing. *)
LEMMA DeliveryMoves ==
  ASSUME Inv, NEW w \in Workers, NEW r \in WorkState, Become(w, r), Knows(r),
         Refunding(r) => SameClaim(r, work[w]),
         UNCHANGED <<paymentStatus, inventory, deleted, payments, charge,
                     refundKey, emitted>>,
         processed' \subseteq Events, ProcessedIsDone',
         acked' \subseteq emitted, faults' \in 0..MaxFaults
  PROVE  Inv'
  <1>1. TypeOK'
    BY DEF Inv, TypeOK, Become
  <1>2. DeliveriesKnow'
    <2>1. Knows(r)'
      BY DEF Knows, Refunding
    <2>2. \A pi \in PaymentIntents : payments[pi].attempts \in Nat
      BY DEF Inv, TypeOK
    <2>3. QED
      BY <1>1, <2>1, <2>2, DeliveriesKept
  <1>3. OwnAttempt'
    BY OwnClaim, AttemptsKept
  <1>4. Money' /\ UnusedKeys'
    BY DEF Inv, Money, UnusedKeys
  <1>5. PaidOnce'
    BY DEF Inv, PaidOnce, PaidFor
  <1>6. QED
    BY <1>1, <1>2, <1>3, <1>4, <1>5 DEF Inv

LEMMA IdleKnows == Knows(Idle) /\ ~Refunding(Idle)
  BY DEF Idle, Knows, Refunding

-----------------------------------------------------------------------------
(* The steps of a delivery. *)

LEMMA FinishInv ==
  ASSUME Inv, NEW w \in Workers, Finish(w),
         UNCHANGED <<paymentStatus, inventory, deleted, payments, charge,
                     refundKey, emitted>>,
         processed' \subseteq Events, ProcessedIsDone',
         acked' \subseteq emitted, faults' \in 0..MaxFaults
  PROVE  Inv'
  BY IdleType, IdleKnows, DeliveryMoves DEF Finish

LEMMA DeliverInv ==
  ASSUME Inv, NEW w \in Workers, NEW e \in Events, Deliver(w, e)
  PROVE  Inv'
  <1> DEFINE r == [Idle EXCEPT !.pc = "check", !.event = e]
  <1>1. /\ r \in WorkState
        /\ r.pc = "check" /\ r.event = e
    BY IdleType DEF WorkState, Steps
  <1>2. Become(w, r) /\ e \in emitted
    BY DEF Deliver
  <1> HIDE DEF r
  <1>3. Knows(r) /\ ~Refunding(r)
    BY <1>1, <1>2 DEF Knows, Refunding
  <1>4. UNCHANGED <<db, stripe>> /\ faults' \in 0..MaxFaults
    BY DEF Deliver, Fault, Inv, TypeOK
  <1>5. ProcessedIsDone'
    BY <1>4 DEF db, Inv, ProcessedIsDone
  <1>6. QED
    BY <1>1, <1>2, <1>3, <1>4, <1>5, DeliveryMoves DEF db, stripe, Inv, TypeOK

LEMMA FailInv ==
  ASSUME Inv, NEW w \in Workers, Fail(w)
  PROVE  Inv'
  <1>1. UNCHANGED <<db, stripe>> /\ faults' \in 0..MaxFaults
    BY DEF Fail, Fault, Inv, TypeOK
  <1>2. ProcessedIsDone'
    BY <1>1 DEF db, Inv, ProcessedIsDone
  <1>3. QED
    BY <1>1, <1>2, FinishInv DEF Fail, db, stripe, Inv, TypeOK

LEMMA CheckInv ==
  ASSUME Inv, NEW w \in Workers, Check(w)
  PROVE  Inv'
  <1> DEFINE e == work[w].event
  <1>1. /\ work[w] \in WorkState /\ work[w].pc = "check"
        /\ e \in emitted /\ e \in Events
    BY DEF Check, Inv, TypeOK, DeliveriesKnow, Knows
  <1>2. UNCHANGED <<db, charge, refundKey, emitted, faults>> /\ ProcessedIsDone'
    BY DEF Check, db, Inv, ProcessedIsDone
  <1>3. CASE Ack(w)
    BY <1>1, <1>2, <1>3, FinishInv DEF Ack, db, Inv, TypeOK
  <1>4. CASE /\ Intent(w) \notin Foreign
             /\ IF SaysPaid(e) THEN Goto(w, "record") ELSE Goto(w, "mark")
             /\ UNCHANGED acked
    <2> DEFINE pc == IF SaysPaid(e) THEN "record" ELSE "mark"
               r  == [work[w] EXCEPT !.pc = pc]
    <2>1. Become(w, r)
      BY <1>4 DEF Goto
    <2>2. pc \in Steps
      BY DEF Steps
    <2>3. r \in WorkState /\ r.pc = pc /\ r.event = e
      BY <1>1, <2>2 DEF WorkState
    <2>4. \/ pc = "record" /\ SaysPaid(e)
          \/ pc = "mark" /\ ~SaysPaid(e)
      OBVIOUS
    <2> HIDE DEF r, pc
    <2>5. e[1] \in Ours
      BY <1>1, <1>4, EventParts DEF Ours, Intent
    <2>6. Knows(r) /\ ~Refunding(r)
      BY <1>1, <2>3, <2>4, <2>5 DEF Knows, Refunding
    <2>7. QED
      BY <1>2, <1>4, <2>1, <2>3, <2>6, DeliveryMoves DEF db, Inv, TypeOK
  <1>5. QED
    BY <1>3, <1>4 DEF Check

LEMMA MarkProcessedInv ==
  ASSUME Inv, NEW w \in Workers, MarkProcessed(w)
  PROVE  Inv'
  <1>1. /\ work[w].event \in emitted /\ work[w].event \in Events
        /\ SaysPaid(work[w].event) => payments[Intent(w)].status \in Final
    BY DEF MarkProcessed, Inv, TypeOK, DeliveriesKnow, Knows, Intent
  <1>2. ProcessedIsDone'
    BY <1>1 DEF MarkProcessed, Inv, ProcessedIsDone, Final, Intent, SaysPaid
  <1>3. processed' \subseteq Events /\ acked' \subseteq emitted
    BY <1>1 DEF MarkProcessed, Ack, Inv, TypeOK
  <1>4. QED
    BY <1>2, <1>3, FinishInv DEF MarkProcessed, Ack, Inv, TypeOK

LEMMA ResendInv ==
  ASSUME Inv, NEW w \in Workers, Resend(w)
  PROVE  Inv'
  <1> DEFINE r == [work[w] EXCEPT !.pc = "refund", !.resent = TRUE, !.answer = "none"]
  <1>1. Become(w, r) /\ work[w].pc = "answered" /\ work[w] \in WorkState
    BY DEF Resend, Inv, TypeOK
  <1>2. /\ r \in WorkState /\ r.pc = "refund" /\ r.resent
        /\ r.event = work[w].event /\ r.attempt = work[w].attempt
    BY <1>1 DEF WorkState, Steps, Answers
  <1> HIDE DEF r
  <1>3. Knows(work[w])
    BY DEF Inv, DeliveriesKnow
  <1>4. Knows(r) /\ SameClaim(r, work[w])
    BY <1>1, <1>2, <1>3 DEF Knows, SameClaim, Refunding
  <1>5. UNCHANGED <<db, stripe>> /\ faults' \in 0..MaxFaults
    BY DEF Resend, Fault, Inv, TypeOK
  <1>6. ProcessedIsDone'
    BY <1>5 DEF db, Inv, ProcessedIsDone
  <1>7. QED
    BY <1>1, <1>2, <1>4, <1>5, <1>6, DeliveryMoves DEF db, stripe, Inv, TypeOK

(* Stripe's answer to a refund request. *)
LEMMA RefundInv ==
  ASSUME Inv, NEW w \in Workers, Refund(w)
  PROVE  Inv'
  <1> DEFINE pi == Intent(w)
             n  == work[w].attempt
  <1>1. /\ work[w] \in WorkState /\ work[w].pc = "refund" /\ Refunding(work[w])
        /\ Knows(work[w])
    BY DEF Refund, Inv, TypeOK, DeliveriesKnow, Refunding
  <1>2. /\ work[w].event \in emitted /\ pi \in PaymentIntents
        /\ payments[pi].status \in Declined
        /\ n \in Attempts /\ n <= payments[pi].attempts
    <2>1. work[w].event \in emitted /\ work[w].event \in Events
      BY <1>1 DEF Knows, Inv, TypeOK
    <2>2. pi \in PaymentIntents
      BY <2>1, EventParts DEF Intent
    <2>3. payments[pi].attempts \in 0..MaxRefunds
      BY <2>2 DEF Inv, TypeOK
    <2>4. n \in 1..payments[pi].attempts /\ payments[pi].status \in Declined
      BY <1>1 DEF Knows, Intent
    <2>5. QED
      BY <2>1, <2>2, <2>3, <2>4
  <1>3. PICK a \in Answers :
          /\ refundKey' = [refundKey EXCEPT ![pi][n] = a]
          /\ Become(w, [work[w] EXCEPT !.pc = "answered", !.answer = a])
          /\ \/ charge' = charge
             \/ charge[pi] = "held" /\ charge' = [charge EXCEPT ![pi] = "returned"]
          /\ RefundMade(a) => charge'[pi] = "returned"
    <2>1. refundKey[pi][n] \in Answers /\ charge \in [PaymentIntents -> Charge]
      BY <1>2 DEF Inv, TypeOK
    <2>2. RefundMade(refundKey[pi][n]) => charge[pi] = "returned"
      BY <1>2 DEF Inv, Money
    <2>3. {"created", "already", "refused", "error"} \subseteq Answers
      BY DEF Answers
    <2>4. QED
      BY <1>2, <2>1, <2>2, <2>3 DEF Refund, RefundMade
  <1>4. UNCHANGED <<db, emitted, acked>> /\ faults' \in 0..MaxFaults
    BY DEF Refund, Fault, Inv, TypeOK
  <1>5. PICK r \in WorkState :
          /\ Become(w, r) /\ r.pc = "answered" /\ r.answer = a
          /\ r.event = work[w].event /\ r.attempt = work[w].attempt
    <2> DEFINE q == [work[w] EXCEPT !.pc = "answered", !.answer = a]
    <2>1. /\ q \in WorkState /\ q.pc = "answered" /\ q.answer = a
          /\ q.event = work[w].event /\ q.attempt = work[w].attempt
      BY <1>1, <1>3 DEF WorkState, Steps
    <2>2. QED
      BY <1>3, <2>1
  <1>6. TypeOK'
    <2>1. charge' \in [PaymentIntents -> Charge]
      BY <1>3 DEF Charge, Inv, TypeOK
    <2>2. refundKey' \in [PaymentIntents -> [Attempts -> Answers]]
      BY <1>2, <1>3 DEF Inv, TypeOK
    <2>3. work' \in [Workers -> WorkState]
      BY <1>5 DEF Become, Inv, TypeOK
    <2>4. QED
      BY <1>4, <2>1, <2>2, <2>3 DEF db, Inv, TypeOK
  <1>7. \A p \in PaymentIntents : charge[p] \in Received =>
          charge'[p] \in Received /\ (charge[p] = "returned" => charge'[p] = "returned")
    BY <1>2, <1>3 DEF Received, Inv, TypeOK
  <1>8. DeliveriesKnow'
    <2>1. Knows(r)'
      BY <1>1, <1>3, <1>4, <1>5 DEF Knows, Refunding, db, Intent
    <2>2. \A p \in PaymentIntents : charge[p] = "returned" => charge'[p] = "returned"
      BY <1>7 DEF Received
    <2>3. \A x \in Workers \ {w} : work[x].pc = "refund" =>
            refundKey'[Intent(x)][work[x].attempt] = refundKey[Intent(x)][work[x].attempt]
      <3> SUFFICES ASSUME NEW x \in Workers \ {w}, work[x].pc = "refund"
                   PROVE  refundKey'[Intent(x)][work[x].attempt]
                            = refundKey[Intent(x)][work[x].attempt]
        OBVIOUS
      <3>1. ~(Intent(x) = pi /\ work[x].attempt = n)
        BY <1>1 DEF Inv, OwnAttempt, SameClaim, Refunding, Intent
      <3>2. work[x].event \in Events
        BY DEF Inv, TypeOK, DeliveriesKnow, Knows
      <3>3. Intent(x) \in PaymentIntents
        BY <3>2, EventParts DEF Intent
      <3>4. QED
        BY <1>2, <1>3, <3>1, <3>3 DEF Inv, TypeOK
    <2>4. \A p \in PaymentIntents : payments[p].attempts \in Nat
      BY DEF Inv, TypeOK
    <2>5. QED
      BY <1>4, <1>5, <1>6, <2>1, <2>2, <2>3, <2>4, DeliveriesKept DEF db
  <1>9. Money'
    <2>1. \A e \in emitted : e[1] \in PaymentIntents
      BY EventParts DEF Inv, TypeOK
    <2>2. \A e \in emitted : SaysPaid(e) => charge'[e[1]] \in Received
      BY <1>7, <2>1 DEF Inv, Money
    <2>3. \A p \in PaymentIntents :
            /\ payments[p].status # "none" => charge'[p] \in Received
            /\ charge'[p] = "returned" => payments[p].status \in Declined
            /\ payments[p].status = "refunded" => charge'[p] = "returned"
      BY <1>2, <1>3, <1>7 DEF Inv, Money, TypeOK, Received
    <2>4. \A p \in PaymentIntents : \A m \in Attempts :
            RefundMade(refundKey'[p][m]) => charge'[p] = "returned"
      <3> SUFFICES ASSUME NEW p \in PaymentIntents, NEW m \in Attempts,
                          RefundMade(refundKey'[p][m])
                   PROVE  charge'[p] = "returned"
        BY DEF RefundMade
      <3>1. CASE p = pi /\ m = n
        BY <1>2, <1>3, <3>1 DEF Inv, TypeOK, RefundMade
      <3>2. CASE ~(p = pi /\ m = n)
        <4>1. refundKey'[p][m] = refundKey[p][m]
          BY <1>2, <1>3, <3>2 DEF Inv, TypeOK
        <4>2. QED
          BY <1>7, <4>1 DEF Inv, Money, Received, RefundMade
      <3>3. QED
        BY <3>1, <3>2
    <2>5. QED
      BY <1>4, <2>2, <2>3, <2>4 DEF db, Inv, Money
  <1>10. UnusedKeys'
    <2> SUFFICES ASSUME NEW p \in PaymentIntents, NEW m \in Attempts,
                        m > payments[p].attempts
                 PROVE  refundKey'[p][m] = "none"
      BY <1>4 DEF UnusedKeys, db
    <2>1. payments[p].attempts \in Nat /\ m \in Nat
      BY DEF Inv, TypeOK
    <2>2. ~(p = pi /\ m = n)
      BY <1>2, <2>1
    <2>3. refundKey'[p][m] = refundKey[p][m]
      BY <1>2, <1>3, <2>2 DEF Inv, TypeOK
    <2>4. QED
      BY <2>3 DEF Inv, UnusedKeys
  <1>11. OwnAttempt'
    <2>1. Refunding(r) => SameClaim(r, work[w])
      BY <1>1, <1>5 DEF SameClaim
    <2>2. QED
      BY <1>5, <2>1, OwnClaim, AttemptsKept
  <1>12. ProcessedIsDone' /\ PaidOnce'
    BY <1>4 DEF db, Inv, ProcessedIsDone, PaidOnce, PaidFor
  <1>13. QED
    BY <1>6, <1>8, <1>9, <1>10, <1>11, <1>12 DEF Inv

(* A step of delivery w that records q of payment pi, whose money Stripe has. *)
LEMMA DecisionMoves ==
  ASSUME Inv, NEW w \in Workers, NEW r \in WorkState, Become(w, r), Knows(r)',
         \A x \in Workers \ {w} : ~SameClaim(r, work[x]),
         NEW pi \in PaymentIntents, NEW q \in PaymentState,
         payments' = [payments EXCEPT ![pi] = q],
         UNCHANGED <<deleted, processed, charge, refundKey, emitted, acked, faults>>,
         paymentStatus' \in [Orders -> {"pending", "paid"}],
         inventory' \in [Variants -> Nat], PaidOnce',
         charge[pi] \in Received,
         q.status # "none", q.attempts >= payments[pi].attempts,
         payments[pi].status \in Declined => q.status \in Declined,
         payments[pi].status \in Final => q.status \in Final,
         charge[pi] = "returned" => q.status \in Declined,
         q.status = "refunded" => charge[pi] = "returned"
  PROVE  Inv'
  <1>1. \A p \in PaymentIntents :
          /\ payments'[p] = IF p = pi THEN q ELSE payments[p]
          /\ payments[p] \in PaymentState /\ payments'[p] \in PaymentState
    BY DEF Inv, TypeOK, PaymentState, PaymentStatus
  <1>2. TypeOK'
    <2>1. payments' \in [PaymentIntents -> PaymentState]
      BY DEF Inv, TypeOK, PaymentState, PaymentStatus
    <2>2. work' \in [Workers -> WorkState]
      BY DEF Become, Inv, TypeOK
    <2>3. QED
      BY <2>1, <2>2 DEF Inv, TypeOK, PaymentState, PaymentStatus
  <1>3. \A p \in PaymentIntents :
          /\ payments[p].attempts \in Nat /\ payments'[p].attempts \in Nat
          /\ payments'[p].attempts >= payments[p].attempts
    <2>1. \A p \in PaymentIntents :
            payments[p].attempts \in Nat /\ payments'[p].attempts \in Nat
      BY <1>1 DEF PaymentState
    <2>2. QED
      BY <1>1, <2>1
  <1>4. DeliveriesKnow'
    <2>1. \A p \in PaymentIntents :
            /\ payments[p].status \in Declined => payments'[p].status \in Declined
            /\ payments[p].status \in Final => payments'[p].status \in Final
      BY <1>1
    <2>2. QED
      BY <1>2, <1>3, <2>1, DeliveriesKept
  <1>5. Money'
    <2>1. \A p \in PaymentIntents :
            /\ payments'[p].status # "none" => charge[p] \in Received
            /\ payments'[p].status = "none" => payments'[p].attempts = 0
            /\ charge[p] = "returned" => payments'[p].status \in Declined
            /\ payments'[p].status = "refunded" => charge[p] = "returned"
      BY <1>1 DEF Inv, Money
    <2>2. QED
      BY <2>1 DEF Inv, Money
  <1>6. UnusedKeys'
    <2> SUFFICES ASSUME NEW p \in PaymentIntents, NEW m \in Attempts,
                        m > payments'[p].attempts
                 PROVE  refundKey[p][m] = "none"
      BY DEF UnusedKeys
    <2>1. m > payments[p].attempts
      BY <1>3
    <2>2. QED
      BY <2>1 DEF Inv, UnusedKeys
  <1>7. OwnAttempt'
    BY AttemptsKept
  <1>8. ProcessedIsDone'
    <2> SUFFICES ASSUME NEW e \in processed, SaysPaid(e)
                 PROVE  payments'[e[1]].status \in Final
      BY DEF ProcessedIsDone, Final, SaysPaid
    <2>1. e[1] \in PaymentIntents
      BY EventParts DEF Inv, TypeOK
    <2>2. payments[e[1]].status \in Final
      BY DEF Inv, ProcessedIsDone, Final
    <2>3. QED
      BY <1>1, <2>1, <2>2
  <1>9. QED
    BY <1>2, <1>4, <1>5, <1>6, <1>7, <1>8 DEF Inv

(* What a delivery at these steps knows of its payment. *)
LEMMA AtPayment ==
  ASSUME Inv, NEW w \in Workers, work[w].pc \in {"record", "refund", "answered"}
  PROVE  /\ work[w] \in WorkState /\ Knows(work[w])
         /\ work[w].event \in emitted /\ SaysPaid(work[w].event)
         /\ Intent(w) \in PaymentIntents /\ Intent(w) \in Ours
         /\ charge[Intent(w)] \in Received
         /\ payments[Intent(w)] \in PaymentState
  <1>1. /\ work[w] \in WorkState /\ Knows(work[w]) /\ work[w].event \in Events
        /\ work[w].event \in emitted /\ SaysPaid(work[w].event)
        /\ Intent(w) \in Ours
    BY DEF Intent, Inv, TypeOK, DeliveriesKnow, Knows, Refunding
  <1>2. Intent(w) \in PaymentIntents
    BY <1>1, EventParts DEF Intent
  <1>3. charge[Intent(w)] \in Received
    BY <1>1 DEF Inv, Money, Intent
  <1>4. payments[Intent(w)] \in PaymentState
    BY <1>2 DEF Inv, TypeOK, PaymentState, PaymentStatus
  <1>5. QED
    BY <1>1, <1>2, <1>3, <1>4

(* A refund's outcome is recorded, or was recorded already. *)
LEMMA SettleInv ==
  ASSUME Inv, NEW w \in Workers, work[w].pc = "answered", Goto(w, "mark"),
         NEW status \in {"refunded", "refund_failed"}, Settled(Intent(w), status),
         status = "refunded" => RefundMade(work[w].answer),
         UNCHANGED <<paymentStatus, inventory, deleted, processed, stripe, faults>>
  PROVE  Inv'
  <1> DEFINE pi == Intent(w)
  <1>1. /\ work[w] \in WorkState /\ Knows(work[w])
        /\ work[w].event \in emitted /\ SaysPaid(work[w].event)
        /\ pi \in PaymentIntents /\ charge[pi] \in Received
        /\ payments[pi] \in PaymentState
    BY AtPayment
  <1>2. /\ payments[pi].status \in Declined
        /\ status = "refunded" => charge[pi] = "returned"
    BY <1>1 DEF Knows, Refunding, Intent
  <1>3. PICK r \in WorkState : Become(w, r) /\ r.pc = "mark" /\ r.event = work[w].event
    <2>1. [work[w] EXCEPT !.pc = "mark"] \in WorkState
      BY <1>1 DEF WorkState, Steps
    <2>2. QED
      BY <1>1, <2>1 DEF Goto, WorkState
  <1>4. CASE StillDue(pi)
    <2>1. PICK q \in PaymentState :
            /\ q.status = status /\ q.attempts = payments[pi].attempts
            /\ payments' = [payments EXCEPT ![pi] = q]
      <3> DEFINE q == [payments[pi] EXCEPT !.status = status]
      <3>1. q \in PaymentState /\ q.status = status
            /\ q.attempts = payments[pi].attempts
        BY <1>1 DEF PaymentState, PaymentStatus
      <3>2. payments' = [payments EXCEPT ![pi] = q]
        BY <1>1, <1>4 DEF Settled, Inv, TypeOK
      <3>3. QED
        BY <3>1, <3>2
    <2>2. payments[pi].status = "refund_due" /\ payments[pi].attempts \in Nat
      BY <1>1, <1>4 DEF StillDue, PaymentState
    <2>3. payments'[pi] = q
      BY <1>1, <2>1 DEF Inv, TypeOK
    <2>4. Knows(r)'
      BY <1>1, <1>3, <2>1, <2>3 DEF Knows, Refunding, Final, stripe, Intent
    <2>5. \A x \in Workers \ {w} : ~SameClaim(r, work[x])
      BY <1>3 DEF SameClaim, Refunding
    <2>6. PaidOnce'
      <3>1. \A p \in PaymentIntents : payments'[p].status = "paid" <=> payments[p].status = "paid"
        BY <1>1, <2>1, <2>2 DEF Inv, TypeOK
      <3>2. \A o \in Orders : PaidFor(o)' = PaidFor(o)
        BY <3>1 DEF PaidFor
      <3>3. QED
        BY <3>2 DEF Inv, PaidOnce
    <2>7. /\ q.status \in Declined \cap Final /\ q.status # "none"
          /\ q.attempts >= payments[pi].attempts
      BY <2>1, <2>2 DEF Declined, Final
    <2>8. /\ UNCHANGED <<deleted, processed, charge, refundKey, emitted, acked, faults>>
          /\ paymentStatus' \in [Orders -> {"pending", "paid"}]
          /\ inventory' \in [Variants -> Nat]
      BY DEF stripe, Inv, TypeOK
    <2>9. QED
      BY <1>1, <1>2, <1>3, <2>1, <2>4, <2>5, <2>6, <2>7, <2>8, DecisionMoves
  <1>5. CASE ~StillDue(pi)
    <2>1. payments' = payments
      BY <1>5 DEF Settled
    <2>2. Knows(r)
      BY <1>1, <1>2, <1>3, <1>5 DEF Knows, Refunding, Final, StillDue, Declined, Intent
    <2>3. ProcessedIsDone'
      BY <2>1 DEF Inv, ProcessedIsDone
    <2>4. QED
      BY <1>3, <2>1, <2>2, <2>3, DeliveryMoves DEF Refunding, stripe, Inv, TypeOK
  <1>6. QED
    BY <1>4, <1>5

LEMMA MarkRefundInv ==
  ASSUME Inv, NEW w \in Workers, MarkRefund(w)
  PROVE  Inv'
  <1>1. CASE work[w].answer = "error" /\ Finish(w) /\ UNCHANGED payments
    <2>1. ProcessedIsDone'
      BY <1>1 DEF MarkRefund, Inv, ProcessedIsDone
    <2>2. QED
      BY <1>1, <2>1, FinishInv DEF MarkRefund, stripe, Inv, TypeOK
  <1>2. CASE work[w].answer # "error"
    BY <1>2, SettleInv DEF MarkRefund, RefundMade
  <1>3. QED
    BY <1>1, <1>2 DEF MarkRefund, RefundMade

(* Taking a covered Order's stock leaves no Variant below zero. *)
LEMMA LeftIsNat ==
  ASSUME TypeOK, NEW o \in Orders, Covered(o), NEW v \in Variants
  PROVE  Left(o, v) \in Nat
  <1>1. Lines[o][v] \in Nat /\ inventory[v] \in Nat
    BY DEF TypeOK
  <1>2. CASE Lines[o][v] > 0
    <2>1. inventory[v] >= Lines[o][v]
      BY <1>2 DEF Covered
    <2>2. QED
      BY <1>1, <2>1 DEF Left
  <1>3. CASE Lines[o][v] = 0
    BY <1>1, <1>3 DEF Left
  <1>4. QED
    BY <1>1, <1>2, <1>3

(* A payment without a row has its money held, and no delivery refunds it. *)
LEMMA NotYetDecided ==
  ASSUME Inv, NEW pi \in PaymentIntents, charge[pi] \in Received,
         payments[pi].status = "none"
  PROVE  /\ charge[pi] = "held" /\ payments[pi].attempts = 0
         /\ \A x \in Workers : Refunding(work[x]) => Intent(x) # pi
         /\ refundKey[pi][1] = "none"
  <1>1. charge[pi] = "held" /\ payments[pi].attempts = 0
    BY DEF Inv, Money, Received, Declined
  <1>2. \A x \in Workers : Refunding(work[x]) => Intent(x) # pi
    BY DEF Inv, DeliveriesKnow, Knows, Intent, Declined
  <1>3. refundKey[pi][1] = "none"
    BY <1>1 DEF Inv, UnusedKeys
  <1>4. QED
    BY <1>1, <1>2, <1>3

(* A payment is honoured: it is the only one that pays its Order. *)
LEMMA HonourInv ==
  ASSUME Inv, NEW w \in Workers, work[w].pc = "record",
         payments[Intent(w)].status = "none", Honourable(Intent(w)),
         payments' = [payments EXCEPT ![Intent(w)].status = "paid"],
         paymentStatus' = [paymentStatus EXCEPT ![OrderOf[Intent(w)]] = "paid"],
         inventory' = [v \in Variants |-> Left(OrderOf[Intent(w)], v)],
         Goto(w, "mark"),
         UNCHANGED <<deleted, processed, stripe, faults>>
  PROVE  Inv'
  <1> DEFINE pi == Intent(w)
  <1>1. /\ work[w] \in WorkState /\ Knows(work[w])
        /\ work[w].event \in emitted /\ SaysPaid(work[w].event)
        /\ pi \in PaymentIntents /\ charge[pi] \in Received
        /\ payments[pi] \in PaymentState
    BY AtPayment
  <1>2. charge[pi] = "held"
    BY <1>1, NotYetDecided
  <1>3. PICK o \in Orders :
          o = OrderOf[pi] /\ paymentStatus[o] = "pending" /\ Covered(o)
    BY <1>1 DEF Honourable
  <1>4. PICK r \in WorkState : Become(w, r) /\ r.pc = "mark" /\ r.event = work[w].event
    <2>1. [work[w] EXCEPT !.pc = "mark"] \in WorkState
      BY <1>1 DEF WorkState, Steps
    <2>2. QED
      BY <1>1, <2>1 DEF Goto, WorkState
  <1>5. PICK q \in PaymentState :
          /\ q.status = "paid" /\ q.attempts = payments[pi].attempts
          /\ payments' = [payments EXCEPT ![pi] = q]
    <2> DEFINE q == [payments[pi] EXCEPT !.status = "paid"]
    <2>1. q \in PaymentState /\ q.status = "paid" /\ q.attempts = payments[pi].attempts
      BY <1>1 DEF PaymentState, PaymentStatus
    <2>2. payments' = [payments EXCEPT ![pi] = q]
      BY <1>1 DEF Inv, TypeOK
    <2>3. QED
      BY <2>1, <2>2
  <1>6. /\ payments'[pi] = q
        /\ \A p \in PaymentIntents \ {pi} : payments'[p] = payments[p]
    BY <1>1, <1>5 DEF Inv, TypeOK
  <1>7. Knows(r)'
    BY <1>1, <1>4, <1>5, <1>6 DEF Knows, Refunding, Final, stripe, Intent
  <1>8. /\ paymentStatus' \in [Orders -> {"pending", "paid"}]
        /\ inventory' \in [Variants -> Nat]
    BY <1>3, LeftIsNat DEF Inv, TypeOK
  <1>9. PaidOnce'
    <2>1. PaidFor(o) = {}
      BY <1>3 DEF Inv, PaidOnce
    <2>2. PaidFor(o)' = {pi}
      BY <1>1, <1>3, <1>5, <1>6, <2>1 DEF PaidFor
    <2>3. \A x \in Orders \ {o} : PaidFor(x)' = PaidFor(x)
      BY <1>1, <1>3, <1>6 DEF PaidFor
    <2>4. \A x \in Orders : paymentStatus'[x] = IF x = o THEN "paid" ELSE paymentStatus[x]
      BY <1>3 DEF Inv, TypeOK
    <2>5. QED
      BY <1>1, <2>2, <2>3, <2>4 DEF Inv, PaidOnce
  <1>10. /\ UNCHANGED <<deleted, processed, charge, refundKey, emitted, acked, faults>>
         /\ q.attempts >= payments[pi].attempts
         /\ \A x \in Workers \ {w} : ~SameClaim(r, work[x])
         /\ payments[pi].status \notin Declined /\ payments[pi].status \notin Final
    <2>1. payments[pi].attempts \in Nat
      BY <1>1 DEF PaymentState
    <2>2. QED
      BY <1>4, <1>5, <2>1 DEF stripe, SameClaim, Refunding, Declined, Final
  <1>11. QED
    BY <1>1, <1>2, <1>4, <1>5, <1>7, <1>8, <1>9, <1>10, DecisionMoves

(* A refund attempt is claimed, the first or the next: its key is unused and
   no other delivery has it. *)
LEMMA ClaimInv ==
  ASSUME Inv, NEW w \in Workers, work[w].pc = "record",
         NEW n \in Attempts, n = payments[Intent(w)].attempts + 1,
         payments[Intent(w)].status \in {"none", "refund_due"},
         payments' = [payments EXCEPT ![Intent(w)] =
                        [status |-> "refund_due", attempts |-> n]],
         Become(w, [work[w] EXCEPT !.pc = "refund", !.attempt = n]),
         UNCHANGED <<paymentStatus, inventory, deleted, processed, stripe, faults>>
  PROVE  Inv'
  <1> DEFINE pi == Intent(w)
             q  == [status |-> "refund_due", attempts |-> n]
  <1>1. /\ work[w] \in WorkState /\ Knows(work[w])
        /\ work[w].event \in emitted /\ SaysPaid(work[w].event)
        /\ pi \in PaymentIntents /\ charge[pi] \in Received
        /\ payments[pi] \in PaymentState
    BY AtPayment
  <1>2. /\ q \in PaymentState /\ payments[pi].attempts \in Nat
        /\ q.attempts = n /\ q.status = "refund_due"
    BY <1>1 DEF PaymentState, PaymentStatus
  <1>3. PICK r \in WorkState :
          /\ Become(w, r) /\ r.pc = "refund" /\ r.attempt = n
          /\ r.event = work[w].event
    <2> DEFINE r == [work[w] EXCEPT !.pc = "refund", !.attempt = n]
    <2>1. n \in 0..MaxRefunds /\ "refund" \in Steps
      BY DEF Steps
    <2>2. /\ r \in WorkState /\ r.pc = "refund" /\ r.attempt = n
          /\ r.event = work[w].event
      BY <1>1, <2>1 DEF WorkState
    <2>3. QED
      BY <2>2
  <1> HIDE DEF q
  <1>4. payments' = [payments EXCEPT ![pi] = q] /\ payments'[pi] = q
    BY <1>1 DEF q, Inv, TypeOK
  <1>5. refundKey[pi][n] = "none"
    BY <1>1, <1>2 DEF Inv, UnusedKeys
  <1>6. Knows(r)'
    <2>1. n \in 1..q.attempts /\ q.status \in Declined
      BY <1>2 DEF Declined
    <2>2. QED
      BY <1>1, <1>3, <1>4, <1>5, <2>1 DEF Knows, Refunding, stripe, Intent
  <1>7. \A x \in Workers \ {w} : ~SameClaim(r, work[x])
    <2> SUFFICES ASSUME NEW x \in Workers, Refunding(work[x]), Intent(x) = pi
                 PROVE  work[x].attempt # n
      BY <1>3 DEF SameClaim, Intent
    <2>1. work[x].attempt \in 1..payments[pi].attempts
      BY DEF Inv, DeliveriesKnow, Knows, Intent
    <2>2. QED
      BY <1>2, <2>1
  <1>8. PaidOnce'
    <2>1. \A p \in PaymentIntents : payments'[p].status = "paid" <=> payments[p].status = "paid"
      BY <1>1, <1>2, <1>4 DEF Inv, TypeOK
    <2>2. \A o \in Orders : PaidFor(o)' = PaidFor(o)
      BY <2>1 DEF PaidFor
    <2>3. QED
      BY <2>2 DEF Inv, PaidOnce
  <1>9. /\ UNCHANGED <<deleted, processed, charge, refundKey, emitted, acked, faults>>
        /\ paymentStatus' \in [Orders -> {"pending", "paid"}]
        /\ inventory' \in [Variants -> Nat]
    BY DEF stripe, Inv, TypeOK
  <1>10. /\ q.status # "none" /\ q.status # "refunded" /\ q.status \in Declined
         /\ q.attempts >= payments[pi].attempts
         /\ payments[pi].status \notin Final
    BY <1>2 DEF Declined, Final
  <1>11. QED
    BY <1>1, <1>2, <1>3, <1>4, <1>6, <1>7, <1>8, <1>9, <1>10, DecisionMoves

LEMMA RecordPaymentInv ==
  ASSUME Inv, NEW w \in Workers, RecordPayment(w)
  PROVE  Inv'
  <1> DEFINE pi == Intent(w)
             n  == payments[pi].attempts + 1
  <1>1. work[w].pc = "record" /\ UNCHANGED <<deleted, processed, stripe, faults>>
    BY DEF RecordPayment
  <1>2. /\ work[w] \in WorkState /\ Knows(work[w])
        /\ work[w].event \in emitted /\ SaysPaid(work[w].event)
        /\ pi \in PaymentIntents /\ charge[pi] \in Received
        /\ payments[pi] \in PaymentState
    BY <1>1, AtPayment
  <1>3. CASE NewPayment(w) /\ Honourable(pi)
    BY <1>1, <1>3, HonourInv DEF NewPayment
  <1>4. CASE NewPayment(w) /\ ~Honourable(pi)
    <2>1. PICK m \in Attempts : m = 1 /\ m = payments[pi].attempts + 1
      BY <1>2, <1>4, NotYetDecided DEF NewPayment
    <2>2. /\ payments[pi].status \in {"none", "refund_due"}
          /\ payments' = [payments EXCEPT ![pi] = [status |-> "refund_due", attempts |-> m]]
          /\ Become(w, [work[w] EXCEPT !.pc = "refund", !.attempt = m])
          /\ UNCHANGED <<paymentStatus, inventory>>
      BY <1>4, <2>1 DEF NewPayment
    <2>3. QED
      BY <1>1, <2>1, <2>2, ClaimInv
  <1>5. CASE KnownPayment(w) /\ StillDue(pi)
    <2>1. n \in Attempts /\ n <= MaxRefunds
      BY <1>2, <1>5 DEF KnownPayment, NextAttempt, PaymentState
    <2>2. [payments[pi] EXCEPT !.attempts = n] = [status |-> "refund_due", attempts |-> n]
      BY <1>2, <1>5 DEF StillDue, PaymentState
    <2>3. payments' = [payments EXCEPT ![pi] = [status |-> "refund_due", attempts |-> n]]
      BY <1>2, <1>5, <2>2 DEF KnownPayment, NextAttempt, Inv, TypeOK
    <2>4. QED
      BY <1>1, <1>5, <2>1, <2>3, ClaimInv DEF KnownPayment, NextAttempt, StillDue
  <1>6. CASE KnownPayment(w) /\ ~StillDue(pi)
    <2>1. PICK r \in WorkState : Become(w, r) /\ r.pc = "mark" /\ r.event = work[w].event
      <3>1. [work[w] EXCEPT !.pc = "mark"] \in WorkState
        BY <1>2 DEF WorkState, Steps
      <3>2. QED
        BY <1>2, <1>6, <3>1 DEF KnownPayment, Goto, WorkState
    <2>2. payments[pi].status \in Final
      BY <1>2, <1>6 DEF KnownPayment, StillDue, PaymentState, PaymentStatus, Final
    <2>3. Knows(r) /\ ~Refunding(r)
      BY <1>2, <2>1, <2>2 DEF Knows, Refunding, Intent
    <2>4. UNCHANGED <<paymentStatus, inventory, payments>> /\ ProcessedIsDone'
      BY <1>1, <1>6 DEF KnownPayment, Inv, ProcessedIsDone
    <2>5. QED
      BY <1>1, <2>1, <2>3, <2>4, DeliveryMoves DEF stripe, Inv, TypeOK
  <1>7. QED
    BY <1>3, <1>4, <1>5, <1>6 DEF RecordPayment, NewPayment, KnownPayment

-----------------------------------------------------------------------------
(* The Customer and Stripe; the Merchant. *)

(* A payment moves on at Stripe: one nothing was recorded of. *)
LEMMA PaysInv ==
  ASSUME Inv, NEW pi \in PaymentIntents, NEW from \in {"unpaid", "processing"},
         NEW to \in Charge \ {"returned"}, NEW kinds \in SUBSET Kinds,
         Pays(pi, from, to, kinds),
         to = "held" \/ kinds \cap PaidKinds = {}
  PROVE  Inv'
  <1>1. /\ charge[pi] = from /\ charge' = [charge EXCEPT ![pi] = to]
        /\ emitted' = emitted \cup {<<pi, k>> : k \in kinds}
        /\ UNCHANGED <<db, refundKey, acked, work, faults>>
    BY DEF Pays
  <1>2. charge[pi] \notin Received /\ payments[pi].status = "none"
    BY <1>1 DEF Received, Inv, Money
  <1>3. \A k \in kinds : <<pi, k>> \in Events
    BY DEF Events
  <1>4. TypeOK'
    BY <1>1, <1>3 DEF db, Inv, TypeOK
  <1>5. \A p \in PaymentIntents :
          charge'[p] = IF p = pi THEN to ELSE charge[p]
    BY <1>1 DEF Inv, TypeOK
  <1>6. DeliveriesKnow'
    <2> SUFFICES ASSUME NEW x \in Workers PROVE Knows(work[x])'
      BY DEF DeliveriesKnow
    <2>1. PICK q \in WorkState : q = work[x] /\ work'[x] = q
      BY <1>1 DEF Inv, TypeOK
    <2>2. Knows(q)
      BY <2>1 DEF Inv, DeliveriesKnow, Knows, Refunding
    <2>3. \A p \in PaymentIntents : charge[p] = "returned" => charge'[p] = "returned"
      BY <1>1, <1>5
    <2>4. \A p \in PaymentIntents : payments[p].attempts \in Nat
      BY DEF Inv, TypeOK
    <2>5. Knows(q)'
      BY <1>1, <1>4, <2>2, <2>3, <2>4, KnowledgeKept DEF db, Inv
    <2>6. QED
      BY <2>1, <2>5 DEF Knows, Refunding
  <1>7. Money'
    <2>1. \A e \in emitted' : SaysPaid(e) => charge'[e[1]] \in Received
      <3> SUFFICES ASSUME NEW e \in emitted', SaysPaid(e)
                   PROVE  charge'[e[1]] \in Received
        OBVIOUS
      <3>1. e[1] \in PaymentIntents
        BY <1>4, EventParts DEF TypeOK
      <3>2. CASE e \in emitted
        BY <1>2, <1>5, <3>1, <3>2 DEF Inv, Money
      <3>3. CASE e \notin emitted
        <4>1. PICK k \in kinds : e = <<pi, k>>
          BY <1>1, <3>3
        <4>2. e[1] = pi /\ k \in PaidKinds
          BY <4>1 DEF SaysPaid
        <4>3. to = "held"
          BY <4>2
        <4>4. QED
          BY <1>5, <4>2, <4>3 DEF Received
      <3>4. QED
        BY <3>2, <3>3
    <2>2. \A p \in PaymentIntents :
            /\ payments[p].status # "none" => charge'[p] \in Received
            /\ charge'[p] = "returned" => payments[p].status \in Declined
            /\ payments[p].status = "refunded" => charge'[p] = "returned"
            /\ \A n \in Attempts :
                 RefundMade(refundKey[p][n]) => charge'[p] = "returned"
      BY <1>1, <1>2, <1>5 DEF Inv, Money
    <2>3. QED
      BY <1>1, <2>1, <2>2 DEF db, Inv, Money, RefundMade, SaysPaid
  <1>8. UnusedKeys' /\ OwnAttempt'
    BY <1>1 DEF db, Inv, UnusedKeys, OwnAttempt, SameClaim, Refunding
  <1>9. ProcessedIsDone' /\ PaidOnce'
    BY <1>1 DEF db, Inv, ProcessedIsDone, PaidOnce, PaidFor
  <1>10. QED
    BY <1>4, <1>6, <1>7, <1>8, <1>9 DEF Inv

LEMMA DeleteProductInv ==
  ASSUME Inv, NEW v \in Variants, DeleteProduct(v)
  PROVE  Inv'
  <1>1. UNCHANGED <<paymentStatus, inventory, payments, processed, stripe, work, faults>>
    BY DEF DeleteProduct
  <1>2. TypeOK'
    BY <1>1 DEF DeleteProduct, stripe, Inv, TypeOK
  <1>3. DeliveriesKnow'
    BY <1>1 DEF stripe, Inv, DeliveriesKnow, Knows, Refunding
  <1>4. Money' /\ UnusedKeys' /\ OwnAttempt'
    BY <1>1 DEF stripe, Inv, Money, UnusedKeys, OwnAttempt, SameClaim, Refunding
  <1>5. ProcessedIsDone' /\ PaidOnce'
    BY <1>1 DEF Inv, ProcessedIsDone, PaidOnce, PaidFor
  <1>6. QED
    BY <1>2, <1>3, <1>4, <1>5 DEF Inv

LEMMA EnvironmentInv ==
  ASSUME Inv, Environment
  PROVE  Inv'
  <1>1. ASSUME NEW pi \in PaymentIntents,
               \/ CompletesPaid(pi) \/ CompletesUnpaid(pi) \/ SucceedsAtOnce(pi)
               \/ DelayedSucceeds(pi) \/ DelayedFails(pi)
        PROVE  Inv'
    <2>1. {"held", "processing", "failed"} \subseteq Charge \ {"returned"}
      BY DEF Charge
    <2>2. CASE CompletesPaid(pi)
      BY <2>1, <2>2, PaysInv DEF CompletesPaid, Kinds, PaidKinds
    <2>3. CASE CompletesUnpaid(pi)
      BY <2>1, <2>3, PaysInv DEF CompletesUnpaid, Kinds, PaidKinds
    <2>4. CASE SucceedsAtOnce(pi)
      BY <2>1, <2>4, PaysInv DEF SucceedsAtOnce, Kinds
    <2>5. CASE DelayedSucceeds(pi)
      BY <2>1, <2>5, PaysInv DEF DelayedSucceeds, Kinds, PaidKinds
    <2>6. CASE DelayedFails(pi)
      BY <2>1, <2>6, PaysInv DEF DelayedFails, Kinds, PaidKinds
    <2>7. QED
      BY <1>1, <2>2, <2>3, <2>4, <2>5, <2>6
  <1>2. QED
    BY <1>1, DeleteProductInv DEF Environment

LEMMA StutterInv == Inv /\ UNCHANGED vars => Inv'
  <1> SUFFICES ASSUME Inv, UNCHANGED vars PROVE Inv'
    OBVIOUS
  <1>1. UNCHANGED <<db, stripe, work, faults>>
    BY DEF vars
  <1>2. TypeOK'
    BY <1>1 DEF db, stripe, Inv, TypeOK
  <1>3. DeliveriesKnow'
    BY <1>1 DEF db, stripe, Inv, DeliveriesKnow, Knows, Refunding
  <1>4. Money' /\ UnusedKeys' /\ OwnAttempt'
    BY <1>1 DEF db, stripe, Inv, Money, UnusedKeys, OwnAttempt, SameClaim, Refunding
  <1>5. ProcessedIsDone' /\ PaidOnce'
    BY <1>1 DEF db, Inv, ProcessedIsDone, PaidOnce, PaidFor
  <1>6. QED
    BY <1>2, <1>3, <1>4, <1>5 DEF Inv

-----------------------------------------------------------------------------
(* Every step keeps Inv. *)
LEMMA StepInv == Inv /\ [Next]_vars => Inv'
  <1> SUFFICES ASSUME Inv, [Next]_vars PROVE Inv'
    OBVIOUS
  <1>1. CASE UNCHANGED vars
    BY <1>1, StutterInv
  <1>2. CASE Environment
    BY <1>2, EnvironmentInv
  <1>3. ASSUME NEW w \in Workers, WorkerProgress(w)
        PROVE  Inv'
    BY <1>3, CheckInv, RecordPaymentInv, RefundInv, MarkRefundInv, MarkProcessedInv
       DEF WorkerProgress
  <1>4. ASSUME NEW w \in Workers, Resend(w) \/ Fail(w)
        PROVE  Inv'
    BY <1>4, ResendInv, FailInv
  <1>5. ASSUME NEW w \in Workers, NEW e \in Events, Deliver(w, e)
        PROVE  Inv'
    BY <1>5, DeliverInv
  <1>6. QED
    BY <1>1, <1>2, <1>3, <1>4, <1>5 DEF Next

(* The invariant holds in every state of every run of the webhook. *)
THEOREM WebhookInvariant == Spec => []Inv
  BY InitInv, StepInv, PTL DEF Spec

(* Every variable keeps its type: no Variant's stock goes below zero, no
   payment uses more attempts than the bound, only created events are
   answered. *)
THEOREM WebhookTypes == Spec => []TypeOK
  <1>1. Inv => TypeOK
    BY DEF Inv
  <1>2. QED
    BY <1>1, WebhookInvariant, PTL

(* An Order is paid by exactly one Payment, and a pending Order by none,
   however many events, deliveries and retries race (recordStripePayment). *)
THEOREM OnePaymentPerOrder == Spec => []PaidByExactlyOne
  <1>1. Inv => PaidByExactlyOne
    <2> SUFFICES ASSUME Inv, NEW o \in Orders
                 PROVE  Cardinality(PaidFor(o)) = IF paymentStatus[o] = "paid" THEN 1 ELSE 0
      BY DEF PaidByExactlyOne
    <2>1. CASE paymentStatus[o] = "paid"
      <3>1. PICK pi \in PaymentIntents : PaidFor(o) = {pi}
        BY <2>1 DEF Inv, PaidOnce
      <3>2. QED
        BY <2>1, <3>1, FS_Singleton
    <2>2. CASE paymentStatus[o] = "pending"
      <3>1. PaidFor(o) = {}
        BY <2>2 DEF Inv, PaidOnce
      <3>2. QED
        BY <2>2, <3>1, FS_EmptySet
    <2>3. QED
      BY <2>1, <2>2 DEF Inv, TypeOK
  <1>2. QED
    BY <1>1, WebhookInvariant, PTL

(* Money goes back only for a declined Payment (webhook.ts refunds what
   recordStripePayment found refund_due, and nothing else). *)
THEOREM OnlyDeclinedPaymentsReturned == Spec => []OnlyDeclinedReturned
  <1>1. Inv => OnlyDeclinedReturned
    BY DEF Inv, Money, Declined, OnlyDeclinedReturned
  <1>2. QED
    BY <1>1, WebhookInvariant, PTL

(* A Payment recorded refunded is refunded, so Pay may open the Order again. *)
THEOREM RefundedPaymentsReturned == Spec => []RefundedIsReturned
  <1>1. Inv => RefundedIsReturned
    BY DEF Inv, Money, RefundedIsReturned
  <1>2. QED
    BY <1>1, WebhookInvariant, PTL

(* An event is processed only once the Payment it reports is decided and
   settled, whichever delivery of it got there. *)
THEOREM ProcessedEventsAreDone == Spec => []ProcessedIsDone
  <1>1. Inv => ProcessedIsDone
    BY DEF Inv
  <1>2. QED
    BY <1>1, WebhookInvariant, PTL

(* No claimed refund attempt meets the answer Stripe keeps for another. *)
THEOREM RefundKeysAreFresh == Spec => []FreshRefundKey
  <1>1. Inv => FreshRefundKey
    BY DEF Inv, DeliveriesKnow, Knows, Intent, FreshRefundKey
  <1>2. QED
    BY <1>1, WebhookInvariant, PTL

-----------------------------------------------------------------------------
(***************************************************************************)
(* The webhook implements the Ledger: each step of each delivery is a step *)
(* of the Ledger, or changes nothing that the Ledger shows.  Inv says why: *)
(* what a delivery remembers of its payment is still so when it acts on it.*)
(***************************************************************************)
(* What the Ledger calls fate. *)
Fates == [pi \in Ours |-> Fate(pi)]

LEMMA FateOf ==
  ASSUME NEW pi \in PaymentIntents
  PROVE  /\ charge[pi] = "returned" => Fate(pi) = "returned"
         /\ charge[pi] \notin Received => Fate(pi) = "none"
         /\ charge[pi] = "held" =>
              /\ payments[pi].status = "none" => Fate(pi) = "held"
              /\ payments[pi].status = "paid" => Fate(pi) = "sold"
              /\ payments[pi].status = "refund_failed" => Fate(pi) = "stuck"
              /\ payments[pi].status = "refund_due" => Fate(pi) = "owed"
  BY DEF Fate, Received

(* A payment keeps its fate when its money stays where it is and its status
   stays what it is. *)
LEMMA FateKept ==
  ASSUME NEW pi \in PaymentIntents, charge'[pi] = charge[pi],
         payments'[pi].status = payments[pi].status
  PROVE  Fate(pi)' = Fate(pi)
  BY DEF Fate

LEMMA OnlyOneMoves ==
  ASSUME NEW pi \in Ours, NEW to, Fate(pi)' = to,
         \A p \in Ours \ {pi} : Fate(p)' = Fate(p)
  PROVE  Fates' = [Fates EXCEPT ![pi] = to]
  BY DEF Fates

LEMMA NoneMoves ==
  ASSUME \A p \in Ours : Fate(p)' = Fate(p),
         UNCHANGED <<paymentStatus, inventory, deleted>>
  PROVE  UNCHANGED L!vars
  <1>1. Fates' = Fates
    BY DEF Fates
  <1>2. QED
    BY <1>1 DEF L!vars, Fates

LEMMA OursArePayments == Ours \subseteq PaymentIntents
  BY DEF Ours

(* Steps that move no money and decide nothing. *)
LEMMA QuietStep ==
  ASSUME UNCHANGED <<paymentStatus, inventory, deleted, payments, charge>>
  PROVE  UNCHANGED L!vars
  <1>1. \A p \in Ours : Fate(p)' = Fate(p)
    BY FateKept, OursArePayments
  <1>2. QED
    BY <1>1, NoneMoves

(* The initial states. *)
LEMMA LedgerInit == Init => L!Init
  <1> SUFFICES ASSUME Init PROVE L!Init
    OBVIOUS
  <1>1. \A pi \in Ours : Fate(pi) = "none"
    BY FateOf, OursArePayments DEF Init, Received
  <1>2. QED
    BY <1>1 DEF Init, L!Init

-----------------------------------------------------------------------------
LEMMA CaptureStep ==
  ASSUME NEW pi \in PaymentIntents, NEW from, NEW to, NEW kinds,
         Inv, Pays(pi, from, to, kinds), from \notin Received, to # "returned"
  PROVE  L!Next \/ UNCHANGED L!vars
  <1>1. /\ charge[pi] = from /\ charge' = [charge EXCEPT ![pi] = to]
        /\ UNCHANGED <<paymentStatus, inventory, deleted, payments>>
        /\ charge'[pi] = to
        /\ \A p \in PaymentIntents \ {pi} : charge'[p] = charge[p]
    BY DEF Pays, db, Inv, TypeOK
  <1>2. payments[pi].status = "none" /\ Fate(pi) = "none"
    BY <1>1, FateOf DEF Inv, Money
  <1>3. \A p \in Ours \ {pi} : Fate(p)' = Fate(p)
    BY <1>1, FateKept, OursArePayments
  <1>4. CASE pi \in Ours /\ to = "held"
    <2>1. Fate(pi)' = "held"
      BY <1>1, <1>2, <1>4 DEF Fate
    <2>2. Fates' = [Fates EXCEPT ![pi] = "held"]
      BY <1>3, <1>4, <2>1, OnlyOneMoves
    <2>3. L!Capture(pi)
      BY <1>1, <1>2, <1>4, <2>2 DEF L!Capture, L!Moves, Fates
    <2>4. QED
      BY <1>4, <2>3 DEF L!Next
  <1>5. CASE pi \notin Ours
    BY <1>1, <1>3, <1>5, NoneMoves
  <1>6. CASE to # "held"
    <2>1. Fate(pi)' = "none"
      BY <1>1, <1>6 DEF Fate
    <2>2. QED
      BY <1>1, <1>2, <1>3, <2>1, NoneMoves
  <1>7. QED
    BY <1>4, <1>5, <1>6

LEMMA EnvironmentStep ==
  ASSUME Inv, Environment
  PROVE  L!Next \/ UNCHANGED L!vars
  <1>1. ASSUME NEW pi \in PaymentIntents,
               \/ CompletesPaid(pi) \/ CompletesUnpaid(pi) \/ SucceedsAtOnce(pi)
               \/ DelayedSucceeds(pi) \/ DelayedFails(pi)
        PROVE  L!Next \/ UNCHANGED L!vars
    BY <1>1, CaptureStep DEF CompletesPaid, CompletesUnpaid, SucceedsAtOnce,
       DelayedSucceeds, DelayedFails, Received
  <1>2. ASSUME NEW v \in Variants, DeleteProduct(v)
        PROVE  L!Next
    <2>1. /\ UNCHANGED <<paymentStatus, inventory, payments, charge>>
          /\ v \notin deleted /\ deleted' = deleted \cup {v}
      BY <1>2 DEF DeleteProduct, stripe
    <2>2. \A p \in Ours : Fate(p)' = Fate(p)
      BY <2>1, FateKept, OursArePayments
    <2>3. L!DeleteProduct(v)
      BY <2>1, <2>2 DEF L!DeleteProduct
    <2>4. QED
      BY <2>3 DEF L!Next
  <1>3. QED
    BY <1>1, <1>2 DEF Environment

(* A payment is judged as the Ledger says: its delivery is the first to
   record it, and decides by the Order and the stock of that moment. *)
LEMMA SameJudgement ==
  ASSUME NEW pi \in Ours
  PROVE  Honourable(pi) <=> L!Honourable(pi)
  BY OursArePayments DEF Honourable, L!Honourable, Covered, L!Covered, Ours

LEMMA NewPaymentStep ==
  ASSUME Inv, NEW w \in Workers, RecordPayment(w), NewPayment(w)
  PROVE  L!Next
  <1>1. PICK pi \in Ours :
          /\ pi = Intent(w) /\ pi \in PaymentIntents /\ charge[pi] = "held"
          /\ payments[pi] \in PaymentState /\ payments[pi].status = "none"
          /\ UNCHANGED <<charge, deleted>>
    <2>1. work[w].pc = "record" /\ UNCHANGED <<charge, deleted>>
      BY DEF RecordPayment, stripe
    <2>2. /\ Intent(w) \in Ours /\ Intent(w) \in PaymentIntents
          /\ charge[Intent(w)] \in Received
          /\ payments[Intent(w)] \in PaymentState /\ payments[Intent(w)].status = "none"
      BY <2>1, AtPayment DEF NewPayment
    <2>3. QED
      BY <2>1, <2>2, NotYetDecided
  <1> DEFINE o == OrderOf[pi]
  <1>2. Fate(pi) = "held"
    BY <1>1, FateOf
  <1>3. CASE Honourable(pi)
    <2>1. /\ payments' = [payments EXCEPT ![pi].status = "paid"]
          /\ paymentStatus' = [paymentStatus EXCEPT ![o] = "paid"]
          /\ inventory' = [v \in Variants |-> Left(o, v)]
      BY <1>1, <1>3 DEF NewPayment
    <2>2. /\ payments'[pi].status = "paid"
          /\ \A p \in PaymentIntents \ {pi} : payments'[p] = payments[p]
      BY <1>1, <2>1 DEF PaymentState, Inv, TypeOK
    <2>3. Fate(pi)' = "sold"
      BY <1>1, <2>2 DEF Fate
    <2>4. Fates' = [Fates EXCEPT ![pi] = "sold"]
      BY <1>1, <2>2, <2>3, FateKept, OursArePayments, OnlyOneMoves
    <2>5. L!Moves(pi, {"held"}, "sold")
      BY <1>1, <1>2, <2>4 DEF L!Moves, Fates
    <2>6. L!Honourable(pi)
      BY <1>1, <1>3, SameJudgement
    <2>7. L!Honour(pi)
      BY <1>1, <2>1, <2>5, <2>6 DEF L!Honour, Left
    <2>8. QED
      BY <1>1, <2>7 DEF L!Next, L!Judge
  <1>4. CASE ~Honourable(pi)
    <2>1. /\ payments' = [payments EXCEPT ![pi] = [status |-> "refund_due", attempts |-> 1]]
          /\ UNCHANGED <<paymentStatus, inventory>>
      BY <1>1, <1>4 DEF NewPayment
    <2>2. /\ payments'[pi].status = "refund_due"
          /\ \A p \in PaymentIntents \ {pi} : payments'[p] = payments[p]
      BY <1>1, <2>1 DEF Inv, TypeOK
    <2>3. Fate(pi)' = "owed"
      BY <1>1, <2>2 DEF Fate
    <2>4. Fates' = [Fates EXCEPT ![pi] = "owed"]
      BY <1>1, <2>2, <2>3, FateKept, OursArePayments, OnlyOneMoves
    <2>5. L!Moves(pi, {"held"}, "owed")
      BY <1>1, <1>2, <2>4 DEF L!Moves, Fates
    <2>6. ~L!Honourable(pi)
      BY <1>1, <1>4, SameJudgement
    <2>7. L!Decline(pi)
      BY <1>1, <2>1, <2>5, <2>6 DEF L!Decline
    <2>8. QED
      BY <1>1, <2>7 DEF L!Next, L!Judge
  <1>5. QED
    BY <1>3, <1>4

(* Trying a refund again decides nothing. *)
LEMMA KnownPaymentStep ==
  ASSUME Inv, NEW w \in Workers, RecordPayment(w), KnownPayment(w)
  PROVE  UNCHANGED L!vars
  <1>1. UNCHANGED <<paymentStatus, inventory, deleted, charge>>
    BY DEF RecordPayment, KnownPayment, stripe
  <1>2. \A p \in PaymentIntents : payments'[p].status = payments[p].status
    <2>1. payments \in [PaymentIntents -> PaymentState]
      BY DEF Inv, TypeOK, PaymentState, PaymentStatus
    <2>2. QED
      BY <2>1 DEF KnownPayment, PaymentState
  <1>3. \A p \in Ours : Fate(p)' = Fate(p)
    BY <1>1, <1>2, FateKept, OursArePayments
  <1>4. QED
    BY <1>1, <1>3, NoneMoves

(* A refund is made only of a payment that is owed, or was given up. *)
LEMMA RefundStep ==
  ASSUME Inv, NEW w \in Workers, Refund(w)
  PROVE  L!Next \/ UNCHANGED L!vars
  <1>1. PICK pi \in Ours :
          /\ pi = Intent(w) /\ pi \in PaymentIntents /\ charge[pi] \in Received
          /\ payments[pi].status \in Declined
          /\ UNCHANGED <<paymentStatus, inventory, deleted, payments>>
    <2>1. work[w].pc = "refund" /\ UNCHANGED <<paymentStatus, inventory, deleted, payments>>
      BY DEF Refund, db
    <2>2. QED
      BY <2>1, AtPayment DEF Knows, Refunding, Intent
  <1>2. CASE UNCHANGED charge
    BY <1>1, <1>2, QuietStep
  <1>3. CASE charge[pi] = "held" /\ charge' = [charge EXCEPT ![pi] = "returned"]
    <2>1. payments[pi].status \in {"refund_due", "refund_failed"}
      BY <1>1, <1>3 DEF Declined, Inv, Money
    <2>2. Fate(pi) \in {"owed", "stuck"}
      BY <1>1, <1>3, <2>1, FateOf
    <2>3. /\ charge'[pi] = "returned"
          /\ \A p \in PaymentIntents \ {pi} : charge'[p] = charge[p]
      BY <1>1, <1>3 DEF Inv, TypeOK
    <2>4. Fate(pi)' = "returned"
      BY <2>3 DEF Fate
    <2>5. Fates' = [Fates EXCEPT ![pi] = "returned"]
      BY <1>1, <2>3, <2>4, FateKept, OursArePayments, OnlyOneMoves
    <2>6. L!Return(pi)
      BY <1>1, <2>2, <2>5 DEF L!Return, L!GivesBack, L!Moves, Fates
    <2>7. QED
      BY <1>1, <2>6 DEF L!Next
  <1>4. QED
    BY <1>1, <1>2, <1>3 DEF Refund

(* The outcome of a refund settles an owed payment; it cannot undo a refund. *)
LEMMA MarkRefundStep ==
  ASSUME Inv, NEW w \in Workers, MarkRefund(w)
  PROVE  L!Next \/ UNCHANGED L!vars
  <1>1. PICK pi \in Ours :
          /\ pi = Intent(w) /\ pi \in PaymentIntents /\ charge[pi] \in Received
          /\ payments[pi] \in PaymentState
          /\ Knows(work[w]) /\ work[w].pc = "answered"
          /\ UNCHANGED <<paymentStatus, inventory, deleted, charge>>
    <2>1. /\ work[w].pc = "answered"
          /\ UNCHANGED <<paymentStatus, inventory, deleted, charge>>
      BY DEF MarkRefund, stripe
    <2>2. QED
      BY <2>1, AtPayment
  <1>2. PICK status \in {"refunded", "refund_failed"} :
          \/ UNCHANGED payments
          \/ /\ payments[pi].status = "refund_due"
             /\ payments' = [payments EXCEPT ![pi].status = status]
             /\ status = "refunded" => RefundMade(work[w].answer)
    BY <1>1 DEF MarkRefund, Settled, StillDue
  <1>3. CASE UNCHANGED payments
    BY <1>1, <1>3, QuietStep
  <1>4. CASE /\ payments[pi].status = "refund_due"
             /\ payments' = [payments EXCEPT ![pi].status = status]
             /\ status = "refunded" => RefundMade(work[w].answer)
    <2>1. /\ payments'[pi].status = status
          /\ \A p \in PaymentIntents \ {pi} : payments'[p] = payments[p]
      BY <1>1, <1>4 DEF PaymentState, Inv, TypeOK
    <2>2. \A p \in Ours \ {pi} : Fate(p)' = Fate(p)
      BY <1>1, <2>1, FateKept, OursArePayments
    <2>3. CASE charge[pi] = "returned"
      <3>1. Fate(pi)' = Fate(pi)
        BY <1>1, <2>3 DEF Fate
      <3>2. QED
        BY <1>1, <2>2, <3>1, NoneMoves
    <2>4. CASE charge[pi] = "held"
      <3>1. status = "refund_failed"
        BY <1>1, <1>4, <2>4 DEF Knows, Intent
      <3>2. Fate(pi) = "owed" /\ Fate(pi)' = "stuck"
        BY <1>1, <1>4, <2>1, <2>4, <3>1 DEF Fate
      <3>3. Fates' = [Fates EXCEPT ![pi] = "stuck"]
        BY <1>1, <2>2, <3>2, OnlyOneMoves
      <3>4. L!GiveUp(pi)
        BY <1>1, <3>2, <3>3 DEF L!GiveUp, L!Moves, Fates
      <3>5. QED
        BY <1>1, <3>4 DEF L!Next
    <2>5. QED
      BY <1>1, <2>3, <2>4 DEF Received
  <1>5. QED
    BY <1>2, <1>3, <1>4

(* Every step of the webhook is a step of the Ledger, or leaves it alone. *)
LEMMA LedgerStep ==
  ASSUME Inv, [Next]_vars
  PROVE  [L!Next]_(L!vars)
  <1>1. CASE UNCHANGED vars
    BY <1>1, QuietStep DEF vars, db, stripe
  <1>2. CASE Environment
    BY <1>2, EnvironmentStep
  <1>3. ASSUME NEW w \in Workers, WorkerProgress(w)
        PROVE  L!Next \/ UNCHANGED L!vars
    <2>1. CASE Check(w)
      BY <2>1, QuietStep DEF Check, db
    <2>2. CASE RecordPayment(w)
      BY <2>2, NewPaymentStep, KnownPaymentStep DEF RecordPayment
    <2>3. CASE Refund(w)
      BY <2>3, RefundStep
    <2>4. CASE MarkRefund(w)
      BY <2>4, MarkRefundStep
    <2>5. CASE MarkProcessed(w)
      BY <2>5, QuietStep DEF MarkProcessed
    <2>6. QED
      BY <1>3, <2>1, <2>2, <2>3, <2>4, <2>5 DEF WorkerProgress
  <1>4. ASSUME NEW w \in Workers, Resend(w) \/ Fail(w) \/ \E e \in Events : Deliver(w, e)
        PROVE  UNCHANGED L!vars
    BY <1>4, QuietStep DEF Resend, Fail, Deliver, db, stripe
  <1>5. QED
    BY <1>1, <1>2, <1>3, <1>4 DEF Next

(* The webhook keeps the Ledger's promise: whatever is delivered, at once,
   again, out of order or never answered, a payment is judged once, by the
   Order and stock of that moment, stock is taken with the judgement, and
   only a declined payment's money goes back. *)
THEOREM WebhookKeepsLedger == Spec => KeepsLedger
  <1>1. Init => L!Init
    BY LedgerInit
  <1>2. Inv /\ [Next]_vars => [L!Next]_(L!vars)
    BY LedgerStep
  <1>3. QED
    BY <1>1, <1>2, WebhookInvariant, PTL DEF Spec, KeepsLedger, L!Safety

(* No step of the webhook changes what was decided. *)
LEMMA DecisionStep ==
  ASSUME Inv, [Next]_vars
  PROVE  /\ \A pi \in PaymentIntents :
              /\ payments[pi].status \in Final => payments'[pi] = payments[pi]
              /\ payments[pi].status = "refund_due" => payments'[pi].status # "paid"
         /\ \A o \in Orders : paymentStatus[o] = "paid" => paymentStatus'[o] = "paid"
  <1> DEFINE Decided ==
         /\ \A pi \in PaymentIntents :
              /\ payments[pi].status \in Final => payments'[pi] = payments[pi]
              /\ payments[pi].status = "refund_due" => payments'[pi].status # "paid"
         /\ \A o \in Orders : paymentStatus[o] = "paid" => paymentStatus'[o] = "paid"
  <1>1. CASE UNCHANGED <<payments, paymentStatus>>
    BY <1>1 DEF Final
  <1>2. ASSUME NEW w \in Workers, RecordPayment(w)
        PROVE  Decided
    <2>1. payments \in [PaymentIntents -> PaymentState]
      BY DEF Inv, TypeOK, PaymentState, PaymentStatus
    <2>2. \A o \in Orders : paymentStatus[o] = "paid" => paymentStatus'[o] = "paid"
      BY <1>2 DEF RecordPayment, NewPayment, KnownPayment, Inv, TypeOK
    <2>3. \A pi \in PaymentIntents :
            payments[pi].status \in Final => payments'[pi] = payments[pi]
      BY <1>2, <2>1 DEF RecordPayment, NewPayment, KnownPayment, StillDue, Final
    <2>4. \A pi \in PaymentIntents :
            payments[pi].status = "refund_due" => payments'[pi].status = "refund_due"
      BY <1>2, <2>1 DEF RecordPayment, NewPayment, KnownPayment, StillDue, PaymentState
    <2>5. QED
      BY <2>2, <2>3, <2>4
  <1>3. ASSUME NEW w \in Workers, MarkRefund(w)
        PROVE  Decided
    <2>1. payments \in [PaymentIntents -> PaymentState]
      BY DEF Inv, TypeOK, PaymentState, PaymentStatus
    <2>2. PICK status \in {"refunded", "refund_failed"} :
            \/ UNCHANGED payments
            \/ /\ payments[Intent(w)].status = "refund_due"
               /\ payments' = [payments EXCEPT ![Intent(w)].status = status]
      BY <1>3 DEF MarkRefund, Settled, StillDue
    <2>3. UNCHANGED paymentStatus
      BY <1>3 DEF MarkRefund
    <2>4. QED
      BY <2>1, <2>2, <2>3 DEF Final, PaymentState
  <1>4. CASE UNCHANGED vars \/ Environment
    BY <1>1, <1>4 DEF vars, db, Environment, CompletesPaid, CompletesUnpaid,
       SucceedsAtOnce, DelayedSucceeds, DelayedFails, Pays, DeleteProduct
  <1>5. ASSUME NEW w \in Workers,
               Check(w) \/ Refund(w) \/ MarkProcessed(w) \/ Resend(w) \/ Fail(w)
                 \/ \E e \in Events : Deliver(w, e)
        PROVE  Decided
    BY <1>1, <1>5 DEF Check, Refund, MarkProcessed, Resend, Fail, Deliver, db
  <1>6. QED
    BY <1>2, <1>3, <1>4, <1>5 DEF Next, WorkerProgress

(* What was decided about a Payment or an Order stays decided: a Payment that
   paid is never refunded, a refunded one never pays, an Order once paid stays
   paid (ADR-0006). *)
THEOREM WebhookDecidesOnce == Spec => DecisionsAreFinal
  BY DecisionStep, WebhookInvariant, PTL DEF Spec, DecisionsAreFinal
-----------------------------------------------------------------------------
(* Sums.  SumFunction is a fold, and its definition chooses a solution of a
   recursion over the subsets of the function's domain.  That recursion has
   one, by induction on the size of the subsets, so its equation can be used;
   what holds of a sum then follows by induction over the subsets, written out
   with their least counterexample.                                        *)

(* A set of numbers has a least one. *)
LEMMA LeastNumber ==
  ASSUME NEW S, S \subseteq Nat, S # {}
  PROVE  \E n \in S : \A m \in S : n <= m
  <1>1. PICK n \in S : \A m \in S : ~(<<m, n>> \in OpToRel(<, Nat))
    BY WFMin, NatLessThanWellFounded
  <1>2. \A m \in S : ~(m < n)
    BY <1>1 DEF OpToRel
  <1> QED BY <1>2

(* A sum takes the elements of a set one by one: one of them, then the rest. *)
First(s) == CHOOSE x \in s : TRUE
Rest(s) == s \ {First(s)}
SumStep(f, sum, s) == IF s = {} THEN 0 ELSE f[First(s)] + sum[Rest(s)]

LEMMA RestIsSmaller ==
  ASSUME NEW S, IsFiniteSet(S), NEW s \in SUBSET S
  PROVE  /\ Cardinality(s) \in Nat
         /\ Cardinality(s) = 0 <=> s = {}
         /\ s # {} => /\ First(s) \in s /\ Rest(s) \in SUBSET S
                      /\ Cardinality(Rest(s)) = Cardinality(s) - 1
  <1>1. IsFiniteSet(s)
    BY FS_Subset
  <1>2. Cardinality(s) \in Nat /\ (Cardinality(s) = 0 <=> s = {})
    BY <1>1, FS_CardinalityType, FS_EmptySet
  <1>3. s # {} => First(s) \in s
    BY DEF First
  <1> QED BY <1>1, <1>2, <1>3, FS_RemoveElement DEF Rest

(* What holds of a set once it holds without its next element. *)
LEMMA SubsetInduction ==
  ASSUME NEW S, IsFiniteSet(S), NEW P,
         \A s \in SUBSET S : (s # {} => Rest(s) \in P) => s \in P
  PROVE  \A s \in SUBSET S : s \in P
  <1> DEFINE Bad == {n \in Nat : \E s \in SUBSET S : s \notin P /\ n = Cardinality(s)}
  <1> SUFFICES ASSUME NEW t \in SUBSET S, t \notin P PROVE FALSE
    OBVIOUS
  <1>1. Cardinality(t) \in Bad
    BY RestIsSmaller
  <1>2. PICK n \in Bad : \A m \in Bad : n <= m
    BY <1>1, LeastNumber
  <1>3. PICK s \in SUBSET S : s \notin P /\ n = Cardinality(s)
    BY <1>2
  <1>4. s # {} /\ Rest(s) \notin P
    BY <1>3
  <1>5. Rest(s) \in SUBSET S /\ Cardinality(Rest(s)) = n - 1 /\ n \in Nat /\ n # 0
    BY <1>3, <1>4, RestIsSmaller
  <1>6. n - 1 \in Bad
    BY <1>4, <1>5
  <1> QED BY <1>2, <1>5, <1>6

(* The recursion that SumFunction chooses a solution of has one. *)
LEMMA SumExists ==
  ASSUME NEW S, IsFiniteSet(S), NEW f \in [S -> Nat]
  PROVE  \E sum \in [SUBSET S -> Nat] : \A s \in SUBSET S : sum[s] = SumStep(f, sum, s)
  <1> DEFINE Up(sum, n) == \A s \in SUBSET S : Cardinality(s) <= n => sum[s] = SumStep(f, sum, s)
             Bad == {n \in Nat : ~ \E sum \in [SUBSET S -> Nat] : Up(sum, n)}
  <1>1. 0 \notin Bad
    <2>1. Up([s \in SUBSET S |-> 0], 0)
      <3> SUFFICES ASSUME NEW s \in SUBSET S, Cardinality(s) <= 0 PROVE s = {}
        BY DEF SumStep
      <3> QED BY RestIsSmaller
    <2>2. [s \in SUBSET S |-> 0] \in [SUBSET S -> Nat]
      OBVIOUS
    <2> QED BY <2>1, <2>2
  <1>2. ASSUME NEW n \in Nat, n \in Bad, \A m \in Bad : n <= m PROVE FALSE
    <2>1. n # 0 /\ n - 1 \in Nat /\ n - 1 \notin Bad
      <3> HIDE DEF Bad
      <3>1. n # 0
        BY <1>1, <1>2
      <3>2. n - 1 \in Nat /\ ~(n <= n - 1)
        BY <1>2, <3>1
      <3> QED BY <1>2, <3>1, <3>2
    <2>2. PICK sum \in [SUBSET S -> Nat] : Up(sum, n - 1)
      BY <2>1
    <2> DEFINE next == [s \in SUBSET S |-> IF Cardinality(s) <= n - 1 THEN sum[s] ELSE SumStep(f, sum, s)]
    <2>3. \A s \in SUBSET S : SumStep(f, sum, s) \in Nat
      <3> SUFFICES ASSUME NEW s \in SUBSET S, s # {} PROVE f[First(s)] + sum[Rest(s)] \in Nat
        BY DEF SumStep
      <3>1. First(s) \in S /\ Rest(s) \in SUBSET S
        BY RestIsSmaller
      <3> QED BY <3>1
    <2>4. next \in [SUBSET S -> Nat]
      BY <2>3
    <2>5. \A s \in SUBSET S : next[s] = SumStep(f, sum, s) \/ Cardinality(s) > n - 1
      BY <2>2, RestIsSmaller
    <2>6. ASSUME NEW s \in SUBSET S, Cardinality(s) <= n PROVE next[s] = SumStep(f, next, s)
      <3>1. next[s] = SumStep(f, sum, s)
        BY <2>2
      <3>2. s # {} => next[Rest(s)] = sum[Rest(s)]
        <4> SUFFICES ASSUME s # {} PROVE next[Rest(s)] = sum[Rest(s)]
          OBVIOUS
        <4>1. Rest(s) \in SUBSET S /\ Cardinality(Rest(s)) = Cardinality(s) - 1 /\ Cardinality(s) \in Nat
          BY RestIsSmaller
        <4>2. Cardinality(Rest(s)) <= n - 1
          BY <2>6, <4>1
        <4> QED BY <4>1, <4>2
      <3> HIDE DEF next
      <3> QED BY <3>1, <3>2 DEF SumStep
    <2> HIDE DEF next
    <2>7. Up(next, n)
      BY <2>6
    <2> QED BY <1>2, <2>4, <2>7
  <1>3. Bad = {}
    <2>1. Bad \subseteq Nat
      OBVIOUS
    <2> HIDE DEF Bad
    <2> QED BY <1>2, <2>1, LeastNumber
  <1>4. Cardinality(S) \in Nat
    BY FS_CardinalityType
  <1>5. PICK sum \in [SUBSET S -> Nat] : Up(sum, Cardinality(S))
    BY <1>3, <1>4
  <1>6. \A s \in SUBSET S : Cardinality(s) <= Cardinality(S)
    BY FS_Subset
  <1> QED BY <1>5, <1>6

LEMMA SumIsChosen ==
  ASSUME NEW f
  PROVE  SumFunction(f) =
           (CHOOSE sum : sum = [s \in SUBSET DOMAIN f |-> SumStep(f, sum, s)])[DOMAIN f]
  BY DEF SumFunction, SumFunctionOnSet, FoldFunction, FoldFunctionOnSet, MapThenFoldSet, SumStep, Rest, First

(* So the sum of a function is the end of that recursion. *)
LEMMA SumIs ==
  ASSUME NEW S, IsFiniteSet(S), NEW f \in [S -> Nat]
  PROVE  \E sum \in [SUBSET S -> Nat] :
           /\ \A s \in SUBSET S : sum[s] = SumStep(f, sum, s)
           /\ SumFunction(f) = sum[S]
  <1>1. PICK sum \in [SUBSET S -> Nat] : \A s \in SUBSET S : sum[s] = SumStep(f, sum, s)
    BY SumExists
  <1>2. DOMAIN f = S
    OBVIOUS
  <1> DEFINE chosen == CHOOSE g : g = [s \in SUBSET S |-> SumStep(f, g, s)]
  <1>3. sum = [s \in SUBSET S |-> SumStep(f, sum, s)]
    BY <1>1
  <1>4. chosen = [s \in SUBSET S |-> SumStep(f, chosen, s)]
    BY <1>3
  <1>5. SumFunction(f) = chosen[S]
    BY <1>2, SumIsChosen
  <1> HIDE DEF chosen
  <1>6. \A s \in SUBSET S : chosen[s] = SumStep(f, chosen, s)
    BY <1>4
  <1> DEFINE P == {s \in SUBSET S : chosen[s] = sum[s]}
  <1>7. ASSUME NEW s \in SUBSET S, s # {} => Rest(s) \in P PROVE s \in P
    BY <1>1, <1>6, <1>7 DEF SumStep
  <1>8. \A s \in SUBSET S : s \in P
    <2> HIDE DEF P
    <2> QED BY <1>7, SubsetInduction
  <1>9. chosen[S] = sum[S]
    BY <1>8
  <1> QED BY <1>1, <1>5, <1>9

LEMMA SumType ==
  ASSUME NEW S, IsFiniteSet(S), NEW f \in [S -> Nat]
  PROVE  SumFunction(f) \in Nat
  <1>1. PICK sum \in [SUBSET S -> Nat] :
          (\A s \in SUBSET S : sum[s] = SumStep(f, sum, s)) /\ SumFunction(f) = sum[S]
    BY SumIs
  <1> QED BY <1>1

(* The sum of nothing but zeros. *)
LEMMA SumOfZeros ==
  ASSUME NEW S, IsFiniteSet(S), NEW f \in [S -> Nat], \A x \in S : f[x] = 0
  PROVE  SumFunction(f) = 0
  <1>1. PICK sum \in [SUBSET S -> Nat] :
          (\A s \in SUBSET S : sum[s] = SumStep(f, sum, s)) /\ SumFunction(f) = sum[S]
    BY SumIs
  <1> DEFINE P == {s \in SUBSET S : sum[s] = 0}
  <1>2. ASSUME NEW s \in SUBSET S, s # {} => Rest(s) \in P PROVE s \in P
    <2>1. s # {} => f[First(s)] = 0 /\ sum[Rest(s)] = 0
      BY <1>2, RestIsSmaller
    <2>2. sum[s] = SumStep(f, sum, s)
      BY <1>1
    <2> QED BY <2>1, <2>2 DEF SumStep
  <1>3. \A s \in SUBSET S : s \in P
    <2> HIDE DEF P
    <2> QED BY <1>2, SubsetInduction
  <1> QED BY <1>1, <1>3

(* One more at one place is one more in the sum. *)
LEMMA SumGrows ==
  ASSUME NEW S, IsFiniteSet(S), NEW f \in [S -> Nat], NEW g \in [S -> Nat],
         NEW k \in S, NEW d \in Nat, g[k] = f[k] + d, \A x \in S \ {k} : g[x] = f[x]
  PROVE  SumFunction(g) = SumFunction(f) + d
  <1>1. PICK sum \in [SUBSET S -> Nat] :
          (\A s \in SUBSET S : sum[s] = SumStep(f, sum, s)) /\ SumFunction(f) = sum[S]
    BY SumIs
  <1>2. PICK tum \in [SUBSET S -> Nat] :
          (\A s \in SUBSET S : tum[s] = SumStep(g, tum, s)) /\ SumFunction(g) = tum[S]
    BY SumIs
  <1> DEFINE P == {s \in SUBSET S : tum[s] = IF k \in s THEN sum[s] + d ELSE sum[s]}
  <1>3. ASSUME NEW s \in SUBSET S, s # {} => Rest(s) \in P PROVE s \in P
    <2>1. CASE s = {}
      BY <1>1, <1>2, <2>1 DEF SumStep
    <2>2. CASE s # {}
      <3>1. First(s) \in s /\ First(s) \in S /\ Rest(s) \in SUBSET S /\ Rest(s) \in P
        BY <1>3, <2>2, RestIsSmaller
      <3>2. /\ sum[s] = f[First(s)] + sum[Rest(s)]
            /\ tum[s] = g[First(s)] + tum[Rest(s)]
        BY <1>1, <1>2, <2>2 DEF SumStep
      <3>3. /\ sum[Rest(s)] \in Nat /\ tum[Rest(s)] \in Nat /\ f[First(s)] \in Nat /\ g[First(s)] \in Nat
            /\ f[k] \in Nat
        BY <3>1
      <3>4. CASE First(s) = k
        BY <3>1, <3>2, <3>3, <3>4 DEF Rest
      <3>5. CASE First(s) # k
        BY <3>1, <3>2, <3>3, <3>5 DEF Rest
      <3> QED BY <3>4, <3>5
    <2> QED BY <2>1, <2>2
  <1>4. \A s \in SUBSET S : s \in P
    <2> HIDE DEF P
    <2> QED BY <1>3, SubsetInduction
  <1> QED BY <1>1, <1>2, <1>4
-----------------------------------------------------------------------------
(* Stock. *)

Bought(pi, v) == IF payments[pi].status = "paid" THEN Lines[OrderOf[pi]][v] ELSE 0
Sold(v)       == [pi \in PaymentIntents |-> Bought(pi, v)]

PaymentsHaveOrders ==
  \A pi \in PaymentIntents : payments[pi].status = "paid" => OrderOf[pi] \in Orders

SalesInv == Inv /\ PaymentsHaveOrders /\ StockMatchesSales

(* A step that sells nothing; and one by which pi pays the Order o. *)
SellsNothing ==
  /\ UNCHANGED inventory /\ deleted \subseteq deleted'
  /\ \A pi \in PaymentIntents :
       payments'[pi].status = "paid" <=> payments[pi].status = "paid"

Sells(pi, o) ==
  /\ o = OrderOf[pi] /\ Covered(o)
  /\ payments[pi].status # "paid" /\ payments'[pi].status = "paid"
  /\ \A p \in PaymentIntents \ {pi} : payments'[p] = payments[p]
  /\ inventory' = [v \in Variants |-> Left(o, v)] /\ UNCHANGED deleted

(* Every step is one or the other. *)
LEMMA SaleStep ==
  ASSUME Inv, [Next]_vars
  PROVE  SellsNothing \/ \E pi \in PaymentIntents, o \in Orders : Sells(pi, o)
  <1>1. CASE UNCHANGED <<payments, inventory>> /\ deleted \subseteq deleted'
    BY <1>1 DEF SellsNothing
  <1>2. payments \in [PaymentIntents -> PaymentState]
    BY DEF Inv, TypeOK, PaymentState, PaymentStatus
  <1>3. ASSUME NEW w \in Workers, RecordPayment(w)
        PROVE  SellsNothing \/ \E pi \in PaymentIntents, o \in Orders : Sells(pi, o)
    <2> DEFINE pi == Intent(w)
    <2>1. work[w].pc = "record" /\ UNCHANGED deleted
      BY <1>3 DEF RecordPayment
    <2>2. pi \in PaymentIntents
      BY <2>1, AtPayment
    <2>3. CASE NewPayment(w) /\ Honourable(pi)
      <3>1. OrderOf[pi] \in Orders /\ Covered(OrderOf[pi])
        BY <2>2, <2>3 DEF Honourable
      <3>2. /\ payments' = [payments EXCEPT ![pi].status = "paid"]
            /\ inventory' = [v \in Variants |-> Left(OrderOf[pi], v)]
            /\ payments[pi].status = "none"
        BY <2>3 DEF NewPayment
      <3>3. /\ payments'[pi].status = "paid" /\ payments[pi].status # "paid"
            /\ \A p \in PaymentIntents \ {pi} : payments'[p] = payments[p]
        BY <1>2, <2>2, <3>2 DEF PaymentState
      <3>4. Sells(pi, OrderOf[pi])
        BY <2>1, <3>1, <3>2, <3>3 DEF Sells
      <3>5. QED
        BY <2>2, <3>1, <3>4
    <2>4. CASE NewPayment(w) /\ ~Honourable(pi)
      BY <1>2, <2>1, <2>2, <2>4 DEF NewPayment, SellsNothing
    <2>5. CASE KnownPayment(w)
      BY <1>2, <2>1, <2>2, <2>5 DEF KnownPayment, SellsNothing, PaymentState
    <2>6. QED
      BY <1>3, <2>3, <2>4, <2>5 DEF RecordPayment
  <1>4. ASSUME NEW w \in Workers, MarkRefund(w)
        PROVE  SellsNothing
    <2>1. PICK status \in {"refunded", "refund_failed"} :
            \/ UNCHANGED payments
            \/ /\ payments[Intent(w)].status = "refund_due"
               /\ payments' = [payments EXCEPT ![Intent(w)].status = status]
      BY <1>4 DEF MarkRefund, Settled, StillDue
    <2>2. UNCHANGED <<inventory, deleted>>
      BY <1>4 DEF MarkRefund
    <2>3. QED
      BY <1>2, <2>1, <2>2 DEF SellsNothing, PaymentState
  <1>5. CASE UNCHANGED vars \/ Environment
    BY <1>1, <1>5 DEF vars, db, Environment, CompletesPaid, CompletesUnpaid,
       SucceedsAtOnce, DelayedSucceeds, DelayedFails, Pays, DeleteProduct
  <1>6. ASSUME NEW w \in Workers,
               Check(w) \/ Refund(w) \/ MarkProcessed(w) \/ Resend(w) \/ Fail(w)
                 \/ \E e \in Events : Deliver(w, e)
        PROVE  SellsNothing
    BY <1>6 DEF Check, Refund, MarkProcessed, Resend, Fail, Deliver, db, SellsNothing
  <1>7. QED
    BY <1>3, <1>4, <1>5, <1>6 DEF Next, WorkerProgress

LEMMA SoldType ==
  ASSUME Inv, PaymentsHaveOrders, NEW v \in Variants
  PROVE  Sold(v) \in [PaymentIntents -> Nat]
  BY DEF PaymentsHaveOrders, Sold, Bought

(* The property in the words of the lemmas. *)
LEMMA StockIs ==
  StockMatchesSales <=>
    \A v \in Variants \ deleted : inventory[v] + SumFunction(Sold(v)) = InitialStock[v]
  BY DEF StockMatchesSales, Sold, Bought

LEMMA InitSales == Init => SalesInv
  <1> SUFFICES ASSUME Init PROVE SalesInv
    OBVIOUS
  <1>1. Inv /\ PaymentsHaveOrders
    BY InitInv DEF Init, PaymentsHaveOrders
  <1>2. ASSUME NEW v \in Variants
        PROVE  inventory[v] + SumFunction(Sold(v)) = InitialStock[v]
    <2>1. \A pi \in PaymentIntents : Sold(v)[pi] = 0
      BY DEF Init, Sold, Bought
    <2>2. SumFunction(Sold(v)) = 0
      BY <1>1, <2>1, SoldType, SumOfZeros, FinitePayments
    <2>3. QED
      BY <2>2 DEF Init
  <1>3. QED
    BY <1>1, <1>2, StockIs DEF SalesInv

LEMMA SalesStep == SalesInv /\ [Next]_vars => SalesInv'
  <1> SUFFICES ASSUME SalesInv, [Next]_vars PROVE SalesInv'
    OBVIOUS
  <1>1. Inv /\ Inv' /\ PaymentsHaveOrders
    BY StepInv DEF SalesInv
  <1>2. \A v \in Variants \ deleted :
          inventory[v] + SumFunction(Sold(v)) = InitialStock[v]
    BY StockIs DEF SalesInv
  <1>3. CASE SellsNothing
    <2>1. PaymentsHaveOrders'
      BY <1>1, <1>3 DEF PaymentsHaveOrders, SellsNothing
    <2>2. \A v \in Variants : Sold(v)' = Sold(v)
      BY <1>3 DEF Sold, Bought, SellsNothing
    <2>3. \A v \in Variants \ deleted' :
            inventory'[v] + SumFunction(Sold(v)') = InitialStock[v]
      BY <1>2, <1>3, <2>2 DEF SellsNothing
    <2>4. StockMatchesSales'
      BY <2>3 DEF StockMatchesSales, Sold, Bought
    <2>5. QED
      BY <1>1, <2>1, <2>4 DEF SalesInv
  <1>4. ASSUME NEW pi \in PaymentIntents, NEW o \in Orders, Sells(pi, o)
        PROVE  SalesInv'
    <2>1. PaymentsHaveOrders'
      BY <1>1, <1>4 DEF PaymentsHaveOrders, Sells
    <2>2. ASSUME NEW v \in Variants \ deleted'
          PROVE  inventory'[v] + SumFunction(Sold(v)') = InitialStock[v]
      <3> DEFINE before == Sold(v)
                 after  == Sold(v)'
      <3>1. before \in [PaymentIntents -> Nat]
        BY <1>1, SoldType
      <3>2. after \in [PaymentIntents -> Nat]
        BY <2>1 DEF PaymentsHaveOrders, Sold, Bought
      <3>3. /\ after[pi] = before[pi] + Lines[o][v]
            /\ \A p \in PaymentIntents \ {pi} : after[p] = before[p]
        BY <1>4 DEF Sells, Sold, Bought
      <3>4. Lines[o][v] \in Nat
        OBVIOUS
      <3> HIDE DEF before, after
      <3>5. SumFunction(after) = SumFunction(before) + Lines[o][v]
        BY <3>1, <3>2, <3>3, <3>4, SumGrows, FinitePayments
      <3>6. inventory[v] + SumFunction(before) = InitialStock[v]
        BY <1>2, <1>4 DEF before, Sells
      <3>7. inventory'[v] = inventory[v] - Lines[o][v] /\ inventory[v] \in Nat
        BY <1>1, <1>4 DEF Sells, Left, Inv, TypeOK
      <3>8. SumFunction(before) \in Nat
        BY <3>1, SumType, FinitePayments
      <3>9. QED
        BY <3>4, <3>5, <3>6, <3>7, <3>8 DEF after
    <2>3. StockMatchesSales'
      BY <2>2 DEF StockMatchesSales, Sold, Bought
    <2>4. QED
      BY <1>1, <2>1, <2>3 DEF SalesInv
  <1>5. QED
    BY <1>1, <1>3, <1>4, SaleStep

(* No oversell and no stock lost: what is left of a Variant and what the
   honoured Payments bought of it are together what there was at first
   (takeStock under recordStripePayment's locks). *)
THEOREM StockIsWhatWasSold == Spec => []StockMatchesSales
  <1>1. SalesInv => StockMatchesSales
    BY DEF SalesInv
  <1>2. QED
    BY <1>1, InitSales, SalesStep, PTL DEF Spec
=============================================================================
