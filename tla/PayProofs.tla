----------------------------- MODULE PayProofs -----------------------------
(***************************************************************************)
(* For every number of Orders, Pays, attempts, rounds and faults: module   *)
(* Pay is type-correct, an Order has at most one session a Customer can    *)
(* pay or that holds money, and a recorded session is replaced only when   *)
(* it is spent.                                                            *)
(*                                                                         *)
(* The safety properties are not inductive: they say nothing of what the   *)
(* running Pays remember.  Inv adds it.  Every session that Pay hands      *)
(* around was once recorded on its Order, and a session once recorded is   *)
(* either still recorded or spent, for good (Settled).  The second part    *)
(* adds the Order page, which reads beside the Pays: what it has read of   *)
(* the Order and of Stripe tells of the money that is held.                *)
(***************************************************************************)
EXTENDS OrderPage, TLAPS

Settled(s) == checkout[s[1]].session = s \/ Spent(s)

(* The steps at which a Pay holds a session it read from the Order, or is
   about to give out. *)
HoldsRead == {"readAccount", "retrieve", "readPayment", "reserve", "redirect"}

(* What a Pay p in state r read some steps ago still tells it something. *)
Knows(p, r) ==
  /\ r.session # NoSession => r.session[1] = OrderOf[p]
  /\ r.pc \in {"retrieve", "readPayment", "redirect", "record"} => r.session # NoSession
  /\ r.pc \in HoldsRead /\ r.session # NoSession => Settled(r.session)
  /\ r.pc = "readPayment" => session[r.session] = "paid"
  /\ r.pc = "reserve" /\ r.session # NoSession => Spent(r.session)
  /\ r.inFlight \/ r.pc \in {"create", "awaiting", "record"} => r.attempt # 0

PayKnows == \A p \in Pays : Knows(p, pay[p])

(* Only a session of the Order is recorded on it; only a started attempt has
   a lease. *)
OwnSession == \A o \in Orders :
  /\ checkout[o].session # NoSession => checkout[o].session[1] = o
  /\ checkout[o].leased => checkout[o].attempt # 0

(* Only delivered sessions take money, and they stay recorded until spent. *)
DeliveredSettled ==
  \A s \in Sessions :
    /\ s \in delivered => Settled(s)
    /\ session[s] \in {"processing", "paid"} => s \in delivered

Inv == TypeOK /\ OwnSession /\ PayKnows /\ DeliveredSettled

-----------------------------------------------------------------------------
USE PayAssumption

LEMMA NoSessionIsNone == NoSession \notin Sessions
  BY DEF Sessions

LEMMA IdleType == Idle \in PayState
  BY DEF Idle, PayState, PayStep

LEMMA RoundType ==
  ASSUME NEW n \in 1..Rounds
  PROVE  [Idle EXCEPT !.pc = "readOrder", !.round = n] \in PayState
  <1>1. n \in 0..Rounds /\ "readOrder" \in PayStep
    BY DEF PayStep
  <1>2. QED
    BY <1>1, IdleType DEF PayState

LEMMA ReadType ==
  ASSUME NEW q \in PayState, NEW step \in PayStep, NEW a \in 0..MaxAttempts,
         NEW s \in Sessions \cup {NoSession}, NEW b \in BOOLEAN, NEW c \in BOOLEAN
  PROVE  [q EXCEPT !.pc = step, !.attempt = a, !.session = s,
                   !.inFlight = b, !.blocked = c] \in PayState
  BY DEF PayState

(* An idle Pay, or one at the start of a round, knows nothing. *)
LEMMA FreshKnows ==
  ASSUME NEW p \in Pays, NEW r \in PayState, r.session = NoSession,
         r.pc \in {"idle", "readOrder"}, ~r.inFlight
  PROVE  Knows(p, r)
  BY DEF Knows, HoldsRead

(* The initial states are typed, and no Pay has read anything yet. *)
LEMMA InitInv == Init => Inv
  <1> SUFFICES ASSUME Init PROVE Inv
    OBVIOUS
  <1>1. TypeOK
    BY IdleType DEF Init, TypeOK, SessionStatus, PaymentRecord
  <1>2. OwnSession
    BY DEF Init, OwnSession
  <1>3. PayKnows
    BY IdleType, FreshKnows DEF Init, PayKnows, Idle
  <1>4. DeliveredSettled
    BY DEF Init, DeliveredSettled
  <1>5. QED
    BY <1>1, <1>2, <1>3, <1>4 DEF Inv

(* What a Pay knows survives a step after which settled sessions are still
   settled, spent ones spent and paid ones paid. *)
LEMMA KnowledgeKept ==
  ASSUME NEW p \in Pays, NEW r \in PayState, Knows(p, r),
         \A s \in Sessions : /\ Settled(s) => Settled(s)'
                             /\ Spent(s) => Spent(s)'
                             /\ session[s] = "paid" => session'[s] = "paid"
  PROVE  Knows(p, r)'
  BY DEF Knows, HoldsRead, PayState

(* A step that changes only one Pay, to a state whose knowledge is right. *)
LEMMA PayMoves ==
  ASSUME Inv, NEW p \in Pays, NEW r \in PayState, Become(p, r), Knows(p, r),
         UNCHANGED <<db, world, session, delivered>>, faults' \in 0..MaxFaults
  PROVE  Inv'
  <1>1. TypeOK'
    BY DEF Inv, TypeOK, Become, db, world
  <1>2. OwnSession'
    BY DEF Inv, OwnSession, db
  <1>3. \A s : (Spent(s) <=> Spent(s)') /\ (Settled(s) <=> Settled(s)')
    BY DEF Spent, Settled, db
  <1>4. PayKnows'
    <2> SUFFICES ASSUME NEW q \in Pays PROVE Knows(q, pay[q])'
      BY DEF PayKnows
    <2>1. pay'[q] = IF q = p THEN r ELSE pay[q]
      BY DEF Become, Inv, TypeOK
    <2>2. Knows(q, pay'[q]) /\ pay'[q] \in PayState
      BY <2>1 DEF Inv, PayKnows, TypeOK
    <2>3. QED
      BY <2>2, <1>3 DEF Knows
  <1>5. DeliveredSettled'
    BY <1>3 DEF Inv, DeliveredSettled, db
  <1>6. QED
    BY <1>1, <1>2, <1>4, <1>5 DEF Inv

-----------------------------------------------------------------------------
(* The steps of a Pay that change nothing else.                            *)

LEMMA FinishInv ==
  ASSUME Inv, NEW p \in Pays, Finish(p),
         UNCHANGED <<db, world, session, delivered>>, faults' \in 0..MaxFaults
  PROVE  Inv'
  <1>1. Knows(p, Idle)
    BY IdleType, FreshKnows DEF Idle
  <1>2. QED
    BY <1>1, IdleType, PayMoves DEF Finish

LEMMA LookAgainInv ==
  ASSUME Inv, NEW p \in Pays, LookAgain(p),
         UNCHANGED <<db, world, session, delivered, faults>>
  PROVE  Inv'
  <1>1. faults' \in 0..MaxFaults
    BY DEF Inv, TypeOK
  <1>2. CASE Finish(p)
    BY <1>1, <1>2, FinishInv
  <1>3. CASE /\ pay[p].round < Rounds
             /\ Become(p, [Idle EXCEPT !.pc = "readOrder", !.round = pay[p].round + 1])
    <2> DEFINE r == [Idle EXCEPT !.pc = "readOrder", !.round = pay[p].round + 1]
    <2>1. pay[p].round + 1 \in 1..Rounds
      BY <1>3 DEF Inv, TypeOK, PayState
    <2>2. r \in PayState
      BY <2>1, RoundType
    <2>3. r.session = NoSession /\ r.pc = "readOrder" /\ ~r.inFlight
      BY DEF Idle
    <2>4. Knows(p, r)
      BY <2>2, <2>3, FreshKnows
    <2> HIDE DEF r
    <2>5. QED
      BY <1>1, <1>3, <2>2, <2>4, PayMoves DEF r
  <1>4. QED
    BY <1>2, <1>3 DEF LookAgain, MoreRounds

LEMMA BeginInv ==
  ASSUME Inv, NEW p \in Pays, Begin(p)
  PROVE  Inv'
  <1> DEFINE r == [Idle EXCEPT !.pc = "readOrder", !.round = 1]
  <1>1. 1 \in 1..Rounds
    OBVIOUS
  <1>5. r \in PayState
    BY <1>1, RoundType
  <1>2. Knows(p, r)
    BY <1>5, FreshKnows DEF Idle
  <1>3. faults' \in 0..MaxFaults
    BY DEF Begin, Inv, TypeOK
  <1> HIDE DEF r
  <1>4. QED
    BY <1>5, <1>2, <1>3, PayMoves DEF Begin, r

LEMMA ReadOrderInv ==
  ASSUME Inv, NEW p \in Pays, ReadOrder(p)
  PROVE  Inv'
  <1> DEFINE o == OrderOf[p]
             r == [pay[p] EXCEPT
                     !.pc = "readAccount",
                     !.attempt = checkout[o].attempt,
                     !.session = checkout[o].session,
                     !.inFlight = checkout[o].session = NoSession /\ checkout[o].leased,
                     !.blocked = stock[o] # "available"]
  <1>1. faults' \in 0..MaxFaults
    BY DEF ReadOrder, InFlight, Inv, TypeOK
  <1>2. CASE Finish(p)
    BY <1>1, <1>2, FinishInv DEF ReadOrder, InFlight
  <1>3. CASE Become(p, r)
    <2> DEFINE c == checkout[o]
               b == c.session = NoSession /\ c.leased
    <2>5. /\ pay[p] \in PayState /\ c.attempt \in 0..MaxAttempts
          /\ c.session \in Sessions \cup {NoSession} /\ b \in BOOLEAN
          /\ (stock[o] # "available") \in BOOLEAN /\ "readAccount" \in PayStep
      BY DEF Inv, TypeOK, PayStep
    <2>1. r \in PayState
      BY <2>5, ReadType
    <2>2. r.session # NoSession => r.session[1] = o /\ Settled(r.session)
      BY DEF Inv, TypeOK, OwnSession, Settled, PayState
    <2>3. /\ r.pc = "readAccount" /\ r.attempt = c.attempt
          /\ r.inFlight => c.leased
      BY DEF Inv, TypeOK, PayState
    <2>4. Knows(p, r)
      BY <2>1, <2>2, <2>3 DEF Knows, HoldsRead, Inv, OwnSession
    <2> HIDE DEF r
    <2>6. QED
      BY <1>1, <1>3, <2>1, <2>4, PayMoves DEF ReadOrder, InFlight
  <1>4. QED
    BY <1>2, <1>3 DEF ReadOrder, InFlight

(* After the assessment, the Pay still knows what it knew; and it reserves
   only when its session, if any, is spent. *)
LEMMA AssessedInv ==
  ASSUME Inv, NEW p \in Pays, NEW r \in PayState, NEW open \in BOOLEAN,
         Assessed(p, r, open),
         r.session # NoSession => r.session[1] = OrderOf[p] /\ Settled(r.session),
         open => r.session # NoSession,
         ~open /\ r.session # NoSession /\ r.enabled => Spent(r.session),
         r.inFlight => r.attempt # 0,
         UNCHANGED <<db, world, session, delivered, faults>>
  PROVE  Inv'
  <1>1. faults' \in 0..MaxFaults
    BY DEF Inv, TypeOK
  <1>2. CASE Finish(p)
    BY <1>1, <1>2, FinishInv
  <1>3. ASSUME NEW step \in {"redirect", "create", "reserve"},
               Become(p, [r EXCEPT !.pc = step]),
               step = "redirect" => open, step # "redirect" => ~open, r.enabled,
               step = "create" => r.inFlight
        PROVE  Inv'
    <2> DEFINE q == [r EXCEPT !.pc = step]
    <2>1. /\ q \in PayState /\ q.session = r.session /\ q.pc = step
          /\ q.attempt = r.attempt /\ q.inFlight = r.inFlight
      BY DEF PayState, PayStep
    <2>2. Knows(p, q)
      BY <1>3, <2>1 DEF Knows, HoldsRead
    <2> HIDE DEF q
    <2>3. QED
      BY <1>1, <1>3, <2>1, <2>2, PayMoves DEF q
  <1>4. QED
    BY <1>2, <1>3 DEF Assessed

LEMMA ReadAccountInv ==
  ASSUME Inv, NEW p \in Pays, ReadAccount(p)
  PROVE  Inv'
  <1> DEFINE r == [pay[p] EXCEPT !.enabled = account = "enabled"]
             q == [r EXCEPT !.pc = "retrieve"]
  <1>1. faults' \in 0..MaxFaults
    BY DEF ReadAccount, Inv, TypeOK
  <1>2. /\ r \in PayState /\ r.session = pay[p].session
        /\ r.enabled <=> account = "enabled"
        /\ q \in PayState /\ q.session = pay[p].session /\ q.pc = "retrieve"
        /\ r.attempt = pay[p].attempt /\ r.inFlight = pay[p].inFlight
        /\ q.attempt = pay[p].attempt /\ q.inFlight = pay[p].inFlight
    BY DEF Inv, TypeOK, PayState, PayStep
  <1>3. /\ pay[p].session # NoSession =>
             pay[p].session[1] = OrderOf[p] /\ Settled(pay[p].session)
        /\ pay[p].inFlight => pay[p].attempt # 0
    BY DEF ReadAccount, Inv, PayKnows, Knows, HoldsRead
  <1>4. CASE r.session # NoSession /\ Become(p, q)
    <2>1. Knows(p, q)
      BY <1>2, <1>3, <1>4 DEF Knows
    <2> HIDE DEF q
    <2>2. QED
      BY <1>1, <1>2, <1>4, <2>1, PayMoves DEF ReadAccount
  <1>5. CASE /\ r.session = NoSession \/ account = "none"
             /\ Assessed(p, r, FALSE)
    <2> HIDE DEF r
    <2>1. QED
      BY <1>2, <1>3, <1>5, AssessedInv DEF ReadAccount
  <1>6. QED
    BY <1>4, <1>5 DEF ReadAccount

LEMMA RetrieveInv ==
  ASSUME Inv, NEW p \in Pays, Retrieve(p)
  PROVE  Inv'
  <1> DEFINE s == pay[p].session
  <1>1. /\ pay[p] \in PayState /\ faults' \in 0..MaxFaults
        /\ s # NoSession /\ s[1] = OrderOf[p] /\ Settled(s)
        /\ pay[p].inFlight => pay[p].attempt # 0
    BY DEF Retrieve, Dead, Inv, TypeOK, PayKnows, Knows, HoldsRead
  <1>2. CASE Finish(p)
    BY <1>1, <1>2, FinishInv DEF Retrieve, Dead
  <1>3. CASE session[s] \in {"expired", "gone", "failed"} /\ Assessed(p, pay[p], FALSE)
    BY <1>1, <1>3, AssessedInv DEF Retrieve, Dead, Spent
  <1>4. CASE session[s] = "open" /\ Assessed(p, pay[p], TRUE)
    BY <1>1, <1>4, AssessedInv DEF Retrieve, Dead
  <1>5. CASE session[s] = "paid" /\ Goto(p, "readPayment")
    <2> DEFINE r == [pay[p] EXCEPT !.pc = "readPayment"]
    <2>1. /\ r \in PayState /\ r.session = s /\ r.pc = "readPayment"
          /\ r.attempt = pay[p].attempt /\ r.inFlight = pay[p].inFlight
      BY <1>1 DEF PayState, PayStep
    <2>2. Knows(p, r)
      BY <1>1, <1>5, <2>1 DEF Knows
    <2> HIDE DEF r
    <2>3. QED
      BY <1>1, <1>5, <2>1, <2>2, PayMoves DEF Retrieve, Dead, Goto, r
  <1>6. QED
    BY <1>2, <1>3, <1>4, <1>5 DEF Retrieve, Dead

LEMMA ReadPaymentInv ==
  ASSUME Inv, NEW p \in Pays, ReadPayment(p)
  PROVE  Inv'
  <1> DEFINE s == pay[p].session
  <1>1. /\ pay[p] \in PayState /\ faults' \in 0..MaxFaults
        /\ s # NoSession /\ s[1] = OrderOf[p] /\ Settled(s) /\ session[s] = "paid"
        /\ pay[p].inFlight => pay[p].attempt # 0
    BY DEF ReadPayment, GaveMoneyBack, Inv, TypeOK, PayKnows, Knows, HoldsRead
  <1>2. CASE Finish(p)
    BY <1>1, <1>2, FinishInv DEF ReadPayment, GaveMoneyBack
  <1>3. CASE payment[s] = "refunded" /\ Assessed(p, pay[p], FALSE)
    BY <1>1, <1>3, AssessedInv DEF ReadPayment, GaveMoneyBack, Spent
  <1>4. QED
    BY <1>2, <1>3 DEF ReadPayment, GaveMoneyBack

(* A step at which a Pay has no use for what it read. *)
LEMMA GotoInv ==
  ASSUME Inv, NEW p \in Pays, NEW step \in {"create", "awaiting", "end"},
         Goto(p, step), UNCHANGED <<db, world, session, delivered>>,
         faults' \in 0..MaxFaults, step # "end" => pay[p].attempt # 0
  PROVE  Inv'
  <1> DEFINE r == [pay[p] EXCEPT !.pc = step]
  <1>1. pay[p] \in PayState /\ Knows(p, pay[p])
    BY DEF Inv, TypeOK, PayKnows
  <1>2. /\ r \in PayState /\ r.session = pay[p].session /\ r.pc = step
        /\ r.attempt = pay[p].attempt /\ r.inFlight = pay[p].inFlight
    BY <1>1 DEF PayState, PayStep
  <1>3. Knows(p, r)
    BY <1>1, <1>2 DEF Knows, HoldsRead
  <1> HIDE DEF r
  <1>4. QED
    BY <1>2, <1>3, PayMoves DEF Goto, r

LEMMA AnsweredInv ==
  ASSUME Inv, NEW p \in Pays, Answered(p)
  PROVE  Inv'
  <1> DEFINE k == Key(OrderOf[p], pay[p].attempt)
             r == [pay[p] EXCEPT !.pc = "record", !.session = k]
  <1>1. pay[p] \in PayState /\ faults' \in 0..MaxFaults
    BY DEF Answered, Inv, TypeOK
  <1>2. CASE Goto(p, "end")
    BY <1>1, <1>2, GotoInv DEF Answered
  <1>3. CASE Become(p, r)
    <2>1. pay[p].attempt \in 1..MaxAttempts
      BY <1>1 DEF Answered, Inv, PayKnows, Knows, PayState
    <2>2. k \in Sessions /\ k[1] = OrderOf[p] /\ k # NoSession
      BY <2>1, NoSessionIsNone DEF Sessions, Key
    <2>3. /\ r \in PayState /\ r.session = k /\ r.pc = "record"
          /\ r.attempt = pay[p].attempt
      BY <1>1, <2>2 DEF PayState, PayStep
    <2>4. Knows(p, r)
      BY <2>1, <2>2, <2>3 DEF Knows, HoldsRead
    <2> HIDE DEF r
    <2>5. QED
      BY <1>1, <1>3, <2>3, <2>4, PayMoves DEF Answered, r
  <1>4. QED
    BY <1>2, <1>3 DEF Answered

LEMMA MishapInv ==
  ASSUME Inv, NEW p \in Pays, PayMishap(p)
  PROVE  Inv'
  <1>1. CASE CreateFails(p)
    <2>1. faults' \in 0..MaxFaults
      BY <1>1 DEF CreateFails, Fault, Inv, TypeOK
    <2>2. QED
      BY <1>1, <2>1, GotoInv DEF CreateFails
  <1>2. CASE Abandon(p)
    <2>1. faults' \in 0..MaxFaults
      BY <1>2 DEF Abandon, Fault, Inv, TypeOK
    <2>2. QED
      BY <1>2, <2>1, FinishInv DEF Abandon
  <1>3. CASE Resend(p)
    <2> DEFINE r == [pay[p] EXCEPT !.pc = "create", !.resent = TRUE]
    <2>1. faults' \in 0..MaxFaults
      BY <1>3 DEF Resend, Fault, Inv, TypeOK
    <2>2. pay[p] \in PayState /\ Knows(p, pay[p])
      BY DEF Inv, TypeOK, PayKnows
    <2>3. /\ r \in PayState /\ r.session = pay[p].session /\ r.pc = "create"
          /\ r.attempt = pay[p].attempt /\ r.inFlight = pay[p].inFlight
      BY <2>2 DEF PayState, PayStep
    <2>4. Knows(p, r)
      BY <1>3, <2>2, <2>3 DEF Knows, HoldsRead, Resend
    <2> HIDE DEF r
    <2>5. QED
      BY <1>3, <2>1, <2>3, <2>4, PayMoves DEF Resend, r
  <1>4. QED
    BY <1>1, <1>2, <1>3 DEF PayMishap

-----------------------------------------------------------------------------
(* The steps that change the Order, a session, a Payment or the world.     *)

(* A step keeps the invariant if it is typed, keeps what was settled, spent
   and paid so, and leaves the Pay it changes knowing the truth. *)
LEMMA Kept ==
  ASSUME Inv, TypeOK', OwnSession',
         \A s \in Sessions : /\ Settled(s) => Settled(s)'
                             /\ Spent(s) => Spent(s)'
                             /\ session[s] = "paid" => session'[s] = "paid",
         \A p \in Pays : pay'[p] = pay[p] \/ Knows(p, pay[p])',
         \A s \in Sessions :
            /\ s \in delivered' => s \in delivered \/ Settled(s)'
            /\ session'[s] \in {"processing", "paid"} =>
                 s \in delivered' \/ session[s] \in {"processing", "paid"},
         delivered \subseteq delivered'
  PROVE  Inv'
  <1>1. PayKnows'
    <2> SUFFICES ASSUME NEW p \in Pays PROVE Knows(p, pay[p])'
      BY DEF PayKnows
    <2>1. CASE pay'[p] = pay[p]
      <3>1. pay[p] \in PayState /\ Knows(p, pay[p])
        BY DEF Inv, TypeOK, PayKnows
      <3>2. QED
        BY <2>1, <3>1 DEF Knows, HoldsRead, PayState
    <2>2. CASE Knows(p, pay[p])'
      BY <2>2
    <2>3. QED
      BY <2>1, <2>2
  <1>2. DeliveredSettled'
    BY DEF Inv, DeliveredSettled
  <1>3. QED
    BY <1>1, <1>2 DEF Inv

LEMMA CreateInv ==
  ASSUME Inv, NEW p \in Pays, Create(p)
  PROVE  Inv'
  <1> DEFINE k == Key(OrderOf[p], pay[p].attempt)
             r == [pay[p] EXCEPT !.pc = "awaiting"]
  <1>1. /\ pay[p] \in PayState /\ Knows(p, pay[p])
        /\ pay[p].attempt # 0 /\ faults' \in 0..MaxFaults
    BY DEF Create, Inv, TypeOK, PayKnows, Knows
  <1>2. CASE Finish(p) /\ UNCHANGED session
    BY <1>1, <1>2, FinishInv DEF Create
  <1>3. CASE /\ session' = [session EXCEPT ![k] = IF @ = "none" THEN "creating" ELSE @]
             /\ Goto(p, "awaiting")
    <2>1. \A s \in Sessions : session'[s] = session[s] \/ session[s] = "none"
      BY <1>3 DEF Inv, TypeOK
    <2>2. \A s \in Sessions : session'[s] \in {session[s], "creating"}
      BY <1>3 DEF Inv, TypeOK
    <2>3. /\ r \in PayState /\ r.session = pay[p].session /\ r.pc = "awaiting"
          /\ r.attempt = pay[p].attempt /\ r.inFlight = pay[p].inFlight
      BY <1>1 DEF PayState, PayStep
    <2> HIDE DEF r
    <2>4. pay' = [pay EXCEPT ![p] = r]
      BY <1>3 DEF Goto, Become, r
    <2>5. TypeOK'
      BY <1>1, <1>3, <2>3, <2>4, <2>2 DEF Create, Inv, TypeOK, db, world, SessionStatus
    <2>6. OwnSession'
      BY DEF Create, Inv, OwnSession, db
    <2>7. \A s \in Sessions : /\ Settled(s) => Settled(s)'
                              /\ Spent(s) => Spent(s)'
                              /\ session[s] = "paid" => session'[s] = "paid"
      BY <2>1 DEF Create, db, Settled, Spent
    <2>8. Knows(p, pay[p])'
      BY <1>1, <2>3, <2>4 DEF Knows, HoldsRead, Inv, TypeOK
    <2>9. \A q \in Pays : q # p => pay'[q] = pay[q]
      BY <2>4 DEF Inv, TypeOK
    <2>10. QED
      BY <2>2, <2>5, <2>6, <2>7, <2>8, <2>9, Kept DEF Create
  <1>4. QED
    BY <1>2, <1>3 DEF Create

(* The reserving Pay knows that the session it clears is spent. *)
LEMMA ReserveInv ==
  ASSUME Inv, NEW p \in Pays, Reserve(p)
  PROVE  Inv'
  <1> DEFINE o == OrderOf[p]
             a == checkout[o].attempt
             r == [pay[p] EXCEPT !.pc = "create", !.session = NoSession, !.attempt = a + 1]
  <1>1. /\ pay[p] \in PayState /\ Knows(p, pay[p]) /\ o \in Orders
        /\ a \in 0..MaxAttempts
    BY DEF Reserve, Reservable, Inv, TypeOK, PayKnows
  <1>2. CASE LookAgain(p) /\ UNCHANGED checkout
    BY <1>2, LookAgainInv DEF Reserve, Reservable, db
  <1>3. CASE /\ checkout[o].session = pay[p].session
             /\ a < MaxAttempts
             /\ checkout' = [checkout EXCEPT ![o] =
                  [attempt |-> a + 1, session |-> NoSession, leased |-> TRUE]]
             /\ Become(p, r)
    <2>1. a + 1 \in 1..MaxAttempts
      BY <1>1, <1>3
    <2>2. /\ r \in PayState /\ r.session = NoSession /\ r.pc = "create"
          /\ r.attempt = a + 1
      <3>1. a + 1 \in 0..MaxAttempts /\ "create" \in PayStep
        BY <2>1 DEF PayStep
      <3>2. QED
        BY <1>1, <3>1 DEF PayState
    <2> HIDE DEF r
    <2>3. pay' = [pay EXCEPT ![p] = r]
      BY <1>3 DEF Become
    <2>4. TypeOK'
      BY <1>1, <1>3, <2>1, <2>2, <2>3 DEF Reserve, Reservable, Inv, TypeOK, world
    <2>5. OwnSession'
      BY <1>3, <2>1 DEF Inv, TypeOK, OwnSession
    <2>6. \A s \in Sessions : Spent(s) <=> Spent(s)'
      BY DEF Reserve, Reservable, Spent
    <2>7. pay[p].session # NoSession => Spent(pay[p].session)
      BY <1>1 DEF Reserve, Reservable, Knows
    <2>8. \A s \in Sessions : Settled(s) => Settled(s)'
      <3> SUFFICES ASSUME NEW s \in Sessions, Settled(s), ~Spent(s)
                   PROVE  checkout'[s[1]].session = s
        BY <2>6 DEF Settled
      <3>1. s[1] \in Orders /\ checkout[s[1]].session = s
        BY DEF Settled, Sessions
      <3>2. s[1] # o
        BY <1>3, <2>7, <3>1, NoSessionIsNone
      <3>3. QED
        BY <1>3, <3>1, <3>2 DEF Inv, TypeOK
    <2>9. Knows(p, pay[p])'
      BY <2>1, <2>2, <2>3 DEF Knows, HoldsRead, Inv, TypeOK
    <2>10. \A q \in Pays : q # p => pay'[q] = pay[q]
      BY <2>3 DEF Inv, TypeOK
    <2>11. QED
      BY <2>4, <2>5, <2>6, <2>8, <2>9, <2>10, Kept DEF Reserve, Reservable
  <1>4. QED
    BY <1>2, <1>3 DEF Reserve, Reservable

LEMMA EndInv ==
  ASSUME Inv, NEW p \in Pays, End(p)
  PROVE  Inv'
  <1>1. \A o \in Orders : /\ checkout'[o].session = checkout[o].session
                          /\ checkout'[o].attempt = checkout[o].attempt
                          /\ checkout'[o].leased \in {checkout[o].leased, FALSE}
    BY DEF End, Inv, TypeOK
  <1>2. TypeOK'
    BY IdleType DEF End, Finish, Become, Inv, TypeOK, world
  <1>3. OwnSession'
    BY <1>1 DEF Inv, OwnSession
  <1>4. \A s \in Sessions : /\ Settled(s) => Settled(s)'
                            /\ Spent(s) => Spent(s)'
    BY <1>1 DEF End, Settled, Spent, Sessions
  <1>5. pay' = [pay EXCEPT ![p] = Idle] /\ pay'[p] = Idle
    BY DEF End, Finish, Become, Inv, TypeOK
  <1>6. Knows(p, pay[p])'
    BY <1>5 DEF Knows, HoldsRead, Idle
  <1>7. \A q \in Pays : q # p => pay'[q] = pay[q]
    BY <1>5 DEF Inv, TypeOK
  <1>8. QED
    BY <1>2, <1>3, <1>4, <1>6, <1>7, Kept DEF End

LEMMA RecordInv ==
  ASSUME Inv, NEW p \in Pays, Record(p)
  PROVE  Inv'
  <1> DEFINE o == OrderOf[p]
             k == pay[p].session
             r == [pay[p] EXCEPT !.pc = "redirect"]
  <1>1. /\ pay[p] \in PayState /\ Knows(p, pay[p]) /\ o \in Orders
        /\ k \in Sessions /\ k[1] = o /\ pay[p].attempt # 0
    BY DEF Record, Inv, TypeOK, PayKnows, Knows, PayState
  <1>2. CASE LookAgain(p) /\ UNCHANGED checkout
    BY <1>2, LookAgainInv DEF Record, db
  <1>3. CASE /\ Recordable(o, pay[p].attempt, k)
             /\ checkout' = [checkout EXCEPT ![o].session = k]
             /\ Goto(p, "redirect")
    <2>1. /\ r \in PayState /\ r.session = k /\ r.pc = "redirect"
          /\ r.attempt = pay[p].attempt /\ r.inFlight = pay[p].inFlight
      BY <1>1 DEF PayState, PayStep
    <2> HIDE DEF r
    <2>2. pay' = [pay EXCEPT ![p] = r]
      BY <1>3 DEF Goto, Become, r
    <2>3. \A q \in Orders :
             /\ checkout'[q].session = IF q = o THEN k ELSE checkout[q].session
             /\ checkout'[q].attempt = checkout[q].attempt
             /\ checkout'[q].leased = checkout[q].leased
      BY <1>3 DEF Inv, TypeOK
    <2>4. TypeOK'
      BY <1>1, <1>3, <2>1, <2>2 DEF Record, Inv, TypeOK, world
    <2>5. OwnSession'
      BY <1>1, <2>3 DEF Inv, OwnSession
    <2>6. \A s \in Sessions : /\ Settled(s) => Settled(s)'
                              /\ Spent(s) => Spent(s)'
      BY <1>3, <2>3, NoSessionIsNone DEF Record, Recordable, Settled, Spent, Sessions
    <2>7. pay'[p] = r /\ checkout'[k[1]].session = k
      BY <1>1, <2>2, <2>3 DEF Inv, TypeOK
    <2>8. Knows(p, pay[p])'
      BY <1>1, <2>1, <2>7, NoSessionIsNone DEF Knows, Settled
    <2>9. \A q \in Pays : q # p => pay'[q] = pay[q]
      BY <2>2 DEF Inv, TypeOK
    <2>10. QED
      BY <2>4, <2>5, <2>6, <2>8, <2>9, Kept DEF Record
  <1>4. QED
    BY <1>2, <1>3 DEF Record

LEMMA RedirectInv ==
  ASSUME Inv, NEW p \in Pays, Redirect(p)
  PROVE  Inv'
  <1> DEFINE k == pay[p].session
  <1>1. k \in Sessions /\ Settled(k)
    BY DEF Redirect, Inv, TypeOK, PayKnows, Knows, HoldsRead, PayState
  <1>2. pay' = [pay EXCEPT ![p] = Idle] /\ pay'[p] = Idle
    BY DEF Redirect, Finish, Become, Inv, TypeOK
  <1>3. TypeOK'
    BY <1>1, <1>2, IdleType DEF Redirect, Inv, TypeOK, db, world
  <1>4. OwnSession'
    BY DEF Redirect, Inv, OwnSession, db
  <1>5. \A s \in Sessions : (Settled(s) <=> Settled(s)') /\ (Spent(s) <=> Spent(s)')
    BY DEF Redirect, db, Settled, Spent
  <1>6. Knows(p, pay[p])'
    BY <1>2 DEF Knows, HoldsRead, Idle
  <1>7. \A q \in Pays : q # p => pay'[q] = pay[q]
    BY <1>2 DEF Inv, TypeOK
  <1>8. QED
    BY <1>1, <1>3, <1>4, <1>5, <1>6, <1>7, Kept DEF Redirect

(* Stripe, the Customer and time move a session: never out of a spent state,
   and to one that takes money only once the session was delivered. *)
LEMMA SessionMovesInv ==
  ASSUME Inv, NEW s \in Sessions, NEW from \in SUBSET SessionStatus, NEW to \in SessionStatus,
         SessionMoves(s, from, to), faults' \in 0..MaxFaults,
         from \cap {"failed", "gone", "paid"} = {},
         "expired" \in from => to = "gone",
         to \in {"processing", "paid"} =>
           s \in delivered \/ from \subseteq {"processing"}
  PROVE  Inv'
  <1>1. \A t \in Sessions : session'[t] = IF t = s THEN to ELSE session[t]
    BY DEF SessionMoves, Inv, TypeOK
  <1>2. TypeOK'
    BY DEF SessionMoves, Inv, TypeOK, db, world
  <1>3. OwnSession'
    BY DEF SessionMoves, Inv, OwnSession, db
  <1>4. \A t \in Sessions : Spent(t) => Spent(t)'
    BY <1>1 DEF SessionMoves, Spent, db
  <1>5. \A t \in Sessions : /\ Settled(t) => Settled(t)'
                            /\ session[t] = "paid" => session'[t] = "paid"
    BY <1>1, <1>4 DEF SessionMoves, Settled, db
  <1>6. \A t \in Sessions : session'[t] \in {"processing", "paid"} =>
                            t \in delivered' \/ session[t] \in {"processing", "paid"}
    BY <1>1 DEF SessionMoves
  <1>7. QED
    BY <1>2, <1>3, <1>4, <1>5, <1>6, Kept DEF SessionMoves

(* A Payment is recorded, or its refund ends: a refunded one stays so. *)
LEMMA PaymentInv ==
  ASSUME Inv, NEW s \in Sessions, WebhookRecords(s) \/ RefundEnds(s)
  PROVE  Inv'
  <1>1. /\ UNCHANGED <<checkout, world, session, delivered, pay, faults>>
        /\ paymentStatus' \in [Orders -> {"pending", "paid"}]
        /\ payment' \in [Sessions -> PaymentRecord]
    BY DEF WebhookRecords, RefundEnds, Inv, TypeOK, Sessions, PaymentRecord
  <1>2. \A t \in Sessions : payment[t] = "refunded" => payment'[t] = "refunded"
    BY DEF WebhookRecords, RefundEnds, Inv, TypeOK
  <1>3. TypeOK'
    BY <1>1 DEF Inv, TypeOK, world
  <1>4. OwnSession'
    BY <1>1 DEF Inv, OwnSession
  <1>5. \A t \in Sessions : /\ Spent(t) => Spent(t)'
                            /\ Settled(t) => Settled(t)'
    BY <1>1, <1>2 DEF Spent, Settled
  <1>6. QED
    BY <1>1, <1>3, <1>4, <1>5, Kept

LEMMA LeaseLapsesInv ==
  ASSUME Inv, NEW o \in Orders, LeaseLapses(o)
  PROVE  Inv'
  <1>1. \A q \in Orders : /\ checkout'[q].session = checkout[q].session
                          /\ checkout'[q].attempt = checkout[q].attempt
                          /\ checkout'[q].leased \in {checkout[q].leased, FALSE}
    BY DEF LeaseLapses, Inv, TypeOK
  <1>2. TypeOK'
    <2>1. faults' \in 0..MaxFaults
      BY DEF LeaseLapses, Fault, Inv, TypeOK
    <2>2. QED
      BY <2>1 DEF LeaseLapses, Inv, TypeOK, world
  <1>3. OwnSession'
    BY <1>1 DEF Inv, OwnSession
  <1>4. \A s \in Sessions : /\ Settled(s) => Settled(s)'
                            /\ Spent(s) => Spent(s)'
    BY <1>1 DEF LeaseLapses, Settled, Spent, Sessions
  <1>5. QED
    BY <1>2, <1>3, <1>4, Kept DEF LeaseLapses

LEMMA EnvironmentInv ==
  ASSUME Inv, Environment
  PROVE  Inv'
  <1>1. CASE AccountChanges \/ \E o \in Orders : StockRunsOut(o) \/ Restock(o)
    <2>1. TypeOK' /\ UNCHANGED <<db, session, delivered, pay>>
      BY <1>1 DEF AccountChanges, StockRunsOut, Restock, Fault, Inv, TypeOK, db
    <2>2. OwnSession'
      BY <2>1 DEF Inv, OwnSession, db
    <2>3. \A s \in Sessions : (Settled(s) <=> Settled(s)') /\ (Spent(s) <=> Spent(s)')
      BY <2>1 DEF db, Settled, Spent
    <2>4. QED
      BY <2>1, <2>2, <2>3, Kept
  <1>2. CASE \E o \in Orders : LeaseLapses(o)
    BY <1>2, LeaseLapsesInv
  <1>3. ASSUME NEW s \in Sessions, WebhookRecords(s) \/ RefundEnds(s)
        PROVE  Inv'
    BY <1>3, PaymentInv
  <1>4. ASSUME NEW s \in Sessions,
               \/ StripeCreates(s) \/ StripeErrors(s) \/ Expire(s) \/ Vanish(s)
               \/ CustomerPays(s) \/ DelayedSucceeds(s) \/ DelayedFails(s)
        PROVE  Inv'
    <2>1. faults \in 0..MaxFaults /\ (Fault => faults' \in 0..MaxFaults)
      BY DEF Fault, Inv, TypeOK
    <2>2. CASE StripeCreates(s) \/ StripeErrors(s)
      BY <2>1, <2>2, SessionMovesInv DEF StripeCreates, StripeErrors, SessionStatus
    <2>3. CASE Expire(s) \/ Vanish(s)
      BY <2>1, <2>3, SessionMovesInv DEF Expire, Vanish, SessionStatus
    <2>4. CASE CustomerPays(s)
      BY <2>1, <2>4, SessionMovesInv DEF CustomerPays, SessionStatus
    <2>5. CASE DelayedSucceeds(s) \/ DelayedFails(s)
      BY <2>1, <2>5, SessionMovesInv DEF DelayedSucceeds, DelayedFails, SessionStatus
    <2>6. QED
      BY <1>4, <2>2, <2>3, <2>4, <2>5
  <1>5. QED
    BY <1>1, <1>2, <1>3, <1>4 DEF Environment

LEMMA NextInv == Inv /\ [Next]_vars => Inv'
  <1> SUFFICES ASSUME Inv, [Next]_vars PROVE Inv'
    OBVIOUS
  <1>1. CASE \E p \in Pays : Begin(p) \/ PayProgress(p) \/ PayMishap(p)
    <2> PICK p \in Pays : Begin(p) \/ PayProgress(p) \/ PayMishap(p)
      BY <1>1
    <2>1. CASE Begin(p) \/ PayMishap(p)
      BY <2>1, BeginInv, MishapInv
    <2>2. CASE ReadOrder(p) \/ ReadAccount(p) \/ Retrieve(p) \/ ReadPayment(p)
      BY <2>2, ReadOrderInv, ReadAccountInv, RetrieveInv, ReadPaymentInv
    <2>3. CASE Reserve(p) \/ Create(p) \/ Answered(p)
      BY <2>3, ReserveInv, CreateInv, AnsweredInv
    <2>4. CASE End(p) \/ Record(p) \/ Redirect(p)
      BY <2>4, EndInv, RecordInv, RedirectInv
    <2>5. QED
      BY <2>1, <2>2, <2>3, <2>4 DEF PayProgress
  <1>2. CASE Environment
    BY <1>2, EnvironmentInv
  <1>3. CASE UNCHANGED vars
    <2>1. TypeOK' /\ OwnSession'
      BY <1>3 DEF Inv, TypeOK, OwnSession, vars, db, world
    <2>2. \A s \in Sessions : (Settled(s) <=> Settled(s)') /\ (Spent(s) <=> Spent(s)')
      BY <1>3 DEF Settled, Spent, vars, db
    <2>3. QED
      BY <1>3, <2>1, <2>2, Kept DEF vars
  <1>4. QED
    BY <1>1, <1>2, <1>3 DEF Next

-----------------------------------------------------------------------------
(* The results.                                                            *)

LEMMA SpecInv == Spec => []Inv
  BY InitInv, NextInv, PTL DEF Spec

(* Every variable keeps its type, whatever the interleaving. *)
THEOREM PayTypes == Spec => []TypeOK
  <1>1. Inv => TypeOK
    BY DEF Inv
  <1>2. QED
    BY <1>1, SpecInv, PTL

(* A delivered session that is not spent is the one recorded on its Order. *)
LEMMA UnspentIsRecorded ==
  ASSUME Inv, NEW s \in Sessions, s \in delivered, ~Spent(s)
  PROVE  checkout[s[1]].session = s
  BY DEF Inv, DeliveredSettled, Settled

(* An Order never has two sessions a Customer could pay (the claim above
   reserveCheckoutAttempt in db/src/index.ts), for any number of concurrent
   Pays, attempts and faults. *)
THEOREM PayOneLiveSession == Spec => []OneLiveSession
  <1>1. Inv => OneLiveSession
    <2> SUFFICES ASSUME Inv, NEW s \in Sessions, NEW t \in Sessions,
                        SameOrder(s, t), Payable(s), Payable(t)
                 PROVE  s = t
      BY DEF OneLiveSession
    <2>1. ~Spent(s) /\ ~Spent(t)
      BY DEF Payable, Spent
    <2>2. QED
      BY <2>1, UnspentIsRecorded DEF Payable, SameOrder
  <1>2. QED
    BY <1>1, SpecInv, PTL

(* Held money was taken by the session recorded on the Order, the only one
   whose payment the Order page reads (getStorefrontOrder). *)
THEOREM PayHeldMoneyIsShown == Spec => []HeldMoneyIsShown
  <1>1. Inv => HeldMoneyIsShown
    <2> SUFFICES ASSUME Inv, NEW s \in Sessions, Holds(s)
                 PROVE  checkout[s[1]].session = s
      BY DEF HeldMoneyIsShown
    <2>1. s \in delivered /\ ~Spent(s)
      BY DEF Inv, DeliveredSettled, Holds, Spent
    <2>2. QED
      BY <2>1, UnspentIsRecorded
  <1>2. QED
    BY <1>1, SpecInv, PTL

(* A Customer whose money is held is not asked to pay again, and no second
   payment for the Order is held (assess and recordedSession). *)
THEOREM PayMoneyHeldOnce == Spec => []MoneyHeldOnce
  <1>1. Inv => MoneyHeldOnce
    <2> SUFFICES ASSUME Inv, NEW s \in Sessions, NEW t \in Sessions,
                        SameOrder(s, t), Holds(s), Holds(t) \/ Payable(t)
                 PROVE  s = t
      BY DEF MoneyHeldOnce
    <2>1. s \in delivered /\ ~Spent(s) /\ t \in delivered /\ ~Spent(t)
      BY DEF Inv, DeliveredSettled, Holds, Payable, Spent
    <2>2. QED
      BY <2>1, UnspentIsRecorded DEF SameOrder
  <1>2. QED
    BY <1>1, SpecInv, PTL

(* A recorded session is cleared or replaced only when it is spent. *)
THEOREM PayReplacedOnlyWhenSpent == Spec => ReplacedOnlyWhenSpent
  <1> DEFINE A == \A o \in Orders :
                    LET s == checkout[o].session IN
                    s # NoSession /\ checkout'[o].session # s => Spent(s)
  <1>1. Inv /\ [Next]_vars => [A]_vars
    <2> SUFFICES ASSUME Inv, Next, NEW o \in Orders,
                        checkout[o].session # NoSession,
                        checkout'[o].session # checkout[o].session
                 PROVE  Spent(checkout[o].session)
      OBVIOUS
    <2>1. ~Environment
      BY DEF Environment, AccountChanges, StockRunsOut, Restock, LeaseLapses,
             StripeCreates, StripeErrors, Expire, Vanish, CustomerPays,
             DelayedSucceeds, DelayedFails, SessionMoves, WebhookRecords,
             RefundEnds, Inv, TypeOK, db
    <2>2. PICK p \in Pays : Begin(p) \/ PayProgress(p) \/ PayMishap(p)
      BY <2>1 DEF Next
    <2>3. Knows(p, pay[p])
      BY DEF Inv, PayKnows
    <2>4. CASE Reserve(p)
      BY <2>3, <2>4 DEF Reserve, Reservable, Knows, Inv, TypeOK
    <2>5. CASE Record(p)
      BY <2>5 DEF Record, Recordable, Inv, TypeOK
    <2>6. CASE End(p)
      BY <2>6 DEF End, Inv, TypeOK
    <2>7. ~(Begin(p) \/ PayMishap(p) \/ ReadOrder(p) \/ ReadAccount(p)
             \/ Retrieve(p) \/ ReadPayment(p) \/ Create(p) \/ Answered(p) \/ Redirect(p))
      BY DEF Begin, PayMishap, CreateFails, Resend, Abandon, ReadOrder, InFlight, ReadAccount,
             Retrieve, ReadPayment, Create, Answered, Redirect, db
    <2>8. QED
      BY <2>2, <2>4, <2>5, <2>6, <2>7 DEF PayProgress
  <1>2. QED
    BY <1>1, SpecInv, PTL DEF Spec, ReplacedOnlyWhenSpent

-----------------------------------------------------------------------------
(* The Order page.  What it read some steps ago is still so while the money *)
(* is held: the session that holds it stays the recorded one, and its      *)
(* Payment is not refunded.                                                *)

Deciding   == {"reserve", "create", "awaiting", "record", "redirect"}
Sees(r)    == r.enabled \/ r.pc \in Deciding

(* An Order has a session only once the Store has an account. *)
AccountKnown ==
  /\ \A p \in Pays : Sees(pay[p]) => account # "none"
  /\ \A o \in Orders : checkout[o].session # NoSession => account # "none"

(* What the page knows of a session s that holds money since it was opened. *)
PageSees(s) ==
  /\ page.pc \in {"payment", "account", "retrieve", "paid"} => page.session = s
  /\ page.payment # "refunded"
  /\ page.pc = "shown" => page.answer \in {"not_pending", "processing", "refund_pending", "unknown"}

PageKnows == \A s \in page.held :
  /\ s[1] = Viewed /\ (Holds(s) \/ Spent(s))
  /\ Holds(s) => PageSees(s)

(* Only a payment that was made is recorded. *)
RecordedIsPaid == \A s \in Sessions : payment[s] # "none" => session[s] = "paid"

PageInv == Inv /\ AccountKnown /\ RecordedIsPaid /\ PageTypeOK /\ PageKnows

(* Where a Pay may be after one of its steps. *)
LEMMA AssessedSees ==
  ASSUME Inv, NEW p \in Pays, NEW r \in PayState, NEW open \in BOOLEAN, Assessed(p, r, open)
  PROVE  pay' = [pay EXCEPT ![p] = Idle] \/ r.enabled
  BY DEF Assessed, Finish, Become

LEMMA StepSees ==
  ASSUME Inv, AccountKnown, NEW p \in Pays, Begin(p) \/ PayProgress(p) \/ PayMishap(p)
  PROVE  /\ \A q \in Pays : Sees(pay[q])' => account # "none"
         /\ account' = account
  <1>1. /\ pay[p] \in PayState
        /\ \A q \in Pays : Sees(pay[q]) => account # "none"
    BY DEF Inv, TypeOK, AccountKnown
  <1>2. account' = account
    BY DEF Begin, PayProgress, PayMishap, ReadOrder, ReadAccount, Retrieve, ReadPayment, Reserve,
       Create, Answered, End, Record, Redirect, CreateFails, Resend, Abandon, world
  <1>3. \A q \in Pays : q # p => pay'[q] = pay[q]
    BY DEF Begin, PayProgress, PayMishap, ReadOrder, ReadAccount, Retrieve, ReadPayment, Reserve,
       Create, Answered, End, Record, Redirect, CreateFails, Resend, Abandon, Assessed, LookAgain,
       Finish, Goto, Become, Inv, TypeOK
  <1>4. ~Sees(Idle) /\ \A n : ~Sees([Idle EXCEPT !.pc = "readOrder", !.round = n])
    BY DEF Sees, Idle, Deciding
  <1>5. Sees(pay'[p]) => account # "none"
    <2>1. CASE Begin(p)
      BY <1>4, <2>1 DEF Begin, Become, Inv, TypeOK
    <2>2. CASE ReadOrder(p)
      <3>1. CASE Finish(p)
        BY <1>4, <3>1 DEF Finish, Become, Inv, TypeOK
      <3>2. CASE ~Finish(p)
        <4> DEFINE o == OrderOf[p]
                   r == [pay[p] EXCEPT
                           !.pc = "readAccount",
                           !.attempt = checkout[o].attempt,
                           !.session = checkout[o].session,
                           !.inFlight = InFlight(o),
                           !.blocked = stock[o] # "available"]
        <4>1. r.enabled = pay[p].enabled /\ r.pc = "readAccount"
          BY <1>1 DEF PayState
        <4>2. Become(p, r)
          BY <2>2, <3>2 DEF ReadOrder
        <4> HIDE DEF r
        <4>3. pay'[p] = r
          BY <4>2 DEF Become, Inv, TypeOK
        <4> QED BY <1>1, <4>1, <4>3 DEF Sees, Deciding
      <3> QED BY <3>1, <3>2
    <2>3. CASE ReadAccount(p)
      <3> DEFINE r == [pay[p] EXCEPT !.enabled = account = "enabled"]
      <3>1. r \in PayState /\ (r.enabled <=> account = "enabled")
        BY <1>1 DEF PayState
      <3>2. CASE Assessed(p, r, FALSE)
        <4>1. pay' = [pay EXCEPT ![p] = Idle] \/ r.enabled
          BY <3>1, <3>2, AssessedSees
        <4> HIDE DEF r
        <4> QED BY <1>4, <3>1, <4>1 DEF Inv, TypeOK
      <3>3. CASE account # "none"
        BY <3>3
      <3> QED BY <2>3, <3>2, <3>3 DEF ReadAccount
    <2>4. CASE Retrieve(p) \/ ReadPayment(p)
      <3>1. CASE \E open \in BOOLEAN : Assessed(p, pay[p], open)
        <4>1. pay' = [pay EXCEPT ![p] = Idle] \/ pay[p].enabled
          BY <1>1, <3>1, AssessedSees
        <4> QED BY <1>1, <1>4, <4>1 DEF Sees, Inv, TypeOK
      <3>2. CASE Finish(p)
        BY <1>4, <3>2 DEF Finish, Become, Inv, TypeOK
      <3>3. CASE Goto(p, "readPayment")
        BY <1>1, <3>3 DEF Goto, Become, Inv, TypeOK, Sees, Deciding, PayState
      <3> QED BY <2>4, <3>1, <3>2, <3>3 DEF Retrieve, ReadPayment
    <2>5. CASE Reserve(p) \/ Record(p)
      BY <1>1, <1>4, <2>5 DEF Reserve, Record, LookAgain, Finish, Goto, Become, Inv, TypeOK, Sees, Deciding
    <2>6. CASE Create(p) \/ Answered(p) \/ CreateFails(p) \/ Resend(p)
      BY <1>1, <1>4, <2>6 DEF Create, Answered, CreateFails, Resend, Finish, Goto, Become, Inv,
         TypeOK, Sees, Deciding, PayState
    <2>7. CASE End(p) \/ Redirect(p) \/ Abandon(p)
      BY <1>4, <2>7 DEF End, Redirect, Abandon, Finish, Become, Inv, TypeOK
    <2> QED BY <2>1, <2>2, <2>3, <2>4, <2>5, <2>6, <2>7 DEF PayProgress, PayMishap
  <1> QED BY <1>1, <1>2, <1>3, <1>5

LEMMA AccountKnownKept ==
  ASSUME Inv, AccountKnown, [Next]_vars
  PROVE  AccountKnown'
  <1>1. CASE \E p \in Pays : Begin(p) \/ PayProgress(p) \/ PayMishap(p)
    <2> PICK p \in Pays : Begin(p) \/ PayProgress(p) \/ PayMishap(p)
      BY <1>1
    <2>1. (\A q \in Pays : Sees(pay[q])' => account # "none") /\ account' = account
      BY StepSees
    <2>2. ASSUME NEW o \in Orders, checkout'[o].session # NoSession, account = "none"
          PROVE  FALSE
      <3>1. checkout[o].session = NoSession /\ ~Sees(pay[p])
        BY <2>2 DEF AccountKnown
      <3>2. checkout' # checkout
        BY <2>2, <3>1
      <3>3. CASE Record(p)
        BY <3>1, <3>3 DEF Record, Sees, Deciding
      <3>4. CASE Reserve(p)
        BY <3>1, <3>4 DEF Reserve, Sees, Deciding
      <3>5. CASE End(p)
        BY <2>2, <3>1, <3>5 DEF End, Inv, TypeOK
      <3>6. ~(Begin(p) \/ PayMishap(p) \/ ReadOrder(p) \/ ReadAccount(p)
               \/ Retrieve(p) \/ ReadPayment(p) \/ Create(p) \/ Answered(p) \/ Redirect(p))
        BY <3>2 DEF Begin, PayMishap, CreateFails, Resend, Abandon, ReadOrder, ReadAccount,
           Retrieve, ReadPayment, Create, Answered, Redirect, db
      <3> QED BY <3>3, <3>4, <3>5, <3>6 DEF PayProgress
    <2> QED BY <2>1, <2>2 DEF AccountKnown
  <1>2. CASE Environment
    <2>1. pay' = pay /\ (account # "none" => account' # "none")
      BY <1>2 DEF Environment, AccountChanges, LeaseLapses, StockRunsOut, Restock, StripeCreates,
         StripeErrors, Expire, Vanish, CustomerPays, DelayedSucceeds, DelayedFails, SessionMoves,
         WebhookRecords, RefundEnds, world
    <2>2. \A o \in Orders : checkout'[o].session = checkout[o].session
      BY <1>2 DEF Environment, AccountChanges, LeaseLapses, StockRunsOut, Restock, StripeCreates,
         StripeErrors, Expire, Vanish, CustomerPays, DelayedSucceeds, DelayedFails, SessionMoves,
         WebhookRecords, RefundEnds, db, Inv, TypeOK
    <2> QED BY <2>1, <2>2 DEF AccountKnown
  <1>3. CASE UNCHANGED vars
    BY <1>3 DEF vars, db, world, AccountKnown
  <1> QED BY <1>1, <1>2, <1>3 DEF Next

(* What a step does to a session and its Payment: nothing that was paid,
   spent or recorded is undone, and money that is held is held until it is
   lost for good. *)
MovesOn(s) ==
  /\ Spent(s) => Spent(s)'
  /\ Holds(s) => (Holds(s) \/ Spent(s))'
  /\ payment'[s] # "none" => session'[s] = "paid"

LEMMA MoneyMoves ==
  ASSUME Inv, RecordedIsPaid, [Next]_vars, NEW s \in Sessions
  PROVE  MovesOn(s)
  <1> USE DEF MovesOn
  <1>1. payment[s] # "none" => session[s] = "paid"
    BY DEF RecordedIsPaid
  <1>2. CASE UNCHANGED <<session, payment>>
    BY <1>1, <1>2 DEF Spent, Holds
  <1>3. ASSUME NEW p \in Pays, Create(p) PROVE MovesOn(s)
    <2>1. payment' = payment /\ (session'[s] = session[s] \/ session[s] = "none")
      BY <1>3 DEF Create, db, Inv, TypeOK
    <2> QED BY <1>1, <2>1 DEF Spent, Holds
  <1>4. ASSUME NEW t \in Sessions, NEW from, NEW to, SessionMoves(t, from, to),
               from \cap {"failed", "gone", "paid"} = {},
               "expired" \in from => to = "gone",
               "processing" \in from => to \in {"paid", "failed"}
        PROVE  MovesOn(s)
    <2>1. payment' = payment /\ session'[s] = IF s = t THEN to ELSE session[s]
      BY <1>4 DEF SessionMoves, db, Inv, TypeOK
    <2>2. s = t => session[s] \in from
      BY <1>4 DEF SessionMoves
    <2> QED BY <1>1, <1>4, <2>1, <2>2 DEF Spent, Holds
  <1>5. ASSUME NEW t \in Sessions, WebhookRecords(t) \/ RefundEnds(t) PROVE MovesOn(s)
    <2>1. /\ session' = session /\ (payment[s] = "refunded" => payment'[s] = "refunded")
          /\ payment'[s] # "none" => payment[s] # "none" \/ session[s] = "paid"
      BY <1>5 DEF WebhookRecords, RefundEnds, Inv, TypeOK
    <2> QED BY <1>1, <2>1 DEF Spent, Holds
  <1>6. CASE \E p \in Pays : Begin(p) \/ PayProgress(p) \/ PayMishap(p)
    <2> PICK p \in Pays : Begin(p) \/ PayProgress(p) \/ PayMishap(p)
      BY <1>6
    <2>1. CASE Create(p)
      BY <1>3, <2>1
    <2>2. CASE ~Create(p)
      <3>1. UNCHANGED <<session, payment>>
        BY <2>2 DEF Begin, PayProgress, PayMishap, ReadOrder, ReadAccount, Retrieve, ReadPayment,
           Reserve, Answered, End, Record, Redirect, CreateFails, Resend, Abandon, db
      <3> QED BY <1>2, <3>1
    <2> QED BY <2>1, <2>2
  <1>7. CASE AccountChanges \/ \E o \in Orders : LeaseLapses(o) \/ StockRunsOut(o) \/ Restock(o)
    BY <1>2, <1>7 DEF AccountChanges, LeaseLapses, StockRunsOut, Restock, db
  <1>8. ASSUME NEW t \in Sessions,
               \/ StripeCreates(t) \/ StripeErrors(t) \/ Expire(t) \/ Vanish(t)
               \/ CustomerPays(t) \/ DelayedSucceeds(t) \/ DelayedFails(t)
        PROVE  MovesOn(s)
    <2> HIDE DEF MovesOn
    <2>1. CASE StripeCreates(t) \/ StripeErrors(t)
      BY <1>4, <2>1 DEF StripeCreates, StripeErrors
    <2>2. CASE Expire(t) \/ Vanish(t)
      BY <1>4, <2>2 DEF Expire, Vanish
    <2>3. CASE CustomerPays(t)
      BY <1>4, <2>3 DEF CustomerPays
    <2>4. CASE DelayedSucceeds(t) \/ DelayedFails(t)
      BY <1>4, <2>4 DEF DelayedSucceeds, DelayedFails
    <2> QED BY <1>8, <2>1, <2>2, <2>3, <2>4
  <1>9. CASE UNCHANGED vars
    BY <1>2, <1>9 DEF vars, db
  <1> HIDE DEF MovesOn
  <1> QED BY <1>5, <1>6, <1>7, <1>8, <1>9 DEF Next, Environment

(* A session that holds money is the one the page reads, and Stripe is asked
   about it. *)
LEMMA HeldIsRecorded ==
  ASSUME Inv, AccountKnown, NEW s \in Sessions, Holds(s)
  PROVE  /\ checkout[s[1]].session = s /\ s # NoSession /\ account # "none"
         /\ session[s] \in {"processing", "paid"} /\ payment[s] # "refunded"
  <1>1. s \in delivered /\ ~Spent(s) /\ s # NoSession /\ s[1] \in Orders
    BY NoSessionIsNone DEF Inv, DeliveredSettled, Holds, Spent, Sessions
  <1>2. checkout[s[1]].session = s
    BY <1>1 DEF Inv, DeliveredSettled, Settled
  <1> QED BY <1>1, <1>2 DEF AccountKnown, Holds

(* Everybody else's steps, while the page is read or shown. *)
LEMMA OthersKeepPage ==
  ASSUME PageInv, [Next]_vars, UNCHANGED page
  PROVE  PageInv'
  <1>1. Inv' /\ AccountKnown'
    BY NextInv, AccountKnownKept DEF PageInv
  <1>2. \A s \in Sessions : MovesOn(s)
    BY MoneyMoves DEF PageInv
  <1>3. RecordedIsPaid' /\ PageTypeOK'
    BY <1>2 DEF MovesOn, RecordedIsPaid, PageInv, PageTypeOK
  <1>4. \A s \in page.held : s \in Sessions
    BY DEF PageInv, PageTypeOK, PageState
  <1>5. \A s : ~(Holds(s) /\ Spent(s))' /\ (PageSees(s)' <=> PageSees(s))
    BY DEF Holds, Spent, PageSees
  <1>6. PageKnows'
    BY <1>2, <1>4, <1>5 DEF PageInv, PageKnows, MovesOn
  <1> QED BY <1>1, <1>3, <1>6 DEF PageInv

LEMMA PageTurns ==
  ASSUME PageInv, NEW q \in PageState, Turn(q), q.held = page.held,
         \A s \in page.held :
           Holds(s) /\ PageSees(s) =>
             /\ q.pc \in {"payment", "account", "retrieve", "paid"} => q.session = s
             /\ q.payment # "refunded"
             /\ q.pc = "shown" => q.answer \in {"not_pending", "processing", "refund_pending", "unknown"}
  PROVE  PageInv'
  <1>1. page' = q /\ UNCHANGED vars
    BY DEF Turn
  <1>2. Inv' /\ AccountKnown'
    BY <1>1, NextInv, AccountKnownKept DEF PageInv
  <1>3. RecordedIsPaid' /\ PageTypeOK'
    BY <1>1 DEF RecordedIsPaid, PageInv, PageTypeOK, vars, db
  <1>4. \A s : (Holds(s)' <=> Holds(s)) /\ (Spent(s)' <=> Spent(s))
    BY <1>1 DEF vars, db, Holds, Spent
  <1>5. PageKnows'
    BY <1>1, <1>4 DEF PageInv, PageKnows, PageSees
  <1> QED BY <1>2, <1>3, <1>5 DEF PageInv

LEMMA PageShows ==
  ASSUME PageInv, NEW p \in PageState, p.held = page.held,
         NEW answer \in Blocks \cup {"available", "unknown"}, Show(p, answer),
         \A s \in page.held : Holds(s) /\ PageSees(s) =>
           p.payment # "refunded" /\ answer \in {"not_pending", "processing", "refund_pending", "unknown"}
  PROVE  PageInv'
  <1> DEFINE q == [p EXCEPT !.pc = "shown", !.answer = answer,
                            !.session = NoSession, !.blocked = "none", !.enabled = FALSE]
  <1>1. q \in PageState /\ q.pc = "shown" /\ q.answer = answer /\ q.payment = p.payment /\ q.held = p.held
    BY DEF PageState
  <1>2. Turn(q)
    BY DEF Show
  <1> HIDE DEF q
  <1> QED BY <1>1, <1>2, PageTurns

LEMMA AssessShows ==
  ASSUME PageInv, NEW p \in PageState, p.held = page.held, Assess(p),
         \A s \in page.held : ~Holds(s)
  PROVE  PageInv'
  <1> DEFINE answer == IF ~p.enabled THEN "payments_not_set_up"
                       ELSE IF p.blocked # "none" THEN p.blocked ELSE "available"
  <1>1. answer \in Blocks \cup {"available", "unknown"}
    BY DEF PageState, Blocks
  <1>2. Show(p, answer)
    BY DEF Assess
  <1> HIDE DEF answer
  <1> QED BY <1>1, <1>2, PageShows

(* A session held since the page was opened is the one that it reads. *)
LEMMA PageReads ==
  ASSUME PageInv, NEW s \in page.held, Holds(s)
  PROVE  /\ s \in Sessions /\ s # NoSession /\ PageSees(s)
         /\ checkout[Viewed].session = s /\ account # "none"
         /\ session[s] \in {"processing", "paid"} /\ payment[s] # "refunded"
  <1>1. s \in Sessions /\ s[1] = Viewed /\ PageSees(s)
    BY DEF PageInv, PageTypeOK, PageState, PageKnows
  <1> QED BY <1>1, HeldIsRecorded DEF PageInv

LEMMA OpenCloseInv ==
  ASSUME PageInv, Open \/ Close
  PROVE  PageInv'
  <1> DEFINE held == {s \in Sessions : s[1] = Viewed /\ Holds(s)}
             q    == [Closed EXCEPT !.pc = "order", !.held = held]
  <1>1. /\ q \in PageState /\ q.pc = "order" /\ q.held = held /\ q.payment = "none"
        /\ Closed \in PageState /\ Closed.held = {}
    BY DEF PageState, Closed, PaymentRecord
  <1>2. (page' = q \/ page' = Closed) /\ UNCHANGED vars
    BY DEF Open, Close, Turn
  <1> HIDE DEF q
  <1>3. Inv' /\ AccountKnown'
    BY <1>2, NextInv, AccountKnownKept DEF PageInv
  <1>4. RecordedIsPaid' /\ PageTypeOK'
    BY <1>1, <1>2 DEF RecordedIsPaid, PageInv, PageTypeOK, vars, db
  <1>5. \A s : Holds(s)' <=> Holds(s)
    BY <1>2 DEF vars, db, Holds
  <1>6. PageKnows'
    BY <1>1, <1>2, <1>5 DEF PageKnows, PageSees
  <1> QED BY <1>3, <1>4, <1>6 DEF PageInv

LEMMA ReadStorefrontInv ==
  ASSUME PageInv, ReadStorefrontOrder \/ ReadStorefrontPayment
  PROVE  PageInv'
  <1>1. page \in PageState /\ Inv
    BY DEF PageInv, PageTypeOK
  <1>2. CASE ReadStorefrontOrder
    <2> DEFINE q == [page EXCEPT !.pc = "payment", !.status = paymentStatus[Viewed],
                                 !.session = checkout[Viewed].session]
    <2>1. /\ q \in PageState /\ q.pc = "payment" /\ q.session = checkout[Viewed].session
          /\ q.payment = page.payment /\ q.held = page.held
      BY <1>1, OrderPageAssumption DEF Inv, TypeOK, PageState
    <2>2. Turn(q)
      BY <1>2 DEF ReadStorefrontOrder
    <2> HIDE DEF q
    <2> QED BY <2>1, <2>2, PageTurns, PageReads DEF PageSees
  <1>3. CASE ReadStorefrontPayment
    <2> DEFINE read  == IF page.session = NoSession THEN "none" ELSE payment[page.session]
               found == [page EXCEPT !.payment = read]
               q     == [found EXCEPT !.pc = "again", !.session = NoSession]
    <2>1. /\ read \in PaymentRecord
          /\ \A s \in page.held : Holds(s) => read # "refunded"
      <3>1. read \in PaymentRecord
        BY <1>1 DEF Inv, TypeOK, PageState, PaymentRecord
      <3>2. ASSUME NEW s \in page.held, Holds(s) PROVE read # "refunded"
        <4>1. page.session = s
          BY <1>3, <3>2, PageReads DEF PageSees, ReadStorefrontPayment, At
        <4> QED BY <3>2, <4>1, PageReads
      <3> QED BY <3>1, <3>2
    <2> HIDE DEF read
    <2>2. /\ found \in PageState /\ found.payment = read /\ found.held = page.held
          /\ q \in PageState /\ q.pc = "again" /\ q.payment = read /\ q.held = page.held
      BY <1>1, <2>1 DEF PageState
    <2>3. Turn(q) \/ Show(found, "unknown")
      BY <1>3 DEF ReadStorefrontPayment, read
    <2> HIDE DEF found, q
    <2>4. CASE Turn(q)
      BY <2>1, <2>2, <2>4, PageTurns
    <2>5. CASE Show(found, "unknown")
      BY <2>1, <2>2, <2>5, PageShows
    <2> QED BY <2>3, <2>4, <2>5
  <1> QED BY <1>2, <1>3

LEMMA ReadAgainInv ==
  ASSUME PageInv, ReadAgain
  PROVE  PageInv'
  <1>1. page \in PageState /\ Inv
    BY DEF PageInv, PageTypeOK
  <1>2. CASE Show(page, "not_pending")
    BY <1>1, <1>2, PageShows, PageReads DEF PageSees, Blocks
  <1>3. CASE ~Show(page, "not_pending")
    <2> DEFINE block == OrderBlock(Viewed)
               q == [page EXCEPT !.pc = "account", !.session = checkout[Viewed].session,
                                 !.blocked = block]
    <2>1. block \in {"none", "item_unavailable", "out_of_stock"}
      BY DEF OrderBlock
    <2>2. Turn(q)
      BY <1>3 DEF ReadAgain
    <2> HIDE DEF block
    <2>3. /\ q \in PageState /\ q.pc = "account" /\ q.session = checkout[Viewed].session
          /\ q.payment = page.payment /\ q.held = page.held
      BY <1>1, <2>1, OrderPageAssumption DEF Inv, TypeOK, PageState
    <2> HIDE DEF q
    <2> QED BY <2>2, <2>3, PageTurns, PageReads DEF PageSees
  <1> QED BY <1>2, <1>3

(* assess: while money is held, it does not come to what the Store and the
   Order allow. *)
LEMMA AssessmentInv ==
  ASSUME PageInv, PageReadAccount \/ PageRetrieve \/ PageReadPayment \/ AvailabilityFails
  PROVE  PageInv'
  <1>1. page \in PageState /\ Inv
    BY DEF PageInv, PageTypeOK
  <1>2. {"processing", "refund_pending", "unknown"} \subseteq Blocks \cup {"available", "unknown"}
    BY DEF Blocks
  <1>3. CASE PageReadAccount
    <2> DEFINE p == [page EXCEPT !.enabled = account = "enabled"]
               q == [p EXCEPT !.pc = "retrieve"]
    <2>1. /\ p \in PageState /\ p.held = page.held /\ p.session = page.session
          /\ q \in PageState /\ q.held = page.held /\ q.session = page.session
          /\ q.payment = page.payment /\ q.pc = "retrieve"
      BY <1>1 DEF PageState
    <2>2. /\ At("account")
          /\ Turn(q) \/ (~RecordedFirst(p) /\ Assess(p))
      BY <1>3 DEF PageReadAccount
    <2> HIDE DEF p, q
    <2>3. \A s \in page.held : Holds(s) => page.session = s /\ RecordedFirst(p)
      BY <2>1, <2>2, PageReads DEF PageSees, At, RecordedFirst
    <2>4. CASE Turn(q)
      BY <2>1, <2>3, <2>4, PageTurns DEF PageSees
    <2>5. CASE ~RecordedFirst(p) /\ Assess(p)
      BY <2>1, <2>3, <2>5, AssessShows
    <2> QED BY <2>2, <2>4, <2>5
  <1>4. CASE PageRetrieve
    <2>1. \A s \in page.held : Holds(s) => page.session = s /\ session[s] \in {"processing", "paid"}
      BY <1>4, PageReads DEF PageSees, PageRetrieve, At
    <2>2. CASE session[page.session] \in Dead \cup {"open"} /\ Assess(page)
      BY <1>1, <2>1, <2>2, AssessShows DEF Dead
    <2>3. CASE Show(page, "processing")
      BY <1>1, <1>2, <2>3, PageShows DEF PageSees
    <2>4. CASE Turn([page EXCEPT !.pc = "paid"])
      <3> DEFINE q == [page EXCEPT !.pc = "paid"]
      <3>1. /\ q \in PageState /\ q.pc = "paid" /\ q.session = page.session
            /\ q.payment = page.payment /\ q.held = page.held
        BY <1>1 DEF PageState
      <3> HIDE DEF q
      <3> QED BY <2>1, <2>4, <3>1, PageTurns DEF PageSees, q
    <2> QED BY <1>4, <2>2, <2>3, <2>4 DEF PageRetrieve
  <1>5. CASE PageReadPayment
    <2>1. \A s \in page.held : Holds(s) => page.session = s /\ payment[s] # "refunded"
      BY <1>5, PageReads DEF PageSees, PageReadPayment, At
    <2>2. CASE payment[page.session] = "refunded" /\ Assess(page)
      BY <1>1, <2>1, <2>2, AssessShows
    <2>3. CASE Show(page, "processing") \/ Show(page, "refund_pending")
      BY <1>1, <1>2, <2>3, PageShows DEF PageSees
    <2> QED BY <1>5, <2>2, <2>3 DEF PageReadPayment
  <1>6. CASE AvailabilityFails
    BY <1>1, <1>2, <1>6, PageShows DEF PageSees, AvailabilityFails
  <1> QED BY <1>3, <1>4, <1>5, <1>6

LEMMA PageInitInv == PageInit => PageInv
  <1> SUFFICES ASSUME PageInit PROVE PageInv
    OBVIOUS
  <1>1. Init /\ page = Closed
    BY DEF PageInit
  <1>2. AccountKnown /\ RecordedIsPaid
    BY <1>1 DEF Init, AccountKnown, RecordedIsPaid, Sees, Idle, Deciding
  <1>3. PageTypeOK /\ PageKnows
    BY <1>1 DEF PageTypeOK, PageState, PageKnows, Closed, PaymentRecord
  <1> QED BY <1>1, <1>2, <1>3, InitInv DEF PageInv

LEMMA PageNextInv == PageInv /\ [ViewedNext]_<<vars, page>> => PageInv'
  <1> SUFFICES ASSUME PageInv, [ViewedNext]_<<vars, page>> PROVE PageInv'
    OBVIOUS
  <1>1. CASE [Next]_vars /\ UNCHANGED page
    BY <1>1, OthersKeepPage
  <1>2. CASE PageNext
    BY <1>2, OpenCloseInv, ReadStorefrontInv, ReadAgainInv, AssessmentInv DEF PageNext
  <1> QED BY <1>1, <1>2 DEF ViewedNext

(* A Customer whose money is held since before the page was opened is told so
   and not asked to pay, for any number of Orders, Pays, attempts and faults,
   and whatever they do between two reads of the page (describeOrderPayment). *)
THEOREM OrderPageTellsOfHeldMoney == PageSpec => []PageTellsOfHeldMoney
  <1>1. PageInv => PageTellsOfHeldMoney
    <2> SUFFICES ASSUME PageInv, At("shown"), page.answer # "unknown",
                        NEW s \in page.held, NEW note \in Notes, Holds(s)
                 PROVE  LET told == Describe(page, note) IN
                        /\ ~told.payable
                        /\ page.answer = "not_pending" \/ told.notice \in TellsOfMoney
      BY DEF PageTellsOfHeldMoney
    <2>1. /\ page.payment # "refunded"
          /\ page.answer \in {"not_pending", "processing", "refund_pending"}
      BY PageReads DEF PageSees, At
    <2>2. \E notice \in TellsOfMoney \cup {"none"} :
            /\ Describe(page, note) = View(notice, FALSE)
            /\ notice = "none" => page.answer = "not_pending"
      <3>1. CASE page.status = "paid"
        <4>1. Describe(page, note) = View("paid", FALSE)
          BY <3>1 DEF Describe
        <4> QED BY <4>1 DEF TellsOfMoney
      <3>2. CASE page.status # "paid" /\ page.payment = "refund_failed"
        <4>1. Describe(page, note) = View("refund_failed", FALSE)
          BY <3>2 DEF Describe
        <4> QED BY <4>1 DEF TellsOfMoney
      <3>3. CASE page.status # "paid" /\ page.payment = "refund_due"
        <4>1. Describe(page, note) = View("refund_pending", FALSE)
          BY <3>3 DEF Describe
        <4> QED BY <4>1 DEF TellsOfMoney
      <3>4. CASE page.status # "paid" /\ page.payment \notin {"refund_failed", "refund_due", "refunded"}
        <4>1. Describe(page, note) = DescribeAnswer(page.answer, note)
          BY <3>4 DEF Describe
        <4>2. \E notice \in {"processing", "confirming", "none", "refund_pending"} :
                /\ DescribeAnswer(page.answer, note) = View(notice, FALSE)
                /\ notice = "none" => page.answer = "not_pending"
          BY <2>1 DEF DescribeAnswer
        <4> QED BY <4>1, <4>2 DEF TellsOfMoney
      <3> QED BY <2>1, <3>1, <3>2, <3>3, <3>4
    <2>3. PICK notice \in TellsOfMoney \cup {"none"} :
            /\ Describe(page, note) = View(notice, FALSE)
            /\ notice = "none" => page.answer = "not_pending"
      BY <2>2
    <2>4. Describe(page, note).notice = notice /\ Describe(page, note).payable = FALSE
      BY <2>3 DEF View
    <2> QED BY <2>3, <2>4
  <1> QED BY <1>1, PageInitInv, PageNextInv, PTL DEF PageSpec
=============================================================================
