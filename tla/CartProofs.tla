----------------------------- MODULE CartProofs -----------------------------
(***************************************************************************)
(* For any number of requests, any requests and any limit: module Cart is  *)
(* type-correct, one Cart makes at most one Order, and the requests take   *)
(* effect one at a time (Cart implements Shopping).                        *)
(*                                                                         *)
(* What makes it so is the lock (Locked), that an Order's Cart is never    *)
(* the present one (Consumed), that a request which waited for a row that  *)
(* is gone ran while there was no Cart (Noticed), and what a request has   *)
(* found out by the step it is at (Knows).                                 *)
(***************************************************************************)
EXTENDS Cart, TLAPS

Holding == {"read", "price", "write"}

Locked == \A r \in Requests : req[r].pc \in Holding <=> holder = r

Consumed ==
  /\ cart = NoCart => items = NoLines
  /\ \A x \in orders : x.cart # cart /\ x.lines # NoLines
  /\ \A x, y \in orders : x.cart = y.cart => x = y

Noticed ==
  \A r \in Requests : Running(r) =>
    /\ items = NoLines => r \in sawEmpty
    /\ req[r].pc = "wait" /\ req[r].seen # cart => r \in sawEmpty
    /\ req[r].pc = "wait" => req[r].seen # NoCart

(* What request r, for operation o, has found out when it is at its step. *)
Knows(r, o) ==
  LET v == o.variant
      q == req[r] IN
  /\ wasGone[r] \subseteq gone
  /\ q.pc \in Steps \ {"new", "check", "refused", "failed"} /\ NeedsAvailableVariant(o)
       => v \notin wasGone[r]
  /\ q.pc # "write" /\ q.pc \notin Ended => q.answer = "done"
  /\ q.pc = "upsert" => o.kind \in {"add", "save", "open"}
  /\ q.pc = "price" => o.kind = "checkout"
  /\ q.pc \in {"price", "write"} /\ o.kind = "checkout" =>
       /\ cart # NoCart /\ q.lines = items
  /\ q.pc = "read" /\ o.kind \in {"set", "remove", "checkout", "delete"} => cart # NoCart
  /\ q.pc = "write" =>
       /\ o.kind \in Changes /\ q.answer = "done" =>
            /\ Applicable(o, items[v])
            /\ q.lines = [items EXCEPT ![v] = Changed(o, items[v])]
       /\ o.kind \in Changes /\ q.answer = "refused" =>
            ~Applicable(o, items[v]) /\ q.lines = items
       /\ o.kind \notin Changes => q.answer = "done"
       /\ o.kind = "save" => q.lines = [NoLines EXCEPT ![v] = o.quantity]
       /\ o.kind = "checkout" =>
            items # NoLines /\ \A w \in Variants : items[w] > 0 => w \notin wasGone[r]

RequestsKnow == \A r \in Requests : Knows(r, op[r])

Inv == TypeOK /\ Locked /\ Consumed /\ Noticed /\ RequestsKnow

-----------------------------------------------------------------------------
USE CartAssumption

LEMMA LineTypes == NoLines \in Lines /\ \A v \in Variants : NoLines[v] = 0
  BY DEF NoLines, Lines

LEMMA StateType ==
  ASSUME NEW q \in ReqState, NEW pc \in Steps, NEW n \in Nat, NEW ls \in Lines,
         NEW a \in {"done", "refused"}
  PROVE  /\ [q EXCEPT !.pc = pc] \in ReqState
         /\ [q EXCEPT !.pc = pc, !.seen = n] \in ReqState
         /\ [q EXCEPT !.pc = pc, !.lines = ls] \in ReqState
         /\ [q EXCEPT !.pc = pc, !.lines = ls, !.answer = a] \in ReqState
  BY DEF ReqState

LEMMA OpType ==
  ASSUME NEW o \in Ops
  PROVE  /\ o.kind \in Changes \cup {"save", "open", "delete", "checkout"}
         /\ o.variant \in Variants /\ o.quantity \in 0..MaxLine
         /\ o.kind \in {"add", "save"} => o.quantity > 0
  BY DEF Op, Changes

LEMMA ChangedType ==
  ASSUME NEW o \in Ops, NEW n \in 0..MaxLine, Applicable(o, n)
  PROVE  Changed(o, n) \in 0..MaxLine
  BY OpType DEF Changed, Applicable

(* The first states. *)
LEMMA InitInv == Init => Inv
  <1> SUFFICES ASSUME Init PROVE Inv
    OBVIOUS
  <1>1. NewReq \in ReqState
    BY LineTypes DEF NewReq, ReqState, Steps, NoCart
  <1>2. TypeOK
    BY <1>1, LineTypes DEF Init, TypeOK, NoCart
  <1>3. \A r \in Requests : req[r].pc = "new" /\ req[r].answer = "done"
    BY DEF Init, NewReq
  <1>4. Locked
    BY <1>3 DEF Init, Locked, Holding
  <1>5. Consumed /\ Noticed
    BY <1>3 DEF Init, Consumed, Noticed, Running
  <1>6. RequestsKnow
    BY <1>3 DEF Init, RequestsKnow, Knows, Ended
  <1> QED
    BY <1>2, <1>4, <1>5, <1>6 DEF Inv

(* What a request must have found out is about the Cart only while it has
   the lock, so the steps of others leave it true. *)
LEMMA OthersKnow ==
  ASSUME Inv, NEW r \in Requests, op' = op, gone \subseteq gone',
         req'[r] = req[r], wasGone'[r] = wasGone[r],
         holder = r => items' = items /\ cart' = cart
  PROVE  Knows(r, op[r])'
  <1>1. Knows(r, op[r])
    BY DEF Inv, RequestsKnow
  <1>2. CASE holder = r
    BY <1>1, <1>2 DEF Knows, Applicable, Changed, NeedsAvailableVariant, NoLines
  <1>3. CASE holder # r
    <2>1. req[r].pc \notin Holding
      BY <1>3 DEF Inv, Locked
    <2> QED
      BY <1>1, <2>1 DEF Knows, Holding, NeedsAvailableVariant
  <1> QED
    BY <1>2, <1>3

(* A step of request r that writes no table keeps the invariant if what it
   makes of r does. *)
LEMMA QuietStep ==
  ASSUME Inv, NEW r \in Requests, NEW s \in ReqState, UNCHANGED <<table, op, gone>>,
         Watch, req' = [req EXCEPT ![r] = s],
         wasGone' \in [Requests -> SUBSET Variants],
         \A q \in Requests \ {r} : wasGone'[q] = wasGone[q],
         holder' \in Requests \cup {Nobody},
         holder \notin {r, Nobody} => holder' = holder,
         holder' \notin {r, Nobody} => holder' = holder,
         s.pc \in Holding <=> holder' = r,
         Running(r)' /\ s.pc = "wait" =>
           s.seen # NoCart /\ (s.seen # cart => r \in sawEmpty'),
         Knows(r, op[r])'
  PROVE  Inv'
  <1>1. \A q \in Requests : req'[q] = IF q = r THEN s ELSE req[q]
    BY DEF Inv, TypeOK
  <1>2. sawEmpty \subseteq sawEmpty' /\ sawEmpty' \subseteq Requests
    BY DEF Watch, Inv, TypeOK
  <1>3. TypeOK'
    BY <1>2 DEF Inv, TypeOK, table
  <1>4. Locked'
    <2> SUFFICES ASSUME NEW q \in Requests PROVE req'[q].pc \in Holding <=> holder' = q
      BY DEF Locked
    <2>1. CASE q = r
      BY <1>1, <2>1
    <2>2. CASE q # r
      <3>1. req'[q] = req[q] /\ (req[q].pc \in Holding <=> holder = q)
        BY <1>1, <2>2 DEF Inv, Locked
      <3>2. holder = q <=> holder' = q
        BY <2>2
      <3> QED
        BY <3>1, <3>2
    <2> QED
      BY <2>1, <2>2
  <1>5. Consumed'
    BY DEF Inv, Consumed, table, NoLines
  <1>6. Noticed'
    <2> SUFFICES ASSUME NEW q \in Requests, Running(q)'
                 PROVE /\ items' = NoLines => q \in sawEmpty'
                       /\ req'[q].pc = "wait" /\ req'[q].seen # cart' => q \in sawEmpty'
                       /\ req'[q].pc = "wait" => req'[q].seen # NoCart
      BY DEF Noticed, NoLines, NoCart
    <2>1. items' = NoLines => q \in sawEmpty'
      BY DEF Watch, NoLines
    <2>2. CASE q = r
      BY <1>1, <2>1, <2>2 DEF table
    <2>3. CASE q # r
      <3>1. req'[q] = req[q]
        BY <1>1, <2>3
      <3>2. Running(q)
        BY <3>1 DEF Running
      <3> QED
        BY <1>2, <2>1, <3>1, <3>2 DEF Inv, Noticed, table
    <2> QED
      BY <2>2, <2>3
  <1>7. RequestsKnow'
    <2> SUFFICES ASSUME NEW q \in Requests PROVE Knows(q, op[q])'
      BY DEF RequestsKnow
    <2>1. CASE q = r
      BY <2>1 DEF Knows
    <2>2. CASE q # r
      <3>1. req'[q] = req[q] /\ wasGone'[q] = wasGone[q]
        BY <1>1, <2>2
      <3>2. Knows(q, op[q])'
        BY <3>1, OthersKnow DEF table
      <3> QED
        BY <3>2
    <2> QED
      BY <2>1, <2>2
  <1> QED
    BY <1>3, <1>4, <1>5, <1>6, <1>7 DEF Inv

-----------------------------------------------------------------------------
(* The steps of one request. *)

LEMMA BeginInv ==
  ASSUME Inv, NEW r \in Requests, Begin(r), Watch
  PROVE  Inv'
  <1>1. PICK s \in ReqState : s = [req[r] EXCEPT !.pc = "check"]
    BY StateType DEF Inv, TypeOK, Steps
  <1>2. req' = [req EXCEPT ![r] = s] /\ s.pc = "check" /\ s.answer = req[r].answer
    BY <1>1 DEF Begin, Goto, ReqState
  <1>3. holder' = holder /\ holder # r
    BY DEF Begin, Inv, Locked, Holding
  <1>4. req'[r] = s /\ wasGone'[r] = gone /\ gone \subseteq Variants
    BY <1>2 DEF Inv, TypeOK, Begin
  <1>5. Knows(r, op[r])'
    BY <1>2, <1>4 DEF Inv, RequestsKnow, Knows, Begin, Ended
  <1>6. /\ UNCHANGED <<table, op, gone>>
        /\ wasGone' \in [Requests -> SUBSET Variants]
        /\ \A q \in Requests \ {r} : wasGone'[q] = wasGone[q]
        /\ holder \in Requests \cup {Nobody}
    BY <1>4 DEF Begin, Inv, TypeOK
  <1>7. s.pc \in Holding <=> holder' = r
    BY <1>2, <1>3 DEF Holding
  <1> QED
    BY <1>2, <1>3, <1>5, <1>6, <1>7, QuietStep

LEMMA CheckInv ==
  ASSUME Inv, NEW r \in Requests, Check(r), Watch
  PROVE  Inv'
  <1>1. PICK pc \in {"refused", "find"} :
          Goto(r, pc) /\ (pc = "find" /\ NeedsAvailableVariant(op[r]) => op[r].variant \notin gone)
    BY DEF Check
  <1>2. PICK s \in ReqState : s = [req[r] EXCEPT !.pc = pc]
    BY StateType DEF Inv, TypeOK, Steps, Ended
  <1>3. req' = [req EXCEPT ![r] = s] /\ s.pc = pc /\ s.answer = req[r].answer
    BY <1>1, <1>2 DEF Goto, ReqState
  <1>4. req'[r] = s
    BY <1>3 DEF Inv, TypeOK
  <1>5. Knows(r, op[r])'
    BY <1>1, <1>3, <1>4 DEF Inv, RequestsKnow, Knows, Check, Ended, NeedsAvailableVariant
  <1>6. UNCHANGED <<table, op, gone, wasGone, holder>> /\ holder # r /\ pc \notin Holding
    BY DEF Check, Inv, Locked, Holding
  <1>7. wasGone \in [Requests -> SUBSET Variants] /\ holder \in Requests \cup {Nobody}
    BY DEF Inv, TypeOK
  <1> QED
    BY <1>3, <1>5, <1>6, <1>7, QuietStep

(* There is no Cart: the request goes on, or ends, without the lock. *)
LEMMA MissingInv ==
  ASSUME Inv, NEW r \in Requests, req[r].pc \in {"find", "wait"}, Missing(r), Watch,
         UNCHANGED <<table, op, gone, wasGone, holder>>
  PROVE  Inv'
  <1>1. PICK pc \in {"upsert", "refused", "done"} :
          Goto(r, pc) /\ (pc = "upsert" => op[r].kind \in {"add", "save", "open"})
    BY DEF Missing
  <1>2. PICK s \in ReqState : s = [req[r] EXCEPT !.pc = pc]
    BY StateType DEF Inv, TypeOK, Steps, Ended
  <1>3. req' = [req EXCEPT ![r] = s] /\ s.pc = pc /\ s.answer = req[r].answer
    BY <1>1, <1>2 DEF Goto, ReqState
  <1>4. req'[r] = s
    BY <1>3 DEF Inv, TypeOK
  <1>5. Knows(r, op[r])'
    BY <1>1, <1>3, <1>4 DEF Inv, RequestsKnow, Knows, Steps, Ended, NeedsAvailableVariant
  <1>6. holder # r /\ pc \notin Holding
    BY DEF Inv, Locked, Holding
  <1>7. wasGone \in [Requests -> SUBSET Variants] /\ holder \in Requests \cup {Nobody}
    BY DEF Inv, TypeOK
  <1> QED
    BY <1>3, <1>5, <1>6, <1>7, QuietStep

LEMMA FindInv ==
  ASSUME Inv, NEW r \in Requests, Find(r), Watch
  PROVE  Inv'
  <1>1. CASE cart = NoCart
    BY <1>1, MissingInv DEF Find
  <1>2. CASE cart # NoCart
    <2> cart \in Nat /\ req[r] \in ReqState
      BY DEF Inv, TypeOK
    <2>1. PICK s \in ReqState : s = [req[r] EXCEPT !.pc = "wait", !.seen = cart]
      BY DEF ReqState, Steps
    <2>2. /\ req' = [req EXCEPT ![r] = s] /\ s.pc = "wait" /\ s.seen = cart
          /\ s.answer = req[r].answer
      BY <1>2, <2>1 DEF Find, ReqState
    <2>3. req'[r] = s
      BY <2>2 DEF Inv, TypeOK
    <2>4. Knows(r, op[r])'
      BY <2>2, <2>3 DEF Inv, RequestsKnow, Knows, Find, Steps, Ended, NeedsAvailableVariant
    <2>5. UNCHANGED <<table, op, gone, wasGone, holder>> /\ holder # r
      BY DEF Find, Inv, Locked, Holding
    <2>6. wasGone \in [Requests -> SUBSET Variants] /\ holder \in Requests \cup {Nobody}
      BY DEF Inv, TypeOK
    <2>7. s.pc \in Holding <=> holder' = r
      BY <2>2, <2>5 DEF Holding
    <2> QED
      BY <1>2, <2>2, <2>4, <2>5, <2>6, <2>7, QuietStep
  <1> QED
    BY <1>1, <1>2

(* Lock and Upsert: request r takes the free lock. *)
LEMMA TakeInv ==
  ASSUME Inv, NEW r \in Requests, req[r].pc \in {"wait", "upsert"}, Unlocked, Watch,
         req[r].pc = "wait" => cart = req[r].seen,
         Goto(r, "read"), holder' = r, UNCHANGED <<table, op, gone, wasGone>>
  PROVE  Inv'
  <1>1. PICK s \in ReqState : s = [req[r] EXCEPT !.pc = "read"]
    BY StateType DEF Inv, TypeOK, Steps
  <1>2. req' = [req EXCEPT ![r] = s] /\ s.pc = "read" /\ s.answer = req[r].answer
    BY <1>1 DEF Goto, ReqState
  <1>3. req'[r] = s
    BY <1>2 DEF Inv, TypeOK
  <1>4. req[r].pc = "wait" => cart # NoCart
    BY DEF Inv, Noticed, Running, Ended
  <1>5. Knows(r, op[r])'
    BY <1>2, <1>3, <1>4
       DEF Inv, RequestsKnow, Knows, Steps, Ended, NeedsAvailableVariant, table
  <1>6. wasGone \in [Requests -> SUBSET Variants]
    BY DEF Inv, TypeOK
  <1>7. s.pc \in Holding <=> holder' = r
    BY <1>2 DEF Holding
  <1> QED
    BY <1>2, <1>5, <1>6, <1>7, QuietStep DEF Unlocked

LEMMA LockInv ==
  ASSUME Inv, NEW r \in Requests, Lock(r), Watch
  PROVE  Inv'
  BY MissingInv, TakeInv DEF Lock

LEMMA UpsertInv ==
  ASSUME Inv, NEW r \in Requests, Upsert(r), Watch
  PROVE  Inv'
  BY TakeInv DEF Upsert

(* A request with the lock goes to another step: s is what it makes of itself. *)
LEMMA HoldingInv ==
  ASSUME Inv, NEW r \in Requests, NEW s \in ReqState, req[r].pc \in Holding, Watch,
         req' = [req EXCEPT ![r] = s], UNCHANGED <<table, op, gone, wasGone>>,
         s.pc \in Holding \cup Ended,
         holder' = IF s.pc \in Holding THEN holder ELSE Nobody, Knows(r, op[r])'
  PROVE  Inv'
  <1>1. holder = r /\ r # Nobody
    BY DEF Inv, Locked
  <1>2. s.pc \in Holding <=> holder' = r
    BY <1>1
  <1>3. s.pc # "wait"
    BY DEF Holding, Ended
  <1>4. wasGone \in [Requests -> SUBSET Variants]
    BY DEF Inv, TypeOK
  <1> QED
    BY <1>1, <1>2, <1>3, <1>4, QuietStep

LEMMA ReadInv ==
  ASSUME Inv, NEW r \in Requests, Read(r), Watch
  PROVE  Inv'
  <1> DEFINE o == op[r]
             n == items[o.variant]
  <1>1. /\ o \in Ops /\ req[r] \in ReqState /\ items \in Lines /\ req[r].pc = "read"
        /\ n \in 0..MaxLine
    BY OpType DEF Inv, TypeOK, Read, Lines
  <1>2. /\ UNCHANGED <<table, op, gone, wasGone, holder>>
        /\ Knows(r, o)
    BY DEF Read, Inv, RequestsKnow
  <1>3. /\ req[r].answer = "done"
        /\ wasGone[r] \subseteq gone
        /\ NeedsAvailableVariant(o) => o.variant \notin wasGone[r]
        /\ o.kind = "checkout" => cart # NoCart
    BY <1>1, <1>2 DEF Knows, Steps, Ended
  <1> HIDE DEF n
  <1>4. CASE o.kind \in Changes /\ Applicable(o, n)
    <2>1. [items EXCEPT ![o.variant] = Changed(o, n)] \in Lines
      BY <1>1, <1>4, ChangedType DEF Lines
    <2>2. PICK s \in ReqState :
            s = [req[r] EXCEPT !.pc = "write",
                               !.lines = [items EXCEPT ![o.variant] = Changed(o, n)]]
      BY <1>1, <2>1, StateType DEF Steps
    <2>3. req' = [req EXCEPT ![r] = s]
      BY <1>4, <2>2 DEF Read, Changes, n
    <2>4. /\ s.pc = "write" /\ s.answer = "done"
          /\ s.lines = [items EXCEPT ![o.variant] = Changed(o, n)]
      BY <1>1, <1>3, <2>2 DEF ReqState
    <2>5. req'[r] = s
      BY <2>3 DEF Inv, TypeOK
    <2>6. Knows(r, o)'
      BY <1>2, <1>3, <1>4, <2>4, <2>5
         DEF Knows, table, Changes, NeedsAvailableVariant, Applicable, Changed, n
    <2> QED
      BY <1>1, <1>2, <2>3, <2>4, <2>6, HoldingInv DEF Holding
  <1>5. CASE o.kind \in Changes /\ ~Applicable(o, n)
    <2>1. PICK s \in ReqState :
            s = [req[r] EXCEPT !.pc = "write", !.lines = items, !.answer = "refused"]
      BY <1>1, StateType DEF Steps
    <2>2. req' = [req EXCEPT ![r] = s]
      BY <1>5, <2>1 DEF Read, Changes, n
    <2>3. s.pc = "write" /\ s.answer = "refused" /\ s.lines = items
      BY <1>1, <2>1 DEF ReqState
    <2>4. req'[r] = s
      BY <2>2 DEF Inv, TypeOK
    <2>5. Knows(r, o)'
      BY <1>2, <1>3, <1>5, <2>3, <2>4
         DEF Knows, table, Changes, NeedsAvailableVariant, Applicable, n
    <2> QED
      BY <1>1, <1>2, <2>2, <2>3, <2>5, HoldingInv DEF Holding
  <1>6. CASE o.kind = "save"
    <2>1. [NoLines EXCEPT ![o.variant] = o.quantity] \in Lines
      BY <1>1, LineTypes, OpType DEF Lines
    <2>2. PICK s \in ReqState :
            s = [req[r] EXCEPT !.pc = "write",
                               !.lines = [NoLines EXCEPT ![o.variant] = o.quantity]]
      BY <1>1, <2>1, StateType DEF Steps
    <2>3. req' = [req EXCEPT ![r] = s]
      BY <1>6, <2>2 DEF Read, Changes
    <2>4. /\ s.pc = "write" /\ s.answer = "done"
          /\ s.lines = [NoLines EXCEPT ![o.variant] = o.quantity]
      BY <1>1, <1>3, <2>2 DEF ReqState
    <2>5. req'[r] = s
      BY <2>3 DEF Inv, TypeOK
    <2>6. Knows(r, o)'
      BY <1>2, <1>3, <1>6, <2>4, <2>5
         DEF Knows, table, Changes, NeedsAvailableVariant, NoLines
    <2> QED
      BY <1>1, <1>2, <2>3, <2>4, <2>6, HoldingInv DEF Holding
  <1>7. CASE o.kind \in {"open", "delete"}
    <2>1. PICK s \in ReqState : s = [req[r] EXCEPT !.pc = "write"]
      BY <1>1, StateType DEF Steps
    <2>2. req' = [req EXCEPT ![r] = s]
      BY <1>7, <2>1 DEF Read, Changes, Goto
    <2>3. s.pc = "write" /\ s.answer = "done"
      BY <1>1, <1>3, <2>1 DEF ReqState
    <2>4. req'[r] = s
      BY <2>2 DEF Inv, TypeOK
    <2>5. Knows(r, o)'
      BY <1>2, <1>3, <1>7, <2>3, <2>4 DEF Knows, table, Changes, NeedsAvailableVariant
    <2> QED
      BY <1>1, <1>2, <2>2, <2>3, <2>5, HoldingInv DEF Holding
  <1>8. CASE o.kind = "checkout"
    <2>1. PICK s \in ReqState : s = [req[r] EXCEPT !.pc = "price", !.lines = items]
      BY <1>1, StateType DEF Steps
    <2>2. req' = [req EXCEPT ![r] = s]
      BY <1>8, <2>1 DEF Read, Changes
    <2>3. s.pc = "price" /\ s.answer = "done" /\ s.lines = items
      BY <1>1, <1>3, <2>1 DEF ReqState
    <2>4. req'[r] = s
      BY <2>2 DEF Inv, TypeOK
    <2>5. Knows(r, o)'
      BY <1>2, <1>3, <1>8, <2>3, <2>4
         DEF Knows, table, NeedsAvailableVariant, NoCart
    <2> QED
      BY <1>1, <1>2, <2>2, <2>3, <2>5, HoldingInv DEF Holding
  <1> QED
    BY <1>1, <1>4, <1>5, <1>6, <1>7, <1>8, OpType

LEMMA PriceInv ==
  ASSUME Inv, NEW r \in Requests, Price(r), Watch
  PROVE  Inv'
  <1>1. PICK pc \in {"write", "refused"} :
          /\ Goto(r, pc)
          /\ pc = "write" => Priced(req[r].lines) /\ holder' = holder
          /\ pc = "refused" => Release(r)
    BY DEF Price, Rollback
  <1>2. PICK s \in ReqState : s = [req[r] EXCEPT !.pc = pc]
    BY StateType DEF Inv, TypeOK, Steps, Ended
  <1>3. /\ req' = [req EXCEPT ![r] = s] /\ s.pc = pc
        /\ s.answer = req[r].answer /\ s.lines = req[r].lines
    BY <1>1, <1>2 DEF Goto, ReqState
  <1>4. req'[r] = s
    BY <1>3 DEF Inv, TypeOK
  <1>5. /\ UNCHANGED <<table, op, gone, wasGone>>
        /\ req[r].pc = "price" /\ Knows(r, op[r])
    BY DEF Price, Inv, RequestsKnow
  <1>6. /\ op[r].kind = "checkout" /\ wasGone[r] \subseteq gone
        /\ cart # NoCart /\ s.lines = items /\ s.answer = "done"
    BY <1>3, <1>5 DEF Knows, Ended
  <1>7. Knows(r, op[r])'
    BY <1>1, <1>3, <1>4, <1>5, <1>6
       DEF Knows, table, NeedsAvailableVariant, Priced, NoLines, NoCart, Changes, Ended
  <1>8. holder = r
    BY <1>5 DEF Inv, Locked, Holding
  <1>9. /\ s.pc \in Holding \cup Ended
        /\ holder' = IF s.pc \in Holding THEN holder ELSE Nobody
    BY <1>1, <1>3, <1>8 DEF Release, Holding, Ended
  <1> QED
    BY <1>3, <1>5, <1>7, <1>9, HoldingInv DEF Holding

LEMMA FailInv ==
  ASSUME Inv, NEW r \in Requests, Fail(r), Watch
  PROVE  Inv'
  <1>1. PICK s \in ReqState : s = [req[r] EXCEPT !.pc = "failed"]
    BY StateType DEF Inv, TypeOK, Steps, Ended
  <1>2. req' = [req EXCEPT ![r] = s] /\ s.pc = "failed"
    BY <1>1 DEF Fail, Rollback, Goto, ReqState
  <1>3. req'[r] = s
    BY <1>2 DEF Inv, TypeOK
  <1>4. /\ UNCHANGED <<table, op, gone, wasGone>>
        /\ holder' = IF holder = r THEN Nobody ELSE holder
    BY DEF Fail, Rollback, Release
  <1>5. Knows(r, op[r])'
    BY <1>2, <1>3, <1>4 DEF Inv, RequestsKnow, Knows, Ended
  <1>6. /\ wasGone \in [Requests -> SUBSET Variants]
        /\ holder \in Requests \cup {Nobody}
    BY DEF Inv, TypeOK
  <1>7. s.pc \in Holding <=> holder' = r
    BY <1>2, <1>4 DEF Holding
  <1>8. s.pc # "wait"
    BY <1>2
  <1> QED
    BY <1>2, <1>4, <1>5, <1>6, <1>7, <1>8, QuietStep

(* What a COMMIT does to the tables: it keeps the Cart, or consumes it with or
   without an Order of its lines. *)
Kept == /\ KeepCart /\ orders' = orders /\ items' \in Lines
ConsumedBy(r) ==
  /\ CartConsumed /\ UNCHANGED made
  /\ \/ orders' = orders
     \/ /\ cart # NoCart /\ items # NoLines
        /\ orders' = orders \cup {[cart |-> cart, by |-> r, lines |-> items]}

LEMMA CommitCases ==
  ASSUME Inv, NEW r \in Requests, Commit(r)
  PROVE  Kept \/ ConsumedBy(r)
  <1> DEFINE o == op[r]
             ls == req[r].lines
  <1>1. /\ o \in Ops /\ ls \in Lines /\ items \in Lines /\ req[r].pc = "write"
        /\ Knows(r, o)
    BY DEF Inv, TypeOK, ReqState, Commit, RequestsKnow
  <1>2. o.variant \in Variants
    BY <1>1, OpType
  <1>3. CASE o.kind \in Changes
    <2>1. [items EXCEPT ![o.variant] = ls[o.variant]] \in Lines
      BY <1>1, <1>2 DEF Lines
    <2> QED
      BY <1>3, <2>1 DEF Commit, Kept, Changes
  <1>4. CASE o.kind \in {"save", "open"}
    BY <1>1, <1>4 DEF Commit, Kept, Changes
  <1>5. CASE o.kind = "delete"
    BY <1>5 DEF Commit, ConsumedBy, Changes
  <1>6. CASE o.kind = "checkout"
    <2>1. cart # NoCart /\ items # NoLines /\ ls = items
      BY <1>1, <1>6 DEF Knows
    <2> QED
      BY <1>6, <2>1 DEF Commit, ConsumedBy, Changes
  <1> QED
    BY <1>1, <1>3, <1>4, <1>5, <1>6, OpType

LEMMA CommitInv ==
  ASSUME Inv, NEW r \in Requests, Commit(r), Watch
  PROVE  Inv'
  <1>1. /\ req[r].pc = "write" /\ holder = r /\ holder' = Nobody /\ r # Nobody
        /\ UNCHANGED <<gone, op, wasGone>> /\ Goto(r, req[r].answer)
        /\ Knows(r, op[r]) /\ req[r].answer \in {"done", "refused"}
    BY DEF Inv, TypeOK, ReqState, Locked, Holding, RequestsKnow, Commit, Release
  <1>2. PICK s \in ReqState : s = [req[r] EXCEPT !.pc = req[r].answer]
    BY <1>1, StateType DEF Inv, TypeOK, Steps, Ended
  <1>3. req' = [req EXCEPT ![r] = s] /\ s.pc \in {"done", "refused"}
    BY <1>1, <1>2 DEF Goto, ReqState
  <1>4. \A q \in Requests : req'[q] = IF q = r THEN s ELSE req[q]
    BY <1>3 DEF Inv, TypeOK
  <1>5. Kept \/ ConsumedBy(r)
    BY CommitCases
  <1>6. cart \in 0..made /\ made \in Nat /\ items \in Lines /\ NoLines \in Lines
    BY LineTypes DEF Inv, TypeOK
  <1>7. TypeOK'
    <2>1. made' \in Nat /\ made' >= made
      BY <1>5, <1>6 DEF Kept, KeepCart, ConsumedBy
    <2>2. cart' \in 0..made' /\ items' \in Lines
      BY <1>5, <1>6 DEF Kept, KeepCart, ConsumedBy, CartConsumed, NoCart
    <2>3. orders' \subseteq [cart : 1..made', by : Requests, lines : Lines]
      <3>1. 1..made \subseteq 1..made'
        BY <1>6, <2>1
      <3>2. orders \subseteq [cart : 1..made', by : Requests, lines : Lines]
        BY <3>1 DEF Inv, TypeOK
      <3>3. cart # NoCart => cart \in 1..made'
        BY <1>6, <2>1 DEF NoCart
      <3> QED
        BY <1>5, <1>6, <3>2, <3>3 DEF Kept, ConsumedBy
    <2>4. req' \in [Requests -> ReqState]
      BY <1>3 DEF Inv, TypeOK
    <2>5. sawEmpty' \subseteq Requests
      BY DEF Watch, Inv, TypeOK
    <2> QED
      BY <1>1, <2>1, <2>2, <2>3, <2>4, <2>5 DEF Inv, TypeOK
  <1>8. Locked'
    BY <1>1, <1>3, <1>4 DEF Inv, Locked, Holding
  <1>9. Consumed'
    <2>1. \A x \in orders : x.cart \in 1..made /\ x.cart # cart /\ x.lines # NoLines
      BY DEF Inv, TypeOK, Consumed
    <2>2. \A x, y \in orders : x.cart = y.cart => x = y
      BY DEF Inv, Consumed
    <2>3. CASE Kept
      <3>1. cart' # NoCart
        BY <1>6, <2>3 DEF Kept, KeepCart, NoCart
      <3>2. \A x \in orders : x.cart # cart'
        BY <1>6, <2>1, <2>3 DEF Kept, KeepCart
      <3> QED
        BY <2>1, <2>2, <2>3, <3>1, <3>2 DEF Kept, Consumed, NoCart, NoLines
    <2>4. CASE ConsumedBy(r)
      <3>1. \A x \in orders' : x.cart # NoCart /\ x.lines # NoLines
        BY <2>1, <2>4 DEF ConsumedBy, NoCart
      <3>2. \A x, y \in orders' : x.cart = y.cart => x = y
        BY <2>1, <2>2, <2>4 DEF ConsumedBy
      <3> QED
        BY <2>4, <3>1, <3>2 DEF ConsumedBy, CartConsumed, Consumed, NoCart, NoLines
    <2> QED
      BY <1>5, <2>3, <2>4
  <1>10. Noticed'
    <2> SUFFICES ASSUME NEW q \in Requests, Running(q)'
                 PROVE /\ items' = NoLines => q \in sawEmpty'
                       /\ req'[q].pc = "wait" /\ req'[q].seen # cart' => q \in sawEmpty'
                       /\ req'[q].pc = "wait" => req'[q].seen # NoCart
      BY DEF Noticed, NoLines, NoCart
    <2>1. items' = NoLines => q \in sawEmpty'
      BY DEF Watch, NoLines
    <2>2. q # r /\ req'[q] = req[q]
      BY <1>3, <1>4 DEF Running, Ended
    <2>3. Running(q) /\ sawEmpty \subseteq sawEmpty'
      BY <2>2 DEF Running, Watch
    <2>4. req[q].pc = "wait" => req[q].seen # NoCart
      BY <2>3 DEF Inv, Noticed
    <2>5. req[q].pc = "wait" /\ req[q].seen # cart => q \in sawEmpty
      BY <2>3 DEF Inv, Noticed
    <2>6. cart' \in {cart, NoCart} \/ cart = NoCart
      BY <1>5 DEF Kept, KeepCart, ConsumedBy, CartConsumed
    <2>7. cart' = NoCart /\ cart # NoCart => items' = NoLines
      BY <1>5, <1>6 DEF Kept, KeepCart, ConsumedBy, CartConsumed, NoCart
    <2> QED
      BY <2>1, <2>2, <2>3, <2>4, <2>5, <2>6, <2>7
  <1>11. RequestsKnow'
    <2> SUFFICES ASSUME NEW q \in Requests PROVE Knows(q, op[q])'
      BY DEF RequestsKnow
    <2>1. CASE q = r
      <3>1. req'[r] = s
        BY <1>4
      <3> QED
        BY <1>1, <1>3, <2>1, <3>1 DEF Knows, Steps, Ended, NeedsAvailableVariant
    <2>2. CASE q # r
      <3>1. req'[q] = req[q] /\ wasGone'[q] = wasGone[q] /\ holder # q
        BY <1>1, <1>4, <2>2
      <3> QED
        BY <1>1, <3>1, OthersKnow
    <2> QED
      BY <2>1, <2>2
  <1> QED
    BY <1>7, <1>8, <1>9, <1>10, <1>11 DEF Inv

LEMMA DeleteInv ==
  ASSUME Inv, NEW v \in Variants, DeleteProduct(v), Watch
  PROVE  Inv'
  <1>1. UNCHANGED <<table, holder, op, req, wasGone>> /\ gone' = gone \cup {v}
    BY DEF DeleteProduct
  <1>2. sawEmpty \subseteq sawEmpty' /\ sawEmpty' \subseteq Requests
    BY DEF Watch, Inv, TypeOK
  <1>3. TypeOK'
    BY <1>1, <1>2 DEF Inv, TypeOK, table
  <1>4. Locked' /\ Consumed'
    BY <1>1 DEF Inv, Locked, Consumed, table, NoLines
  <1>5. Noticed'
    BY <1>1, <1>2 DEF Inv, Noticed, Running, table, NoLines
  <1>6. RequestsKnow'
    BY <1>1, OthersKnow DEF RequestsKnow, table
  <1> QED
    BY <1>3, <1>4, <1>5, <1>6 DEF Inv

LEMMA StutterInv ==
  ASSUME Inv, UNCHANGED vars
  PROVE  Inv'
  <1>1. TypeOK' /\ Locked' /\ Consumed'
    BY DEF Inv, TypeOK, Locked, Consumed, vars, NoLines
  <1>2. Noticed'
    BY DEF Inv, Noticed, Running, vars, NoLines
  <1>3. RequestsKnow'
    BY OthersKnow DEF Inv, RequestsKnow, vars
  <1> QED
    BY <1>1, <1>2, <1>3 DEF Inv

LEMMA NextInv == Inv /\ [Next]_vars => Inv'
  <1> SUFFICES ASSUME Inv, [Next]_vars PROVE Inv'
    OBVIOUS
  <1>1. CASE UNCHANGED vars
    BY <1>1, StutterInv
  <1>2. ASSUME NEW r \in Requests, Begin(r) \/ Progress(r) \/ Fail(r), Watch
        PROVE  Inv'
    BY <1>2, BeginInv, CheckInv, FindInv, LockInv, UpsertInv, ReadInv, PriceInv,
       CommitInv, FailInv DEF Progress
  <1>3. ASSUME NEW v \in Variants, DeleteProduct(v), Watch
        PROVE  Inv'
    BY <1>3, DeleteInv
  <1> QED
    BY <1>1, <1>2, <1>3 DEF Next, Step

(* Inv always holds. *)
THEOREM CartInvariant == Spec => []Inv
  BY InitInv, NextInv, PTL DEF Spec

(* Every variable keeps its type: above all, no line of a Cart or an Order is
   ever above MAX_LINE_QUANTITY. *)
THEOREM CartTypes == Spec => []TypeOK
  <1>1. Inv => TypeOK
    BY DEF Inv
  <1> QED
    BY <1>1, CartInvariant, PTL

(* However many tabs check out at once, a Cart makes at most one Order, and
   never an empty one. *)
THEOREM CartOneOrder == Spec => []OneOrderPerCart
  <1>1. Inv => OneOrderPerCart
    BY DEF Inv, Consumed, OneOrderPerCart
  <1> QED
    BY <1>1, CartInvariant, PTL

(* A request about to write has the lock, and the Cart is as it read it. *)
THEOREM CartWritesWhatItRead == Spec => []WritesWhatItRead
  <1>1. Inv => WritesWhatItRead
    <2> SUFFICES ASSUME Inv, NEW r \in Requests, req[r].pc \in {"price", "write"}
                 PROVE  /\ holder = r
                        /\ op[r].kind = "checkout" => cart # NoCart /\ req[r].lines = items
                        /\ op[r].kind \in Changes =>
                             \A v \in Variants \ {op[r].variant} : req[r].lines[v] = items[v]
      BY DEF WritesWhatItRead
    <2>1. Knows(r, op[r]) /\ holder = r /\ items \in Lines /\ req[r].answer \in {"done", "refused"}
      BY DEF Inv, TypeOK, ReqState, RequestsKnow, Locked, Holding
    <2> QED
      BY <2>1 DEF Knows, Changes, Lines
  <1> QED
    BY <1>1, CartInvariant, PTL

-----------------------------------------------------------------------------
(* The refinement: every step is a step of Shopping, or changes none of its
   variables. *)

LEMMA MapInit == Init => S!Init
  BY DEF Init, S!Init, NewReq, Status, NoLines, S!NoLines

LEMMA MapWatch == Watch => S!Watch
  <1>1. \A r \in Requests : Status(r)' = "running" <=> Running(r)'
    BY DEF Status, Running, Ended
  <1> QED
    BY <1>1 DEF Watch, S!Watch, NoLines, S!NoLines

(* A step that ends nothing and writes nothing is a stutter. *)
LEMMA MapQuiet ==
  ASSUME Inv, Watch, UNCHANGED <<table, op, gone, wasGone>>,
         \A q \in Requests : Status(q)' = Status(q)
  PROVE  UNCHANGED S!vars
  <1>1. \A q \in Requests : Running(q)' => Running(q)
    BY DEF Status, Running, Ended
  <1>2. sawEmpty' = sawEmpty
    BY <1>1 DEF Inv, Noticed, Watch, table, NoLines
  <1> QED
    BY <1>2 DEF S!vars, table

LEMMA MapGoto ==
  ASSUME Inv, Watch, NEW r \in Requests, NEW pc \in Steps \ ({"new"} \cup Ended),
         Running(r), UNCHANGED <<table, op, gone, wasGone>>,
         NEW s \in ReqState, req' = [req EXCEPT ![r] = s], s.pc = pc
  PROVE  UNCHANGED S!vars
  <1>1. \A q \in Requests : req'[q] = IF q = r THEN s ELSE req[q]
    BY DEF Inv, TypeOK
  <1>2. \A q \in Requests : Status(q)' = Status(q)
    BY <1>1 DEF Status, Running, Ended
  <1> QED
    BY <1>2, MapQuiet

LEMMA MapEnds ==
  ASSUME Inv, NEW r \in Requests, NEW a \in Ended, Running(r), Goto(r, a),
         UNCHANGED <<gone, op, wasGone>>
  PROVE  S!Ends(r, a)
  <1>1. \A q \in Requests : req'[q] = IF q = r THEN [req[r] EXCEPT !.pc = a] ELSE req[q]
    BY DEF Inv, TypeOK, Goto
  <1>2. req'[r].pc = a
    BY <1>1 DEF Inv, TypeOK, ReqState
  <1>3. \A q \in Requests : Status(q)' = IF q = r THEN a ELSE Status(q)
    BY <1>1, <1>2 DEF Status, Ended
  <1>4. Status(r) = "running"
    BY DEF Status, Running, Ended
  <1> QED
    BY <1>3, <1>4 DEF S!Ends

LEMMA MapBegin ==
  ASSUME Inv, NEW r \in Requests, Begin(r)
  PROVE  S!Begin(r)
  <1>1. \A q \in Requests : req'[q] = IF q = r THEN [req[r] EXCEPT !.pc = "check"] ELSE req[q]
    BY DEF Inv, TypeOK, Begin, Goto
  <1>2. req'[r].pc = "check"
    BY <1>1 DEF Inv, TypeOK, ReqState
  <1>3. \A q \in Requests : Status(q)' = IF q = r THEN "running" ELSE Status(q)
    BY <1>1, <1>2 DEF Status, Ended
  <1>4. Status(r) = "new"
    BY DEF Begin, Status
  <1> QED
    BY <1>3, <1>4 DEF Begin, S!Begin, table

LEMMA MapCheck ==
  ASSUME Inv, Watch, NEW r \in Requests, Check(r)
  PROVE  S!Refuse(r) \/ UNCHANGED S!vars
  <1>1. Running(r) /\ UNCHANGED <<table, op, gone, wasGone>>
    BY DEF Check, Running, Ended
  <1>2. CASE NeedsAvailableVariant(op[r]) /\ op[r].variant \in gone
    <2>1. S!Ends(r, "refused")
      BY <1>1, <1>2, MapEnds DEF Check, Ended
    <2> QED
      BY <1>1, <1>2, <2>1 DEF S!Refuse, S!Unavailable, NeedsAvailableVariant, table
  <1>3. CASE ~(NeedsAvailableVariant(op[r]) /\ op[r].variant \in gone)
    <2>1. PICK s \in ReqState : s = [req[r] EXCEPT !.pc = "find"]
      BY StateType DEF Inv, TypeOK, Steps
    <2>2. req' = [req EXCEPT ![r] = s] /\ s.pc = "find"
      BY <1>3, <2>1 DEF Check, Goto, ReqState
    <2> QED
      BY <1>1, <2>2, MapGoto DEF Steps, Ended
  <1> QED
    BY <1>2, <1>3

LEMMA MapMissing ==
  ASSUME Inv, Watch, NEW r \in Requests, Running(r), r \in sawEmpty, Missing(r),
         UNCHANGED <<table, op, gone, wasGone>>
  PROVE  S!Refuse(r) \/ S!Ignore(r) \/ UNCHANGED S!vars
  <1>1. op[r].kind \in Changes \cup {"save", "open", "delete", "checkout"}
    BY OpType DEF Inv, TypeOK
  <1>2. CASE op[r].kind \in {"add", "save", "open"}
    <2>1. PICK s \in ReqState : s = [req[r] EXCEPT !.pc = "upsert"]
      BY StateType DEF Inv, TypeOK, Steps
    <2>2. req' = [req EXCEPT ![r] = s] /\ s.pc = "upsert"
      BY <1>2, <2>1 DEF Missing, Goto, ReqState
    <2> QED
      BY <2>2, MapGoto DEF Steps, Ended
  <1>3. CASE op[r].kind = "checkout"
    <2>1. S!Ends(r, "refused")
      BY <1>3, MapEnds DEF Missing, Ended
    <2> QED
      BY <1>3, <2>1 DEF S!Refuse, S!Uncheckable, table
  <1>4. CASE op[r].kind \in {"set", "remove", "delete"}
    <2>1. S!Ends(r, "done")
      BY <1>4, MapEnds DEF Missing, Ended
    <2> QED
      BY <1>4, <2>1 DEF S!Ignore, table
  <1> QED
    BY <1>1, <1>2, <1>3, <1>4 DEF Changes

LEMMA MapFind ==
  ASSUME Inv, Watch, NEW r \in Requests, Find(r)
  PROVE  S!Refuse(r) \/ S!Ignore(r) \/ UNCHANGED S!vars
  <1>1. Running(r) /\ UNCHANGED <<table, op, gone, wasGone>>
    BY DEF Find, Running, Ended
  <1>2. CASE cart = NoCart
    <2>1. r \in sawEmpty
      BY <1>1, <1>2 DEF Inv, Consumed, Noticed
    <2> QED
      BY <1>1, <1>2, <2>1, MapMissing DEF Find
  <1>3. CASE cart # NoCart
    <2> cart \in Nat /\ req[r] \in ReqState
      BY DEF Inv, TypeOK
    <2>1. PICK s \in ReqState : s = [req[r] EXCEPT !.pc = "wait", !.seen = cart]
      BY DEF ReqState, Steps
    <2>2. req' = [req EXCEPT ![r] = s] /\ s.pc = "wait"
      BY <1>3, <2>1 DEF Find, ReqState
    <2> QED
      BY <1>1, <2>2, MapGoto DEF Steps, Ended
  <1> QED
    BY <1>2, <1>3

LEMMA MapLock ==
  ASSUME Inv, Watch, NEW r \in Requests, Lock(r) \/ Upsert(r)
  PROVE  S!Refuse(r) \/ S!Ignore(r) \/ UNCHANGED S!vars
  <1>1. Running(r) /\ UNCHANGED <<table, op, gone, wasGone>>
    BY DEF Lock, Upsert, Running, Ended
  <1>2. CASE Goto(r, "read")
    <2>1. PICK s \in ReqState : s = [req[r] EXCEPT !.pc = "read"]
      BY StateType DEF Inv, TypeOK, Steps
    <2>2. req' = [req EXCEPT ![r] = s] /\ s.pc = "read"
      BY <1>2, <2>1 DEF Goto, ReqState
    <2> QED
      BY <1>1, <2>2, MapGoto DEF Steps, Ended
  <1>3. CASE req[r].pc = "wait" /\ cart # req[r].seen /\ Missing(r)
    <2>1. r \in sawEmpty
      BY <1>1, <1>3 DEF Inv, Noticed
    <2> QED
      BY <1>1, <1>3, <2>1, MapMissing
  <1> QED
    BY <1>2, <1>3 DEF Lock, Upsert

LEMMA MapRead ==
  ASSUME Inv, Inv', Watch, NEW r \in Requests, Read(r)
  PROVE  UNCHANGED S!vars
  <1>1. UNCHANGED <<table, op, gone, wasGone>> /\ req[r].pc = "read"
    BY DEF Read
  <1>2. \A q \in Requests \ {r} : req'[q] = req[q]
    BY DEF Read, Goto, Inv, TypeOK
  <1>3. req'[r].pc \in {"write", "price"}
    BY DEF Read, Goto, Inv, TypeOK, ReqState
  <1>4. \A q \in Requests : Status(q)' = Status(q)
    BY <1>1, <1>2, <1>3 DEF Status, Ended
  <1> QED
    BY <1>1, <1>4, MapQuiet

LEMMA MapPrice ==
  ASSUME Inv, Watch, NEW r \in Requests, Price(r)
  PROVE  S!Refuse(r) \/ UNCHANGED S!vars
  <1>1. /\ req[r].pc = "price" /\ Running(r) /\ UNCHANGED <<table, op, gone, wasGone>>
        /\ Knows(r, op[r])
    BY DEF Price, Running, Ended, Inv, RequestsKnow
  <1>2. CASE Goto(r, "write")
    <2>1. PICK s \in ReqState : s = [req[r] EXCEPT !.pc = "write"]
      BY StateType DEF Inv, TypeOK, Steps
    <2>2. req' = [req EXCEPT ![r] = s] /\ s.pc = "write"
      BY <1>2, <2>1 DEF Goto, ReqState
    <2> QED
      BY <1>1, <2>2, MapGoto DEF Steps, Ended
  <1>3. CASE ~Priced(req[r].lines) /\ Goto(r, "refused")
    <2>1. S!Ends(r, "refused")
      BY <1>1, <1>3, MapEnds DEF Ended
    <2>2. op[r].kind = "checkout" /\ req[r].lines = items
      BY <1>1 DEF Knows
    <2>3. items = NoLines => r \in sawEmpty
      BY <1>1 DEF Inv, Noticed
    <2>4. S!Uncheckable(r)
      BY <1>3, <2>2, <2>3 DEF Priced, S!Uncheckable
    <2> QED
      BY <1>1, <2>1, <2>4 DEF S!Refuse, table
  <1> QED
    BY <1>2, <1>3 DEF Price, Rollback

LEMMA MapChange ==
  ASSUME Inv, Watch, NEW r \in Requests, Commit(r), op[r].kind \in Changes
  PROVE  S!Add(r) \/ S!Set(r) \/ S!Remove(r) \/ S!Refuse(r)
  <1> DEFINE o == op[r]
             v == op[r].variant
  <1>1. /\ o \in Ops /\ items \in Lines /\ req[r].pc = "write" /\ Running(r)
        /\ Knows(r, o) /\ req[r].answer \in {"done", "refused"} /\ v \in Variants
    BY OpType DEF Inv, TypeOK, ReqState, Commit, RequestsKnow, Running, Ended
  <1>2. S!Ends(r, req[r].answer)
    BY <1>1, MapEnds DEF Commit, Ended
  <1>3. UNCHANGED orders /\ items' = [items EXCEPT ![v] = req[r].lines[v]]
    BY DEF Commit, Changes
  <1>4. NeedsAvailableVariant(o) => v \notin wasGone[r]
    BY <1>1 DEF Knows, Steps, Ended
  <1>5. CASE req[r].answer = "refused"
    <2>1. ~Applicable(o, items[v]) /\ req[r].lines = items
      BY <1>1, <1>5 DEF Knows
    <2>2. items' = items
      BY <1>1, <1>3, <2>1 DEF Lines
    <2>3. S!OverLimit(r)
      <3>1. o.kind = "add" /\ ~(items[v] + o.quantity <= MaxLine)
        BY <2>1 DEF Applicable
      <3>2. items[v] \in Nat /\ o.quantity \in Nat /\ MaxLine \in Nat
        BY <1>1, OpType DEF Lines
      <3> QED
        BY <3>1, <3>2 DEF S!OverLimit
    <2> QED
      BY <1>2, <1>3, <1>5, <2>2, <2>3 DEF S!Refuse
  <1>6. CASE req[r].answer = "done"
    <2>1. Applicable(o, items[v]) /\ req[r].lines[v] = Changed(o, items[v])
      BY <1>1, <1>6 DEF Knows, Lines
    <2>2. S!Sets(r, v, Changed(o, items[v]))
      BY <1>2, <1>3, <1>6, <2>1 DEF S!Sets
    <2>3. CASE o.kind = "add"
      BY <1>4, <2>1, <2>2, <2>3 DEF S!Add, Changed, Applicable, NeedsAvailableVariant
    <2>4. CASE o.kind = "set"
      BY <1>4, <2>2, <2>4 DEF S!Set, Changed, NeedsAvailableVariant
    <2>5. CASE o.kind = "remove"
      BY <2>2, <2>5 DEF S!Remove, Changed
    <2> QED
      BY <2>3, <2>4, <2>5 DEF Changes
  <1> QED
    BY <1>1, <1>5, <1>6

LEMMA MapCommit ==
  ASSUME Inv, Watch, NEW r \in Requests, Commit(r)
  PROVE  \/ S!Add(r) \/ S!Set(r) \/ S!Remove(r) \/ S!Refuse(r)
         \/ S!Replace(r) \/ S!CheckOut(r) \/ S!Ignore(r)
  <1>1. /\ op[r] \in Ops /\ req[r].pc = "write" /\ Running(r) /\ Knows(r, op[r])
        /\ req[r].answer \in {"done", "refused"}
    BY DEF Inv, TypeOK, ReqState, Commit, RequestsKnow, Running, Ended
  <1>2. S!Ends(r, req[r].answer)
    BY <1>1, MapEnds DEF Commit, Ended
  <1>3. CASE op[r].kind \in Changes
    BY <1>3, MapChange
  <1>4. ASSUME op[r].kind \notin Changes
        PROVE  S!Ends(r, "done")
    BY <1>1, <1>2, <1>4 DEF Knows
  <1>5. CASE op[r].kind = "save"
    <2>1. items' = [NoLines EXCEPT ![op[r].variant] = op[r].quantity] /\ orders' = orders
      BY <1>1, <1>5 DEF Commit, Knows, Changes
    <2> QED
      BY <1>4, <1>5, <2>1 DEF S!Replace, S!NoLines, NoLines, Changes
  <1>6. CASE op[r].kind = "delete"
    BY <1>4, <1>6 DEF Commit, CartConsumed, S!Replace, S!NoLines, NoLines, Changes
  <1>7. CASE op[r].kind = "open"
    BY <1>4, <1>7 DEF Commit, S!Ignore, Changes
  <1>8. CASE op[r].kind = "checkout"
    <2>1. /\ items # NoLines /\ req[r].lines = items
          /\ \A w \in Variants : items[w] > 0 => w \notin wasGone[r]
      BY <1>1, <1>8 DEF Knows
    <2>2. /\ orders' = orders \cup {[cart |-> cart, by |-> r, lines |-> items]}
          /\ items' = NoLines
      BY <1>8, <2>1 DEF Commit, CartConsumed, Changes
    <2>3. {[by |-> x.by, lines |-> x.lines] : x \in orders'} =
            {[by |-> x.by, lines |-> x.lines] : x \in orders}
              \cup {[by |-> r, lines |-> items]}
      <3>1. PICK y : y = [cart |-> cart, by |-> r, lines |-> items]
        OBVIOUS
      <3>2. y.by = r /\ y.lines = items /\ orders' = orders \cup {y}
        BY <2>2, <3>1
      <3>3. {[by |-> x.by, lines |-> x.lines] : x \in orders \cup {y}} =
              {[by |-> x.by, lines |-> x.lines] : x \in orders}
                \cup {[by |-> y.by, lines |-> y.lines]}
        OBVIOUS
      <3> QED
        BY <3>2, <3>3
    <2>4. S!Ends(r, "done")
      BY <1>4, <1>8 DEF Changes
    <2> QED
      BY <1>8, <2>1, <2>2, <2>3, <2>4 DEF S!CheckOut, S!NoLines, NoLines
  <1> QED
    BY <1>1, <1>3, <1>5, <1>6, <1>7, <1>8, OpType

LEMMA MapStep ==
  ASSUME Inv, Inv', [Next]_vars
  PROVE  [S!Next]_S!vars
  <1>1. CASE UNCHANGED vars
    BY <1>1 DEF vars, S!vars, Status
  <1>2. ASSUME NEW r \in Requests, Begin(r) \/ Progress(r) \/ Fail(r), Watch
        PROVE  [S!Next]_S!vars
    <2>1. S!Watch
      BY <1>2, MapWatch
    <2>2. ASSUME Fail(r)
          PROVE  S!Fail(r)
      <3>1. S!Ends(r, "failed")
        BY <2>2, MapEnds DEF Fail, Rollback, Ended
      <3> QED
        BY <2>2, <3>1 DEF Fail, S!Fail, table
    <2>3. \/ UNCHANGED S!vars
          \/ S!Begin(r) \/ S!Add(r) \/ S!Set(r) \/ S!Remove(r) \/ S!Replace(r)
          \/ S!CheckOut(r) \/ S!Refuse(r) \/ S!Ignore(r) \/ S!Fail(r)
      BY <1>2, <2>2, MapBegin, MapCheck, MapFind, MapLock, MapRead, MapPrice, MapCommit
         DEF Progress
    <2> QED
      BY <2>1, <2>3 DEF S!Next, S!Step
  <1>3. ASSUME NEW v \in Variants, DeleteProduct(v), Watch
        PROVE  [S!Next]_S!vars
    <2>1. S!Watch
      BY <1>3, MapWatch
    <2>2. S!DeleteProduct(v)
      BY <1>3 DEF DeleteProduct, S!DeleteProduct, table, Status
    <2> QED
      BY <2>1, <2>2 DEF S!Next, S!Step
  <1> QED
    BY <1>1, <1>2, <1>3 DEF Next, Step

(* For any number of tabs: each request takes effect at one moment or not at
   all.  No change is lost to another, and no line enters an Order without
   leaving the Cart. *)
THEOREM CartIsAtomic == Spec => AtomicCart
  BY MapInit, MapStep, CartInvariant, PTL DEF Spec, AtomicCart, S!Spec
=============================================================================
