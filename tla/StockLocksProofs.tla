-------------------------- MODULE StockLocksProofs --------------------------
(***************************************************************************)
(* For any Orders, Variants, payments, calls and connections: StockLocks   *)
(* implements Fence, and its calls never wait for each other in a circle.  *)
(*                                                                         *)
(* A call knows things of the rows it has locked (Has), and nobody else    *)
(* changes those rows while it has the locks (Untouched).  What it may     *)
(* hold at each step (Holds) gives the order of the locks: a connection,   *)
(* the Payment, the Order, then the Variants in ascending order, so a call *)
(* that waits for a Variant waits for one beyond all that it has.          *)
(***************************************************************************)
EXTENDS StockLocks, WellFoundedInduction, TLAPS

Locking == {"variants", "commit"}

Holds(c) ==
  /\ call[c].pc = "claim" => op[c].kind = "payment"
  /\ call[c].pc = "order" => IsPayment(c)
  /\ call[c].pc \in Locking => op[c].kind # "nested"
  /\ \A x \in PaymentIntents : held[x] = c =>
       op[c].kind = "payment" /\ x = op[c].row /\ call[c].pc \in {"order"} \cup Locking
  /\ \A x \in Orders : held[x] = c => IsPayment(c) /\ x = OrderOfOp(c) /\ call[c].pc \in Locking
  /\ \A v \in Variants : held[v] = c => v \in Wanted(c) /\ call[c].pc \in Locking
  /\ \A s \in Slots : held[s] = c => /\ call[c].pc \notin {"connect", "done", "failed"}
                                     /\ call[c].pc = "open" => op[c].kind = "nested"

(* A payment that has claimed its row. *)
Claimed(c) == held[op[c].row] = c /\ payments[op[c].row] = "none"
Pending(c) == held[OrderOfOp(c)] = c /\ paymentStatus[OrderOfOp(c)] = "pending"

Has(c) ==
  /\ call[c].ok => call[c].pc \in {"commit", "done", "failed"}
  /\ call[c].pc \in {"order", "variants"} /\ op[c].kind = "payment" => Claimed(c)
  /\ call[c].pc = "variants" /\ IsPayment(c) => Pending(c)
  /\ call[c].pc = "variants" /\ op[c].kind # "other" =>
       \A v \in Unlocked(c), w \in Variants : held[w] = c => w < v
  /\ call[c].pc = "commit" /\ call[c].ok =>
       /\ IsPayment(c) /\ Pending(c) /\ (op[c].kind = "payment" => Claimed(c))
       /\ \A v \in Wanted(c) : /\ held[v] = c /\ v \notin deleted
                               /\ Lines[OrderOfOp(c)][v] <= inventory[v]
  /\ call[c].pc = "commit" /\ ~call[c].ok /\ op[c].kind = "payment" /\ held[op[c].row] = c =>
       payments[op[c].row] = "none" /\ ~Promise!Sellable(OrderOf[op[c].row])
  /\ call[c].pc = "commit" /\ op[c].kind = "delete" =>
       \A v \in Wanted(c) : v \in deleted \/ held[v] = c

Inv == TypeOK /\ \A c \in Calls : Holds(c) /\ Has(c)

-----------------------------------------------------------------------------
(* A set of numbers has a least one. *)
LEMMA LeastNumber ==
  ASSUME NEW S, S \subseteq Nat, S # {}
  PROVE  \E n \in S : \A m \in S : n <= m
  <1>1. PICK n \in S : \A m \in S : ~(<<m, n>> \in OpToRel(<, Nat))
    BY WFMin, NatLessThanWellFounded
  <1>2. \A m \in S : ~(m < n)
    BY <1>1 DEF OpToRel
  <1> QED BY <1>2

LEMMA MinIsLeast ==
  ASSUME NEW S, S \subseteq Nat, S # {}
  PROVE  Min(S) \in S /\ \A m \in S : Min(S) <= m
  BY LeastNumber DEF Min

LEMMA VariantsAreNumbers == Variants \subseteq Nat
  BY StockAssumption DEF Variants

LEMMA OpTypes ==
  ASSUME NEW c \in Calls, op \in [Calls -> Ops]
  PROVE  /\ op[c].kind \in {"payment", "markPaid", "delete", "nested", "other"}
         /\ op[c].kind = "payment" => op[c].row \in PaymentIntents
         /\ op[c].kind = "markPaid" => op[c].row \in Orders
         /\ op[c].kind = "delete" => op[c].row \in Products
         /\ IsPayment(c) => OrderOfOp(c) \in Orders
  BY StockAssumption DEF PaymentOps, MarkOps, DeleteOps, OtherOps, IsPayment, OrderOfOp

LEMMA CallFields ==
  ASSUME call \in [Calls -> CallState], NEW c \in Calls
  PROVE  /\ call[c].pc \in Steps /\ call[c].attempt \in 1..PaymentAttempts
         /\ call[c].ok \in BOOLEAN
  BY DEF CallState

(* What a step of one call leaves to another: its locks, the rows it has
   locked, and what is only ever spent. *)
Untouched(c) ==
  /\ op' = op /\ call'[c] = call[c]
  /\ \A x \in Rows \cup Slots : held'[x] = c <=> held[x] = c
  /\ \A p \in PaymentIntents : held[p] = c => payments'[p] = payments[p]
  /\ \A o \in Orders : held[o] = c => paymentStatus'[o] = paymentStatus[o]
  /\ \A o \in Orders : paymentStatus[o] = "paid" => paymentStatus'[o] = "paid"
  /\ \A v \in Variants : held[v] = c =>
       inventory'[v] = inventory[v] /\ (v \in deleted' => v \in deleted)
  /\ \A v \in Variants : inventory'[v] <= inventory[v]
  /\ deleted \subseteq deleted'

LEMMA KeptByOthers ==
  ASSUME Inv, TypeOK', NEW c \in Calls, Untouched(c)
  PROVE  (Holds(c) /\ Has(c))'
  <1> USE DEF IsPayment, OrderOfOp
  <1>1. op' = op /\ call'[c] = call[c] /\ Wanted(c)' = Wanted(c)
    BY DEF Untouched, Wanted
  <1>2. Wanted(c) \subseteq Variants
    BY DEF Wanted
  <1>3. Holds(c)'
    <2>1. Holds(c) BY DEF Inv
    <2>2. \A x \in Rows \cup Slots : held'[x] = c <=> held[x] = c BY DEF Untouched
    <2> QED BY <1>1, <2>1, <2>2 DEF Holds, Rows
  <1>4. Unlocked(c)' \subseteq Unlocked(c)
    BY <1>1, <1>2 DEF Untouched, Unlocked, Rows
  <1>5. IsPayment(c) => OrderOfOp(c) \in Orders
    BY OpTypes DEF Inv, TypeOK
  <1>6. op[c].kind = "payment" => op[c].row \in PaymentIntents
    BY OpTypes DEF Inv, TypeOK
  <1>7. op[c].kind = "payment" => (Claimed(c)' <=> Claimed(c))
    BY <1>1, <1>6 DEF Untouched, Claimed, Rows
  <1>8. IsPayment(c) => (Pending(c)' <=> Pending(c))
    BY <1>1, <1>5 DEF Untouched, Pending, Rows
  <1>9. Has(c) BY DEF Inv
  <1>10. \A o \in Orders : ~Promise!Sellable(o) => ~Promise!Sellable(o)'
    <2> SUFFICES ASSUME NEW o \in Orders, Promise!Sellable(o)' PROVE Promise!Sellable(o)
      OBVIOUS
    <2>1. paymentStatus[o] = "pending"
      BY DEF Promise!Sellable, Untouched, Inv, TypeOK
    <2>2. ASSUME NEW v \in Variants, Lines[o][v] > 0
          PROVE  v \notin deleted /\ inventory[v] >= Lines[o][v]
      <3>1. v \notin deleted' /\ inventory'[v] >= Lines[o][v]
        BY <2>2 DEF Promise!Sellable
      <3>2. inventory[v] \in Nat /\ inventory'[v] \in Nat /\ Lines[o][v] \in Nat
        BY StockAssumption DEF Inv, TypeOK
      <3> QED BY <3>1, <3>2 DEF Untouched
    <2> QED BY <2>1, <2>2 DEF Promise!Sellable
  <1>11. \A w \in Variants : held'[w] = c <=> held[w] = c
    BY DEF Untouched, Rows
  <1>12. \A v \in Variants : held[v] = c =>
           inventory'[v] = inventory[v] /\ (v \in deleted' <=> v \in deleted)
    BY DEF Untouched
  <1>13. Has(c)'
    <2>1. call[c].pc \in {"order", "variants"} /\ op[c].kind = "payment" => Claimed(c)'
      BY <1>7, <1>9 DEF Has
    <2>2. call[c].pc = "variants" /\ IsPayment(c) => Pending(c)'
      BY <1>8, <1>9 DEF Has
    <2>3. call[c].pc = "variants" /\ op[c].kind # "other" =>
            \A v \in Unlocked(c)', w \in Variants : held'[w] = c => w < v
      BY <1>4, <1>9, <1>11 DEF Has
    <2>4. call[c].pc = "commit" /\ call[c].ok =>
            /\ IsPayment(c) /\ Pending(c)' /\ (op[c].kind = "payment" => Claimed(c)')
            /\ \A v \in Wanted(c) : /\ held'[v] = c /\ v \notin deleted'
                                    /\ Lines[OrderOfOp(c)][v] <= inventory'[v]
      BY <1>2, <1>7, <1>8, <1>9, <1>11, <1>12 DEF Has
    <2>5. call[c].pc = "commit" /\ ~call[c].ok /\ op[c].kind = "payment" /\ held'[op[c].row] = c =>
            payments'[op[c].row] = "none" /\ ~Promise!Sellable(OrderOf[op[c].row])'
      <3> SUFFICES ASSUME call[c].pc = "commit", ~call[c].ok, op[c].kind = "payment",
                          held'[op[c].row] = c
                   PROVE  payments'[op[c].row] = "none" /\ ~Promise!Sellable(OrderOf[op[c].row])'
        OBVIOUS
      <3>1. held[op[c].row] = c /\ payments'[op[c].row] = payments[op[c].row]
        BY <1>6 DEF Untouched, Rows
      <3>2. payments[op[c].row] = "none" /\ ~Promise!Sellable(OrderOf[op[c].row])
        BY <1>9, <3>1 DEF Has
      <3>3. OrderOf[op[c].row] \in Orders
        BY <1>6, StockAssumption
      <3>4. ~Promise!Sellable(OrderOf[op[c].row])'
        <4>1. op'[c].row = op[c].row BY <1>1
        <4> QED BY <1>10, <3>2, <3>3, <4>1
      <3> QED BY <3>1, <3>2, <3>4
    <2>6. call[c].pc = "commit" /\ op[c].kind = "delete" =>
            \A v \in Wanted(c) : v \in deleted' \/ held'[v] = c
      BY <1>2, <1>9, <1>11 DEF Has, Untouched
    <2>7. call[c].ok => call[c].pc \in {"commit", "done", "failed"}
      BY <1>9 DEF Has
    <2> HIDE DEF IsPayment, OrderOfOp
    <2>8. IsPayment(c)' = IsPayment(c) /\ OrderOfOp(c)' = OrderOfOp(c)
      BY <1>1 DEF IsPayment, OrderOfOp
    <2> QED BY <1>1, <2>1, <2>2, <2>3, <2>4, <2>5, <2>6, <2>7, <2>8 DEF Has
  <1> QED BY <1>3, <1>13

LEMMA HeldType ==
  ASSUME TypeOK, NEW d \in Calls, NEW x \in Rows \cup Slots,
         held' = held \/ Release(d) \/ Take(d, x)
  PROVE  /\ held' \in [Rows \cup Slots -> Calls \cup {NoCall}]
         /\ \A y \in Rows \cup Slots, c \in Calls : c # d => (held'[y] = c <=> held[y] = c)
         /\ Release(d) => \A y \in Rows \cup Slots : held'[y] # d
  BY StockAssumption DEF TypeOK, Release, Take

(* A step that changes no table: only the call that takes it is to be looked at. *)
LEMMA QuietStep ==
  ASSUME Inv, NEW d \in Calls, NEW x \in Rows \cup Slots,
         held' = held \/ Release(d) \/ Take(d, x),
         UNCHANGED <<tables, op>>,
         NEW q \in CallState, call' = [call EXCEPT ![d] = q],
         (Holds(d) /\ Has(d))'
  PROVE  Inv'
  <1>1. call' \in [Calls -> CallState] /\ \A c \in Calls : c # d => call'[c] = call[c]
    BY DEF Inv, TypeOK
  <1>2. /\ held' \in [Rows \cup Slots -> Calls \cup {NoCall}]
        /\ \A y \in Rows \cup Slots, c \in Calls : c # d => (held'[y] = c <=> held[y] = c)
    BY HeldType DEF Inv
  <1>3. TypeOK'
    BY <1>1, <1>2 DEF Inv, TypeOK, tables
  <1>4. ASSUME NEW c \in Calls, c # d PROVE (Holds(c) /\ Has(c))'
    <2>1. /\ op' = op /\ call'[c] = call[c]
          /\ \A y \in Rows \cup Slots : held'[y] = c <=> held[y] = c
      BY <1>1, <1>2, <1>4
    <2>2. \A v \in Variants : inventory[v] <= inventory[v]
      BY DEF Inv, TypeOK
    <2>3. Untouched(c)
      BY <2>1, <2>2 DEF Untouched, tables
    <2> QED BY <1>3, <2>3, KeptByOthers
  <1> QED BY <1>3, <1>4 DEF Inv

(* A call that holds nothing. *)
LEMMA HoldsNothing ==
  ASSUME Inv, NEW d \in Calls, Release(d), op' = op,
         call'[d].pc \in {"open", "done", "failed"},
         call'[d].ok => call'[d].pc \in {"done", "failed"}
  PROVE  (Holds(d) /\ Has(d))'
  <1>1. \A y \in Rows \cup Slots : held'[y] # d
    BY StockAssumption DEF Inv, TypeOK, Release
  <1>2. Holds(d)'
    BY <1>1 DEF Holds, Rows, Locking
  <1> QED BY <1>2 DEF Has

LEMMA Changed ==
  ASSUME TypeOK, NEW d \in Calls, NEW pc \in Steps
  PROVE  /\ [call[d] EXCEPT !.pc = pc] \in CallState
         /\ Goto(d, pc) <=> call' = [call EXCEPT ![d] = [call[d] EXCEPT !.pc = pc]]
         /\ Goto(d, pc) => call'[d].pc = pc /\ call'[d].ok = call[d].ok
  BY DEF TypeOK, CallState, Goto

LEMMA FailsInv ==
  ASSUME Inv, NEW d \in Calls, Fails(d), UNCHANGED <<tables, op>>
  PROVE  Inv'
  <1>1. "failed" \in Steps /\ Goto(d, "failed") /\ Release(d)
    BY DEF Steps, Fails
  <1>2. call'[d].pc = "failed" /\ [call[d] EXCEPT !.pc = "failed"] \in CallState
        /\ call' = [call EXCEPT ![d] = [call[d] EXCEPT !.pc = "failed"]]
    BY <1>1, Changed DEF Inv
  <1>3. (Holds(d) /\ Has(d))'
    BY <1>1, <1>2, HoldsNothing
  <1>4. PICK s : s \in Rows \cup Slots
    BY StockAssumption
  <1> QED BY <1>1, <1>2, <1>3, <1>4, QuietStep

LEMMA FailInv ==
  ASSUME Inv, NEW d \in Calls, Fail(d)
  PROVE  Inv'
  BY FailsInv DEF Fail

LEMMA OpenInv ==
  ASSUME Inv, NEW d \in Calls, Open(d)
  PROVE  Inv'
  <1>1. CASE Nested(d) /\ Fails(d)
    BY <1>1, FailsInv DEF Open
  <1>2. CASE ~Nested(d) /\ Goto(d, "connect") /\ UNCHANGED held
    <2>1. call[d].pc = "open" /\ UNCHANGED <<tables, op>>
      BY DEF Open
    <2>2. "connect" \in Steps BY DEF Steps
    <2>3. call'[d].pc = "connect" /\ call'[d].ok = call[d].ok
          /\ [call[d] EXCEPT !.pc = "connect"] \in CallState
          /\ call' = [call EXCEPT ![d] = [call[d] EXCEPT !.pc = "connect"]]
      BY <1>2, <2>2, Changed DEF Inv
    <2>4. \A y \in Rows \cup Slots : held'[y] # d
      <3>1. Holds(d) BY DEF Inv
      <3> QED BY <1>2, <2>1, <3>1 DEF Holds, Nested, Connected, Rows, Locking
    <2>5. Holds(d)'
      BY <2>1, <2>3, <2>4 DEF Holds, Rows, Locking
    <2>6. Has(d)'
      <3>1. Has(d) BY DEF Inv
      <3> QED BY <2>1, <2>3, <3>1 DEF Has
    <2>7. PICK s : s \in Rows \cup Slots
      BY StockAssumption
    <2> QED BY <1>2, <2>1, <2>3, <2>5, <2>6, <2>7, QuietStep
  <1> QED BY <1>1, <1>2 DEF Open

LEMMA ConnectInv ==
  ASSUME Inv, NEW d \in Calls, Connect(d)
  PROVE  Inv'
  <1>1. PICK s \in Slots : Take(d, s)
    BY DEF Connect
  <1>2. call[d].pc = "connect" /\ UNCHANGED <<tables, op>> /\ Goto(d, FirstStep(d))
    BY DEF Connect
  <1>3. FirstStep(d) \in Steps
    BY DEF FirstStep, Steps
  <1>4. call'[d].pc = FirstStep(d) /\ call'[d].ok = call[d].ok
        /\ [call[d] EXCEPT !.pc = FirstStep(d)] \in CallState
        /\ call' = [call EXCEPT ![d] = [call[d] EXCEPT !.pc = FirstStep(d)]]
    BY <1>2, <1>3, Changed DEF Inv
  <1>5. \A y \in Rows : held'[y] # d
    <2>1. Holds(d) BY DEF Inv
    <2>2. \A y \in Rows : held[y] # d
      BY <1>2, <2>1 DEF Holds, Rows, Locking
    <2>3. \A y \in Rows : held'[y] = held[y]
      BY <1>1, StockAssumption DEF Take, Inv, TypeOK
    <2> QED BY <2>2, <2>3
  <1>6. op'[d] = op[d] /\ op[d].kind \in {"payment", "markPaid", "delete", "nested", "other"}
    BY <1>2, OpTypes DEF Inv, TypeOK
  <1>7. Holds(d)'
    BY <1>4, <1>5, <1>6 DEF Holds, Rows, Locking, FirstStep, IsPayment
  <1>8. Has(d)'
    <2>1. ~call[d].ok
      BY <1>2 DEF Inv, Has
    <2> QED BY <1>4, <1>5, <1>6, <2>1 DEF Has, FirstStep, IsPayment, Rows
  <1> QED BY <1>1, <1>2, <1>4, <1>7, <1>8, QuietStep

LEMMA ClaimInv ==
  ASSUME Inv, NEW d \in Calls, Claim(d)
  PROVE  Inv'
  <1>1. call[d].pc = "claim" /\ UNCHANGED <<tables, op>>
    BY DEF Claim
  <1>2. op[d].kind = "payment" /\ op[d].row \in PaymentIntents /\ op'[d] = op[d]
    BY <1>1, OpTypes DEF Inv, Holds, TypeOK
  <1>3. Holds(d) /\ Has(d) /\ ~call[d].ok
    BY <1>1 DEF Inv, Has
  <1>4. {"order", "commit"} \subseteq Steps
    BY DEF Steps
  <1>5. CASE payments[op[d].row] = "none" /\ Take(d, op[d].row) /\ Goto(d, "order")
    <2>1. call'[d].pc = "order" /\ call'[d].ok = call[d].ok
          /\ [call[d] EXCEPT !.pc = "order"] \in CallState
          /\ call' = [call EXCEPT ![d] = [call[d] EXCEPT !.pc = "order"]]
      BY <1>4, <1>5, Changed DEF Inv
    <2>2. held'[op[d].row] = d /\ \A y \in Rows \cup Slots : y # op[d].row => held'[y] = held[y]
      BY <1>2, <1>5 DEF Take, Inv, TypeOK, Rows
    <2>3. Holds(d)'
      BY <1>1, <1>2, <1>3, <2>1, <2>2, StockAssumption DEF Holds, Rows, Locking, IsPayment
    <2>4. Has(d)'
      BY <1>1, <1>2, <1>3, <1>5, <2>1, <2>2 DEF Has, Claimed, tables
    <2> QED BY <1>1, <1>2, <1>5, <2>1, <2>3, <2>4, QuietStep DEF Rows
  <1>6. CASE payments[op[d].row] # "none" /\ Goto(d, "commit") /\ UNCHANGED held
    <2>1. call'[d].pc = "commit" /\ call'[d].ok = call[d].ok
          /\ [call[d] EXCEPT !.pc = "commit"] \in CallState
          /\ call' = [call EXCEPT ![d] = [call[d] EXCEPT !.pc = "commit"]]
      BY <1>4, <1>6, Changed DEF Inv
    <2>2. Holds(d)'
      BY <1>1, <1>2, <1>3, <1>6, <2>1 DEF Holds, Rows, Locking, IsPayment
    <2>3. held[op[d].row] # d
      BY <1>1, <1>2, <1>3 DEF Holds, Locking
    <2>4. Has(d)'
      BY <1>1, <1>2, <1>3, <1>6, <2>1, <2>3 DEF Has
    <2> QED BY <1>1, <1>2, <1>6, <2>1, <2>2, <2>4, QuietStep DEF Rows
  <1> QED BY <1>5, <1>6 DEF Claim

LEMMA LockOrderInv ==
  ASSUME Inv, NEW d \in Calls, LockOrder(d)
  PROVE  Inv'
  <1> DEFINE o  == OrderOfOp(d)
             pc == IF paymentStatus[o] = "pending" THEN "variants" ELSE "commit"
  <1>1. call[d].pc = "order" /\ UNCHANGED <<tables, op>> /\ Take(d, o) /\ Goto(d, pc)
    BY DEF LockOrder
  <1>2. IsPayment(d) /\ o \in Orders /\ op'[d] = op[d]
        /\ op[d].kind \in {"payment", "markPaid"}
    BY <1>1, OpTypes DEF Inv, Holds, TypeOK, IsPayment
  <1>3. Holds(d) /\ Has(d) /\ ~call[d].ok
    BY <1>1 DEF Inv, Has
  <1>4. pc \in {"variants", "commit"} /\ pc \in Steps
    BY DEF Steps
  <1>5. call'[d].pc = pc /\ call'[d].ok = call[d].ok
        /\ [call[d] EXCEPT !.pc = pc] \in CallState
        /\ call' = [call EXCEPT ![d] = [call[d] EXCEPT !.pc = pc]]
    BY <1>1, <1>4, Changed DEF Inv
  <1>6. held'[o] = d /\ \A y \in Rows \cup Slots : y # o => held'[y] = held[y]
    BY <1>1, <1>2 DEF Take, Inv, TypeOK, Rows
  <1>7. OrderOfOp(d)' = o /\ IsPayment(d)'
    BY <1>2 DEF OrderOfOp, IsPayment
  <1>8. \A v \in Variants : held'[v] # d
    BY <1>1, <1>2, <1>3, <1>6, StockAssumption DEF Holds, Rows, Locking
  <1>9. Holds(d)'
    <2>1. \A p \in PaymentIntents : held'[p] = d => held[p] = d
      BY <1>2, <1>6, StockAssumption DEF Rows
    <2>2. \A p \in Orders : held'[p] = d => p = o
      BY <1>1, <1>3, <1>6 DEF Rows, Holds, Locking
    <2>3. \A s \in Slots : held'[s] = d => held[s] = d
      BY <1>2, <1>6, StockAssumption DEF Rows
    <2> HIDE DEF o, pc
    <2> QED BY <1>1, <1>2, <1>3, <1>4, <1>5, <1>7, <1>8, <2>1, <2>2, <2>3 DEF Holds, Locking
  <1>10. op[d].kind = "payment" => Claimed(d)' /\ Claimed(d)
    <2> SUFFICES ASSUME op[d].kind = "payment" PROVE Claimed(d)' /\ Claimed(d)
      OBVIOUS
    <2>1. op[d].row \in PaymentIntents /\ Claimed(d)
      BY <1>1, <1>3, OpTypes DEF Has, Inv, TypeOK
    <2>2. op[d].row # o /\ op[d].row \in Rows
      BY <1>2, <2>1, StockAssumption DEF Rows
    <2> QED BY <1>1, <1>2, <1>6, <2>1, <2>2 DEF Claimed, tables
  <1>11. Has(d)'
    <2>1. CASE pc = "variants"
      <3>1. paymentStatus[o] = "pending" BY <2>1
      <3>2. Pending(d)'
        BY <1>1, <1>6, <1>7, <3>1 DEF Pending, tables
      <3> HIDE DEF o, pc
      <3> QED BY <1>2, <1>3, <1>5, <1>8, <1>10, <2>1, <3>2 DEF Has
    <2>2. CASE pc = "commit"
      <3>1. paymentStatus[o] # "pending" BY <2>2
      <3>2. op[d].kind = "payment" =>
              payments'[op[d].row] = "none" /\ ~Promise!Sellable(OrderOf[op[d].row])'
        BY <1>1, <1>10, <3>1 DEF Claimed, Promise!Sellable, OrderOfOp, tables
      <3>3. op[d].kind # "delete"
        BY <1>2
      <3> HIDE DEF o, pc
      <3> QED BY <1>2, <1>3, <1>5, <2>2, <3>2, <3>3 DEF Has
    <2> QED BY <1>4, <2>1, <2>2
  <1> HIDE DEF o, pc
  <1> QED BY <1>1, <1>2, <1>5, <1>9, <1>11, QuietStep DEF Rows

LEMMA UnlockedVariants ==
  ASSUME NEW d \in Calls
  PROVE  /\ Unlocked(d) \subseteq Variants /\ Wanted(d) \subseteq Variants
         /\ Unlocked(d) # {} => /\ Min(Unlocked(d)) \in Unlocked(d)
                                /\ \A v \in Unlocked(d) : Min(Unlocked(d)) <= v
  <1>1. Unlocked(d) \subseteq Variants /\ Wanted(d) \subseteq Variants
    BY DEF Unlocked, Wanted
  <1>2. Unlocked(d) \subseteq Nat
    BY <1>1, VariantsAreNumbers
  <1> QED BY <1>1, <1>2, MinIsLeast

LEMMA LockVariantInv ==
  ASSUME Inv, NEW d \in Calls, LockVariant(d)
  PROVE  Inv'
  <1> DEFINE v == NextVariant(d)
  <1>1. /\ call[d].pc = "variants" /\ Unlocked(d) # {} /\ Take(d, v)
        /\ UNCHANGED <<tables, op>> /\ UNCHANGED call
    BY DEF LockVariant
  <1>2. Holds(d) /\ Has(d) /\ ~call[d].ok
    BY <1>1 DEF Inv, Has
  <1>3. v \in Unlocked(d)
    <2>1. CASE op[d].kind # "other"
      BY <1>1, <2>1, UnlockedVariants DEF NextVariant
    <2>2. CASE op[d].kind = "other"
      <3>1. held[v] = NoCall /\ held' = [held EXCEPT ![v] = d]
        BY <1>1 DEF Take
      <3>2. \E w \in Unlocked(d) : \A u \in Unlocked(d) : w >= u
        <4> DEFINE T == {n \in Nat : \E w \in Unlocked(d) : n = VariantCount - w}
        <4>1. \A w \in Unlocked(d) : w \in Nat /\ VariantCount - w \in T
          BY UnlockedVariants, StockAssumption DEF Variants
        <4>2. T \subseteq Nat /\ T # {}
          BY <1>1, <4>1
        <4>3. PICK n \in T : \A m \in T : n <= m
          BY <4>2, LeastNumber
        <4>4. PICK w \in Unlocked(d) : n = VariantCount - w
          BY <4>3
        <4> HIDE DEF T
        <4>5. \A u \in Unlocked(d) : w >= u
          BY <4>1, <4>3, <4>4, StockAssumption
        <4> QED BY <4>5
      <3> QED BY <2>2, <3>2 DEF NextVariant, Max
    <2> QED BY <2>1, <2>2
  <1>4. v \in Variants /\ v \in Wanted(d)
    BY <1>3, UnlockedVariants DEF Unlocked
  <1>5. held'[v] = d /\ \A y \in Rows \cup Slots : y # v => held'[y] = held[y]
    BY <1>1, <1>4 DEF Take, Inv, TypeOK, Rows
  <1>6. v \notin PaymentIntents /\ v \notin Orders /\ v \notin Slots
    BY <1>4, StockAssumption DEF Rows
  <1>7. /\ Wanted(d)' = Wanted(d) /\ IsPayment(d)' = IsPayment(d) /\ OrderOfOp(d)' = OrderOfOp(d)
        /\ op' = op /\ call' = call /\ deleted' = deleted
    BY <1>1 DEF Wanted, IsPayment, OrderOfOp, tables
  <1> HIDE DEF v
  <1>8. Holds(d)'
    BY <1>1, <1>2, <1>4, <1>5, <1>6, <1>7 DEF Holds, Rows, Locking
  <1>9. Unlocked(d)' = Unlocked(d) \ {v}
    <2>1. \A w \in Variants : held'[w] # d <=> held[w] # d /\ w # v
      BY <1>3, <1>5 DEF Rows, Unlocked
    <2>2. Unlocked(d)' = {w \in Wanted(d) \ deleted : held'[w] # d}
      BY <1>7 DEF Unlocked
    <2>3. Wanted(d) \subseteq Variants
      BY UnlockedVariants
    <2> QED BY <2>1, <2>2, <2>3 DEF Unlocked
  <1>10. op[d].kind # "other" => \A u \in Unlocked(d)', w \in Variants : held'[w] = d => w < u
    <2> SUFFICES ASSUME op[d].kind # "other", NEW u \in Unlocked(d)', NEW w \in Variants,
                        held'[w] = d
                 PROVE  w < u
      OBVIOUS
    <2>1. u \in Unlocked(d) /\ u # v /\ u \in Nat /\ v \in Nat
      BY <1>4, <1>9, UnlockedVariants, VariantsAreNumbers
    <2>2. CASE w = v
      <3>1. v = Min(Unlocked(d)) BY DEF v, NextVariant
      <3> QED BY <1>1, <2>1, <2>2, <3>1, UnlockedVariants
    <2>3. CASE w # v
      BY <1>1, <1>2, <1>5, <2>1, <2>3 DEF Has, Rows
    <2> QED BY <2>2, <2>3
  <1>11. op[d].kind = "payment" => Claimed(d)'
    <2> SUFFICES ASSUME op[d].kind = "payment" PROVE Claimed(d)'
      OBVIOUS
    <2>1. op[d].row \in PaymentIntents /\ Claimed(d)
      BY <1>1, <1>2, OpTypes DEF Has, Inv, TypeOK
    <2> QED BY <1>1, <1>5, <1>6, <2>1 DEF Claimed, tables, Rows
  <1>12. IsPayment(d) => Pending(d)'
    <2> SUFFICES ASSUME IsPayment(d) PROVE Pending(d)'
      OBVIOUS
    <2>1. OrderOfOp(d) \in Orders /\ Pending(d)
      BY <1>1, <1>2, OpTypes DEF Has, Inv, TypeOK
    <2> QED BY <1>1, <1>5, <1>6, <1>7, <2>1 DEF Pending, tables, Rows
  <1>13. Has(d)'
    BY <1>1, <1>2, <1>7, <1>10, <1>11, <1>12 DEF Has
  <1>14. call[d] \in CallState /\ call' = [call EXCEPT ![d] = call[d]]
    BY <1>7 DEF Inv, TypeOK
  <1>15. v \in Rows \cup Slots /\ Take(d, v)
    BY <1>1, <1>4 DEF Rows, v
  <1> QED BY <1>1, <1>8, <1>13, <1>14, <1>15, QuietStep

LEMMA DecideInv ==
  ASSUME Inv, NEW d \in Calls, Decide(d)
  PROVE  Inv'
  <1> DEFINE ok == IsPayment(d) /\ Lacking(OrderOfOp(d)) = {}
             q  == [call[d] EXCEPT !.pc = "commit", !.ok = ok]
  <1>1. CASE Throws(d) /\ Fails(d)
    BY <1>1, FailsInv DEF Decide
  <1>2. CASE ~Throws(d) /\ UNCHANGED held /\ call' = [call EXCEPT ![d].pc = "commit", ![d].ok = ok]
    <2>1. call[d].pc = "variants" /\ Unlocked(d) = {} /\ UNCHANGED <<tables, op>>
      BY DEF Decide
    <2>2. Holds(d) /\ Has(d) /\ op[d].kind # "nested"
      BY <2>1 DEF Inv, Holds, Locking
    <2>3. /\ call' = [call EXCEPT ![d] = q] /\ q \in CallState
          /\ call'[d].pc = "commit" /\ call'[d].ok = ok
      BY <1>2 DEF Inv, TypeOK, CallState, Steps
    <2>4. /\ Wanted(d)' = Wanted(d) /\ IsPayment(d)' = IsPayment(d)
          /\ OrderOfOp(d)' = OrderOfOp(d) /\ op' = op /\ held' = held
      BY <1>2, <2>1 DEF Wanted, IsPayment, OrderOfOp
    <2>5. \A v \in Wanted(d) : v \in deleted \/ held[v] = d
      BY <2>1 DEF Unlocked
    <2>6. op[d].kind = "payment" => op[d].row \in PaymentIntents /\ Claimed(d) /\ IsPayment(d)
      BY <2>1, <2>2, OpTypes DEF Has, Inv, TypeOK, IsPayment
    <2>7. IsPayment(d) => OrderOfOp(d) \in Orders /\ Pending(d) /\ op[d].kind # "delete"
      BY <2>1, <2>2, OpTypes DEF Has, Inv, TypeOK, IsPayment
    <2>8. Holds(d)'
      BY <2>1, <2>2, <2>3, <2>4 DEF Holds, Locking
    <2>9. ok => \A v \in Wanted(d) : /\ held[v] = d /\ v \notin deleted
                                     /\ Lines[OrderOfOp(d)][v] <= inventory[v]
      <3> SUFFICES ASSUME ok, NEW v \in Wanted(d)
                   PROVE  held[v] = d /\ v \notin deleted /\ Lines[OrderOfOp(d)][v] <= inventory[v]
        OBVIOUS
      <3>1. v \in Variants /\ Lines[OrderOfOp(d)][v] > 0
        <4>1. IsPayment(d) OBVIOUS
        <4>2. Wanted(d) = {w \in Variants : Lines[OrderOfOp(d)][w] > 0}
          BY <4>1 DEF Wanted, IsPayment
        <4> QED BY <4>2
      <3>2. inventory[v] \in Nat /\ Lines[OrderOfOp(d)][v] \in Nat
        BY <2>7, <3>1, StockAssumption DEF Inv, TypeOK
      <3>3. v \notin deleted /\ ~(inventory[v] < Lines[OrderOfOp(d)][v])
        BY <3>1 DEF Lacking
      <3> QED BY <2>5, <3>2, <3>3
    <2>10. ~ok /\ op[d].kind = "payment" => ~Promise!Sellable(OrderOf[op[d].row])
      <3> SUFFICES ASSUME ~ok, op[d].kind = "payment" PROVE ~Promise!Sellable(OrderOf[op[d].row])
        OBVIOUS
      <3>1. OrderOfOp(d) = OrderOf[op[d].row] /\ OrderOfOp(d) \in Orders
        BY <2>6, <2>7 DEF OrderOfOp
      <3>2. PICK v \in Variants : /\ Lines[OrderOfOp(d)][v] > 0
                                  /\ v \in deleted \/ inventory[v] < Lines[OrderOfOp(d)][v]
        BY <2>6 DEF Lacking
      <3>3. inventory[v] \in Nat /\ Lines[OrderOfOp(d)][v] \in Nat
        BY <3>1, StockAssumption DEF Inv, TypeOK
      <3> QED BY <3>1, <3>2, <3>3 DEF Promise!Sellable
    <2>11. Claimed(d)' <=> Claimed(d)
      BY <2>1, <2>4 DEF Claimed, tables
    <2>12. Pending(d)' <=> Pending(d)
      BY <2>1, <2>4 DEF Pending, tables
    <2>13. Promise!Sellable(OrderOf[op[d].row])' <=> Promise!Sellable(OrderOf[op[d].row])
      BY <2>1 DEF Promise!Sellable, tables
    <2>14. UNCHANGED <<paymentStatus, inventory, deleted, payments>>
      BY <2>1 DEF tables
    <2>15. ok => IsPayment(d)
      OBVIOUS
    <2> HIDE DEF ok
    <2>16. Has(d)'
      <3>1. call'[d].ok => /\ IsPayment(d) /\ Pending(d)' /\ (op[d].kind = "payment" => Claimed(d)')
                           /\ \A v \in Wanted(d) : /\ held'[v] = d /\ v \notin deleted'
                                                   /\ Lines[OrderOfOp(d)][v] <= inventory'[v]
        BY <2>3, <2>4, <2>6, <2>7, <2>9, <2>11, <2>12, <2>14, <2>15
      <3>2. ~call'[d].ok /\ op[d].kind = "payment" =>
              payments'[op[d].row] = "none" /\ ~Promise!Sellable(OrderOf[op[d].row])'
        BY <2>3, <2>6, <2>10, <2>13, <2>14 DEF Claimed
      <3>3. \A v \in Wanted(d) : v \in deleted' \/ held'[v] = d
        BY <2>4, <2>5, <2>14
      <3> QED BY <2>3, <2>4, <3>1, <3>2, <3>3 DEF Has
    <2>17. PICK s : s \in Rows \cup Slots
      BY StockAssumption
    <2> HIDE DEF q
    <2> QED BY <1>2, <2>1, <2>3, <2>8, <2>16, <2>17, QuietStep
  <1> QED BY <1>1, <1>2 DEF Decide

LEMMA LoseDeadlockInv ==
  ASSUME Inv, NEW d \in Calls, LoseDeadlock(d)
  PROVE  Inv'
  <1> DEFINE q == [call[d] EXCEPT !.attempt = call[d].attempt + 1, !.pc = "open"]
  <1>1. CASE ~MayRestart(d) /\ Fails(d)
    BY <1>1, FailsInv DEF LoseDeadlock
  <1>2. CASE MayRestart(d) /\ Restart(d)
    <2>1. call[d].pc \in {"claim", "order", "variants"}
      BY DEF LoseDeadlock, Deadlocked, Awaits
    <2>2. ~call[d].ok
      BY <2>1 DEF Inv, Has
    <2>3. UNCHANGED <<tables, op>> /\ Release(d)
      BY <1>2 DEF LoseDeadlock, Restart
    <2>4. call[d] \in CallState
      BY DEF Inv, TypeOK
    <2>5. call[d].attempt + 1 \in 1..PaymentAttempts
      BY <1>2, <2>4, StockAssumption DEF MayRestart, CallState
    <2>6. /\ call' = [call EXCEPT ![d] = q] /\ q \in CallState
          /\ call'[d].pc = "open" /\ call'[d].ok = call[d].ok
      BY <1>2, <2>4, <2>5 DEF Restart, CallState, Steps, Inv, TypeOK
    <2> HIDE DEF q
    <2>7. (Holds(d) /\ Has(d))'
      BY <2>2, <2>3, <2>6, HoldsNothing
    <2>8. PICK s : s \in Rows \cup Slots
      BY StockAssumption
    <2> QED BY <2>3, <2>6, <2>7, <2>8, QuietStep
  <1> QED BY <1>1, <1>2 DEF LoseDeadlock

(* What a commit writes: rows it has the locks of, and rows of deleted
   Variants again. *)
LEMMA CommitWrites ==
  ASSUME Inv, NEW d \in Calls, Commit(d)
  PROVE  /\ payments' \in [PaymentIntents -> {"none", "paid", "refund_due"}]
         /\ paymentStatus' \in [Orders -> {"pending", "paid"}]
         /\ inventory' \in [Variants -> Nat] /\ deleted' \subseteq Variants
         /\ \A p \in PaymentIntents : held[p] # d => payments'[p] = payments[p]
         /\ \A o \in Orders : held[o] # d => paymentStatus'[o] = paymentStatus[o]
         /\ \A o \in Orders : paymentStatus[o] = "paid" => paymentStatus'[o] = "paid"
         /\ \A v \in Variants : held[v] # d =>
              inventory'[v] = inventory[v] /\ (v \in deleted' => v \in deleted)
         /\ \A v \in Variants : inventory'[v] <= inventory[v]
         /\ deleted \subseteq deleted'
  <1>1. call[d].pc = "commit" /\ Holds(d) /\ Has(d) /\ TypeOK
    BY DEF Commit, Inv
  <1>2. op[d].kind = "payment" => op[d].row \in PaymentIntents
    BY <1>1, OpTypes DEF TypeOK
  <1>3. /\ payments' \in [PaymentIntents -> {"none", "paid", "refund_due"}]
        /\ \A p \in PaymentIntents : held[p] # d => payments'[p] = payments[p]
    <2>1. CASE op[d].kind = "payment" /\ held[op[d].row] = d
      <3>1. payments' = [payments EXCEPT ![op[d].row] = IF call[d].ok THEN "paid" ELSE "refund_due"]
        BY <2>1 DEF Commit
      <3> QED BY <1>1, <1>2, <2>1, <3>1 DEF TypeOK
    <2>2. CASE ~(op[d].kind = "payment" /\ held[op[d].row] = d)
      <3>1. payments' = payments
        BY <2>2 DEF Commit
      <3> QED BY <1>1, <3>1 DEF TypeOK
    <2> QED BY <2>1, <2>2
  <1>4. /\ deleted' \subseteq Variants /\ deleted \subseteq deleted'
        /\ \A v \in Variants : held[v] # d => (v \in deleted' => v \in deleted)
    <2>1. CASE op[d].kind = "delete"
      <3>1. deleted' = deleted \cup Wanted(d)
        BY <2>1 DEF Commit
      <3>2. \A v \in Wanted(d) : v \in deleted \/ held[v] = d
        BY <1>1, <2>1 DEF Has
      <3> QED BY <1>1, <3>1, <3>2, UnlockedVariants DEF TypeOK
    <2>2. CASE op[d].kind # "delete"
      <3>1. deleted' = deleted
        BY <2>2 DEF Commit
      <3> QED BY <1>1, <3>1 DEF TypeOK
    <2> QED BY <2>1, <2>2
  <1>5. CASE call[d].ok
    <2> DEFINE o == OrderOfOp(d)
    <2>1. /\ inventory' = [v \in Variants |-> inventory[v] - Lines[o][v]]
          /\ paymentStatus' = [paymentStatus EXCEPT ![o] = "paid"]
      BY <1>5 DEF Commit
    <2>2. IsPayment(d) /\ Pending(d) /\ o \in Orders
      BY <1>1, <1>5, OpTypes DEF Has, TypeOK
    <2>3. \A v \in Wanted(d) : held[v] = d /\ Lines[o][v] <= inventory[v]
      BY <1>1, <1>5 DEF Has
    <2>4. Wanted(d) = {v \in Variants : Lines[o][v] > 0}
      BY <2>2 DEF Wanted, IsPayment
    <2>5. held[o] = d
      BY <2>2 DEF Pending
    <2> HIDE DEF o
    <2>6. \A v \in Variants : inventory[v] \in Nat /\ Lines[o][v] \in Nat
      BY <1>1, <2>2, StockAssumption DEF TypeOK
    <2>7. \A v \in Variants : Lines[o][v] <= inventory[v] /\ (held[v] # d => Lines[o][v] = 0)
      BY <2>3, <2>4, <2>6
    <2>8. /\ inventory' \in [Variants -> Nat]
          /\ \A v \in Variants : /\ inventory'[v] <= inventory[v]
                                 /\ held[v] # d => inventory'[v] = inventory[v]
      BY <2>1, <2>6, <2>7
    <2>9. /\ paymentStatus' \in [Orders -> {"pending", "paid"}]
          /\ \A a \in Orders : held[a] # d => paymentStatus'[a] = paymentStatus[a]
          /\ \A a \in Orders : paymentStatus[a] = "paid" => paymentStatus'[a] = "paid"
      BY <1>1, <2>1, <2>2, <2>5 DEF TypeOK
    <2> QED BY <1>3, <1>4, <2>8, <2>9
  <1>6. CASE ~call[d].ok
    <2>1. UNCHANGED <<inventory, paymentStatus>>
      BY <1>6 DEF Commit
    <2>2. \A v \in Variants : inventory[v] <= inventory[v]
      BY <1>1 DEF TypeOK
    <2> QED BY <1>1, <1>3, <1>4, <2>1, <2>2 DEF TypeOK
  <1> QED BY <1>5, <1>6

LEMMA CommitInv ==
  ASSUME Inv, NEW d \in Calls, Commit(d)
  PROVE  Inv'
  <1>1. Goto(d, "done") /\ Release(d) /\ op' = op
    BY DEF Commit
  <1>2. "done" \in Steps BY DEF Steps
  <1>3. /\ call'[d].pc = "done" /\ call' \in [Calls -> CallState]
        /\ \A c \in Calls : c # d => call'[c] = call[c]
    <2>1. PICK q \in CallState : call' = [call EXCEPT ![d] = q] /\ call'[d].pc = "done"
      BY <1>1, <1>2, Changed DEF Inv
    <2> QED BY <2>1 DEF Inv, TypeOK
  <1>4. /\ held' \in [Rows \cup Slots -> Calls \cup {NoCall}]
        /\ \A y \in Rows \cup Slots, c \in Calls : c # d => (held'[y] = c <=> held[y] = c)
    <2>1. PICK s : s \in Rows \cup Slots
      BY StockAssumption
    <2> QED BY <1>1, <2>1, HeldType DEF Inv
  <1>5. TypeOK'
    BY <1>1, <1>3, <1>4, CommitWrites DEF Inv, TypeOK
  <1>6. ASSUME NEW c \in Calls, c # d PROVE (Holds(c) /\ Has(c))'
    <2>1. Untouched(c)
      BY <1>1, <1>3, <1>4, <1>6, CommitWrites DEF Untouched
    <2> QED BY <1>5, <2>1, KeptByOthers
  <1>7. (Holds(d) /\ Has(d))'
    BY <1>1, <1>3, HoldsNothing
  <1> QED BY <1>5, <1>6, <1>7 DEF Inv

LEMMA InitInv == Init => Inv
  <1> SUFFICES ASSUME Init PROVE Inv
    OBVIOUS
  <1>1. TypeOK
    BY StockAssumption DEF Init, TypeOK, CallState, Steps
  <1>2. \A c \in Calls : call[c].pc = "open" /\ ~call[c].ok
    BY DEF Init
  <1>3. \A c \in Calls, x \in Rows \cup Slots : held[x] # c
    BY StockAssumption DEF Init
  <1> QED BY <1>1, <1>2, <1>3 DEF Inv, Holds, Has, Rows, Locking

LEMMA NextInv == Inv /\ [Next]_vars => Inv'
  <1> SUFFICES ASSUME Inv, [Next]_vars PROVE Inv'
    OBVIOUS
  <1>1. CASE UNCHANGED vars
    BY <1>1 DEF vars, tables, Inv, TypeOK, Holds, Has, Locking, Claimed, Pending, Unlocked, Wanted,
       IsPayment, OrderOfOp, Promise!Sellable
  <1>2. ASSUME NEW c \in Calls, Progress(c) PROVE Inv'
    BY <1>2, OpenInv, ConnectInv, ClaimInv, LockOrderInv, LockVariantInv, DecideInv, CommitInv,
       LoseDeadlockInv DEF Progress
  <1>3. ASSUME NEW c \in Calls, Fail(c) PROVE Inv'
    BY <1>3, FailInv
  <1> QED BY <1>1, <1>2, <1>3 DEF Next, AllEnded

(* What a call knows of its rows and locks is an invariant. *)
THEOREM StockInvariant == Spec => []Inv
  BY InitInv, NextInv, PTL DEF Spec

(* Stock never goes below zero, whatever payments run at once. *)
THEOREM StockLocksTypes == Spec => []TypeOK
  <1>1. Inv => TypeOK BY DEF Inv
  <1> QED BY <1>1, StockInvariant, PTL

-----------------------------------------------------------------------------
(* A commit is one step of the fence, or none: what it decided on still holds,
   because the rows it decided on are locked. *)
LEMMA CommitKeepsFence ==
  ASSUME Inv, NEW d \in Calls, Commit(d)
  PROVE  Promise!Next \/ UNCHANGED Promise!vars
  <1>1. call[d].pc = "commit" /\ Has(d) /\ TypeOK
    BY DEF Commit, Inv
  <1>2. op[d].kind \in {"payment", "markPaid", "delete", "nested", "other"}
    BY <1>1, OpTypes DEF TypeOK
  <1>3. ASSUME call[d].ok
        PROVE  Promise!Sell(OrderOfOp(d)) /\ OrderOfOp(d) \in Orders /\ IsPayment(d)
    <2> DEFINE o == OrderOfOp(d)
    <2>1. IsPayment(d) /\ Pending(d) /\ o \in Orders
      BY <1>1, <1>3, OpTypes DEF Has, TypeOK
    <2>2. Wanted(d) = {v \in Variants : Lines[o][v] > 0}
      BY <2>1 DEF Wanted, IsPayment
    <2>3. \A v \in Wanted(d) : v \notin deleted /\ Lines[o][v] <= inventory[v]
      BY <1>1, <1>3 DEF Has
    <2>4. Promise!Sellable(o)
      <3>1. \A v \in Variants : inventory[v] \in Nat /\ Lines[o][v] \in Nat
        BY <1>1, <2>1, StockAssumption DEF TypeOK
      <3>2. paymentStatus[o] = "pending"
        BY <2>1 DEF Pending
      <3> HIDE DEF o
      <3> QED BY <2>2, <2>3, <3>1, <3>2 DEF Promise!Sellable
    <2>5. deleted' = deleted
      BY <2>1 DEF Commit, IsPayment
    <2> QED BY <1>3, <2>1, <2>4, <2>5 DEF Commit, Promise!Sell
  <1>4. ASSUME ~call[d].ok PROVE UNCHANGED <<paymentStatus, inventory>>
    BY <1>4 DEF Commit
  <1>5. CASE op[d].kind = "payment" /\ held[op[d].row] = d
    <2> DEFINE p == op[d].row
    <2>1. p \in PaymentIntents /\ OrderOfOp(d) = OrderOf[p] /\ deleted' = deleted
      BY <1>1, <1>5, OpTypes DEF TypeOK, OrderOfOp, Commit
    <2>2. payments' = [payments EXCEPT ![p] = IF call[d].ok THEN "paid" ELSE "refund_due"]
      BY <1>5 DEF Commit
    <2>3. CASE call[d].ok
      <3>1. payments[p] = "none"
        BY <1>1, <1>5, <2>3 DEF Has, Claimed
      <3>2. Promise!Honour(p)
        BY <1>3, <2>1, <2>2, <2>3, <3>1 DEF Promise!Honour, Promise!Judged
      <3> QED BY <2>1, <3>2 DEF Promise!Next
    <2>4. CASE ~call[d].ok
      <3>1. payments[p] = "none" /\ ~Promise!Sellable(OrderOf[p])
        BY <1>1, <1>5, <2>4 DEF Has
      <3>2. Promise!Decline(p)
        BY <1>4, <2>1, <2>2, <2>4, <3>1 DEF Promise!Decline, Promise!Judged
      <3> QED BY <2>1, <3>2 DEF Promise!Next
    <2> QED BY <2>3, <2>4
  <1>6. CASE ~(op[d].kind = "payment" /\ held[op[d].row] = d)
    <2>1. payments' = payments
      BY <1>6 DEF Commit
    <2>2. CASE call[d].ok
      <3>1. op[d].kind = "markPaid"
        BY <1>1, <1>3, <1>6, <2>2 DEF Has, Claimed, IsPayment
      <3>2. Promise!MarkPaid(OrderOfOp(d)) /\ OrderOfOp(d) \in Orders
        BY <1>3, <2>1, <2>2 DEF Promise!MarkPaid
      <3> QED BY <3>2 DEF Promise!Next
    <2>3. CASE ~call[d].ok /\ op[d].kind = "delete"
      <3>1. op[d].row \in Products
        BY <1>1, <2>3, OpTypes DEF TypeOK
      <3>2. Promise!DeleteProduct(op[d].row)
        BY <1>4, <2>1, <2>3 DEF Commit, Promise!DeleteProduct, Wanted, IsPayment
      <3> QED BY <3>1, <3>2 DEF Promise!Next
    <2>4. CASE ~call[d].ok /\ op[d].kind # "delete"
      <3>1. deleted' = deleted
        BY <2>4 DEF Commit
      <3> QED BY <1>4, <2>1, <2>4, <3>1 DEF Promise!vars
    <2> QED BY <2>2, <2>3, <2>4
  <1> QED BY <1>5, <1>6

(* However many payments and deletions run at once, lose a deadlock and start
   again: each takes effect in one step of the fence, once, or not at all. *)
THEOREM StockKeepsFence == Spec => KeepsFence
  <1>1. Init => Promise!Init
    BY DEF Init, Promise!Init
  <1>2. Inv /\ [Next]_vars => [Promise!Next]_(Promise!vars)
    <2> SUFFICES ASSUME Inv, [Next]_vars PROVE Promise!Next \/ UNCHANGED Promise!vars
      OBVIOUS
    <2>1. ASSUME NEW c \in Calls, Commit(c) PROVE Promise!Next \/ UNCHANGED Promise!vars
      BY <2>1, CommitKeepsFence
    <2>2. ASSUME UNCHANGED tables PROVE UNCHANGED Promise!vars
      BY <2>2 DEF tables, Promise!vars
    <2>3. ASSUME NEW c \in Calls, Progress(c) \/ Fail(c), ~Commit(c) PROVE UNCHANGED tables
      BY <2>3 DEF Progress, Open, Connect, Claim, LockOrder, LockVariant, Decide, LoseDeadlock, Fail
    <2>4. CASE UNCHANGED vars
      BY <2>2, <2>4 DEF vars
    <2>5. CASE Next
      BY <2>1, <2>2, <2>3, <2>4, <2>5 DEF Next, AllEnded
    <2> QED BY <2>4, <2>5
  <1> QED BY <1>1, <1>2, StockInvariant, PTL DEF Spec, KeepsFence, Promise!Spec

-----------------------------------------------------------------------------
(* Whoever has a row or a connection that a call of a circle waits for is
   further on than the call that waits; of those that wait for Variants, the
   one that waits for the last cannot be waiting. *)
LEMMA NobodyInACircle ==
  ASSUME Inv, NEW S, S \subseteq {c \in Calls : op[c].kind # "other"},
         \A c \in S : WaitsFor(c, S)
  PROVE  S = {}
  <1>1. \A c \in S : c \in Calls /\ op[c].kind # "other" /\ Holds(c) /\ Has(c)
    BY DEF Inv
  <1>2. \A c \in S : /\ call[c].pc \in {"connect", "claim", "order", "variants"}
                     /\ call[c].pc # "connect" => \E x \in Awaits(c) : held[x] \in S \ {c}
    BY DEF WaitsFor, Awaits
  <1>3. ASSUME NEW c \in S, call[c].pc = "variants"
        PROVE  /\ NextVariant(c) \in Unlocked(c) /\ NextVariant(c) \in Variants
               /\ \E e \in S : call[e].pc = "variants" /\ NextVariant(c) < NextVariant(e)
    <2>1. Unlocked(c) # {} /\ held[NextVariant(c)] \in S
      BY <1>2, <1>3 DEF Awaits
    <2>2. NextVariant(c) \in Unlocked(c) /\ NextVariant(c) \in Variants
      BY <1>1, <2>1, UnlockedVariants DEF NextVariant
    <2>3. PICK e \in S : held[NextVariant(c)] = e
      BY <2>1
    <2>4. call[e].pc = "variants"
      BY <1>1, <1>2, <2>2, <2>3 DEF Holds, Locking
    <2>5. NextVariant(e) \in Unlocked(e)
      BY <1>1, <1>2, <2>4, UnlockedVariants DEF NextVariant, Awaits
    <2>6. NextVariant(c) < NextVariant(e)
      BY <1>1, <2>2, <2>3, <2>4, <2>5 DEF Has
    <2> QED BY <2>2, <2>4, <2>6
  <1>4. \A c \in S : call[c].pc # "variants"
    <2> SUFFICES ASSUME NEW c \in S, call[c].pc = "variants" PROVE FALSE
      OBVIOUS
    <2> DEFINE T == {n \in Nat : \E e \in S : call[e].pc = "variants" /\ n = VariantCount - NextVariant(e)}
    <2>1. \A e \in S : call[e].pc = "variants" =>
            NextVariant(e) \in Nat /\ VariantCount - NextVariant(e) \in T
      <3> SUFFICES ASSUME NEW e \in S, call[e].pc = "variants"
                   PROVE  NextVariant(e) \in Nat /\ VariantCount - NextVariant(e) \in Nat
        OBVIOUS
      <3>1. NextVariant(e) \in 1..VariantCount
        BY <1>3 DEF Variants
      <3> QED BY <3>1, StockAssumption
    <2>2. T \subseteq Nat /\ T # {}
      BY <2>1
    <2>3. PICK n \in T : \A m \in T : n <= m
      BY <2>2, LeastNumber
    <2>4. PICK e \in S : call[e].pc = "variants" /\ n = VariantCount - NextVariant(e)
      BY <2>3
    <2>5. PICK f \in S : call[f].pc = "variants" /\ NextVariant(e) < NextVariant(f)
      BY <1>3, <2>4
    <2> HIDE DEF T
    <2>6. n <= VariantCount - NextVariant(f)
      BY <2>1, <2>3, <2>5
    <2>7. NextVariant(e) \in Nat /\ NextVariant(f) \in Nat /\ VariantCount \in Nat
      BY <2>1, <2>4, <2>5, StockAssumption
    <2> QED BY <2>4, <2>5, <2>6, <2>7
  <1>5. \A c \in S : call[c].pc # "order"
    <2> SUFFICES ASSUME NEW c \in S, call[c].pc = "order" PROVE FALSE
      OBVIOUS
    <2>1. OrderOfOp(c) \in Orders
      BY <1>1, OpTypes DEF Holds, Inv, TypeOK
    <2>2. held[OrderOfOp(c)] \in S
      BY <1>2 DEF Awaits
    <2> QED BY <1>1, <1>2, <1>4, <2>1, <2>2 DEF Holds, Locking
  <1>6. \A c \in S : call[c].pc # "claim"
    <2> SUFFICES ASSUME NEW c \in S, call[c].pc = "claim" PROVE FALSE
      OBVIOUS
    <2>1. op[c].row \in PaymentIntents
      BY <1>1, OpTypes DEF Holds, Inv, TypeOK
    <2>2. held[op[c].row] \in S
      BY <1>2 DEF Awaits
    <2> QED BY <1>1, <1>2, <1>4, <1>5, <2>1, <2>2 DEF Holds, Locking
  <1>7. \A c \in S : call[c].pc = "connect"
    BY <1>2, <1>4, <1>5, <1>6
  <1>8. ASSUME NEW c \in S PROVE FALSE
    <2>1. \A s \in Slots : held[s] \in S
      BY <1>7 DEF WaitsFor, Awaits
    <2>2. PICK s \in Slots : TRUE
      BY StockAssumption
    <2> QED BY <1>1, <1>7, <2>1, <2>2 DEF Holds
  <1> QED BY <1>8

(* The transactions of the code never wait for each other in a circle, for
   rows or for connections, however many calls, rows and connections. *)
THEOREM NoCircleEver == Spec => []NoCircle
  <1>1. Inv => NoCircle
    BY NobodyInACircle DEF NoCircle
  <1> QED BY <1>1, StockInvariant, PTL
=============================================================================
