----------------------------- MODULE StockLocks -----------------------------
(***************************************************************************)
(* The transactions that lock Variants, statement by statement: the        *)
(* payment transactions (recordStripePayment, markOrderPaid, their         *)
(* takeStock) and deleteProduct, each on a connection of the shared pool,  *)
(* with Postgres' row locks and deadlock detection and the payments' new   *)
(* attempts after a lost deadlock (withDeadlockRetry).                     *)
(*                                                                         *)
(* A call waits for a connection, then for one row after the other; what   *)
(* it writes is seen when it commits, and held by it until then.  An       *)
(* "other" call is any transaction the code does not have: it locks the    *)
(* Variants in the opposite order.  A "nested" one opens a client inside a *)
(* client's callback.                                                      *)
(*                                                                         *)
(* What a payment says besides its Order (amount, Currency, an Order of    *)
(* another Store) is in module Webhook, which takes the transaction as one *)
(* step.                                                                   *)
(***************************************************************************)
EXTENDS Naturals, FiniteSetsExt

CONSTANTS
  Orders, PaymentIntents, Products,
  VariantCount,      \* the Variants are 1..VariantCount, in id order
  ProductOf,         \* a Variant's Product
  OrderOf,           \* the Order a payment names
  Lines,             \* the quantity of each Variant in an Order
  InitialStock,
  Calls, NoCall,
  Ops,               \* what the calls may be
  Slots,             \* the pool's connections
  PaymentAttempts    \* PAYMENT_ATTEMPTS

Variants == 1..VariantCount
Rows     == PaymentIntents \cup Orders \cup Variants
PaymentOps == [kind : {"payment"}, row : PaymentIntents]
MarkOps    == [kind : {"markPaid"}, row : Orders]
DeleteOps  == [kind : {"delete"}, row : Products]
OtherOps   == {[kind |-> "nested", row |-> NoCall], [kind |-> "other", row |-> NoCall]}

ASSUME StockAssumption ==
  /\ VariantCount \in Nat /\ PaymentAttempts \in Nat \ {0}
  /\ ProductOf \in [Variants -> Products]
  /\ OrderOf \in [PaymentIntents -> Orders]
  /\ Lines \in [Orders -> [Variants -> Nat]] /\ InitialStock \in [Variants -> Nat]
  /\ Ops \subseteq PaymentOps \cup MarkOps \cup DeleteOps \cup OtherOps
  /\ NoCall \notin Calls /\ Slots # {}
  /\ PaymentIntents \cap Orders = {} /\ (PaymentIntents \cup Orders) \cap Variants = {}
  /\ Slots \cap Rows = {}

VARIABLES
  paymentStatus, inventory, deleted, payments,   \* the tables, as committed
  held,       \* who has a row's lock, or a connection
  op, call    \* what each call is, and where it stands

tables == <<paymentStatus, inventory, deleted, payments>>
vars   == <<tables, held, op, call>>

Steps == {"open", "connect", "claim", "order", "variants", "commit", "done", "failed"}
CallState == [pc : Steps, attempt : 1..PaymentAttempts, ok : BOOLEAN]

(* Above all: stock never goes below zero. *)
TypeOK ==
  /\ paymentStatus \in [Orders -> {"pending", "paid"}]
  /\ inventory \in [Variants -> Nat]
  /\ deleted \subseteq Variants
  /\ payments \in [PaymentIntents -> {"none", "paid", "refund_due"}]
  /\ held \in [Rows \cup Slots -> Calls \cup {NoCall}]
  /\ op \in [Calls -> Ops]
  /\ call \in [Calls -> CallState]

Init ==
  /\ paymentStatus = [o \in Orders |-> "pending"]
  /\ inventory = InitialStock
  /\ deleted = {}
  /\ payments = [p \in PaymentIntents |-> "none"]
  /\ held = [x \in Rows \cup Slots |-> NoCall]
  /\ op \in [Calls -> Ops]
  /\ call = [c \in Calls |-> [pc |-> "open", attempt |-> 1, ok |-> FALSE]]

-----------------------------------------------------------------------------
IsPayment(c)  == op[c].kind \in {"payment", "markPaid"}
OrderOfOp(c)  == IF op[c].kind = "payment" THEN OrderOf[op[c].row] ELSE op[c].row
Connected(c)  == \E s \in Slots : held[s] = c

Goto(c, pc) == call' = [call EXCEPT ![c].pc = pc]
Take(c, x)  == held[x] = NoCall /\ held' = [held EXCEPT ![x] = c]
(* COMMIT or ROLLBACK, and client.release(). *)
Release(c) == held' = [x \in Rows \cup Slots |-> IF held[x] = c THEN NoCall ELSE held[x]]
Fails(c)   == Goto(c, "failed") /\ Release(c)

(* Mutant: a client may be opened inside another one's callback. *)
NeverRefused(c) == FALSE
(* refuseNestedClient: the call chain is in a callback already. *)
Nested(c) == Connected(c)

(* A call of tenantClient. *)
Open(c) ==
  /\ call[c].pc = "open"
  /\ \/ Nested(c) /\ Fails(c)
     \/ ~Nested(c) /\ Goto(c, "connect") /\ UNCHANGED held
  /\ UNCHANGED <<tables, op>>

FirstStep(c) ==
  CASE op[c].kind = "payment"  -> "claim"
    [] op[c].kind = "markPaid" -> "order"
    [] op[c].kind = "nested"   -> "open"
    [] OTHER                   -> "variants"

(* A connection, and BEGIN. *)
Connect(c) ==
  /\ call[c].pc = "connect"
  /\ \E s \in Slots : Take(c, s)
  /\ Goto(c, FirstStep(c))
  /\ UNCHANGED <<tables, op>>

(* recordStripePayment inserts the Payment: the unique key is the row's lock.
   A payment that has its row is not judged again. *)
Claim(c) ==
  LET p == op[c].row IN
  /\ call[c].pc = "claim"
  /\ \/ payments[p] = "none" /\ Take(c, p) /\ Goto(c, "order")
     \/ /\ payments[p] # "none" /\ held[p] = NoCall
        /\ Goto(c, "commit") /\ UNCHANGED held
  /\ UNCHANGED <<tables, op>>

(* Mutant: the SELECT of the Order locks nothing. *)
ReadOrder(c) ==
  /\ call[c].pc = "order"
  /\ Goto(c, IF paymentStatus[OrderOfOp(c)] = "pending" THEN "variants" ELSE "commit")
  /\ UNCHANGED <<tables, held, op>>
(* SELECT payment_status ... FOR UPDATE. *)
LockOrder(c) ==
  /\ call[c].pc = "order"
  /\ Take(c, OrderOfOp(c))
  /\ Goto(c, IF paymentStatus[OrderOfOp(c)] = "pending" THEN "variants" ELSE "commit")
  /\ UNCHANGED <<tables, op>>

(* The Variants that the statement of a call locks. *)
Wanted(c) ==
  CASE IsPayment(c)           -> {v \in Variants : Lines[OrderOfOp(c)][v] > 0}
    [] op[c].kind = "delete"  -> {v \in Variants : ProductOf[v] = op[c].row}
    [] OTHER                  -> Variants

(* Those it has not locked yet; a row deleted while it waits is passed over. *)
Unlocked(c) == {v \in Wanted(c) \ deleted : held[v] # c}

(* Mutant: deleteProduct leaves the locking to the cascade. *)
InStorageOrder(c) == IF op[c].kind \in {"delete", "other"} THEN Max(Unlocked(c)) ELSE Min(Unlocked(c))
(* ORDER BY id. *)
NextVariant(c) == IF op[c].kind = "other" THEN Max(Unlocked(c)) ELSE Min(Unlocked(c))

LockVariant(c) ==
  /\ call[c].pc = "variants" /\ Unlocked(c) # {}
  /\ Take(c, NextVariant(c))
  /\ UNCHANGED <<tables, op, call>>

(* The Variants of an Order that are gone, or of which there is too little. *)
Lacking(o) == {v \in Variants :
  Lines[o][v] > 0 /\ (v \in deleted \/ inventory[v] < Lines[o][v])}

(* markOrderPaid throws if the first one that takeStock finds is gone. *)
Throws(c) ==
  LET lacking == Lacking(OrderOfOp(c)) IN
  op[c].kind = "markPaid" /\ lacking # {} /\ Min(lacking) \in deleted

(* Every row is locked: takeStock checks them all, then decrements each. *)
Decide(c) ==
  /\ call[c].pc = "variants" /\ Unlocked(c) = {}
  /\ \/ Throws(c) /\ Fails(c)
     \/ /\ ~Throws(c) /\ UNCHANGED held
        /\ call' = [call EXCEPT ![c].pc = "commit",
                                ![c].ok = IsPayment(c) /\ Lacking(OrderOfOp(c)) = {}]
  /\ UNCHANGED <<tables, op>>

Commit(c) ==
  /\ call[c].pc = "commit"
  /\ \/ /\ call[c].ok
        /\ inventory' = [v \in Variants |-> inventory[v] - Lines[OrderOfOp(c)][v]]
        /\ paymentStatus' = [paymentStatus EXCEPT ![OrderOfOp(c)] = "paid"]
     \/ ~call[c].ok /\ UNCHANGED <<inventory, paymentStatus>>
  /\ payments' = IF op[c].kind = "payment" /\ held[op[c].row] = c
                 THEN [payments EXCEPT ![op[c].row] = IF call[c].ok THEN "paid" ELSE "refund_due"]
                 ELSE payments
  /\ deleted' = IF op[c].kind = "delete" THEN deleted \cup Wanted(c) ELSE deleted
  /\ Goto(c, "done") /\ Release(c)
  /\ UNCHANGED op

(* The row a call's next statement needs. *)
Awaits(c) ==
  CASE call[c].pc = "claim"    -> {op[c].row}
    [] call[c].pc = "order"    -> {OrderOfOp(c)}
    [] call[c].pc = "variants" -> IF Unlocked(c) = {} THEN {} ELSE {NextVariant(c)}
    [] OTHER                   -> {}

(* A set of calls that wait only for each other's rows. *)
Deadlocked(S) == \A c \in S : \E x \in Awaits(c) : held[x] \in S \ {c}

Restart(c) == call' = [call EXCEPT ![c].attempt = @ + 1, ![c].pc = "open"] /\ Release(c)
MayRestart(c) == IsPayment(c) /\ call[c].attempt < PaymentAttempts

(* 40P01: Postgres aborts one of them; a payment starts from scratch. *)
LoseDeadlock(c) ==
  /\ \E S \in SUBSET Calls : c \in S /\ Deadlocked(S)
  /\ \/ MayRestart(c) /\ Restart(c)
     \/ ~MayRestart(c) /\ Fails(c)
  /\ UNCHANGED <<tables, op>>

(* Any other error, or a lost connection. *)
Fail(c) ==
  /\ Connected(c) /\ Fails(c)
  /\ UNCHANGED <<tables, op>>

Progress(c) ==
  Open(c) \/ Connect(c) \/ Claim(c) \/ LockOrder(c) \/ LockVariant(c) \/ Decide(c) \/ Commit(c)
  \/ LoseDeadlock(c)

Ended(c) == call[c].pc \in {"done", "failed"}
AllEnded == (\A c \in Calls : Ended(c)) /\ UNCHANGED vars

Next == AllEnded \/ \E c \in Calls : Progress(c) \/ Fail(c)
Spec == Init /\ [][Next]_vars
FairSpec == Spec /\ \A c \in Calls : WF_vars(Progress(c))

-----------------------------------------------------------------------------
(* However many payments and deletions run at once, whatever they wait for,
   lose and repeat: each takes effect in one step, once, or not at all. *)
Promise == INSTANCE Fence
KeepsFence == Promise!Spec

(* The transactions of the code never wait for each other in a circle, for
   rows or for connections: some call can go on without another's error. *)
WaitsFor(c, S) ==
  \/ \E x \in Awaits(c) : held[x] \in S \ {c}
  \/ call[c].pc = "connect" /\ \A s \in Slots : held[s] \in S
NoCircle ==
  \A S \in SUBSET {c \in Calls : op[c].kind # "other"} :
    S # {} => \E c \in S : ~WaitsFor(c, S)

(* Every call ends, done or with an error: nobody waits for a row or a
   connection forever, whatever the others lock, open or die of. *)
CallsEnd == \A c \in Calls : <>Ended(c)
=============================================================================
