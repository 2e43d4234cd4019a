-------------------------------- MODULE Cart --------------------------------
(***************************************************************************)
(* One Customer's Cart in one Store: requests that change it               *)
(* (changeDbCart), replace or delete it, and check it out (checkout), all  *)
(* at once.  A request is one transaction on one connection; each await is *)
(* a boundary between two actions.                                         *)
(*                                                                         *)
(* The Cart is a row that an add creates and a checkout deletes.  Its lock *)
(* is what orders the requests, and it is taken by id: a request that      *)
(* waited for a row that a checkout deleted meanwhile has no Cart, even if *)
(* a new one exists by then.  An INSERT that has not committed is invisible*)
(* to SELECT ... FOR UPDATE, and waited for by INSERT ... ON CONFLICT.     *)
(* What a transaction writes is visible when it commits, so its writes and *)
(* its COMMIT are one action.                                              *)
(***************************************************************************)
EXTENDS Naturals

CONSTANTS
  Requests,
  Variants,    \* Variants of published Products of the Store
  Ops,         \* what the requests ask for
  MaxLine,     \* MAX_LINE_QUANTITY
  Nobody       \* no request

(* What parseCartChange lets through, and the other operations. *)
Changes == {"add", "set", "remove"}
Op == [kind : {"add", "save"}, variant : Variants, quantity : 1..MaxLine]
 \cup [kind : {"set"}, variant : Variants, quantity : 0..MaxLine]
 \cup [kind : {"remove", "open", "delete", "checkout"}, variant : Variants, quantity : {0}]

ASSUME CartAssumption ==
  Ops \subseteq Op /\ MaxLine \in Nat \ {0} /\ Nobody \notin Requests

VARIABLES
  cart,        \* the id of the committed Cart row, or NoCart
  items,       \* cart_items: how many of each Variant the Cart holds
  made,        \* the number of Cart rows made so far
  holder,      \* who has locked the row, or has inserted it and not committed
  orders,      \* the Orders made
  gone,        \* the Variants that were deleted
  op,          \* what each request asks for
  req,         \* the requests
  sawEmpty,    \* history: the requests that ran while the Cart was empty
  wasGone      \* history: the Variants gone when a request began

vars == <<cart, items, made, holder, orders, gone, op, req, sawEmpty, wasGone>>

NoCart  == 0
NoLines == [v \in Variants |-> 0]
Lines   == [Variants -> 0..MaxLine]
Ended   == {"done", "refused", "failed"}
Steps   == {"new", "check", "find", "wait", "upsert", "read", "price", "write"} \cup Ended

(* seen is the Cart row that lockCart's SELECT waits for, lines what was read
   and, after a change, is to be written, and answer what the request will
   answer when it commits. *)
ReqState == [pc : Steps, seen : Nat, lines : Lines, answer : {"done", "refused"}]
NewReq   == [pc |-> "new", seen |-> NoCart, lines |-> NoLines, answer |-> "done"]

TypeOK ==
  /\ made \in Nat
  /\ cart \in 0..made
  /\ items \in Lines
  /\ holder \in Requests \cup {Nobody}
  /\ orders \subseteq [cart : 1..made, by : Requests, lines : Lines]
  /\ gone \subseteq Variants
  /\ op \in [Requests -> Ops]
  /\ req \in [Requests -> ReqState]
  /\ sawEmpty \subseteq Requests
  /\ wasGone \in [Requests -> SUBSET Variants]

Init ==
  /\ cart = NoCart /\ items = NoLines /\ made = 0 /\ holder = Nobody
  /\ orders = {} /\ gone = {}
  /\ op \in [Requests -> Ops]
  /\ req = [r \in Requests |-> NewReq]
  /\ sawEmpty = {}
  /\ wasGone = [r \in Requests |-> {}]

Running(r) == req[r].pc \notin {"new"} \cup Ended

Watch ==
  sawEmpty' = IF items' = NoLines THEN sawEmpty \cup {r \in Requests : Running(r)'}
              ELSE sawEmpty

-----------------------------------------------------------------------------
table == <<cart, items, made, orders>>

Goto(r, pc)    == req' = [req EXCEPT ![r].pc = pc]
(* Mutant: the connection keeps its transaction. *)
NotReleased(r) == UNCHANGED holder
Release(r)     == holder' = IF holder = r THEN Nobody ELSE holder
Rollback(r, answer) == Goto(r, answer) /\ Release(r)

Begin(r) ==
  /\ req[r].pc = "new"
  /\ Goto(r, "check")
  /\ wasGone' = [wasGone EXCEPT ![r] = gone]
  /\ UNCHANGED <<table, holder, gone, op>>

NeedsAvailableVariant(o) == o.kind = "add" \/ (o.kind = "set" /\ o.quantity > 0)

(* isAvailableVariant, before the Cart is locked. *)
Check(r) ==
  /\ req[r].pc = "check"
  /\ IF NeedsAvailableVariant(op[r]) /\ op[r].variant \in gone
     THEN Goto(r, "refused") ELSE Goto(r, "find")
  /\ UNCHANGED <<table, holder, gone, op, wasGone>>

(* There is no Cart to lock: an add makes one, a set or remove does nothing. *)
Missing(r) ==
  CASE op[r].kind \in {"add", "save", "open"} -> Goto(r, "upsert")
    [] op[r].kind = "checkout"        -> Goto(r, "refused")
    [] OTHER                          -> Goto(r, "done")

(* lockCart's SELECT finds the row, and waits while another request has it. *)
Find(r) ==
  /\ req[r].pc = "find"
  /\ IF cart = NoCart THEN Missing(r)
     ELSE req' = [req EXCEPT ![r].pc = "wait", ![r].seen = cart]
  /\ UNCHANGED <<table, holder, gone, op, wasGone>>

(* Mutant: SELECT without FOR UPDATE. *)
NotWaited == TRUE
Unlocked  == holder = Nobody

Lock(r) ==
  /\ req[r].pc = "wait" /\ Unlocked
  /\ IF cart = req[r].seen THEN Goto(r, "read") /\ holder' = r
     ELSE Missing(r) /\ UNCHANGED holder
  /\ UNCHANGED <<table, gone, op, wasGone>>

(* lockOrCreateCart's INSERT ... ON CONFLICT DO UPDATE: the row is locked, or
   inserted and not committed. *)
Upsert(r) ==
  /\ req[r].pc = "upsert" /\ Unlocked
  /\ Goto(r, "read") /\ holder' = r
  /\ UNCHANGED <<table, gone, op, wasGone>>

(* applyCartChange *)
Applicable(o, n) == o.kind = "add" => n + o.quantity <= MaxLine
Changed(o, n) ==
  CASE o.kind = "add" -> n + o.quantity
    [] o.kind = "set" /\ n > 0 -> o.quantity
    [] OTHER -> 0

(* readCartLines, and what the request makes of the lines. *)
Read(r) ==
  LET o == op[r]
      v == o.variant IN
  /\ req[r].pc = "read"
  /\ \/ /\ o.kind \in Changes /\ Applicable(o, items[v])
        /\ req' = [req EXCEPT ![r].pc = "write",
                              ![r].lines = [items EXCEPT ![v] = Changed(o, items[v])]]
     \/ /\ o.kind \in Changes /\ ~Applicable(o, items[v])
        /\ req' = [req EXCEPT ![r].pc = "write", ![r].lines = items,
                              ![r].answer = "refused"]
     \/ /\ o.kind = "save"
        /\ req' = [req EXCEPT ![r].pc = "write",
                              ![r].lines = [NoLines EXCEPT ![v] = o.quantity]]
     \/ /\ o.kind \in {"open", "delete"}
        /\ Goto(r, "write")
     \/ /\ o.kind = "checkout"
        /\ req' = [req EXCEPT ![r].pc = "price", ![r].lines = items]
  /\ UNCHANGED <<table, holder, gone, op, wasGone>>

(* Mutant: a line whose Variant is gone is let through. *)
SomeLines(ls) == ls # NoLines
(* priceCartForCheckout: one bad line refuses the whole Cart. *)
Priced(ls) == ls # NoLines /\ \A v \in Variants : ls[v] > 0 => v \notin gone

Price(r) ==
  /\ req[r].pc = "price"
  /\ \/ Priced(req[r].lines) /\ Goto(r, "write") /\ UNCHANGED holder
     \/ ~Priced(req[r].lines) /\ Rollback(r, "refused")
  /\ UNCHANGED <<table, gone, op, wasGone>>

(* Mutant: the Cart stays. *)
CartKept == UNCHANGED <<cart, items>>
CartConsumed == cart' = NoCart /\ items' = NoLines

(* The row there is, or the one this request has inserted. *)
KeepCart ==
  /\ made' = IF cart = NoCart THEN made + 1 ELSE made
  /\ cart' = IF cart = NoCart THEN made + 1 ELSE cart

(* The writes and the COMMIT: writeCartLine changes only the request's line. *)
Commit(r) ==
  LET o == op[r]
      v == o.variant IN
  /\ req[r].pc = "write"
  /\ \/ /\ o.kind \in Changes
        /\ items' = [items EXCEPT ![v] = req[r].lines[v]]
        /\ KeepCart /\ UNCHANGED orders
     \/ /\ o.kind = "save"
        /\ items' = req[r].lines
        /\ KeepCart /\ UNCHANGED orders
     \/ /\ o.kind = "open"
        /\ KeepCart /\ UNCHANGED <<items, orders>>
     \/ /\ o.kind = "checkout"
        /\ orders' = orders \cup {[cart |-> cart, by |-> r, lines |-> req[r].lines]}
        /\ CartConsumed /\ UNCHANGED made
     \/ /\ o.kind = "delete"
        /\ CartConsumed /\ UNCHANGED <<made, orders>>
  /\ Goto(r, req[r].answer) /\ Release(r)
  /\ UNCHANGED <<gone, op, wasGone>>

(* A statement fails or the process dies: the transaction rolls back. *)
Fail(r) ==
  /\ Running(r)
  /\ Rollback(r, "failed")
  /\ UNCHANGED <<table, gone, op, wasGone>>

(* deleteProduct: a Variant is gone; the Cart's lines stay. *)
DeleteProduct(v) ==
  /\ v \notin gone
  /\ gone' = gone \cup {v}
  /\ UNCHANGED <<table, holder, op, req, wasGone>>

Progress(r) ==
  Check(r) \/ Find(r) \/ Lock(r) \/ Upsert(r) \/ Read(r) \/ Price(r) \/ Commit(r)

Step ==
  \/ \E r \in Requests : Begin(r) \/ Progress(r) \/ Fail(r)
  \/ \E v \in Variants : DeleteProduct(v)

Next == Step /\ Watch

Spec == Init /\ [][Next]_vars

(* A request goes on when it can: its statements return. *)
Fairness == \A r \in Requests : WF_vars(Progress(r) /\ Watch)
FairSpec == Spec /\ Fairness

-----------------------------------------------------------------------------
(* Properties. *)

(* One Cart makes at most one Order, and never an empty one (checkout's
   comment, step 1). *)
OneOrderPerCart ==
  /\ \A x, y \in orders : x.cart = y.cart => x = y
  /\ \A x \in orders : x.lines # NoLines

(* What a request is about to write, it still has the lock for, and nobody
   has changed the Cart since it read it. *)
WritesWhatItRead ==
  \A r \in Requests : req[r].pc \in {"price", "write"} =>
    /\ holder = r
    /\ op[r].kind = "checkout" => cart # NoCart /\ req[r].lines = items
    /\ op[r].kind \in Changes => \A v \in Variants \ {op[r].variant} : req[r].lines[v] = items[v]

(* Every request ends, however many wait for the Cart. *)
RequestsEnd == \A r \in Requests : Running(r) ~> ~Running(r)

Status(r) == CASE req[r].pc = "new" -> "new"
               [] req[r].pc \in Ended -> req[r].pc
               [] OTHER -> "running"

S == INSTANCE Shopping WITH
       lines  <- items,
       orders <- {[by |-> x.by, lines |-> x.lines] : x \in orders},
       status <- [r \in Requests |-> Status(r)]

(* Requests take effect one at a time, on the Cart as it is at that moment:
   no change is lost to another tab, no line enters an Order without leaving
   the Cart. *)
AtomicCart == S!Spec
=============================================================================
