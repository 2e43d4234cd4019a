------------------------------ MODULE Shopping ------------------------------
(***************************************************************************)
(* What a Customer may rely on when several requests (two tabs, a double   *)
(* click) change and check out one Cart: each request takes effect at one  *)
(* moment, on the Cart as it is at that moment, or not at all; and a       *)
(* request that says it found nothing ran while there was nothing.         *)
(* No row, lock or transaction here.  Module Cart implements it.           *)
(***************************************************************************)
EXTENDS Naturals

CONSTANTS Requests, Variants, Ops, MaxLine

VARIABLES
  lines,      \* the Cart: how many of each Variant
  orders,     \* the Orders made: by which request, with which lines
  gone,       \* the Variants that were deleted
  op,         \* what each request asks for
  status,     \* how far it is
  sawEmpty,   \* the requests that ran while the Cart was empty
  wasGone     \* the Variants that were gone when a request began

vars == <<lines, orders, gone, status, op, sawEmpty, wasGone>>

NoLines == [v \in Variants |-> 0]

(* A request that finds no Cart may take it for an empty one. *)
Watch ==
  sawEmpty' = IF lines' = NoLines
              THEN sawEmpty \cup {r \in Requests : status'[r] = "running"}
              ELSE sawEmpty

Ends(r, answer) ==
  /\ status[r] = "running"
  /\ status' = [status EXCEPT ![r] = answer]
  /\ UNCHANGED <<gone, op, wasGone>>

Begin(r) ==
  /\ status[r] = "new"
  /\ status' = [status EXCEPT ![r] = "running"]
  /\ wasGone' = [wasGone EXCEPT ![r] = gone]
  /\ UNCHANGED <<lines, orders, gone, op>>

Sets(r, v, n) ==
  /\ lines' = [lines EXCEPT ![v] = n]
  /\ Ends(r, "done")
  /\ UNCHANGED orders

Add(r) ==
  LET v == op[r].variant
      n == lines[v] + op[r].quantity IN
  op[r].kind = "add" /\ v \notin wasGone[r] /\ n <= MaxLine /\ Sets(r, v, n)

(* Setting a line that is not in the Cart leaves it out. *)
Set(r) ==
  LET v == op[r].variant IN
  /\ op[r].kind = "set"
  /\ op[r].quantity > 0 => v \notin wasGone[r]
  /\ Sets(r, v, IF lines[v] > 0 THEN op[r].quantity ELSE 0)

Remove(r) == op[r].kind = "remove" /\ Sets(r, op[r].variant, 0)

Replace(r) ==
  /\ op[r].kind \in {"save", "delete"}
  /\ lines' = IF op[r].kind = "save"
              THEN [NoLines EXCEPT ![op[r].variant] = op[r].quantity] ELSE NoLines
  /\ Ends(r, "done")
  /\ UNCHANGED orders

(* The Order has the Cart's lines, all of them, and the Cart is empty. *)
CheckOut(r) ==
  /\ op[r].kind = "checkout" /\ lines # NoLines
  /\ \A v \in Variants : lines[v] > 0 => v \notin wasGone[r]
  /\ orders' = orders \cup {[by |-> r, lines |-> lines]}
  /\ lines' = NoLines
  /\ Ends(r, "done")

Unavailable(r) ==
  /\ op[r].kind \in {"add", "set"} /\ op[r].variant \in gone
OverLimit(r) ==
  op[r].kind = "add" /\ lines[op[r].variant] + op[r].quantity > MaxLine
Uncheckable(r) ==
  op[r].kind = "checkout" /\
    (r \in sawEmpty \/ \E v \in Variants : lines[v] > 0 /\ v \in gone)

Refuse(r) ==
  /\ Unavailable(r) \/ OverLimit(r) \/ Uncheckable(r)
  /\ Ends(r, "refused")
  /\ UNCHANGED <<lines, orders>>

(* There was nothing to change, or only the Cart to open. *)
Ignore(r) ==
  /\ \/ op[r].kind \in {"set", "remove", "delete"} /\ r \in sawEmpty
     \/ op[r].kind = "open"
  /\ Ends(r, "done")
  /\ UNCHANGED <<lines, orders>>

Fail(r) == Ends(r, "failed") /\ UNCHANGED <<lines, orders>>

DeleteProduct(v) ==
  /\ gone' = gone \cup {v}
  /\ UNCHANGED <<lines, orders, status, op, wasGone>>

Step ==
  \/ \E r \in Requests :
       \/ Begin(r) \/ Add(r) \/ Set(r) \/ Remove(r) \/ Replace(r) \/ CheckOut(r)
       \/ Refuse(r) \/ Ignore(r) \/ Fail(r)
  \/ \E v \in Variants : DeleteProduct(v)

Next == Step /\ Watch

Init ==
  /\ lines = NoLines /\ orders = {} /\ gone = {}
  /\ status = [r \in Requests |-> "new"]
  /\ op \in [Requests -> Ops]
  /\ sawEmpty = {}
  /\ wasGone = [r \in Requests |-> {}]

Spec == Init /\ [][Next]_vars
=============================================================================
