-------------------------- MODULE DiscountEngine --------------------------
(* applyDiscounts of packages/db/src/discounts.ts, the pure function that
   takes discount rewards off a cart.  Amounts are counted in parts of a cent
   and percents in parts of a percent, so that a fractional percent of the
   form and the unrounded price of the preview are integers here too.  Either
   may be negative, for no form refuses it.  What is no number is NaN to the
   engine, and Null once it has been stored as JSON.
     cart    [lines : a sequence of [product, quantity, unit], shipping]
     reward  [kind, percent] | [kind, amount] | [kind], with products on the
             line kinds: the products it is for, AnyProduct for all

   Sums and differences of doubles are exact for the amounts of a Store, far
   below 2^53 parts.  A share of an amount is not: its double may lie on the
   other side of a half, and Slip has the cents it is then rounded to.     *)
EXTENDS Integers, Sequences, SequencesExt, FiniteSetsExt

CONSTANTS
  Cent,        \* parts of a cent
  Unit,        \* parts of a percent: 100 of them with the form's step of 0.01
  Slip,        \* from some pairs of an amount and a percent, to whole cents
  NaN,
  Null,
  AnyProduct

ASSUME EngineAssumption ==
  /\ Cent \in Nat \ {0} /\ Unit \in Nat \ {0}
  /\ \A pair \in DOMAIN Slip : Slip[pair] \in Int
  /\ NaN \notin Int /\ Null \notin Int /\ NaN # Null

Halves == 50 * Unit * Cent     \* half a cent, in the parts of a product

(* What a bug could do: add no half. *)
Floored(left, percent) == (left * percent) \div (2 * Halves)

HalfUp(left, percent) == (left * percent + Halves) \div (2 * Halves)

(* No number of cents is nearer to the exact share. *)
Nearest(left, percent, cents) ==
  LET miss == 2 * Halves * cents - left * percent
  IN  -Halves <= miss /\ miss <= Halves

(* Only a share that ends in half a cent slips, and to the cent on the other
   side: so it is for hundredths of a percent of less than 2^38 cents, whose
   other shares are farther from a half than their doubles are off.         *)
ASSUME SlipAssumption ==
  \A pair \in DOMAIN Slip :
    /\ pair \in Int \X Int
    /\ Nearest(pair[1], pair[2], Slip[pair])

(* Arithmetic in JavaScript: NaN makes NaN, and null counts as 0. *)
Plus(a, b) == IF NaN \in {a, b} THEN NaN ELSE a + b
Minus(a, b) == IF NaN \in {a, b} THEN NaN ELSE a - b
Number(value) == IF value = Null THEN 0 ELSE value

LineTotal(line) == IF line.unit = NaN THEN NaN ELSE line.unit * line.quantity

(* Math.floor(cents + 0.5) of left * percent / 100, as the double has it. *)
Cents(left, percent) ==
  LET pair == <<left, percent>> IN
  IF pair \in DOMAIN Slip THEN Slip[pair] ELSE HalfUp(left, percent)

RoundHalfUp(left, percent) ==
  IF NaN \in {left, percent} THEN NaN ELSE Cent * Cents(left, percent)

(* Math.max(0, Math.min(amount, most)). *)
Clamp(amount, most) ==
  IF NaN \in {amount, most} THEN NaN ELSE Max({0, Min({amount, most})})

(* A percent reward takes its share of what earlier rewards left. *)
TakenBy(reward, left) ==
  IF reward.kind \in {"line_percent", "order_percent"}
  THEN RoundHalfUp(left, Number(reward.percent)) ELSE Number(reward.amount)

Raise(given, total, reward) ==
  Clamp(Plus(given, TakenBy(reward, Minus(total, given))), total)

OfKinds(rewards, kinds) ==
  FoldLeft(LAMBDA found, r : IF r.kind \in kinds THEN Append(found, r) ELSE found,
           <<>>, rewards)

OfKind(rewards, kind) == OfKinds(rewards, {kind})

(* What a bug could do: take the rewards as they are listed. *)
AsListed(rewards, percent, fixed) == OfKinds(rewards, {percent, fixed})

PercentFirst(rewards, percent, fixed) ==
  OfKind(rewards, percent) \o OfKind(rewards, fixed)

ForLine(reward, line) ==
  reward.products = AnyProduct \/ line.product \in reward.products

LineDiscount(line, rewards) ==
  FoldLeft(LAMBDA given, r : IF ForLine(r, line)
                             THEN Raise(given, LineTotal(line), r) ELSE given,
           0, PercentFirst(rewards, "line_percent", "line_fixed"))

OrderDiscount(subtotal, rewards) ==
  FoldLeft(LAMBDA given, r : Raise(given, subtotal, r),
           0, PercentFirst(rewards, "order_percent", "order_fixed"))

Shipping(cart, rewards) ==
  IF OfKind(rewards, "free_shipping") = <<>> THEN cart.shipping ELSE 0

SumOf(amounts) == FoldLeft(LAMBDA sum, a : Plus(sum, a), 0, amounts)

ApplyDiscounts(cart, rewards) ==
  LET totals   == [i \in DOMAIN cart.lines |-> LineTotal(cart.lines[i])]
      lines    == [i \in DOMAIN cart.lines |-> LineDiscount(cart.lines[i], rewards)]
      subtotal == SumOf([i \in DOMAIN totals |-> Minus(totals[i], lines[i])])
      order    == OrderDiscount(subtotal, rewards)
      shipping == Shipping(cart, rewards)
  IN [lineDiscounts |-> lines,
      orderDiscount |-> order,
      shipping      |-> shipping,
      freeItems     |-> OfKind(rewards, "free_item"),
      totalDiscount |-> Plus(Plus(SumOf(lines), order), cart.shipping - shipping),
      finalTotal    |-> Plus(Minus(subtotal, order), shipping)]
=============================================================================
