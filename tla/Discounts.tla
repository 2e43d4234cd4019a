----------------------------- MODULE Discounts -----------------------------
(* The discounts of one Store (packages/db/src/index.ts): created from the
   dashboard's form or by the library, and redeemed for Orders under a row
   lock.  A redemption is one transaction, step by step; its writes show when
   it commits.  Any step may fail, and a COMMIT may take effect although its
   answer is lost; the caller then calls again.                             *)
EXTENDS DiscountEngine, FiniteSets

CONSTANTS
  DiscountIds,  \* discounts the Store may come to have
  Orders,       \* the Orders they are redeemed for
  Calls,        \* calls of redeemDiscount that may run at once
  Offers,       \* what a creation can say: [reward, usageLimit]
  Products,     \* the Products of the Store
  Carts,        \* carts the rewards are applied to
  Prices,       \* what a preview can say its sample costs
  NoLimit,      \* no usageLimit in the conditions
  Garbage,      \* a text that is no number
  Absent

(* DiscountReward, with its numbers from a set. *)
RewardsOf(numbers) ==
  LET Choice == {AnyProduct} \cup SUBSET Products IN
       [kind : {"order_percent"}, percent : numbers]
  \cup [kind : {"order_fixed"}, amount : numbers]
  \cup [kind : {"line_percent"}, percent : numbers, products : Choice]
  \cup [kind : {"line_fixed"}, amount : numbers, products : Choice]
  \cup [kind : {"free_shipping"}]
  \cup [kind : {"free_item"}, product : Products]

(* What a discount's row holds, and what the texts of a form can say. *)
Reward == RewardsOf(Int \cup {Null})
Written == RewardsOf(Int \cup {Garbage})

(* A DiscountCart, whose quantities are whole numbers from 1
   (isValidLineQuantity) and whose prices are whole cents, none below 0
   (parseMoney).                                                            *)
Line == [product : Products, unit : Nat, quantity : Nat \ {0}]
Cart == [lines : Seq(Line), shipping : Nat]
WholeCents(amount) == \E cents \in 0..amount : amount = Cent * cents

(* parseFloat of a reward's texts, value for what is no number. *)
Parsed(reward, value) ==
  CASE reward.kind \in {"order_percent", "line_percent"} /\ reward.percent = Garbage ->
         [reward EXCEPT !.percent = value]
    [] reward.kind \in {"order_fixed", "line_fixed"} /\ reward.amount = Garbage ->
         [reward EXCEPT !.amount = value]
    [] OTHER -> reward

(* JSON.stringify makes null of NaN. *)
Stored(reward) == Parsed(reward, Null)

Rewards == {Stored(offer.reward) : offer \in Offers}
Row == [reward : Rewards, usageLimit : Nat \cup {NoLimit}, usageCount : Nat]
Answers == {"ok", "already_redeemed", "usage_limit_reached", "error"}

ASSUME DiscountsAssumption ==
  /\ Carts \subseteq Cart
  /\ \A cart \in Carts : \A i \in DOMAIN cart.lines : WholeCents(cart.lines[i].unit)
  /\ Prices \subseteq Int \cup {Garbage}
  /\ \A offer \in Offers : /\ offer.reward \in Written
                          /\ offer.usageLimit \in Nat \cup {NoLimit, Garbage}
  /\ NoLimit \notin Nat /\ Garbage \notin Int
  /\ Absent \notin DiscountIds \cup Orders \cup Answers \cup Row

VARIABLES
  discounts,    \* the discounts table: [reward, usageLimit, usageCount]
  redemptions,  \* the discount_redemptions table
  calls         \* one record per call, with what it read and answered

discountsVars == <<discounts, redemptions, calls>>

Holding == {"locked", "counted", "recorded"}
Call == [pc : {"idle", "waiting", "done"} \cup Holding,
         discount : DiscountIds \cup {Absent}, order : Orders \cup {Absent},
         usageCount : Nat, answer : Answers \cup {Absent}]

NoCall == [pc |-> "idle", discount |-> Absent, order |-> Absent,
           usageCount |-> 0, answer |-> Absent]

DiscountsInit ==
  /\ discounts = [d \in DiscountIds |-> Absent]
  /\ redemptions = {}
  /\ calls = [c \in Calls |-> NoCall]

(* createDiscountAction: parseInt of something that is no number is NaN,
   stored as null, and usage_count >= null compares with 0.                 *)
ParseLimit(text) == IF text = Garbage THEN 0 ELSE text

CreateDiscount(d, offer) ==
  /\ discounts[d] = Absent
  /\ discounts' = [discounts EXCEPT ![d] =
       [reward |-> Stored(offer.reward), usageLimit |-> ParseLimit(offer.usageLimit),
        usageCount |-> 0]]
  /\ UNCHANGED <<redemptions, calls>>

At(c, pc) == calls[c].pc = pc
Set(c, call) == calls' = [calls EXCEPT ![c] = call]
Goto(c, pc) == Set(c, [calls[c] EXCEPT !.pc = pc])
Answer(c, answer) == Set(c, [calls[c] EXCEPT !.pc = "done", !.answer = answer])

Redeem(c, d, o) ==
  /\ calls[c].pc \in {"idle", "done"}
  /\ Set(c, [NoCall EXCEPT !.pc = "waiting", !.discount = d, !.order = o])
  /\ UNCHANGED <<discounts, redemptions>>

Unawaited(d) == TRUE  \* what a bug could do: SELECT without FOR UPDATE
Unlocked(d) == \A c \in Calls : calls[c].pc \in Holding => calls[c].discount # d

(* SELECT ... FOR UPDATE reads the row as the last holder left it. *)
Lock(c) ==
  LET d == calls[c].discount IN
  /\ At(c, "waiting") /\ Unlocked(d)
  /\ \/ discounts[d] = Absent /\ Answer(c, "error")
     \/ /\ discounts[d] # Absent
        /\ Set(c, [calls[c] EXCEPT !.pc = "locked",
                                   !.usageCount = discounts[d].usageCount])
  /\ UNCHANGED <<discounts, redemptions>>

Redeemed(c) == <<calls[c].discount, calls[c].order>> \in redemptions
UsedUp(c) ==
  LET limit == discounts[calls[c].discount].usageLimit IN
  limit # NoLimit /\ calls[c].usageCount >= limit

(* What a bug could do: look at the limit first. *)
LimitFirst(c) ==
  IF UsedUp(c) THEN "usage_limit_reached"
  ELSE IF Redeemed(c) THEN "already_redeemed" ELSE Absent

Refusal(c) ==
  IF Redeemed(c) THEN "already_redeemed"
  ELSE IF UsedUp(c) THEN "usage_limit_reached" ELSE Absent

Count(c) ==
  /\ At(c, "locked")
  /\ IF Refusal(c) = Absent THEN Goto(c, "counted") ELSE Answer(c, Refusal(c))
  /\ UNCHANGED <<discounts, redemptions>>

Record(c) ==
  /\ At(c, "counted") /\ Goto(c, "recorded")
  /\ UNCHANGED <<discounts, redemptions>>

(* The count is raised in the database, not from the value read. *)
Commit(c) ==
  LET d == calls[c].discount IN
  /\ At(c, "recorded")
  /\ discounts' = [discounts EXCEPT ![d].usageCount = @ + 1]
  /\ redemptions' = redemptions \cup {<<d, calls[c].order>>}
  /\ \E answer \in {"ok", "error"} : Answer(c, answer)

RedeemFails(c) ==
  /\ calls[c].pc \in {"waiting"} \cup Holding
  /\ Answer(c, "error")
  /\ UNCHANGED <<discounts, redemptions>>

DiscountsNext ==
  \/ \E d \in DiscountIds, offer \in Offers : CreateDiscount(d, offer)
  \/ \E c \in Calls, d \in DiscountIds, o \in Orders : Redeem(c, d, o)
  \/ \E c \in Calls : Lock(c) \/ Count(c) \/ Record(c) \/ Commit(c) \/ RedeemFails(c)

DiscountsSpec == DiscountsInit /\ [][DiscountsNext]_discountsVars
-----------------------------------------------------------------------------
(* Tables and calls have their types. *)
DiscountsTypeOK ==
  /\ discounts \in [DiscountIds -> Row \cup {Absent}]
  /\ redemptions \subseteq DiscountIds \X Orders
  /\ calls \in [Calls -> Call]

RedemptionsOf(d) == {r \in redemptions : r[1] = d}

(* However many Orders redeem a discount at once, its usage_count is the
   number of Orders it was redeemed for, and never above its usage limit: the
   last use is given once.                                                  *)
UsedOncePerOrder ==
  \A d \in DiscountIds :
    IF discounts[d] = Absent THEN RedemptionsOf(d) = {}
    ELSE /\ discounts[d].usageCount = Cardinality(RedemptionsOf(d))
         /\ \/ discounts[d].usageLimit = NoLimit
            \/ discounts[d].usageCount = 0
            \/ discounts[d].usageCount <= discounts[d].usageLimit

(* A caller can act on the answer, whatever else runs and however often it
   repeats a call whose answer was lost: "ok" and "already_redeemed" mean that
   the Order has the discount, "usage_limit_reached" that it has not and
   never will.                                                              *)
AnswersAreTrue ==
  \A c \in Calls : calls[c].pc = "done" =>
    /\ calls[c].answer \in {"ok", "already_redeemed"} => Redeemed(c)
    /\ calls[c].answer = "usage_limit_reached" => ~Redeemed(c) /\ UsedUp(c)

(* previewDiscountAction: a reward of the form on one sample.  It is parsed
   like the discount that would be created, but not stored.                 *)
FormKinds == {"order_percent", "order_fixed", "free_shipping"}

SampleCart(reward, price) ==
  [lines |-> <<[product |-> "sample", quantity |-> 1,
                unit |-> IF price = Garbage THEN NaN ELSE price]>>,
   shipping |-> IF reward.kind = "free_shipping" THEN 1500 * Cent ELSE 0]

Preview(reward, price) ==
  ApplyDiscounts(SampleCart(reward, price), <<Parsed(reward, NaN)>>)

Readable(reward, price) == price # Garbage /\ Parsed(reward, NaN) \in Reward

Totals(cart) == [i \in DOMAIN cart.lines |-> LineTotal(cart.lines[i])]
Bounded(amount, most) == amount \in 0..Max({0, most})

(* No line, Order or shipping amount is discounted below zero or raised, and
   what is paid and what is taken off add up to the cart's price.           *)
AddsUp(cart, quote) ==
  LET totals == Totals(cart) IN
  /\ \A i \in DOMAIN totals : Bounded(quote.lineDiscounts[i], totals[i])
  /\ Bounded(quote.orderDiscount, SumOf(totals) - SumOf(quote.lineDiscounts))
  /\ Bounded(quote.shipping, cart.shipping)
  /\ quote.finalTotal + quote.totalDiscount = SumOf(totals) + cart.shipping

Created == {d \in DiscountIds : discounts[d] # Absent}

(* Any two stored rewards on any cart make a quote that adds up to a number that
   is not negative, and rewards of different kinds come off in the engine's
   order whichever is listed first.                                         *)
StoredQuotesAddUp ==
  \A d, e \in Created, cart \in Carts :
    LET r == discounts[d].reward
        s == discounts[e].reward
        quote == ApplyDiscounts(cart, <<r, s>>)
    IN /\ AddsUp(cart, quote) /\ quote.finalTotal >= 0
       /\ r.kind # s.kind => quote = ApplyDiscounts(cart, <<s, r>>)

(* A preview adds up as well, and shows no total when the form has none. *)
PreviewsAddUp ==
  \A offer \in Offers, price \in Prices :
    LET quote == Preview(offer.reward, price)
    IN offer.reward.kind \in FormKinds =>
         \/ ~Readable(offer.reward, price) /\ quote.finalTotal = NaN
         \/ AddsUp(SampleCart(offer.reward, price), quote)

(* The stored percentages of an Order that are no more than all of it. *)
Percentages ==
  {r \in {discounts[d].reward : d \in Created} :
     r.kind = "order_percent" /\ r.percent \in 0..(100 * Unit)}

Subtotal(cart) == SumOf(Totals(cart))
PercentOff(cart, r) == ApplyDiscounts(cart, <<r>>).orderDiscount

(* A percentage, whole or fractional, takes off a whole number of cents, and no
   other is nearer to its exact share, although the share is a double.  It is
   not always rounded half-up, as discounts.ts:11 says: see Slip.           *)
SharesAreToTheCent ==
  \A r \in Percentages, cart \in Carts :
    LET off == PercentOff(cart, r) IN
    \E cents \in 0..off : /\ off = Cent * cents
                          /\ Nearest(Subtotal(cart), r.percent, cents)

(* Whatever numbers or garbage its forms were given, the Store's discounts make
   quotes that add up to the cent, and so do the previews of them.          *)
QuotesAddUp == StoredQuotesAddUp /\ PreviewsAddUp /\ SharesAreToTheCent
=============================================================================
