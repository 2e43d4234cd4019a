---------------------------- MODULE MCDiscounts ----------------------------
(* Two redemptions at once of two discounts for three Orders, and the quotes of
   two discounts of any kind.  Amounts are counted in half cents and percents
   in hundredths.                                                          *)
EXTENDS Discounts, TLC

CONSTANTS p, q

MCCent == 2
MCUnit == 100

(* Math.floor(left * percent / 100 + 0.5) in doubles, for the percents below
   and every amount up to 1150 cents: 375 * 9.2 / 100 is 34.49999999999999
   and 875 * 9.2 / 100 is 80.49999999999999, both half a cent in full; all
   the others are exact.                                                    *)
MCSlip == [pair \in {<<750, 920>>, <<1750, 920>>} |-> IF pair[1] = 750 THEN 34 ELSE 80]

InCents(n) == n * MCCent
MCOffer(reward, limit) == [reward |-> reward, usageLimit |-> limit]

OffAll(percent) == [kind |-> "order_percent", percent |-> percent]
OffOrder(amount) == [kind |-> "order_fixed", amount |-> amount]

MCLimited == {MCOffer(OffAll(920), limit) : limit \in {1, 2, NoLimit, Garbage}}

MCOffers ==
  MCLimited \cup {MCOffer(reward, NoLimit) : reward \in
     {OffAll(percent) : percent \in {920, 1250, 10000, 12000, -500, Garbage}}
     \cup {OffOrder(amount) : amount \in {InCents(500), InCents(-20), Garbage}}
     \cup {[kind |-> "line_percent", percent |-> 3333, products |-> {p}],
           [kind |-> "line_percent", percent |-> Garbage, products |-> AnyProduct],
           [kind |-> "line_fixed", amount |-> InCents(30), products |-> AnyProduct],
           [kind |-> "line_fixed", amount |-> Garbage, products |-> {q}],
           [kind |-> "free_shipping"],
           [kind |-> "free_item", product |-> q]}}

MCLine(product, unit, quantity) ==
  [product |-> product, unit |-> InCents(unit), quantity |-> quantity]

MCCart(lines, shipping) == [lines |-> lines, shipping |-> InCents(shipping)]

MCCarts ==
  {MCCart(<<>>, 1500), MCCart(<<MCLine(p, 99, 1)>>, 0),
   MCCart(<<MCLine(q, 15, 1)>>, 700), MCCart(<<MCLine(p, 125, 3)>>, 700),
   MCCart(<<MCLine(p, 45, 3), MCLine(q, 1000, 1)>>, 1500)}

(* Garbage, nothing, less than nothing, 99 cents, 362 and a half. *)
MCPrices == {Garbage, 0, InCents(-5), InCents(99), InCents(362) + 1}

(* No redemption looks at a reward: those of one reward stand for all. *)
MCLimitedRedeemed ==
  (\E c \in Calls : calls[c].pc # "idle") =>
    \A d \in Created : discounts[d].reward = OffAll(920)

MCSymmetry == Permutations(Calls) \cup Permutations(Orders)
=============================================================================
