\* Two discounts of any kind, their quotes, and two redemptions at once.
SPECIFICATION DiscountsSpec
CONSTANTS
  p = p  q = q
  Cent <- MCCent
  Unit <- MCUnit
  Slip <- MCSlip
  NaN = NaN
  Null = Null
  DiscountIds = {d, e}
  Orders = {o1, o2, o3}
  Calls = {c1, c2}
  Offers <- MCOffers
  Products = {p, q}
  Carts <- MCCarts
  Prices <- MCPrices
  NoLimit = NoLimit
  Garbage = Garbage
  AnyProduct = AnyProduct
  Absent = Absent
CONSTRAINT MCLimitedRedeemed
SYMMETRY MCSymmetry
INVARIANTS UsedOncePerOrder AnswersAreTrue QuotesAddUp
