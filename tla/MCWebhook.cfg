\* Two payments of one Order and one of another, two deliveries at a time.
CONSTANTS
  o1 = o1  o2 = o2  v1 = v1  v2 = v2  p1 = p1  p2 = p2  p3 = p3  p4 = p4
  NoOrder = NoOrder
  Orders = {o1, o2}
  Variants = {v1, v2}
  PaymentIntents = {p1, p2, p3}
  OrderOf <- MCOrderOf
  Foreign = {}
  Matching = {p1, p2, p3}
  Delayed = {p1}
  Lines <- MCLines
  InitialStock <- MCStock
  Workers = {w1, w2}
  MaxRefunds = 3
  MaxFaults = 1
SPECIFICATION Spec
SYMMETRY MCSymmetry
INVARIANTS TypeOK PaidByExactlyOne StockMatchesSales OnlyDeclinedReturned
PROPERTIES DecisionsAreFinal KeepsLedger
CHECK_DEADLOCK FALSE
