\* A payment that may be declined and one that is not shp0's, under fairness.
CONSTANTS
  o1 = o1  o2 = o2  v1 = v1  v2 = v2  p1 = p1  p2 = p2  p3 = p3  p4 = p4
  NoOrder = NoOrder
  Orders = {o1}
  Variants = {v1}
  PaymentIntents = {p1, p4}
  OrderOf <- OddOrderOf
  Foreign = {p4}
  Matching = {p1}
  Delayed = {p1}
  Lines <- OddLines
  InitialStock <- OddStock
  Workers = {w1, w2}
  MaxRefunds = 4
  MaxFaults = 2
SPECIFICATION FairSpec
INVARIANTS RefundedIsReturned ProcessedIsDone FreshRefundKey
PROPERTIES EventsAreAnswered ImplementsLedger
CHECK_DEADLOCK FALSE
