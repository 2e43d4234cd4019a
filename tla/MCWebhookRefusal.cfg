\* Two deliveries of one declined payment at once: one refund is refused, the other made.
CONSTANTS
  o1 = o1  o2 = o2  v1 = v1  v2 = v2  p1 = p1  p2 = p2  p3 = p3  p4 = p4
  NoOrder = NoOrder
  Orders = {o1}
  Variants = {v1}
  PaymentIntents = {p1, p2}
  OrderOf <- OddOrderOf
  Foreign = {}
  Matching = {p1}
  Delayed = {p1}
  Lines <- OddLines
  InitialStock <- OddStock
  Workers = {w1, w2}
  MaxRefunds = 3
  MaxFaults = 1
SPECIFICATION Spec
INVARIANT RefundFailedIsHeld

CHECK_DEADLOCK FALSE
