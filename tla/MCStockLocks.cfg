\* Three calls of any kind on a pool of two connections, under fairness.
SPECIFICATION FairSpec
CONSTANTS
  o1 = o1  o2 = o2  p1 = p1  p2 = p2  p3 = p3  q = q
  Orders = {o1, o2}
  PaymentIntents = {p1, p2, p3}
  Products = {q}
  VariantCount = 2
  ProductOf <- MCProductOf
  OrderOf <- MCOrderOf
  Lines <- MCLines
  InitialStock <- MCStock
  Calls = {c1, c2, c3}
  NoCall = NoCall
  Ops <- MCOps
  Slots = {s1, s2}
  PaymentAttempts = 2
INVARIANTS NoCircle
PROPERTIES KeepsFence CallsEnd
