\* Two Pays of one Order, or one and its page; four attempts, under fairness.
SPECIFICATION MCSpec
CONSTANTS
  o1 = o1  p1 = p1  p2 = p2
  Orders <- MCOrders
  OrderOf <- MCOrderOf
  Viewed = o1
  Pays = {p1, p2}
  MaxAttempts = 4
  MaxFaults = 1
  Rounds = 2
  NoSession = NoSession
INVARIANTS
  OneLiveSession
  MoneyHeldOnce
  HeldMoneyIsShown
  PageTellsOfHeldMoney
PROPERTY
  ReplacedOnlyWhenSpent
  PayIsAnswered
  PayRecovers
