SPECIFICATION OwnershipSpec
CONSTANTS
  Rows = {m1, m2, m3}
  Stores = {s1, s2}
  Transactions = {t1, t2, t3}
  NoRow = NoRow
  Unwritten = Unwritten
SYMMETRY MCSymmetry
INVARIANTS ExactlyOneOwner
