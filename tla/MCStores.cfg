\* Two requests at once on two Stores, of an Operator, a Merchant and a Member.
SPECIFICATION Spec
CONSTANTS
  m1 = m1  m2 = m2  operator = operator  a = a  d = d
  StoreIds = {s1, s2}
  Users = {m1, m2}
  Operators = {operator}
  Requests = {r1, r2}
  Subdomains = {a}
  Reserved = {www}
  Domains = {d}
  Ops <- MCOps
  None = None
SYMMETRY MCSymmetry
INVARIANTS TypeOK EachToItsOwn
PROPERTIES LegalMoves
