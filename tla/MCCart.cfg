\* Three requests, two common ones and any third; a line holds at most two.
CONSTANTS
  v1 = v1  v2 = v2  r1 = r1  r2 = r2  r3 = r3
  Variants = {v1, v2}
  Requests = {r1, r2, r3}
  Ops <- MCOps
  MaxLine = 2
  Nobody = Nobody
SPECIFICATION MCSpec
INVARIANTS OneOrderPerCart WritesWhatItRead
PROPERTIES AtomicCart RequestsEnd
CHECK_DEADLOCK FALSE
