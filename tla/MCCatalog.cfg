CONSTANTS
  one = one  two = two
  a = a  b = b  d = d  z = z
  hand = hand  cheap = cheap  theirs = theirs
  Stores = {one, two}
  Products = {a, b, d, z}
  Collections = {hand, cheap, theirs}
  Requests = {r1, r2}
  StoreOf <- MCStoreOf
  SlugOf <- MCSlugOf
  TagsOf <- MCTagsOf
  PricesOf <- MCPricesOf
  Drafts = {d}
  FormOf <- MCFormOf
  MaxPrice = 9
  Garbage = Garbage
  Null = Null
  None = None
  Ops <- MCOps
SPECIFICATION MCSpec
INVARIANTS MembersOfOneStore PagesAreTrue
