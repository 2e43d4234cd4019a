\* Two people with one email, two Stores, two requests at once.
SPECIFICATION PersistentSpec
CONSTANTS
  h1 = h1  h2 = h2  s1 = s1  s2 = s2  alice = alice  bob = bob
  pw1 = pw1  pw2 = pw2  e = e
  Stores = {s1, s2}
  Hosts = {h1, h2}
  Emails = {e}
  Passwords = {pw1, pw2}
  StoreOf <- MCStoreOf
  Browsers = {alice, bob}
  PasswordOf <- MCPasswordOf
  WeakPasswords = {}
  Visits <- MCVisits
  CustomDomains = {h1}
  Requests = {r1, r2}
  Tokens = {t1, t2}
  MaxFaults = 1
  None = None
INVARIANT EachSeesTheirOwn
PROPERTY SignUpRecovers
