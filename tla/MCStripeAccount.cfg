SPECIFICATION FairSpec
CONSTANTS
  Runs = {r1, r2}
  NewAccount <- MCNewAccount
  AccountStates <- MCStates
  Failures = {"retryable"}
  MaxAccounts = 2
  MaxChanges = 2
  MaxRequests = 1
  MaxFaults = 1
INVARIANTS OnlySavedAccountIsLinked NeverOlderThanARead
PROPERTIES PaymentsFollowStripe ConnectRecovers
CHECK_DEADLOCK FALSE
