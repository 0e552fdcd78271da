\* A build without overflow checks.
CONSTANTS
  Keys = {k1}
  Accounts <- MCAccounts
  Assets <- MCAssets
  Requests <- MCRequests
  Half = 4
  Wraps = TRUE
SPECIFICATION Spec
INVARIANTS
  JournalBalances
