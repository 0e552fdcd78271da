\* A build with overflow checks; callers repeat, conflict and reverse at will.
CONSTANTS
  Keys = {k1, k2, k3}
  Accounts <- MCAccounts
  Assets <- MCAssets
  Requests <- MCRequests
  Half = 4
  Wraps = FALSE
SPECIFICATION Spec
INVARIANTS
  TypeOK
  EachKeyOwnsOne
  JournalBalances
  BooksClose
PROPERTIES
  OverflowSticks
  ImplementsBooks
