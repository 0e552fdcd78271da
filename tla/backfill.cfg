\* Calls fail and are tried again; the chain grows meanwhile.
CONSTANTS
  MaxHeight = 7
  Requests <- MCRequests
  Flaws <- MCFlaws
  MaxRetries = 3
  BaseDelay = 2
  MaxDelay = 4
  MaxFactor = 3
  MaxDuration = 5
CHECK_DEADLOCK FALSE
SPECIFICATION FairSpec
INVARIANTS
  TypeOK
  WindowsFit
  SpendsItsRetries
PROPERTIES
  BackoffNeverShrinks
  ImplementsRangeRead
  EventuallyAnswered
