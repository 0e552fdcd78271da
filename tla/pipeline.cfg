\* Blocks are confirmed, delivered again and retracted; no transaction comes back.
CONSTANTS
  Blocks <- MCBlocks
  Logs <- MCLogs
  Addresses = {"ann", "bob", "cy"}
  Token = "usdc"
  Half = 4
  Wraps = TRUE
  MinedAgain = FALSE
CHECK_DEADLOCK FALSE
SPECIFICATION Spec
INVARIANTS
  TypeOK
  MirrorEntries
  NothingRefused
  LedgerFollowsFeed
