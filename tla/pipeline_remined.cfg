\* A transaction retracted with its block is mined again in another.
CONSTANTS
  Blocks <- MCBlocks
  Logs <- MCLogs
  Addresses = {"ann", "bob", "cy"}
  Token = "usdc"
  Half = 4
  Wraps = FALSE
  MinedAgain = TRUE
SPECIFICATION Spec
INVARIANTS
  LedgerFollowsFeed
