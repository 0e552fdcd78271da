\* Reorgs between ticks, confirmed blocks among the replaced, and a head that may lag.
CONSTANTS
  Hash <- MCHash
  Blocks <- MCBlocks
  Chains <- MCChains
  Tips <- TwoForks
  MinHeight = 2
  Confirmations = 1
  Window = 4
  StartBlock = 1
  ChannelSize = 1
  MaxReorg = 3
  MidReorg = 0
  Stores = {"durable"}
  Faults = {"shrink"}
SPECIFICATION FairSpec
INVARIANTS
  TypeOK
  NothingSkipped
  NothingStale
  CheckpointIsWatermark
PROPERTIES
  FeedsUnderContract
  DeliversFeed
  EventuallyDelivered
