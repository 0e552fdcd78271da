\* Crashes, the checkpoint being saved before the messages are sent.
CONSTANTS
  Hash <- MCHash
  Blocks <- MCBlocks
  Chains <- MCChains
  Tips <- TwoForks
  MinHeight = 0
  Confirmations = 1
  Window = 3
  StartBlock = 0
  ChannelSize = 1
  MaxReorg = 1
  MidReorg = 0
  Stores = {"durable"}
  Faults = {"crash"}
SPECIFICATION Spec
INVARIANTS
  NothingSkipped
