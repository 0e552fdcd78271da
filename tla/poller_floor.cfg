\* A restart after a first tick that confirmed nothing yet.
CONSTANTS
  Hash <- MCHash
  Blocks <- MCBlocks
  Chains <- MCChains
  Tips <- TwoForks
  MinHeight = 0
  Confirmations = 2
  Window = 3
  StartBlock = 2
  ChannelSize = 1
  MaxReorg = 1
  MidReorg = 0
  Stores = {"durable"}
  Faults = {"crash"}
SPECIFICATION Spec
INVARIANTS
  FloorRespected
