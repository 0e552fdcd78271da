\* Reorgs in mid-tick, none deeper than N.
CONSTANTS
  Hash <- MCHash
  Blocks <- MCBlocks
  Chains <- MCChains
  Tips <- ThreeWays
  MinHeight = 0
  Confirmations = 2
  Window = 3
  StartBlock = 0
  ChannelSize = 1
  MaxReorg = 2
  MidReorg = 2
  Stores = {"durable"}
  Faults = {}
SPECIFICATION Spec
INVARIANTS
  NothingSkipped
