\* A restart against a node whose head lags; no reorg.
CONSTANTS
  Hash <- MCHash
  Blocks <- MCBlocks
  Chains <- MCChains
  Tips <- OneChain
  MinHeight = 0
  Confirmations = 2
  Window = 3
  StartBlock = 0
  ChannelSize = 1
  MaxReorg = 4
  MidReorg = 0
  Stores = {"durable"}
  Faults = {"crash", "shrink"}
SPECIFICATION Spec
INVARIANTS
  NoReconfirm
