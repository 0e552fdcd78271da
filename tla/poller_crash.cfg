\* Errors, crashes and a consumer that hangs up; no reorg deeper than N.
CONSTANTS
  Hash <- MCHash
  Blocks <- MCBlocks
  Chains <- MCChains
  Tips <- TwoForks
  MinHeight = 0
  Confirmations = 2
  Window = 3
  StartBlock = 0
  ChannelSize = 1
  MaxReorg = 2
  MidReorg = 1
  Stores = {"durable", "none"}
  Faults = {"error", "crash", "hangup"}
SPECIFICATION Spec
INVARIANTS
  NothingStale
  NoReconfirm
  ConfirmedIsFinal
  OnlyInFlightIsLost
PROPERTIES
  CheckpointAdvances
  TransfersAreOfConfirmed
