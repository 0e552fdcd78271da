\* The tracker fed under its contract, on every chain of a binary block tree.
CONSTANTS
  Hash <- MCHash
  Blocks <- MCBlocks
  MaxHeight = 5
  Forks = 2
  Confirmations = 2
  Window = 3
SPECIFICATION ContractSpec
INVARIANTS
  TypeOK
  LiveIsOneChain
  LiveMatchesWatermark
  ChainLinked
  ConfirmsOneAtATime
PROPERTIES
  SurvivesUntilConfirmed
  ImplementsFeed
