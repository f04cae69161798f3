SPECIFICATION Spec
CONSTANTS
  Blocks <- MCBlocks
  Txs <- MCTxs
  Genesis = "g"
  Amounts <- MCAmounts
  parent <- MCParent
  transactions <- MCTransactions
  inputs <- MCInputs
  outputs <- MCOutputs
  unlockTime <- MCUnlockTime
  interest <- MCInterest
  BadOutputs = {}
  TooBig = {"o2"}
  BadReward = {"r3"}
  lockedTxAllowedDeltaBlocks = 1
  MaxRestarts = 2
  MaxRead <- NoneRead
INVARIANTS
  ConsistencyNeverBroken
  UsedMeansSpentOnce
  GlobalIndexesPointBack
  TermsAreServed
  StoreMatchesChain
