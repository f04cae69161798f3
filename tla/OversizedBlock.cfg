\* A block too big for the main chain.
CONSTANTS
  Blocks <- BigBlocks
  Txs <- AllTxs
  KeyImages <- AllImages
  Genesis = "g"
  ancestry <- BigAncestry
  timestamp <- BigTimestamp
  cumulative_difficulty <- BigDifficulty
  transactionHashes <- BigTxs
  keyImages <- Images
  checkpoints <- Nothing
  BadHeader = {}
  WeakPow = {}
  BadTx = {}
  BadReward = {}
  TooBig = {"a2"}
  timestampCheckWindow = 3
  futureTimeLimit = 0
  MaxTime = 0
  MaxExpiries = 0
  MaxCrashes = 0
SPECIFICATION Spec
INVARIANTS
  PoolAndChainDisjoint
