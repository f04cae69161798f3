\* Crashes at any step, clean restarts, a checkpoint, and an old chain that
\* handle_alternative_block refuses to take back.
CONSTANTS
  Blocks <- JitterBlocks
  Txs <- AllTxs
  KeyImages <- AllImages
  Genesis = "g"
  ancestry <- JitterAncestry
  timestamp <- JitterTimestamp
  cumulative_difficulty <- JitterDifficulty
  transactionHashes <- JitterTxs
  keyImages <- Images
  checkpoints <- JitterCheckpoint
  BadHeader = {}
  WeakPow = {}
  BadTx = {}
  BadReward = {}
  TooBig = {}
  timestampCheckWindow = 2
  futureTimeLimit = 10
  MaxTime = 0
  MaxExpiries = 1
  MaxCrashes = 2
SPECIFICATION Spec
INVARIANTS
  IndexesMatchChain
  RollbackSucceeds
  CheckpointsHold
PROPERTIES
  CheckpointsAreFinal
  TransactionsConserved
