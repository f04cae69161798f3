\* Two competing branches, two invalid heavier blocks, an old chain whose last
\* block cannot be taken back, a pool that may lose a transaction, a clock that
\* moves once, and every block offered again and again.
CONSTANTS
  Blocks <- ForkBlocks
  Txs <- AllTxs
  KeyImages <- AllImages
  Genesis = "g"
  ancestry <- ForkAncestry
  timestamp <- ForkTimestamp
  cumulative_difficulty <- ForkDifficulty
  transactionHashes <- ForkTxs
  keyImages <- Images
  checkpoints <- Nothing
  BadHeader = {}
  WeakPow = {}
  BadTx = {}
  BadReward = {"d3"}
  TooBig = {}
  timestampCheckWindow = 2
  futureTimeLimit = 10
  MaxTime = 1
  MaxExpiries = 1
  MaxCrashes = 0
SPECIFICATION FairSpec
INVARIANTS
  TypeOK
  ChainLinked
  NoDoubleSpend
  PoolAndChainDisjoint
  MainIsHeaviest
  ReplicaIsMainChain
PROPERTIES
  SwitchEnds
  ImplementsHeaviestChain
  ConvergesToHeaviest
