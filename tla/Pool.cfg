SPECIFICATION Spec
CONSTANTS
  Blocks <- Fork
  Genesis = "g"
  NullHash = "null"
  parent <- MCParent
  difficulty <- MCDifficulty
  transactions <- MCTransactions
  base <- MCBase
  Txs = {"p", "q", "c", "l"}
  inputs <- MCInputs
  fee <- MCFee
  blobSize <- MCSize
  ttl <- MCTtl
  Fusion = {"f"}
  minimumFee = 1
  maxTxSize = 2
  fusionTxMaxSize = 1
  medianSize = 1
  maxTotalSize = 2
  mempoolTxLiveTime = 1
  mempoolTxFromAltBlockLiveTime = 2
  maxTtl = 2
  forgetTime = 1
  KeptTxs = {"p"}
  MaxTime = 4
  MaxRestarts = 1
INVARIANT IndicesMatchPool
INVARIANT DeletedStaysOut
INVARIANT ConflictsCameWithBlocks
INVARIANT TemplateMinable
