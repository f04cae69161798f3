SPECIFICATION Spec
CONSTANTS
  Blocks <- Deposited
  Genesis = "g"
  NullHash = "null"
  parent <- MCParent
  difficulty <- MCDifficulty
  transactions <- MCTransactions
  base <- MCBase
  Txs = {"p", "w", "v"}
  inputs <- MCInputs
  fee <- MCFee
  blobSize <- MCSize
  ttl <- MCTtl
  Fusion = {"f"}
  minimumFee = 1
  maxTxSize = 2
  fusionTxMaxSize = 1
  medianSize = 1
  maxTotalSize = 2
  mempoolTxLiveTime = 1
  mempoolTxFromAltBlockLiveTime = 2
  maxTtl = 2
  forgetTime = 2
  KeptTxs = {"p", "w"}
  MaxTime = 0
  MaxRestarts = 0
INVARIANT TemplateMinable
