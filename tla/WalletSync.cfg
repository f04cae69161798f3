SPECIFICATION Spec
CONSTANTS
  g = g
  a1 = a1
  b1 = b1
  b2 = b2
  t1 = t1
  Blocks = {g, a1, b1, b2}
  genesis = g
  path <- MCPath
  weight <- MCWeight
  transactions <- MCTransactions
  Txs = {t1}
  observedIndex = 2
  MaxBlocks = 2
  MaxFailures = 1
  DenseHistory = 1
  NConsumers = 2
  FirstConsumers <- MCFirstConsumers
  MaxCalls = 2
  NoBlock = NoBlock
INVARIANTS
  HistoriesAgree
  WaitingMeansSynchronized
PROPERTIES
  WorkerComesToRest
  CallsReturn
