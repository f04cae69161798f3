CONSTANTS
  n1 = n1
  n2 = n2
  n3 = n3
  t = t
  Nodes = {n1, n2, n3}
  Links <- MCLinks
  Foreign = {}
  Blocks <- MCBlocks
  ancestry <- MCAncestry
  cumulative_difficulty <- MCWork
  start <- Level
  Txs = {t}
  Finds <- SendOne
  BLOCKS_IDS_SYNCHRONIZING_DEFAULT_COUNT = 3
  BLOCKS_SYNCHRONIZING_DEFAULT_COUNT = 1
  MaxDrops = 1
SPECIFICATION FairSpec
INVARIANTS
  PeersCounted
PROPERTIES
  PoolsAgree
