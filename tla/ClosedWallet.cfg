\* The wallet may be saved and closed before it sees that a transaction it knew from
\* the pool has expired.
CONSTANTS
  r = r
  s = s
  d = d
  w = w
  x = x
  y = y
  o = o
  c = c
  q = q
  k = k
  l = l
  Txs = {r, s, d, w, x, y}
  Outs = {o, c, q, k, l}
  creator <- MCCreator
  inputs <- MCInputs
  term <- MCTerm
  transactionSpendableAge = 1
  Sends = {s}
  Makes = {d}
  Withdraws = {w}
  Mixed = {s}
  Foreign = {x}
  Elsewhere = {}
  Perishable = {d}
  LongBreaks = TRUE
  FirstChain <- MCFirstChain
  MaxHeight = 5
  MaxFaults = 1
SPECIFICATION Spec
CHECK_DEADLOCK FALSE
INVARIANTS
  GoneMeansDeleted
