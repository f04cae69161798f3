\* Own and other spends compete for an output and for a deposit, in the pool and in
\* blocks from elsewhere; two may expire; and two of: blocks undone, lost relay
\* answers, reopenings.
CONSTANTS
  r = r
  s = s
  d = d
  w = w
  x = x
  y = y
  o = o
  c = c
  q = q
  k = k
  l = l
  Txs = {r, s, d, w, x, y}
  Outs = {o, c, q, k, l}
  creator <- MCCreator
  inputs <- MCInputs
  term <- MCTerm
  transactionSpendableAge = 1
  Sends = {s}
  Makes = {d}
  Withdraws = {w}
  Mixed = {s}
  Foreign = {x}
  Elsewhere = {x, y}
  Perishable = {d, w}
  LongBreaks = FALSE
  FirstChain <- MCFirstChain
  MaxHeight = 4
  MaxFaults = 2
SPECIFICATION Spec
CHECK_DEADLOCK FALSE
INVARIANTS
  OnlyConflictsThrow
  ContainerMatchesHistory
  ListMatchesContainer
  DepositsMatchContainer
