SPECIFICATION Spec
CONSTANTS
  Amounts <- MCAmounts
  Interests = {0, 1}
  MaxBlocks = 4
INVARIANTS
  TypeOK
  EntriesAreChanges
  QueriesMatchHistory
