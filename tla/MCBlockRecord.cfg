CONSTANTS
  Shards <- MCShards
  EmptyShard = "all"
  TxLists <- MCTxLists
  NilTxs = NilTxs
  States = {s1, s2}
  Proposers = {n1, n2}
  NoProposer = "none"
  MaxBlocks = 2
  MaxChanges = 1
SPECIFICATION Spec
INVARIANTS CalculatedRecordValid
SYMMETRY Symmetric
CHECK_DEADLOCK FALSE
