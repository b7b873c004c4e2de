SPECIFICATION Spec
CONSTANTS
  n1 = n1  n2 = n2  n3 = n3  n4 = n4  main = main  test = test
  NodeIDs <- MCNodeIDs
  Faulty <- MCFaulty
  Committees <- MCCommittees
  Verifiers = {v1, v2}
  Networks = {main, test}
  Thresholds = {0, 2}
  Headers <- MCHeaders
  MaxBodies = 3
  MaxStake = 2
  Modulus = 64
  NoHash = NoHash
SYMMETRY MCSymmetry
INVARIANTS TypeOK Agreement PrefixIdentical HistoryWellFormed ThresholdTwoThirds
PROPERTY ImplementsEpochChain
CHECK_DEADLOCK FALSE
