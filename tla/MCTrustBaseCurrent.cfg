SPECIFICATION Spec
CONSTANTS
  n1 = n1  n2 = n2  n3 = n3  n4 = n4  main = main  test = test
  NodeIDs <- MCNodeIDs
  Faulty <- MCFaulty
  Committees <- MCCommittees
  Verifiers = {v1}
  Networks = {main, test}
  Thresholds = {0}
  Headers <- MCHeaders
  MaxBodies = 2
  MaxStake = 2
  Modulus = 64
  NoHash = NoHash
INVARIANT CurrentEpochSigned
CHECK_DEADLOCK FALSE
