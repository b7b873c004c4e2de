SPECIFICATION Spec
CONSTANTS
  n1 = n1  n2 = n2  n3 = n3  n4 = n4  main = main  test = test
  NodeIDs <- MCNodeIDs
  Faulty <- MCFaulty
  Networks <- MCNetworks
  TrustBases <- MCTrustBases
  Hashes = {h1, h2}
  MaxRound = 3
  MaxAccepted = 2
  MaxStake = 1
  Modulus = 16
SYMMETRY MCSymmetry
INVARIANTS TypeOK OneSealPerRound
CHECK_DEADLOCK FALSE
