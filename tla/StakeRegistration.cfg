SPECIFICATION Spec
CONSTANTS
  NodeIDs = {n1, n2, n3}
  Thresholds = {0}
  MaxStake = 4
  Modulus = 16
INVARIANT AtLeastTwoThirdsPlusOne
CHECK_DEADLOCK FALSE
