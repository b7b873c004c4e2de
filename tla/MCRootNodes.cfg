CONSTANTS
  Threads = {t1, t2}
  BuiltLists <- MCBuiltLists
  DecodedLists <- MCDecodedLists
  Thresholds <- MCThresholds
  SignatureMaps <- MCSignatureMaps
  NilNode = NilNode
  BadKey = BadKey
  MaxStake = 2
  Modulus = 16
SPECIFICATION Spec
INVARIANTS QuorumIsReal VerdictDetermined
PROPERTY VerificationsEnd
CHECK_DEADLOCK FALSE
