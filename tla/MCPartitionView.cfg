CONSTANTS
  ByteBits = 2
  MaxLength = 3
  AnyConf = "nil"
  Chain <- MCChain
  Data = {"d1", "d2", "bad"}
  ValidData = {"d1", "d2"}
  Confs = {"c1", "c2"}
  Pins <- MCPins
  NoPins <- MCNoPins
  MaxLeaves = 3
  MaxShardIDBits = 2
  MaxChanges = 2
SPECIFICATION Spec
INVARIANTS AuthenticatedIsCommitted PinsHold DerivedIsIssued HonestAccepted VerifiedIsCommitted
CHECK_DEADLOCK FALSE
