CONSTANTS
  ByteBits = 2
  MinUnitBits = 8
  MaxUnitBits = 10
  SummarySize = 4
  PDRs <- MCPDRs
  Scheme <- MCScheme
  NodeShards <- MCNodeShards
  Types = {3, 4}
  Randoms <- MCRandoms
  Items <- MCItems
  Numbers <- MCNumbers
  UnitStates <- MCUnitStates
  Presented <- MCPresented
  Value <- MCValue
  MaxTxs = 3
  MaxRounds = 2
SPECIFICATION StateSpec
INVARIANTS ComposedIsValid StatesProvable StateProven ValueProven
CHECK_DEADLOCK FALSE
