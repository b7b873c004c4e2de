CONSTANTS
  ByteBits = 2
  MaxLength = 3
  Records = {"r1", "r2"}
  Lists <- MCLists
  Roots = {"r1", "r2"}
  Schemes <- MCSchemes
  StatesFor <- MCStatesFor
SPECIFICATION TreesSpec
INVARIANTS
  SchemeValidity
  TreeComplete
  KeysFaithful
  CertificatesComplete
  CertificatesSound
  EveryRootProven
  OnlyMembersProven
PROPERTY Terminates
CHECK_DEADLOCK FALSE
