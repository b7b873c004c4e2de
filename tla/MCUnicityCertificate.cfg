SPECIFICATION CertificateSpec
CONSTANTS
  Nodes = {node}
  States = {s1, s2}
  Blocks = {b1, b2, b3}
  NoBlock = NoBlock
  Rest = {d1, d2}
  MaxShardRound = 4
  MaxRootRound = 5
  MaxKept = 4
SYMMETRY MCSymmetry
INVARIANTS CertificateTypeOK NoFalseAlarm AcceptedHistory OneKind
CHECK_DEADLOCK FALSE
