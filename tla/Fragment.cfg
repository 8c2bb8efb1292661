SPECIFICATION Spec
CONSTANTS
  N_SEQ_ID = 7
  N_FRAG_BUF = 2
  MAX_FRAGS = 3
  MaxFragSize = 12
  Length <- LengthDef
  MaxPackets = 8
  MaxLate = 2
  MaxAhead = 3
  MaxSize = 30
  MaxLength = 100
INVARIANTS
  TypeOK
  NeverMixed
  WholeComesOut
  OptimalKeepsCount
