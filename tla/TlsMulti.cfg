SPECIFICATION Spec
CONSTANTS
  MaxRemote = 3
  MaxSessions = 4
  MaxKeys = 2
INVARIANTS
  TrustedPeer
  OneSessionPerPeer
PROPERTIES
  KeyIsKept
  ExpiredIsKilled
  StrangersAreHarmless
CHECK_DEADLOCK FALSE
