\* TCP: three renegotiations by either peer; key ids wrap after the second.
SPECIFICATION FairSpec
CONSTANTS
  Client = c
  Server = s
  KeyIdMask = 2
  InOrder = TRUE
  FirstKeyActive = FALSE
  MaxKeys = 4
  MaxOwnKeys = 4
CONSTANT NetCapacity <- TwoThenOne
INVARIANTS TypeOK KeysPaired SendKeyIsKnown
PROPERTIES AlwaysAKey NegotiationEnds
CHECK_DEADLOCK FALSE
