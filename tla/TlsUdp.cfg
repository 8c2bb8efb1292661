\* UDP, from an established session: one renegotiation and the one requested,
\* a packet of which may come twice.
SPECIFICATION FairSpec
CONSTANTS
  Client = c
  Server = s
  KeyIdMask = 3
  InOrder = FALSE
  FirstKeyActive = TRUE
  MaxKeys = 3
  MaxOwnKeys = 2
CONSTANT NetCapacity <- TwoThenOne
PROPERTY AlwaysAKey
CHECK_DEADLOCK FALSE
