\* UDP: only the client knows the other's address; two of its packets are in
\* flight at a time and may be reordered.
SPECIFICATION Spec
CONSTANTS
  Client = c
  Server = s
  Half = 16
  SendSize = 2
  RecSize = 2
  AckSize = 1
  SendAckMax = 1
CONSTANT NetCapacity <- TwoThenOne
CONSTANT MaxRecords <- ThreeThenOne
CONSTANT RemoteKnown <- OnlyClient
CONSTANT XmitHold <- Nobody
INVARIANTS NothingLost ReceiveBufferNeverClogs
PROPERTY StreamSpec
CHECK_DEADLOCK FALSE
