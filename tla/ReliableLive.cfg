\* Both peers know the address, the server holds its output until linked; the
\* receive window is smaller than the send window; the link is fair.
SPECIFICATION FairSpec
CONSTANTS
  Client = c
  Server = s
  Half = 16
  SendSize = 2
  RecSize = 1
  AckSize = 1
  SendAckMax = 1
CONSTANT NetCapacity <- TwoThenOne
CONSTANT MaxRecords <- TwoThenOne
CONSTANT RemoteKnown <- BothPeers
CONSTANT XmitHold <- OnlyServer
PROPERTIES HandshakeStarts WrittenIsDelivered
CHECK_DEADLOCK FALSE
