SPECIFICATION Spec
CONSTANT MaxSessions = 2
INVARIANTS
  TypeOK
  ReceiverFollowsManagement
  EndedIsForgotten
  EndsWithItsSessions
PROPERTY StopReaches
CHECK_DEADLOCK FALSE
