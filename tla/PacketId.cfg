\* A window of two ids and one second that is reaped every other second; ids
\* wrap after 4.  Four seconds, five packets, two restarts or crashes.
SPECIFICATION Spec
CONSTANTS
  SeqBacktrack = 2
  TimeBacktrack = 1
  ReapInterval = 2
  IdMax = 4
  Start = 2
  MaxNow = 5
  MaxSent = 5
  MaxRestarts = 2
INVARIANTS TypeOK NoReplay LateIsRejected FreshIsAccepted PersistHolds
CHECK_DEADLOCK FALSE
