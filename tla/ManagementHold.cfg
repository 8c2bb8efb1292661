SPECIFICATION Spec
CONSTANTS
  NetworkType = {wifi, mobile}
  NoNetwork = none
  MaxEvents = 6
  MaxRestarts = 3
INVARIANTS TypeOK DecisionFollowsDevice HoldIsKnown
CHECK_DEADLOCK FALSE
