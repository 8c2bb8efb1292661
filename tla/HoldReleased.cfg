SPECIFICATION Spec
CONSTANTS
  NetworkType = {wifi, mobile}
  NoNetwork = none
  MaxEvents = 6
  MaxRestarts = 3
INVARIANT ReleasedIsNotHeld
CHECK_DEADLOCK FALSE
