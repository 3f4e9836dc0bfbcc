SPECIFICATION Spec
CONSTANTS
  MaxCalls = 3
  MaxOwed = 1
INVARIANT NoActiveCallLeft
CHECK_DEADLOCK FALSE
