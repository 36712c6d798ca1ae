SPECIFICATION Spec
CHECK_DEADLOCK FALSE
CONSTANTS
  MaxSends = 3
  Faults = {"slow"}
INVARIANT SentIsOwn
