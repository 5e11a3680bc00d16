SPECIFICATION Spec
CONSTANTS
  MaxUpdates = 4
  Ahead = 1
  Limit = 1
  Faults = {"crash"}
PROPERTY RejectNeverDelegates
CHECK_DEADLOCK FALSE
