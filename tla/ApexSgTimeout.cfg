CONSTANTS
  BUF_COUNT = 2
  MAX_ERRORS = 2
  MaxStarts = 1
  MaxTimeouts = 2
SPECIFICATION Spec
INVARIANT ReadyMeansFilled
CHECK_DEADLOCK FALSE
