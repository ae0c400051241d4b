CONSTANTS
  BUF_COUNT = 2
  MAX_ERRORS = 2
  MaxStarts = 2
  MaxTimeouts = 2
SPECIFICATION FairSpec
INVARIANTS NoDmaAfterFree ReadyIsFilled WorkerHasBuffers 
PROPERTY StopReturns
CHECK_DEADLOCK FALSE
