CONSTANTS
  Procs = {"p1", "p2"}
  FIFO_SIZE = 1
  TELEM_SIZE = 1
  MaxSessions = 2
  MaxEdges = 1
SPECIFICATION FairSpec
INVARIANTS OneHolder PmBalanced 
PROPERTIES EdgeServed ReaderWakes
