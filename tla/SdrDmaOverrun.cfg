CONSTANTS
  SDR_RING_NUM_BLOCKS = 3
  COUNT_WRAP = 8
  MaxCaptures = 7
SPECIFICATION DmaSpec
INVARIANT CountWithinRing
