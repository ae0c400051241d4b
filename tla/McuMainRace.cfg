CONSTANTS
  BROWNOUT_THRESHOLD_MV = 2800
  BROWNOUT_HYSTERESIS_MV = 200
  Volts = {2799, 3000}
  TX_RING_SIZE = 8
  SPI_MAX_PAYLOAD = 2
  FRAME_OVERHEAD = 2
  TELEM_SIZE = 1
  TERMINATED = 0
  MaxFrames = 3
  ChunkLens = {4}
SPECIFICATION Spec
INVARIANT RingHoldsWholeFrames
