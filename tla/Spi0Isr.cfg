CONSTANTS
  BYTE_MAX = 2
  SPI_SYNC_BYTE = 1
  SPI_MAX_PAYLOAD = 1
  Crc64 <- MCCrc64
  Crc32 <- MCCrc32
  MAX_ITERATIONS = 2
  TX_FIFO_DEPTH = 2
  Responses = {"r1", "r2"}
  ResponseLens = {3}
SPECIFICATION MCSpec
INVARIANTS HeldFrameStable RoomForNextByte ReceiverNotDead WipedBeforeReuse
           PendingIsSignalled
PROPERTY ReleaseReopens
