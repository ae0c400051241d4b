CONSTANTS
  BYTE_MAX = 3
  SPI_SYNC_BYTE = 1
  SPI_MAX_PAYLOAD = 2
  Crc64 <- MCCrc64
  Crc32 <- MCCrc32
SPECIFICATION Spec
INVARIANTS RoomForNextByte DispatchedWasReceived GoodFrameIsDispatched
