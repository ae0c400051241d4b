CONSTANTS
  BYTE_MAX = 1
  SPI_SYNC_BYTE = 1
  SPI_MAX_PAYLOAD = 0
  Crc64 <- MCCrc64
  Crc32 <- MCCrc32
  MAX_ITERATIONS = 1
  TX_FIFO_DEPTH = 2
  Responses = {"r1"}
  ResponseLens = {3}
SPECIFICATION MCSpec
PROPERTIES ResponseCompletes
