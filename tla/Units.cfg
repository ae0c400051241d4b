CONSTANTS
  SDR_RING_NUM_BLOCKS = 3
  COUNT_WRAP = 8
  MaxCaptures = 7
  Bytes = {0, 1, 2}
  SPI_RX_BUF_SIZE = 4
  SLEEP_IDLE_TIMEOUT_MS = 2
  SLEEP_LIGHT_TIMEOUT_MS = 4
  MaxBytes = 3
  PowerRails <- MCRails
  CC1101_FIFO = 2
  CcLens = {0, 1, 3}
  NFC_FIFO_SIZE = 2
  NfcBufSizes = {0, 3}
  NfcPolls = 2
  CalVolts = {2799, 2800, 4200, 4501}
  CalRaws = {0, 832, 842, 862, 880, 1293, 1322}
  CalSums = {0, 171}
  BattRaws = {0, 861, 862, 923, 924, 1015, 1016, 1139, 1140, 1293, 1321}
  DieTemps = {0, 270, 850, 870, 1050, 1250}
  LmsFreqs = {9, 10, 5874, 5875, 5876, 9062, 9063, 43300, 86800, 91500, 93999, 94000, 187999, 188000, 290000, 290001, 380000, 380001}
  HcRequests <- MCRequests
  HcLink = 1
  HtMeasures <- MCMeasures
SPECIFICATION UnitsSpec
INVARIANTS CountIsDistanceUntilOverrun InOrderUntilOverrun LoadedIsOldest
           ChipMatchesState FieldOffAfterExchange AnswerIsOfThisCall ChipLeftUsable
           CalibrationIsSound ShutdownMatchesReports PllCovers DoesWhatWasAsked
           ReportedIsMeasured ResourcesNested
PROPERTIES QueueSpec WakesWhenDue RailsSequenced
