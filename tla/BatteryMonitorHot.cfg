CONSTANTS
  BattRaws = {0, 861, 862, 923, 924, 1015, 1016, 1139, 1140, 1293, 1321}
  DieTemps = {0, 270, 850, 870, 1050, 1250}
SPECIFICATION BattSpec
INVARIANT OvertempIsReported
