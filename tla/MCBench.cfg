SPECIFICATION BenchSpec
CONSTANTS
  IdxBits = 8
  InitStore = {}
  Access = {}
  ROM_BYTES = 176
  RAM_BASE = 176
  RAM_BYTES = 48
  LOAD_BASE = 180
  EXT_PSRAM_BASE = 224
  EXT_PSRAM_BYTES = 16
  Images <- MCImages
  InitMem <- MCInitMem
  Careful = TRUE
  Hold = 13
  PsramTime = 13
  MaxResets = 0
  Tests <- MCTests
  StartTimes <- MCStartTimes
INVARIANTS
  CodeFollowsBlocks
  ShowsInOrder
PROPERTIES
  ShowsAll
