SPECIFICATION Spec
CONSTANTS
  IdxBits = 3
  InitStore = {}
  Access = {}
  ROM_BYTES = 176
  RAM_BASE = 176
  RAM_BYTES = 48
  LOAD_BASE = 220
  EXT_PSRAM_BASE = 224
  EXT_PSRAM_BYTES = 16
  Images <- MCImages
  InitMem <- MCInitMem
  Careful = TRUE
  Hold = 12
  PsramTime = 13
  MaxResets = 1
INVARIANTS
  BitsInStep
