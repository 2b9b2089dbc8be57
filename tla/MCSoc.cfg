SPECIFICATION FairSpec
CONSTANTS
  IdxBits = 6
  ROM_BYTES = 176
  RAM_BASE = 176
  RAM_BYTES = 48
  LOAD_BASE = 180
  EXT_PSRAM_BASE = 224
  EXT_PSRAM_BYTES = 16
  InitStore <- MCInitStore
  Access <- MCAccess
  Roms <- MCRoms
  InitRegs <- MCInitRegs
  InitWords <- MCInitWords
  GpioIn <- MCGpioIn
  Garbage <- MCGarbage
  MaxResets = 1
INVARIANTS
  TypeOK
  WritesAreStores
PROPERTIES
  Retires
  ImplementsIsa
  KeepsPortContract
