SPECIFICATION Spec
CONSTANTS
  IdxBits = 3
  InitStore = {}
  Access = {}
  ROM_BYTES = 176
  RAM_BASE = 176
  RAM_BYTES = 48
  LOAD_BASE = 180
  EXT_PSRAM_BASE = 224
  EXT_PSRAM_BYTES = 16
  Roms <- MCRoms
  InitWords <- MCInitWords
  StoreData <- MCStoreData
  Garbage <- MCGarbage
  MaxStores = 1
INVARIANTS
  LoadsAreBytes
  StoresAreBytes
