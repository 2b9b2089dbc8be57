SPECIFICATION FairChip
CONSTANTS
  IdxBits = 6
  ROM_BYTES = 176
  RAM_BASE = 176
  RAM_BYTES = 48
  LOAD_BASE = 180
  EXT_PSRAM_BASE = 224
  EXT_PSRAM_BYTES = 16
  InitStore <- MCInitStore
  Access <- MCAccess
  Roms <- MCChipRoms
  InitRegs <- MCInitRegs
  InitWords <- MCInitWords
  GpioIn <- MCOnePins
  Garbage <- MCGarbage
  MaxResets = 1
INVARIANTS
  ChipTypeOK
  FlashOnlyWhenHandedOver
PROPERTIES
  ImplementsSoc
  Retires
