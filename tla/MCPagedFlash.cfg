SPECIFICATION Spec
CONSTANTS
  Programs <- MCPrograms
  InitAim = {0, 1}
  WindowWords = 5
  PageLimit = 2
  MaxCode = 2
INVARIANTS
  TypeOK
  StoreAims
PROPERTIES
  ImplementsPages
  PagesGoOn
