SPECIFICATION Spec
CONSTANTS
  Codes <- MCCodes
  Hold = 11
  Gap = 70
INVARIANTS
  TypeOK
  InStep
PROPERTIES
  ImplementsKeys
  CodesTaken
