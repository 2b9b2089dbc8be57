SPECIFICATION FairSpec
CONSTANTS
  IdxBits = 3
  InitStore <- MCInitStore
  Access <- MCAccess
  MaxAccess = 2
  MaxResets = 1
INVARIANTS
  TypeOK
  SelectFollowsAccess
  HandshakeInv
  DevicesInStep
  DeviceHasAccess
PROPERTIES
  MosiSetUp
  RdataHeld
  AccessAnswered
  ImplementsPort
