SPECIFICATION Spec
CONSTANTS
  site1 = site1
  site2 = site2
  Names <- MCNames2
  Prefix <- MCPrefix2
  MaxCount = 2
  NoTopology = TRUE
CHECK_DEADLOCK FALSE
INVARIANTS
  TypeOK
  AddressesDiffer
  ChronosFindsOthers
  StoresReachTheirSite
  ConfigsExist
  NothingLeft
