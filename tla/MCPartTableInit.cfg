SPECIFICATION Spec
CONSTANTS
  Names <- MCNames
  Layout <- partitions
  Sizes <- MCSizes
  OldTables <- MCOldTables
  EntrySectors = 32
  PerSector = 4
  MaxPtn = 16
  UIntMod = 1073741824
  MaxCuts = 0
  MaxFormats = 0
PROPERTY InitFailureStops
CHECK_DEADLOCK FALSE
