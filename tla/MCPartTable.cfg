SPECIFICATION FairSpec
CONSTANTS
  Names <- MCNames
  Layout <- partitions
  Sizes <- MCSizes
  OldTables <- MCOldTables
  EntrySectors = 32
  PerSector = 4
  MaxPtn = 16
  UIntMod = 1073741824
  MaxCuts = 1
  MaxFormats = 1
INVARIANT TypeOK
INVARIANT ListTrue
INVARIANT Disjoint
INVARIANT Whole
PROPERTY OnlyWhenAsked
PROPERTY BootEnds
CHECK_DEADLOCK FALSE
