SPECIFICATION FairSpec
CONSTANTS
  Images <- MCImages
  SectionSizes <- MCSectionSizes
  PtnStart = 100
  ULongMod = 65536
INVARIANTS
  TypeOK
  WrittenRight
  Complete
  OnlyShortFails
PROPERTY
  SectionEnds
