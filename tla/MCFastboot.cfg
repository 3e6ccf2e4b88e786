SPECIFICATION Spec
CONSTANTS
  Images <- MCImages
  ImgLen <- MCImgLen
  SparseImgs <- MCSparse
  RawSectors <- MCRawSectors
  GPT <- MCGPT
  BuiltIn <- MCBuiltIn
  SectorSize = 2
  DiskBytes = 16
  BufSize = 4
  ULongMod = 8
  Newlines <- MCNewlines
  Packets = {1, 4}
  Cuts = {1, 2}
  StorageFaults = TRUE
  MaxOps = 2
CHECK_DEADLOCK FALSE
INVARIANTS
  TypeOK
  FlashDone
  MultiflashDone
  SparseDone
  EraseDone
PROPERTY
  Confined
