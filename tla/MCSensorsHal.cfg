SPECIFICATION FairSpec
CONSTANTS
  mMaxEvents = 3
  MaxEvents = 4
  LightEvents <- MCLightEvents
  KFifo = 3
  MaxMotion = 2
  MaxSamples = 1
  PipeSize = 1
  Counts <- MCCounts
  MaxActs = 3
  MaxFaults = 1
INVARIANT TypeOK
INVARIANT NoneStranded
PROPERTY ReturnsEvents
PROPERTY FifoSpec
PROPERTY LightServed
CHECK_DEADLOCK FALSE
