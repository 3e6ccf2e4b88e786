SPECIFICATION Spec
CONSTANTS
  Threads = {t1, t2}
  NoThread = none
  Routes <- MCRoutes
  InRates <- MCInRates
  PeriodSize = 4
  ShortCount = 1
  LongCount = 2
  KernelFrames <- MCKernelFrames
  Garbage <- MCGarbage
  UIntMod = 64
SYMMETRY Symmetry
INVARIANTS
  TypeOK
  NoWaitCycle
  PcmReady
  OneRateGroup
  NoDangling
  Settled
  ThresholdInRange
