SPECIFICATION Spec
CONSTANTS
  Handles <- MCHandles
  Delays <- MCDelays
  MaxFaults = 1
INVARIANT TypeOK
INVARIANT HwMatches
INVARIANT FusionServed
PROPERTY ChangedWhileStopped
