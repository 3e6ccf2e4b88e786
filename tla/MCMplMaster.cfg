SPECIFICATION Spec
CONSTANTS
  Handles <- MCHandles
  Delays <- MCDelays
  MaxFaults = 0
INVARIANT StreamOn
