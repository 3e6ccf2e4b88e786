SPECIFICATION Spec
CONSTANTS
  Vars <- MCVars
  BlockOf <- MCBlockOf
  Blocks = 3
  Updates <- MCUpdates
  Faults = {"switch"}
  MaxRequests = 2
  MaxCommands = 1
  MaxCrashes = 2
  MaxFaults = 1
PROPERTY TableKept
