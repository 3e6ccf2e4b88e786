SPECIFICATION FairSpec
CONSTANTS
  Vars <- MCVars
  BlockOf <- MCBlockOf
  Blocks = 3
  Updates <- MCUpdates
  Faults = {"read", "write", "switch"}
  MaxRequests = 2
  MaxCommands = 1
  MaxCrashes = 2
  MaxFaults = 1
INVARIANTS
  TypeOK
  NoLostUpdate
  SevenOnce
  Mirrored
PROPERTIES
  IdentityKept
  UpdateArrives
