SPECIFICATION FairSpec
CONSTANTS
  Inputs <- MCInputs
  MaxCrashes = 2
  MaxRequests = 1
  Junk = Junk
INVARIANTS
  MeasuredHistory
  NoRandomReuse
  ChainStored
  LastConfOnDisk
  PotentialOfHistory
PROPERTIES
  ProductionEnds
