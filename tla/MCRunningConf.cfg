SPECIFICATION Spec
CONSTANTS
  Inputs <- MCInputs
  MaxCrashes = 2
  MaxRequests = 1
  Junk = Junk
INVARIANTS
  RunningConfStored
