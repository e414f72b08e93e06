SPECIFICATION MCSpec
CONSTANTS
  Campaigns <- MCCampaigns
  MaxJobs = 3
  MaxRounds = 2
  Empty = Empty
  NONE = NONE
  Threads = {0, 1, 2}
  Master = 0
  Thetas = {"periodic", "antiperiodic"}
  Charges = {0, 1}
  MaxConfs = 2
  MaxHits = 2
  MaxCalls = 2
  NMAX = 8
  NUMBERS = 3
INVARIANTS
  LockIsKept
