SPECIFICATION FairSpec
CONSTANTS
  f = f
  g = g
  sanity = sanity
  null = null
  Sanity = sanity
  NULL = null
  Funcs <- MCFuncs
  Divergent <- MCDivergent
  NBars <- MCNBars
  ThreadCounts = {1, 2, 3}
  DebugLevels = {0, 1, 2}
  MaxCalls = 3
INVARIANTS
  JobAgreement
  BarriersSeparate
  NoFalseAlarm
  DivergenceCaught
PROPERTIES
  ProgramEnds
  ImplementsForkJoin
