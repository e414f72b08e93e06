SPECIFICATION MCSpec
CONSTANTS
  NDIM = 3
  glb_size <- ThinSize
  nrank_dir <- ThinRanks
  Jobs <- ThinJobs
  Worlds <- ThinWorlds
  Buffered = TRUE
  Sweepers <- MCSweepers
  TablesOf <- MCTablesOf
INVARIANTS
  AllDelivered
  
  TemporalRight
  SweepRight
  FftRight
PROPERTIES
  FileKept
