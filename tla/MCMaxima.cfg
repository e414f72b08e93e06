SPECIFICATION MCSpec
CONSTANTS
  Layouts <- MCLayouts
  MaxCalls = 3
  Value <- MCValue
  NDIM = 2
  glb_size <- MCSize
  nrank_dir <- MCRanks
INVARIANTS
  MaximaRight
