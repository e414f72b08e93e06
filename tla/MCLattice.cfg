SPECIFICATION MCSpec
CONSTANTS
  NDIM = 4
  glb_size <- MCSize
  nrank_dir <- MCRanks
INVARIANTS
  TablesRight
  GridRight
PROPERTIES
  JumpsOverNothing
