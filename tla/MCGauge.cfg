SPECIFICATION MCSpec
CONSTANTS
  NDIM = 2
  glb_size <- MCSize
  nrank_dir <- MCRanks
INVARIANTS
  StaplesRight
  OverrelaxRight
