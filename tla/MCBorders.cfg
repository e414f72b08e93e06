SPECIFICATION MCFairSpec
CONSTANTS
  EVN = EVN
  ODD = ODD
  Groups <- MCGroups
  Layouts <- MCLayouts
INVARIANTS
  LoopSeesFreshBorders
  EdgesRight
PROPERTIES
  BuffersHeld
  BordersEnd
