SPECIFICATION Spec
CONSTANTS
  Threads <- MCThreads
  Master = 0
  Slots = {s1, s2, s3}
  Addrs = {a1, a2, a3}
  MainVect = MainVect
  Null = Null
  Sizes <- MCSizes
  MaxOps = 5
SYMMETRY Symmetry
INVARIANTS
  SameVector
  NoUseAfterFree
  MemoryAccounted
PROPERTIES
  ImplementsVectorList
