SPECIFICATION FairSpec
CONSTANTS
  p1 = p1
  p2 = p2
  p3 = p3
  b1 = b1
  b2 = b2
  v1 = v1
  v2 = v2
  Procs <- ThreeProcs
  Blocks <- TwoBlocks
  Data <- TwoValues
  LOGBLOCKS = 6
  MAXOPBLOCKS = 3
  OpBlocks = 2
INVARIANTS LogSound SyncIsDurable
PROPERTIES Atomic SleepersWake
