SPECIFICATION Spec
CONSTANTS
  c0 = c0
  c1 = c1
  NPROC = 2
  CPUs <- TwoHarts
  Boot = c0
  Slice <- ShortSlice
  BoostPeriod = 3
INVARIANTS QueuesExact SchedulerSafe
PROPERTY LevelSteps
