SPECIFICATION AllSpec
CONSTANTS
  NHart = 3
  NLocks = 2
  NPROC = 3
  MaxPid = 4
  Procs = {"p1", "p2", "p3"}
  NUM = 7
  N = 3
  PipeSize = 1
  Produce = 3
  MAXARGS = 3
  MaxLines = 2
  MaxFailures = 1
INVARIANTS LocksSound FamilySound RequestsSound LineAsWritten
PROPERTIES OrphansReaped RequestsReturn PipelineEnds PromptReturns
