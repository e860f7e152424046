SPECIFICATION AllSpec
CONSTANTS
  Procs = {"p1", "p2"}
  Blocks = {"k1", "k2", "k3"}
  Values = {0, 1}
  NBUF = 2
  ConsReaders = {"r1", "r2"}
  Char = {"x"}
  INPUT_BUF_SIZE = 3
  IndexMod = 6
  MaxRead = 2
  NPROC = 2
  PageCounts = {12, 15}
  PGSIZE = 2
  NPages = 4
  MaxArg = 1
  MaxGrow = 2
INVARIANTS BuffersSound NobodySleepsInVain MemorySound
PROPERTY LineDiscipline
