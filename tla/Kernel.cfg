SPECIFICATION AllSpec
CONSTANTS
  u0 = u0
  u1 = u1
  Harts = {"h1", "h2"}
  Proc = {"p1"}
  PCs = {u0, u1}
  After <- FlipPC
  Nil = Nil
  NPROC = 3
  Cpus = {"h1", "h2"}
  Cpu0 = "h1"
  MaxTicks = 1
  Unlocked = "unlocked"
  Procs = {"p1", "p2"}
  First = "p1"
  NFILE = 3
  NOFILE = 2
  NoProc = NoProc
  Inums = {i1, i2}
  BlockProcs = {b1, b2}
  NBLOCKS = 5
  BSIZE = 2
  NDIRECT = 1
  BPB = 1
  MAXOPBLOCKS = 6
  Lengths = {1, 4}
  MaxCalls = 3
  Writers = {"w1", "w2"}
  Putters = {"q1", "q2"}
  MaxN = 2
  FifoSize = 3
SYMMETRY BlockSymmetry
INVARIANTS Resumes OldestFirst WaitingBounded FilesExact BlocksAccounted ReadsBack OutputFlows
