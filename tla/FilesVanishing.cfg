SPECIFICATION AllSpec
CONSTANTS
  Parts = {"inodes"}
  Writers = {"w1", "w2"}
  Readers = {"r1", "r2"}
  Killable = {"w1"}
  Byte = {0, 1}
  PIPESIZE = 2
  UintMod = 4
  MaxN = 2
  Callers = {"p1", "p2"}
  NoProc = "nobody"
  NINODES = 3
  Names = {"a", "b"}
  NFILE = 1
  Menus <- VanishingMenus
  Starts = {"dir"}
  MaxCalls = 3
  MaxCrashes = 1
INVARIANT LinksExact
