SPECIFICATION AllSpec
CONSTANTS
  MaxPid = 3
  MaxStages = 2
  MaxStops = 3
  MAX_JOBS = 3
  Menus = {{"bg"}, {"bg", "fg"}, {"bg", "fg", "resume_bg", "resume_fg"}}
  Lines <- ShortLines
  MAX_PIPE_COMMANDS = 2
  LineSize = 11
  Texts <- ShortTexts
  ChunkSizes = {1, 2, 3}
  Names = {"a", "b"}
  MaxArgs = 3
  MaxDirs = 2
  Dirs = {"home", "a", "b"}
  Home = "home"
  NoDir = "none"
  MaxHistory = 2
  Weight = 2
  MaxTime = 2
  MaxHops = 4
  MaxText = 5
  MAXARGS = 3
  MaxHeap = 12
  NALLOC = 4
  Requests = {1, 2, 5}
  Size = 4
  W = 8
  FormatChars = {"%", "d", "l", "u", "x", "p", "c", "s", "q"}
  Room = 5
INVARIANTS
  JobsSound RunsAsWritten RedirectsAsWritten BuiltinsExact
  SyntaxExact HeapSound TextExact
