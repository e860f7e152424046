SPECIFICATION Spec
CONSTANTS
  MaxPid = 2
  MaxStages = 1
  MaxStops = 3
  MAX_JOBS = 2
  Menus = {{"fg", "resume_fg"}}
INVARIANT NeverStuck
