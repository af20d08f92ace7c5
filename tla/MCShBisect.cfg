SPECIFICATION FairSpec
CONSTANTS
  N = 3
  Types = {"script", "metric", "dejagnu", "sh-sim"}
  Cached = {"script", "metric"}
  MaxSessions = 2
  Faults = {"revparse", "nosum", "fetch", "restore", "pack", "measure", "kill", "flaky"}
INVARIANT CulpritSound
PROPERTIES SessionEnds RefinesFirstBad
CHECK_DEADLOCK FALSE
