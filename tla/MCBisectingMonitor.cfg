SPECIFICATION BFairSpec
CONSTANTS
  DjTests = {}
  SimTests = {s1}
  MaxCommit = 3
  MaxRuns = 3
  MaxDispatch = 0
  PerPage = 3
  Faults = {"expire"}
  Matched <- OneFile
  PredicateFaults = {}
INVARIANTS BTypeOK CulpritBroughtItIn RangeBoundsTheFailure
PROPERTIES RefinesMonitor RefinesWatchdog RefinesQueue BrokenHeadReported
CHECK_DEADLOCK FALSE
