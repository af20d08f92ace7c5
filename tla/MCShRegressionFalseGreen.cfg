SPECIFICATION Spec
CONSTANTS
  DjTests = {d1}
  SimTests = {}
  MaxCommit = 3
  MaxRuns = 3
  MaxDispatch = 0
  PerPage = 3
  Faults = {}
INVARIANT GreenMeansFixed
CHECK_DEADLOCK FALSE
