SPECIFICATION Spec
CONSTANTS
  DjTests = {d1}
  SimTests = {s1}
  MaxCommit = 3
  MaxRuns = 3
  MaxDispatch = 0
  PerPage = 2
  Faults = {"download", "expire"}
INVARIANTS GoodBoundPasses RangePointsForward QuietMeansNoNewFailure
CHECK_DEADLOCK FALSE
