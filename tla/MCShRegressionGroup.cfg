SPECIFICATION FairSpec
CONSTANTS
  DjTests = {d1}
  SimTests = {}
  MaxCommit = 1
  MaxRuns = 2
  MaxDispatch = 2
  PerPage = 2
  Faults = {"abort"}
INVARIANTS TypeOK OneOpenIssue CloseIsLater
PROPERTY EveryRunConcludes
CHECK_DEADLOCK FALSE
