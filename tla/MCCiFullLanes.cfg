SPECIFICATION FairSpec
CHECK_DEADLOCK FALSE
CONSTANTS
  MaxRuns = 1
  Sh4Steps <- AllSteps
  BenchSteps <- TwoArchs
  Legacy <- NoPoints
  Images = {"full", "nosize", "noqemu"}
  Faults = {"timeout", "upload"}
INVARIANT TypeOK
INVARIANT ZeroMeansSkipped
INVARIANT WorkingArchAdvances
INVARIANT PanelsAgree
PROPERTY EveryRunDeployed
