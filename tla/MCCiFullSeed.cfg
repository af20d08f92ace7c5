SPECIFICATION Spec
CHECK_DEADLOCK FALSE
CONSTANTS
  MaxRuns = 2
  Sh4Steps <- FewSteps
  BenchSteps <- OneArch
  Legacy <- OldPoints
  Images = {"full"}
  Faults = {"seed"}
PROPERTY HistoryKept
