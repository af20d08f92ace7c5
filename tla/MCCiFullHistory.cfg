SPECIFICATION Spec
CHECK_DEADLOCK FALSE
CONSTANTS
  MaxRuns = 2
  Sh4Steps <- FewSteps
  BenchSteps <- OneArch
  Legacy <- OldPoints
  Images = {"full"}
  Faults = {"download", "shields", "timeout", "cancel"}
INVARIANT OneNamePerSeries
INVARIANT BadgesMatchHistory
PROPERTY HistoryKept
