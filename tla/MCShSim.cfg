SPECIFICATION Spec
CONSTANTS
  Isas <- TwoIsas
  Tests <- GapTests
  Known = {"compare-fp-1"}
  BadgeGaps = {"compare-fp-1"}
  MaxRuns = 2
  Faults = {"nosum", "timeout", "red"}
INVARIANTS TypeOK ReportedIsNew NoneMissed BadgeAgrees
CHECK_DEADLOCK FALSE
