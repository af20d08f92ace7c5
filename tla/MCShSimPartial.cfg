SPECIFICATION Spec
CONSTANTS
  Isas <- OneIsa
  Tests <- PlainTests
  Known = {"compare-fp-1"}
  BadgeGaps = {"compare-fp-1"}
  MaxRuns = 2
  Faults = {"timeout"}
INVARIANT OldFailuresNotReported
CHECK_DEADLOCK FALSE
