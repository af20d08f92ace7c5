SPECIFICATION DFairSpec
CONSTANTS
  N = 3
  Types = {"script", "metric"}
  Cached = {"script", "metric"}
  MaxSessions = 4
  Faults = {"restore", "flaky", "kill"}
  MaxDrivers = 2
  KeepCache = FALSE
  DriverFaults = {"unequipped", "network", "stop"}
INVARIANTS DriverTypeOK VerdictHonest TarballsFaithful SummaryTrue ReportShowsIce
PROPERTIES CacheKeptForRetry RunAnswers
CHECK_DEADLOCK FALSE
