CONSTANTS
  Jobs = {"j1", "j2"}
  Docs <- TwoJobs
  MaxDials = 3
  MaxTries = 2
  RetryMax = 1
  Share = FALSE
  NoFailBusy = TRUE
  MaxBatchJobs = 2
  Faults = {"abort", "crash", "slow", "vanish", "format"}
  MaxFaults = 1

SPECIFICATION Spec

INVARIANTS
  PagesAccounted
  DoneMeansSent
  BatchOutcome
  LimitsKept

PROPERTIES
  JobsEnd
