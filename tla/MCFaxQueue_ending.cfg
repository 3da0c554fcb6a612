CONSTANTS
  j1 = j1
  j2 = j2
  j3 = j3
  d1 = d1
  d2 = d2
  m1 = m1
  m2 = m2
  Jobs = {j1, j2}
  Modems = {m1}
  Dests = {d1}
  DestOf <- OneDest
  NoJob = NoJob
  NoModem = NoModem
  NoDest = NoDest
  MaxConcurrentCalls = 1
  MaxConcurrentPreps = 1
  MaxBatchJobs = 1
  MaxTries = 1
  PrepOutcomes = {"no"}
  Refusals = {}
  Commands = {"X", "Y", "K", "Q"}
  MaxCommands = 1
  ModemMessages = {}
  KillTimers = FALSE
  ForkMayFail = FALSE
  Uncounted = TRUE
  OtherLockers = FALSE
  ModemOf <- OneForM1
  IgnoreModemBusy = {j1}
  ConfigRereads = FALSE

SPECIFICATION FairSpec

PROPERTIES
  BlockedReleased
  EachJobEnds
  WaitEnds
  QuitCompletes

\* the process stops on quit or a fault, or has nothing left to do
CHECK_DEADLOCK FALSE
