CONSTANTS
  j1 = j1
  j2 = j2
  j3 = j3
  d1 = d1
  d2 = d2
  m1 = m1
  m2 = m2
  Jobs = {j1, j2, j3}
  Modems = {m1, m2}
  Dests = {d1, d2}
  DestOf <- TwoDests
  NoJob = NoJob
  NoModem = NoModem
  NoDest = NoDest
  MaxConcurrentCalls = 1
  MaxConcurrentPreps = 1
  MaxBatchJobs = 1
  MaxTries = 1
  PrepOutcomes = {"yes"}
  Refusals = {}
  Commands = {"X", "K", "Q"}
  MaxCommands = 2
  ModemMessages = {}
  KillTimers = FALSE
  ForkMayFail = FALSE
  Uncounted = TRUE
  OtherLockers = FALSE
  ModemOf <- AnyModem
  IgnoreModemBusy = {}
  ConfigRereads = FALSE

SPECIFICATION Spec
SYMMETRY PairAlike

INVARIANTS
  AssertsHold
  QuitWaits
  SuspendedInert

PROPERTIES
  DoneIsDone

\* the process stops on quit or a fault, or has nothing left to do
CHECK_DEADLOCK FALSE
