CONSTANTS
  j1 = j1
  j2 = j2
  j3 = j3
  d1 = d1
  d2 = d2
  m1 = m1
  m2 = m2
  Jobs = {j1, j2, j3}
  Modems = {m1, m2}
  Dests = {d1}
  DestOf <- OneDest
  NoJob = NoJob
  NoModem = NoModem
  NoDest = NoDest
  MaxConcurrentCalls = 1
  MaxConcurrentPreps = 1
  MaxBatchJobs = 2
  MaxTries = 2
  PrepOutcomes = {"yes", "no"}
  Refusals = {}
  Commands = {}
  MaxCommands = 0
  ModemMessages = {}
  KillTimers = FALSE
  ForkMayFail = FALSE
  Uncounted = TRUE
  OtherLockers = FALSE
  ModemOf <- AnyModem
  IgnoreModemBusy = {}
  ConfigRereads = FALSE

SPECIFICATION Spec
SYMMETRY AllAlike

INVARIANTS
  NoFault
  ModemAccounted
  SleeperHasTimer

\* the process stops on quit or a fault, or has nothing left to do
CHECK_DEADLOCK FALSE
