CONSTANTS
  j1 = j1
  j2 = j2
  j3 = j3
  d1 = d1
  d2 = d2
  m1 = m1
  m2 = m2
  Jobs = {j1, j2}
  Modems = {m1, m2}
  Dests = {d1}
  DestOf <- OneDest
  NoJob = NoJob
  NoModem = NoModem
  NoDest = NoDest
  MaxConcurrentCalls = 0
  MaxConcurrentPreps = 1
  MaxBatchJobs = 1
  MaxTries = 1
  PrepOutcomes = {"yes", "no", "reject"}
  Refusals = {"submit", "stagger"}
  Commands = {}
  MaxCommands = 0
  ModemMessages = {"R", "B", "D", "E"}
  KillTimers = TRUE
  ForkMayFail = TRUE
  Uncounted = FALSE
  OtherLockers = TRUE
  ModemOf <- AnyModem
  IgnoreModemBusy = {}
  ConfigRereads = TRUE

SPECIFICATION Spec
SYMMETRY ModemsAlike

INVARIANTS
  TypeOK
  ModemExclusive
  NoStranded
  RunnableIsScheduled

\* the process stops on quit or a fault, or has nothing left to do
CHECK_DEADLOCK FALSE
