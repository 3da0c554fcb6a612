CONSTANTS
  Processes = {p1, p2, p3}
  NoFile = NoFile
  LockTimeout = TRUE

SPECIFICATION FairSpec

INVARIANTS
  ExclusiveUntilDeath

PROPERTY
  StaleIsPurged
