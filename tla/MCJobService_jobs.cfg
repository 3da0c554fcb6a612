CONSTANTS
  s1 = s1
  j1 = j1
  None = None
  Sessions = {s1}
  Jobs = {j1}
  Tids = {0}
  Commands = {"JNEW", "JOB", "JPARM", "JREST", "JSUBM", "JSUSP", "JKILL", "JDELE", "JWAIT", "QUIT"}
  Urgent = TRUE
  MaxRev = 1
  MaxCalls = 2
  MaxRestarts = 1

SPECIFICATION Spec

INVARIANTS
  ConfirmedKept

PROPERTIES
  TouchesOnlyInert
  NoSecondSending
  AnswersCome
  WaitForJobEnds

\* nothing need happen once the client is gone
CHECK_DEADLOCK FALSE
