CONSTANTS
  None = None
  MaxAttempts = 1
  KeepData = {TRUE, FALSE}
  KeepExtern = {TRUE}
  Commands = {"A", "L", "Q", "TERM"}
  Budget = 4

SPECIFICATION Spec

INVARIANTS
  OneUser

PROPERTIES
  ModemComesBack
