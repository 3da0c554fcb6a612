CONSTANTS
  SECOND = 3
  MaxSeconds = 5
  Delays = {0, 1}

SPECIFICATION Spec

INVARIANTS
  PokeNotLost
  PendingTimer
