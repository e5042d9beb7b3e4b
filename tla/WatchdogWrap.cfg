\* A task and the watchdog on a board, with a clock that wraps.  The board stops
\* at a reset.
SPECIFICATION Spec
CONSTANTS
  Order <- OneWorker
  Capacity = 3
  NoName = NoName
  Concurrent = FALSE
  TimeModulus = 14
  HealthTimeout = 3
  Interval = 1
  MaxGap = 2
  Iwdg = 4
  MaxHangs = 1
  Wraps = TRUE
INVARIANTS
  LockupReachesReset
CHECK_DEADLOCK FALSE
