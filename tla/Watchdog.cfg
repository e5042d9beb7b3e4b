\* Two tasks and the watchdog on a board, from boot until its clock would wrap.  The board stops
\* at a reset.
SPECIFICATION Spec
CONSTANTS
  Order <- BoardTasks
  Capacity = 4
  NoName = NoName
  Concurrent = FALSE
  TimeModulus = 12
  HealthTimeout = 3
  Interval = 1
  MaxGap = 2
  Iwdg = 4
  MaxHangs = 1
  Wraps = FALSE
INVARIANTS
  WatchdogTypeOK
  OneRecordPerTask
  NoFalseAlarm
  NoResetWithoutDiagnosis
  LockupReachesReset
CHECK_DEADLOCK FALSE
