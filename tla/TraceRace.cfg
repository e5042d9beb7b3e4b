\* Two tasks of the host, where a created thread runs at once.
SPECIFICATION TraceSpec
CONSTANTS
  Order <- HostTasks
  Capacity = 4
  NoName = NoName
  Concurrent = TRUE
  TimeModulus = 1
INVARIANTS
  OneRecordPerTask
