\* All four scenarios on a board with its drive plugged in, at the demo's own
\* sizes and with the timing it is built on.
SPECIFICATION Spec
CONSTANTS
  PoolSize = 12
  Slots <- MCSlots
  GenModulus = 1
  Answers <- DemoAnswers
  NoAnswer = NoAnswer
  Clients = {"Happy", "QTimeout", "LateDone", "AbaIso"}
  Blocks <- DemoBlocks
  SlowBlock <- DemoSlowBlock
  Values <- DemoValues
  Blank <- DemoBlank
  Payloads <- MCPayloads
  QueueDepth = 8
  Punctual = TRUE
  MediaFails = FALSE
  VolumeFills = FALSE
  FalseBlank = FALSE
  NoRequest = NoRequest
  Script <- MCScript
  NoFuture = NoFuture
  TimeoutAnswer <- DemoTimeout
  Stoppable <- NoTasks
INVARIANTS
  ScenariosPass
  SizedForOverlap
VIEW DemoView
