\* One requester and media that may go between f_mount and f_open.
SPECIFICATION Spec
CONSTANTS
  PoolSize = 2
  Slots <- MCSlots
  GenModulus = 2
  Answers <- DemoAnswers
  NoAnswer = NoAnswer
  Clients = {"Happy"}
  Blocks <- DemoBlocks
  SlowBlock <- DemoSlowBlock
  Values <- DemoValues
  Blank <- DemoBlank
  Payloads <- MCPayloads
  QueueDepth = 1
  Punctual = FALSE
  MediaFails = TRUE
  VolumeFills = FALSE
  FalseBlank = FALSE
  NoRequest = NoRequest
  Script <- MCScript
  NoFuture = NoFuture
  TimeoutAnswer <- DemoTimeout
  Stoppable <- NoTasks
PROPERTIES
  FlagsOnlyRise
