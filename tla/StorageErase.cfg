\* One requester, media that comes and goes, and a drive that may refuse the read of
\* the boot sector, which the USB library reports as done.
SPECIFICATION Spec
CONSTANTS
  PoolSize = 2
  Slots <- MCSlots
  GenModulus = 2
  Answers <- DemoAnswers
  NoAnswer = NoAnswer
  Clients = {"Happy"}
  Blocks <- DemoBlocks
  SlowBlock <- DemoSlowBlock
  Values <- DemoValues
  Blank <- DemoBlank
  Payloads <- MCPayloads
  QueueDepth = 1
  Punctual = FALSE
  MediaFails = TRUE
  VolumeFills = FALSE
  FalseBlank = TRUE
  NoRequest = NoRequest
  Script <- MCScript
  NoFuture = NoFuture
  TimeoutAnswer <- DemoTimeout
  Stoppable <- NoTasks
PROPERTIES
  FormatErasesNothing
