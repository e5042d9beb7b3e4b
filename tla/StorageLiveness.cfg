\* The scenario with the most futures, fair tasks, timeouts and media that comes
\* and goes, generations that wrap, and a requester that may be stopped.
SPECIFICATION FairSpec
CONSTANTS
  PoolSize = 2
  Slots <- MCSlots
  GenModulus = 2
  Answers <- DemoAnswers
  NoAnswer = NoAnswer
  Clients = {"AbaIso"}
  Blocks <- DemoBlocks
  SlowBlock <- DemoSlowBlock
  Values <- DemoValues
  Blank <- DemoBlank
  Payloads <- MCPayloads
  QueueDepth = 2
  Punctual = FALSE
  MediaFails = TRUE
  VolumeFills = FALSE
  FalseBlank = FALSE
  NoRequest = NoRequest
  Script <- MCScript
  NoFuture = NoFuture
  TimeoutAnswer <- DemoTimeout
  Stoppable <- AllClients
PROPERTIES
  SlotsRecycle
  StopsAreObeyed
  MediaRecovers
