\* Two requesters, a pool and a queue small enough to run out, generations that
\* wrap, waits that time out at any moment, media that comes and goes, a servicer
\* that may be stopped; against BlockStore too.
SPECIFICATION Spec
CONSTANTS
  PoolSize = 2
  Slots <- MCSlots
  GenModulus = 2
  Answers <- DemoAnswers
  NoAnswer = NoAnswer
  Clients = {"Happy", "LateDone"}
  Blocks <- DemoBlocks
  SlowBlock <- DemoSlowBlock
  Values <- DemoValues
  Blank <- DemoBlank
  Payloads <- MCPayloads
  QueueDepth = 1
  Punctual = FALSE
  MediaFails = TRUE
  VolumeFills = TRUE
  FalseBlank = FALSE
  NoRequest = NoRequest
  Script <- MCScript
  NoFuture = NoFuture
  TimeoutAnswer <- DemoTimeout
  Stoppable = {"StorageSvc"}
INVARIANTS
  TypeOK
  PromisesExclusive
  FuturesExclusive
  NoSlotLost
  ServicerReady
PROPERTIES
  FormatErasesNothing
  ImplementsBlockStore
