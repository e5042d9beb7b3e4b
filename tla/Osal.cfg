\* Two senders and a receiver on a queue of two, in three implementations, with
\* an interrupt that sends where there is one; a mutex and three tasks of different
\* priorities; the self-test with its pool of two and two events to spare.
SPECIFICATION Spec
CONSTANTS
  s1 = s1
  s2 = s2
  i1 = i1
  r1 = r1
  a = a
  b = b
  Senders = {s1, s2}
  Receivers = {r1}
  Interrupts = {i1}
  Items = {a, b}
  Sends <- MCSends
  Waits <- MCWaits
  Rank <- MCRank
  MutexTasks = {1, 2, 3}
  Base <- MCBase
  NoTask = NoTask
  Capacity = 2
  Blank = Blank
  Slots <- MCTestSlots
  GenModulus = 2
  Answers <- MCAnswers
  NoAnswer = NoAnswer
  TestDepth = 2
  Events <- MCEvents
  NoEvent = NoEvent
  NoHeld = NoHeld
INVARIANTS
  PosixTypeOK
  NoWakeUpLost
  TxTypeOK
  SlotsConserved
  PostsNeverFail
  FrTypeOK
  NoneForgotten
  MutexSound
  TestTypeOK
  FailuresAreLate
  EventsReturn
PROPERTIES
  PosixImplements
  TxImplements
  FrImplements
  TestStops
  BatteryRecovers
CHECK_DEADLOCK FALSE
