\* A drive and its successor, refusals, stalls and time-outs, and one tick between
\* a test and the lock.
SPECIFICATION Spec
CONSTANTS
  Stick = Stick
  FourK = FourK
  Drives <- MCDrives
  NoDrive = NoDrive
  NoHandle = NoHandle
  NoInfo = NoInfo
  NoOp = NoOp
  Retries = 1
  Sectors <- MCSectors
  SectorCount <- MCSectorCount
  Odd <- MCOdd
  MaxOvertake = 1
INVARIANTS
  DiskTypeOK
  ReadyMeansClass
  TransferKeepsHandle
  TransfersFit
  OkWasAnswered
PROPERTIES
  UnplugNoticed
  ReplugRecovers
