\* A command that the drive fails is reported as done.
SPECIFICATION Spec
CONSTANTS
  Stick = Stick
  FourK = FourK
  Drives <- MCDrives
  NoDrive = NoDrive
  NoHandle = NoHandle
  NoInfo = NoInfo
  NoOp = NoOp
  Retries = 1
  Sectors <- MCSectors
  SectorCount <- MCSectorCount
  Odd <- MCOdd
  MaxOvertake = 1
INVARIANTS
  FailureIsReported
