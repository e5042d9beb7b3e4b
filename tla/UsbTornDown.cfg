\* The status is tested before the lock is taken: a tick in between tears the class
\* down under the caller.
SPECIFICATION Spec
CONSTANTS
  Stick = Stick
  FourK = FourK
  Drives <- MCDrives
  NoDrive = NoDrive
  NoHandle = NoHandle
  NoInfo = NoInfo
  NoOp = NoOp
  Retries = 1
  Sectors <- MCSectors
  SectorCount <- MCSectorCount
  Odd <- MCOdd
  MaxOvertake = 1
INVARIANTS
  ClassOutlivesCallers
