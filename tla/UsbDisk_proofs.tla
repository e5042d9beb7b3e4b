--------------------------- MODULE UsbDisk_proofs ---------------------------
(***************************************************************************)
(* Theorems about the USB disk, for any drives, sectors and bounds.        *)
(***************************************************************************)
EXTENDS UsbDisk, TLAPS

(* What the host's state machine keeps in step: the class and its data come*)
(* and go together, are there whenever the class is at work, and a unit    *)
(* that was reported as fine has a capacity.                               *)
HostInv ==
  /\ class <=> handle # NoHandle
  /\ gState \in {"CLASS_REQUEST", "CLASS"} => class
  /\ gState # "ABORT" => tries.reset <= Retries /\ tries.enum <= Retries
  /\ handle # NoHandle /\ handle.state # "INIT" /\ handle.error = "OK" => handle.capacity # NoDrive
  /\ ReadyMeansClass

(* Who has the lock is who is in the library, the op of a call under way is*)
(* known, and a command in progress has its unit to itself.                *)
CallerInv ==
  /\ lock = "process" <=> proc = "process"
  /\ lock = "disk" <=> caller = "pump"
  /\ caller \in AtLock \cup {"pump"} => op \in Ops /\ op.fn # "sync"
  /\ caller \in {"transfer", "translate", "pump"} => op.fn \in Transfers
  /\ caller \in AtLock /\ lock = "process" => ticks < MaxOvertake
  /\ caller = "pump" => gState \in {"CLASS", "IDLE"}
  /\ TransferKeepsHandle

Inv == DiskTypeOK /\ HostInv /\ CallerInv

-----------------------------------------------------------------------------
\* The library under its task

(* What UsbAssumption says of the bound                                    *)
LEMMA RetriesNat == Retries \in Nat
  BY UsbAssumption DEF UsbAssumption

USE RetriesNat

HostOK == UsbTypeOK /\ HostInv

(* The sequence of the enumeration requests has six.                       *)
LEMMA EnumRange == DOMAIN EnumStates = 1 .. 6 /\ Len(EnumStates) = 6
  BY DEF EnumStates

LEMMA FreshHandleOK == FreshHandle \in Handles
  BY DEF FreshHandle, Handles, UnitStates, Senses

LEMMA StatusOK ==
  ASSUME UsbTypeOK, NEW event
  PROVE  AfterUserProcess(event) \in {"disconnected", "connected", "ready"}
  BY DEF AfterUserProcess, UsbTypeOK

(* Plugging, unplugging and the port's flags touch none of the library.    *)
LEMMA PortKeeps ==
  ASSUME HostOK, Plug \/ Unplug \/ PortEnabled \/ PortDisabled \/ ProcessInit
  PROVE  HostOK'
<1>1. UsbTypeOK'
  <2>0. port' \in Ports
    <3>1. port \in Ports
      BY DEF HostOK, UsbTypeOK
    <3>2. CASE Plug
      BY <3>1, <3>2 DEF Plug, Ports
    <3>3. CASE Unplug
      BY <3>1, <3>3 DEF Unplug, Ports
    <3>4. CASE PortEnabled \/ PortDisabled
      BY <3>1, <3>4 DEF PortEnabled, PortDisabled, Ports
    <3>5. CASE ProcessInit
      BY <3>1, <3>5 DEF ProcessInit, Ports
    <3> QED  BY <3>2, <3>3, <3>4, <3>5
  <2>1. CASE Plug \/ Unplug
    BY <2>0, <2>1 DEF HostOK, UsbTypeOK, Plug, Unplug, libVars
  <2>2. CASE PortEnabled \/ PortDisabled
    BY <2>2 DEF HostOK, UsbTypeOK, PortEnabled, PortDisabled, libVars, Ports
  <2>3. CASE ProcessInit
    BY <2>3 DEF HostOK, UsbTypeOK, ProcessInit, libVars, Ports
  <2> QED  BY <2>1, <2>2, <2>3
<1>2. HostInv'
  BY DEF HostOK, HostInv, ReadyMeansClass, Plug, Unplug, PortEnabled, PortDisabled, ProcessInit,
         libVars
<1> QED  BY <1>1, <1>2 DEF HostOK

(* Getting the lock and stopping neither.                                  *)
LEMMA TaskKeeps ==
  ASSUME HostOK, ProcessLock \/ ProcessStops
  PROVE  HostOK'
  BY DEF HostOK, UsbTypeOK, HostInv, ReadyMeansClass, ProcessLock, ProcessStops, libVars

(* A control transfer that fails for good takes the host to its beginning. *)
LEMMA ControlFailsKeeps ==
  ASSUME HostOK, ControlFails, gState # "ABORT",
         proc' \in {"init", "top", "process", "stopped"}, lock' \in {"free", "process", "disk"}
  PROVE  HostOK'
<1>1. status' \in {"disconnected", "connected"} \/ status' = "disconnected"
  BY DEF ControlFails, AfterUserProcess
<1>2. UsbTypeOK'
  BY <1>1 DEF HostOK, UsbTypeOK, ControlFails, HostStates
<1>3. HostInv'
  BY <1>1 DEF HostOK, HostInv, ReadyMeansClass, ControlFails, AfterUserProcess
<1> QED  BY <1>2, <1>3 DEF HostOK

LEMMA TickDisconnectedKeeps ==
  ASSUME HostOK, TickDisconnected
  PROVE  HostOK'
<1>0. class' = FALSE /\ handle' = IF class THEN NoHandle ELSE handle
  BY DEF TickDisconnected, DeInitClass
<1>1. status' = "disconnected"
  BY DEF TickDisconnected, AfterUserProcess
<1>2. UsbTypeOK'
  <2>0. port \in Ports
    BY DEF HostOK, UsbTypeOK
  <2>1. port' \in Ports
    BY <2>0 DEF TickDisconnected, Ports
  <2>3. gState' \in HostStates /\ enum' \in DOMAIN EnumStates
    BY EnumRange DEF TickDisconnected, Restart, HostStates
  <2>2. tries' \in [reset : 0 .. Retries + 1, enum : 0 .. Retries + 1]
    BY DEF TickDisconnected, Restart
  <2> QED  BY <1>0, <1>1, <2>1, <2>2, <2>3 DEF HostOK, UsbTypeOK, TickDisconnected, Ticking
<1>3. HostInv'
  BY <1>0, <1>1 DEF HostOK, HostInv, ReadyMeansClass, TickDisconnected, Ticking, Restart, UsbTypeOK
<1> QED  BY <1>2, <1>3 DEF HostOK

(* The states before the class                                             *)
LEMMA TickEarlyKeeps ==
  ASSUME HostOK, TickIdle \/ TickWait \/ TickAttached \/ TickConfigure
  PROVE  HostOK'
<1>1. CASE TickIdle
  BY <1>1 DEF HostOK, UsbTypeOK, HostInv, ReadyMeansClass, TickIdle, TickIn, Ticking, HostStates
<1>2. CASE TickWait
  <2>1. tries' \in [reset : 0 .. Retries + 1, enum : 0 .. Retries + 1]
    BY <1>2 DEF HostOK, UsbTypeOK, HostInv, TickWait, TickIn
  <2>2. gState' \in HostStates /\ flawed' \in BOOLEAN
    BY <1>2 DEF HostOK, UsbTypeOK, TickWait, HostStates
  <2>3. UsbTypeOK'
    BY <1>2, <2>1, <2>2 DEF HostOK, UsbTypeOK, TickWait, TickIn, Ticking
  <2>4. HostInv'
    BY <1>2 DEF HostOK, UsbTypeOK, HostInv, ReadyMeansClass, TickWait, TickIn
  <2> QED  BY <2>3, <2>4 DEF HostOK
<1>3. CASE TickAttached
  BY <1>3 DEF HostOK, UsbTypeOK, HostInv, ReadyMeansClass, TickAttached, TickIn, Ticking,
              HostStates, AfterUserProcess
<1>4. CASE TickConfigure
  BY <1>4
  DEF HostOK, UsbTypeOK, HostInv, ReadyMeansClass, TickConfigure, TickIn, Ticking, HostStates
<1> QED  BY <1>1, <1>2, <1>3, <1>4

LEMMA TickEnumerationKeeps ==
  ASSUME HostOK, TickEnumeration \/ TickConfigureFails
  PROVE  HostOK'
<1>1. gState # "ABORT" /\ Ticking /\ gState # "CLASS"
  BY DEF TickEnumeration, TickConfigureFails, TickIn
<1>2. CASE ControlFails
  BY <1>1, <1>2, ControlFailsKeeps DEF Ticking
<1>3. CASE EnumAnswered
  BY <1>1, <1>3, EnumRange
     DEF HostOK, UsbTypeOK, HostInv, ReadyMeansClass, EnumAnswered, Ticking, HostStates
<1>4. CASE EnumRefused
  BY <1>1, <1>4, EnumRange
     DEF HostOK, UsbTypeOK, HostInv, ReadyMeansClass, EnumRefused, Ticking, HostStates
<1> QED  BY <1>2, <1>3, <1>4 DEF TickEnumeration, TickConfigureFails

LEMMA TickCheckClassKeeps ==
  ASSUME HostOK, TickCheckClass \/ TickClassRequest
  PROVE  HostOK'
<1>1. CASE TickCheckClass
  <2>1. UsbTypeOK'
    <3>1. gState' \in HostStates /\ flawed' \in BOOLEAN
      BY <1>1 DEF HostOK, UsbTypeOK, TickCheckClass, HostStates
    <3> QED  BY <1>1, <3>1, FreshHandleOK DEF HostOK, UsbTypeOK, TickCheckClass, TickIn, Ticking
  <2>2. HostInv'
    <3>1. handle' # NoHandle /\ handle'.state = "INIT"
      BY <1>1, FreshHandleOK, UsbAssumption DEF TickCheckClass, FreshHandle, UsbAssumption
    <3> QED
      BY <1>1, <3>1 DEF HostOK, HostInv, ReadyMeansClass, TickCheckClass, TickIn
  <2> QED  BY <2>1, <2>2 DEF HostOK
<1>2. CASE TickClassRequest
  BY <1>2 DEF HostOK, UsbTypeOK, HostInv, ReadyMeansClass, TickClassRequest, TickIn, Ticking,
              HostStates, AfterUserProcess
<1> QED  BY <1>1, <1>2

\* HOST_CLASS

(* With the class at work there is a handle.                               *)
LEMMA ClassHasHandle ==
  ASSUME HostOK, gState = "CLASS"
  PROVE  handle \in Handles /\ handle # NoHandle
  BY DEF HostOK, UsbTypeOK, HostInv

(* A tick of the class that leaves a handle of the right kind, and either  *)
(* the status or a status that the handle justifies.                       *)
LEMMA ClassTickKeeps ==
  ASSUME HostOK, TickClass, flawed' \in BOOLEAN,
         handle' \in Handles, handle' # NoHandle,
         handle'.state # "INIT" /\ handle'.error = "OK" => handle'.capacity # NoDrive,
         \/ status' = status /\ (handle.capacity # NoDrive => handle'.capacity # NoDrive)
         \/ status' = "disconnected"
         \/ status' = "ready" /\ handle'.capacity # NoDrive
  PROVE  HostOK'
<1>1. UsbTypeOK'
  BY DEF HostOK, UsbTypeOK, TickClass, TickIn, Ticking
<1>2. HostInv'
  BY DEF HostOK, UsbTypeOK, HostInv, ReadyMeansClass, TickClass, TickIn
<1> QED  BY <1>1, <1>2 DEF HostOK

LEMMA TickUnitKeeps ==
  ASSUME HostOK, TickUnit \/ TickUnitRefuses
  PROVE  HostOK'
<1>0. /\ handle \in Handles /\ handle # NoHandle /\ TickClass
      /\ flawed \in BOOLEAN /\ drive \in Drives \cup {NoDrive}
  BY ClassHasHandle DEF TickUnit, TickUnitRefuses, TickClass, TickIn, HostOK, UsbTypeOK
<1>1. ASSUME NEW s \in UnitStates, UnitBecomes(s), handle.state = "INIT"
      PROVE  HostOK'
  <2>1. handle' \in Handles /\ handle'.state = "INIT" /\ handle'.capacity = handle.capacity
    BY <1>0, <1>1 DEF UnitBecomes, Handles
  <2>2. handle' # NoHandle
    BY <2>1, UsbAssumption DEF UsbAssumption
  <2> QED  BY <1>0, <1>1, <2>1, <2>2, ClassTickKeeps DEF UnitBecomes
<1>2. CASE /\ Reachable
           /\ handle' = [handle EXCEPT !.unit = "IDLE", !.error = "OK",
                                       !.capacity = drive, !.state = "USER_NOTIFY"]
           /\ UNCHANGED <<flawed, status>>
  <2>1. drive # NoDrive
    BY <1>2 DEF Reachable
  <2>2. handle' \in Handles /\ handle'.capacity = drive
    BY <1>0, <1>2 DEF Handles, UnitStates
  <2>3. handle' # NoHandle
    BY <2>2, UsbAssumption DEF UsbAssumption
  <2> QED  BY <1>0, <1>2, <2>1, <2>2, <2>3, ClassTickKeeps
<1> QED  BY <1>1, <1>2 DEF TickUnit, TickUnitRefuses, UnitIs, UnitStates

LEMMA TickUnitSenseKeeps ==
  ASSUME HostOK, TickUnitSense
  PROVE  HostOK'
<1>0. handle \in Handles /\ TickClass /\ flawed \in BOOLEAN /\ handle.state = "INIT"
  BY ClassHasHandle DEF TickUnitSense, TickClass, TickIn, UnitIs, HostOK, UsbTypeOK
<1>1. CASE /\ handle.rounds < Retries
           /\ handle' = [handle EXCEPT !.unit = "TEST_UNIT_READY", !.error = "NOT_READY",
                                       !.sense = "not ready", !.rounds = @ + 1]
           /\ UNCHANGED <<flawed, status>>
  <2>0. handle.rounds + 1 \in 0 .. Retries
    <3>1. handle.rounds \in 0 .. Retries
      BY <1>0 DEF Handles
    <3> QED  BY <1>1, <3>1
  <2>1. handle' \in Handles /\ handle'.state = "INIT" /\ handle'.capacity = handle.capacity
    <3>1. handle' = [handle EXCEPT !.unit = "TEST_UNIT_READY", !.error = "NOT_READY",
                                   !.sense = "not ready", !.rounds = handle.rounds + 1]
      BY <1>0, <1>1 DEF Handles
    <3>2. "TEST_UNIT_READY" \in UnitStates /\ "not ready" \in Senses
      BY DEF UnitStates, Senses
    <3> QED  BY <1>0, <2>0, <3>1, <3>2 DEF Handles
  <2>2. handle' # NoHandle
    BY <2>1, UsbAssumption DEF UsbAssumption
  <2> QED  BY <1>0, <1>1, <2>1, <2>2, ClassTickKeeps
<1>2. ASSUME NEW sense \in Senses,
             handle' = [handle EXCEPT !.unit = "IDLE", !.error = "NOT_READY",
                                      !.sense = sense, !.state = "USER_NOTIFY"],
             flawed' = TRUE, UNCHANGED status
      PROVE  HostOK'
  <2>1. handle' \in Handles /\ handle'.error = "NOT_READY" /\ handle'.capacity = handle.capacity
    BY <1>0, <1>2 DEF Handles, UnitStates
  <2>2. handle' # NoHandle
    BY <2>1, UsbAssumption DEF UsbAssumption
  <2> QED  BY <1>0, <1>2, <2>1, <2>2, ClassTickKeeps
<1>3. CASE UnitGivenUp("UNRECOVERED_ERROR", "ERROR")
  <2>1. handle' \in Handles /\ handle'.error = "ERROR" /\ handle'.capacity = handle.capacity
    BY <1>0, <1>3 DEF UnitGivenUp, Handles, UnitStates
  <2>2. handle' # NoHandle
    BY <2>1, UsbAssumption DEF UsbAssumption
  <2> QED  BY <1>0, <1>3, <2>1, <2>2, ClassTickKeeps DEF UnitGivenUp
<1> QED  BY <1>1, <1>2, <1>3 DEF TickUnitSense

LEMMA TickNotifyKeeps ==
  ASSUME HostOK, TickNotify
  PROVE  HostOK'
<1>0. handle \in Handles /\ handle # NoHandle /\ TickClass /\ flawed \in BOOLEAN
  BY ClassHasHandle DEF TickNotify, TickClass, TickIn, HostOK, UsbTypeOK
<1>1. /\ handle' \in Handles /\ handle'.capacity = handle.capacity
      /\ handle'.error = handle.error
  BY <1>0 DEF TickNotify, Handles
<1>2. handle' # NoHandle
  BY <1>1, UsbAssumption DEF UsbAssumption
<1>3. handle.error = "OK" => handle.capacity # NoDrive
  BY <1>0 DEF TickNotify, HostOK, HostInv
<1>4. status' = IF handle.error = "OK" THEN "ready" ELSE "disconnected"
  BY DEF TickNotify, AfterUserProcess
<1> QED  BY <1>0, <1>1, <1>2, <1>3, <1>4, ClassTickKeeps DEF TickNotify

LEMMA TickKeeps ==
  ASSUME HostOK, Tick
  PROVE  HostOK'
<1>1. CASE TickUnitStalls
  BY <1>1, ControlFailsKeeps DEF TickUnitStalls, TickIn, Ticking
<1>2. CASE TickBusy
  <2>1. Ticking /\ UNCHANGED <<drive, flawed, port, libVars>>
    BY <1>2 DEF TickBusy, TickIn
  <2> QED
    BY <2>1 DEF HostOK, UsbTypeOK, HostInv, ReadyMeansClass, Ticking, libVars
<1> QED
  BY <1>1, <1>2, TickDisconnectedKeeps, TickEarlyKeeps, TickEnumerationKeeps, TickCheckClassKeeps,
     TickUnitKeeps, TickUnitSenseKeeps, TickNotifyKeeps DEF Tick

-----------------------------------------------------------------------------
\* The Servicer beside it

DiskOK ==
  /\ caller \in AtLock \cup {"idle", "pump", "fault"}
  /\ op \in Ops \cup {NoOp}
  /\ checked \in Drives \cup {NoInfo}
  /\ ticks \in 0 .. MaxOvertake
  /\ served \in {Unserved} \cup (Drives \X Sectors \X {"completed", "refused"})
  /\ result \in Results

(* The invariant is one part per module and what relates them.             *)
LEMMA InvParts == Inv <=> HostOK /\ DiskOK /\ CallerInv
  BY DEF Inv, HostOK, DiskOK, DiskTypeOK

LEMMA InvPartsNext == Inv' <=> HostOK' /\ DiskOK' /\ CallerInv'
  BY DEF Inv, HostOK, DiskOK, DiskTypeOK

(* What the functions are called with                                      *)
LEMMA OpsShape ==
  ASSUME NEW o \in Ops
  PROVE  o.fn \in Functions /\ (o.fn \in Transfers => o.sector \in Sectors)
  BY DEF Ops, Functions, Transfers

LEMMA OvertakePositive == MaxOvertake \in Nat /\ 0 < MaxOvertake
  BY DiskAssumption DEF DiskAssumption

LEMMA HostUntouched ==
  ASSUME HostOK, DiskOnly
  PROVE  HostOK'
  BY DEF HostOK, UsbTypeOK, HostInv, ReadyMeansClass, DiskOnly, usbVars, libVars

(* A function returns while nothing is being pumped.                       *)
LEMMA ReturnKeeps ==
  ASSUME Inv, DiskOnly, caller # "pump", NEW r \in Results, Return(r)
  PROVE  Inv'
<1>1. HostOK'
  BY HostUntouched, InvParts
<1>2. DiskOK'
  BY OvertakePositive DEF DiskOK, Return
<1>3. CallerInv'
  BY InvParts DEF CallerInv, TransferKeepsHandle, AtLock, Return, DiskOnly, usbVars
<1> QED  BY <1>1, <1>2, <1>3, InvPartsNext

(* A function goes for the lock once more.                                 *)
LEMMA ProceedKeeps ==
  ASSUME Inv, DiskOnly, caller \in AtLock, NEW c \in AtLock, Proceed(c), ticks' = 0,
         UNCHANGED served, checked' \in Drives \cup {NoInfo},
         c \in {"transfer", "translate"} => op.fn \in Transfers
  PROVE  Inv'
<1>1. HostOK'
  BY HostUntouched, InvParts
<1>2. DiskOK'
  BY OvertakePositive, InvParts DEF DiskOK, Proceed
<1>3. CallerInv'
  BY OvertakePositive, InvParts
     DEF CallerInv, TransferKeepsHandle, AtLock, Proceed, DiskOnly, usbVars
<1> QED  BY <1>1, <1>2, <1>3, InvPartsNext

LEMMA FailedTestOK ==
  ASSUME NEW fn \in Functions, fn # "sync"
  PROVE  FailedTest(fn) \in Results
  BY DEF FailedTest, Functions, Transfers, Results

LEMMA AtLockOp ==
  ASSUME Inv, caller \in AtLock \cup {"pump"}
  PROVE  op \in Ops /\ op.fn \in Functions /\ op.fn # "sync"
  BY InvParts, OpsShape DEF CallerInv

LEMMA CallKeeps ==
  ASSUME Inv, Call
  PROVE  Inv'
<1>1. PICK o \in Ops :
        \/ o.fn = "sync" /\ Return("ok")
        \/ o.fn # "sync" /\ status # "ready" /\ Return(FailedTest(o.fn))
        \/ /\ o.fn # "sync" /\ status = "ready"
           /\ caller' = IF o.fn = "initialize" THEN "init info" ELSE "info"
           /\ op' = o /\ result' = "none"
           /\ checked' = NoInfo /\ served' = Unserved /\ ticks' = 0
  BY DEF Call
<1>2. caller = "idle" /\ DiskOnly
  BY DEF Call
<1>3. CASE o.fn = "sync" /\ Return("ok")
  BY <1>2, <1>3, ReturnKeeps DEF Results
<1>4. CASE o.fn # "sync" /\ Return(FailedTest(o.fn))
  BY <1>2, <1>4, ReturnKeeps, FailedTestOK, OpsShape
<1>5. CASE /\ o.fn # "sync"
           /\ caller' = IF o.fn = "initialize" THEN "init info" ELSE "info"
           /\ op' = o /\ result' = "none"
           /\ checked' = NoInfo /\ served' = Unserved /\ ticks' = 0
  <2>1. HostOK'
    BY <1>2, HostUntouched, InvParts
  <2>2. DiskOK'
    <3>0. caller' = "init info" \/ caller' = "info"
      BY <1>5
    <3>1. caller' \in AtLock /\ result' \in Results /\ ticks' \in 0 .. MaxOvertake
      <4>1. caller' \in AtLock
        BY <3>0 DEF AtLock
      <4>2. result' \in Results
        BY <1>5 DEF Results
      <4>3. ticks' = 0
        BY <1>5
      <4>4. ticks' \in 0 .. MaxOvertake
        BY <4>3, OvertakePositive
      <4> QED  BY <4>1, <4>2, <4>4
    <3>2. /\ op' \in Ops /\ checked' = NoInfo
          /\ served' \in {Unserved} \cup (Drives \X Sectors \X {"completed", "refused"})
      BY <1>5
    <3> QED  BY <3>1, <3>2 DEF DiskOK
  <2>3. CallerInv'
    BY <1>2, <1>5, OvertakePositive, InvParts
       DEF CallerInv, TransferKeepsHandle, AtLock, DiskOnly, usbVars
  <2> QED  BY <2>1, <2>2, <2>3, InvPartsNext
<1> QED  BY <1>1, <1>3, <1>4, <1>5

LEMMA LockTimesOutKeeps ==
  ASSUME Inv, LockTimesOut
  PROVE  Inv'
<1>1. caller \in AtLock /\ caller # "pump" /\ DiskOnly
  BY DEF LockTimesOut, AtLock
<1>2. FailedTest(op.fn) \in Results /\ "not ready" \in Results
  BY <1>1, AtLockOp, FailedTestOK DEF Results
<1> QED  BY <1>1, <1>2, ReturnKeeps DEF LockTimesOut

LEMMA TrapKeeps ==
  ASSUME Inv, Trap
  PROVE  Inv'
<1>1. HostOK'
  BY HostUntouched, InvParts DEF Trap
<1>2. DiskOK'
  BY InvParts DEF DiskOK, Trap
<1>3. CallerInv'
  BY InvParts DEF CallerInv, TransferKeepsHandle, AtLock, AtFreeLock, Trap, DiskOnly, usbVars
<1> QED  BY <1>1, <1>2, <1>3, InvPartsNext

(* With the host in the class and a capacity read, it is a drive's.        *)
LEMMA CapacityIsADrive ==
  ASSUME Inv, ~InfoFails, Supported(handle)
  PROVE  handle.capacity \in Drives
<1>1. handle \in Handles
  BY InvParts, ClassHasHandle DEF InfoFails
<1> QED  BY <1>1 DEF Supported, Handles

LEMMA QueriesKeep ==
  ASSUME Inv, InitQuery \/ Query
  PROVE  Inv'
<1>0. /\ caller \in AtLock /\ caller # "pump" /\ DiskOnly
      /\ {"unit", "info", "transfer"} \subseteq AtLock
  BY DEF InitQuery, Query, AtFreeLock, AtLock
<1>1. FailedTest(op.fn) \in Results
  BY <1>0, AtLockOp, FailedTestOK
<1>2. checked \in Drives \cup {NoInfo}
  BY InvParts DEF DiskOK
<1>3. CASE InitQuery
  <2>1. CASE Return("not initialised")
    BY <1>0, <2>1, ReturnKeeps DEF Results
  <2>2. CASE Proceed("info") /\ ticks' = 0 /\ UNCHANGED <<checked, served>>
    BY <1>0, <1>2, <2>2, ProceedKeeps
  <2> QED  BY <1>3, <2>1, <2>2 DEF InitQuery
<1>4. CASE Query
  <2>1. CASE Return(FailedTest(op.fn))
    BY <1>0, <1>1, <2>1, ReturnKeeps
  <2>2. CASE ~InfoFails /\ Supported(handle) /\ WithCapacity(handle.capacity)
    <3>1. handle.capacity \in Drives
      BY <2>2, CapacityIsADrive
    <3>2. CASE Return("ok") \/ Return("parameter")
      BY <1>0, <3>2, ReturnKeeps DEF Results
    <3>3. CASE /\ Proceed(IF op.fn \in Transfers THEN "transfer" ELSE "unit")
               /\ checked' = handle.capacity /\ ticks' = 0 /\ UNCHANGED served
      BY <1>0, <3>1, <3>3, ProceedKeeps
    <3> QED  BY <2>2, <3>2, <3>3 DEF WithCapacity
  <2> QED  BY <1>4, <2>1, <2>2 DEF Query
<1> QED  BY <1>3, <1>4

LEMMA AnswersKeep ==
  ASSUME Inv, UnitReady \/ Translate
  PROVE  Inv'
<1>0. caller # "pump" /\ DiskOnly
  BY DEF UnitReady, Translate, AtFreeLock
<1> QED  BY <1>0, ReturnKeeps DEF UnitReady, Translate, Results

-----------------------------------------------------------------------------
\* The transfer, which changes the host's state itself

(* It changes of a handle what no theorem depends on, or takes it from     *)
(* being fine.                                                             *)
LEMMA UnitTouchedKeeps ==
  ASSUME HostOK, handle # NoHandle, handle' \in Handles, flawed' \in BOOLEAN,
         lock' \in {"free", "process", "disk"},
         handle'.state = handle.state /\ handle'.capacity = handle.capacity,
         handle'.error \in {handle.error, "ERROR"},
         UNCHANGED <<drive, port, gState, enum, tries, class, status, proc>>
  PROVE  HostOK'
<1>1. handle' # NoHandle
  BY UsbAssumption DEF UsbAssumption
<1>2. UsbTypeOK'
  BY DEF HostOK, UsbTypeOK
<1>3. HostInv'
  BY <1>1 DEF HostOK, HostInv, ReadyMeansClass
<1> QED  BY <1>2, <1>3 DEF HostOK

LEMMA BeginTransferKeeps ==
  ASSUME Inv, BeginTransfer
  PROVE  Inv'
<1>0. caller = "transfer" /\ lock = "free" /\ op \in Ops /\ op.fn # "sync"
      /\ op.fn \in Transfers
  BY InvParts DEF BeginTransfer, AtFreeLock, CallerInv, AtLock
<1>1. CASE Proceed("translate") /\ ticks' = 0 /\ UNCHANGED <<handle, lock>>
  <2>1. DiskOnly /\ UNCHANGED <<checked, served>>
    BY <1>1 DEF BeginTransfer, DiskOnly, usbVars, libVars
  <2>2. checked \in Drives \cup {NoInfo}
    BY InvParts DEF DiskOK
  <2> QED  BY <1>0, <1>1, <2>1, <2>2, ProceedKeeps DEF AtLock
<1>2. CASE /\ gState = "CLASS" /\ handle.unit = "IDLE"
           /\ handle' = [handle EXCEPT !.unit = "TRANSFER"]
           /\ lock' = "disk" /\ Proceed("pump") /\ UNCHANGED ticks
  <2>1. handle \in Handles /\ handle # NoHandle /\ class
    BY <1>2, InvParts, ClassHasHandle DEF HostOK, HostInv
  <2>2. /\ handle' \in Handles /\ handle'.unit = "TRANSFER"
        /\ handle'.state = handle.state /\ handle'.capacity = handle.capacity
        /\ handle'.error = handle.error
    BY <1>2, <2>1 DEF Handles, UnitStates
  <2>3. handle' # NoHandle
    BY <2>2, UsbAssumption DEF UsbAssumption
  <2>4. UNCHANGED <<drive, flawed, port, gState, enum, tries, class, status, proc, checked, served>>
    BY DEF BeginTransfer
  <2>5. HostOK'
    <3>1. flawed' \in BOOLEAN
      BY <2>4, InvParts DEF HostOK, UsbTypeOK
    <3> QED  BY <1>2, <2>1, <2>2, <2>4, <3>1, InvParts, UnitTouchedKeeps
  <2>6. DiskOK'
    BY <1>2, <2>4, InvParts DEF DiskOK, Proceed
  <2>7. CallerInv'
    BY <1>0, <1>2, <2>1, <2>2, <2>3, <2>4, InvParts
       DEF CallerInv, TransferKeepsHandle, Proceed, AtLock
  <2> QED  BY <2>5, <2>6, <2>7, InvPartsNext
<1> QED  BY <1>1, <1>2 DEF BeginTransfer

(* In the loop: the lock is its caller's and the unit is there.            *)
LEMMA PumpingState ==
  ASSUME Inv, caller = "pump"
  PROVE  /\ lock = "disk" /\ proc # "process" /\ class
         /\ handle \in Handles /\ handle # NoHandle
         /\ op \in Ops /\ op.fn # "sync" /\ op.fn \in Transfers /\ op.sector \in Sectors
         /\ gState # "ABORT" /\ flawed \in BOOLEAN
  BY InvParts, OpsShape DEF CallerInv, TransferKeepsHandle, HostOK, UsbTypeOK

LEMMA TransferEndsKeep ==
  ASSUME Inv, TransferEnds
  PROVE  Inv'
<1>0. caller = "pump"
  BY DEF TransferEnds, TransferCompletes, TransferRefused, SenseAnswered, TransferTimesOut, Pumping
<1>1. /\ PumpOnly /\ flawed' \in BOOLEAN /\ lock' \in {"free", "process", "disk"}
      /\ drive \in Drives \cup {NoDrive}
  BY <1>0, PumpingState, InvParts
     DEF TransferEnds, TransferCompletes, TransferRefused, SenseAnswered, TransferTimesOut,
         Transferred, HostOK, UsbTypeOK
<1>2. /\ handle' \in Handles
      /\ handle'.state = handle.state /\ handle'.capacity = handle.capacity
      /\ handle'.error \in {handle.error, "ERROR"}
  <2>0. handle \in Handles
    BY <1>0, PumpingState
  <2>1. CASE TransferCompletes \/ TransferRefused
    BY <2>0, <2>1 DEF TransferCompletes, TransferRefused, Handles, UnitStates
  <2>2. CASE SenseAnswered
    BY <2>0, <2>2 DEF SenseAnswered, Handles, UnitStates, Senses
  <2>3. CASE TransferTimesOut
    BY <2>0, <2>3 DEF TransferTimesOut
  <2> QED  BY <2>1, <2>2, <2>3 DEF TransferEnds
<1>3. HostOK'
  BY <1>0, <1>1, <1>2, PumpingState, InvParts, UnitTouchedKeeps DEF PumpOnly
<1>4. DiskOK' /\ CallerInv'
  <2>1. CASE TransferCompletes
    <3>1. <<drive, op.sector, "completed">> \in Drives \X Sectors \X {"completed", "refused"}
      BY <1>0, <1>1, <2>1, PumpingState DEF TransferCompletes, Pumping, Reachable
    <3>2. DiskOK'
      BY <2>1, <3>1, InvParts DEF DiskOK, TransferCompletes, Transferred, PumpOnly, Results
    <3>3. CallerInv'
      BY <1>0, <2>1, PumpingState, InvParts
         DEF CallerInv, TransferKeepsHandle, TransferCompletes, Transferred, PumpOnly, AtLock
    <3> QED  BY <3>2, <3>3
  <2>2. CASE TransferRefused
    <3>1. <<drive, op.sector, "refused">> \in Drives \X Sectors \X {"completed", "refused"}
      BY <1>0, <1>1, <2>2, PumpingState DEF TransferRefused, Pumping, Reachable
    <3>2. DiskOK'
      BY <2>2, <3>1, InvParts DEF DiskOK, TransferRefused, PumpOnly
    <3>3. handle'.unit = "REQUEST_SENSE" /\ handle' # NoHandle
      <4>1. handle'.unit = "REQUEST_SENSE"
        BY <1>0, <2>2, PumpingState DEF TransferRefused, Handles
      <4> QED  BY <4>1, <1>2, UsbAssumption DEF UsbAssumption
    <3>4. CallerInv'
      BY <1>0, <2>2, <3>3, PumpingState, InvParts
         DEF CallerInv, TransferKeepsHandle, TransferRefused, PumpOnly, AtLock
    <3> QED  BY <3>2, <3>4
  <2>3. CASE SenseAnswered
    <3>1. DiskOK'
      BY <2>3, InvParts DEF DiskOK, SenseAnswered, Transferred, PumpOnly, Results
    <3>2. CallerInv'
      BY <1>0, <2>3, PumpingState, InvParts
         DEF CallerInv, TransferKeepsHandle, SenseAnswered, Transferred, PumpOnly, AtLock
    <3> QED  BY <3>1, <3>2
  <2>4. CASE TransferTimesOut
    <3>1. DiskOK'
      BY <2>4, OvertakePositive, InvParts DEF DiskOK, TransferTimesOut, Proceed, PumpOnly, AtLock
    <3>2. CallerInv'
      BY <1>0, <2>4, PumpingState, OvertakePositive, InvParts
         DEF CallerInv, TransferKeepsHandle, TransferTimesOut, Proceed, PumpOnly, AtLock
    <3> QED  BY <3>1, <3>2
  <2> QED  BY <2>1, <2>2, <2>3, <2>4 DEF TransferEnds
<1> QED  BY <1>3, <1>4, InvPartsNext

LEMMA TransferStallsKeeps ==
  ASSUME Inv, TransferStalls
  PROVE  Inv'
<1>0. caller = "pump" /\ ControlFails /\ UNCHANGED <<proc, lock, diskVars>>
  BY DEF TransferStalls, Pumping
<1>1. proc' \in {"init", "top", "process", "stopped"} /\ lock' \in {"free", "process", "disk"}
  BY <1>0, InvParts DEF HostOK, UsbTypeOK
<1>2. HostOK'
  BY <1>0, <1>1, PumpingState, InvParts, ControlFailsKeeps
<1>3. DiskOK'
  BY <1>0, InvParts DEF DiskOK, diskVars
<1>4. CallerInv'
  BY <1>0, InvParts DEF CallerInv, TransferKeepsHandle, ControlFails, diskVars, AtLock
<1> QED  BY <1>2, <1>3, <1>4, InvPartsNext

-----------------------------------------------------------------------------
\* The host beside it

LEMMA HostMovesKeep ==
  ASSUME Inv, HostMoves \/ ((Plug \/ Unplug) /\ HostOnly)
  PROVE  Inv'
<1>1. CASE HostLocks
  <2>1. HostOK'
    BY <1>1, InvParts, TaskKeeps DEF HostLocks
  <2>2. DiskOK'
    BY <1>1, InvParts DEF HostLocks, DiskOK, diskVars
  <2>3. CallerInv'
    BY <1>1, OvertakePositive, InvParts
       DEF HostLocks, ProcessLock, CallerInv, TransferKeepsHandle, DiskOK, diskVars, libVars, AtLock
  <2> QED  BY <2>1, <2>2, <2>3, InvPartsNext
<1>2. CASE HostTicks
  <2>1. Ticking
    BY <1>2 DEF HostTicks, Tick, TickDisconnected, TickIdle, TickWait, TickAttached,
       TickEnumeration, TickConfigure, TickConfigureFails, TickCheckClass, TickClassRequest,
       TickUnit, TickUnitRefuses, TickUnitSense, TickUnitStalls, TickNotify, TickBusy, TickClass,
       TickIn
  <2>2. lock = "process" /\ caller # "pump"
    BY <2>1, InvParts DEF Ticking, CallerInv
  <2>3. HostOK'
    BY <1>2, InvParts, TickKeeps DEF HostTicks
  <2>4. ticks' \in 0 .. MaxOvertake
    <3>1. ticks \in 0 .. MaxOvertake /\ (caller \in AtLock => ticks < MaxOvertake)
      BY <2>2, InvParts DEF CallerInv, DiskOK
    <3> QED  BY <1>2, <3>1, OvertakePositive DEF HostTicks
  <2>5. DiskOK'
    BY <1>2, <2>4, InvParts DEF HostTicks, DiskOK
  <2>6. CallerInv'
    BY <1>2, <2>1, <2>2, InvParts DEF HostTicks, Ticking, CallerInv, TransferKeepsHandle
  <2> QED  BY <2>3, <2>5, <2>6, InvPartsNext
<1>3. CASE ProcessStops /\ HostOnly
  <2>1. HostOK'
    BY <1>3, InvParts, TaskKeeps
  <2>2. DiskOK'
    BY <1>3, InvParts DEF HostOnly, diskVars, DiskOK
  <2>3. CallerInv'
    BY <1>3, InvParts
       DEF ProcessStops, HostOnly, diskVars, libVars, CallerInv, TransferKeepsHandle, AtLock
  <2> QED  BY <2>1, <2>2, <2>3, InvPartsNext
<1>4. CASE (ProcessInit \/ PortEnabled \/ PortDisabled \/ Plug \/ Unplug) /\ HostOnly
  <2>1. HostOK'
    BY <1>4, InvParts, PortKeeps
  <2>2. DiskOK'
    BY <1>4, InvParts DEF HostOnly, diskVars, DiskOK
  <2>3. /\ UNCHANGED <<gState, class, handle, lock>>
        /\ proc' = "process" <=> proc = "process"
    BY <1>4 DEF ProcessInit, PortEnabled, PortDisabled, Plug, Unplug, libVars
  <2>4. CallerInv'
    BY <1>4, <2>3, InvParts DEF HostOnly, diskVars, CallerInv, TransferKeepsHandle, AtLock
  <2> QED  BY <2>1, <2>2, <2>4, InvPartsNext
<1> QED  BY <1>1, <1>2, <1>3, <1>4 DEF HostMoves

LEMMA InitInv == Init => Inv
<1> SUFFICES ASSUME Init PROVE Inv
  OBVIOUS
<1>1. UsbTypeOK
  <2>1. port \in Ports
    BY DEF Init, UsbInit, Ports
  <2>2. tries \in [reset : 0 .. Retries + 1, enum : 0 .. Retries + 1]
    BY DEF Init, UsbInit
  <2>3. gState \in HostStates /\ enum \in DOMAIN EnumStates
    BY EnumRange DEF Init, UsbInit, HostStates
  <2> QED  BY <2>1, <2>2, <2>3 DEF Init, UsbInit, UsbTypeOK
<1>2. HostInv
  BY DEF Init, UsbInit, HostInv, ReadyMeansClass
<1>3. DiskOK
  BY OvertakePositive DEF Init, DiskOK, Results
<1>4. CallerInv
  BY DEF Init, UsbInit, CallerInv, TransferKeepsHandle, AtLock
<1> QED  BY <1>1, <1>2, <1>3, <1>4, InvParts DEF HostOK

LEMMA NextInv == Inv /\ [Next]_vars => Inv'
<1> SUFFICES ASSUME Inv, [Next]_vars PROVE Inv'
  OBVIOUS
<1>1. CASE UNCHANGED vars
  BY <1>1 DEF vars, usbVars, libVars, diskVars, Inv, DiskTypeOK, UsbTypeOK, HostInv, CallerInv,
     ReadyMeansClass, TransferKeepsHandle
<1>2. CASE Next
  BY <1>2, HostMovesKeep, CallKeeps, LockTimesOutKeeps, TrapKeeps, QueriesKeep, AnswersKeep,
     BeginTransferKeeps, TransferEndsKeep, TransferStallsKeeps DEF Next, AtLockMoves
<1> QED  BY <1>1, <1>2

-----------------------------------------------------------------------------
(* Every state of the USB host and of the disk functions above it is of    *)
(* its type, whatever is plugged, pulled or answered: no retry counter of  *)
(* USBH_Process or USBH_HandleEnum passes its limit by more than one.      *)
THEOREM TypeCorrect == Spec => []DiskTypeOK
<1>1. Inv => DiskTypeOK
  BY DEF Inv
<1> QED  BY <1>1, InitInv, NextInv, PTL DEF Spec

(* The status that USBHost_GetMscStatus gives without the lock is ready    *)
(* only with the class in place, its data allocated and a capacity read.   *)
THEOREM ReadyMeansClassAlways == Spec => []ReadyMeansClass
<1>1. Inv => ReadyMeansClass
  BY DEF Inv, HostInv
<1> QED  BY <1>1, InitInv, NextInv, PTL DEF Spec

(* The lock does protect a transfer: from the first step of                *)
(* USBH_MSC_Read/Write to its last the class and its data are there.       *)
THEOREM TransferKeepsHandleAlways == Spec => []TransferKeepsHandle
<1>1. Inv => TransferKeepsHandle
  BY DEF Inv, CallerInv
<1> QED  BY <1>1, InitInv, NextInv, PTL DEF Spec

-----------------------------------------------------------------------------
(* A drive that is pulled and replaced between the query of a capacity and *)
(* the transfer that relies on it.  Its successor gets no command before   *)
(* the host has enumerated it, which takes a number of ticks; a function   *)
(* that gets its lock before so many have gone by is safe.                 *)

AfterEnumeration ==
  {"INPUT", "SET_CONFIGURATION", "SET_WAKEUP_FEATURE", "CHECK_CLASS", "CLASS_REQUEST", "CLASS"}

\* Where the host is on its way from HOST_IDLE to a unit that takes commands
Leg ==
  IF gState \in {"IDLE", "ABORT"} THEN 1
  ELSE IF gState = "WAIT_FOR_ATTACHMENT" THEN 2
  ELSE IF gState = "ATTACHED" THEN 3
  ELSE IF gState = "ENUMERATION" THEN 4
  ELSE IF gState \in {"INPUT", "SET_CONFIGURATION"} THEN 5
  ELSE IF gState = "SET_WAKEUP_FEATURE" THEN 6
  ELSE IF gState = "CHECK_CLASS" THEN 7
  ELSE IF gState = "CLASS_REQUEST" THEN 8
  ELSE IF handle.state # "INIT" THEN 12
  ELSE IF handle.unit = "INIT" THEN 9
  ELSE IF handle.unit = "READ_INQUIRY" THEN 10
  ELSE 11

\* No fewer ticks than these have gone by since a disconnect was handled.
TicksAway == Leg + enum - 1

(* Twelve legs, and one tick more for each but the first of the six        *)
(* requests of an enumeration                                              *)
ReplacementTicks == 17

\* A unit in MSC_INIT has no capacity yet, and takes no command.
UnitInv ==
  handle # NoHandle /\ handle.state = "INIT" =>
    /\ handle.capacity = NoDrive
    /\ handle.unit \in {"INIT", "READ_INQUIRY", "TEST_UNIT_READY", "READ_CAPACITY10", "REQUEST_SENSE"}

(* A port is enabled under a drive only, and for that drive: it was enabled*)
(* before the drive was enumerated, and the capacity was read after.       *)
PortInv ==
  /\ proc = "init" => gState = "IDLE" /\ ~port.enabled
  /\ port.enabled => drive # NoDrive
  /\ gState \in AfterEnumeration => enum = Len(EnumStates)
  /\ gState = "CLASS_REQUEST" => handle.state = "INIT" /\ handle.unit = "INIT"
  /\ gState = "CLASS" /\ port.enabled /\ handle.capacity # NoDrive => handle.capacity = drive

\* What the checks before a transfer have established
Admitted == checked \in Drives \ Odd /\ InRange(op.sector, checked)

\* The capacity that was checked is still the unit's, or the host is away.
NotReplaced ==
  \/ gState = "CLASS" /\ handle.state # "INIT" /\ handle.capacity = checked
  \/ TicksAway <= ticks

CommandInv ==
  /\ caller = "transfer" => Admitted /\ NotReplaced
  /\ caller = "pump" =>
       /\ Admitted
       /\ port.enabled => drive = checked
       /\ handle.state # "INIT"
       /\ handle.unit = "REQUEST_SENSE" => served # Unserved
  /\ caller \in AtLock \ {"translate"} => served = Unserved
  /\ served # Unserved => served[1] = checked
  /\ TransfersFit
  /\ OkWasAnswered

FitInv == UnitInv /\ PortInv /\ CommandInv

USE DEF AfterEnumeration

LEMMA LegRange == Leg \in 1 .. 12
  BY DEF Leg

LEMMA AwayRange ==
  ASSUME UsbTypeOK
  PROVE  enum \in 1 .. 6 /\ TicksAway \in Nat /\ TicksAway >= 1
  BY LegRange, EnumRange DEF TicksAway, UsbTypeOK

LEMMA AwayRangeNext ==
  ASSUME UsbTypeOK'
  PROVE  enum' \in 1 .. 6 /\ TicksAway' \in Nat
<1>1. Leg' \in 1 .. 12
  BY DEF Leg
<1> QED
  BY <1>1, EnumRange DEF TicksAway, UsbTypeOK

\* What the host's own steps may do to the unit and the port
HostFit == UnitInv /\ PortInv

\* The handle of a class in MSC_INIT when it takes a step there
LEMMA UnitSteps ==
  ASSUME HostOK, HostFit, TickClass, handle.state = "INIT", handle' \in Handles,
         \/ /\ handle'.state = "INIT" /\ handle'.capacity = handle.capacity
            /\ handle'.unit \in {"READ_INQUIRY", "TEST_UNIT_READY", "READ_CAPACITY10",
                                 "REQUEST_SENSE"}
         \/ /\ handle'.state # "INIT" /\ handle'.capacity \in {NoDrive, drive}
  PROVE  HostFit'
<1>1. gState = "CLASS" /\ gState' = "CLASS" /\ Ticking /\ handle # NoHandle
      /\ handle.capacity = NoDrive /\ enum' = enum /\ UNCHANGED <<drive, port>>
  BY ClassHasHandle DEF TickClass, TickIn, HostFit, UnitInv
<1>2. UnitInv'
  BY <1>1 DEF UnitInv
<1>3. PortInv'
  BY <1>1 DEF PortInv, HostFit, Ticking
<1> QED
  BY <1>2, <1>3 DEF HostFit

LEMMA TickUnitFits ==
  ASSUME HostOK, HostFit, TickUnit \/ TickUnitRefuses \/ TickUnitSense
  PROVE  HostFit'
<1>0. TickClass /\ handle \in Handles /\ handle.state = "INIT" /\ handle.capacity = NoDrive
  <2>1. TickClass /\ handle.state = "INIT"
    BY DEF TickUnit, TickUnitRefuses, TickUnitSense, UnitIs
  <2>2. handle \in Handles /\ handle # NoHandle
    BY <2>1, ClassHasHandle DEF TickClass, TickIn
  <2> QED
    BY <2>1, <2>2 DEF HostFit, UnitInv
<1>1. handle' \in Handles
  <2>1. HostOK'
    BY TickUnitKeeps, TickUnitSenseKeeps
  <2>2. gState' = "CLASS"
    BY <1>0 DEF TickClass, TickIn
  <2> QED
    BY <2>1, <2>2 DEF HostOK, UsbTypeOK, HostInv
<1>2. ASSUME NEW s \in {"READ_INQUIRY", "TEST_UNIT_READY", "READ_CAPACITY10", "REQUEST_SENSE"},
             UnitBecomes(s)
      PROVE  HostFit'
  <2>1. handle'.state = "INIT" /\ handle'.capacity = handle.capacity /\ handle'.unit = s
    BY <1>0, <1>2 DEF UnitBecomes, Handles
  <2> QED
    BY <1>0, <1>1, <2>1, UnitSteps
<1>3. CASE handle' = [handle EXCEPT !.unit = "IDLE", !.error = "OK",
                                    !.capacity = drive, !.state = "USER_NOTIFY"]
  <2>1. handle'.state = "USER_NOTIFY" /\ handle'.capacity = drive
    BY <1>0, <1>3 DEF Handles
  <2> QED
    BY <1>0, <1>1, <2>1, UnitSteps
<1>4. CASE TickUnitSense
  <2>1. CASE handle' = [handle EXCEPT !.unit = "TEST_UNIT_READY", !.error = "NOT_READY",
                                      !.sense = "not ready", !.rounds = @ + 1]
    <3>1. /\ handle'.state = "INIT" /\ handle'.capacity = handle.capacity
          /\ handle'.unit = "TEST_UNIT_READY"
      BY <1>0, <2>1 DEF Handles
    <3> QED
      BY <1>0, <1>1, <3>1, UnitSteps
  <2>2. CASE \/ \E sense \in Senses \ {"none"} :
                  handle' = [handle EXCEPT !.unit = "IDLE", !.error = "NOT_READY",
                                           !.sense = sense, !.state = "USER_NOTIFY"]
             \/ UnitGivenUp("UNRECOVERED_ERROR", "ERROR")
    <3>1. handle'.state = "USER_NOTIFY" /\ handle'.capacity = handle.capacity
      BY <1>0, <2>2 DEF Handles, UnitGivenUp
    <3> QED
      BY <1>0, <1>1, <3>1, UnitSteps
  <2> QED
    BY <1>4, <2>1, <2>2 DEF TickUnitSense
<1> QED
  BY <1>2, <1>3, <1>4 DEF TickUnit, TickUnitRefuses

LEMMA TickFits ==
  ASSUME HostOK, HostFit, Tick
  PROVE  HostFit'
<1>1. CASE TickDisconnected
  <2>1. Ticking /\ gState' = "IDLE" /\ class' = FALSE /\ drive' = drive
        /\ port' = [port EXCEPT !.disconnected = FALSE]
        /\ handle' = IF class THEN NoHandle ELSE handle
    BY <1>1 DEF TickDisconnected, Restart, DeInitClass
  <2>2. port'.enabled = port.enabled
    BY <2>1 DEF HostOK, UsbTypeOK, Ports
  <2>3. UnitInv'
    BY <2>1 DEF UnitInv, HostFit
  <2> QED
    BY <2>1, <2>2, <2>3 DEF HostFit, PortInv, Ticking
<1>2. CASE TickIdle \/ TickWait \/ TickAttached
  BY <1>2 DEF TickIdle, TickWait, TickAttached, TickIn, Ticking, HostFit, UnitInv, PortInv
<1>3. CASE TickEnumeration
  <2>1. CASE EnumAnswered
    BY <1>3, <2>1, EnumRange
    DEF TickEnumeration, EnumAnswered, TickIn, Ticking, HostFit, UnitInv, PortInv, HostOK, UsbTypeOK
  <2>2. CASE EnumRefused \/ ControlFails
    BY <1>3, <2>2
    DEF TickEnumeration, EnumRefused, ControlFails, TickIn, Ticking, HostFit, UnitInv, PortInv
  <2> QED
    BY <1>3, <2>1, <2>2 DEF TickEnumeration
<1>4. CASE TickConfigure \/ TickConfigureFails \/ TickUnitStalls
  BY <1>4 DEF TickConfigure, TickConfigureFails, TickUnitStalls, ControlFails, TickIn, Ticking,
              HostFit, UnitInv, PortInv
<1>5. CASE TickCheckClass
  <2>1. /\ handle'.state = "INIT" /\ handle'.unit = "INIT" /\ handle'.capacity = NoDrive
    BY <1>5 DEF TickCheckClass, FreshHandle
  <2> QED
    BY <1>5, <2>1 DEF TickCheckClass, TickIn, Ticking, HostFit, UnitInv, PortInv
<1>6. CASE TickClassRequest
  <2>1. handle # NoHandle /\ handle.capacity = NoDrive
    BY <1>6 DEF TickClassRequest, TickIn, HostOK, HostInv, HostFit, UnitInv, PortInv
  <2> QED
    BY <1>6, <2>1 DEF TickClassRequest, TickIn, Ticking, HostFit, UnitInv, PortInv
<1>7. CASE TickNotify
  <2>1. handle \in Handles /\ gState = "CLASS" /\ gState' = "CLASS"
    BY <1>7, ClassHasHandle DEF TickNotify, TickClass, TickIn
  <2>2. handle'.state = "IDLE" /\ handle'.capacity = handle.capacity
    BY <1>7, <2>1 DEF TickNotify, Handles
  <2> QED
    BY <1>7, <2>1, <2>2 DEF TickNotify, TickClass, TickIn, Ticking, HostFit, UnitInv, PortInv
<1>8. CASE TickBusy
  BY <1>8 DEF TickBusy, TickIn, Ticking, libVars, HostFit, UnitInv, PortInv
<1> QED
  BY <1>1, <1>2, <1>3, <1>4, <1>5, <1>6, <1>7, <1>8, TickUnitFits DEF Tick

LEMMA OneMore ==
  ASSUME NEW l \in 1 .. 12, NEW m \in 1 .. 12, NEW e \in 1 .. 6, NEW f \in 1 .. 6,
         (f = e /\ m <= l + 1) \/ (f <= e /\ m = 1)
  PROVE  m + f <= l + e + 1
  OBVIOUS

(* A tick takes the host one leg further at most.                          *)
LEMMA TickGoesOneLeg ==
  ASSUME HostOK, HostFit, Tick
  PROVE  TicksAway' <= TicksAway + 1
<1>0. PICK l \in 1 .. 12, m \in 1 .. 12, e \in 1 .. 6, f \in 1 .. 6 :
        l = Leg /\ m = Leg' /\ e = enum /\ f = enum'
  <2>1. HostOK'
    BY TickKeeps
  <2>2. Leg' \in 1 .. 12
    BY DEF Leg
  <2>3. enum \in 1 .. 6 /\ enum' \in 1 .. 6
    BY <2>1, EnumRange DEF HostOK, UsbTypeOK
  <2> QED
    BY <2>2, <2>3, LegRange
<1> SUFFICES m + f <= l + e + 1
  <2>1. TicksAway = l + e - 1 /\ TicksAway' = m + f - 1
    BY <1>0 DEF TicksAway
  <2> QED
    BY ONLY <2>1, m + f <= l + e + 1
<1>1. CASE gState' = "IDLE" /\ enum' <= enum
  <2>1. m = 1
    BY <1>0, <1>1 DEF Leg
  <2> QED
    BY <1>0, <1>1, <2>1, OneMore
<1>2. CASE TickDisconnected \/ TickConfigureFails \/ TickUnitStalls
  BY <1>0, <1>1, <1>2
  DEF TickDisconnected, Restart, TickConfigureFails, TickUnitStalls, ControlFails
<1>3. CASE TickIdle \/ TickWait \/ TickAttached \/ TickConfigure
  <2>1. f = e
    BY <1>0, <1>3 DEF TickIdle, TickWait, TickAttached, TickConfigure
  <2>2. m <= l + 1
    BY <1>0, <1>3 DEF TickIdle, TickWait, TickAttached, TickConfigure, TickIn, Leg
  <2> QED
    BY <1>0, <2>1, <2>2, OneMore
<1>4. CASE TickEnumeration
  <2>1. gState = "ENUMERATION" /\ l = 4
    BY <1>0, <1>4 DEF TickEnumeration, TickIn, Leg
  <2>2. CASE EnumAnswered
    <3>1. CASE enum' = enum + 1 /\ gState' = gState
      <4>1. m = 4
        BY <1>0, <2>1, <3>1 DEF Leg
      <4> QED
        BY <1>0, <2>1, <3>1, <4>1
    <3>2. CASE gState' \in {"SET_CONFIGURATION", "INPUT"} /\ enum' = enum
      <4>1. m = 5
        BY <1>0, <3>2 DEF Leg
      <4> QED
        BY <1>0, <2>1, <3>2, <4>1
    <3> QED
      BY <2>2, <3>1, <3>2 DEF EnumAnswered
  <2>3. CASE EnumRefused \/ ControlFails
    <3>1. gState' \in {"IDLE", "ABORT"} /\ enum' <= enum
      BY <1>0, <2>3 DEF EnumRefused, ControlFails
    <3>2. m = 1
      BY <1>0, <3>1 DEF Leg
    <3> QED
      BY <1>0, <3>1, <3>2, OneMore
  <2> QED
    BY <1>4, <2>2, <2>3 DEF TickEnumeration
<1>5. CASE TickCheckClass \/ TickClassRequest
  <2>1. f = e
    BY <1>0, <1>5 DEF TickCheckClass, TickClassRequest
  <2>2. CASE TickCheckClass
    <3>1. l = 7 /\ m \in {1, 8}
      BY <1>0, <2>2 DEF TickCheckClass, TickIn, Leg
    <3>2. m <= l + 1
      BY ONLY <3>1
    <3> QED
      BY <1>0, <2>1, <3>2, OneMore
  <2>3. CASE TickClassRequest
    <3>1. l = 8 /\ m \in {1, 9}
      BY <1>0, <2>3 DEF TickClassRequest, TickIn, Leg, HostFit, PortInv
    <3>2. m <= l + 1
      BY ONLY <3>1
    <3> QED
      BY <1>0, <2>1, <3>2, OneMore
  <2> QED
    BY <1>5, <2>2, <2>3
<1>6. CASE TickUnit \/ TickUnitRefuses \/ TickUnitSense
  <2>1. /\ TickClass /\ gState = "CLASS" /\ gState' = "CLASS" /\ enum' = enum
        /\ handle \in Handles /\ handle.state = "INIT"
    BY <1>6, ClassHasHandle DEF TickUnit, TickUnitRefuses, TickUnitSense, UnitIs, TickClass, TickIn
  <2>2. handle.unit = "INIT" => handle'.state = "INIT" /\ handle'.unit = "READ_INQUIRY"
    BY <1>6, <2>1 DEF TickUnit, TickUnitRefuses, TickUnitSense, UnitIs, UnitBecomes, Handles
  <2>3. handle.unit = "READ_INQUIRY" =>
          handle'.state = "INIT" /\ handle'.unit \in {"TEST_UNIT_READY", "REQUEST_SENSE"}
    BY <1>6, <2>1 DEF TickUnit, TickUnitRefuses, TickUnitSense, UnitIs, UnitBecomes, Handles
  <2>4. l = (IF handle.unit = "INIT" THEN 9 ELSE IF handle.unit = "READ_INQUIRY" THEN 10 ELSE 11)
    BY <1>0, <2>1 DEF Leg
  <2>5. m <= l + 1
    <3>1. CASE handle.unit = "INIT"
      BY <1>0, <2>1, <2>2, <2>4, <3>1 DEF Leg
    <3>2. CASE handle.unit = "READ_INQUIRY"
      BY <1>0, <2>1, <2>3, <2>4, <3>2 DEF Leg
    <3>3. CASE handle.unit \notin {"INIT", "READ_INQUIRY"}
      BY <1>0, <2>4, <3>3
    <3> QED
      BY <3>1, <3>2, <3>3
  <2> QED
    BY <1>0, <2>1, <2>5, OneMore
<1>7. CASE TickNotify
  <2>1. gState = "CLASS" /\ enum' = enum /\ handle.state # "INIT"
    BY <1>7 DEF TickNotify, TickClass, TickIn
  <2>2. l = 12
    BY <1>0, <2>1 DEF Leg
  <2>3. m <= l + 1
    BY <2>2
  <2> QED
    BY <1>0, <2>1, <2>3, OneMore
<1>8. CASE TickBusy
  <2>1. UNCHANGED <<gState, enum, handle>>
    BY <1>8 DEF TickBusy, libVars
  <2>2. m = l
    BY <1>0, <2>1 DEF Leg
  <2> QED
    BY <1>0, <2>1, <2>2, OneMore
<1> QED
  BY <1>2, <1>3, <1>4, <1>5, <1>6, <1>7, <1>8 DEF Tick

(* Only a disconnect takes a unit that has been through MSC_INIT away.     *)
LEMMA TickLeavesUnit ==
  ASSUME HostOK, HostFit, Tick, gState = "CLASS", handle.state # "INIT"
  PROVE  \/ TicksAway' = 1
         \/ gState' = "CLASS" /\ handle'.state # "INIT" /\ handle'.capacity = handle.capacity
<1>1. TickDisconnected \/ TickNotify \/ TickBusy
  BY DEF Tick, TickIdle, TickWait, TickAttached, TickEnumeration, TickConfigure,
         TickConfigureFails, TickCheckClass, TickClassRequest, TickUnit, TickUnitRefuses,
         TickUnitSense, TickUnitStalls, TickIn, UnitIs
<1>2. CASE TickDisconnected
  <2>1. gState' = "IDLE" /\ enum' = 1
    BY <1>2 DEF TickDisconnected, Restart
  <2> QED
    BY <2>1 DEF TicksAway, Leg
<1>3. CASE TickNotify
  <2>1. handle \in Handles
    BY ClassHasHandle
  <2> QED
    BY <1>3, <2>1 DEF TickNotify, TickClass, TickIn, Handles
<1>4. CASE TickBusy
  BY <1>4 DEF TickBusy, libVars
<1> QED
  BY <1>1, <1>2, <1>3, <1>4

LEMMA PortFits ==
  ASSUME HostOK, HostFit,
         Plug \/ Unplug \/ PortEnabled \/ PortDisabled \/ ProcessInit \/ ProcessLock \/ ProcessStops
  PROVE  HostFit' /\ UNCHANGED libVars
<1>0. UNCHANGED libVars /\ port \in Ports
  BY DEF HostOK, UsbTypeOK, Plug, Unplug, PortEnabled, PortDisabled, ProcessInit, ProcessLock,
         ProcessStops
<1>1. UnitInv'
  BY <1>0 DEF HostFit, UnitInv, libVars
<1>2. PortInv'
  <2>1. CASE Plug \/ ProcessLock \/ ProcessStops
    BY <1>0, <2>1 DEF Plug, ProcessLock, ProcessStops, HostFit, PortInv, libVars, Ports
  <2>2. CASE Unplug \/ PortDisabled
    BY <1>0, <2>2 DEF Unplug, PortDisabled, HostFit, PortInv, libVars, Ports
  <2>3. CASE PortEnabled \/ ProcessInit
    BY <1>0, <2>3 DEF PortEnabled, ProcessInit, HostFit, PortInv, libVars, Ports
  <2> QED
    BY <2>1, <2>2, <2>3
<1> QED
  BY <1>0, <1>1, <1>2 DEF HostFit

LEMMA DiskOnlyFits ==
  ASSUME HostFit, DiskOnly
  PROVE  HostFit' /\ TicksAway' = TicksAway
  BY DEF HostFit, UnitInv, PortInv, DiskOnly, usbVars, libVars, TicksAway, Leg

(* Beside a disk function: what comes and goes at the port, and the lock   *)
LEMMA PortCommands ==
  ASSUME Inv, FitInv, UNCHANGED diskVars,
         Plug \/ Unplug \/ PortEnabled \/ PortDisabled \/ ProcessInit \/ ProcessLock \/ ProcessStops
  PROVE  FitInv'
<1>1. HostFit' /\ UNCHANGED libVars /\ port \in Ports
  BY PortFits, InvParts DEF FitInv, HostFit, HostOK, UsbTypeOK
<1>2. TicksAway' = TicksAway
  BY <1>1 DEF libVars, TicksAway, Leg
<1>3. caller = "pump" => (port'.enabled => drive' = checked)
  <2>1. caller = "pump" => gState # "WAIT_FOR_ATTACHMENT" /\ lock = "disk"
    BY InvParts DEF CallerInv
  <2>2. CASE Plug
    <3>1. ~port.enabled
      BY <2>2 DEF Plug, FitInv, PortInv
    <3>2. ~port'.enabled
      BY <1>1, <2>2, <3>1 DEF Plug, Ports
    <3> QED
      BY <3>2
  <2>3. CASE Unplug \/ PortDisabled \/ ProcessInit
    <3>1. proc = "init" => ~port.enabled
      BY DEF FitInv, PortInv
    <3>2. ~port'.enabled
      <4>1. CASE Unplug
        BY <3>1, <4>1 DEF Unplug
      <4>2. CASE PortDisabled
        BY <1>1, <4>2 DEF PortDisabled, Ports
      <4>3. CASE ProcessInit
        BY <1>1, <3>1, <4>3 DEF ProcessInit, Ports
      <4> QED
        BY <2>3, <4>1, <4>2, <4>3
    <3> QED
      BY <3>2
  <2>4. CASE PortEnabled
    BY <2>1, <2>4 DEF PortEnabled
  <2>5. CASE ProcessLock \/ ProcessStops
    BY <2>5 DEF ProcessLock, ProcessStops, FitInv, CommandInv, diskVars
  <2> QED
    BY <2>2, <2>3, <2>4, <2>5
<1>4. CommandInv'
  BY <1>1, <1>2, <1>3
  DEF FitInv, CommandInv, Admitted, NotReplaced, TransfersFit, OkWasAnswered, libVars, diskVars
<1> QED
  BY <1>1, <1>4 DEF FitInv, HostFit

LEMMA TickCommands ==
  ASSUME Inv, FitInv, HostTicks
  PROVE  FitInv'
<1>1. HostOK /\ HostFit /\ Tick /\ UNCHANGED <<caller, op, checked, served, result>>
  BY InvParts DEF FitInv, HostFit, HostTicks
<1>2. HostFit' /\ HostOK'
  BY <1>1, TickFits, TickKeeps
<1>3. caller # "pump"
  <2>1. proc = "process"
    BY <1>1 DEF Tick, TickDisconnected, TickIdle, TickWait, TickAttached,
       TickEnumeration, TickConfigure, TickConfigureFails, TickCheckClass, TickClassRequest,
       TickUnit, TickUnitRefuses, TickUnitSense, TickUnitStalls, TickNotify, TickBusy, TickClass,
       TickIn, Ticking
  <2> QED
    BY <2>1, InvParts DEF CallerInv
<1>4. ASSUME caller = "transfer"
      PROVE  NotReplaced'
  <2>1. ticks' = ticks + 1 /\ ticks \in Nat
    BY <1>4, InvParts, OvertakePositive DEF HostTicks, AtLock, DiskOK
  <2>2. NotReplaced
    BY <1>4 DEF FitInv, CommandInv
  <2>3. CASE gState = "CLASS" /\ handle.state # "INIT" /\ handle.capacity = checked
    <3>1. TicksAway' = 1 => TicksAway' <= ticks'
      BY <2>1
    <3> QED
      BY <1>1, <2>3, <3>1, TickLeavesUnit DEF NotReplaced
  <2>4. CASE TicksAway <= ticks
    <3>1. TicksAway' <= TicksAway + 1 /\ TicksAway \in Nat /\ TicksAway' \in Nat
      BY <1>1, <1>2, TickGoesOneLeg, AwayRange, AwayRangeNext DEF HostOK
    <3>2. TicksAway' <= ticks'
      BY <2>1, <2>4, <3>1
    <3> QED
      BY <3>2 DEF NotReplaced
  <2> QED
    BY <2>2, <2>3, <2>4 DEF NotReplaced
<1>5. CommandInv'
  BY <1>1, <1>3, <1>4 DEF FitInv, CommandInv, Admitted, TransfersFit, OkWasAnswered
<1> QED
  BY <1>2, <1>5 DEF FitInv, HostFit

(* A disk function that returns has nothing under way any more.            *)
LEMMA ReturnFits ==
  ASSUME FitInv, DiskOnly, NEW r \in Results \ {"transferred"}, Return(r)
  PROVE  FitInv'
<1>1. HostFit'
  BY DiskOnlyFits DEF FitInv, HostFit
<1>2. CommandInv'
  BY <1>1 DEF CommandInv, Return, AtLock, TransfersFit, OkWasAnswered
<1> QED
  BY <1>1, <1>2 DEF FitInv, HostFit

\* One that goes on with the lock again
LEMMA ProceedFits ==
  ASSUME FitInv, DiskOnly, caller \in AtLock, NEW c \in AtLock \ {"transfer"}, Proceed(c),
         UNCHANGED served, served # Unserved => c = "translate" /\ UNCHANGED checked
  PROVE  FitInv'
<1>1. HostFit'
  BY DiskOnlyFits DEF FitInv, HostFit
<1>2. CommandInv'
  BY <1>1 DEF FitInv, CommandInv, Proceed, AtLock, TransfersFit, OkWasAnswered
<1> QED
  BY <1>1, <1>2 DEF FitInv, HostFit

LEMMA FailedTestFits ==
  ASSUME NEW fn \in Functions, fn # "sync"
  PROVE  FailedTest(fn) \in Results \ {"transferred"}
  BY DEF FailedTest, Functions, Transfers, Results

LEMMA CallFits ==
  ASSUME Inv, FitInv, Call
  PROVE  FitInv'
<1>1. PICK o \in Ops :
        \/ o.fn = "sync" /\ Return("ok")
        \/ o.fn # "sync" /\ status # "ready" /\ Return(FailedTest(o.fn))
        \/ /\ o.fn # "sync" /\ status = "ready"
           /\ caller' = IF o.fn = "initialize" THEN "init info" ELSE "info"
           /\ op' = o /\ result' = "none"
           /\ checked' = NoInfo /\ served' = Unserved /\ ticks' = 0
  BY DEF Call
<1>2. DiskOnly
  BY DEF Call
<1>3. CASE o.fn = "sync" /\ Return("ok")
  BY <1>2, <1>3, ReturnFits DEF Results
<1>4. CASE o.fn # "sync" /\ Return(FailedTest(o.fn))
  <2>1. FailedTest(o.fn) \in Results \ {"transferred"}
    BY <1>4, FailedTestFits, OpsShape
  <2> QED
    BY <1>2, <1>4, <2>1, ReturnFits
<1>5. CASE caller' \in {"init info", "info"} /\ result' = "none" /\ served' = Unserved
  <2>1. HostFit'
    BY <1>2, DiskOnlyFits DEF FitInv, HostFit
  <2>2. CommandInv'
    BY <1>5 DEF CommandInv, TransfersFit, OkWasAnswered
  <2> QED
    BY <2>1, <2>2 DEF FitInv, HostFit
<1> QED
  BY <1>1, <1>3, <1>4, <1>5

LEMMA AnswersFit ==
  ASSUME Inv, FitInv, LockTimesOut \/ Trap \/ InitQuery \/ UnitReady \/ Translate
  PROVE  FitInv'
<1>0. DiskOnly /\ caller \in AtLock
  BY DEF LockTimesOut, Trap, InitQuery, UnitReady, Translate, AtFreeLock, AtLock
<1>1. FailedTest(op.fn) \in Results \ {"transferred"}
  BY <1>0, AtLockOp, FailedTestFits
<1>2. CASE LockTimesOut
  BY <1>0, <1>1, <1>2, ReturnFits DEF LockTimesOut, Results
<1>3. CASE UnitReady \/ Translate
  BY <1>0, <1>3, ReturnFits DEF UnitReady, Translate, Results
<1>4. CASE InitQuery
  <2>1. CASE Return("not initialised")
    BY <1>0, <2>1, ReturnFits DEF Results
  <2>2. CASE Proceed("info") /\ UNCHANGED <<checked, served>>
    <3>1. served = Unserved /\ "info" \in AtLock \ {"transfer"}
      BY <1>4 DEF InitQuery, AtFreeLock, FitInv, CommandInv, AtLock
    <3> QED
      BY <1>0, <2>2, <3>1, ProceedFits
  <2> QED
    BY <1>4, <2>1, <2>2 DEF InitQuery
<1>5. CASE Trap
  <2>1. HostFit'
    BY <1>0, DiskOnlyFits DEF FitInv, HostFit
  <2>2. CommandInv'
    BY <1>5 DEF Trap, FitInv, CommandInv, AtLock, TransfersFit, OkWasAnswered
  <2> QED
    BY <2>1, <2>2 DEF FitInv, HostFit
<1> QED
  BY <1>2, <1>3, <1>4, <1>5

(* The capacity is the unit's, and a transfer is let through within it.    *)
LEMMA QueryFits ==
  ASSUME Inv, FitInv, Query
  PROVE  FitInv'
<1>0. DiskOnly /\ caller = "info" /\ caller \in AtLock /\ served = Unserved
  BY DEF Query, AtFreeLock, AtLock, FitInv, CommandInv
<1>1. CASE Return(FailedTest(op.fn))
  <2>1. FailedTest(op.fn) \in Results \ {"transferred"}
    BY <1>0, AtLockOp, FailedTestFits
  <2> QED
    BY <1>0, <1>1, <2>1, ReturnFits
<1>2. CASE Return("ok") \/ Return("parameter")
  BY <1>0, <1>2, ReturnFits DEF Results
<1>3. CASE /\ ~InfoFails /\ Supported(handle) /\ op.fn \notin Transfers
           /\ Proceed("unit") /\ UNCHANGED served
  BY <1>0, <1>3, ProceedFits DEF AtLock
<1>4. CASE /\ ~InfoFails /\ Supported(handle) /\ InRange(op.sector, handle.capacity)
           /\ Proceed("transfer") /\ checked' = handle.capacity /\ UNCHANGED served
  <2>1. handle.capacity \in Drives \ Odd /\ gState = "CLASS" /\ handle # NoHandle
    BY <1>4, CapacityIsADrive, InvParts, ClassHasHandle DEF Supported, InfoFails
  <2>2. handle.state # "INIT"
    BY <1>4, <2>1 DEF Supported, FitInv, UnitInv
  <2>3. HostFit' /\ UNCHANGED <<gState, handle>>
    BY <1>0, DiskOnlyFits DEF FitInv, HostFit, DiskOnly, usbVars, libVars
  <2>4. Admitted' /\ NotReplaced'
    BY <1>4, <2>1, <2>2, <2>3 DEF Admitted, NotReplaced, InRange, Proceed
  <2>5. CommandInv'
    BY <1>0, <1>4, <2>4 DEF FitInv, CommandInv, Proceed, TransfersFit, OkWasAnswered
  <2> QED
    BY <2>3, <2>5 DEF FitInv, HostFit
<1>5. ASSUME ~InfoFails, Supported(handle), WithCapacity(handle.capacity)
      PROVE  FitInv'
  <2>1. CASE Return("ok") \/ Return("parameter")
    BY <1>2, <2>1
  <2>2. CASE /\ op.fn \in Transfers /\ InRange(op.sector, handle.capacity)
             /\ Proceed("transfer") /\ checked' = handle.capacity /\ ticks' = 0
             /\ UNCHANGED served
    BY <1>4, <1>5, <2>2
  <2>3. CASE op.fn \notin Transfers /\ Proceed("unit") /\ UNCHANGED served
    BY <1>3, <1>5, <2>3
  <2> QED
    BY <1>5, <2>1, <2>2, <2>3 DEF WithCapacity, Transfers
<1> QED
  BY <1>1, <1>5 DEF Query

(* A transfer begins with the drive whose capacity was checked.            *)
LEMMA BeginFits ==
  ASSUME Inv, FitInv, BeginTransfer, MaxOvertake < ReplacementTicks
  PROVE  FitInv'
<1>0. caller = "transfer" /\ caller \in AtLock /\ served = Unserved /\ Admitted /\ NotReplaced
  BY DEF BeginTransfer, AtFreeLock, AtLock, FitInv, CommandInv
<1>1. CASE Proceed("translate") /\ UNCHANGED <<handle, lock>>
  <2>1. DiskOnly /\ UNCHANGED <<checked, served>>
    BY <1>1 DEF BeginTransfer, DiskOnly, usbVars, libVars
  <2> QED
    BY <1>0, <1>1, <2>1, ProceedFits DEF AtLock
<1>2. CASE /\ port.enabled /\ gState = "CLASS" /\ handle.unit = "IDLE"
           /\ handle' = [handle EXCEPT !.unit = "TRANSFER"]
           /\ lock' = "disk" /\ Proceed("pump")
  <2>1. handle \in Handles /\ handle # NoHandle
    BY <1>2, InvParts, ClassHasHandle
  <2>2. /\ handle'.state = handle.state /\ handle'.capacity = handle.capacity
        /\ handle'.unit = "TRANSFER"
    BY <1>2, <2>1 DEF Handles
  <2>3. handle.state # "INIT"
    BY <1>2, <2>1 DEF FitInv, UnitInv
  <2>4. handle.capacity = checked
    <3>1. SUFFICES ASSUME TicksAway <= ticks
                   PROVE  FALSE
      BY <1>0 DEF NotReplaced
    <3>2. Leg = 12 /\ enum = 6
      BY <1>2, <2>3, EnumRange DEF Leg, FitInv, PortInv
    <3>3. TicksAway = 17
      BY <3>2 DEF TicksAway
    <3>4. ticks \in Nat /\ ticks <= MaxOvertake /\ MaxOvertake \in Nat
      BY InvParts, OvertakePositive DEF DiskOK
    <3>5. ticks < 17
      BY <3>4 DEF ReplacementTicks
    <3> QED
      BY ONLY <3>1, <3>3, <3>4, <3>5
  <2>5. drive = checked
    <3>1. handle.capacity # NoDrive
      BY <1>0, <2>4, UsbAssumption DEF Admitted, UsbAssumption
    <3> QED
      BY <1>2, <2>4, <3>1 DEF FitInv, PortInv
  <2>6. UNCHANGED <<drive, port, gState, enum, proc, checked, served, op, result>>
    BY <1>2 DEF BeginTransfer, Proceed
  <2>7. UnitInv' /\ PortInv'
    BY <1>2, <2>2, <2>3, <2>6 DEF FitInv, UnitInv, PortInv
  <2>8. CommandInv'
    BY <1>0, <1>2, <2>2, <2>3, <2>5, <2>6
    DEF FitInv, CommandInv, Admitted, Proceed, AtLock, TransfersFit, OkWasAnswered
  <2> QED
    BY <2>7, <2>8 DEF FitInv
<1> QED
  BY <1>1, <1>2 DEF BeginTransfer

(* Whatever answers during the loop is that drive.                         *)
LEMMA PumpFits ==
  ASSUME Inv, FitInv, TransferEnds \/ TransferStalls
  PROVE  FitInv'
<1>0. caller = "pump" /\ Admitted /\ handle \in Handles /\ handle.state # "INIT"
  <2>1. caller = "pump"
    BY DEF TransferEnds, TransferCompletes, TransferRefused, SenseAnswered, TransferTimesOut,
           TransferStalls, Pumping
  <2> QED
    BY <2>1, PumpingState DEF FitInv, CommandInv
<1>1. CASE TransferStalls
  BY <1>0, <1>1
  DEF TransferStalls, ControlFails, diskVars, FitInv, UnitInv, PortInv, CommandInv, Admitted,
      AtLock, TransfersFit, OkWasAnswered
<1>2. CASE TransferEnds
  <2>1. UNCHANGED <<drive, port, gState, enum, proc, checked>>
    BY <1>2 DEF TransferEnds, TransferCompletes, TransferRefused, SenseAnswered, TransferTimesOut,
                PumpOnly
  <2>2. handle'.state = handle.state /\ handle'.capacity = handle.capacity
    BY <1>0, <1>2
    DEF TransferEnds, TransferCompletes, TransferRefused, SenseAnswered, TransferTimesOut, Handles
  <2>3. UnitInv' /\ PortInv'
    <3>1. gState # "CLASS_REQUEST"
      BY <1>0, InvParts DEF CallerInv
    <3> QED
      BY <1>0, <2>1, <2>2, <3>1 DEF FitInv, UnitInv, PortInv
  <2>4. CASE TransferCompletes \/ TransferRefused
    <3>0. port.enabled
      BY <2>4 DEF TransferCompletes, TransferRefused, Pumping, Reachable
    <3>1. drive = checked /\ checked \in Drives \ Odd /\ op.sector < SectorCount[checked]
      BY <1>0, <3>0 DEF FitInv, CommandInv, Admitted, InRange
    <3>2. /\ served' # Unserved /\ served'[1] = checked /\ served'[2] = op.sector
      <4>1. PICK how : served' = <<drive, op.sector, how>>
        BY <2>4 DEF TransferCompletes, TransferRefused
      <4>2. drive # NoDrive
        BY <2>4 DEF TransferCompletes, TransferRefused, Pumping, Reachable
      <4> QED
        BY <3>1, <4>1, <4>2 DEF Unserved
    <3>3. \/ caller' = "idle"
          \/ caller' = "pump" /\ op' = op
      BY <1>0, <2>4 DEF TransferCompletes, TransferRefused, Transferred
    <3>4. CommandInv'
      BY <1>0, <2>1, <2>2, <3>1, <3>2, <3>3
      DEF FitInv, CommandInv, Admitted, AtLock, TransfersFit, OkWasAnswered
    <3> QED
      BY <2>3, <3>4 DEF FitInv
  <2>5. CASE SenseAnswered
    <3>1. served # Unserved /\ served' = served /\ caller' = "idle"
      BY <1>0, <2>5 DEF SenseAnswered, Pumping, Transferred, FitInv, CommandInv
    <3>2. CommandInv'
      BY <2>1, <3>1 DEF FitInv, CommandInv, AtLock, TransfersFit, OkWasAnswered
    <3> QED
      BY <2>3, <3>2 DEF FitInv
  <2>6. CASE TransferTimesOut
    <3>1. served' = served /\ caller' = "translate" /\ result' = result
      BY <2>6 DEF TransferTimesOut, Proceed
    <3>2. CommandInv'
      BY <2>1, <3>1 DEF FitInv, CommandInv, AtLock, TransfersFit, OkWasAnswered
    <3> QED
      BY <2>3, <3>2 DEF FitInv
  <2> QED
    BY <1>2, <2>4, <2>5, <2>6 DEF TransferEnds
<1> QED
  BY <1>1, <1>2

LEMMA FitInit == Init => FitInv
<1> SUFFICES ASSUME Init PROVE FitInv
  OBVIOUS
<1>1. UnitInv /\ PortInv
  BY DEF Init, UsbInit, UnitInv, PortInv
<1>2. CommandInv
  BY DEF Init, CommandInv, AtLock, TransfersFit, OkWasAnswered
<1> QED
  BY <1>1, <1>2 DEF FitInv

LEMMA FitNext ==
  ASSUME MaxOvertake < ReplacementTicks
  PROVE  Inv /\ FitInv /\ [Next]_vars => FitInv'
<1> SUFFICES ASSUME Inv, FitInv, [Next]_vars PROVE FitInv'
  OBVIOUS
<1>1. CASE UNCHANGED vars
  <2>1. DiskOnly /\ UNCHANGED diskVars
    BY <1>1 DEF vars, DiskOnly
  <2>2. HostFit' /\ TicksAway' = TicksAway
    BY <2>1, DiskOnlyFits DEF FitInv, HostFit
  <2>3. CommandInv'
    BY <2>1, <2>2 DEF DiskOnly, usbVars, libVars, diskVars, FitInv, CommandInv, Admitted,
                      NotReplaced, TransfersFit, OkWasAnswered
  <2> QED
    BY <2>2, <2>3 DEF FitInv, HostFit
<1>2. CASE Next
  BY <1>2, PortCommands, TickCommands, CallFits, AnswersFit, QueryFits, BeginFits, PumpFits
  DEF Next, HostMoves, HostLocks, HostOnly, AtLockMoves
<1> QED
  BY <1>1, <1>2

LEMMA FitAlways ==
  ASSUME MaxOvertake < ReplacementTicks
  PROVE  Spec => []FitInv
<1>1. Inv /\ FitInv /\ [Next]_vars => FitInv'
  BY FitNext
<1> QED
  BY <1>1, InitInv, NextInv, FitInit, PTL DEF Spec

(* The capacity and the block size are checked with the lock held once, and*)
(* used with the lock held again (usbh_msc_disk.c).  No drive gets a       *)
(* command for a sector that it does not have, or in a size that it does   *)
(* not use, however often drives are exchanged in between: as long as the  *)
(* caller waits for the lock for fewer ticks than the host needs to        *)
(* enumerate a drive anew.                                                 *)
THEOREM TransfersAlwaysFit ==
  ASSUME MaxOvertake < ReplacementTicks
  PROVE  Spec => []TransfersFit
<1>1. FitInv => TransfersFit
  BY DEF FitInv, CommandInv
<1> QED
  BY <1>1, FitAlways, PTL

(* On the same condition a read or a write that is reported as done was    *)
(* answered, and by the drive whose capacity admitted it.                  *)
THEOREM OkIsAlwaysAnswered ==
  ASSUME MaxOvertake < ReplacementTicks
  PROVE  Spec => []OkWasAnswered
<1>1. FitInv => OkWasAnswered
  BY DEF FitInv, CommandInv
<1> QED
  BY <1>1, FitAlways, PTL

=============================================================================
