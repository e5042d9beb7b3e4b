------------------------------ MODULE UsbDisk ------------------------------
(***************************************************************************)
(* The disk that FatFS sees (fatfs_diskio.c over usbh_msc_disk.c), used by *)
(* the Servicer task while the USB host runs in a task of its own.  Every  *)
(* function first tests the status of the host, without the lock, and then *)
(* takes the lock once for each call into the library.  A read or a write  *)
(* keeps it while it pumps the command itself (USBH_MSC_RdWrProcess).      *)
(*                                                                         *)
(* Both tasks have the same priority and the host's sleeps 10 ms after     *)
(* each tick, so that a caller that is about to take the lock sees few     *)
(* ticks go by (MaxOvertake).                                              *)
(***************************************************************************)
EXTENDS UsbHost

CONSTANTS
  Sectors,      \* what is asked for: one sector each
  SectorCount,  \* the number of sectors of each drive
  Odd,          \* drives whose sectors do not have kStorageBlockSize bytes
  MaxOvertake,  \* so many ticks between a test and the lock
  NoInfo,       \* no answer of USBH_MSC_GetLUNInfo
  NoOp          \* the Servicer is in no disk function

VARIABLES
  caller,     \* where the Servicer is in a disk function
  op,         \* the function, and its sector
  checked,    \* the drive of the capacity that it checked
  ticks,      \* ticks since it went for the lock
  served,     \* who answered its command, for which sector, and how
  result      \* what the last function returned; a transfer leaves the two
              \* before it as they are when it is done

diskVars == <<caller, op, checked, ticks, served, result>>
vars == <<usbVars, diskVars>>

Functions == {"initialize", "status", "read", "write", "geometry", "sync"}
Transfers == {"read", "write"}
Ops == [fn : Transfers, sector : Sectors] \cup [fn : Functions \ Transfers, sector : {0}]

ASSUME DiskAssumption ==
  /\ Sectors \subseteq Nat /\ SectorCount \in [Drives -> Nat] /\ Odd \subseteq Drives
  /\ MaxOvertake \in Nat \ {0}
  /\ NoInfo \notin Drives /\ NoOp \notin Ops

Results == {"none", "ok", "transferred", "not initialised", "not ready", "parameter",
            "write protected", "error"}
Unserved == <<NoDrive, 0, "not at all">>

\* Where it waits for the lock, and for which call
AtLock == {"init info", "info", "unit", "transfer", "translate"}

DiskTypeOK ==
  /\ UsbTypeOK
  /\ caller \in AtLock \cup {"idle", "pump", "fault"}
  /\ op \in Ops \cup {NoOp}
  /\ checked \in Drives \cup {NoInfo}
  /\ ticks \in 0 .. MaxOvertake
  /\ served \in {Unserved} \cup (Drives \X Sectors \X {"completed", "refused"})
  /\ result \in Results

Init ==
  /\ UsbInit
  /\ caller = "idle" /\ op = NoOp /\ checked = NoInfo /\ ticks = 0
  /\ served = Unserved /\ result = "none"

Up == caller # "fault"
HostOnly == UNCHANGED diskVars

-----------------------------------------------------------------------------
\* The host's task runs along.
HostLocks ==
  /\ caller \in AtLock => ticks < MaxOvertake
  /\ ProcessLock
  /\ UNCHANGED diskVars

HostTicks ==
  /\ Tick
  /\ ticks' = IF caller \in AtLock THEN ticks + 1 ELSE ticks
  /\ UNCHANGED <<caller, op, checked, served, result>>

-----------------------------------------------------------------------------
DiskOnly == UNCHANGED usbVars
Proceed(c) == caller' = c /\ UNCHANGED <<op, result>>
Return(r) ==
  /\ caller' = "idle" /\ op' = NoOp /\ result' = r
  /\ checked' = NoInfo /\ served' = Unserved /\ ticks' = 0

FailedTest(fn) ==
  CASE fn \in {"initialize", "status"} -> "not initialised"
    [] fn \in Transfers -> "not ready"
    [] fn = "geometry" -> "error"

\* A function is called: the status is tested first.  CTRL_SYNC and
\* GET_BLOCK_SIZE have nothing to do.
Call ==
  /\ caller = "idle"
  /\ \E o \in Ops :
       \/ o.fn = "sync" /\ Return("ok")
       \/ o.fn # "sync" /\ status # "ready" /\ Return(FailedTest(o.fn))
       \/ /\ o.fn # "sync" /\ status = "ready"
          /\ caller' = IF o.fn = "initialize" THEN "init info" ELSE "info"
          /\ op' = o /\ result' = "none"
          /\ checked' = NoInfo /\ served' = Unserved /\ ticks' = 0
  /\ DiskOnly

\* usbHostLock gives up after 12 s behind a tick that takes too long.
LockTimesOut ==
  /\ caller \in AtLock /\ lock = "process"
  /\ Return(IF caller = "translate" THEN "not ready" ELSE FailedTest(op.fn))
  /\ DiskOnly

AtFreeLock(c) == caller = c /\ lock = "free"

\* The class or its data is gone: every call into the library begins by
\* writing current_lun through both.  That traps, or does no harm and the call
\* fails because the host is in no state for it.
TornDown == ~class \/ handle = NoHandle

Trap ==
  /\ \E c \in AtLock : AtFreeLock(c)
  /\ TornDown
  /\ caller' = "fault"
  /\ UNCHANGED <<op, checked, ticks, served, result>>
  /\ DiskOnly

InfoFails == gState # "CLASS"

\* A drive of another block size than kStorageBlockSize is turned away.
Supported(h) == h.capacity # NoDrive /\ h.capacity \notin Odd

\* A wrong range check: one sector too many.
InRangeOneMore(sector, d) == sector <= SectorCount[d]

InRange(sector, d) == sector < SectorCount[d]

\* usbhMscQueryCapacity of the init function; disk_initialize goes on with the
\* status function, which tests the status again.
InitQuery ==
  /\ AtFreeLock("init info")
  /\ IF ~InfoFails /\ Supported(handle) /\ status = "ready"
     THEN Proceed("info") /\ ticks' = 0 /\ UNCHANGED <<checked, served>>
     ELSE Return("not initialised")
  /\ DiskOnly

\* What a function does with a capacity that it got
WithCapacity(d) ==
  \/ op.fn = "geometry" /\ Return("ok")
  \/ op.fn \in Transfers /\ ~InRange(op.sector, d) /\ Return("parameter")
  \/ /\ op.fn \in {"initialize", "status"} \/ (op.fn \in Transfers /\ InRange(op.sector, d))
     /\ Proceed(IF op.fn \in Transfers THEN "transfer" ELSE "unit")
     /\ checked' = d /\ ticks' = 0 /\ UNCHANGED served

\* usbhMscQueryCapacity of every other function
Query ==
  /\ AtFreeLock("info")
  /\ IF ~InfoFails /\ Supported(handle)
     THEN WithCapacity(handle.capacity)
     ELSE Return(FailedTest(op.fn))
  /\ DiskOnly

\* USBH_MSC_UnitIsReady
UnitReady ==
  /\ AtFreeLock("unit")
  /\ Return(IF gState = "CLASS" /\ handle.error = "OK" THEN "ok" ELSE "not initialised")
  /\ DiskOnly

\* USBH_MSC_Read and USBH_MSC_Write up to their loop
BeginTransfer ==
  /\ AtFreeLock("transfer")
  /\ IF port.enabled /\ gState = "CLASS" /\ handle.unit = "IDLE"
     THEN /\ handle' = [handle EXCEPT !.unit = "TRANSFER"]
          /\ lock' = "disk" /\ Proceed("pump") /\ UNCHANGED ticks
     ELSE Proceed("translate") /\ ticks' = 0 /\ UNCHANGED <<handle, lock>>
  /\ UNCHANGED <<drive, flawed, port, gState, enum, tries, class, status, proc, checked, served>>

\* The loop.  Its caller holds the lock until the loop is left.
Pumping == caller = "pump" /\ Reachable
PumpOnly ==
  UNCHANGED <<drive, port, gState, enum, tries, class, status, proc, checked>>
Transferred == /\ caller' = "idle" /\ op' = NoOp /\ result' = "transferred"
               /\ lock' = "free"

TransferCompletes ==
  /\ Pumping /\ handle.unit = "TRANSFER"
  /\ handle' = [handle EXCEPT !.unit = "IDLE"]
  /\ served' = <<drive, op.sector, "completed">>
  /\ Transferred
  /\ PumpOnly /\ UNCHANGED <<ticks, flawed>>

\* The drive fails the command: it is asked why.
TransferRefused ==
  /\ Pumping /\ handle.unit = "TRANSFER"
  /\ handle' = [handle EXCEPT !.unit = "REQUEST_SENSE"]
  /\ served' = <<drive, op.sector, "refused">>
  /\ flawed' = TRUE
  /\ PumpOnly /\ UNCHANGED <<caller, op, ticks, lock, result>>

\* It said why.  The loop ends, and whatever ends it is USBH_OK to the caller.
SenseAnswered ==
  /\ Pumping /\ handle.unit = "REQUEST_SENSE"
  /\ \E sense \in Senses \ {"none"} :
       handle' \in {[handle EXCEPT !.unit = "IDLE", !.error = "ERROR", !.sense = sense],
                    [handle EXCEPT !.unit = "UNRECOVERED_ERROR", !.sense = "not ready"]}
  /\ Transferred
  /\ PumpOnly /\ UNCHANGED <<ticks, served, flawed>>

\* A wrong time-out: it is reported as done.
TransferTimesOutDone ==
  /\ caller = "pump"
  /\ flawed' = (flawed \/ Reachable)
  /\ Transferred
  /\ PumpOnly /\ UNCHANGED <<handle, served, ticks>>

\* A wrong time-out: the caller fails and the lock is never given back.
TransferTimesOutLocked ==
  /\ caller = "pump"
  /\ flawed' = (flawed \/ Reachable)
  /\ caller' = "idle" /\ op' = NoOp /\ result' = "not ready"
  /\ PumpOnly /\ UNCHANGED <<lock, handle, served, ticks>>

\* Ten seconds are over, or the port is no longer enabled: the unit is left as
\* it is.
TransferTimesOut ==
  /\ caller = "pump"
  /\ flawed' = (flawed \/ Reachable)
  /\ lock' = "free" /\ Proceed("translate") /\ ticks' = 0
  /\ PumpOnly /\ UNCHANGED <<handle, served>>

\* Clearing a stalled endpoint fails for good: the host starts over while the
\* loop goes on.
TransferStalls ==
  /\ Pumping
  /\ ControlFails
  /\ UNCHANGED <<proc, lock, diskVars>>

\* usbhMscDiskTranslateError
Translate ==
  /\ AtFreeLock("translate")
  /\ Return(IF InfoFails THEN "error"
            ELSE IF op.fn = "write" /\ handle.sense = "write protected" THEN "write protected"
            ELSE IF handle.sense = "not ready" THEN "not ready"
            ELSE "error")
  /\ DiskOnly

-----------------------------------------------------------------------------
HostMoves ==
  \/ HostLocks \/ HostTicks
  \/ (ProcessInit \/ ProcessStops \/ PortEnabled \/ PortDisabled) /\ HostOnly

TransferEnds == TransferCompletes \/ TransferRefused \/ SenseAnswered \/ TransferTimesOut
AtLockMoves == Trap \/ InitQuery \/ Query \/ UnitReady \/ BeginTransfer \/ Translate

\* A trap stops the board; drives come and go nevertheless.
Next ==
  \/ (Plug \/ Unplug) /\ HostOnly
  \/ Up /\ (HostMoves \/ Call \/ LockTimesOut \/ AtLockMoves \/ TransferEnds \/ TransferStalls)

(* Tasks run, commands end (within their 10 s), ports come out of reset; the *)
(* mutex goes to the host's task in turn when the Servicer waits for its     *)
(* next request.  Nobody has to call, to stop, or to plug anything.          *)
Fairness ==
  /\ WF_vars(Up /\ ProcessInit /\ HostOnly)
  /\ WF_vars(Up /\ PortEnabled /\ HostOnly)
  /\ SF_vars(Up /\ HostLocks)
  /\ WF_vars(Up /\ HostTicks)
  /\ WF_vars(Up /\ AtLockMoves)
  /\ WF_vars(Up /\ TransferEnds)

Spec == Init /\ [][Next]_vars /\ Fairness

-----------------------------------------------------------------------------
(* "Consumers should treat this as the gate for safe to touch USBH_MSC_*"    *)
(* (usb_host.h): whenever the status is ready the class is in place, its     *)
(* data is allocated and the capacity of a drive has been read.              *)
ReadyMeansClass ==
  status = "ready" =>
    gState = "CLASS" /\ class /\ handle # NoHandle /\ handle.capacity # NoDrive

(* "A disconnect handled by USBH_Process() can free/tear down MSC class      *)
(* state while another thread is still mid-transfer" (usb_host.h): a         *)
(* transfer keeps its class and its data from its first step to its last.    *)
TransferKeepsHandle ==
  caller = "pump" =>
    class /\ handle # NoHandle /\ handle.unit \in {"TRANSFER", "REQUEST_SENSE"}

(* The capacity and the block size are checked in one call and used in       *)
(* another, when the drive may have been pulled and another one put in: no   *)
(* drive gets a command for a sector that it does not have, or that is not   *)
(* of the size of the buffer.                                                *)
TransfersFit ==
  served # Unserved =>
    served[2] < SectorCount[served[1]] /\ served[1] \notin Odd

(* A read or a write that is reported as done was answered, in one way or    *)
(* the other, by the drive whose capacity admitted it.                       *)
OkWasAnswered ==
  result = "transferred" => served # Unserved /\ served[1] = checked

(* "Maps a failed USBH_MSC_Read/Write onto a PalStorageResult by inspecting  *)
(* the SCSI sense data" (usbh_msc_disk.c): a command that the drive failed   *)
(* is not reported as done.                                                  *)
FailureIsReported == result = "transferred" => served[3] = "completed"

(* The lock exists so that no disconnect tears the class down under a        *)
(* caller: no call into the library finds it gone.                           *)
ClassOutlivesCallers == caller # "fault"

Running == Up /\ proc # "stopped"

(* A drive that is pulled for good is noticed, whatever was going on.        *)
UnplugNoticed ==
  []Running /\ <>[](drive = NoDrive) => <>[](status = "disconnected")

Usable ==
  /\ status = "ready" /\ gState = "CLASS" /\ port.enabled /\ handle.error = "OK"
  /\ caller = "pump" \/ handle.unit = "IDLE"

\* A drive that came back before the tick that would have handled its going:
\* USBH_LL_Connect clears is_disconnected.
Stranded ==
  gState \notin {"IDLE", "WAIT_FOR_ATTACHMENT"} /\ ~port.enabled /\ ~port.disconnected

(* A drive that is put in and does as it is told becomes usable for good,     *)
(* whatever went wrong before, unless it came back too fast for the host to  *)
(* see it go.                                                                *)
ReplugRecovers ==
  /\ []Running
  /\ <>[](drive # NoDrive /\ ~flawed)
  /\ <>[][~PortDisabled]_vars
  => <>[](Usable \/ Stranded)

=============================================================================
