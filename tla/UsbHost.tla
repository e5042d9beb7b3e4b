------------------------------ MODULE UsbHost ------------------------------
(***************************************************************************)
(* The USB host: the state machine of the library's core (usbh_core.c,     *)
(* HOST_ and ENUM_ states), its mass-storage class (usbh_msc.c), the port  *)
(* interrupts (usbh_conf.c) and the task that pumps them under the lock    *)
(* (usb_host.c).  A tick is one call of USBH_Process.  Between its test of *)
(* is_disconnected and its end it reads each port flag once at most, so an *)
(* interrupt inside a tick has the effect of one before or after it.       *)
(*                                                                         *)
(* A command that is still busy changes nothing; only its answer is a step.*)
(* What a drive answers is open: it may refuse, stall or fail anything.    *)
(***************************************************************************)
EXTENDS Naturals, Sequences

CONSTANTS
  Drives,       \* mass-storage devices that get plugged in
  NoDrive,      \* an empty port
  NoHandle,     \* pData of the class when nothing is allocated
  Retries       \* tries before the library gives up (3), rounds of a 10 s window

VARIABLES
  drive,      \* what is in the port
  flawed,     \* it has refused or failed something since it was plugged in
  port,       \* the flags of phost->device
  gState,     \* phost->gState
  enum,       \* phost->EnumState
  tries,      \* device.RstCnt, device.EnumCnt
  class,      \* phost->pActiveClass is set
  handle,     \* what its pData points to
  status,     \* s_mscStatus
  proc,       \* where the task UsbHostProcess is
  lock        \* who holds s_lock

libVars == <<gState, enum, tries, class, handle, status>>
usbVars == <<drive, flawed, port, libVars, proc, lock>>

\* The three string descriptors, which a device may do without, are one.
EnumStates == <<"IDLE", "GET_FULL_DEV_DESC", "SET_ADDR", "GET_CFG_DESC",
  "GET_FULL_CFG_DESC", "STRINGS">>

HostStates == {"IDLE", "WAIT_FOR_ATTACHMENT", "ATTACHED", "ENUMERATION", "INPUT",
  "SET_CONFIGURATION", "SET_WAKEUP_FEATURE", "CHECK_CLASS", "CLASS_REQUEST",
  "CLASS", "ABORT"}
UnitStates == {"INIT", "READ_INQUIRY", "TEST_UNIT_READY", "READ_CAPACITY10",
  "REQUEST_SENSE", "UNRECOVERED_ERROR", "IDLE", "TRANSFER"}
Senses == {"none", "not ready", "write protected", "other"}

\* A drive's capacity is known by the drive it was read from.
Handles == [state : {"INIT", "USER_NOTIFY", "IDLE"}, unit : UnitStates,
            error : {"OK", "NOT_READY", "ERROR"}, capacity : Drives \cup {NoDrive},
            sense : Senses, rounds : 0 .. Retries]
ASSUME UsbAssumption ==
  NoDrive \notin Drives /\ NoHandle \notin Handles /\ Retries \in Nat

Ports == [connected : BOOLEAN, disconnected : BOOLEAN, enabled : BOOLEAN]

UsbTypeOK ==
  /\ drive \in Drives \cup {NoDrive}
  /\ flawed \in BOOLEAN
  /\ port \in Ports
  /\ gState \in HostStates
  /\ enum \in DOMAIN EnumStates
  /\ tries \in [reset : 0 .. Retries + 1, enum : 0 .. Retries + 1]
  /\ class \in BOOLEAN
  /\ handle \in Handles \cup {NoHandle}
  /\ status \in {"disconnected", "connected", "ready"}
  /\ proc \in {"init", "top", "process", "stopped"}
  /\ lock \in {"free", "process", "disk"}

\* usbHostLockInit has run (the composition root); nothing else has.
UsbInit ==
  /\ drive \in Drives \cup {NoDrive}
  /\ flawed = FALSE
  /\ port = [connected |-> FALSE, disconnected |-> FALSE, enabled |-> FALSE]
  /\ gState = "IDLE" /\ enum = 1 /\ tries = [reset |-> 0, enum |-> 0]
  /\ class = FALSE /\ handle = NoHandle
  /\ status = "disconnected"
  /\ proc = "init" /\ lock = "free"

\* USBH_MSC_InterfaceInit clears what it allocates.
FreshHandle == [state |-> "INIT", unit |-> "INIT", error |-> "OK", capacity |-> NoDrive,
                sense |-> "none", rounds |-> 0]

\* A wrong callback: the status survives the drive.
AfterUserProcessSticky(event) ==
  CASE event = "CONNECTION" -> "connected"
    [] event = "CLASS_ACTIVE" -> "ready"
    [] OTHER -> status

\* usbHostUserProcess: what an event makes of the status
AfterUserProcess(event) ==
  CASE event = "CONNECTION" -> "connected"
    [] event = "CLASS_ACTIVE" -> "ready"
    [] event \in {"DISCONNECTION", "UNRECOVERED_ERROR"} -> "disconnected"
    [] OTHER -> status

-----------------------------------------------------------------------------
\* The port.  The interrupt comes with the event, once the library has been
\* initialised; its handler only sets flags.

Plug ==
  /\ drive = NoDrive
  /\ drive' \in Drives
  /\ port' = IF proc = "init" THEN port
             ELSE [port EXCEPT !.connected = TRUE, !.disconnected = FALSE]
  /\ UNCHANGED <<flawed, libVars, proc, lock>>

Unplug ==
  /\ drive # NoDrive
  /\ drive' = NoDrive
  /\ flawed' = FALSE
  /\ port' = IF proc = "init" THEN port
             ELSE [connected |-> FALSE, disconnected |-> TRUE, enabled |-> FALSE]
  /\ UNCHANGED <<libVars, proc, lock>>

\* The reset of the port is over.
PortEnabled ==
  /\ gState = "WAIT_FOR_ATTACHMENT" /\ drive # NoDrive /\ ~port.enabled
  /\ port' = [port EXCEPT !.enabled = TRUE]
  /\ UNCHANGED <<drive, flawed, libVars, proc, lock>>

\* The hardware disables the port under a drive that stays where it is.
PortDisabled ==
  /\ drive # NoDrive /\ port.enabled
  /\ port' = [port EXCEPT !.enabled = FALSE, !.disconnected = TRUE]
  /\ UNCHANGED <<drive, flawed, libVars, proc, lock>>

-----------------------------------------------------------------------------
\* The task

\* MX_USB_HOST_Init: the port is powered, a drive that is there is detected.
ProcessInit ==
  /\ proc = "init"
  /\ proc' = "top"
  /\ port' = [port EXCEPT !.connected = (drive # NoDrive)]
  /\ UNCHANGED <<drive, flawed, libVars, lock>>

\* A wrong loop: the tick goes ahead when the lock was not to be had.
ProcessLockAnyway ==
  /\ proc = "top"
  /\ proc' = "process" /\ lock' = "process"
  /\ UNCHANGED <<drive, flawed, port, libVars>>

\* The head of the loop.  A lock that cannot be had in time skips the tick and
\* comes back here.
ProcessLock ==
  /\ proc = "top" /\ lock = "free"
  /\ proc' = "process" /\ lock' = "process"
  /\ UNCHANGED <<drive, flawed, port, libVars>>

ProcessStops ==
  /\ proc = "top"
  /\ proc' = "stopped"
  /\ UNCHANGED <<drive, flawed, port, libVars, lock>>

\* Every tick ends with usbHostUnlock.
Ticking == proc = "process" /\ proc' = "top" /\ lock' = "free"

\* DeInitStateMachine
Restart == gState' = "IDLE" /\ enum' = 1 /\ tries' = [reset |-> 0, enum |-> 0]

\* USBH_MSC_InterfaceDeInit, for a class that is there
DeInitClass == class' = FALSE /\ handle' = IF class THEN NoHandle ELSE handle

\* A wrong teardown: nobody is told.
TickDisconnectedQuiet ==
  /\ Ticking /\ port.disconnected
  /\ port' = [port EXCEPT !.disconnected = FALSE]
  /\ Restart
  /\ DeInitClass
  /\ UNCHANGED <<drive, flawed, status>>

\* HOST_DEV_DISCONNECTED, whatever the state was
TickDisconnected ==
  /\ Ticking /\ port.disconnected
  /\ port' = [port EXCEPT !.disconnected = FALSE]
  /\ Restart
  /\ DeInitClass
  /\ status' = AfterUserProcess("DISCONNECTION")
  /\ UNCHANGED <<drive, flawed>>

TickIn(s) == Ticking /\ ~port.disconnected /\ gState = s

\* HOST_IDLE, and a state that waits for nothing but a disconnect
TickIdle ==
  /\ \/ TickIn("IDLE") /\ gState' = IF port.connected THEN "WAIT_FOR_ATTACHMENT" ELSE gState
     \/ TickIn("ABORT") /\ UNCHANGED gState
  /\ UNCHANGED <<drive, flawed, port, enum, tries, class, handle, status>>

\* A wrong count: one reset of the port too many.
TickWaitOneMore ==
  /\ TickIn("WAIT_FOR_ATTACHMENT")
  /\ IF port.enabled
     THEN gState' = "ATTACHED" /\ tries' = [tries EXCEPT !.reset = 0] /\ UNCHANGED flawed
     ELSE /\ tries' = [tries EXCEPT !.reset = @ + 1]
          /\ gState' = IF tries.reset > Retries THEN "ABORT" ELSE "IDLE"
          /\ flawed' = (flawed \/ gState' = "ABORT")
  /\ UNCHANGED <<drive, port, enum, class, handle, status>>

\* HOST_DEV_WAIT_FOR_ATTACHMENT: the port was enabled, or a second has gone by.
TickWait ==
  /\ TickIn("WAIT_FOR_ATTACHMENT")
  /\ IF port.enabled
     THEN gState' = "ATTACHED" /\ tries' = [tries EXCEPT !.reset = 0] /\ UNCHANGED flawed
     ELSE /\ tries' = [tries EXCEPT !.reset = @ + 1]
          /\ gState' = IF tries.reset + 1 > Retries THEN "ABORT" ELSE "IDLE"
          /\ flawed' = (flawed \/ gState' = "ABORT")
  /\ UNCHANGED <<drive, port, enum, class, handle, status>>

TickAttached ==
  /\ TickIn("ATTACHED")
  /\ status' = AfterUserProcess("CONNECTION")
  /\ gState' = "ENUMERATION"
  /\ UNCHANGED <<drive, flawed, port, enum, tries, class, handle>>

\* CTRL_ERROR in USBH_HandleControl, the retries used up: the user callback,
\* and back to the beginning with the class as it is.
ControlFails ==
  /\ status' = AfterUserProcess("UNRECOVERED_ERROR")
  /\ gState' = "IDLE"
  /\ flawed' = TRUE
  /\ UNCHANGED <<drive, port, enum, tries, class, handle>>

\* A command is answered while the drive is there; until then it is busy.
Reachable == drive # NoDrive /\ port.enabled

\* USBH_HandleEnum: one request is answered.
EnumAnswered ==
  /\ IF enum < Len(EnumStates)
     THEN enum' = enum + 1 /\ UNCHANGED gState
     ELSE gState' \in {"SET_CONFIGURATION", "INPUT"} /\ UNCHANGED enum
  /\ UNCHANGED <<drive, flawed, port, tries, class, handle, status>>

\* One request is refused (USBH_NOT_SUPPORTED).  A string may be missing.
EnumRefused ==
  /\ EnumStates[enum] # "STRINGS"
  /\ flawed' = TRUE
  /\ IF EnumStates[enum] = "SET_ADDR"
     THEN gState' = "ABORT" /\ enum' = 1 /\ UNCHANGED tries
     ELSE /\ tries' = [tries EXCEPT !.enum = @ + 1]
          /\ IF tries.enum + 1 > Retries
             THEN gState' = "ABORT" /\ UNCHANGED enum
             ELSE gState' = "IDLE" /\ enum' = 1
  /\ UNCHANGED <<drive, port, class, handle, status>>

TickEnumeration ==
  /\ TickIn("ENUMERATION")
  /\ \/ Reachable /\ (EnumAnswered \/ EnumRefused)
     \/ ControlFails

\* HOST_INPUT, HOST_SET_CONFIGURATION and HOST_SET_WAKEUP_FEATURE
TickConfigure ==
  /\ \/ TickIn("INPUT") /\ gState' = "SET_CONFIGURATION"
     \/ TickIn("SET_CONFIGURATION") /\ Reachable /\ gState' = "SET_WAKEUP_FEATURE"
     \/ TickIn("SET_WAKEUP_FEATURE") /\ Reachable /\ gState' = "CHECK_CLASS"
  /\ UNCHANGED <<drive, flawed, port, enum, tries, class, handle, status>>

TickConfigureFails ==
  /\ TickIn("SET_CONFIGURATION") \/ TickIn("SET_WAKEUP_FEATURE")
  /\ ControlFails

\* HOST_CHECK_CLASS: the class is there, and has memory; its endpoints may not do.
TickCheckClass ==
  /\ TickIn("CHECK_CLASS")
  /\ class' = TRUE /\ handle' = FreshHandle
  /\ \/ gState' = "CLASS_REQUEST" /\ UNCHANGED flawed
     \/ gState' = "ABORT" /\ flawed' = TRUE
  /\ UNCHANGED <<drive, port, enum, tries, status>>

\* HOST_CLASS_REQUEST: the number of units; a device that has no answer has one.
TickClassRequest ==
  /\ TickIn("CLASS_REQUEST")
  /\ \/ Reachable /\ gState' = "CLASS" /\ UNCHANGED <<flawed, status>>
     \/ /\ gState' = "ABORT" /\ flawed' = TRUE
        /\ status' = AfterUserProcess("UNRECOVERED_ERROR")
  /\ UNCHANGED <<drive, port, enum, tries, class, handle>>

-----------------------------------------------------------------------------
\* HOST_CLASS: USBH_MSC_Process.  The ticks that only count units are left out:
\* there is one, and when it is done the user is next.

TickClass == TickIn("CLASS") /\ UNCHANGED <<drive, port, gState, enum, tries, class>>
UnitIs(s) == handle.state = "INIT" /\ handle.unit = s

\* In MSC_INIT every tick first takes the unit for not ready.
UnitBecomes(s) ==
  handle' = [handle EXCEPT !.unit = s, !.error = "NOT_READY"] /\ UNCHANGED <<flawed, status>>

UnitGivenUp(s, error) ==
  /\ handle' = [handle EXCEPT !.unit = s, !.error = error, !.state = "USER_NOTIFY"]
  /\ flawed' = TRUE /\ UNCHANGED status

TickUnit ==
  /\ TickClass
  /\ \/ UnitIs("INIT") /\ UnitBecomes("READ_INQUIRY")
     \/ Reachable /\ UnitIs("READ_INQUIRY") /\ UnitBecomes("TEST_UNIT_READY")
     \/ Reachable /\ UnitIs("TEST_UNIT_READY") /\ UnitBecomes("READ_CAPACITY10")
     \/ /\ Reachable /\ UnitIs("READ_CAPACITY10")
        /\ handle' = [handle EXCEPT !.unit = "IDLE", !.error = "OK",
                                    !.capacity = drive, !.state = "USER_NOTIFY"]
        /\ UNCHANGED <<flawed, status>>

TickUnitRefuses ==
  /\ TickClass /\ Reachable
  /\ handle.state = "INIT" /\ handle.unit \in {"READ_INQUIRY", "TEST_UNIT_READY", "READ_CAPACITY10"}
  /\ UnitBecomes("REQUEST_SENSE")

\* The sense: try again while the window is open, or take the unit as it is,
\* or (the command failed, or there is no medium) give it up.
TickUnitSense ==
  /\ TickClass /\ Reachable /\ UnitIs("REQUEST_SENSE")
  /\ \/ /\ handle.rounds < Retries
        /\ handle' = [handle EXCEPT !.unit = "TEST_UNIT_READY", !.error = "NOT_READY",
                                    !.sense = "not ready", !.rounds = @ + 1]
        /\ UNCHANGED <<flawed, status>>
     \/ \E sense \in Senses \ {"none"} :
          /\ handle' = [handle EXCEPT !.unit = "IDLE", !.error = "NOT_READY",
                                      !.sense = sense, !.state = "USER_NOTIFY"]
          /\ flawed' = TRUE /\ UNCHANGED status
     \/ UnitGivenUp("UNRECOVERED_ERROR", "ERROR")

\* A stalled endpoint is cleared over the control pipe, which may fail.
TickUnitStalls ==
  /\ TickIn("CLASS") /\ handle.state = "INIT" /\ handle.unit # "INIT"
  /\ ControlFails

TickNotify ==
  /\ TickClass /\ handle.state = "USER_NOTIFY"
  /\ handle' = [handle EXCEPT !.state = "IDLE"]
  /\ status' = AfterUserProcess(IF handle.error = "OK" THEN "CLASS_ACTIVE" ELSE "UNRECOVERED_ERROR")
  /\ UNCHANGED flawed

\* Nothing to do, or a command that is still busy.
TickBusy ==
  /\ \/ /\ ~Reachable
        /\ \E s \in {"ENUMERATION", "SET_CONFIGURATION", "SET_WAKEUP_FEATURE", "CLASS_REQUEST"} :
             TickIn(s)
     \/ TickIn("CLASS") /\ handle.state = "INIT" /\ handle.unit # "INIT" /\ ~Reachable
     \/ TickIn("CLASS") /\ handle.state = "IDLE"
  /\ UNCHANGED <<drive, flawed, port, libVars>>

Tick ==
  \/ TickDisconnected \/ TickIdle \/ TickWait \/ TickAttached \/ TickEnumeration
  \/ TickConfigure \/ TickConfigureFails \/ TickCheckClass \/ TickClassRequest
  \/ TickUnit \/ TickUnitRefuses \/ TickUnitSense \/ TickUnitStalls \/ TickNotify
  \/ TickBusy

=============================================================================
