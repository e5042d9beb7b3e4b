# STM32F407 multi-RTOS firmware: formal models

The repository is one application (blinky, USB mass-storage host, a storage
showcase built on promises and futures, task tracing, an independent watchdog and
a crash dump) over an OS abstraction layer with four implementations: POSIX
(host), FreeRTOS, ThreadX and Zephyr. This directory holds TLA+ models of its own
logic, the TLC runs that check them on small instances and the TLAPS proofs of
what holds on every instance.

Run a check with `tlc -config StorageRaces.cfg MCStorageDemo.tla`, a proof with
`tlapm StorageDemo_proofs.tla` (or any other of the eight `*_proofs` modules; this
one takes about eight minutes, none of the others more than three). `PROJECT.json`
maps every definition to the lines it models and lists runs, hazards, findings and
theorems.

## 1. The system

### Components, their state and their operations

| Component (source) | State | Operations |
|---|---|---|
| Storage demo (`app/src/storage/storage_demo.c`) | request queue (depth 8), promise pool (12 slots), configuration records | `storageDemoRegister` wires queue, pool and five tasks |
| Servicer T_S (`storage_service.c`) | `volumeReady`, `mounted`, `fileOpen`, the request in hand; the atomic `s_volumeReady` | loop: receive with a poll window, mount (format a blank drive) and open lazily, check that the requester still waits, read/write/status, resolve the promise; teardown on stop |
| Requesters (`client_tasks.c`) | local futures and promises of the running scenario, `s_scenarioFailureCount` | `waitForMedia`, four scenarios made of create, send, wait, 0 ms poll, drain; abandon on a failed send |
| Promise pool (libcfuture, a submodule without source here) | per slot: state word, generation, reference count, payload | create, is_active, set_value, drop, wait_for, abandon |
| Task trace (`diagnostics/app_task_trace.c`) | table of 10 records and a count, no lock | register, loop start/end, checkpoint, copy a record, request stop, should stop, mark stopped |
| Watchdog task (`diagnostics/crash_dump.c`) | round counter; the IWDG's own counter | scan the trace, kick only when every task checked in within 25 s |
| Crash dump (`diagnostics/crash_dump.c`) | captured registers | fault capture, UART report, halt |
| Thread registry and boot (`core/app_threads.c`, `core/app.c`) | table of task configurations | add, start all: create each task, then register it with the trace |
| USB host bridge (`usb/usb_host.c`, `usbh_msc_disk.c`, `usbh_conf.c`) | `s_mscStatus`, lock, host state machine (vendored), cached capacity | process task under a lock, user callback on connect/disconnect, disk status/read/write |
| FatFS glue (`storage/fatfs_diskio.c`, `fatfs_time.c`) | the bound `PalStorage` | translation of status codes |
| cfuture self-test (`diagnostics/cfuture_selftest.c`) | pool, producer queue, one static ISR context | controls, timeout accuracy, delivery from task and interrupt, stale handle, cancel and leaks |
| OSAL (`targets/*/osal`) | queues, mutexes, tasks, event objects | POSIX: mutex and condition variables; FreeRTOS: native queues, 16 static event groups; ThreadX: two index queues over one buffer, 32 event bits; Zephyr: one kernel call each |
| Logger, PAL, tools | none that a property relates | output, LED, RTC, disk image |

### How they interact

The tasks share three things: the **queue** (a `StorageRequest` is copied, promise
handle included), the **pool** (both sides of a slot change its state without
talking to each other) and the **trace** (read by the watchdog while others write
it). T_S publishes one atomic flag, `s_volumeReady`, which requesters poll. Below
T_S, FatFS calls the disk glue, which calls the USB bridge, which takes the USB
lock the process task holds while it drives the vendored state machine.

### What is hard in it

* **Concurrency.** A wait that ends at the moment T_S resolves; a slot timed out,
  freed and claimed again while its first promise is still queued (ABA); the
  trace written and read without a lock; the USB unit torn down between the test
  of its status and its use.
* **Failure.** A failed send after a successful create; a write that reached the
  media before `f_sync` failed; media pulled at any point, remount with the next
  request; a remount that gets through `f_mount` and not through `f_open`.
* **Ordering and timing.** Cancellation before or after T_S commits; scenarios
  that rely on "T_S is still occupied"; 25 s health limit between the longest
  legal silence and the hardware's 32.7 s; a millisecond clock that wraps.
* **Irreversible steps.** `mountVolume` formats what looks like a blank drive, and
  what it looks like is what the USB library says of the boot sector.
* **Bounds.** Queue and pool sized for the overlap of four scenarios; 16 event
  groups; 32 event bits never returned; 10 trace records, all used.

### What makes each component correct

* Pool and its users: every handle current and exclusive, no slot lost, exactly
  one winner of the answer-or-timeout race, every slot recycled.
* Storage as a whole: a call given up before T_S committed to it has no effect,
  a committed one at most one; the answer goes to the caller of that request;
  "ok" means done.
* T_S: the block file is touched only when open; a format destroys nothing that was
  written; the volume recovers after a replug; a stop releases what is held.
* Requesters: no spurious FAIL on a healthy board; a stop is obeyed.
* Trace: one record per task, a stop is not lost. Watchdog: no alarm without a
  silent task, a silent task always leads to the reset, the reset never comes
  without one.
* USB bridge: no transfer on a torn-down unit; status eventually agrees with the
  drive. Mutex: priorities are lent and taken back. OSAL: the queue contract (bounded FIFO, nothing lost or duplicated, a
  timed-out call changes nothing); events: no object given out twice.

## 2. Modules

| Module | What it is |
|---|---|
| `PromisePool` | the pool, external, modelled from its callers |
| `StorageShared` | queue, ready flag, stop requests |
| `StorageService` | T_S |
| `ClientTasks` | what one instruction of a requester does, for any script |
| `ClientScenarios` | the four scenarios of `client_tasks.c` as scripts |
| `StorageDemo` | the composition, its properties, and the refinement mapping |
| `BlockStore` | the abstract specification |
| `TaskTrace` | the table of trace records, from boot on |
| `Watchdog` | the watchdog task, the tasks it watches, the clock and the IWDG, on top of `TaskTrace` |
| `UsbHost` | the USB host: core and mass-storage state machines, port interrupts, the task that pumps them under the lock |
| `UsbDisk` | the disk functions that FatFS calls, against that host |
| `QueueUsers` | who uses a queue of `osal.h` |
| `BoundedQueue` | the abstract specification of such a queue |
| `PosixQueue`, `ThreadXQueue`, `FreeRtosQueue` | three implementations, each with its refinement mapping |
| `EventLists` | the kernel's lists of waiting tasks (`list.c`), used by `FreeRtosMutex` and `FreeRtosQueue` |
| `FreeRtosMutex` | the mutex of the FreeRTOS kernel with priority inheritance |
| `SelfTest` | the cfuture self-test, on `PromisePool` and the target's events |
| `MCStorageDemo`, `MCTaskTrace`, `MCWatchdog`, `MCUsb`, `MCOsal` | constants for TLC and the view of the healthy run |
| `StorageDemo_proofs`, `Watchdog_proofs`, `UsbDisk_proofs`, `PosixQueue_proofs`, `ThreadXQueue_proofs`, `FreeRtosKernel_proofs` (queue and mutex), `SelfTest_proofs` | the theorems |
| `EventLists_proofs` | what an insertion, a removal and a wake-up do to a list of any length |

### The storage demo, state by state

`st`, `gen`, `held`, `ans` are a slot's state word, generation, the sides that
still hold a handle, and its payload with status. `queue` is `s_storageQueue`,
`published` is `s_volumeReady`, `stopRequested` the `stopRequested` fields of the
trace. `at` is the program point of T_S, `request`, `volumeReady`, `mounted`,
`fileOpen` its locals, `outcome` the `errorCode`/`result` it is about to give.
`mediaUp` is the world: a FatFS call succeeds exactly when it is TRUE at that
moment (and there is room). `formatted` says that there is a file system on the
drive, which may come blank; `disk` is the block file, a value per block. It is the
same drive that is pulled and put back. `pc`, `fut`, `good` are a
requester's program point, its local futures and whether this iteration has logged
FAIL.

One action is one stretch of code between two points at which another task can
make a difference: T_S's loop is `LoopTop`, `Receive`/`ReceiveTimesOut`,
`MountVolume`, `Format`, `Remount`, `OpenBlockFile`, `CheckActive`, `SlowDelay`, `Work`, `Sync`,
`ResolvePromise`; a requester has `WaitForMedia`, `IterationTop`, `CreatePair`,
`Send`/`SendTimesOut`, `AwaitAnswer`/`AwaitTimesOut`, `Sleep`. A wait with a
timeout is two actions, one for each outcome. The promise of a created pair that
is not sent yet is a local of the requester; it is on the slot of its future, and
the script's instruction ("the next is the send") says that it exists.

`mountVolume` is three of these because the drive can go between them: `f_mount`
answers "mounted", "no file system" or a failure; after "no file system" `f_mkfs`
leaves an empty volume, in one step, or fails; the second `f_mount` mounts it or
fails. Two constants say what else a drive may do. `VolumeFills`: a block of the file
that was never written may have no room (`NoRoomFor`); `f_lseek` then stops at the
end of the file, so that a read finds itself in the wrong place and answers
`kStorageErrorInvalidBlock` and a write fails and forces a remount. `FalseBlank`: the
drive may refuse the read of its boot sector, which the USB library reports as done
(`FailureIsReported`), so that `f_mount` sees no file system on a volume that has one.

Abstractions: block contents are the values the scenarios write; log text, the
512-byte payload and the settle and drop delays have no state; what the delays are
for is the constant `Punctual` (below). A request carries a ghost field `from`.
Scenario 4's own `distinctSlot` check is not part of its verdict in the model:
that two live futures never share a slot is `FuturesExclusive`, for every state.
File offsets and the allocation of clusters are not modelled: the block file has its
blocks or has no room for one.

`Punctual = FALSE` lets every wait end at any moment, the media wait included:
safety and liveness are checked that way. `Punctual = TRUE` is the timing the demo
is built on, each assumption at its action: the media is ready within the 10 s of
`waitForMedia`; T_S answers within the 2 s and 20 s waits; the 200 ms slow request
outlasts the 50 ms settle delay and the poll after it; a 3 s cadence outlasts what
a requester left in the queue. Only `ScenariosPass` and `SizedForOverlap` use it.

`BlockStore` knows callers, blocks and one commitment. A call is `Waiting`,
`Committed`, `Answered` or given up; `Commit` takes only a call that still waits;
`Store` gives a write its effect; `Decide` allows exactly the answers the stage of
the work allows ("invalid" also for a read of a block that was never written);
`Finish` hands the answer to the caller of that call or to nobody. The mapping: a caller is a (requester, future) pair, its call is visible
once the request is queued, T_S has committed from the positive `is_active` check
on, and a resolved slot is an answered call.

### Trace and watchdog, state by state

`table` and `count` are `s_traces` and `s_traceCount`; a record keeps the name,
the last check-in and the two stop flags (durations, cadence and checkpoint texts
are only logged). `started` counts the tasks `appThreadRegistryStartAll` has
created, `step` and `slot` are where a thread is in `findOrCreate`, `life` is what
became of a task. `findOrCreate` is four steps, because a reader can see each of
them: `NotFound`, `ClaimPlace`, `BumpCount` (the count is raised) and `FillRecord`
(the name is stored after that); a `strcmp` with the null name in between is the
state `crashed`. `Concurrent` tells the targets apart: on the host a created task
is a running pthread; on the boards nothing runs before all are registered.
`LoopTop` is `appTaskTraceLoopStart` with the `appTaskTraceShouldStop` and `break`
after it, `CheckIn` the loop end and the checkpoints, `MarkStopped` the last call
of a task, `RequestStop` that of anybody.

In `Watchdog`, `BeginRound` samples the time, `ScanRecord` copies one record and
judges it, `EndRound` kicks if nobody was too silent, checks in and sleeps. Other
tasks check in between any two of them. `sinceKick` is the IWDG's own count and
`up` ends at its period. `Hang` is a task, or every task, that never does anything
again, `hung` is a ghost, and so are `age` (the true time since a check-in) and
`reported`. The lines of every tenth round (the profile) have no effect and are
left out; with them a round is longer, which the model allows for: a round may
take a whole unit of time.

Time passes in units. The source has a 1 s interval, a 25 s health limit and an
IWDG of about 32.7 s: in the runs a unit is about eight seconds (and the interval
rounds up to one), for the theorems it may be a second. `Tick` needs `OnTime`: a
task that works has not been silent for `MaxGap` yet (the code's longest waits are
the 20 s drain of `client_tasks.c` and the 12 s lock of `usb_host.c`), the
watchdog does not oversleep and ends a round within a unit (it has the highest
priority of all tasks). A hung task is bound to nothing. `Wraps` says whether the
clock may wrap at `TimeModulus`; if not, the model stops there.

### USB host and disk, state by state

`drive` is what is in the port, `port` the three flags of `phost->device` that the
interrupts write. `gState`, `enum`, `tries`, `class` and `handle` are the
library's `gState`, `EnumState`, retry counts, `pActiveClass` and what `pData`
points to; `status` is `s_mscStatus`, `lock` the mutex of `usb_host.c`, `proc` the
task `UsbHostProcess`. One tick is one `USBH_Process` under the lock. A command
that is still busy changes nothing and is a stutter; its answer is a step, and
every drive may refuse, stall or fail anything. `flawed` is a ghost that remembers
it did. A tick reads each port flag at most once, so an interrupt inside it acts
as one before or after it. The capacity in `handle` is named by the drive it was
read from.

In `UsbDisk` the Servicer calls the functions of `fatfs_diskio.c`. Each tests the
status, then takes the lock once for each call into the library (`AtLock`), then
uses what it got; a read or a write pumps its command itself (`pump`). `TornDown`
is a call that finds the class or its data gone: it traps (`fault`), or fails
without harm.

Abstractions: the three string descriptors are one; the ticks that count LUNs and
the endpoint traffic inside a command are left out; a device has a bulk-only
interface and the allocation in `USBH_MSC_InterfaceInit` succeeds; when the
process task cannot get the lock it skips its tick. `MaxOvertake` bounds how many
ticks go by between a test and the lock that follows: both tasks have the same
high priority and the host's sleeps 10 ms after each tick.

### Queues, state by state

`BoundedQueue` has the items in the queue and each task's call. A call may give up
only for a reason: a receive on an empty queue, a send on a queue that is full or
that it has found full (`met`). A place that another call is just filling or
emptying counts as taken, because ThreadX takes a slot out of one kernel queue
before it is in the other.

* `PosixQueue` (`targets/host/osal/src/osal.c`): ring, mutex, two condition variables.
  What is done under the mutex is one step; waiting, waking and the look at the queue after a
  time-out are steps of their own. A signal wakes one waiter, any.
* `ThreadXQueue` (`targets/threadx/osal/src/osal.c`): the two kernel queues of slot
  numbers and the buffer. A send is: take a free slot, copy, pass the slot on;
  a receive the same from the other side. A kernel call is atomic.
* `FreeRtosQueue` (`queue.c` of the vendored kernel, because `osal.c` only forwards to it): a
  critical section is one step; with the scheduler suspended only interrupts run
  (`SchedulerRuns`, `HasCpu`), and those that send count in `cTxLock` what
  `prvUnlockQueue` has to make up for. The event lists are in order of priority. The
  same model covers the binary semaphores behind libcfuture's events, which interrupts
  give. No interrupt receives, so `cRxLock` is left out.

### Mutex, state by state

`holder` is `xMutexHolder`, `priority` is `uxPriority`, `takers` the list of tasks
that wait, in order of priority, `left` what remains of a time-out and `inherited`
is `xInheritanceOccurred`. `halted` is a `configASSERT` that failed: the interrupts
are off and nothing goes on. A task has one mutex at most. The part of
`xQueueSemaphoreTake` that runs with the scheduler suspended is one step: no
interrupt gives a mutex, and ticks wait until the scheduler resumes. The ready
task of the highest priority runs; a tick ends timed waits. `MutexSound` has one
conjunct for each promise: the type, mutual exclusion, no task waits behind a
holder of lower priority (`NoInversion`), priorities go back (`InheritanceEnds`),
and a free mutex has its first waiter awake (`NoneForgets`).

### Self-test, state by state

`check` and `stage` are where the waiter is in `Battery`, its fixed order of
checks, `mine` the handles it has, `inbox` is `s_queue`, `request` and `producer`
are the producer's. `port` tells apart the targets whose events are places that
come back (FreeRTOS) and those whose events are bits that are spent (ThreadX,
Zephyr), and `inUse` are those handed out. An answer may come late at any bounded
wait; `behind` is a ghost, TRUE from a delivery given up until its slot and its
request are gone. The three time-outs of `checkTimeoutAccuracy` are one. The two
delays of the producer are no state.

A verdict is also one about time: the control's 20 ms take at most 70, a time-out
comes at most 50 ms late, and a waiter has its answer 20 ms after it was resolved.
Whether the waiter keeps to that is open at each of these places (`tardy`); when it
does not, the verdict is FAIL, and the ghost `late` says so. That no delay and no wait
ends early is assumed (the guards `elapsed >= timeoutMs` and `elapsed + 1 >= delayMs`
hold with it). `stamped` is the request whose answer `s_resolvedAtMs` is the time of: a
latency taken from another answer's time is too long.
On POSIX a wait "for ever" ends after ten minutes (`osal.h:25`, a property of the
library, which is not in the repository); the model waits.

## 3. Runs

| Run | Instance | Shows |
|---|---|---|
| `races` | scenarios 1 and 3, 2 slots, 1 queue place, generations mod 2, a drive that is blank or not, full or not, and comes and goes, no timing, T_S may be stopped | `TypeOK`, `PromisesExclusive`, `FuturesExclusive`, `NoSlotLost`, `ServicerReady`, `FormatErasesNothing`, `ImplementsBlockStore` |
| `healthy` | all four scenarios, depth 8, 12 slots, media stays, `Punctual` | `ScenariosPass`, `SizedForOverlap` |
| `liveness` | scenario 4 with fair tasks, 2 slots, generations mod 2, a requester that may be stopped | `SlotsRecycle`, `StopsAreObeyed`, `MediaRecovers` |
| `flags` | scenario 1, media fails | a finding: `FlagsOnlyRise` is violated |
| `erase` | scenario 1, a drive that may refuse the read of its boot sector | a finding: `FormatErasesNothing` is violated |
| `watchdog` | two tasks and the watchdog from boot, 12 time units, interval 1, gap 2, limit 3, IWDG 4, one hang (of a task or of all) | `WatchdogTypeOK`, `OneRecordPerTask`, `NoFalseAlarm`, `NoResetWithoutDiagnosis`, `LockupReachesReset` |
| `clockwrap` | one task and the watchdog, the clock wraps | a finding: `LockupReachesReset` is violated |
| `hostrace` | two tasks that run as soon as they are created | a finding: `OneRecordPerTask` is violated |
| `usb` | two drives of one sector each, one of them with an odd sector size, one sector too many to ask for, 1 retry, one tick of overtaking | `DiskTypeOK`, `ReadyMeansClass`, `TransferKeepsHandle`, `TransfersFit`, `OkWasAnswered`, `UnplugNoticed`, `ReplugRecovers` |
| `usbtorn` | the same | a finding: `ClassOutlivesCallers` is violated |
| `usberror` | the same | a finding: `FailureIsReported` is violated |
| `osal` | two senders, a receiver and an interrupt on queues of two; three tasks of priorities 1 to 3 and a mutex; the self-test with 2 slots, 2 requests and 2 events to spare | `PosixImplements`, `TxImplements`, `FrImplements`, `NoWakeUpLost`, `SlotsConserved`, `PostsNeverFail`, `NoneForgotten`, `MutexSound`, `FailuresAreLate`, `EventsReturn`, `TestStops`, `BatteryRecovers` and the type invariants |

Why these bounds are enough for the interesting cases: in `races` a writer with a
reader after it meets a writer that always gives up. Three requests may be wanted at
once, so two slots run out; one queue place makes sends fail; and a slot freed by a timeout
is claimed again while other promises are queued, with T_S stopped at any moment and
requests left in the queue. In `liveness` one requester holds two futures at once and
gives one up to claim its slot again. A generation modulus of 2 makes handles wrap.
Which scenarios run together matters to no invariant of `races`: section 5 proves them
for all.
`healthy` uses the sizes of `storage_demo.c`; its view drops slot numbers and
generations, which no action there distinguishes beyond equality, and the blocks
no script reads. The check that `gen` agrees is made in the other runs. In
`watchdog` the numbers keep the order of the real ones (interval below gap, gap
below limit, limit below IWDG), the clock leaves room for a hang after several
healthy rounds and the whole way to the reset, and `MaxHangs` = 1 is no loss
because one hang may take every task at once.

In `usb` the second drive is what makes an exchange during a call visible, the odd
one what a missing check of the block size would let through; one retry is enough
to exhaust the counters and to go on to the abort. One tick of overtaking is
enough for every finding; `TransfersFit` and `OkWasAnswered` hold *because* it is
small: to handle a disconnect, attach, enumerate and read the capacity takes the
host 17 ticks (section 5 proves both for every smaller number; with 17 TLC finds
`TransfersFit` violated). `osal` puts five systems side by
side, because each is small; they share no variable and a behaviour is one of the
five. Two senders wait on a queue of two, so that a place is taken by one while
the other is woken; one of the two makes only timed calls, which loses no
interleaving of two sends that the first sender's three kinds of wait do not have.
Deadlock is not checked in `osal`: both tasks of the self-test may have been
stopped, and a failed assertion ends the mutex.
Three tasks are the least at which a task that gives up leaves another
one waiting behind the same holder.

Fairness of the storage demo (`FairSpec`): weak fairness of T_S and of each
requester. Every port runs T_S at high and the requesters at normal priority, T_S
blocks when idle, all waits have timeouts, so a task that can go on is not kept
from it for ever. Media events and stop requests are not fair. Nothing is assumed
of T_S after it is stopped: `SlotsRecycle` is about a running T_S (a stopped one
leaves its queue as it is and the slots in it taken).

Fairness of `UsbDisk`: weak for the end of a command (10 s in the library at
most), for the Servicer's calls, for a port that comes out of reset and for the
tick of a process task that has the lock; strong for the process task's taking of
the lock (`HostLocks`), because the Servicer may take it again and again and the
mutex of every port goes to the task that waits for it. Nobody has to call, to
plug or to stop anything. Fairness of `MCOsal`: the two self-test tasks, whose
bounded waits end. The queues and the mutex are checked for safety only.

## 4. Findings

`flags`: the comment at the declaration of `mounted` and `fileOpen`
(`storage_service.c:250-254`) says they "only ever go false->true, so teardown
below always knows exactly what to release". `fileOpen = volumeReady` after each
attempt to open the file (lines 282 and 314) makes `fileOpen` fall when a remount
passes `f_mount` and fails in `f_open`; teardown then skips `f_close`.

`erase`: the comment on `mountVolume` (`storage_service.c:44-47`) says that a blank
disk "mounts as FR_NO_FILESYSTEM", and "Any other f_mount failure (media not ready,
I/O error) is left alone". But a READ(10) that the drive refuses is reported as done
(`usberror` below), so `f_mount` looks for a boot signature in a buffer nobody filled
and answers `FR_NO_FILESYSTEM`; `f_mkfs` then erases what was written before. It takes
a remount after a lost drive, and one refused read. On a drive whose refusals are
reported no format destroys anything (`FormatNeverErases`).

`clockwrap`: the watchdog takes `now - lastCheckInTimeMs` for 0 when `now` is the
smaller (`crash_dump.c:602`). Meant for a check-in after the sample, it also
covers every check-in from before the wrap of the millisecond clock (49.7 days): a
task that hangs shortly before the wrap looks alive until the clock reaches its
last check-in again, and the IWDG is refreshed all that time. The comment at
`crash_dump.c:559-566` says "a genuine lockup still reaches the hardware reset".
By the same line a round that sampled its time before the wrap and copies a record
after it reports a healthy task; no run states that.

`hostrace`: `app_threads.c:28-34` creates a task and then registers it. On the
host the new thread may search the table between `s_traceCount++` and the store of
the name (`app_task_trace.c:43-45`) and hand `strcmp` a null pointer; both threads
may also create the record. `app_task_trace.h:34-38` calls the missing lock "safe
and self-correcting". On the boards this cannot happen: `RecordsAreUnique`.

`usbtorn`: every function of `usbh_msc_disk.c` tests `usbHostGetMscStatus()`
before it takes the lock and not again after it. A tick in between handles a
disconnect, frees `pData` and clears `pActiveClass`; `USBH_MSC_GetLUNInfo` and the
others dereference both. `usb_host.h:18-21` calls the status "the gate for safe to
touch USBH_MSC_*", and `usb_host.h:45-51` says what the lock is for. A transfer
that has begun is protected, for any drives and retries
(`TransferKeepsHandleAlways`).

`usberror`: `USBH_MSC_Read` and `USBH_MSC_Write` return `USBH_OK` whatever ended
their loop, so a command that the drive failed is reported as done;
`usbh_msc_disk.c:16-21` has a translation for it that is only reached after a
time-out.

Seen while modelling, and no run of their own:

* A write for which the volume has no room is answered `kStorageErrorIoFailure`, which
  forces a remount with the next request although the drive is there.
* A drive that is pulled and put back between two ticks of the host is never seen to
  go, because `USBH_LL_Connect` clears `is_disconnected` (`usbh_core.c:1202`): the port
  stays disabled and the status ready, against `storage_service.c:304-305` ("also means
  the demo recovers from an unplug/replug"). `ReplugRecovers` names the state,
  `Stranded`: it is the only one in which a drive does not become usable.
* `configASSERT(xInheritanceOccurred == pdFALSE)` in `xQueueSemaphoreTake`
  (`queue.c:1509`) rests on the comment above it, that "an adjusted timeout cannot become
  0, as if it were 0 the function would have exited". With three tasks it can: one lends
  its priority, times out, finds the mutex free at its last look and goes round with no
  time left; a task of higher priority takes it first. With this `FreeRTOSConfig.h` the
  board then stands still, and so does the model (`halted`; TLC finds it within seconds
  when asked for `~halted`). In this application the two users of the only contended
  mutex have the same priority, which excludes it.
* A waiter of the self-test that waits for ever (`checkDelivery`'s second mode) is not reached by a stop
  request once the producer has stopped: `Hung` in `TestStops`.
* `usb_host.c:65-70` says that `s_mscStatus` is written only from the process task's
  thread. A control transfer that fails while T_S pumps a command writes it from T_S's
  (`TransferStalls`), under the lock.
* The kernel's `xQueueGenericSend` reports a time-out without a last look at the
  queue (its receive does look), so a send may fail while a place is free. `osal.h:96-98`
  says "queue stayed full"; that is why `BoundedQueue` has `met`.

## 5. Proofs

`StorageDemo_proofs` proves, for every set of clients, every script that satisfies
`ScriptAssumption`, any pool, queue depth, generation modulus and set of stoppable
tasks:

* `TypeCorrect`, `PromisesStayExclusive`, `FuturesStayExclusive`, `NoSlotIsLost`,
  `ServicerIsReady`, and `FormatNeverErases` (of a drive without `FalseBlank`).

They follow from one inductive invariant, `IInv`. None of its parts is inductive
alone: that `ResolvePromise` leaves no stale promise behind needs that a side
counted as held has exactly one handle; that `Abandon` may free both sides needs
that an unsent pair has its promise nowhere else, which needs
`FuturesFollowScript` (a requester holds exactly the futures its instruction says)
and the discipline of scripts; that a freed slot can be claimed needs
`StateFollowsHolders` (free means held by nobody: a property of the library's model, needed here and
claimed for nothing else). The proof has one lemma per
kind of step: a step that leaves pool, queue, request and futures alone; claim,
send, receive, abandon, take the answer, give up, resolve.

`FormatNeverErases` has an invariant of its own, `VolumeSound`: what is mounted, or
about to be mounted again, has a file system; a drive without one has no block that was
written; and T_S is about to format only such a drive.

`Watchdog_proofs` proves, for every registry that fits the table and all periods
that satisfy `WatchdogAssumption` (gap at most the limit, interval and a round
shorter than the IWDG's period), on a board (`OnBoard`: tasks start after boot)
whose clock does not wrap (so also for the source's own numbers, 1, 20, 25 and 32
seconds): `WatchdogTypes`, `RecordsAreUnique`, `AlarmsAreTrue`,
`ResetsAreDiagnosed`, `LockupsReset`. The argument, again one invariant `IInv`:

* `BootShape`: place *i* of the table belongs to task *i* of the registry, and is
  complete or still nameless. So a search finds one record and never a null name.
* `AgesAgree`: a record's check-in plus the true age of its task is the present
  time. The ages are what the watchdog tries to compute.
* `RoundKnows`: the sample of a round is at most a unit old and the watchdog's own
  check-in is no older (`SampleYoung`), hence a copied record that looks too old
  is one of a task that has broken its bound (`SilentIsHung`); as long as nobody
  was reported every round kicks, so the IWDG cannot run out (`QuietMeansKicked`);
  a round that kicks has seen every record young enough (`HealthySoFar`), so a
  hung task is at most `HealthTimeout + 1 + sinceKick` silent (`AgesFollowKick`),
  and `sinceKick` ends at the IWDG's period.

`UsbDisk_proofs` proves, for any drives, sectors, number of retries and
`MaxOvertake`: `TypeCorrect`, `ReadyMeansClassAlways`,
`TransferKeepsHandleAlways`. Its invariant is the type, what the host's states say
of class and data (`HostInv`: the class is set up from the class check on and
taken down before the host is idle again, so "ready", which only the user callback
after the capacity was read can set, implies both), and what a caller says of the
lock (`CallerInv`: who pumps holds the lock, hence no tick, and who waits does
not). `TransferKeepsHandle` is not inductive without the lock; with it only the
pump's own steps and the interrupts remain, and an interrupt changes port flags
alone.

It also proves `TransfersAlwaysFit` and `OkIsAlwaysAnswered`, for any drives with
`MaxOvertake` < 17. A caller queries the capacity before it waits for the lock, and
by the time it has the lock the unit may be another drive's. `FitInv` counts the way
there: `TicksAway` is how far the host has come from the disconnect to a unit that
takes commands (twelve legs, and five more ticks for the requests of an
enumeration), and a caller that goes for the lock either still has the unit's
capacity or the host has used no more ticks than went by since (`NotReplaced`). The
hypothesis is the code's timing: both tasks have the same priority and the USB task
sleeps 10 ms after each tick (`usb_host.c:123`), so 17 ticks would keep the caller
off the CPU for 160 ms between two statements while an equal task sleeps.

### The storage demo implements `BlockStore`

`DemoImplementsBlockStore`, for the same constants, of a drive without `FalseBlank`
(whose format is a step `BlockStore` does not have). A step of the demo is mapped to
the step of `BlockStore` it stands for, or to a stutter: a send to `Invoke`, the
positive `is_active` check to `Commit`, the stages of the work to `Store` and
`Decide`, the resolution to `Finish` (or to `Refuse`, of a request that was never
taken up), a time-out to `GiveUp`, a read result to `Collect`. Beside `IInv` it needs
`VolumeSound`, so that a format is a stutter, and `VerdictInv`: a verdict
"cancelled" in T_S's hands belongs to a slot that is no longer pending (so the
caller has given up and nobody can receive it), and "notReady" carries no data.
`PromisesExclusive` is what makes a finished call the call of exactly one caller.

### The demo's sizes and its four scenarios

Two theorems of `StorageDemo_proofs` are about the demo as it is written: its
scripts, and the timing `Punctual` stands for.

`DemoIsSizedForOverlap` has the hypothesis `AsInTheDemo`: any of the demo's four
requesters with their scripts, `Punctual`, and a T_S that nobody stops (of a stopped
one the timing would not be true); any blocks, pool and queue size, stop requests to
the requesters and media events. `SizeInv` says that a request nobody waits for any
more (`Late`) belongs to a client that has just timed out or abandoned it, one at
most per client (`LateInv`), and that a future is on a request of its own client
(`OwnInv`). So the scenarios hold at most 1, 2, 1 and 3 slots, late ones included,
which is `SizedForOverlap`; each place in the queue has a slot of its own, so the
same seven bound the queue.

`ScenariosAlwaysPass` has the hypothesis `HealthyBoard`: beside `AsInTheDemo` the
demo's blocks and answers, a drive that stays in, has room and is not taken for a blank
one (it may be one), more than seven slots and more than seven places in the
queue. The constants of the run `healthy` satisfy it. `PassInv` adds what a scenario relies on:

- `SizesFollow` (from `DemoIsSizedForOverlap`): there is a slot for each create and
  a place for each send, so neither ever fails.
- `MediaInv`: once published, the drive is there; who is past `waitForMedia` has
  seen it published, or is being stopped; no answer is an I/O error.
- `HurryInv`: in a settle window the slow request is the first of its client that
  T_S has not finished, and nothing the client waits for is answered. This is what
  makes the 0 ms poll time out, which is the verdict of scenarios 2 and 4.
- `FutureInv`: a live future's request is for what the script has asked for last,
  and the answer in its slot is the answer to that.
- `WorkInv`, `WroteInv`: T_S spoils no block that a scenario reads back, and after
  a scenario's write its block has what it wrote, until the read.

Both are by cases over the instructions of the scripts, not over the clients:
what the scripts must satisfy for each instruction is stated once
(`ScriptsAreLateDisciplined` and the like) and computed from their tables.

### The self-test

`SelfTest_proofs` proves, for any pool of at least two slots, any set of events and
queue depth, on targets with places or bits: `SelfTestInvariant`,
`SelfTestTypeCorrect`, `SelfTestFailsOnlyLate`, `SelfTestReturnsEvents`. `TestInv`
has a part for the waiter's handles (`MineSound`: each stage has just the handles
the code has there, current and held on the sides it still owes), one for what is
in flight (`InboxApart`, `RequestsHeld`: a request holds a promise of its own, and,
except in a delivery's wait, one that nobody waits for), one for the slots
(`SlotsOwned`, `FreeSound`), one for the time of an answer (`StampSound`: the request a
delivery waits for is the last in the queue, so once it is answered `s_resolvedAtMs` is
the time of that answer) and `OnTime`: with nothing behind, a FAIL is one of time, and
nothing is in flight outside a wait, so every slot is the waiter's or free. That is why the leak
check, which claims slots until none is left, must count all of them. The stale
handle of `checkStaleHandle` points to a slot that stays free or is the second
handle's, with another generation. The assumption that a pool has two slots
(`kSelfTestPoolCapacity`, `cfuture_selftest.c:12`) is needed: with one slot, the
stale check would have no slot for its second future.

### The queues

Each of the three implements `BoundedQueue`, for any senders, receivers, items,
patience and capacity: `PosixImplementsQueue`, `TxImplementsQueue`,
`FreeRtosImplementsQueue` (there also for any interrupts and priorities).

`PosixQueue_proofs`: `PosixTypeCorrect`, `PosixLosesNoWakeUp`. The invariant adds to
these what the ring holds (`RingSound`: the tail is head plus count, what lies
between them are items) and what a call carries (`CallsKept`). A wake-up is not
lost because each send and each receive that leaves a waiter behind moves another
waiter, and because a task that gives up after a signal it did not see has looked
at the queue and found nothing.

`ThreadXQueue_proofs`: `PostsNeverFailAlways`, `SlotsConservedAlways`,
`TxTypeCorrect`. The invariant says that each slot is in exactly one place
(`SlotInv`): neither queue has it twice, both never have it together, a call between
its two steps holds it alone, and no slot is nowhere. A kernel queue without a
certain slot has room for it (`SlotOutside`, the pigeonhole principle), which is why
a post cannot fail. The refinement (`TxKept`) counts: a send that finds no free
slot leaves at most `Capacity` slots that are filled or in the hands of others, each
of them in a call of its own, so `BoundedQueue` sees the queue as full.

`FreeRtosKernel_proofs`, the queue: `FreeRtosInvariant`, `FreeRtosTypeCorrect`,
`FreeRtosForgetsNone`. The invariant says who may be inside the lock (`OneLocks`,
`LockHeld`: one task, and exactly as long as `cTxLock` is not unlocked), who is on a
list (`Listed`), and what a task that looked and has not slept yet knows
(`StuckStill`: whatever has come since is counted in `cTxLock`). So an unlock that
wakes `cTxLock` receivers, or all of them, leaves none behind. The refinement adds
the ring (`FrRingSound`) and `FrCallKept`: no task gets behind the scheduler lock
that has not found the queue full or empty, which is why a send that fails without
a last look is still allowed to (`met`).

The mutex (`FreeRtosMutexSound`, all five promises of `MutexSound`): only the holder
has a priority that is not its own (`OwnPriority`), and some task that lent it that
priority is still in its call and will look whether to take it back
(`PriorityIsLent`, `Lender`); every waiter of higher priority has noted its loan
(`LoansKnown`); a free mutex has an awake task at least as urgent as all that wait
(`FirstIsWoken`: a give wakes the head of the list, the list is in order by
`Ordered`, and whoever takes the mutex has the CPU and so outranks the woken one).
`InheritanceEnds` follows because the last lender to leave runs
`vTaskPriorityDisinheritAfterTimeout`, which sets the highest of what is left.

Both rest on `EventLists_proofs`: for lists of any length, `vListInsert` adds its
task to the others and keeps the order, `uxListRemove` takes just its task, and a
wake-up of *n* takes the first *n*.

### What the proofs assume, and what they leave out

The inductive invariants were checked by TLC on the instances above before they
were proved.

Assumptions: those named in the modules (`PoolAssumption`, `SharedAssumption`,
`ServiceAssumption`, `ScriptAssumption`, `ClientAssumption`, `DemoAssumption`,
`TraceAssumption`, `WatchdogAssumption`, `UsbAssumption`, `DiskAssumption`,
`QueueAssumption`, `FreeRtosAssumption`, `MutexAssumption`, `TestAssumption`), each
evaluated by TLC in every run of its module. `ScriptAssumption` is about the code: a
scenario creates into a future that holds nothing, sends right after it creates, and
ends holding none. `QueueAssumption` has finitely many tasks and interrupts, which
every program has, and `FreeRtosAssumption` has interrupts above all tasks.

Three hypotheses say more than that, all above: `MaxOvertake` < 17 for the USB
transfers, `AsInTheDemo` or `HealthyBoard` for the sizes and scenarios, and for
`FormatNeverErases` and the refinement that `FalseBlank` is FALSE: the drive's refusals
are reported, which in this code they are not (`erase`, `usberror`).

Some timing is assumed and not derived. That a working task is never silent for longer
than `MaxGap` is taken from the source (`crash_dump.c:454-472`), not checked against
every task's loop. The self-test's verdicts about time are open in the model: what is
shown is that FAIL has no other reason than a late waiter (`late`) or a delivery given
up (`behind`), and `BatteryRecovers` is about the latter.

Every safety invariant of the passing runs is a theorem, and so is the one action
property, `FormatErasesNothing`. Only model-checked is
liveness under fairness (`SlotsRecycle`, `StopsAreObeyed`, `MediaRecovers`,
`UnplugNoticed`, `ReplugRecovers`, `TestStops`, `BatteryRecovers`): the prover has
no rule for `ENABLED`, on which fairness rests, nor induction over data.

## 6. Not modelled, and the plan

Not modelled: crash capture and UART (straight-line code with interrupts masked),
logger and time-stamp formatting, PAL drivers, tools, the blinky task. Zephyr's
OSAL is one kernel call per operation, and the Zephyr kernel is not in the
repository; of the other OSALs' tasks, delays and clocks the same is true. Most of
the C in the repository is vendored: the two kernels, the HAL, FatFS and the USB
stack. Of these the parts that the application's properties depend on are modelled
(the USB host library's core and mass-storage class, `queue.c` and the priority
inheritance of `tasks.c`); register access, the many API variants the application
does not call, and headers are not, so the map covers a small share of all lines.

The plan, most important first:

1. done: pool, storage demo, `BlockStore`, their theorems.
2. done: `TaskTrace`, `Watchdog` on top of it, their theorems.
3. done: `UsbHost`, `UsbDisk`, their theorems.
4. done: `BoundedQueue` and the POSIX, ThreadX and FreeRTOS queues that refine it,
   the FreeRTOS mutex; their theorems, the refinements included.
5. done: the self-test on the events of each target, its theorems.
6. done: that the storage demo implements `BlockStore`; that its scenarios pass
   and its sizes suffice; that transfers fit the drive.
7. done: the format of a blank drive and a full volume, in T_S.
8. Left: the offsets and clusters of the block file, which `BlockStore` abstracts to
   blocks.
