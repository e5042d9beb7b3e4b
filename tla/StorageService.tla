--------------------------- MODULE StorageService --------------------------
(***************************************************************************)
(* The Servicer task T_S (storage_service.c): one thread that mounts the   *)
(* volume, takes requests from the queue one at a time, checks that the    *)
(* requester still waits, does the FatFS work and resolves the promise.    *)
(* The media can be removed and inserted between any two of its steps; a   *)
(* FatFS call succeeds exactly when the media is present at that moment    *)
(* (and has room).  It is the same drive that comes back.                  *)
(***************************************************************************)
EXTENDS StorageShared

CONSTANTS
  Blank,        \* content of a block before its first write
  MediaFails,   \* TRUE: the media may be pulled while the system runs
  VolumeFills,  \* TRUE: there may be no room to make the block file longer
  FalseBlank,   \* TRUE: the drive may refuse the read of the boot sector, which
                \* UsbDisk then reports as done (FailureIsReported)
  NoRequest     \* the request variable when T_S holds no request

Codes == {"ok", "cancelled", "notReady", "io", "invalid"}

ASSUME ServiceAssumption ==
  /\ Blank \in Values
  /\ MediaFails \in BOOLEAN /\ VolumeFills \in BOOLEAN /\ FalseBlank \in BOOLEAN
  /\ [code : Codes, val : Values] \subseteq Answers
  /\ NoRequest \notin Requests

VARIABLES
  at,           \* where T_S is in its loop
  request,      \* the request in its hands
  outcome,      \* the answer it is about to give
  volumeReady,  \* local variables of storageServiceTaskEntry
  mounted,
  fileOpen,
  mediaUp,      \* the drive is there and answers
  formatted,    \* there is a file system on it
  disk          \* contents of the block file

svcVars == <<at, request, outcome, volumeReady, mounted, fileOpen, mediaUp, formatted, disk>>

Failed(code) == [code |-> code, val |-> Blank]
Done(v) == [code |-> "ok", val |-> v]

SvcPoints == {"top", "receive", "mount", "format", "remount", "open", "check", "slow", "work",
              "sync", "resolve", "stopped"}

ServiceTypeOK ==
  /\ at \in SvcPoints
  /\ request \in Requests \cup {NoRequest}
  /\ outcome \in Answers \cup {NoAnswer}
  /\ volumeReady \in BOOLEAN
  /\ mounted \in BOOLEAN
  /\ fileOpen \in BOOLEAN
  /\ mediaUp \in BOOLEAN
  /\ formatted \in BOOLEAN
  /\ disk \in [Blocks -> Values]

EmptyFile == [b \in Blocks |-> Blank]

ServiceInit ==
  /\ at = "top"
  /\ request = NoRequest
  /\ outcome = NoAnswer
  /\ volumeReady = FALSE
  /\ mounted = FALSE
  /\ fileOpen = FALSE
  /\ mediaUp \in BOOLEAN
  /\ formatted \in BOOLEAN
  /\ disk = EmptyFile

Plug ==
  /\ ~mediaUp
  /\ mediaUp' = TRUE
  /\ UNCHANGED <<poolVars, sharedVars, at, request, outcome, volumeReady,
                 mounted, fileOpen, formatted, disk>>

Unplug ==
  /\ MediaFails
  /\ mediaUp
  /\ mediaUp' = FALSE
  /\ UNCHANGED <<poolVars, sharedVars, at, request, outcome, volumeReady,
                 mounted, fileOpen, formatted, disk>>

\* The head of the loop.  Stopping closes the file and unmounts, and leaves
\* the queue as it is.
LoopTop ==
  /\ at = "top"
  /\ at' = IF "StorageSvc" \in stopRequested THEN "stopped" ELSE "receive"
  /\ UNCHANGED <<poolVars, sharedVars, request, outcome, volumeReady, mounted,
                 fileOpen, mediaUp, formatted, disk>>

Receive ==
  /\ at = "receive"
  /\ QueueReceive(request')
  /\ at' = IF volumeReady THEN "check" ELSE "mount"
  /\ UNCHANGED <<poolVars, published, stopRequested, outcome, volumeReady,
                 mounted, fileOpen, mediaUp, formatted, disk>>

\* A wrong idle poll: the media is only looked for when a request arrives.
ReceiveTimesOutIdle ==
  /\ at = "receive"
  /\ queue = <<>>
  /\ at' = "top"
  /\ UNCHANGED <<poolVars, sharedVars, request, outcome, volumeReady, mounted,
                 fileOpen, mediaUp, formatted, disk>>

\* The poll window ends with nothing received: probe for the media if it is
\* not mounted yet.
ReceiveTimesOut ==
  /\ at = "receive"
  /\ queue = <<>>
  /\ at' = IF volumeReady THEN "top" ELSE "mount"
  /\ UNCHANGED <<poolVars, sharedVars, request, outcome, volumeReady, mounted,
                 fileOpen, mediaUp, formatted, disk>>

\* Where a mount attempt leads: an idle probe stores s_volumeReady and ends
\* the iteration, a request is served (or refused) first.
AfterMount(ready) ==
  IF request = NoRequest
  THEN at' = "top" /\ published' = ready
  ELSE at' = "check" /\ UNCHANGED published

\* A wrong mount: the volume is formatted whatever f_mount failed for.
MountVolumeOrFormat ==
  /\ at = "mount"
  /\ IF mediaUp /\ formatted
     THEN mounted' = TRUE /\ at' = "open"
     ELSE at' = "format" /\ UNCHANGED mounted
  /\ UNCHANGED <<poolVars, sharedVars, request, outcome, volumeReady, fileOpen, mediaUp,
                 formatted, disk>>

\* f_mount reads the boot sector: FR_OK, FR_NO_FILESYSTEM or another failure.
MountVolume ==
  /\ at = "mount"
  /\ \/ mediaUp /\ formatted /\ mounted' = TRUE /\ at' = "open" /\ UNCHANGED published
     \/ /\ mediaUp /\ (formatted => FalseBlank)
        /\ at' = "format" /\ UNCHANGED <<mounted, published>>
     \/ ~mediaUp /\ AfterMount(FALSE) /\ UNCHANGED mounted
  /\ UNCHANGED <<poolVars, queue, stopRequested, request, outcome, volumeReady,
                 fileOpen, mediaUp, formatted, disk>>

\* f_mkfs leaves an empty volume.
Format ==
  /\ at = "format"
  /\ \/ /\ mediaUp
        /\ formatted' = TRUE /\ disk' = EmptyFile
        /\ at' = "remount" /\ UNCHANGED published
     \/ ~mediaUp /\ AfterMount(FALSE) /\ UNCHANGED <<formatted, disk>>
  /\ UNCHANGED <<poolVars, queue, stopRequested, request, outcome, volumeReady,
                 mounted, fileOpen, mediaUp>>

\* The second f_mount: whatever it fails for, it is not tried again.
Remount ==
  /\ at = "remount"
  /\ \/ mediaUp /\ mounted' = TRUE /\ at' = "open" /\ UNCHANGED published
     \/ (mediaUp => FalseBlank) /\ AfterMount(FALSE) /\ UNCHANGED mounted
  /\ UNCHANGED <<poolVars, queue, stopRequested, request, outcome, volumeReady,
                 fileOpen, mediaUp, formatted, disk>>

\* A wrong remount: the volume counts as ready although f_open failed.
OpenBlockFileUnchecked ==
  /\ at = "open"
  /\ volumeReady' = TRUE
  /\ fileOpen' = mediaUp
  /\ AfterMount(TRUE)
  /\ UNCHANGED <<poolVars, queue, stopRequested, request, outcome, mounted,
                 mediaUp, formatted, disk>>

OpenBlockFile ==
  /\ at = "open"
  /\ volumeReady' = mediaUp
  /\ fileOpen' = mediaUp
  /\ AfterMount(mediaUp)
  /\ UNCHANGED <<poolVars, queue, stopRequested, request, outcome, mounted,
                 mediaUp, formatted, disk>>

\* A wrong servicer: it never asks whether the requester still waits.
CheckActiveBlindly ==
  /\ at = "check"
  /\ IF volumeReady
     THEN at' = (IF request.load.blk = SlowBlock THEN "slow" ELSE "work") /\ UNCHANGED outcome
     ELSE at' = "resolve" /\ outcome' = Failed("notReady")
  /\ UNCHANGED <<poolVars, sharedVars, request, volumeReady, mounted, fileOpen,
                 mediaUp, formatted, disk>>

\* A wrong servicer: it skips a cancelled request without dropping its promise.
CheckActiveKeepsPromise ==
  /\ at = "check"
  /\ IF ~IsActive(request.promise)
     THEN at' = "top" /\ request' = NoRequest /\ UNCHANGED outcome
     ELSE UNCHANGED request /\
          IF volumeReady
          THEN at' = (IF request.load.blk = SlowBlock THEN "slow" ELSE "work") /\ UNCHANGED outcome
          ELSE at' = "resolve" /\ outcome' = Failed("notReady")
  /\ UNCHANGED <<poolVars, sharedVars, volumeReady, mounted, fileOpen, mediaUp, formatted, disk>>

\* serviceRequest up to the point where T_S commits to the request.
CheckActive ==
  /\ at = "check"
  /\ \/ /\ ~IsActive(request.promise)
        /\ outcome' = Failed("cancelled")
        /\ at' = "resolve"
     \/ /\ IsActive(request.promise)
        /\ ~volumeReady
        /\ outcome' = Failed("notReady")
        /\ at' = "resolve"
     \/ /\ IsActive(request.promise)
        /\ volumeReady
        /\ at' = IF request.load.blk = SlowBlock THEN "slow" ELSE "work"
        /\ UNCHANGED outcome
  /\ UNCHANGED <<poolVars, sharedVars, request, volumeReady, mounted, fileOpen,
                 mediaUp, formatted, disk>>

\* osal_delay_ms(kStorageDemoSlowDelayMs) is over.
SlowDelay ==
  /\ at = "slow"
  /\ at' = "work"
  /\ UNCHANGED <<poolVars, sharedVars, request, outcome, volumeReady, mounted,
                 fileOpen, mediaUp, formatted, disk>>

\* Without room f_lseek stops at the end of the block file.  A block that has a
\* content is before that end.
NoRoomFor(b) == VolumeFills /\ disk[b] = Blank

\* handleRead, handleWrite up to its f_write, and the GetStatus case.
Work ==
  /\ at = "work"
  /\ LET load == request.load IN
       \/ /\ load.cmd = "GetStatus"
          /\ outcome' = Done(Blank) /\ at' = "resolve" /\ UNCHANGED disk
       \/ /\ load.cmd # "GetStatus" /\ load.blk \notin Blocks
          /\ outcome' = Failed("invalid") /\ at' = "resolve" /\ UNCHANGED disk
       \/ /\ load.cmd # "GetStatus" /\ load.blk \in Blocks /\ ~mediaUp
          /\ outcome' = Failed("io") /\ at' = "resolve" /\ UNCHANGED disk
       \/ /\ load.cmd # "GetStatus" /\ load.blk \in Blocks /\ mediaUp /\ NoRoomFor(load.blk)
          /\ outcome' = Failed(IF load.cmd = "Read" THEN "invalid" ELSE "io")
          /\ at' = "resolve" /\ UNCHANGED disk
       \/ /\ load.cmd = "Read" /\ load.blk \in Blocks /\ mediaUp
          /\ outcome' = Done(disk[load.blk]) /\ at' = "resolve" /\ UNCHANGED disk
       \/ /\ load.cmd = "Write" /\ load.blk \in Blocks /\ mediaUp
          /\ disk' = [disk EXCEPT ![load.blk] = load.val]
          /\ at' = "sync" /\ UNCHANGED outcome
  /\ UNCHANGED <<poolVars, sharedVars, request, volumeReady, mounted, fileOpen,
                 mediaUp, formatted>>

\* The f_sync of handleWrite: the data is on the media already.
Sync ==
  /\ at = "sync"
  /\ outcome' = IF mediaUp THEN Done(Blank) ELSE Failed("io")
  /\ at' = "resolve"
  /\ UNCHANGED <<poolVars, sharedVars, request, volumeReady, mounted, fileOpen,
                 mediaUp, formatted, disk>>

\* cpromise_set_value or cpromise_drop, then the store to s_volumeReady: an
\* I/O failure forces a remount with the next request.
ResolvePromise ==
  /\ at = "resolve"
  /\ Resolve(request.promise, outcome)
  /\ volumeReady' = (volumeReady /\ outcome.code # "io")
  /\ published' = volumeReady'
  /\ at' = "top"
  /\ request' = NoRequest
  /\ outcome' = NoAnswer
  /\ UNCHANGED <<queue, stopRequested, mounted, fileOpen, mediaUp, formatted, disk>>

=============================================================================
