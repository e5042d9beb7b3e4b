--------------------------- MODULE StorageShared ---------------------------
(***************************************************************************)
(* What the Servicer and the Requester tasks of the storage demo share:    *)
(* the request queue (an OsalQueue of StorageRequest items), the promise   *)
(* pool, the atomic ready flag of storage_service.c and the stop requests  *)
(* of app_task_trace.c.                                                    *)
(***************************************************************************)
EXTENDS PromisePool, Sequences

CONSTANTS
  Clients,      \* the Requester tasks
  Blocks,       \* block ids whose offset fits the block file
  SlowBlock,    \* kStorageDemoSlowBlockId: never a block of the file
  Values,       \* contents of a block
  Payloads,     \* what a requester may ask for: command, block and data
  QueueDepth,   \* kStorageQueueDepth
  Punctual      \* TRUE: the demo's timing assumptions hold (see each use)

Commands == {"Read", "Write", "GetStatus"}

ASSUME SharedAssumption ==
  /\ "StorageSvc" \notin Clients
  /\ SlowBlock \notin Blocks
  /\ Payloads \subseteq [cmd : Commands, blk : Blocks \cup {SlowBlock}, val : Values]
  /\ QueueDepth \in Nat \ {0}
  /\ Punctual \in BOOLEAN

VARIABLES
  queue,         \* requests sent and not yet received, oldest first
  published,     \* s_volumeReady
  stopRequested  \* tasks that have been asked to stop

sharedVars == <<queue, published, stopRequested>>

Tasks == Clients \cup {"StorageSvc"}

(* A StorageRequest.  "from" is not a field of the C struct: it names the  *)
(* requester for the timing assumptions and the properties only.           *)
Requests == [promise : Handles, load : Payloads, from : Clients]

SharedTypeOK ==
  /\ queue \in Seq(Requests)
  /\ Len(queue) <= QueueDepth
  /\ published \in BOOLEAN
  /\ stopRequested \subseteq Tasks

SharedInit ==
  /\ queue = <<>>
  /\ published = FALSE
  /\ stopRequested = {}

\* A wrong bound: one place more than the queue's storage has.
FullOneLate == Len(queue) > QueueDepth

Full == Len(queue) = QueueDepth

\* osal_queue_send that finds room within its timeout
QueueSend(r) == ~Full /\ queue' = Append(queue, r)

\* osal_queue_receive that finds an item within its timeout
QueueReceive(r) ==
  /\ queue # <<>>
  /\ r = Head(queue)
  /\ queue' = Tail(queue)

=============================================================================
