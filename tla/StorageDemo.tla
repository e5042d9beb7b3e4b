---------------------------- MODULE StorageDemo ----------------------------
(***************************************************************************)
(* The storage showcase: the Servicer and the Requester tasks interleaved  *)
(* in any order, on one request queue and one promise pool, with media     *)
(* that comes and goes and tasks that are asked to stop.                   *)
(***************************************************************************)
EXTENDS StorageService, ClientTasks

CONSTANT Stoppable   \* tasks somebody may ask to stop

ASSUME DemoAssumption == Stoppable \subseteq Tasks

vars == <<poolVars, sharedVars, svcVars, clientVars>>

TypeOK ==
  /\ PoolTypeOK
  /\ SharedTypeOK
  /\ ServiceTypeOK
  /\ ClientTypeOK

Init ==
  /\ PoolInit
  /\ SharedInit
  /\ ServiceInit
  /\ ClientInit

\* appTaskTraceRequestStop: one way, seen by the task at the head of its loop
RequestStop(t) ==
  /\ t \in Stoppable \ stopRequested
  /\ stopRequested' = stopRequested \cup {t}
  /\ UNCHANGED <<poolVars, queue, published, svcVars, clientVars>>

\* A request of c that T_S has not finished with.
Outstanding(c) ==
  \/ request # NoRequest /\ request.from = c
  \/ \E i \in DOMAIN queue : queue[i].from = c

\* Punctual: the 200 ms that T_S spends on a slow request outlast the 50 ms
\* settle delay of the task that sent it, and the poll that follows.
SlowDelayOver ==
  /\ SlowDelay
  /\ Punctual => ~Instr(request.from).hurry

\* Punctual: a task's 3 s cadence outlasts what it left in the queue.
NextIteration(c) ==
  /\ Sleep(c)
  /\ Punctual => ~Outstanding(c)

ServicerStep ==
  /\ \/ LoopTop \/ Receive \/ ReceiveTimesOut
     \/ MountVolume \/ Format \/ Remount \/ OpenBlockFile
     \/ CheckActive \/ SlowDelayOver \/ Work \/ Sync \/ ResolvePromise
  /\ UNCHANGED clientVars

ClientStep(c) ==
  /\ \/ WaitForMedia(c) \/ IterationTop(c) \/ CreatePair(c) \/ Send(c)
     \/ SendTimesOut(c) \/ AwaitAnswer(c) \/ AwaitTimesOut(c) \/ NextIteration(c)
  /\ UNCHANGED svcVars

Media == (Plug \/ Unplug) /\ UNCHANGED clientVars

Next ==
  \/ ServicerStep
  \/ \E c \in Clients : ClientStep(c)
  \/ Media
  \/ \E t \in Stoppable : RequestStop(t)

(* Every RTOS port runs T_S at high and the requesters at normal priority, *)
(* T_S blocks in its queue receive when idle, and every wait is bounded:   *)
(* no task that can go on is kept from it for ever.                        *)
Fairness ==
  /\ WF_vars(ServicerStep)
  /\ \A c \in Clients : WF_vars(ClientStep(c))

Spec == Init /\ [][Next]_vars
FairSpec == Spec /\ Fairness

-----------------------------------------------------------------------------
\* Who holds a promise: a request in the queue, the request in T_S's hands,
\* or a task between cfuture_create and osal_queue_send.
Unsent(c) == Instr(c).op = "send"
PromiseOf(c) == fut[c][Instr(c).h]

(* Every promise handle in the system is on a slot of its own, of the      *)
(* slot's present generation, and on a slot whose promise side is still    *)
(* held: no answer can reach a slot that has changed hands, whatever was   *)
(* timed out, abandoned and claimed again in the meantime.  (The hazard    *)
(* that scenario 4 of client_tasks.c and checkStaleHandle are about.)      *)
PromisesExclusive ==
  LET Good(h) == IsCurrent(h) /\ "promise" \in held[h.slot] IN
  /\ \A i \in DOMAIN queue :
       /\ Good(queue[i].promise)
       /\ \A j \in DOMAIN queue :
            queue[i].promise.slot = queue[j].promise.slot => i = j
       /\ request # NoRequest => request.promise.slot # queue[i].promise.slot
       /\ \A c \in Clients : Unsent(c) => PromiseOf(c).slot # queue[i].promise.slot
  /\ request # NoRequest =>
       /\ Good(request.promise)
       /\ \A c \in Clients : Unsent(c) => PromiseOf(c).slot # request.promise.slot
  /\ \A c \in Clients : Unsent(c) => PromiseOf(c) # NoFuture /\ Good(PromiseOf(c))

\* The same for futures: a requester can only ever collect or give up a pair
\* of its own, whatever the other requesters do.
FuturesExclusive ==
  \A c, d \in Clients : \A h, k \in Futures :
    LET f == fut[c][h] IN
    f # NoFuture =>
      /\ IsCurrent(f) /\ "future" \in held[f.slot]
      /\ fut[d][k] # NoFuture /\ fut[d][k].slot = f.slot => c = d /\ h = k

(* No slot leaks: a slot that is in use is in use by somebody who will let *)
(* go of it.  A side that still counts as held has its handle in the       *)
(* queue, in T_S's hands or in a requester's local.                        *)
NoSlotLost ==
  \A s \in Slots :
    /\ "promise" \in held[s] =>
         \/ \E i \in DOMAIN queue : queue[i].promise.slot = s
         \/ request # NoRequest /\ request.promise.slot = s
         \/ \E c \in Clients : Unsent(c) /\ PromiseOf(c).slot = s
    /\ "future" \in held[s] =>
         \E c \in Clients, h \in Futures : fut[c][h] # NoFuture /\ fut[c][h].slot = s

\* The state word agrees with the sides that are left (a lemma for the others).
StateFollowsHolders ==
  \A s \in Slots :
    /\ st[s] = "free" <=> held[s] = {}
    /\ st[s] = "pending" <=> held[s] = Sides
    /\ st[s] = "resolved" <=> held[s] = {"future"}
    /\ st[s] = "timedOut" <=> held[s] = {"promise"}
    /\ st[s] = "resolved" <=> ans[s] # NoAnswer

\* Each task holds exactly the futures its place in the scenario says.
FuturesFollowScript ==
  \A c \in Clients : {h \in Futures : fut[c][h] # NoFuture} = Instr(c).live

\* T_S works on the block file only while it has it open and a request.
ServicerReady ==
  /\ volumeReady => fileOpen /\ mounted
  /\ at \in {"slow", "work", "sync"} => volumeReady
  /\ at \in {"check", "slow", "work", "sync", "resolve"} => request # NoRequest
  /\ at \in {"top", "receive", "stopped"} => request = NoRequest
  /\ at = "resolve" <=> outcome # NoAnswer
  /\ at \in {"mount", "format", "remount", "open"} => ~volumeReady
  /\ at = "open" => mounted

\* The safety of the pool, as one inductive invariant.
PoolSafety == PromisesExclusive /\ FuturesExclusive /\ NoSlotLost /\ StateFollowsHolders
IInv == TypeOK /\ PoolSafety /\ FuturesFollowScript /\ ServicerReady

(* "A blank/never-formatted disk [...] mounts as FR_NO_FILESYSTEM [...] -  *)
(* format it once [...].  Any other f_mount failure (media not ready, I/O  *)
(* error) is left alone" (mountVolume): no format ever destroys a block    *)
(* that was written, whenever the media went and came.                     *)
FormatErasesNothing == [][at = "format" => disk' = disk]_vars

\* No scenario ever logs FAIL: on a healthy board each of the four gets the
\* answers and the timeouts it is written to see, whatever the other three
\* have in the queue (client_tasks.c; "spurious FAIL log", storage_demo.c).
ScenariosPass == \A c \in Clients : good[c]

\* The sizing comment of storage_demo.c: with all four scenarios in flight
\* about seven slots and queue places are taken at once, never more.
SizedForOverlap == Cardinality(LiveSlots) <= 7 /\ Len(queue) <= 7

\* A claimed slot is always given back in the end: whatever its requester
\* does, T_S gets to the promise in the queue and lets go of it.
SlotsRecycle == \A s \in Slots : st[s] # "free" ~> st[s] = "free"

\* A requester that is asked to stop comes to the end of its task, even in
\* the middle of a scenario, with the media gone or the queue full.
StopsAreObeyed ==
  \A c \in Clients : c \in stopRequested ~> Instr(c).op = "stop"

\* "Recovers from an unplug/replug" (storage_service.c): once the media
\* stays, and has room, the volume is mounted again and stays ready.
MediaRecovers == <>[]mediaUp => <>[](volumeReady /\ published)

\* "These two only ever go false->true, so teardown below always knows exactly
\* what to release" (storageServiceTaskEntry, of mounted and fileOpen).
FlagsOnlyRise == [][(mounted => mounted') /\ (fileOpen => fileOpen')]_vars

-----------------------------------------------------------------------------
(* The storage demo implements BlockStore.  A call is made when its request*)
(* is in the queue, is committed to from the is_active check on (unless it *)
(* is about to be refused there), and its answer is the one in its slot.   *)
NoCall == [phase |-> "none"]
Committing ==
  \/ at \in {"slow", "work", "sync"}
  \/ at = "resolve" /\ outcome.code \notin {"cancelled", "notReady"}

QueuedAt(s) == {i \in DOMAIN queue : queue[i].promise.slot = s}

AbstractCall(k) ==
  LET f == fut[k[1]][k[2]] IN
    IF f = NoFuture THEN NoCall
    ELSE IF st[f.slot] = "resolved"
      THEN [phase |-> "answered", answer |-> ans[f.slot]]
    ELSE IF request # NoRequest /\ request.promise.slot = f.slot
      THEN [phase |-> IF Committing THEN "committed" ELSE "waiting", load |-> request.load]
    ELSE IF QueuedAt(f.slot) # {}
      THEN [phase |-> "waiting", load |-> queue[CHOOSE i \in QueuedAt(f.slot) : TRUE].load]
    ELSE NoCall

AbstractCurrent ==
  IF ~Committing THEN NoCall
  ELSE IF at = "resolve" THEN [load |-> request.load, stage |-> "decided", answer |-> outcome]
  ELSE [load |-> request.load, stage |-> IF at = "sync" THEN "stored" ELSE "begun"]

Store == INSTANCE BlockStore WITH
  Callers <- Clients \X Futures,
  NoCall <- NoCall,
  blocks <- disk,
  call <- [k \in Clients \X Futures |-> AbstractCall(k)],
  current <- AbstractCurrent

(* Every behaviour of the demo is one of BlockStore: nothing a requester   *)
(* gave up before T_S took it up ever reaches the media, every answer goes *)
(* to the requester of that very request, and "ok" means it was done.      *)
ImplementsBlockStore == Store!Spec

=============================================================================
