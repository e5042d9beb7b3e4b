---------------------------- MODULE FreeRtosQueue ----------------------------
(***************************************************************************)
(* The queue of the FreeRTOS kernel (queue.c), which osal_queue_send and   *)
(* osal_queue_receive reach through osMessageQueuePut and                  *)
(* osMessageQueueGet; the events of libcfuture are queues of one as well   *)
(* (binary semaphores), and an interrupt sets them.  A critical section is *)
(* one step.  Between its look at the queue and its sleep a task suspends  *)
(* the scheduler and locks the queue: no other task runs then, interrupts  *)
(* do, and those that send count that in cTxLock instead of waking         *)
(* anybody.  No interrupt receives here, so that cRxLock counts nothing.   *)
(*                                                                         *)
(* The ready task of the highest priority runs; which one of several is    *)
(* open, and so is whether a time is over when a task looks at the clock.  *)
(***************************************************************************)
EXTENDS QueueUsers, EventLists

CONSTANT Rank   \* the priority of each task, and of an interrupt

FrSenders == Senders \cup Interrupts
FrTasks == Tasks \cup Interrupts

ASSUME FreeRtosAssumption ==
  Rank \in [FrTasks -> Nat] /\ \A i \in Interrupts, t \in Tasks : Rank[i] > Rank[t]

VARIABLES
  ring,               \* pcHead, by place
  writeTo,            \* pcWriteTo
  readFrom,           \* pcReadFrom, the place that was read last
  messages,           \* uxMessagesWaiting
  waitingToSend,      \* xTasksWaitingToSend
  waitingToReceive,   \* xTasksWaitingToReceive
  txLock,             \* cTxLock
  frAt,               \* where each task is in its call
  frArg               \* its item, how long it waits, and xEntryTimeSet

frData == <<ring, writeTo, readFrom, messages>>
frLists == <<waitingToSend, waitingToReceive>>
frVars == <<frData, frLists, txLock, frAt, frArg>>

FrPlaces == 0 .. Capacity - 1
UNLOCKED == -1      \* queueUNLOCKED
UNMODIFIED == 0     \* queueLOCKED_UNMODIFIED

\* The scheduler is suspended and the queue is locked.
Locked == {"looking", "stuck", "placed", "again", "late"}
\* "over" is a time-out of which nothing is left.
FrArgs == [item : Items \cup {Blank}, patience : Patience \cup {"over"}, entered : BOOLEAN]

FrTypeOK ==
  /\ ring \in [FrPlaces -> Items \cup {Blank}]
  /\ writeTo \in FrPlaces /\ readFrom \in FrPlaces /\ messages \in 0 .. Capacity
  /\ waitingToSend \in Seq(Senders) /\ waitingToReceive \in Seq(Receivers)
  /\ IsInjective(waitingToSend) /\ IsInjective(waitingToReceive)
  /\ txLock \in UNLOCKED .. Capacity
  /\ frAt \in [FrTasks -> Locked \cup {"idle", "top", "suspend", "blocked", "expired",
                                     "raised", "done", "failed"}]
  /\ frArg \in [FrTasks -> FrArgs]

NoFrArg == [item |-> Blank, patience |-> "poll", entered |-> FALSE]

\* xQueueGenericReset of a new queue
FrInit ==
  /\ ring = [p \in FrPlaces |-> Blank]
  /\ writeTo = 0 /\ readFrom = Capacity - 1 /\ messages = 0
  /\ waitingToSend = <<>> /\ waitingToReceive = <<>>
  /\ txLock = UNLOCKED
  /\ frAt = [t \in FrTasks |-> "idle"]
  /\ frArg = [t \in FrTasks |-> NoFrArg]

Ready(t) == frAt[t] \notin {"idle", "blocked"}
SchedulerRuns == \A t \in FrTasks : frAt[t] \notin Locked

\* It is the turn of t: nobody that may preempt it is ready, and no other task has
\* the scheduler suspended.
Preempts(u, t) ==
  Ready(u) /\ Rank[u] > Rank[t] /\ (u \in Interrupts \/ frAt[t] \notin Locked)
Runs(t) ==
  \A u \in FrTasks \ {t} : ~Preempts(u, t) /\ (t \in Interrupts \/ frAt[u] \notin Locked)

\* An interrupt may only poll, and is not in a call of its own but at its end.
FrCall(t) ==
  /\ frAt[t] = "idle"
  /\ t \in Interrupts \/ SchedulerRuns
  /\ \E a \in FrArgs :
       /\ a.item \in IF t \in FrSenders THEN Sends[t] ELSE {Blank}
       /\ a.patience \in Waits[t] /\ ~a.entered
       /\ frArg' = [frArg EXCEPT ![t] = a]
  /\ frAt' = [frAt EXCEPT ![t] = IF t \in Interrupts THEN "raised" ELSE "top"]
  /\ UNCHANGED <<frData, frLists, txLock>>

\* prvCopyDataToQueue
CopyIn(item) ==
  /\ ring' = [ring EXCEPT ![writeTo] = item]
  /\ writeTo' = (writeTo + 1) % Capacity
  /\ messages' = messages + 1
  /\ UNCHANGED readFrom

\* prvCopyDataFromQueue
CopyOut(t) ==
  LET place == (readFrom + 1) % Capacity
  IN  /\ readFrom' = place
      /\ frArg' = [frArg EXCEPT ![t] = [NoFrArg EXCEPT !.item = ring[place]]]
      /\ messages' = messages - 1
      /\ UNCHANGED <<ring, writeTo>>

\* The first n tasks of an event list are ready again (xTaskRemoveFromEventList).
Woken(list, n) == ToSet(SubSeq(list, 1, n))
Left(list, n) == SubSeq(list, n + 1, Len(list))
First(list) == IF list = <<>> THEN 0 ELSE 1

Goes(t, place, woken) ==
  frAt' = [u \in FrTasks |-> IF u = t THEN place ELSE IF u \in woken THEN "top" ELSE frAt[u]]

\* A wrong send: one item too many.
FrSendOneMore(t) ==
  /\ t \in Senders /\ frAt[t] = "top" /\ Runs(t) /\ messages <= Capacity
  /\ CopyIn(frArg[t].item)
  /\ Goes(t, "done", Woken(waitingToReceive, First(waitingToReceive)))
  /\ waitingToReceive' = Left(waitingToReceive, First(waitingToReceive))
  /\ frArg' = [frArg EXCEPT ![t] = NoFrArg]
  /\ UNCHANGED <<waitingToSend, txLock>>

\* xQueueGenericSend with room
FrSend(t) ==
  /\ t \in Senders /\ frAt[t] = "top" /\ Runs(t) /\ messages < Capacity
  /\ CopyIn(frArg[t].item)
  /\ Goes(t, "done", Woken(waitingToReceive, First(waitingToReceive)))
  /\ waitingToReceive' = Left(waitingToReceive, First(waitingToReceive))
  /\ frArg' = [frArg EXCEPT ![t] = NoFrArg]
  /\ UNCHANGED <<waitingToSend, txLock>>

\* xQueueReceive with an item
FrReceive(t) ==
  /\ t \in Receivers /\ frAt[t] = "top" /\ Runs(t) /\ messages > 0
  /\ CopyOut(t)
  /\ Goes(t, "done", Woken(waitingToSend, First(waitingToSend)))
  /\ waitingToSend' = Left(waitingToSend, First(waitingToSend))
  /\ UNCHANGED <<waitingToReceive, txLock>>

\* prvIsQueueFull, prvIsQueueEmpty
FrStuck(t) == IF t \in Senders THEN messages = Capacity ELSE messages = 0

\* There is nothing to be had in the critical section.
FrMeetsStuck(t) ==
  /\ frAt[t] = "top" /\ Runs(t) /\ FrStuck(t)
  /\ IF frArg[t].patience \in {"poll", "over"}
     THEN Goes(t, "failed", {}) /\ frArg' = [frArg EXCEPT ![t] = NoFrArg]
     ELSE Goes(t, "suspend", {}) /\ frArg' = [frArg EXCEPT ![t].entered = TRUE]
  /\ UNCHANGED <<frData, frLists, txLock>>

\* vTaskSuspendAll and prvLockQueue
FrSuspend(t) ==
  /\ frAt[t] = "suspend" /\ Runs(t)
  /\ txLock' = UNMODIFIED
  /\ Goes(t, "looking", {})
  /\ UNCHANGED <<frData, frLists, frArg>>

\* The look at the time (xTaskCheckForTimeOut) and at the queue
FrLook(t) ==
  /\ frAt[t] = "looking" /\ Runs(t)
  /\ \/ frArg[t].patience = "timed" /\ Goes(t, "late", {})
     \/ Goes(t, IF FrStuck(t) THEN "stuck" ELSE "again", {})
  /\ UNCHANGED <<frData, frLists, txLock, frArg>>

\* vTaskPlaceOnEventList
FrPlace(t) ==
  /\ frAt[t] = "stuck" /\ Runs(t)
  /\ Goes(t, "placed", {})
  /\ IF t \in Senders
     THEN waitingToSend' = Inserted(waitingToSend, t, Rank) /\ UNCHANGED waitingToReceive
     ELSE waitingToReceive' = Inserted(waitingToReceive, t, Rank) /\ UNCHANGED waitingToSend
  /\ UNCHANGED <<frData, txLock, frArg>>

\* Where a task goes on: one that waits may be awake already.
After(t, woken) ==
  CASE frAt[t] = "placed" -> IF t \in woken THEN "top" ELSE "blocked"
    [] frAt[t] = "again" -> "top"
    [] frAt[t] = "late" -> IF t \in Senders THEN "failed" ELSE "expired"

\* A wrong unlock: what came in the meantime is forgotten.
FrUnlockForgets(t) ==
  /\ frAt[t] \in {"placed", "again", "late"} /\ Runs(t)
  /\ Goes(t, After(t, {}), {})
  /\ txLock' = UNLOCKED
  /\ UNCHANGED <<frData, frLists, frArg>>

\* prvUnlockQueue wakes a receiver for each item that came in the meantime; the
\* scheduler goes on (xTaskResumeAll).
FrUnlock(t) ==
  /\ frAt[t] \in {"placed", "again", "late"} /\ Runs(t)
  /\ LET n == IF txLock < Len(waitingToReceive) THEN txLock ELSE Len(waitingToReceive)
         woken == Woken(waitingToReceive, n)
     IN  /\ Goes(t, After(t, woken), woken)
         /\ waitingToReceive' = Left(waitingToReceive, n)
  /\ txLock' = UNLOCKED
  /\ UNCHANGED <<frData, waitingToSend, frArg>>

\* A wrong receive: the time is over, whatever is in the queue.
FrExpiredAnyway(t) ==
  /\ frAt[t] = "expired" /\ Runs(t)
  /\ Goes(t, "failed", {})
  /\ UNCHANGED <<frData, frLists, txLock, frArg>>

\* A receive whose time is over looks once more; a send does not.
FrExpired(t) ==
  /\ frAt[t] = "expired" /\ Runs(t)
  /\ Goes(t, IF FrStuck(t) THEN "failed" ELSE "top", {})
  /\ frArg' = [frArg EXCEPT ![t].patience = "over"]
  /\ UNCHANGED <<frData, frLists, txLock>>

\* The tick (xTaskIncrementTick), which waits for the scheduler
FrTick(t) ==
  /\ frAt[t] = "blocked" /\ frArg[t].patience = "timed" /\ SchedulerRuns
  /\ Goes(t, "top", {})
  /\ waitingToSend' = Removed(waitingToSend, t)
  /\ waitingToReceive' = Removed(waitingToReceive, t)
  /\ UNCHANGED <<frData, txLock, frArg>>

\* xQueueGenericSendFromISR
FrInterrupt(t) ==
  /\ frAt[t] = "raised" /\ Runs(t)
  /\ frArg' = [frArg EXCEPT ![t] = NoFrArg]
  /\ IF messages = Capacity
     THEN Goes(t, "failed", {}) /\ UNCHANGED <<frData, frLists, txLock>>
     ELSE LET n == IF txLock = UNLOCKED THEN First(waitingToReceive) ELSE 0
          IN  /\ CopyIn(frArg[t].item)
              /\ Goes(t, "done", Woken(waitingToReceive, n))
              /\ waitingToReceive' = Left(waitingToReceive, n)
              /\ txLock' = IF txLock = UNLOCKED THEN UNLOCKED ELSE txLock + 1
              /\ UNCHANGED waitingToSend

FrReturn(t) ==
  /\ frAt[t] \in {"done", "failed"}
  /\ Runs(t)
  /\ Goes(t, "idle", {})
  /\ frArg' = [frArg EXCEPT ![t] = NoFrArg]
  /\ UNCHANGED <<frData, frLists, txLock>>

FrNext ==
  \E t \in FrTasks :
    \/ FrCall(t) \/ FrSend(t) \/ FrReceive(t) \/ FrMeetsStuck(t) \/ FrSuspend(t) \/ FrLook(t)
    \/ FrPlace(t) \/ FrUnlock(t) \/ FrExpired(t) \/ FrTick(t) \/ FrInterrupt(t) \/ FrReturn(t)

FrSpec == FrInit /\ [][FrNext]_frVars

-----------------------------------------------------------------------------
(* A task that has looked at the queue and goes to sleep misses nothing    *)
(* that comes in between: as long as tasks wait there are as many awake, or*)
(* counted in the lock, as there are items (or places) for them.           *)
NoneForgotten ==
  /\ waitingToReceive # <<>> =>
       messages <= Cardinality({t \in Receivers : frAt[t] = "top"}) + (IF txLock > 0 THEN txLock ELSE 0)
  /\ waitingToSend # <<>> => Capacity - messages <= Cardinality({t \in Senders : frAt[t] = "top"})

(* FreeRTOS's queue is the queue of osal.h: items that come from an        *)
(* interrupt and while the queue is locked included.                       *)
FrPatience(t) == IF frArg[t].patience = "over" THEN "timed" ELSE frArg[t].patience
FrCallOf(t) ==
  CASE frAt[t] = "idle" -> [phase |-> "none"]
    [] frAt[t] = "failed" -> [phase |-> "failed"]
    [] frAt[t] = "done" -> IF t \in FrSenders THEN [phase |-> "sent"]
                           ELSE [phase |-> "received", item |-> frArg[t].item]
    [] OTHER -> IF t \in FrSenders
                THEN [phase |-> "sending", item |-> frArg[t].item, patience |-> FrPatience(t),
                      met |-> frArg[t].entered]
                ELSE [phase |-> "receiving", patience |-> FrPatience(t)]

FrContent == [i \in 1 .. messages |-> ring[(readFrom + i) % Capacity]]

FrAbstract == INSTANCE BoundedQueue WITH
  Senders <- FrSenders,
  Interrupts <- {},
  content <- FrContent,
  call <- [t \in FrTasks |-> FrCallOf(t)]

FrImplements == FrAbstract!Spec

=============================================================================
