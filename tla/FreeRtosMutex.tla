---------------------------- MODULE FreeRtosMutex ----------------------------
(***************************************************************************)
(* The mutex of the FreeRTOS kernel (xQueueSemaphoreTake, xQueueGenericSend*)
(* and the priority inheritance of tasks.c), which osal_mutex_lock and     *)
(* osal_mutex_unlock reach through osMutexAcquire and osMutexRelease.  A   *)
(* task that waits lends its priority to the holder; one that gives up     *)
(* takes it back as far as the others that wait allow.                     *)
(*                                                                         *)
(* A task holds no other mutex and does not take this one twice.  No       *)
(* interrupt gives a mutex and ticks wait for the scheduler, so that what a*)
(* task does with the scheduler suspended is one step.  The ready task of  *)
(* the highest priority runs; which one of several is open, and so is      *)
(* whether a time is over when a task looks at the clock.                  *)
(***************************************************************************)
EXTENDS EventLists

CONSTANTS
  MutexTasks,   \* the tasks that use the mutex
  Base,         \* uxBasePriority of each
  NoTask        \* NULL

ASSUME MutexAssumption == Base \in [MutexTasks -> Nat] /\ NoTask \notin MutexTasks

VARIABLES
  holder,       \* xMutexHolder; without one uxMessagesWaiting is 1
  priority,     \* uxPriority
  takers,       \* xTasksWaitingToReceive
  takeAt,       \* where each task is with the mutex
  left,         \* what is left of its time-out
  inherited,    \* xInheritanceOccurred
  halted        \* a configASSERT failed: interrupts are off, for ever

mutexVars == <<holder, priority, takers, takeAt, left, inherited, halted>>

Ends == {"idle", "holding", "asleep"}
InTake == {"top", "suspend", "blocked", "expired", "disinherit"}

MutexTypeOK ==
  /\ holder \in MutexTasks \cup {NoTask}
  /\ priority \in [MutexTasks -> Nat]
  /\ takers \in Seq(MutexTasks) /\ IsInjective(takers)
  /\ takeAt \in [MutexTasks -> Ends \cup InTake]
  /\ left \in [MutexTasks -> {"none", "timed", "forever"}]
  /\ inherited \in [MutexTasks -> BOOLEAN]
  /\ halted \in BOOLEAN

\* xQueueCreateMutex
MutexInit ==
  /\ holder = NoTask
  /\ priority = Base
  /\ takers = <<>>
  /\ takeAt = [t \in MutexTasks |-> "idle"]
  /\ left = [t \in MutexTasks |-> "none"]
  /\ inherited = [t \in MutexTasks |-> FALSE]
  /\ halted = FALSE

Runnable(t) == takeAt[t] \notin {"idle", "blocked", "asleep"}
HasCpu(t) == \A u \in MutexTasks : Runnable(u) => priority[u] <= priority[t]

At(t, from, to) ==
  takeAt[t] = from /\ HasCpu(t) /\ takeAt' = [takeAt EXCEPT ![t] = to]

\* osMutexAcquire
Acquire(t) ==
  /\ At(t, "idle", "top")
  /\ \E timeout \in {"none", "timed", "forever"} : left' = [left EXCEPT ![t] = timeout]
  /\ inherited' = [inherited EXCEPT ![t] = FALSE]
  /\ UNCHANGED <<holder, priority, takers>>

Take(t) ==
  /\ holder = NoTask
  /\ At(t, "top", "holding")
  /\ holder' = t
  /\ UNCHANGED <<priority, takers, left, inherited>>

\* Somebody has it.  A take with no time left ends, or halts the board if it has
\* lent its priority in this call.
MeetHeld(t) ==
  /\ holder # NoTask
  /\ At(t, "top", IF left[t] # "none" THEN "suspend" ELSE IF inherited[t] THEN "top" ELSE "idle")
  /\ halted' = (left[t] = "none" /\ inherited[t])
  /\ UNCHANGED <<holder, priority, takers, left, inherited>>

\* xTaskPriorityInherit; it says whether the holder owes its priority to t.
Inherit(t) ==
  /\ priority' = [priority EXCEPT ![holder] = IF @ < priority[t] THEN priority[t] ELSE @]
  /\ inherited' = [inherited EXCEPT ![t] = Base[holder] < priority[t]]

\* The time is not over.
Wait(t) ==
  /\ holder # NoTask
  /\ At(t, "suspend", "blocked")
  /\ Inherit(t)
  /\ takers' = Inserted(takers, t, priority)
  /\ UNCHANGED <<holder, left>>

TryAgain(t) ==
  /\ holder = NoTask
  /\ At(t, "suspend", "top")
  /\ UNCHANGED <<holder, priority, takers, left, inherited>>

\* xTaskCheckForTimeOut leaves nothing of the time.
TimeOver(t) ==
  /\ left[t] = "timed"
  /\ At(t, "suspend", "expired")
  /\ left' = [left EXCEPT ![t] = "none"]
  /\ UNCHANGED <<holder, priority, takers, inherited>>

\* xTaskIncrementTick
Tick(t) ==
  /\ takeAt[t] = "blocked" /\ left[t] = "timed"
  /\ takeAt' = [takeAt EXCEPT ![t] = "top"]
  /\ takers' = Removed(takers, t)
  /\ UNCHANGED <<holder, priority, left, inherited>>

\* The last look of a take whose time is over
Expired(t) ==
  /\ At(t, "expired", IF holder = NoTask THEN "top"
                      ELSE IF inherited[t] THEN "disinherit" ELSE "idle")
  /\ UNCHANGED <<holder, priority, takers, left, inherited>>

\* prvGetDisinheritPriorityAfterTimeout; 0 is tskIDLE_PRIORITY.
HighestWaiting == IF takers = <<>> THEN 0 ELSE priority[Head(takers)]

\* A wrong time-out: the others that wait are forgotten.
DisinheritAll(t) ==
  /\ At(t, "disinherit", "idle")
  /\ priority' = [u \in MutexTasks |-> IF u = holder THEN Base[u] ELSE priority[u]]
  /\ UNCHANGED <<holder, takers, left, inherited>>

\* vTaskPriorityDisinheritAfterTimeout
Disinherit(t) ==
  /\ At(t, "disinherit", "idle")
  /\ priority' = [u \in MutexTasks |->
       IF u # holder THEN priority[u]
       ELSE IF Base[u] < HighestWaiting THEN HighestWaiting ELSE Base[u]]
  /\ UNCHANGED <<holder, takers, left, inherited>>

\* xTaskPriorityDisinherit
ToBase(t) == priority' = [priority EXCEPT ![t] = Base[t]]

\* osMutexRelease: the first that waits is woken
Give(t) ==
  /\ takeAt[t] = "holding" /\ HasCpu(t)
  /\ holder' = NoTask
  /\ ToBase(t)
  /\ IF takers = <<>>
     THEN takeAt' = [takeAt EXCEPT ![t] = "idle"] /\ UNCHANGED takers
     ELSE /\ takeAt' = [takeAt EXCEPT ![t] = "idle", ![Head(takers)] = "top"]
          /\ takers' = Tail(takers)
  /\ UNCHANGED <<left, inherited>>

\* The holder waits for something else, the drive for one.
Sleep(t) == At(t, "holding", "asleep") /\ UNCHANGED <<holder, priority, takers, left, inherited>>

Wake(t) ==
  /\ takeAt[t] = "asleep"
  /\ takeAt' = [takeAt EXCEPT ![t] = "holding"]
  /\ UNCHANGED <<holder, priority, takers, left, inherited>>

MutexNext ==
  /\ ~halted
  /\ \E t \in MutexTasks :
       \/ MeetHeld(t)
       \/ /\ \/ Acquire(t) \/ Take(t) \/ Wait(t) \/ TryAgain(t) \/ TimeOver(t)
             \/ Tick(t) \/ Expired(t) \/ Disinherit(t) \/ Give(t) \/ Sleep(t) \/ Wake(t)
          /\ UNCHANGED halted

MutexSpec == MutexInit /\ [][MutexNext]_mutexVars

-----------------------------------------------------------------------------
Exclusive == \A t \in MutexTasks : takeAt[t] \in {"holding", "asleep"} <=> holder = t

\* The holder is never of less priority than one that waits.
NoInversion == holder # NoTask => \A u \in ToSet(takers) : priority[holder] >= priority[u]

\* A priority that is not its own has only the holder, and from a task that is
\* still in its call.
InheritanceEnds ==
  \A t \in MutexTasks :
    priority[t] # Base[t] =>
      /\ t = holder
      /\ \E u \in MutexTasks : takeAt[u] \in InTake /\ Base[u] = priority[t] /\ priority[t] > Base[t]

\* A mutex that is free is not slept for.
NoneForgets ==
  holder = NoTask /\ takers # <<>> => \E t \in MutexTasks : takeAt[t] = "top"

(* Whatever the order of takes, time-outs and gives: one task has the      *)
(* mutex, its priority is what the others lend it, no less while they wait *)
(* and no more once they are gone, and a free mutex is not slept for.      *)
MutexSound == MutexTypeOK /\ Exclusive /\ NoInversion /\ InheritanceEnds /\ NoneForgets

=============================================================================
