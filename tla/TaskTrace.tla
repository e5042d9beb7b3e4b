----------------------------- MODULE TaskTrace -----------------------------
(***************************************************************************)
(* The task trace (app_task_trace.c) from boot on: a table of records with *)
(* a count and no lock, filled by the thread that starts the tasks and     *)
(* used by every task under its own name.  appThreadRegistryStartAll       *)
(* (app_threads.c) creates a task before it registers it.  On FreeRTOS and *)
(* ThreadX the kernel is started after that, and on Zephyr main() outranks *)
(* every task it creates; on the host a thread runs as soon as it exists.  *)
(*                                                                         *)
(* findOrCreate takes four steps that other threads can come between: the  *)
(* search, the choice of a place, the increment of the count, and the      *)
(* stores to the new record.  Loop durations, cadence and checkpoint texts *)
(* are only logged and left out.                                           *)
(***************************************************************************)
EXTENDS Naturals, Sequences, FiniteSets

CONSTANTS
  Order,        \* the task names in the order the registry starts them
  Capacity,     \* kAppTaskTraceCapacity
  NoName,       \* the NULL taskName of an unused record
  Concurrent,   \* TRUE: a created task runs at once (host)
  TimeModulus   \* osal_get_time_ms wraps at this value

Names == {Order[i] : i \in DOMAIN Order}
Procs == Names \cup {"main"}

ASSUME TraceAssumption ==
  /\ Order \in Seq(Names)
  /\ Capacity \in Nat /\ Len(Order) <= Capacity
  /\ \A i, j \in DOMAIN Order : Order[i] = Order[j] => i = j
  /\ "main" \notin Names /\ NoName \notin Names
  /\ Concurrent \in BOOLEAN
  /\ TimeModulus \in Nat \ {0}

VARIABLES
  count,     \* s_traceCount
  table,     \* s_traces
  step,      \* where each thread is in findOrCreate
  slot,      \* the place it has chosen
  started,   \* how many tasks have been created
  life,      \* what became of each task
  now        \* osal_get_time_ms

traceVars == <<count, table, step, slot, started, life, now>>

Places == 0 .. Capacity - 1
Steps == {"idle", "find", "claim", "bump", "fill", "crashed"}
Lives == {"unborn", "running", "leaving", "gone"}
Records == [name : Names \cup {NoName}, checkIn : 0 .. TimeModulus - 1,
            stopRequested : BOOLEAN, stopped : BOOLEAN]

TraceTypeOK ==
  /\ count \in 0 .. Capacity
  /\ table \in [Places -> Records]
  /\ step \in [Procs -> Steps]
  /\ slot \in [Procs -> 0 .. Capacity]
  /\ started \in 0 .. Len(Order)
  /\ life \in [Names -> Lives]
  /\ now \in 0 .. TimeModulus - 1

Fresh(n) == [name |-> n, checkIn |-> now, stopRequested |-> FALSE, stopped |-> FALSE]

TraceInit ==
  /\ count = 0
  /\ table = [i \in Places |-> [name |-> NoName, checkIn |-> 0,
                                stopRequested |-> FALSE, stopped |-> FALSE]]
  /\ step = [p \in Procs |-> "idle"]
  /\ slot = [p \in Procs |-> 0]
  /\ started = 0
  /\ life = [n \in Names |-> "unborn"]
  /\ now = 0

\* A wrong search: the youngest record is never compared.
FoundAtButLast(n) == {i \in Places : i + 1 < count /\ table[i].name = n}

\* findExisting
FoundAt(n) == {i \in Places : i < count /\ table[i].name = n}

\* strcmp meets the NULL of a record that is counted and not yet filled.
MeetsNull(n) ==
  \E i \in Places :
    /\ i < count /\ table[i].name = NoName
    /\ \A j \in FoundAt(n) : i < j

Booted == started = Len(Order) /\ step["main"] = "idle"
MayRun(t) == life[t] # "unborn" /\ (Concurrent \/ Booted)

\* The name a thread looks up: its own, or that of the task just created.
Wanted(p) == IF p = "main" THEN Order[started] ELSE p

\* appThreadRegistryStartAll: the next osal_task_create
StartTask ==
  /\ started < Len(Order) /\ step["main"] = "idle"
  /\ started' = started + 1
  /\ life' = [life EXCEPT ![Order[started']] = "running"]
  /\ step' = [step EXCEPT !["main"] = "find"]
  /\ UNCHANGED <<count, table, slot, now>>

\* appTaskTraceRegister that finds the record already there
RegisterAgain ==
  /\ step["main"] = "find"
  /\ ~MeetsNull(Wanted("main")) /\ FoundAt(Wanted("main")) # {}
  /\ step' = [step EXCEPT !["main"] = "idle"]
  /\ UNCHANGED <<count, table, slot, started, life, now>>

\* The record a search of t stops at
FirstAt(t, i) == i \in FoundAt(t) /\ \A j \in FoundAt(t) : i <= j

Free(t) == MayRun(t) /\ step[t] = "idle" /\ life[t] \in {"running", "leaving"}

\* The check-ins inside a task's loop and its teardown (LoopEnd, Checkpoint)
CheckIn(t) ==
  /\ Free(t) /\ ~MeetsNull(t)
  /\ \E i \in Places : FirstAt(t, i) /\ table' = [table EXCEPT ![i].checkIn = now]
  /\ UNCHANGED <<count, step, slot, started, life, now>>

\* appTaskTraceShouldStop: FALSE for a task without a record
ShouldStop(t) == \E i \in Places : FirstAt(t, i) /\ table[i].stopRequested

\* The head of every task's loop: appTaskTraceLoopStart, then
\* appTaskTraceShouldStop, and the break if it says yes
LoopTop(t) ==
  /\ Free(t) /\ life[t] = "running" /\ ~MeetsNull(t)
  /\ \E i \in Places : FirstAt(t, i) /\ table' = [table EXCEPT ![i].checkIn = now]
  /\ life' = IF ShouldStop(t) THEN [life EXCEPT ![t] = "leaving"] ELSE life
  /\ UNCHANGED <<count, step, slot, started, now>>

Searching(p) == IF p = "main" THEN step[p] = "find" ELSE Free(p)

\* The search of findOrCreate fails, or compares with a null name.
NotFound(p) ==
  /\ Searching(p)
  /\ \/ ~MeetsNull(Wanted(p)) /\ FoundAt(Wanted(p)) = {}
        /\ step' = [step EXCEPT ![p] = "claim"]
     \/ MeetsNull(Wanted(p)) /\ step' = [step EXCEPT ![p] = "crashed"]
  /\ UNCHANGED <<count, table, slot, started, life, now>>

ClaimPlace(p) ==
  /\ step[p] = "claim"
  /\ IF count >= Capacity
     THEN step' = [step EXCEPT ![p] = "idle"] /\ UNCHANGED slot
     ELSE slot' = [slot EXCEPT ![p] = count] /\ step' = [step EXCEPT ![p] = "bump"]
  /\ UNCHANGED <<count, table, started, life, now>>

\* s_traceCount++, not atomic: the build may add to the value it has in a
\* register or load it again.
BumpCount(p) ==
  /\ step[p] = "bump"
  /\ count' \in {slot[p] + 1, count + 1}
  /\ step' = [step EXCEPT ![p] = "fill"]
  /\ UNCHANGED <<table, slot, started, life, now>>

FillRecord(p) ==
  /\ step[p] = "fill"
  /\ table' = [table EXCEPT ![slot[p]] = Fresh(Wanted(p))]
  /\ step' = [step EXCEPT ![p] = "idle"]
  /\ UNCHANGED <<count, slot, started, life, now>>

\* appTaskTraceRequestStop, from anywhere; without a record it has no effect.
RequestStop(t) ==
  /\ Booted /\ ~MeetsNull(t)
  /\ \E i \in Places :
       /\ FirstAt(t, i) /\ ~table[i].stopRequested
       /\ table' = [table EXCEPT ![i].stopRequested = TRUE]
  /\ UNCHANGED <<count, step, slot, started, life, now>>

\* appTaskTraceMarkStopped, then osal_task_exit
MarkStopped(t) ==
  /\ Free(t) /\ life[t] = "leaving" /\ ~MeetsNull(t)
  /\ life' = [life EXCEPT ![t] = "gone"]
  /\ table' = [i \in Places |-> IF FirstAt(t, i) THEN [table[i] EXCEPT !.stopped = TRUE]
                                ELSE table[i]]
  /\ UNCHANGED <<count, step, slot, started, now>>

FindOrCreateStep(p) == NotFound(p) \/ ClaimPlace(p) \/ BumpCount(p) \/ FillRecord(p)
StarterStep == StartTask \/ RegisterAgain \/ FindOrCreateStep("main")
TaskStep(t) == LoopTop(t) \/ CheckIn(t) \/ FindOrCreateStep(t) \/ MarkStopped(t)

TraceNext ==
  \/ StarterStep
  \/ \E t \in Names : TaskStep(t) \/ RequestStop(t)

TraceSpec == TraceInit /\ [][TraceNext]_traceVars

-----------------------------------------------------------------------------
BeingRegistered(n) == step["main"] # "idle" /\ Order[started] = n

(* "One trace slot per registerable task" (app_task_trace.h): no task ever *)
(* has two records, a task that has been registered has one, and no lookup *)
(* compares with the name of a record that is not filled yet.              *)
OneRecordPerTask ==
  /\ \A p \in Procs : step[p] # "crashed"
  /\ \A n \in Names :
       /\ Cardinality(FoundAt(n)) <= 1
       /\ life[n] # "unborn" /\ ~BeingRegistered(n) => FoundAt(n) # {}

=============================================================================
