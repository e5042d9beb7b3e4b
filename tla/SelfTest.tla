------------------------------ MODULE SelfTest ------------------------------
(***************************************************************************)
(* The cfuture self-test (cfuture_selftest.c): a waiter that goes through a*)
(* battery of checks again and again, and a producer that answers the      *)
(* requests of three of them, two as a task and one from an interrupt where*)
(* the target has one to raise.  The pool is PromisePool.  The events that *)
(* the pool's slots and one check use are those of the target: numbered    *)
(* places that are claimed and released (FreeRTOS), or the bits of one     *)
(* group, each handed out once (ThreadX, Zephyr).                          *)
(*                                                                         *)
(* How late an answer is, is open: any bounded wait may end without one,   *)
(* and a waiter that gets the CPU late may measure more than a check       *)
(* allows.  No wait and no delay ends early.  A raised interrupt outranks  *)
(* the tasks and has run before any goes on.                               *)
(***************************************************************************)
EXTENDS PromisePool, Sequences

CONSTANTS
  TestDepth,    \* kSelfTestQueueDepth
  Events,       \* the numbers of the events that are left to the self-test
  NoEvent,
  NoHeld        \* no handle, no request

ASSUME TestAssumption ==
  /\ TestDepth \in Nat \ {0} /\ Events \subseteq Nat /\ NoEvent \notin Events
  /\ Answers = {"task", "forever", "isr", "poison", "real", "dropped"}
  /\ GenModulus > 1
  /\ IsFiniteSet(Slots) /\ Cardinality(Slots) > 1    \* kSelfTestPoolCapacity

VARIABLES
  port,       \* how the target makes events, fixed by the build
  inUse,      \* the events that are handed out
  control,    \* the one that checkControls has
  check,      \* the check the waiter is at
  stage,      \* and how far
  mine,       \* the handles it has
  ok,         \* nothing in this check has gone wrong so far
  inbox,      \* s_queue
  request,    \* what the producer works on
  producer,   \* where it is
  stamped,    \* the request whose answer s_resolvedAtMs is the time of
  stopping,   \* the tasks that were asked to stop
  report,     \* the last verdict
  late,       \* it failed for its time: the waiter ran later than allowed
  behind      \* a delivery was given up, and not everything is back yet

testVars == <<port, inUse, control, check, stage, mine, ok, inbox, request,
              producer, stamped, stopping, report, late, behind>>
allTestVars == <<poolVars, testVars>>

\* The three time-outs differ in milliseconds and are one.
Battery == <<"controls", "timeout", "task", "forever", "isr", "stale", "cancel">>
Deliveries == {"task", "forever", "isr"}
Stages == {"top", "start", "wait", "late", "send", "set", "take", "reuse", "poison",
           "answer", "read", "claim", "release", "stopped"}
Requests == [promise : Handles, mode : Deliveries]

TestTypeOK ==
  /\ PoolTypeOK
  /\ port \in {"places", "bits"}
  /\ inUse \subseteq Events
  /\ control \in Events \cup {NoEvent}
  /\ check \in DOMAIN Battery /\ stage \in Stages
  /\ mine \in Seq(Handles) /\ Len(mine) <= Cardinality(Slots)
  /\ ok \in BOOLEAN
  /\ inbox \in Seq(Requests) /\ Len(inbox) <= TestDepth
  /\ request \in Requests \cup {NoHeld}
  /\ producer \in {"top", "receive", "delay", "stopped"}
  /\ stamped \in Requests \cup {NoHeld}
  /\ stopping \subseteq {"waiter", "producer"}
  /\ report \in {"none", "PASS", "FAIL"}
  /\ late \in BOOLEAN /\ behind \in BOOLEAN

\* cfutureSelfTestRegister, and the round that follows
TestInit ==
  /\ PoolInit
  /\ port \in {"places", "bits"}
  /\ inUse = {} /\ control = NoEvent
  /\ check = 1 /\ stage = "top" /\ mine = <<>> /\ ok = TRUE
  /\ inbox = <<>> /\ request = NoHeld /\ producer = "top" /\ stamped = NoHeld
  /\ stopping = {} /\ report = "none" /\ late = FALSE /\ behind = FALSE

-----------------------------------------------------------------------------
\* The events of the target

\* The first place that is free (claim_slot), or the next bit
NextEvent(e) ==
  /\ e \in Events \ inUse
  /\ \A f \in Events \ inUse : e <= f

\* A wrong release: the place stays claimed.
ReleasedNever(e) == inUse

\* event_destroy: the place is claimable again, the bit is spent
Released(e) == IF port = "places" THEN inUse \ {e} ELSE inUse

-----------------------------------------------------------------------------
\* The waiter

In(c, s) == stage = s /\ Battery[check] = c
Delivering(s) == stage = s /\ Battery[check] \in Deliveries
Stay(s) == stage' = s /\ UNCHANGED <<check, report, late>>

WaiterOnly == UNCHANGED <<port, request, producer, stamped, stopping>>
NoEvents == UNCHANGED <<inUse, control>>
NoPool == UNCHANGED poolVars

\* report: what was checked holds, and took no longer than is allowed.
Reports(passed, tardy) ==
  /\ report' = IF passed /\ ~tardy THEN "PASS" ELSE "FAIL"
  /\ late' = tardy

\* A wrong end: the handles are kept for the next check.
DoneInKeeps(passed, tardy) ==
  /\ Reports(passed, tardy)
  /\ check' = IF check = Len(Battery) THEN 1 ELSE check + 1
  /\ stage' = IF check = Len(Battery) THEN "top" ELSE "start"
  /\ mine' = mine /\ ok' = TRUE

\* A check has its verdict; the last one ends the round (and a pause).
DoneIn(passed, tardy) ==
  /\ Reports(passed, tardy)
  /\ check' = IF check = Len(Battery) THEN 1 ELSE check + 1
  /\ stage' = IF check = Len(Battery) THEN "top" ELSE "start"
  /\ mine' = <<>> /\ ok' = TRUE
Done(passed) == DoneIn(passed, FALSE)

\* The head of the loop; a round reports PASS to begin with.
WaiterTop ==
  /\ stage = "top"
  /\ IF "waiter" \in stopping
     THEN stage' = "stopped" /\ UNCHANGED <<report, late, behind>>
     ELSE /\ stage' = "start" /\ Reports(TRUE, FALSE)
          /\ behind' = (behind /\ (LiveSlots # {} \/ inbox # <<>>))
  /\ UNCHANGED check
  /\ UNCHANGED <<mine, ok, inbox>> /\ NoPool /\ NoEvents /\ WaiterOnly

\* checkControls: a delay of 20 ms that may take up to 70, and then, if there is
\* an event to be had, a wait of 20 ms for it.  Nobody signals that one.
ControlCreates ==
  /\ In("controls", "start")
  /\ \E tardy \in BOOLEAN :
       IF Events \subseteq inUse
       THEN DoneIn(TRUE, tardy) /\ NoEvents
       ELSE /\ \E e \in Events : NextEvent(e) /\ control' = e /\ inUse' = inUse \cup {e}
            /\ Reports(TRUE, tardy)
            /\ stage' = "wait" /\ UNCHANGED <<check, mine, ok>>
  /\ UNCHANGED <<inbox, behind>> /\ NoPool /\ WaiterOnly

ControlDestroys ==
  /\ In("controls", "wait")
  /\ inUse' = Released(control) /\ control' = NoEvent
  /\ \E tardy \in BOOLEAN : DoneIn(TRUE, tardy)
  /\ UNCHANGED <<inbox, behind>> /\ NoPool /\ WaiterOnly

\* cfuture_create: the pair is added to the handles of the check, or the check
\* goes wrong because the pool is exhausted.
CreateOr(failed, s) ==
  /\ IF FreeSlots = {}
     THEN failed /\ NoPool
     ELSE /\ \E n \in Slots : FirstFree(n) /\ Claim(n) /\ mine' = Append(mine, HandleOn(n))
          /\ Stay(s) /\ UNCHANGED ok
  /\ UNCHANGED <<inbox, behind>> /\ NoEvents /\ WaiterOnly

\* A step with a handle, and with what it shows
Using(operation, fine, s) ==
  /\ operation
  /\ Stay(s) /\ ok' = (ok /\ fine)
  /\ UNCHANGED <<mine, inbox, behind>> /\ NoEvents /\ WaiterOnly

\* The last step of a check, and of one that measures a time
EndingIn(operation, passed, tardy) ==
  /\ operation /\ DoneIn(passed, tardy)
  /\ UNCHANGED <<inbox, behind>> /\ NoEvents /\ WaiterOnly
Ending(operation, passed) == EndingIn(operation, passed, FALSE)

\* checkTimeoutAccuracy
TimeoutCreates == In("timeout", "start") /\ CreateOr(Done(FALSE), "wait")
TimeoutExpires == In("timeout", "wait") /\ Using(GiveUp(mine[1]), TRUE, "late")

\* A wrong check: the promise of the time-out is not dropped.
TimeoutDropsNothing ==
  In("timeout", "late") /\ \E tardy \in BOOLEAN : EndingIn(NoPool, TRUE, tardy)

\* No earlier than asked for, and up to 50 ms later
TimeoutDrops ==
  /\ In("timeout", "late")
  /\ \E tardy \in BOOLEAN : EndingIn(Resolve(mine[1], "dropped"), TRUE, tardy)

\* checkDelivery; a target without an interrupt to raise skips the third.
DeliveryCreates ==
  /\ Delivering("start")
  /\ IF Battery[check] = "isr" /\ port # "places"
     THEN Ending(NoPool, TRUE)
     ELSE CreateOr(Done(FALSE), "send")

\* cfuture_cancel takes back both sides.
Cancel(h) == st[h.slot] = "pending" /\ Abandon(h)

DeliverySends ==
  /\ Delivering("send")
  /\ IF Len(inbox) < TestDepth
     THEN /\ inbox' = Append(inbox, [promise |-> mine[1], mode |-> Battery[check]])
          /\ Stay("wait") /\ UNCHANGED <<mine, ok>> /\ NoPool
     ELSE Cancel(mine[1]) /\ Done(FALSE) /\ UNCHANGED inbox
  /\ UNCHANGED behind /\ NoEvents /\ WaiterOnly

\* The value, and how long ago it was resolved (wakeLatency, up to 20 ms): a
\* latency taken from another answer's time shows nothing and is too long.  The
\* answer to a request comes after its delay, which began after the start.
DeliveryArrives ==
  /\ Delivering("wait")
  /\ \E tardy \in BOOLEAN :
       EndingIn(TakeAnswer(mine[1]),
                /\ ans[mine[1].slot] = Battery[check]
                /\ stamped = [promise |-> mine[1], mode |-> Battery[check]], tardy)

DeliveryExpires ==
  /\ Delivering("wait") /\ Battery[check] # "forever"
  /\ GiveUp(mine[1]) /\ Done(FALSE) /\ behind' = TRUE
  /\ UNCHANGED inbox /\ NoEvents /\ WaiterOnly

\* checkStaleHandle
StaleCreates == In("stale", "start") /\ CreateOr(Done(FALSE), "set")
StaleSets == In("stale", "set") /\ Using(Resolve(mine[1], "real"), TRUE, "take")
StaleTakes == In("stale", "take") /\ Using(TakeAnswer(mine[1]), TRUE, "reuse")
StaleReuses == In("stale", "reuse") /\ CreateOr(Done(FALSE), "poison")
StalePoisons ==
  /\ In("stale", "poison")
  /\ Using(Resolve(mine[1], "poison"), mine[2].slot = mine[1].slot /\ ~IsActive(mine[1]), "answer")
StaleAnswers ==
  /\ In("stale", "answer")
  /\ Using(Resolve(mine[2], "real"), IsActive(mine[2]), "read")
StaleReads ==
  /\ In("stale", "read")
  /\ Ending(TakeAnswer(mine[2]), ok /\ ans[mine[2].slot] = "real")

\* checkCancelAndLeaks: one pair is cancelled, then as many as there are slots
\* are made and cancelled.
CancelCreates ==
  /\ In("cancel", "start")
  /\ CreateOr(Stay("claim") /\ ok' = FALSE /\ UNCHANGED mine, "set")
CancelOne ==
  /\ In("cancel", "set")
  /\ Cancel(mine[1]) /\ mine' = <<>>
  /\ Stay("claim") /\ UNCHANGED <<ok, inbox, behind>> /\ NoEvents /\ WaiterOnly

ClaimsOver == Len(mine) = Cardinality(Slots) \/ FreeSlots = {}
CancelClaims == In("cancel", "claim") /\ ~ClaimsOver /\ CreateOr(FALSE, "claim")
CancelClaimed ==
  /\ In("cancel", "claim") /\ ClaimsOver
  /\ IF mine = <<>>
     THEN Ending(NoPool, FALSE)
     ELSE Using(NoPool, Len(mine) = Cardinality(Slots), "release")
CancelReleases ==
  /\ In("cancel", "release")
  /\ Cancel(Head(mine))
  /\ IF Len(mine) = 1
     THEN Done(ok)
     ELSE mine' = Tail(mine) /\ Stay("release") /\ UNCHANGED ok
  /\ UNCHANGED <<inbox, behind>> /\ NoEvents /\ WaiterOnly

WaiterRuns ==
  \/ WaiterTop \/ ControlCreates \/ ControlDestroys
  \/ TimeoutCreates \/ TimeoutExpires \/ TimeoutDrops
  \/ DeliveryCreates \/ DeliverySends \/ DeliveryArrives \/ DeliveryExpires
  \/ StaleCreates \/ StaleSets \/ StaleTakes \/ StaleReuses \/ StalePoisons
  \/ StaleAnswers \/ StaleReads
  \/ CancelCreates \/ CancelOne \/ CancelClaims \/ CancelClaimed \/ CancelReleases

-----------------------------------------------------------------------------
\* The producer

ProducerOnly ==
  UNCHANGED <<port, inUse, control, check, stage, mine, ok, stopping, report, late, behind>>

\* A wrong loop: a stop request is looked at only when there is nothing to do.
ProducerTopBusy ==
  /\ producer = "top"
  /\ producer' = IF "producer" \in stopping /\ inbox = <<>> THEN "stopped" ELSE "receive"
  /\ UNCHANGED <<poolVars, inbox, request, stamped>> /\ ProducerOnly

ProducerTop ==
  /\ producer = "top"
  /\ producer' = IF "producer" \in stopping THEN "stopped" ELSE "receive"
  /\ UNCHANGED <<poolVars, inbox, request, stamped>> /\ ProducerOnly

\* 500 ms of the queue
ProducerReceives ==
  /\ producer = "receive"
  /\ IF inbox = <<>>
     THEN producer' = "top" /\ UNCHANGED <<inbox, request>>
     ELSE request' = Head(inbox) /\ inbox' = Tail(inbox) /\ producer' = "delay"
  /\ UNCHANGED <<poolVars, stamped>> /\ ProducerOnly

\* A wrong producer: a request that came too late is put away unresolved.
ProducerSkipsLate ==
  /\ producer = "delay"
  /\ stamped' = request
  /\ IF IsActive(request.promise) THEN Resolve(request.promise, request.mode) ELSE UNCHANGED poolVars
  /\ producer' = "top" /\ request' = NoHeld
  /\ UNCHANGED inbox /\ ProducerOnly

\* A wrong interrupt: it does not say when it ran.
ProducerStampsTask ==
  /\ producer = "delay"
  /\ stamped' = IF request.mode = "isr" THEN stamped ELSE request
  /\ Resolve(request.promise, request.mode)
  /\ producer' = "top" /\ request' = NoHeld
  /\ UNCHANGED inbox /\ ProducerOnly

\* After its delay: as a task, or in isrFulfil from s_isrContext.  The time is
\* stored before the waiter can wake.
ProducerResolves ==
  /\ producer = "delay"
  /\ stamped' = request
  /\ Resolve(request.promise, request.mode)
  /\ producer' = "top" /\ request' = NoHeld
  /\ UNCHANGED inbox /\ ProducerOnly

ProducerRuns == ProducerTop \/ ProducerReceives \/ ProducerResolves

\* appTaskTraceRequestStop
RequestStop ==
  /\ \E t \in {"waiter", "producer"} \ stopping : stopping' = stopping \cup {t}
  /\ UNCHANGED <<poolVars, port, inUse, control, check, stage, mine, ok, inbox, request,
                 producer, stamped, report, late, behind>>

TestNext == WaiterRuns \/ ProducerRuns \/ RequestStop

TestSpec == TestInit /\ [][TestNext]_allTestVars

-----------------------------------------------------------------------------
(* A FAIL has one of two reasons.  The waiter itself got the CPU later than*)
(* the check allows for (50 ms of a wait, 20 ms after an answer): "gross   *)
(* scheduler starvation".  Or a delivery ran out of time, and what it left *)
(* behind, its request in the queue and its slot, is not gone yet.  A sound*)
(* library fails no check otherwise: no value is another request's, no     *)
(* latency is measured from another answer's time, and "every slot must be *)
(* claimable again: nothing leaked by any check above" (checkCancelAndLeaks).*)
(* That holds as well when the bits for events have run out, which a target*)
(* that never takes them back comes to.                                    *)
FailuresAreLate == report = "FAIL" => late \/ behind

(* An event that is destroyed can be created again where events are places:*)
(* the battery never runs out of them, however many rounds it goes through,*)
(* and uses no more of them at once than the one of its control.           *)
EventsReturn == port = "places" => inUse = {control} \ {NoEvent}

(* The waiter waits for ever for an answer and the one task that could give*)
(* it has stopped: a stop request to the waiter stays unanswered, however  *)
(* "already bounded" (app_task_trace.h) the waits of the other tasks are.  *)
Hung ==
  /\ In("forever", "wait") /\ producer = "stopped"
  /\ st[mine[1].slot] = "pending"

(* A stop request ends its task, except for that.                          *)
TestStops ==
  /\ "producer" \in stopping ~> producer = "stopped"
  /\ "waiter" \in stopping ~> stage = "stopped" \/ Hung

(* Lateness does not last: once the waiter gets the CPU and its answers in *)
(* time and nobody stops, the battery comes to pass for good, whatever was *)
(* given up before.                                                        *)
TestRecovers ==
  /\ [](stopping = {})
  /\ <>[](~late)
  /\ <>[][~DeliveryExpires]_allTestVars
  => <>[](report = "PASS")

=============================================================================
