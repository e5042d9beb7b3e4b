----------------------------- MODULE PosixQueue -----------------------------
(***************************************************************************)
(* osal_queue_send and osal_queue_receive of the host (osal.c): a ring     *)
(* buffer, a mutex, and one condition variable for each direction that is  *)
(* signalled, never broadcast.  What a call does between getting the mutex *)
(* and giving it back, or waiting, is one step.  A waiting task leaves its *)
(* condition variable by a signal, by the end of its time or for no        *)
(* reason, and then has to get the mutex again.                            *)
(***************************************************************************)
EXTENDS QueueUsers

VARIABLES
  buffer,     \* q->buffer, by place
  head,       \* the place that is read next
  tail,       \* the place that is written next
  count,      \* how many are taken
  at,         \* where each task is in its call
  arg         \* what it sends, or has received, and how long it waits

posixVars == <<buffer, head, tail, count, at, arg>>

RingPlaces == 0 .. Capacity - 1
PosixArgs == [item : Items \cup {Blank}, patience : Patience]

PosixTypeOK ==
  /\ buffer \in [RingPlaces -> Items \cup {Blank}]
  /\ head \in RingPlaces /\ tail \in RingPlaces /\ count \in 0 .. Capacity
  /\ at \in [Tasks -> {"idle", "mutex", "waiting", "woken", "expired", "done", "failed"}]
  /\ arg \in [Tasks -> PosixArgs]

NoArg == [item |-> Blank, patience |-> "poll"]

\* osal_queue_create
PosixInit ==
  /\ buffer = [p \in RingPlaces |-> Blank]
  /\ head = 0 /\ tail = 0 /\ count = 0
  /\ at = [t \in Tasks |-> "idle"]
  /\ arg = [t \in Tasks |-> NoArg]

PosixCall(t) ==
  /\ at[t] = "idle"
  /\ \E a \in PosixArgs :
       /\ a.patience \in Waits[t] /\ a.item \in IF t \in Senders THEN Sends[t] ELSE {Blank}
       /\ arg' = [arg EXCEPT ![t] = a]
  /\ at' = [at EXCEPT ![t] = "mutex"]
  /\ UNCHANGED <<buffer, head, tail, count>>

AtMutex(t) == at[t] \in {"mutex", "woken", "expired"}
Waiters(side) == {u \in side : at[u] = "waiting"}

\* A call ends for t; pthread_cond_signal wakes one that waits on the other side.
EndsAndSignals(t, side) ==
  IF Waiters(side) = {}
  THEN at' = [at EXCEPT ![t] = "done"]
  ELSE \E u \in Waiters(side) : at' = [at EXCEPT ![t] = "done", ![u] = "woken"]

\* A wrong send: nobody is told.
PosixSendUntold(t) ==
  /\ t \in Senders /\ AtMutex(t) /\ count < Capacity
  /\ buffer' = [buffer EXCEPT ![tail] = arg[t].item]
  /\ tail' = (tail + 1) % Capacity
  /\ count' = count + 1
  /\ at' = [at EXCEPT ![t] = "done"]
  /\ arg' = [arg EXCEPT ![t] = NoArg]
  /\ UNCHANGED head

\* A wrong send: one item too many.
PosixSendOneMore(t) ==
  /\ t \in Senders /\ AtMutex(t) /\ count <= Capacity
  /\ buffer' = [buffer EXCEPT ![tail] = arg[t].item]
  /\ tail' = (tail + 1) % Capacity
  /\ count' = count + 1
  /\ EndsAndSignals(t, Receivers)
  /\ arg' = [arg EXCEPT ![t] = NoArg]
  /\ UNCHANGED head

\* osal_queue_send with the mutex, and space, which is looked for once more
\* when the time is over
PosixSend(t) ==
  /\ t \in Senders /\ AtMutex(t) /\ count < Capacity
  /\ buffer' = [buffer EXCEPT ![tail] = arg[t].item]
  /\ tail' = (tail + 1) % Capacity
  /\ count' = count + 1
  /\ EndsAndSignals(t, Receivers)
  /\ arg' = [arg EXCEPT ![t] = NoArg]
  /\ UNCHANGED head

\* osal_queue_receive with the mutex, and an item
PosixReceive(t) ==
  /\ t \in Receivers /\ AtMutex(t) /\ count > 0
  /\ arg' = [arg EXCEPT ![t] = [NoArg EXCEPT !.item = buffer[head]]]
  /\ head' = (head + 1) % Capacity
  /\ count' = count - 1
  /\ EndsAndSignals(t, Senders)
  /\ UNCHANGED <<buffer, tail>>

\* A wrong time-out: what came in the meantime is not looked for.
StuckOrExpired(t) == at[t] = "expired" \/ IF t \in Senders THEN count = Capacity ELSE count = 0

\* The loop condition of either wait
Stuck(t) == IF t \in Senders THEN count = Capacity ELSE count = 0

PosixWait(t) ==
  /\ at[t] \in {"mutex", "woken"} /\ Stuck(t) /\ arg[t].patience # "poll"
  /\ at' = [at EXCEPT ![t] = "waiting"]
  /\ UNCHANGED <<buffer, head, tail, count, arg>>

PosixFail(t) ==
  /\ Stuck(t)
  /\ at[t] = "expired" \/ (at[t] = "mutex" /\ arg[t].patience = "poll")
  /\ at' = [at EXCEPT ![t] = "failed"]
  /\ arg' = [arg EXCEPT ![t] = NoArg]
  /\ UNCHANGED <<buffer, head, tail, count>>

\* The wait ends without a signal: its time is over, or spuriously.
PosixUnsignalled(t) ==
  /\ at[t] = "waiting"
  /\ \/ arg[t].patience = "timed" /\ at' = [at EXCEPT ![t] = "expired"]
     \/ at' = [at EXCEPT ![t] = "woken"]
  /\ UNCHANGED <<buffer, head, tail, count, arg>>

PosixReturn(t) ==
  /\ at[t] \in {"done", "failed"}
  /\ at' = [at EXCEPT ![t] = "idle"]
  /\ arg' = [arg EXCEPT ![t] = NoArg]
  /\ UNCHANGED <<buffer, head, tail, count>>

PosixRuns(t) == PosixSend(t) \/ PosixReceive(t) \/ PosixWait(t) \/ PosixFail(t) \/ PosixReturn(t)

PosixNext == \E t \in Tasks : PosixCall(t) \/ PosixRuns(t) \/ PosixUnsignalled(t)

PosixSpec == PosixInit /\ [][PosixNext]_posixVars

-----------------------------------------------------------------------------
\* Woken, and not back at the loop condition yet
OnTheWay(side) == {u \in side : at[u] \in {"woken", "expired"}}

(* A condition variable is signalled once for each item, and for each place*)
(* that falls free, and a task that was woken may find it taken: still, as *)
(* long as a task waits there are as many on their way to the mutex as     *)
(* there are items (or places) for them, so that none sleeps for ever.     *)
NoWakeUpLost ==
  /\ Waiters(Receivers) # {} => count <= Cardinality(OnTheWay(Receivers))
  /\ Waiters(Senders) # {} => Capacity - count <= Cardinality(OnTheWay(Senders))

(* The host's queue is the queue of osal.h.                                *)
PosixCallOf(t) ==
  CASE at[t] = "idle" -> [phase |-> "none"]
    [] at[t] = "failed" -> [phase |-> "failed"]
    [] at[t] = "done" -> IF t \in Senders THEN [phase |-> "sent"]
                         ELSE [phase |-> "received", item |-> arg[t].item]
    [] OTHER -> IF t \in Senders
                THEN [phase |-> "sending", item |-> arg[t].item, patience |-> arg[t].patience,
                      met |-> FALSE]
                ELSE [phase |-> "receiving", patience |-> arg[t].patience]

PosixContent == [i \in 1 .. count |-> buffer[(head + i - 1) % Capacity]]

PosixAbstract == INSTANCE BoundedQueue WITH
  content <- PosixContent,
  call <- [t \in Tasks |-> PosixCallOf(t)]

PosixImplements == PosixAbstract!Spec

=============================================================================
