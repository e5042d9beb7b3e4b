------------------------- MODULE PosixQueue_proofs -------------------------
(***************************************************************************)
(* For any tasks, items and capacity: no wake-up of the host's queue is    *)
(* lost, the ring buffer holds what was sent and not received yet, and the *)
(* queue implements BoundedQueue.                                          *)
(***************************************************************************)
EXTENDS PosixQueue, FiniteSetTheorems, SequenceTheorems, TLAPS

CallStates == {"idle", "mutex", "waiting", "woken", "expired", "done", "failed"}
InCall(t) == at[t] \in {"mutex", "waiting", "woken", "expired"}

\* The items of the ring are items, and the tail is where the next one goes.
RingSound ==
  /\ tail = (head + count) % Capacity
  /\ \A i \in 1 .. count : buffer[(head + i - 1) % Capacity] \in Items

(* A task in a call has what it called with, what was received is an item, *)
(* and only a call with a time-out ever expires.                           *)
CallsKept ==
  \A t \in Tasks :
    /\ InCall(t) => arg[t].patience \in Waits[t]
    /\ InCall(t) /\ t \in Senders => arg[t].item \in Sends[t]
    /\ at[t] = "expired" => arg[t].patience = "timed"
    /\ at[t] = "done" /\ t \in Receivers => arg[t].item \in Items

PosixInv == PosixTypeOK /\ NoWakeUpLost /\ RingSound /\ CallsKept

-----------------------------------------------------------------------------
(* Lemmas about the ring.                                                  *)
\* An offset from the head is a place of the ring.
LEMMA RingPlace ==
  ASSUME NEW h \in RingPlaces, NEW k \in 0 .. Capacity
  PROVE  /\ (h + k) % Capacity = IF h + k < Capacity THEN h + k ELSE h + k - Capacity
         /\ (h + k) % Capacity \in RingPlaces
<1> USE QueueAssumption DEF RingPlaces
<1>1. CASE h + k < Capacity
  BY <1>1
<1>2. CASE h + k >= Capacity
  BY <1>2
<1> QED
  BY <1>1, <1>2

\* The next place is one further, from the head and from the tail.
\* Counting from the head, one item less: the arithmetic of a receive.
LEMMA IndexShift ==
  ASSUME NEW n \in 1 .. Capacity, NEW i \in 1 .. n - 1, NEW g \in RingPlaces, NEW h \in RingPlaces
  PROVE  /\ i - 1 \in 0 .. Capacity - 1 /\ g + i - 1 = g + (i - 1)
         /\ h + ((i - 1) + 1) = h + (i + 1) - 1 /\ i + 1 \in 1 .. n
<1> USE QueueAssumption
<1>1. n \in Nat /\ i \in Nat /\ g \in Nat /\ h \in Nat /\ n <= Capacity /\ i >= 1 /\ i <= n - 1
  BY DEF RingPlaces
<1> QED
  BY <1>1

LEMMA RingNext ==
  ASSUME NEW h \in RingPlaces, NEW k \in 0 .. Capacity - 1
  PROVE  /\ (((h + 1) % Capacity) + k) % Capacity = (h + (k + 1)) % Capacity
         /\ (((h + k) % Capacity) + 1) % Capacity = (h + (k + 1)) % Capacity
<1> USE QueueAssumption
<1>0. 1 \in 0 .. Capacity /\ k \in 0 .. Capacity /\ k + 1 \in 0 .. Capacity
  OBVIOUS
<1>1. /\ (h + 1) % Capacity = IF h + 1 < Capacity THEN h + 1 ELSE h + 1 - Capacity
      /\ (h + 1) % Capacity \in RingPlaces
  BY <1>0, RingPlace
<1>2. /\ (h + k) % Capacity = IF h + k < Capacity THEN h + k ELSE h + k - Capacity
      /\ (h + k) % Capacity \in RingPlaces
  BY <1>0, RingPlace
<1>3. (h + (k + 1)) % Capacity = IF h + (k + 1) < Capacity THEN h + (k + 1) ELSE h + (k + 1) - Capacity
  BY <1>0, RingPlace
<1>4. \A g \in RingPlaces, j \in 0 .. Capacity :
        (g + j) % Capacity = IF g + j < Capacity THEN g + j ELSE g + j - Capacity
  BY RingPlace
<1>5. (((h + 1) % Capacity) + k) % Capacity
        = IF ((h + 1) % Capacity) + k < Capacity THEN ((h + 1) % Capacity) + k
          ELSE ((h + 1) % Capacity) + k - Capacity
  BY <1>0, <1>1, <1>4
<1>6. (((h + k) % Capacity) + 1) % Capacity
        = IF ((h + k) % Capacity) + 1 < Capacity THEN ((h + k) % Capacity) + 1
          ELSE ((h + k) % Capacity) + 1 - Capacity
  BY <1>0, <1>2, <1>4
<1>7. h \in Nat /\ h < Capacity /\ k \in Nat /\ k < Capacity
  BY DEF RingPlaces
<1>8. (((h + 1) % Capacity) + k) % Capacity = (h + (k + 1)) % Capacity
  BY <1>1, <1>3, <1>5, <1>7
<1>9. (((h + k) % Capacity) + 1) % Capacity = (h + (k + 1)) % Capacity
  BY <1>2, <1>3, <1>6, <1>7
<1> QED
  BY <1>8, <1>9

\* Different offsets are different places.
LEMMA RingApart ==
  ASSUME NEW h \in RingPlaces, NEW k \in 0 .. Capacity - 1, NEW j \in 0 .. Capacity - 1, j # k
  PROVE  (h + k) % Capacity # (h + j) % Capacity
<1>1. /\ (h + k) % Capacity = IF h + k < Capacity THEN h + k ELSE h + k - Capacity
      /\ (h + j) % Capacity = IF h + j < Capacity THEN h + j ELSE h + j - Capacity
  BY RingPlace, QueueAssumption
<1> QED
  BY <1>1, QueueAssumption DEF RingPlaces

-----------------------------------------------------------------------------
(* What a step does to the tasks.                                          *)

\* A call that ends wakes at most one task, of the other side.
LEMMA SignalEffect ==
  ASSUME PosixTypeOK, NEW t \in Tasks, NEW side \in SUBSET Tasks, AtMutex(t),
         EndsAndSignals(t, side)
  PROVE  /\ at' \in [Tasks -> CallStates] /\ at'[t] = "done"
         /\ \/ Waiters(side) = {} /\ \A v \in Tasks : v # t => at'[v] = at[v]
            \/ \E u \in Waiters(side) :
                 /\ u # t /\ at'[u] = "woken"
                 /\ \A v \in Tasks : v \notin {t, u} => at'[v] = at[v]
<1>1. at \in [Tasks -> CallStates]
  BY DEF PosixTypeOK, CallStates
<1>2. CASE Waiters(side) = {}
  BY <1>1, <1>2 DEF EndsAndSignals, CallStates
<1>3. CASE Waiters(side) # {}
  <2>1. PICK u \in Waiters(side) : at' = [at EXCEPT ![t] = "done", ![u] = "woken"]
    BY <1>3 DEF EndsAndSignals
  <2>2. u \in Tasks /\ at[u] = "waiting" /\ u # t
    BY <2>1 DEF Waiters, AtMutex
  <2> QED
    BY <1>1, <2>1, <2>2 DEF CallStates
<1> QED
  BY <1>2, <1>3

\* The sets of tasks are finite.
LEMMA FiniteSides ==
  \A side \in SUBSET Tasks : /\ IsFiniteSet(OnTheWay(side)) /\ IsFiniteSet(Waiters(side))
                             /\ Cardinality(OnTheWay(side)) \in Nat
BY QueueAssumption, FS_Subset, FS_CardinalityType DEF OnTheWay, Waiters

\* The primed states are sets of tasks too.
LEMMA FiniteSidesAfter ==
  \A side \in SUBSET Tasks : /\ IsFiniteSet(OnTheWay(side)') /\ IsFiniteSet(Waiters(side)')
                             /\ Cardinality(OnTheWay(side)') \in Nat
BY QueueAssumption, FS_Subset, FS_CardinalityType DEF OnTheWay, Waiters

(* How many of a side are on their way, after a step that changed nobody   *)
(* but t and perhaps woke one that waited.                                 *)
LEMMA OneLeaves ==
  ASSUME NEW side \in SUBSET Tasks, NEW t, OnTheWay(side) \ {t} \subseteq OnTheWay(side)'
  PROVE  Cardinality(OnTheWay(side)) - 1 <= Cardinality(OnTheWay(side)')
<1> DEFINE W == OnTheWay(side)
           V == OnTheWay(side)'
<1>1. IsFiniteSet(W) /\ IsFiniteSet(V) /\ Cardinality(W) \in Nat /\ Cardinality(V) \in Nat
  BY FiniteSides, FiniteSidesAfter
<1> HIDE DEF W, V
<1>2. Cardinality(W \ {t}) = IF t \in W THEN Cardinality(W) - 1 ELSE Cardinality(W)
  BY <1>1, FS_RemoveElement
<1>3. Cardinality(W \ {t}) <= Cardinality(V)
  BY <1>1, FS_Subset DEF W, V
<1> QED
  BY <1>1, <1>2, <1>3 DEF W, V

\* Nobody leaves the way.
LEMMA NoneLeaves ==
  ASSUME NEW side \in SUBSET Tasks, OnTheWay(side) \subseteq OnTheWay(side)'
  PROVE  Cardinality(OnTheWay(side)) <= Cardinality(OnTheWay(side)')
BY FiniteSidesAfter, FS_Subset

\* Somebody comes.
LEMMA OneMore ==
  ASSUME NEW side \in SUBSET Tasks, NEW u, u \notin OnTheWay(side),
         OnTheWay(side) \cup {u} \subseteq OnTheWay(side)'
  PROVE  Cardinality(OnTheWay(side)) + 1 <= Cardinality(OnTheWay(side)')
<1> DEFINE W == OnTheWay(side)
           V == OnTheWay(side)'
<1>1. IsFiniteSet(W) /\ IsFiniteSet(V)
  BY FiniteSides, FiniteSidesAfter
<1> HIDE DEF W, V
<1>2. Cardinality(W \cup {u}) = Cardinality(W) + 1
  BY <1>1, FS_AddElement DEF W
<1>3. Cardinality(W \cup {u}) <= Cardinality(V)
  BY <1>1, FS_Subset DEF W, V
<1> QED
  BY <1>2, <1>3 DEF W, V

(* Of the side that a call ended on: an item more (or a place more) has    *)
(* somebody more on the way to it, if anybody waits still.                 *)
LEMMA SignalCovers ==
  ASSUME PosixTypeOK, NEW t \in Tasks, NEW side \in SUBSET Tasks, t \notin side, AtMutex(t),
         EndsAndSignals(t, side), Waiters(side)' # {}
  PROVE  /\ Waiters(side) # {}
         /\ Cardinality(OnTheWay(side)) + 1 <= Cardinality(OnTheWay(side)')
<1>1. PICK u \in Waiters(side) :
        /\ u # t /\ at'[u] = "woken" /\ \A v \in Tasks : v \notin {t, u} => at'[v] = at[v]
  BY SignalEffect DEF Waiters
<1>2. u \notin OnTheWay(side) /\ OnTheWay(side) \cup {u} \subseteq OnTheWay(side)'
  BY <1>1 DEF OnTheWay, Waiters
<1> QED
  BY <1>1, <1>2, OneMore

\* Of the caller's own side nobody but the caller goes.
LEMMA SignalKeeps ==
  ASSUME PosixTypeOK, NEW t \in Tasks, NEW side \in SUBSET Tasks, AtMutex(t),
         NEW own \in SUBSET Tasks, own \cap side = {}, EndsAndSignals(t, side),
         Waiters(own)' # {}
  PROVE  /\ Waiters(own) # {}
         /\ Cardinality(OnTheWay(own)) - 1 <= Cardinality(OnTheWay(own)')
<1>1. \A v \in own : v # t => at'[v] = at[v]
  BY SignalEffect DEF Waiters
<1>2. at'[t] = "done"
  BY SignalEffect
<1>3. Waiters(own) # {}
  BY <1>1, <1>2 DEF Waiters
<1>4. OnTheWay(own) \ {t} \subseteq OnTheWay(own)'
  BY <1>1 DEF OnTheWay
<1> QED
  BY <1>3, <1>4, OneLeaves

-----------------------------------------------------------------------------
(* PosixInv is an invariant.                                               *)
\* It holds of a new queue.
LEMMA PosixInitInvariant == PosixInit => PosixInv
<1> SUFFICES ASSUME PosixInit PROVE PosixInv
  OBVIOUS
<1> USE QueueAssumption DEF PosixInit
<1>1. PosixTypeOK
  <2>1. 0 \in RingPlaces /\ NoArg \in PosixArgs
    BY DEF RingPlaces, PosixArgs, NoArg, Patience
  <2> QED
    BY <2>1 DEF PosixTypeOK
<1>2. NoWakeUpLost
  BY DEF NoWakeUpLost, Waiters, Tasks
<1>3. RingSound
  <2>1. (0 + 0) % Capacity = 0
    OBVIOUS
  <2> QED
    BY <2>1 DEF RingSound
<1>4. CallsKept
  BY DEF CallsKept, InCall
<1> QED
  BY <1>1, <1>2, <1>3, <1>4 DEF PosixInv

\* osal_queue_send keeps it.
LEMMA SendKeeps ==
  ASSUME PosixInv, NEW t \in Tasks, PosixSend(t)
  PROVE  PosixInv'
<1> USE QueueAssumption DEF PosixInv
<1>1. /\ t \in Senders /\ t \notin Receivers /\ InCall(t) /\ count < Capacity
      /\ arg[t].item \in Items
  BY DEF PosixSend, CallsKept, AtMutex, InCall, Tasks
<1>2. /\ at' \in [Tasks -> CallStates] /\ at'[t] = "done"
      /\ \A v \in Tasks : v # t => at'[v] = at[v] \/ (at[v] = "waiting" /\ at'[v] = "woken")
  <2>1. Receivers \in SUBSET Tasks /\ AtMutex(t) /\ EndsAndSignals(t, Receivers) /\ PosixTypeOK
    BY DEF PosixSend, Tasks
  <2> QED
    BY <2>1, SignalEffect DEF Waiters
<1>3. /\ buffer' = [buffer EXCEPT ![tail] = arg[t].item] /\ tail' = (tail + 1) % Capacity
      /\ count' = count + 1 /\ arg' = [arg EXCEPT ![t] = NoArg] /\ head' = head
  BY DEF PosixSend
<1>4. PosixTypeOK'
  <2>1. tail' \in RingPlaces /\ count' \in 0 .. Capacity
    BY <1>1, <1>3 DEF PosixTypeOK, RingPlaces
  <2>2. NoArg \in PosixArgs /\ arg[t].item \in Items \cup {Blank}
    BY <1>1 DEF PosixArgs, NoArg, Patience
  <2> QED
    BY <1>2, <1>3, <2>1, <2>2 DEF PosixTypeOK, CallStates
<1>5. NoWakeUpLost'
  <2>1. ASSUME Waiters(Receivers)' # {}
        PROVE  count' <= Cardinality(OnTheWay(Receivers)')
    <3>1. /\ Waiters(Receivers) # {}
          /\ Cardinality(OnTheWay(Receivers)) + 1 <= Cardinality(OnTheWay(Receivers)')
      BY <1>1, <2>1, SignalCovers DEF PosixSend, Tasks
    <3> QED
      BY <1>3, <3>1, FiniteSides, FiniteSidesAfter DEF NoWakeUpLost, PosixTypeOK, Tasks
  <2>2. ASSUME Waiters(Senders)' # {}
        PROVE  Capacity - count' <= Cardinality(OnTheWay(Senders)')
    <3>1. /\ Waiters(Senders) # {}
          /\ Cardinality(OnTheWay(Senders)) - 1 <= Cardinality(OnTheWay(Senders)')
      BY <1>1, <2>2, SignalKeeps DEF PosixSend, Tasks
    <3> QED
      BY <1>3, <3>1, FiniteSides, FiniteSidesAfter DEF NoWakeUpLost, PosixTypeOK, Tasks
  <2> QED
    BY <2>1, <2>2 DEF NoWakeUpLost
<1>6. RingSound'
  <2>1. /\ head \in RingPlaces /\ count \in 0 .. Capacity - 1
        /\ tail = (head + count) % Capacity /\ buffer \in [RingPlaces -> Items \cup {Blank}]
    BY <1>1 DEF PosixTypeOK, RingSound
  <2>2. tail' = (head + (count + 1)) % Capacity
    BY <1>3, <2>1, RingNext
  <2>3. ASSUME NEW i \in 1 .. count + 1
        PROVE  buffer'[(head + i - 1) % Capacity] \in Items
    <3>1. i - 1 \in 0 .. Capacity - 1 /\ head + i - 1 = head + (i - 1)
      BY <2>1 DEF RingPlaces
    <3>2. CASE i = count + 1
      BY <1>1, <1>3, <2>1, <3>1, <3>2, RingPlace
    <3>3. CASE i # count + 1
      <4>1. (head + (i - 1)) % Capacity # tail
        BY <2>1, <3>1, <3>3, RingApart
      <4> QED
        BY <1>3, <2>1, <3>1, <3>3, <4>1, RingPlace DEF RingSound
    <3> QED
      BY <3>2, <3>3
  <2>4. 1 .. count' = 1 .. count + 1 /\ tail' = (head' + count') % Capacity
    BY <1>3, <2>1, <2>2
  <2> QED
    BY <1>3, <2>3, <2>4 DEF RingSound
<1>7. CallsKept'
  BY <1>1, <1>2, <1>3 DEF CallsKept, InCall, PosixTypeOK
<1> QED
  BY <1>4, <1>5, <1>6, <1>7

\* osal_queue_receive keeps it.
LEMMA ReceiveKeeps ==
  ASSUME PosixInv, NEW t \in Tasks, PosixReceive(t)
  PROVE  PosixInv'
<1> USE QueueAssumption DEF PosixInv
<1>1. t \in Receivers /\ t \notin Senders /\ InCall(t) /\ count > 0
  BY DEF PosixReceive, AtMutex, InCall
<1>2. /\ at' \in [Tasks -> CallStates] /\ at'[t] = "done"
      /\ \A v \in Tasks : v # t => at'[v] = at[v] \/ (at[v] = "waiting" /\ at'[v] = "woken")
  <2>1. Senders \in SUBSET Tasks /\ AtMutex(t) /\ EndsAndSignals(t, Senders) /\ PosixTypeOK
    BY DEF PosixReceive, Tasks
  <2> QED
    BY <2>1, SignalEffect DEF Waiters
<1>3. /\ arg' = [arg EXCEPT ![t] = [NoArg EXCEPT !.item = buffer[head]]]
      /\ head' = (head + 1) % Capacity /\ count' = count - 1
      /\ buffer' = buffer /\ tail' = tail
  BY DEF PosixReceive
<1>4. /\ head \in RingPlaces /\ count \in 1 .. Capacity
      /\ tail = (head + count) % Capacity /\ buffer \in [RingPlaces -> Items \cup {Blank}]
      /\ \A i \in 1 .. count : buffer[(head + i - 1) % Capacity] \in Items
  BY <1>1 DEF PosixTypeOK, RingSound
<1>5. buffer[head] \in Items
  <2>1. (head + 1 - 1) % Capacity = head
    BY <1>4 DEF RingPlaces
  <2> QED
    BY <1>4, <2>1
<1>6. PosixTypeOK'
  <2>1. head' \in RingPlaces /\ count' \in 0 .. Capacity
    BY <1>3, <1>4 DEF RingPlaces
  <2>2. [NoArg EXCEPT !.item = buffer[head]] \in PosixArgs
    BY <1>5 DEF PosixArgs, NoArg, Patience
  <2> QED
    BY <1>2, <1>3, <2>1, <2>2 DEF PosixTypeOK, CallStates
<1>7. NoWakeUpLost'
  <2>1. ASSUME Waiters(Receivers)' # {}
        PROVE  count' <= Cardinality(OnTheWay(Receivers)')
    <3>1. /\ Waiters(Receivers) # {}
          /\ Cardinality(OnTheWay(Receivers)) - 1 <= Cardinality(OnTheWay(Receivers)')
      BY <1>1, <2>1, SignalKeeps DEF PosixReceive, Tasks
    <3> QED
      BY <1>3, <3>1, FiniteSides, FiniteSidesAfter DEF NoWakeUpLost, PosixTypeOK, Tasks
  <2>2. ASSUME Waiters(Senders)' # {}
        PROVE  Capacity - count' <= Cardinality(OnTheWay(Senders)')
    <3>1. /\ Waiters(Senders) # {}
          /\ Cardinality(OnTheWay(Senders)) + 1 <= Cardinality(OnTheWay(Senders)')
      BY <1>1, <2>2, SignalCovers DEF PosixReceive, Tasks
    <3> QED
      BY <1>3, <3>1, FiniteSides, FiniteSidesAfter DEF NoWakeUpLost, PosixTypeOK, Tasks
  <2> QED
    BY <2>1, <2>2 DEF NoWakeUpLost
<1>8. RingSound'
  <2>1. tail' = (head' + count') % Capacity
    BY <1>3, <1>4, RingNext
  <2>2. ASSUME NEW i \in 1 .. count - 1
        PROVE  buffer[(head' + i - 1) % Capacity] \in Items
    <3>1. /\ i - 1 \in 0 .. Capacity - 1 /\ head' + i - 1 = head' + (i - 1)
          /\ head + ((i - 1) + 1) = head + (i + 1) - 1 /\ i + 1 \in 1 .. count
      <4>1. head' \in RingPlaces
        BY <1>6 DEF PosixTypeOK, RingPlaces
      <4> QED
        BY ONLY <1>4, <2>2, <4>1, IndexShift
    <3>2. (head' + (i - 1)) % Capacity = (head + ((i - 1) + 1)) % Capacity
      BY <1>3, <1>4, <3>1, RingNext
    <3> QED
      BY <1>4, <3>1, <3>2
  <2> QED
    BY <1>3, <2>1, <2>2 DEF RingSound
<1>9. CallsKept'
  BY <1>1, <1>2, <1>3, <1>5 DEF CallsKept, InCall, PosixTypeOK
<1> QED
  BY <1>6, <1>7, <1>8, <1>9

\* The steps that leave the ring alone.
LEMMA QuietKeeps ==
  ASSUME PosixInv, NEW t \in Tasks,
         PosixCall(t) \/ PosixWait(t) \/ PosixFail(t) \/ PosixUnsignalled(t) \/ PosixReturn(t)
  PROVE  PosixInv'
<1> USE QueueAssumption DEF PosixInv
<1>1. /\ UNCHANGED <<buffer, head, tail, count>>
      /\ \A v \in Tasks : v # t => at'[v] = at[v] /\ arg'[v] = arg[v]
  BY DEF PosixCall, PosixWait, PosixFail, PosixUnsignalled, PosixReturn, PosixTypeOK
<1>2. PosixTypeOK'
  BY DEF PosixCall, PosixWait, PosixFail, PosixUnsignalled, PosixReturn, PosixTypeOK, PosixArgs,
         NoArg, Patience
<1>3. RingSound'
  BY <1>1 DEF RingSound
<1>4. CallsKept'
  BY <1>1 DEF CallsKept, InCall, PosixTypeOK, PosixCall, PosixWait, PosixFail, PosixUnsignalled,
              PosixReturn, Tasks
<1>5. NoWakeUpLost'
  <2>1. CASE PosixCall(t) \/ PosixReturn(t) \/ PosixUnsignalled(t)
    <3>1. ASSUME NEW side \in SUBSET Tasks, Waiters(side)' # {}
          PROVE  /\ Waiters(side) # {}
                 /\ Cardinality(OnTheWay(side)) <= Cardinality(OnTheWay(side)')
      <4>1. Waiters(side) # {} /\ OnTheWay(side) \subseteq OnTheWay(side)'
        BY <1>1, <2>1, <3>1 DEF PosixCall, PosixReturn, PosixUnsignalled, Waiters, OnTheWay,
                                PosixTypeOK
      <4> QED
        BY <4>1, NoneLeaves
    <3>2. Receivers \in SUBSET Tasks /\ Senders \in SUBSET Tasks
      BY DEF Tasks
    <3> QED
      BY <1>1, <3>1, <3>2, FiniteSides, FiniteSidesAfter DEF NoWakeUpLost, PosixTypeOK
  <2>2. CASE PosixWait(t) \/ PosixFail(t)
    <3>1. Stuck(t)
      BY <2>2 DEF PosixWait, PosixFail
    <3>2. ASSUME NEW side \in SUBSET Tasks, t \notin side, Waiters(side)' # {}
          PROVE  /\ Waiters(side) # {}
                 /\ Cardinality(OnTheWay(side)) <= Cardinality(OnTheWay(side)')
      <4>1. Waiters(side) # {} /\ OnTheWay(side) \subseteq OnTheWay(side)'
        BY <1>1, <3>2 DEF Waiters, OnTheWay
      <4> QED
        BY <4>1, NoneLeaves
    <3>3. Receivers \in SUBSET Tasks /\ Senders \in SUBSET Tasks
      BY DEF Tasks
    <3>4. CASE t \in Senders
      BY <1>1, <3>1, <3>2, <3>3, <3>4, FiniteSides, FiniteSidesAfter
      DEF NoWakeUpLost, PosixTypeOK, Stuck
    <3>5. CASE t \in Receivers
      BY <1>1, <3>1, <3>2, <3>3, <3>5, FiniteSides, FiniteSidesAfter
      DEF NoWakeUpLost, PosixTypeOK, Stuck
    <3> QED
      BY <3>4, <3>5 DEF Tasks
  <2> QED
    BY <2>1, <2>2
<1> QED
  BY <1>2, <1>3, <1>4, <1>5

\* Every step keeps it.
LEMMA PosixNextInvariant == PosixInv /\ [PosixNext]_posixVars => PosixInv'
<1> SUFFICES ASSUME PosixInv, [PosixNext]_posixVars PROVE PosixInv'
  OBVIOUS
<1>1. ASSUME NEW t \in Tasks, PosixCall(t) \/ PosixRuns(t) \/ PosixUnsignalled(t)
      PROVE  PosixInv'
  BY <1>1, SendKeeps, ReceiveKeeps, QuietKeeps DEF PosixRuns
<1>2. CASE UNCHANGED posixVars
  BY <1>2 DEF posixVars, PosixInv, PosixTypeOK, NoWakeUpLost, RingSound, CallsKept, InCall,
              Waiters, OnTheWay
<1> QED
  BY <1>1, <1>2 DEF PosixNext

\* So it always holds.
LEMMA PosixInvariant == PosixSpec => []PosixInv
BY PosixInitInvariant, PosixNextInvariant, PTL DEF PosixSpec

\* Head, tail and count stay on the ring, and every call is in a state of its own.
THEOREM PosixTypeCorrect == PosixSpec => []PosixTypeOK
<1>1. PosixInv => PosixTypeOK
  BY DEF PosixInv
<1> QED
  BY <1>1, PosixInvariant, PTL

(* pthread_cond_signal, once for each item and each place, is enough: as   *)
(* long as a task waits, whatever it waits for has somebody on the way.    *)
THEOREM PosixLosesNoWakeUp == PosixSpec => []NoWakeUpLost
<1>1. PosixInv => NoWakeUpLost
  BY DEF PosixInv
<1> QED
  BY <1>1, PosixInvariant, PTL

-----------------------------------------------------------------------------
(* The host's queue implements BoundedQueue.                               *)
QueueStep == [PosixAbstract!Next]_<<PosixContent, [t \in Tasks |-> PosixCallOf(t)]>>

AllCalls == [t \in Tasks |-> PosixCallOf(t)]

\* What a step does to the calls, seen through the mapping.
SameCalls == \A t \in Tasks : PosixCallOf(t)' = PosixCallOf(t)
OnlyCall(t, c) ==
  /\ PosixCallOf(t)' = c
  /\ \A v \in Tasks : v # t => PosixCallOf(v)' = PosixCallOf(v)

\* Changing one call is an EXCEPT on all of them.
LEMMA CallChanges ==
  ASSUME NEW t \in Tasks, NEW c, OnlyCall(t, c)
  PROVE  /\ AllCalls' = [AllCalls EXCEPT ![t] = c]
         /\ AllCalls[t] = PosixCallOf(t)
         /\ t \in PosixAbstract!Users
BY DEF AllCalls, OnlyCall, PosixAbstract!Users, Tasks

\* A task that only moves between places of its wait is in the same call.
LEMMA SameCall ==
  ASSUME NEW v, arg'[v] = arg[v],
         \/ at'[v] = at[v]
         \/ InCall(v) /\ InCall(v)'
  PROVE  PosixCallOf(v)' = PosixCallOf(v)
BY DEF PosixCallOf, InCall

\* What the ring holds is a sequence of items.
ContentShape ==
  /\ PosixContent \in Seq(Items) /\ Len(PosixContent) = count /\ count \in 0 .. Capacity
  /\ \A i \in 1 .. count : PosixContent[i] = buffer[(head + i - 1) % Capacity]

\* The invariant gives the ring's content its shape.
LEMMA ContentType == PosixInv => ContentShape
<1> SUFFICES ASSUME PosixInv PROVE ContentShape
  OBVIOUS
<1>1. count \in 0 .. Capacity /\ \A i \in 1 .. count : buffer[(head + i - 1) % Capacity] \in Items
  BY DEF PosixInv, PosixTypeOK, RingSound
<1> QED
  BY <1>1, QueueAssumption DEF PosixContent, ContentShape

\* BoundedQueue counts as we do.
LEMMA SameCount == \A S : PosixAbstract!Cardinality(S) = Cardinality(S)
BY DEF PosixAbstract!Cardinality, Cardinality

\* osal_queue_send puts its item behind the others ...
LEMMA SendImplements ==
  ASSUME PosixInv, PosixInv', NEW t \in Tasks, PosixSend(t)
  PROVE  QueueStep
<1> DEFINE item == arg[t].item
<1> USE QueueAssumption
<1>1. /\ t \in Senders /\ InCall(t) /\ count \in 0 .. Capacity - 1 /\ item \in Items
      /\ head \in RingPlaces /\ buffer \in [RingPlaces -> Items \cup {Blank}]
      /\ tail = (head + count) % Capacity /\ tail \in RingPlaces
  BY DEF PosixInv, PosixTypeOK, RingSound, CallsKept, PosixSend, AtMutex, InCall
<1>2. /\ buffer' = [buffer EXCEPT ![tail] = item] /\ head' = head /\ count' = count + 1
      /\ arg' = [arg EXCEPT ![t] = NoArg]
  BY DEF PosixSend
<1>3. /\ at' \in [Tasks -> CallStates] /\ at'[t] = "done"
      /\ \A v \in Tasks : v # t => at'[v] = at[v] \/ (at[v] = "waiting" /\ at'[v] = "woken")
  <2>1. Receivers \in SUBSET Tasks /\ AtMutex(t) /\ EndsAndSignals(t, Receivers) /\ PosixTypeOK
    BY DEF PosixSend, Tasks, PosixInv
  <2> QED
    BY <2>1, SignalEffect DEF Waiters
<1>4. PosixContent' = Append(PosixContent, item)
  <2>1. /\ PosixContent \in Seq(Items) /\ Len(PosixContent) = count
        /\ \A i \in 1 .. count : PosixContent[i] = buffer[(head + i - 1) % Capacity]
    BY ContentType DEF ContentShape
  <2>2. /\ PosixContent' \in Seq(Items) /\ Len(PosixContent') = count + 1
        /\ \A i \in 1 .. count + 1 : PosixContent'[i] = buffer'[(head + i - 1) % Capacity]
    <3>1. ContentShape'
      BY ContentType, PTL
    <3> QED
      BY <1>2, <3>1 DEF ContentShape
  <2>3. ASSUME NEW i \in 1 .. count
        PROVE  PosixContent'[i] = PosixContent[i]
    <3>1. i - 1 \in 0 .. Capacity - 1 /\ head + i - 1 = head + (i - 1) /\ i - 1 # count
      BY <1>1 DEF RingPlaces
    <3>2. (head + (i - 1)) % Capacity # tail /\ (head + (i - 1)) % Capacity \in RingPlaces
      <4>1. PICK k \in 0 .. Capacity - 1 : k = i - 1
        BY <3>1
      <4>0. head \in RingPlaces /\ count \in 0 .. Capacity - 1 /\ k # count
        BY <1>1, <3>1, <4>1 DEF RingPlaces
      <4>2. (head + k) % Capacity # (head + count) % Capacity
        BY <4>0, RingApart
      <4>3. k \in 0 .. Capacity
        OBVIOUS
      <4>4. (head + k) % Capacity \in RingPlaces
        BY <1>1, <4>3, RingPlace
      <4> QED
        BY <1>1, <4>1, <4>2, <4>4
    <3>3. buffer'[(head + i - 1) % Capacity] = buffer[(head + i - 1) % Capacity]
      BY <1>1, <1>2, <3>1, <3>2
    <3> QED
      BY <1>1, <2>1, <2>2, <3>3
  <2>4. PosixContent'[count + 1] = item
    <3>1. head + (count + 1) - 1 = head + count /\ count + 1 \in 1 .. count + 1
      BY <1>1 DEF RingPlaces
    <3>2. PosixContent'[count + 1] = buffer'[(head + (count + 1) - 1) % Capacity]
      BY ONLY <2>2, <3>1
    <3>3. PosixContent'[count + 1] = buffer'[tail]
      BY ONLY <1>1, <3>1, <3>2
    <3> QED
      BY ONLY <1>1, <1>2, <3>3
  <2> HIDE DEF item
  <2> QED
    BY <1>1, <2>1, <2>2, <2>3, <2>4
<1>5. OnlyCall(t, [phase |-> "sent"])
  <2>1. PosixCallOf(t)' = [phase |-> "sent"]
    BY <1>1, <1>3 DEF PosixCallOf
  <2>2. \A v \in Tasks : v # t => arg'[v] = arg[v]
    BY <1>2 DEF PosixInv, PosixTypeOK
  <2>3. \A v \in Tasks : v # t => at'[v] = at[v] \/ (InCall(v) /\ InCall(v)')
    BY <1>3 DEF InCall
  <2> QED
    BY <2>1, <2>2, <2>3, SameCall DEF OnlyCall
<1>6. PosixCallOf(t) = [phase |-> "sending", item |-> item, patience |-> arg[t].patience,
                        met |-> FALSE]
  BY <1>1 DEF PosixCallOf, InCall
<1>7. /\ AllCalls' = [AllCalls EXCEPT ![t] = [phase |-> "sent"]]
      /\ AllCalls[t].phase = "sending" /\ AllCalls[t].item = item
      /\ t \in PosixAbstract!Users /\ Len(PosixContent) < Capacity
  BY <1>1, <1>5, <1>6, CallChanges, ContentType DEF ContentShape
<1>8. PosixAbstract!Enqueue(t)
  BY <1>4, <1>7 DEF PosixAbstract!Enqueue, PosixAbstract!Becomes, AllCalls
<1> QED
  BY <1>7, <1>8 DEF QueueStep, PosixAbstract!Next

\* ... and osal_queue_receive takes the first.
LEMMA ReceiveImplements ==
  ASSUME PosixInv, PosixInv', NEW t \in Tasks, PosixReceive(t)
  PROVE  QueueStep
<1> DEFINE item == buffer[head]
<1> USE QueueAssumption
<1>1. /\ t \in Receivers /\ t \notin Senders /\ InCall(t) /\ count \in 1 .. Capacity
      /\ head \in RingPlaces /\ arg \in [Tasks -> PosixArgs]
  BY DEF PosixInv, PosixTypeOK, PosixReceive, AtMutex, InCall
<1>2. /\ buffer' = buffer /\ head' = (head + 1) % Capacity /\ count' = count - 1
      /\ arg' = [arg EXCEPT ![t] = [NoArg EXCEPT !.item = item]]
  BY DEF PosixReceive
<1>3. /\ at' \in [Tasks -> CallStates] /\ at'[t] = "done"
      /\ \A v \in Tasks : v # t => at'[v] = at[v] \/ (at[v] = "waiting" /\ at'[v] = "woken")
  <2>1. Senders \in SUBSET Tasks /\ AtMutex(t) /\ EndsAndSignals(t, Senders) /\ PosixTypeOK
    BY DEF PosixReceive, Tasks, PosixInv
  <2> QED
    BY <2>1, SignalEffect DEF Waiters
<1>4. /\ PosixContent \in Seq(Items) /\ Len(PosixContent) = count
      /\ \A i \in 1 .. count : PosixContent[i] = buffer[(head + i - 1) % Capacity]
  BY ContentType DEF ContentShape
<1>5. PosixContent # <<>> /\ Head(PosixContent) = item
  <2>1. (head + 1 - 1) % Capacity = head
    BY <1>1 DEF RingPlaces
  <2>2. 1 \in 1 .. count
    BY <1>1
  <2>3. PosixContent[1] = item
    BY <1>4, <2>1, <2>2
  <2> HIDE DEF item
  <2> QED
    BY <1>1, <1>4, <2>3
<1>6. PosixContent' = Tail(PosixContent)
  <2>1. /\ PosixContent' \in Seq(Items) /\ Len(PosixContent') = count - 1
        /\ \A i \in 1 .. count - 1 : PosixContent'[i] = buffer[(head' + i - 1) % Capacity]
    <3>1. ContentShape'
      BY ContentType, PTL
    <3> QED
      BY <1>2, <3>1 DEF ContentShape
  <2>2. ASSUME NEW i \in 1 .. count - 1
        PROVE  PosixContent'[i] = PosixContent[i + 1]
    <3>1. /\ i - 1 \in 0 .. Capacity - 1 /\ head' + i - 1 = head' + (i - 1)
          /\ head + ((i - 1) + 1) = head + (i + 1) - 1 /\ i + 1 \in 1 .. count
      BY <1>1, <1>2 DEF RingPlaces
    <3>2. (head' + (i - 1)) % Capacity = (head + ((i - 1) + 1)) % Capacity
      BY <1>1, <1>2, <3>1, RingNext
    <3> QED
      BY <1>4, <2>1, <3>1, <3>2
  <2>3. /\ Tail(PosixContent) \in Seq(Items) /\ Len(Tail(PosixContent)) = count - 1
        /\ \A i \in 1 .. count - 1 : Tail(PosixContent)[i] = PosixContent[i + 1]
    BY <1>1, <1>4, <1>5
  <2> QED
    BY <1>1, <2>1, <2>2, <2>3
<1>7. OnlyCall(t, [phase |-> "received", item |-> item])
  <2>1. PosixCallOf(t)' = [phase |-> "received", item |-> item]
    BY <1>1, <1>2, <1>3 DEF PosixCallOf, NoArg
  <2>2. \A v \in Tasks : v # t => arg'[v] = arg[v]
    BY <1>1, <1>2
  <2>3. \A v \in Tasks : v # t => at'[v] = at[v] \/ (InCall(v) /\ InCall(v)')
    BY <1>3 DEF InCall
  <2> QED
    BY <2>1, <2>2, <2>3, SameCall DEF OnlyCall
<1>8. PosixCallOf(t) = [phase |-> "receiving", patience |-> arg[t].patience]
  BY <1>1 DEF PosixCallOf, InCall
<1>9. /\ AllCalls' = [AllCalls EXCEPT ![t] = [phase |-> "received", item |-> Head(PosixContent)]]
      /\ AllCalls[t].phase = "receiving" /\ t \in PosixAbstract!Users
  BY <1>5, <1>7, <1>8, CallChanges
<1>10. PosixAbstract!Dequeue(t)
  BY <1>5, <1>6, <1>9 DEF PosixAbstract!Dequeue, PosixAbstract!Becomes, AllCalls
<1> QED
  BY <1>9, <1>10 DEF QueueStep, PosixAbstract!Next

\* The other steps do not touch the ring.
LEMMA ContentStays ==
  ASSUME UNCHANGED <<buffer, head, tail, count>>
  PROVE  PosixContent' = PosixContent
BY DEF PosixContent

\* A call begins, waits, gives up on what it has found, or returns.
LEMMA QuietImplements ==
  ASSUME PosixInv, NEW t \in Tasks,
         PosixCall(t) \/ PosixWait(t) \/ PosixFail(t) \/ PosixUnsignalled(t) \/ PosixReturn(t)
  PROVE  QueueStep
<1> USE QueueAssumption DEF PosixInv
<1>1. /\ UNCHANGED <<buffer, head, tail, count>>
      /\ \A v \in Tasks : v # t => at'[v] = at[v] /\ arg'[v] = arg[v]
      /\ at \in [Tasks -> CallStates] /\ arg \in [Tasks -> PosixArgs]
  BY DEF PosixCall, PosixWait, PosixFail, PosixUnsignalled, PosixReturn, PosixTypeOK, CallStates
<1>2. PosixContent' = PosixContent
  BY <1>1, ContentStays
<1>3. \A v \in Tasks : v # t => PosixCallOf(v)' = PosixCallOf(v)
  BY <1>1, SameCall
<1>4. \A c : PosixCallOf(t)' = c => OnlyCall(t, c)
  BY <1>3 DEF OnlyCall
<1>5. CASE PosixCall(t)
  <2>1. PICK a \in PosixArgs :
          /\ a.patience \in Waits[t] /\ a.item \in IF t \in Senders THEN Sends[t] ELSE {Blank}
          /\ arg' = [arg EXCEPT ![t] = a]
    BY <1>5 DEF PosixCall
  <2>2. at[t] = "idle" /\ at'[t] = "mutex" /\ arg'[t] = a
    BY <1>1, <1>5, <2>1 DEF PosixCall
  <2>3. PosixCallOf(t) = [phase |-> "none"]
    BY <2>2 DEF PosixCallOf
  <2>4. CASE t \in Senders
    <3> DEFINE c == [phase |-> "sending", item |-> a.item, patience |-> a.patience, met |-> FALSE]
    <3>1. PosixCallOf(t)' = c
      BY <2>2, <2>4 DEF PosixCallOf
    <3>2. /\ AllCalls' = [AllCalls EXCEPT ![t] = c] /\ AllCalls[t] = [phase |-> "none"]
          /\ t \in PosixAbstract!Users
      BY <1>4, <2>3, <3>1, CallChanges
    <3>3. PosixAbstract!Begin(t)
      BY <1>2, <2>1, <2>4, <3>2
      DEF PosixAbstract!Begin, PosixAbstract!Becomes, PosixAbstract!NoCall, AllCalls
    <3> QED
      BY <3>2, <3>3 DEF QueueStep, PosixAbstract!Next
  <2>5. CASE t \in Receivers
    <3> DEFINE c == [phase |-> "receiving", patience |-> a.patience]
    <3>1. PosixCallOf(t)' = c
      BY <2>2, <2>5 DEF PosixCallOf
    <3>2. /\ AllCalls' = [AllCalls EXCEPT ![t] = c] /\ AllCalls[t] = [phase |-> "none"]
          /\ t \in PosixAbstract!Users
      BY <1>4, <2>3, <3>1, CallChanges
    <3>3. PosixAbstract!Begin(t)
      BY <1>2, <2>1, <2>5, <3>2
      DEF PosixAbstract!Begin, PosixAbstract!Becomes, PosixAbstract!NoCall, AllCalls
    <3> QED
      BY <3>2, <3>3 DEF QueueStep, PosixAbstract!Next
  <2> QED
    BY <2>4, <2>5 DEF Tasks
<1>6. CASE PosixWait(t) \/ PosixUnsignalled(t)
  <2>1. arg'[t] = arg[t] /\ InCall(t) /\ InCall(t)'
    BY <1>1, <1>6 DEF PosixWait, PosixUnsignalled, InCall
  <2>2. SameCalls
    BY <1>3, <2>1, SameCall DEF SameCalls
  <2> QED
    BY <1>2, <2>2 DEF SameCalls, QueueStep
<1>7. CASE PosixFail(t)
  <2>1. /\ InCall(t) /\ Stuck(t) /\ at'[t] = "failed" /\ arg[t].patience # "forever"
    BY <1>1, <1>7 DEF PosixFail, InCall, CallsKept
  <2>2. PosixCallOf(t)' = [phase |-> "failed"]
    BY <2>1 DEF PosixCallOf
  <2>3. /\ AllCalls' = [AllCalls EXCEPT ![t] = [phase |-> "failed"]]
        /\ AllCalls[t] = PosixCallOf(t) /\ t \in PosixAbstract!Users
    BY <1>4, <2>2, CallChanges
  <2>4. PosixContent \in Seq(Items) /\ Len(PosixContent) = count
    BY ContentType DEF ContentShape
  <2>5. CASE t \in Senders
    <3>1. AllCalls[t].phase = "sending" /\ AllCalls[t].patience # "forever"
      BY <2>1, <2>3, <2>5 DEF PosixCallOf, InCall
    <3>2. PosixAbstract!Full(t)
      <4>1. /\ IsFiniteSet(PosixAbstract!Passing(t))
        BY FS_Subset DEF PosixAbstract!Passing, PosixAbstract!Users, Tasks
      <4>2. Cardinality(PosixAbstract!Passing(t)) \in Nat
        BY <4>1, FS_CardinalityType
      <4>3. Len(PosixContent) = Capacity
        BY <2>1, <2>4, <2>5 DEF Stuck
      <4> QED
        BY <4>2, <4>3, SameCount DEF PosixAbstract!Full
    <3>3. PosixAbstract!GiveUp(t)
      BY <1>2, <2>3, <3>1, <3>2 DEF PosixAbstract!GiveUp, PosixAbstract!Becomes, AllCalls
    <3> QED
      BY <2>3, <3>3 DEF QueueStep, PosixAbstract!Next
  <2>6. CASE t \notin Senders
    <3>1. AllCalls[t].phase = "receiving" /\ AllCalls[t].patience # "forever"
      BY <2>1, <2>3, <2>6 DEF PosixCallOf, InCall
    <3>2. PosixContent = <<>>
      BY <2>1, <2>4, <2>6 DEF Stuck
    <3>3. PosixAbstract!GiveUp(t)
      BY <1>2, <2>3, <3>1, <3>2 DEF PosixAbstract!GiveUp, PosixAbstract!Becomes, AllCalls
    <3> QED
      BY <2>3, <3>3 DEF QueueStep, PosixAbstract!Next
  <2> QED
    BY <2>5, <2>6
<1>8. CASE PosixReturn(t)
  <2>1. at[t] \in {"done", "failed"} /\ at'[t] = "idle"
    BY <1>1, <1>8 DEF PosixReturn
  <2>2. PosixCallOf(t)' = [phase |-> "none"]
    BY <2>1 DEF PosixCallOf
  <2>3. /\ AllCalls' = [AllCalls EXCEPT ![t] = [phase |-> "none"]]
        /\ AllCalls[t] = PosixCallOf(t) /\ t \in PosixAbstract!Users
    BY <1>4, <2>2, CallChanges
  <2>4. PosixCallOf(t) \in PosixAbstract!Answered
    BY <2>1 DEF PosixCallOf, PosixAbstract!Answered, CallsKept, Tasks
  <2>5. PosixAbstract!Return(t)
    BY <1>2, <2>3, <2>4
    DEF PosixAbstract!Return, PosixAbstract!Becomes, PosixAbstract!NoCall, AllCalls
  <2> QED
    BY <2>3, <2>5 DEF QueueStep, PosixAbstract!Next
<1> QED
  BY <1>5, <1>6, <1>7, <1>8

\* Every step is a step of BoundedQueue, or nothing to it.
LEMMA NextImplements ==
  ASSUME PosixInv, PosixInv', [PosixNext]_posixVars
  PROVE  QueueStep
<1>1. ASSUME NEW t \in Tasks, PosixCall(t) \/ PosixRuns(t) \/ PosixUnsignalled(t)
      PROVE  QueueStep
  BY <1>1, SendImplements, ReceiveImplements, QuietImplements DEF PosixRuns
<1>2. CASE UNCHANGED posixVars
  <2>1. SameCalls /\ PosixContent' = PosixContent
    BY <1>2, ContentStays, SameCall DEF posixVars, SameCalls
  <2> QED
    BY <2>1 DEF SameCalls, QueueStep
<1> QED
  BY <1>1, <1>2 DEF PosixNext

\* A new queue is empty, and nobody is in a call.
LEMMA InitImplements == PosixInit => PosixAbstract!Init
<1> SUFFICES ASSUME PosixInit PROVE PosixAbstract!Init
  OBVIOUS
<1>1. PosixContent = <<>>
  BY PosixInitInvariant, ContentType DEF PosixInit, ContentShape
<1>2. \A t \in Tasks : PosixCallOf(t) = [phase |-> "none"]
  BY DEF PosixInit, PosixCallOf
<1> QED
  BY <1>1, <1>2 DEF PosixAbstract!Init, PosixAbstract!Users, PosixAbstract!NoCall, Tasks

(* The host's queue is the queue of osal.h: first in first out, each item  *)
(* received once, and no call gives up that had what it waited for.        *)
THEOREM PosixImplementsQueue == PosixSpec => PosixImplements
<1>1. PosixInit => PosixAbstract!Init
  BY InitImplements
<1>2. PosixInv /\ PosixInv' /\ [PosixNext]_posixVars
        => [PosixAbstract!Next]_<<PosixContent, [t \in Tasks |-> PosixCallOf(t)]>>
  BY NextImplements DEF QueueStep
<1> QED
  BY <1>1, <1>2, PosixInvariant, PTL DEF PosixSpec, PosixImplements, PosixAbstract!Spec

=============================================================================
