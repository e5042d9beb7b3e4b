------------------------ MODULE FreeRtosKernel_proofs ------------------------
(***************************************************************************)
(* For any tasks, priorities, items and capacity: the mutex of the FreeRTOS*)
(* kernel is sound, its queue forgets nobody and implements BoundedQueue.  *)
(***************************************************************************)
EXTENDS FreeRtosMutex, FreeRtosQueue, EventLists_proofs

-----------------------------------------------------------------------------
(* The mutex.                                                              *)

Holds == {"holding", "asleep"}

(* A task that may have raised the priority of the holder and will still   *)
(* look whether it has to take that back.                                  *)
Lender(u) ==
  /\ inherited[u]
  /\ \/ takeAt[u] \in {"blocked", "expired", "disinherit"}
     \/ (takeAt[u] \in {"top", "suspend"} /\ left[u] # "none")

\* Only the holder runs with a priority that is not its own, and never a lower one.
OwnPriority ==
  \A t \in MutexTasks : IF t = holder THEN priority[t] >= Base[t] ELSE priority[t] = Base[t]
TakersSleep == \A t \in MutexTasks : t \in ToSet(takers) <=> takeAt[t] = "blocked"
PriorityIsLent ==
  holder # NoTask /\ priority[holder] > Base[holder] =>
    \E u \in MutexTasks : Lender(u) /\ Base[u] = priority[holder]
LoansKnown ==
  \A u \in MutexTasks :
    takeAt[u] = "blocked" /\ holder # NoTask => (Base[u] > Base[holder] => inherited[u])
\* One that has been woken for a free mutex is of no less priority than those that wait.
FirstIsWoken ==
  holder = NoTask /\ takers # <<>> =>
    \E t \in MutexTasks : takeAt[t] = "top" /\ \A u \in ToSet(takers) : Base[t] >= Base[u]

MutexInv ==
  /\ MutexTypeOK /\ Exclusive /\ NoInversion
  /\ OwnPriority /\ TakersSleep /\ Ordered(takers, Base)
  /\ PriorityIsLent /\ LoansKnown /\ FirstIsWoken

\* What the invariant says of the constants and of the tasks that wait
LEMMA MutexShape ==
  ASSUME MutexInv
  PROVE  /\ NoTask \notin MutexTasks
         /\ \A u \in MutexTasks : Base[u] \in Nat /\ priority[u] \in Nat
         /\ \A u \in MutexTasks : takeAt[u] \in Holds <=> holder = u
         /\ \A u \in ToSet(takers) :
              /\ u \in MutexTasks /\ u # holder /\ takeAt[u] = "blocked"
              /\ priority[u] = Base[u]
<1>1. /\ NoTask \notin MutexTasks
      /\ \A u \in MutexTasks : Base[u] \in Nat /\ priority[u] \in Nat
  BY MutexAssumption DEF MutexInv, MutexTypeOK
<1>2. ASSUME NEW u \in MutexTasks PROVE takeAt[u] \in Holds <=> holder = u
  BY DEF MutexInv, Exclusive, Holds
<1>3. ASSUME NEW u \in ToSet(takers)
      PROVE  /\ u \in MutexTasks /\ u # holder /\ takeAt[u] = "blocked"
             /\ priority[u] = Base[u]
  <2>1. u \in MutexTasks
    BY DEF MutexInv, MutexTypeOK, ToSet
  <2>2. takeAt[u] = "blocked"
    BY <2>1 DEF MutexInv, TakersSleep
  <2>3. u # holder
    BY <1>2, <2>1, <2>2 DEF Holds
  <2> QED
    BY <2>1, <2>2, <2>3 DEF MutexInv, OwnPriority
<1> QED
  BY <1>1, <1>2, <1>3

\* A list is in the same order by priorities that agree on those in it.
LEMMA SameOrder ==
  ASSUME NEW list, NEW r, NEW s, Ordered(list, r), \A u \in ToSet(list) : r[u] = s[u]
  PROVE  Ordered(list, s)
BY DEF Ordered, ToSet

(* A task that goes on from one place to another, neither to sleep nor with*)
(* the mutex, while its loan stays known.                                  *)
LEMMA OnlyMoves ==
  ASSUME MutexInv, MutexTypeOK', NEW t \in MutexTasks, NEW to,
         UNCHANGED <<holder, priority, takers>>,
         takeAt' = [takeAt EXCEPT ![t] = to],
         takeAt[t] # "blocked", to # "blocked", takeAt[t] \in Holds <=> to \in Holds,
         \A u \in MutexTasks \ {t} : left'[u] = left[u] /\ inherited'[u] = inherited[u],
         holder # NoTask /\ Lender(t) => Lender(t)',
         takeAt[t] = "top" /\ holder = NoTask => to = "top"
  PROVE  MutexInv'
<1>1. \A u \in MutexTasks : takeAt'[u] = IF u = t THEN to ELSE takeAt[u]
  BY DEF MutexInv, MutexTypeOK
<1>2. Exclusive'
  BY <1>1, MutexShape DEF Exclusive, Holds
<1>3. NoInversion' /\ OwnPriority' /\ Ordered(takers, Base)'
  BY DEF MutexInv, NoInversion, OwnPriority, Ordered
<1>4. TakersSleep'
  BY <1>1 DEF MutexInv, TakersSleep
<1>5. ASSUME NEW u \in MutexTasks, holder # NoTask, Lender(u) PROVE Lender(u)'
  <2>1. CASE u = t
    BY <1>5, <2>1
  <2>2. CASE u # t
    <3>1. takeAt'[u] = takeAt[u] /\ left'[u] = left[u] /\ inherited'[u] = inherited[u]
      BY <1>1, <2>2
    <3> QED
      BY <1>5, <3>1 DEF Lender
  <2> QED
    BY <2>1, <2>2
<1>6. PriorityIsLent'
  <2> SUFFICES ASSUME holder # NoTask, priority[holder] > Base[holder]
               PROVE  \E u \in MutexTasks : Lender(u)' /\ Base[u] = priority[holder]
    BY DEF PriorityIsLent
  <2>1. PICK u \in MutexTasks : Lender(u) /\ Base[u] = priority[holder]
    BY DEF MutexInv, PriorityIsLent
  <2> QED
    BY <1>5, <2>1
<1>7. LoansKnown'
  <2> SUFFICES ASSUME NEW u \in MutexTasks, takeAt'[u] = "blocked", holder # NoTask,
                      Base[u] > Base[holder]
               PROVE  inherited'[u]
    BY DEF LoansKnown
  <2>1. u # t /\ takeAt[u] = "blocked"
    BY <1>1
  <2>2. inherited[u]
    BY <2>1 DEF MutexInv, LoansKnown
  <2> QED
    BY <2>1, <2>2
<1>8. FirstIsWoken'
  <2> SUFFICES ASSUME holder = NoTask, takers # <<>>
               PROVE  \E w \in MutexTasks :
                        takeAt'[w] = "top" /\ \A u \in ToSet(takers) : Base[w] >= Base[u]
    BY DEF FirstIsWoken
  <2>1. PICK w \in MutexTasks : takeAt[w] = "top" /\ \A u \in ToSet(takers) : Base[w] >= Base[u]
    BY DEF MutexInv, FirstIsWoken
  <2>2. takeAt'[w] = "top"
    BY <1>1, <2>1
  <2> QED
    BY <2>1, <2>2
<1> QED
  BY <1>2, <1>3, <1>4, <1>6, <1>7, <1>8 DEF MutexInv

\* The steps of a take and of the holder that touch neither list nor priority
LEMMA MutexMoves ==
  ASSUME MutexInv, NEW t \in MutexTasks,
         \/ Acquire(t) \/ MeetHeld(t) \/ TryAgain(t) \/ TimeOver(t) \/ Expired(t)
         \/ Sleep(t) \/ Wake(t),
         halted' \in BOOLEAN
  PROVE  MutexInv'
<1>0. /\ takeAt \in [MutexTasks -> Ends \cup InTake]
      /\ left \in [MutexTasks -> {"none", "timed", "forever"}]
      /\ inherited \in [MutexTasks -> BOOLEAN]
  BY DEF MutexInv, MutexTypeOK
<1>1. CASE Acquire(t)
  <2>1. MutexTypeOK'
    BY <1>1 DEF Acquire, At, MutexInv, MutexTypeOK, Ends, InTake
  <2>2. ~ Lender(t)
    BY <1>1 DEF Acquire, At, Lender
  <2>3. \A u \in MutexTasks \ {t} : left'[u] = left[u] /\ inherited'[u] = inherited[u]
    BY <1>0, <1>1 DEF Acquire
  <2> QED
    BY <1>1, <2>1, <2>2, <2>3, OnlyMoves DEF Acquire, At, Holds
<1>2. CASE MeetHeld(t)
  <2>1. MutexTypeOK'
    BY <1>2 DEF MeetHeld, At, MutexInv, MutexTypeOK, Ends, InTake
  <2>2. PICK to : to = IF left[t] # "none" THEN "suspend" ELSE IF inherited[t] THEN "top" ELSE "idle"
    OBVIOUS
  <2>3. /\ takeAt[t] = "top" /\ takeAt' = [takeAt EXCEPT ![t] = to] /\ holder # NoTask
        /\ UNCHANGED <<holder, priority, takers, left, inherited>>
    BY <1>2, <2>2 DEF MeetHeld, At
  <2>4. Lender(t) => Lender(t)'
    BY <1>0, <2>2, <2>3 DEF Lender
  <2>5. takeAt[t] # "blocked" /\ to # "blocked" /\ (takeAt[t] \in Holds <=> to \in Holds)
    BY <2>2, <2>3 DEF Holds
  <2> QED
    BY <2>1, <2>3, <2>4, <2>5, OnlyMoves
<1>3. CASE TryAgain(t)
  <2>1. MutexTypeOK'
    BY <1>3 DEF TryAgain, At, MutexInv, MutexTypeOK, Ends, InTake
  <2> QED
    BY <1>3, <2>1, OnlyMoves DEF TryAgain, At, Holds
<1>4. CASE TimeOver(t)
  <2>1. MutexTypeOK'
    BY <1>4 DEF TimeOver, At, MutexInv, MutexTypeOK, Ends, InTake
  <2>2. Lender(t) => Lender(t)'
    BY <1>0, <1>4 DEF TimeOver, At, Lender
  <2>3. \A u \in MutexTasks \ {t} : left'[u] = left[u] /\ inherited'[u] = inherited[u]
    BY <1>0, <1>4 DEF TimeOver
  <2> QED
    BY <1>4, <2>1, <2>2, <2>3, OnlyMoves DEF TimeOver, At, Holds
<1>5. CASE Expired(t)
  <2>1. MutexTypeOK'
    BY <1>5 DEF Expired, At, MutexInv, MutexTypeOK, Ends, InTake
  <2>2. PICK to : to = IF holder = NoTask THEN "top" ELSE IF inherited[t] THEN "disinherit" ELSE "idle"
    OBVIOUS
  <2>3. /\ takeAt[t] = "expired" /\ takeAt' = [takeAt EXCEPT ![t] = to]
        /\ UNCHANGED <<holder, priority, takers, left, inherited>>
    BY <1>5, <2>2 DEF Expired, At
  <2>4. holder # NoTask /\ Lender(t) => Lender(t)'
    BY <1>0, <2>2, <2>3 DEF Lender
  <2>5. takeAt[t] # "blocked" /\ to # "blocked" /\ (takeAt[t] \in Holds <=> to \in Holds)
    BY <2>2, <2>3 DEF Holds
  <2> QED
    BY <2>1, <2>3, <2>4, <2>5, OnlyMoves
<1>6. CASE Sleep(t) \/ Wake(t)
  <2>1. PICK to : /\ to \in Holds /\ takeAt[t] \in Holds /\ takeAt' = [takeAt EXCEPT ![t] = to]
                  /\ UNCHANGED <<holder, priority, takers, left, inherited>>
    BY <1>6 DEF Sleep, Wake, At, Holds
  <2>2. MutexTypeOK'
    BY <2>1 DEF MutexInv, MutexTypeOK, Ends, Holds
  <2>3. ~ Lender(t) /\ takeAt[t] # "blocked" /\ to # "blocked" /\ takeAt[t] # "top"
    BY <2>1 DEF Lender, Holds
  <2> QED
    BY <2>1, <2>2, <2>3, OnlyMoves
<1> QED
  BY <1>1, <1>2, <1>3, <1>4, <1>5, <1>6

\* A free mutex is taken by the ready task of the highest priority.
LEMMA MutexTakes ==
  ASSUME MutexInv, NEW t \in MutexTasks, Take(t), halted' \in BOOLEAN
  PROVE  MutexInv'
<1>1. /\ holder = NoTask /\ holder' = t /\ takeAt[t] = "top" /\ HasCpu(t)
      /\ takeAt' = [takeAt EXCEPT ![t] = "holding"]
      /\ UNCHANGED <<priority, takers, left, inherited>>
  BY DEF Take, At
<1>2. MutexTypeOK'
  BY <1>1 DEF MutexInv, MutexTypeOK, Ends
<1>3. \A u \in MutexTasks : takeAt'[u] = IF u = t THEN "holding" ELSE takeAt[u]
  BY <1>1 DEF MutexInv, MutexTypeOK
<1>4. t # NoTask /\ \A u \in MutexTasks : priority[u] = Base[u] /\ Base[u] \in Nat
  BY <1>1, MutexShape DEF MutexInv, OwnPriority
<1>5. Exclusive'
  BY <1>1, <1>3, MutexShape DEF Exclusive, Holds
<1>6. ASSUME NEW u \in ToSet(takers) PROVE u \in MutexTasks /\ Base[t] >= Base[u]
  <2>1. takers # <<>>
    BY DEF ToSet
  <2>2. PICK w \in MutexTasks : takeAt[w] = "top" /\ Base[w] >= Base[u]
    BY <1>1, <2>1 DEF MutexInv, FirstIsWoken
  <2>3. priority[w] <= priority[t]
    BY <1>1, <2>2 DEF HasCpu, Runnable
  <2>4. u \in MutexTasks
    BY MutexShape
  <2> QED
    BY <1>4, <2>2, <2>3, <2>4
<1>7. NoInversion'
  BY <1>1, <1>4, <1>6 DEF NoInversion
<1>8. OwnPriority' /\ PriorityIsLent' /\ Ordered(takers, Base)' /\ FirstIsWoken'
  BY <1>1, <1>4 DEF OwnPriority, PriorityIsLent, FirstIsWoken, MutexInv, Ordered
<1>9. TakersSleep'
  BY <1>1, <1>3 DEF MutexInv, TakersSleep
<1>10. LoansKnown'
  <2> SUFFICES ASSUME NEW u \in MutexTasks, takeAt'[u] = "blocked", Base[u] > Base[t]
               PROVE  FALSE
    BY <1>1 DEF LoansKnown
  <2>1. takeAt[u] = "blocked"
    BY <1>3
  <2>2. u \in ToSet(takers)
    BY <2>1 DEF MutexInv, TakersSleep
  <2> QED
    BY <1>4, <1>6, <2>2
<1> QED
  BY <1>2, <1>5, <1>7, <1>8, <1>9, <1>10 DEF MutexInv

\* A task that goes to sleep lends its priority to the holder.
LEMMA MutexWaits ==
  ASSUME MutexInv, NEW t \in MutexTasks, Wait(t), halted' \in BOOLEAN
  PROVE  MutexInv'
<1>1. /\ holder # NoTask /\ takeAt[t] = "suspend" /\ Inherit(t)
      /\ takeAt' = [takeAt EXCEPT ![t] = "blocked"]
      /\ takers' = Inserted(takers, t, priority)
      /\ UNCHANGED <<holder, left>>
  BY DEF Wait, At
<1>2. PICK h \in MutexTasks : h = holder
  BY <1>1 DEF MutexInv, MutexTypeOK
<1>3. /\ NoTask \notin MutexTasks /\ t # h /\ takeAt[t] \notin Holds
      /\ \A u \in MutexTasks : Base[u] \in Nat /\ priority[u] \in Nat
      /\ \A u \in MutexTasks : takeAt[u] \in Holds <=> holder = u
  BY <1>1, <1>2, MutexShape DEF Holds
<1>4. \A u \in MutexTasks : takeAt'[u] = IF u = t THEN "blocked" ELSE takeAt[u]
  BY <1>1 DEF MutexInv, MutexTypeOK
<1>5. /\ \A u \in MutexTasks :
           priority'[u] = IF u = h /\ priority[h] < priority[t] THEN priority[t] ELSE priority[u]
      /\ \A u \in MutexTasks :
           inherited'[u] = IF u = t THEN Base[h] < priority[t] ELSE inherited[u]
      /\ priority' \in [MutexTasks -> Nat] /\ inherited' \in [MutexTasks -> BOOLEAN]
  BY <1>1, <1>2, <1>3 DEF Inherit, MutexInv, MutexTypeOK
<1>6. /\ priority[t] = Base[t] /\ priority[h] >= Base[h]
      /\ \A u \in MutexTasks \ {h} : priority[u] = Base[u]
  BY <1>2, <1>3 DEF MutexInv, OwnPriority
<1>7. t \notin ToSet(takers)
  BY <1>1 DEF MutexInv, TakersSleep
<1>8. /\ takers' \in Seq(MutexTasks) /\ IsInjective(takers')
      /\ ToSet(takers') = ToSet(takers) \cup {t}
      /\ Ordered(takers, priority) => Ordered(takers', priority)
  <2>1. takers \in Seq(MutexTasks) /\ IsInjective(takers) /\ priority \in [MutexTasks -> Nat]
    BY DEF MutexInv, MutexTypeOK
  <2> QED
    BY <1>1, <1>7, <2>1, InsertEffect
<1>9. MutexTypeOK'
  BY <1>1, <1>5, <1>8 DEF MutexInv, MutexTypeOK, InTake
<1>10. Ordered(takers, Base)'
  <2>1. \A u \in ToSet(takers') : Base[u] = priority[u]
    BY <1>6, <1>8, MutexShape
  <2>2. Ordered(takers, priority)
    BY <1>8, <2>1, SameOrder DEF MutexInv
  <2>3. Ordered(takers', Base)
    BY <1>8, <2>1, <2>2, SameOrder
  <2> QED
    BY <2>3
<1>11. Exclusive'
  BY <1>1, <1>3, <1>4 DEF Exclusive, Holds
<1>12. NoInversion'
  <2> SUFFICES ASSUME NEW u \in ToSet(takers') PROVE priority'[h] >= priority'[u]
    BY <1>1, <1>2 DEF NoInversion
  <2>1. CASE u = t
    BY <1>3, <1>5, <2>1
  <2>2. CASE u # t
    <3>1. u \in ToSet(takers) /\ u \in MutexTasks /\ u # h
      BY <1>2, <1>8, <2>2, MutexShape
    <3>2. priority[h] >= priority[u]
      BY <1>1, <1>2, <3>1 DEF MutexInv, NoInversion
    <3>3. priority'[u] = priority[u] /\ priority'[h] >= priority[h]
      BY <1>3, <1>5, <3>1
    <3>4. priority'[h] \in Nat /\ priority[h] \in Nat /\ priority[u] \in Nat
      BY <1>3, <1>5, <3>1
    <3> QED
      BY <3>2, <3>3, <3>4
  <2> QED
    BY <2>1, <2>2
<1>13. OwnPriority'
  <2> SUFFICES ASSUME NEW u \in MutexTasks
               PROVE  IF u = h THEN priority'[u] >= Base[u] ELSE priority'[u] = Base[u]
    BY <1>1, <1>2 DEF OwnPriority
  <2> QED
    BY <1>3, <1>5, <1>6
<1>14. TakersSleep'
  BY <1>4, <1>8 DEF MutexInv, TakersSleep
<1>15. PriorityIsLent'
  <2> SUFFICES ASSUME priority'[h] > Base[h]
               PROVE  \E u \in MutexTasks : Lender(u)' /\ Base[u] = priority'[h]
    BY <1>1, <1>2 DEF PriorityIsLent
  <2>1. CASE priority[h] < priority[t]
    <3>1. priority'[h] = Base[t] /\ inherited'[t] /\ takeAt'[t] = "blocked"
      BY <1>3, <1>4, <1>5, <1>6, <2>1
    <3> QED
      BY <3>1 DEF Lender
  <2>2. CASE ~ (priority[h] < priority[t])
    <3>1. priority'[h] = priority[h]
      BY <1>5, <2>2
    <3>2. PICK u \in MutexTasks : Lender(u) /\ Base[u] = priority[h]
      BY <1>1, <1>2, <3>1 DEF MutexInv, PriorityIsLent
    <3>3. CASE u = t
      <4>1. inherited'[t] /\ takeAt'[t] = "blocked"
        BY <1>3, <1>4, <1>5, <1>6, <3>1, <3>2, <3>3
      <4> QED
        BY <3>1, <3>2, <3>3, <4>1 DEF Lender
    <3>4. CASE u # t
      <4>1. takeAt'[u] = takeAt[u] /\ left'[u] = left[u] /\ inherited'[u] = inherited[u]
        BY <1>1, <1>4, <1>5, <3>4
      <4>2. Lender(u)'
        BY <3>2, <4>1 DEF Lender
      <4> QED
        BY <3>1, <3>2, <4>2
    <3> QED
      BY <3>3, <3>4
  <2> QED
    BY <2>1, <2>2
<1>16. LoansKnown'
  <2> SUFFICES ASSUME NEW u \in MutexTasks, takeAt'[u] = "blocked", Base[u] > Base[h]
               PROVE  inherited'[u]
    BY <1>1, <1>2 DEF LoansKnown
  <2>1. CASE u = t
    BY <1>5, <1>6, <2>1
  <2>2. CASE u # t
    <3>1. takeAt[u] = "blocked" /\ inherited'[u] = inherited[u]
      BY <1>4, <1>5, <2>2
    <3> QED
      BY <1>1, <1>2, <3>1 DEF MutexInv, LoansKnown
  <2> QED
    BY <2>1, <2>2
<1>17. FirstIsWoken'
  BY <1>1 DEF FirstIsWoken
<1> QED
  BY <1>9, <1>10, <1>11, <1>12, <1>13, <1>14, <1>15, <1>16, <1>17 DEF MutexInv

\* The time of one that waits is over: it leaves the list.
LEMMA MutexTicks ==
  ASSUME MutexInv, NEW t \in MutexTasks, Tick(t), halted' \in BOOLEAN
  PROVE  MutexInv'
<1>1. /\ takeAt[t] = "blocked" /\ left[t] = "timed"
      /\ takeAt' = [takeAt EXCEPT ![t] = "top"]
      /\ takers' = Removed(takers, t)
      /\ UNCHANGED <<holder, priority, left, inherited>>
  BY DEF Tick
<1>2. /\ takers' \in Seq(MutexTasks) /\ IsInjective(takers')
      /\ ToSet(takers') = ToSet(takers) \ {t}
      /\ Ordered(takers, Base) => Ordered(takers', Base)
  BY <1>1, RemoveEffect DEF MutexInv, MutexTypeOK
<1>3. MutexTypeOK'
  BY <1>1, <1>2 DEF MutexInv, MutexTypeOK, InTake
<1>4. \A u \in MutexTasks : takeAt'[u] = IF u = t THEN "top" ELSE takeAt[u]
  BY <1>1 DEF MutexInv, MutexTypeOK
<1>5. Exclusive'
  BY <1>1, <1>4, MutexShape DEF Exclusive, Holds
<1>6. NoInversion' /\ OwnPriority' /\ Ordered(takers, Base)'
  BY <1>1, <1>2 DEF MutexInv, NoInversion, OwnPriority
<1>7. TakersSleep'
  BY <1>2, <1>4 DEF MutexInv, TakersSleep
<1>8. ASSUME NEW u \in MutexTasks, Lender(u) PROVE Lender(u)'
  BY <1>1, <1>4, <1>8 DEF Lender
<1>9. PriorityIsLent'
  <2> SUFFICES ASSUME holder # NoTask, priority[holder] > Base[holder]
               PROVE  \E u \in MutexTasks : Lender(u)' /\ Base[u] = priority[holder]
    BY <1>1 DEF PriorityIsLent
  <2>1. PICK u \in MutexTasks : Lender(u) /\ Base[u] = priority[holder]
    BY DEF MutexInv, PriorityIsLent
  <2> QED
    BY <1>8, <2>1
<1>10. LoansKnown'
  BY <1>1, <1>4 DEF MutexInv, LoansKnown
<1>11. FirstIsWoken'
  <2> SUFFICES ASSUME holder = NoTask
               PROVE  \E w \in MutexTasks :
                        takeAt'[w] = "top" /\ \A u \in ToSet(takers') : Base[w] >= Base[u]
    BY <1>1 DEF FirstIsWoken
  <2>1. t \in ToSet(takers)
    BY <1>1 DEF MutexInv, TakersSleep
  <2>2. takers # <<>>
    BY <2>1 DEF ToSet
  <2>3. PICK w \in MutexTasks : takeAt[w] = "top" /\ \A u \in ToSet(takers) : Base[w] >= Base[u]
    BY <2>2 DEF MutexInv, FirstIsWoken
  <2>4. takeAt'[w] = "top"
    BY <1>4, <2>3
  <2> QED
    BY <1>2, <2>3, <2>4
<1> QED
  BY <1>3, <1>5, <1>6, <1>7, <1>9, <1>10, <1>11 DEF MutexInv

\* One that gives up takes back its priority, as far as those that wait allow.
LEMMA MutexDisinherits ==
  ASSUME MutexInv, NEW t \in MutexTasks, Disinherit(t), halted' \in BOOLEAN
  PROVE  MutexInv'
<1>1. /\ takeAt[t] = "disinherit" /\ takeAt' = [takeAt EXCEPT ![t] = "idle"]
      /\ UNCHANGED <<holder, takers, left, inherited>>
      /\ priority' = [u \in MutexTasks |->
           IF u # holder THEN priority[u]
           ELSE IF Base[u] < HighestWaiting THEN HighestWaiting ELSE Base[u]]
  BY DEF Disinherit, At
<1>2. /\ NoTask \notin MutexTasks /\ t # holder
      /\ \A u \in MutexTasks : Base[u] \in Nat /\ priority[u] \in Nat
  BY <1>1, MutexShape DEF Holds
<1>3. /\ takers # <<>> => /\ Head(takers) \in ToSet(takers) /\ Head(takers) \in MutexTasks
                          /\ \A u \in ToSet(takers) : Base[Head(takers)] >= Base[u]
      /\ ToSet(<<>>) = {}
  <2>1. ToSet(<<>>) = {}
    BY DEF ToSet
  <2> QED
    BY <2>1, TailEffect DEF MutexInv, MutexTypeOK
<1>4. PICK high \in Nat :
        /\ high = HighestWaiting
        /\ \A u \in ToSet(takers) : high >= Base[u]
        /\ high > 0 => \E u \in ToSet(takers) : Base[u] = high
  <2>1. CASE takers = <<>>
    BY <1>3, <2>1 DEF HighestWaiting
  <2>2. CASE takers # <<>>
    <3>1. HighestWaiting = Base[Head(takers)]
      BY <1>3, <2>2, MutexShape DEF HighestWaiting
    <3> QED
      BY <1>2, <1>3, <2>2, <3>1
  <2> QED
    BY <2>1, <2>2
<1>5. \A u \in MutexTasks :
        priority'[u] = IF u # holder THEN priority[u]
                       ELSE IF Base[u] < high THEN high ELSE Base[u]
  BY <1>1, <1>4
<1>6. MutexTypeOK'
  <2>1. priority' \in [MutexTasks -> Nat]
    BY <1>1, <1>2, <1>4
  <2> QED
    BY <1>1, <2>1 DEF MutexInv, MutexTypeOK, Ends
<1>7. \A u \in MutexTasks : takeAt'[u] = IF u = t THEN "idle" ELSE takeAt[u]
  BY <1>1 DEF MutexInv, MutexTypeOK
<1>8. Exclusive'
  BY <1>1, <1>7, MutexShape DEF Exclusive, Holds
<1>9. NoInversion'
  <2> SUFFICES ASSUME holder # NoTask, NEW u \in ToSet(takers)
               PROVE  priority'[holder] >= priority'[u]
    BY <1>1 DEF NoInversion
  <2>1. u \in MutexTasks /\ u # holder /\ priority[u] = Base[u] /\ holder \in MutexTasks
    BY MutexShape DEF MutexInv, MutexTypeOK
  <2>2. priority'[u] = Base[u] /\ high >= Base[u]
    BY <1>4, <1>5, <2>1
  <2> QED
    BY <1>2, <1>5, <2>1, <2>2
<1>10. OwnPriority'
  <2> SUFFICES ASSUME NEW u \in MutexTasks
               PROVE  IF u = holder THEN priority'[u] >= Base[u] ELSE priority'[u] = Base[u]
    BY <1>1 DEF OwnPriority
  <2> QED
    BY <1>2, <1>5 DEF MutexInv, OwnPriority
<1>11. TakersSleep' /\ Ordered(takers, Base)'
  BY <1>1, <1>7 DEF MutexInv, TakersSleep, Ordered
<1>12. PriorityIsLent'
  <2> SUFFICES ASSUME holder # NoTask, priority'[holder] > Base[holder]
               PROVE  \E u \in MutexTasks : Lender(u)' /\ Base[u] = priority'[holder]
    BY <1>1 DEF PriorityIsLent
  <2>1. holder \in MutexTasks
    BY DEF MutexInv, MutexTypeOK
  <2>2. priority'[holder] = high /\ high > Base[holder] /\ high > 0
    BY <1>2, <1>4, <1>5, <2>1
  <2>3. PICK u \in ToSet(takers) : Base[u] = high
    BY <1>4, <2>2
  <2>4. u \in MutexTasks /\ takeAt[u] = "blocked"
    BY MutexShape
  <2>5. inherited[u]
    BY <2>2, <2>3, <2>4 DEF MutexInv, LoansKnown
  <2>6. takeAt'[u] = "blocked" /\ inherited'[u]
    BY <1>1, <1>7, <2>4, <2>5
  <2> QED
    BY <2>2, <2>3, <2>4, <2>6 DEF Lender
<1>13. LoansKnown'
  BY <1>1, <1>7 DEF MutexInv, LoansKnown
<1>14. FirstIsWoken'
  <2> SUFFICES ASSUME holder = NoTask, takers # <<>>
               PROVE  \E w \in MutexTasks :
                        takeAt'[w] = "top" /\ \A u \in ToSet(takers) : Base[w] >= Base[u]
    BY <1>1 DEF FirstIsWoken
  <2>1. PICK w \in MutexTasks : takeAt[w] = "top" /\ \A u \in ToSet(takers) : Base[w] >= Base[u]
    BY DEF MutexInv, FirstIsWoken
  <2>2. takeAt'[w] = "top"
    BY <1>1, <1>7, <2>1
  <2> QED
    BY <2>1, <2>2
<1> QED
  BY <1>6, <1>8, <1>9, <1>10, <1>11, <1>12, <1>13, <1>14 DEF MutexInv

\* The holder gives the mutex back and wakes the first that waits.
LEMMA MutexGives ==
  ASSUME MutexInv, NEW t \in MutexTasks, Give(t), halted' \in BOOLEAN
  PROVE  MutexInv'
<1>1. /\ takeAt[t] = "holding" /\ holder' = NoTask /\ priority' = [priority EXCEPT ![t] = Base[t]]
      /\ UNCHANGED <<left, inherited>>
  BY DEF Give, ToBase
<1>2. /\ NoTask \notin MutexTasks /\ t = holder
      /\ \A u \in MutexTasks : Base[u] \in Nat /\ priority[u] \in Nat
      /\ \A u \in MutexTasks : takeAt[u] \in Holds <=> holder = u
  BY <1>1, MutexShape DEF Holds
<1>3. /\ takers' \in Seq(MutexTasks) /\ IsInjective(takers') /\ Ordered(takers', Base)
      /\ \A u \in MutexTasks :
           takeAt'[u] = IF u = t THEN "idle"
                        ELSE IF u \in ToSet(takers) \ ToSet(takers') THEN "top" ELSE takeAt[u]
      /\ ToSet(takers') \subseteq ToSet(takers)
      /\ takers' # <<>> =>
           \E w \in MutexTasks \ {t} :
             /\ w \in ToSet(takers) \ ToSet(takers')
             /\ \A u \in ToSet(takers') : Base[w] >= Base[u]
      /\ takeAt' \in [MutexTasks -> Ends \cup InTake]
  <2>1. CASE takers = <<>>
    BY <2>1 DEF Give, MutexInv, MutexTypeOK, Ends
  <2>2. CASE takers # <<>>
    <3>1. /\ Head(takers) \in MutexTasks /\ Head(takers) \in ToSet(takers)
          /\ Tail(takers) \in Seq(MutexTasks) /\ IsInjective(Tail(takers))
          /\ ToSet(Tail(takers)) = ToSet(takers) \ {Head(takers)}
          /\ Ordered(Tail(takers), Base)
          /\ \A u \in ToSet(takers) : Base[Head(takers)] >= Base[u]
      BY <2>2, TailEffect DEF MutexInv, MutexTypeOK
    <3>2. PICK w \in MutexTasks : w = Head(takers)
      BY <3>1
    <3>3. w # t
      BY <1>2, <3>1, <3>2, MutexShape
    <3>4. takers' = Tail(takers) /\ takeAt' = [takeAt EXCEPT ![t] = "idle", ![w] = "top"]
      BY <2>2, <3>2 DEF Give
    <3>5. takeAt \in [MutexTasks -> Ends \cup InTake]
      BY DEF MutexInv, MutexTypeOK
    <3>6. \A u \in MutexTasks :
            takeAt'[u] = IF u = t THEN "idle" ELSE IF u = w THEN "top" ELSE takeAt[u]
      BY <3>3, <3>4, <3>5
    <3>7. takeAt' \in [MutexTasks -> Ends \cup InTake]
      BY <3>4, <3>5 DEF Ends, InTake
    <3>8. ToSet(takers) \ ToSet(takers') = {w}
      BY <3>1, <3>2, <3>4
    <3> QED
      BY <3>1, <3>2, <3>3, <3>4, <3>6, <3>7, <3>8
  <2> QED
    BY <2>1, <2>2
<1>4. MutexTypeOK'
  <2>1. priority' \in [MutexTasks -> Nat]
    BY <1>1, <1>2 DEF MutexInv, MutexTypeOK
  <2> QED
    BY <1>1, <1>3, <2>1 DEF MutexInv, MutexTypeOK
<1>5. Exclusive'
  <2> SUFFICES ASSUME NEW u \in MutexTasks PROVE takeAt'[u] \notin Holds
    BY <1>1, <1>2 DEF Exclusive, Holds
  <2> QED
    BY <1>2, <1>3 DEF Holds
<1>6. NoInversion' /\ PriorityIsLent' /\ LoansKnown'
  BY <1>1 DEF NoInversion, PriorityIsLent, LoansKnown
<1>7. OwnPriority'
  <2> SUFFICES ASSUME NEW u \in MutexTasks PROVE priority'[u] = Base[u]
    BY <1>1, <1>2 DEF OwnPriority
  <2>1. priority'[u] = IF u = t THEN Base[t] ELSE priority[u]
    BY <1>1 DEF MutexInv, MutexTypeOK
  <2> QED
    BY <1>2, <2>1 DEF MutexInv, OwnPriority
<1>8. TakersSleep'
  <2> SUFFICES ASSUME NEW u \in MutexTasks PROVE u \in ToSet(takers') <=> takeAt'[u] = "blocked"
    BY DEF TakersSleep
  <2>1. u \in ToSet(takers) <=> takeAt[u] = "blocked"
    BY DEF MutexInv, TakersSleep
  <2> QED
    BY <1>1, <1>3, <2>1
<1>9. FirstIsWoken'
  <2> SUFFICES ASSUME takers' # <<>>
               PROVE  \E w \in MutexTasks :
                        takeAt'[w] = "top" /\ \A u \in ToSet(takers') : Base[w] >= Base[u]
    BY DEF FirstIsWoken
  <2>1. PICK w \in MutexTasks \ {t} : /\ w \in ToSet(takers) \ ToSet(takers')
                                      /\ \A u \in ToSet(takers') : Base[w] >= Base[u]
    BY <1>3
  <2>2. takeAt'[w] = "top"
    BY <1>3, <2>1
  <2> QED
    BY <2>1, <2>2
<1> QED
  BY <1>3, <1>4, <1>5, <1>6, <1>7, <1>8, <1>9 DEF MutexInv

\* The mutex is in order at the start.
LEMMA MutexStarts == MutexInit => MutexInv
<1> SUFFICES ASSUME MutexInit PROVE MutexInv
  OBVIOUS
<1>1. /\ takers = <<>> /\ takers \in Seq(MutexTasks) /\ DOMAIN takers = {} /\ ToSet(takers) = {}
  BY DEF MutexInit, ToSet
<1>2. MutexTypeOK
  BY <1>1, MutexAssumption DEF MutexInit, MutexTypeOK, Ends, IsInjective
<1>3. Exclusive /\ NoInversion /\ PriorityIsLent /\ LoansKnown /\ FirstIsWoken
  BY MutexAssumption DEF MutexInit, Exclusive, NoInversion, PriorityIsLent, LoansKnown, FirstIsWoken
<1>4. OwnPriority /\ TakersSleep /\ Ordered(takers, Base)
  BY <1>1, MutexAssumption DEF MutexInit, OwnPriority, TakersSleep, Ordered
<1> QED
  BY <1>2, <1>3, <1>4 DEF MutexInv

\* It stays in order.
LEMMA MutexStays == MutexInv /\ [MutexNext]_mutexVars => MutexInv'
<1> SUFFICES ASSUME MutexInv, [MutexNext]_mutexVars PROVE MutexInv'
  OBVIOUS
<1>1. CASE UNCHANGED mutexVars
  BY <1>1 DEF mutexVars, MutexInv, MutexTypeOK, Exclusive, NoInversion, OwnPriority, TakersSleep,
              Ordered, PriorityIsLent, Lender, LoansKnown, FirstIsWoken
<1>2. ASSUME NEW t \in MutexTasks,
             \/ Acquire(t) \/ Take(t) \/ MeetHeld(t) \/ Wait(t) \/ TryAgain(t) \/ TimeOver(t)
             \/ Tick(t) \/ Expired(t) \/ Disinherit(t) \/ Give(t) \/ Sleep(t) \/ Wake(t),
             halted' \in BOOLEAN
      PROVE  MutexInv'
  BY <1>2, MutexMoves, MutexTakes, MutexWaits, MutexTicks, MutexDisinherits, MutexGives
<1>3. ASSUME NEW t \in MutexTasks, MeetHeld(t) PROVE halted' \in BOOLEAN
  BY <1>3 DEF MeetHeld, MutexInv, MutexTypeOK
<1>4. ASSUME UNCHANGED halted PROVE halted' \in BOOLEAN
  BY <1>4 DEF MutexInv, MutexTypeOK
<1> QED
  BY <1>1, <1>2, <1>3, <1>4 DEF MutexNext

\* The invariant says what is asked of the mutex.
LEMMA MutexInvIsSound == MutexInv => MutexSound
<1> SUFFICES ASSUME MutexInv PROVE MutexSound
  OBVIOUS
<1>1. InheritanceEnds
  <2> SUFFICES ASSUME NEW t \in MutexTasks, priority[t] # Base[t]
               PROVE  /\ t = holder
                      /\ \E u \in MutexTasks :
                           takeAt[u] \in InTake /\ Base[u] = priority[t] /\ priority[t] > Base[t]
    BY DEF InheritanceEnds
  <2>1. t = holder /\ priority[t] > Base[t]
    BY MutexShape DEF MutexInv, OwnPriority
  <2>2. holder # NoTask
    BY <2>1, MutexShape
  <2>3. PICK u \in MutexTasks : Lender(u) /\ Base[u] = priority[t]
    BY <2>1, <2>2 DEF MutexInv, PriorityIsLent
  <2>4. takeAt[u] \in InTake
    BY <2>3 DEF Lender, InTake
  <2> QED
    BY <2>1, <2>3, <2>4
<1>2. NoneForgets
  BY DEF NoneForgets, MutexInv, FirstIsWoken
<1> QED
  BY <1>1, <1>2 DEF MutexSound, MutexInv

(* Whatever the number of tasks, their priorities and the order of takes,  *)
(* time-outs and gives: one task has the mutex, it is never of less        *)
(* priority than one that waits, what it was lent it gives back, and a free*)
(* mutex is not slept for (xQueueSemaphoreTake, xTaskPriorityInherit,      *)
(* vTaskPriorityDisinheritAfterTimeout).                                   *)
THEOREM FreeRtosMutexSound == MutexSpec => []MutexSound
<1>1. MutexSpec => []MutexInv
  BY MutexStarts, MutexStays, PTL DEF MutexSpec
<1> QED
  BY <1>1, MutexInvIsSound, PTL

-----------------------------------------------------------------------------
(* The queue.                                                              *)

OneLocks == \A t, u \in FrTasks : frAt[t] \in Locked /\ frAt[u] \in Locked => t = u
\* The queue is locked as long as a task has the scheduler suspended.
LockHeld == (txLock = UNLOCKED <=> SchedulerRuns) /\ txLock <= messages
Places ==
  /\ \A i \in Interrupts : frAt[i] \in {"idle", "raised", "done", "failed"}
  /\ \A t \in Tasks : frAt[t] # "raised"
  /\ \A t \in Senders : frAt[t] # "expired"
Listed ==
  /\ \A t \in Senders : t \in ToSet(waitingToSend) <=> frAt[t] \in {"placed", "blocked"}
  /\ \A t \in Receivers : t \in ToSet(waitingToReceive) <=> frAt[t] \in {"placed", "blocked"}
\* What has come since a receiver found the queue empty is counted in the lock.
StuckStill ==
  /\ \A t \in Senders : frAt[t] = "stuck" => messages = Capacity
  /\ \A t \in Receivers : frAt[t] = "stuck" => messages <= txLock

FrInv == FrTypeOK /\ NoneForgotten /\ OneLocks /\ LockHeld /\ Places /\ Listed /\ StuckStill

FrSteps == Locked \cup {"idle", "top", "suspend", "blocked", "expired", "raised", "done", "failed"}
AwakeOf(S) == {t \in S : frAt[t] = "top"}
Counted == IF txLock > 0 THEN txLock ELSE 0

\* Who is who
LEMMA FrUsers ==
  /\ Senders \subseteq FrTasks /\ Receivers \subseteq FrTasks /\ Interrupts \subseteq FrTasks
  /\ Senders \cap Receivers = {} /\ Interrupts \cap Senders = {} /\ Interrupts \cap Receivers = {}
  /\ Tasks = Senders \cup Receivers /\ FrTasks = Tasks \cup Interrupts
  /\ FrSenders = Senders \cup Interrupts
  /\ Capacity \in Nat \ {0} /\ Blank \notin Items
  /\ Rank \in [FrTasks -> Nat]
  /\ IsFiniteSet(Senders) /\ IsFiniteSet(Receivers)
<1>1. IsFiniteSet(Senders) /\ IsFiniteSet(Receivers)
  BY QueueAssumption, FS_Subset DEF Tasks
<1> QED
  BY <1>1, QueueAssumption, FreeRtosAssumption DEF FrTasks, FrSenders, Tasks

\* The tasks that are awake can be counted.
LEMMA AwakeCount ==
  /\ IsFiniteSet(AwakeOf(Senders)) /\ Cardinality(AwakeOf(Senders)) \in Nat
  /\ IsFiniteSet(AwakeOf(Receivers)) /\ Cardinality(AwakeOf(Receivers)) \in Nat
<1>1. AwakeOf(Senders) \subseteq Senders /\ AwakeOf(Receivers) \subseteq Receivers
  BY DEF AwakeOf
<1> QED
  BY <1>1, FrUsers, FS_Subset, FS_CardinalityType

\* The same in the state after a step
LEMMA AwakeCountAfter ==
  /\ IsFiniteSet(AwakeOf(Senders)') /\ Cardinality(AwakeOf(Senders)') \in Nat
  /\ IsFiniteSet(AwakeOf(Receivers)') /\ Cardinality(AwakeOf(Receivers)') \in Nat
<1>1. AwakeOf(Senders)' \subseteq Senders /\ AwakeOf(Receivers)' \subseteq Receivers
  BY DEF AwakeOf
<1> QED
  BY <1>1, FrUsers, FS_Subset, FS_CardinalityType

\* NoneForgotten, with the counts by their names
LEMMA ForgottenShape ==
  NoneForgotten <=>
    /\ waitingToReceive # <<>> => messages <= Cardinality(AwakeOf(Receivers)) + Counted
    /\ waitingToSend # <<>> => Capacity - messages <= Cardinality(AwakeOf(Senders))
BY DEF NoneForgotten, AwakeOf, Counted

\* The same in the state after a step
LEMMA ForgottenShapeAfter ==
  NoneForgotten' <=>
    /\ waitingToReceive' # <<>> => messages' <= Cardinality(AwakeOf(Receivers)') + Counted'
    /\ waitingToSend' # <<>> => Capacity - messages' <= Cardinality(AwakeOf(Senders)')
BY DEF NoneForgotten, AwakeOf, Counted

\* What the invariant says of each task
LEMMA FrShape ==
  ASSUME FrInv
  PROVE  /\ frAt \in [FrTasks -> FrSteps] /\ frArg \in [FrTasks -> FrArgs]
         /\ messages \in 0 .. Capacity /\ txLock \in -1 .. Capacity /\ txLock <= messages
         /\ writeTo \in FrPlaces /\ readFrom \in FrPlaces
         /\ ring \in [FrPlaces -> Items \cup {Blank}]
         /\ waitingToSend \in Seq(Senders) /\ IsInjective(waitingToSend)
         /\ waitingToReceive \in Seq(Receivers) /\ IsInjective(waitingToReceive)
         /\ \A u \in ToSet(waitingToSend) : u \in Senders /\ frAt[u] \in {"placed", "blocked"}
         /\ \A u \in ToSet(waitingToReceive) : u \in Receivers /\ frAt[u] \in {"placed", "blocked"}
<1>1. /\ frAt \in [FrTasks -> FrSteps] /\ frArg \in [FrTasks -> FrArgs]
      /\ messages \in 0 .. Capacity /\ txLock \in -1 .. Capacity /\ txLock <= messages
      /\ writeTo \in FrPlaces /\ readFrom \in FrPlaces
      /\ ring \in [FrPlaces -> Items \cup {Blank}]
      /\ waitingToSend \in Seq(Senders) /\ IsInjective(waitingToSend)
      /\ waitingToReceive \in Seq(Receivers) /\ IsInjective(waitingToReceive)
  BY DEF FrInv, FrTypeOK, FrSteps, LockHeld, UNLOCKED
<1>2. ToSet(waitingToSend) \subseteq Senders /\ ToSet(waitingToReceive) \subseteq Receivers
  BY <1>1 DEF ToSet
<1> QED
  BY <1>1, <1>2 DEF FrInv, Listed

\* A task that runs outside the lock finds it open; one that is inside holds it.
LEMMA LockKnown ==
  ASSUME FrInv, NEW t \in Tasks, Runs(t)
  PROVE  /\ \A u \in FrTasks \ {t} : frAt[u] \notin Locked
         /\ frAt[t] \notin Locked => txLock = -1 /\ SchedulerRuns
         /\ frAt[t] \in Locked => txLock \in 0 .. Capacity
<1>1. t \in FrTasks /\ t \notin Interrupts
  BY FrUsers
<1>2. \A u \in FrTasks \ {t} : frAt[u] \notin Locked
  BY <1>1 DEF Runs
<1>3. ASSUME frAt[t] \notin Locked PROVE txLock = -1 /\ SchedulerRuns
  BY <1>2, <1>3 DEF SchedulerRuns, FrInv, LockHeld, UNLOCKED
<1>4. ASSUME frAt[t] \in Locked PROVE txLock \in 0 .. Capacity
  <2>1. txLock # -1
    BY <1>1, <1>4 DEF SchedulerRuns, FrInv, LockHeld, UNLOCKED
  <2> QED
    BY <2>1, FrShape, FrUsers
<1> QED
  BY <1>2, <1>3, <1>4

(* A step of one task that changes neither the content nor the lists, and  *)
(* enters and leaves no lock.                                              *)
LEMMA FrMoves ==
  ASSUME FrInv, FrTypeOK', NEW t \in FrTasks, NEW to, Goes(t, to, {}),
         UNCHANGED <<messages, waitingToSend, waitingToReceive, txLock>>,
         frAt[t] \notin {"placed", "blocked"}, to \notin {"placed", "blocked"},
         frAt[t] \in Locked <=> to \in Locked,
         t \in Interrupts => to \in {"idle", "raised", "done", "failed"},
         t \in Tasks => to # "raised", t \in Senders => to # "expired",
         frAt[t] = "top" => to = "top" \/ FrStuck(t),
         to = "stuck" => FrStuck(t)
  PROVE  FrInv'
<1>1. \A u \in FrTasks : frAt'[u] = IF u = t THEN to ELSE frAt[u]
  BY DEF Goes
<1>2. \A u \in FrTasks : frAt'[u] \in Locked <=> frAt[u] \in Locked
  BY <1>1
<1>3. OneLocks' /\ LockHeld'
  BY <1>2 DEF FrInv, OneLocks, LockHeld, SchedulerRuns
<1>4. Places' /\ Listed'
  BY <1>1, FrUsers DEF FrInv, Places, Listed
<1>5. StuckStill'
  <2>1. ASSUME NEW u \in Senders, frAt'[u] = "stuck" PROVE messages = Capacity
    BY <1>1, <2>1, FrUsers DEF FrInv, StuckStill, FrStuck
  <2>2. ASSUME NEW u \in Receivers, frAt'[u] = "stuck" PROVE messages <= txLock
    <3>1. CASE u = t
      <4>1. messages = 0 /\ frAt[t] \in Locked
        BY <1>1, <2>2, <3>1, FrUsers DEF FrStuck, Locked
      <4>2. txLock # -1
        BY <4>1 DEF FrInv, LockHeld, SchedulerRuns, UNLOCKED
      <4> QED
        BY <4>1, <4>2, FrShape, FrUsers
    <3>2. CASE u # t
      BY <1>1, <2>2, <3>2, FrUsers DEF FrInv, StuckStill
    <3> QED
      BY <3>1, <3>2
  <2> QED
    BY <2>1, <2>2 DEF StuckStill
<1>6. NoneForgotten'
  <2>1. Counted' = Counted /\ Counted \in Nat
    BY FrShape, FrUsers DEF Counted
  <2>2. ASSUME waitingToReceive # <<>> PROVE messages <= Cardinality(AwakeOf(Receivers)') + Counted
    <3>1. CASE AwakeOf(Receivers) \subseteq AwakeOf(Receivers)'
      <4>1. Cardinality(AwakeOf(Receivers)) <= Cardinality(AwakeOf(Receivers)')
        BY <3>1, AwakeCountAfter, FS_Subset
      <4>2. messages <= Cardinality(AwakeOf(Receivers)) + Counted
        BY <2>2, ForgottenShape DEF FrInv
      <4> QED
        BY <2>1, <4>1, <4>2, AwakeCount, AwakeCountAfter, FrShape, FrUsers
    <3>2. CASE ~ (AwakeOf(Receivers) \subseteq AwakeOf(Receivers)')
      <4>1. t \in Receivers /\ frAt[t] = "top" /\ to # "top"
        BY <1>1, <3>2, FrUsers DEF AwakeOf
      <4>2. messages = 0
        BY <4>1, FrUsers DEF FrStuck
      <4> QED
        BY <2>1, <4>2, AwakeCountAfter
    <3> QED
      BY <3>1, <3>2
  <2>3. ASSUME waitingToSend # <<>> PROVE Capacity - messages <= Cardinality(AwakeOf(Senders)')
    <3>1. CASE AwakeOf(Senders) \subseteq AwakeOf(Senders)'
      <4>1. Cardinality(AwakeOf(Senders)) <= Cardinality(AwakeOf(Senders)')
        BY <3>1, AwakeCountAfter, FS_Subset
      <4>2. Capacity - messages <= Cardinality(AwakeOf(Senders))
        BY <2>3, ForgottenShape DEF FrInv
      <4> QED
        BY <4>1, <4>2, AwakeCount, AwakeCountAfter, FrShape, FrUsers
    <3>2. CASE ~ (AwakeOf(Senders) \subseteq AwakeOf(Senders)')
      <4>1. t \in Senders /\ frAt[t] = "top" /\ to # "top"
        BY <1>1, <3>2, FrUsers DEF AwakeOf
      <4>2. messages = Capacity
        BY <4>1, FrUsers DEF FrStuck
      <4> QED
        BY <4>2, AwakeCountAfter, FrUsers
    <3> QED
      BY <3>1, <3>2
  <2> QED
    BY <2>1, <2>2, <2>3, ForgottenShapeAfter
<1> QED
  BY <1>3, <1>4, <1>5, <1>6 DEF FrInv

\* With the scheduler running nothing is locked, counted or found empty.
LEMMA FrQuiet ==
  ASSUME SchedulerRuns', txLock' = -1, messages' \in 0 .. Capacity
  PROVE  OneLocks' /\ LockHeld' /\ StuckStill'
<1>1. \A u \in FrTasks : frAt'[u] \notin Locked
  BY DEF SchedulerRuns
<1>2. OneLocks' /\ StuckStill'
  BY <1>1, FrUsers DEF OneLocks, StuckStill, Locked
<1>3. LockHeld'
  BY FrUsers DEF LockHeld, UNLOCKED
<1> QED
  BY <1>2, <1>3

\* As many more are awake as have been woken.
LEMMA WokenCount ==
  ASSUME NEW S, IsFiniteSet(S), NEW W, IsFiniteSet(W), NEW n \in Nat, Cardinality(W) = n,
         W \cap AwakeOf(S) = {}, AwakeOf(S) \cup W \subseteq AwakeOf(S)'
  PROVE  Cardinality(AwakeOf(S)) + n <= Cardinality(AwakeOf(S)')
<1>1. AwakeOf(S) \subseteq S /\ AwakeOf(S)' \subseteq S
  BY DEF AwakeOf
<1>2. /\ IsFiniteSet(AwakeOf(S)) /\ Cardinality(AwakeOf(S)) \in Nat
      /\ IsFiniteSet(AwakeOf(S)') /\ Cardinality(AwakeOf(S)') \in Nat
  BY <1>1, FS_Subset, FS_CardinalityType
<1>3. Cardinality(AwakeOf(S) \cup W) = Cardinality(AwakeOf(S)) + n
  <2>1. Cardinality(AwakeOf(S) \cup W)
          = Cardinality(AwakeOf(S)) + Cardinality(W) - Cardinality(AwakeOf(S) \cap W)
    BY <1>2, FS_Union
  <2>2. AwakeOf(S) \cap W = {} /\ Cardinality({}) = 0
    BY FS_EmptySet
  <2>3. Cardinality(AwakeOf(S) \cap W) = 0
    BY <2>2
  <2> QED
    BY <1>2, <2>1, <2>3
<1>4. Cardinality(AwakeOf(S) \cup W) <= Cardinality(AwakeOf(S)')
  BY <1>2, FS_Subset
<1> QED
  BY <1>3, <1>4

\* One fewer is awake if one task goes on.
LEMMA OneFewer ==
  ASSUME NEW S, IsFiniteSet(S), NEW t, AwakeOf(S) \subseteq AwakeOf(S)' \cup {t}
  PROVE  Cardinality(AwakeOf(S)) <= Cardinality(AwakeOf(S)') + 1
<1>1. AwakeOf(S)' \subseteq S
  BY DEF AwakeOf
<1>2. IsFiniteSet(AwakeOf(S)') /\ Cardinality(AwakeOf(S)') \in Nat
  BY <1>1, FS_Subset, FS_CardinalityType
<1>3. /\ IsFiniteSet(AwakeOf(S)' \cup {t})
      /\ Cardinality(AwakeOf(S)' \cup {t}) <= Cardinality(AwakeOf(S)') + 1
  <2>1. /\ IsFiniteSet(AwakeOf(S)' \cup {t})
        /\ Cardinality(AwakeOf(S)' \cup {t}) =
             IF t \in AwakeOf(S)' THEN Cardinality(AwakeOf(S)') ELSE Cardinality(AwakeOf(S)') + 1
    BY <1>2, FS_AddElement
  <2> QED
    BY <1>2, <2>1
<1>4. Cardinality(AwakeOf(S)) <= Cardinality(AwakeOf(S)' \cup {t})
  BY <1>3, FS_Subset
<1>5. Cardinality(AwakeOf(S)) \in Nat /\ Cardinality(AwakeOf(S)' \cup {t}) \in Nat
  BY <1>3, FS_Subset, FS_CardinalityType
<1> QED
  BY <1>2, <1>3, <1>4, <1>5

\* What is taken off an event list and what is left on it
LEMMA ListCut ==
  ASSUME NEW S, NEW list \in Seq(S), IsInjective(list), NEW n \in 0 .. Len(list)
  PROVE  /\ Left(list, n) \in Seq(S) /\ IsInjective(Left(list, n))
         /\ Woken(list, n) \subseteq ToSet(list)
         /\ ToSet(Left(list, n)) = ToSet(list) \ Woken(list, n)
         /\ IsFiniteSet(Woken(list, n)) /\ Cardinality(Woken(list, n)) = n
         /\ Left(list, n) # <<>> => n < Len(list)
<1>1. /\ Left(list, n) \in Seq(S) /\ IsInjective(Left(list, n))
      /\ Len(Left(list, n)) = Len(list) - n
      /\ Woken(list, n) \subseteq ToSet(list)
      /\ ToSet(Left(list, n)) = ToSet(list) \ Woken(list, n)
      /\ IsFiniteSet(Woken(list, n)) /\ Cardinality(Woken(list, n)) = n
  BY CutEffect DEF Woken, Left
<1>2. PICK new \in Seq(S) : new = Left(list, n)
  BY <1>1
<1>3. ASSUME new # <<>> PROVE n < Len(list)
  <2>1. Len(new) # 0
    BY <1>3, EmptySeq
  <2>2. Len(new) = Len(list) - n /\ Len(list) \in Nat
    BY <1>1, <1>2
  <2> QED
    BY <2>1, <2>2
<1> QED
  BY <1>1, <1>2, <1>3

\* The first of a list that is not empty
LEMMA FirstCut ==
  ASSUME NEW S, NEW list \in Seq(S)
  PROVE  /\ First(list) \in 0 .. Len(list) /\ First(list) \in 0 .. 1
         /\ First(list) < Len(list) => First(list) = 1
<1>1. CASE list = <<>>
  BY <1>1 DEF First
<1>2. CASE list # <<>>
  <2>1. Len(list) \in Nat \ {0}
    BY <1>2
  <2> QED
    BY <1>2, <2>1 DEF First
<1> QED
  BY <1>1, <1>2

\* An item comes while the scheduler runs: the first receiver that waits is woken.
LEMMA FrComes ==
  ASSUME FrInv, NEW t \in FrSenders, messages < Capacity, txLock = -1, SchedulerRuns,
         CopyIn(frArg[t].item),
         Goes(t, "done", Woken(waitingToReceive, First(waitingToReceive))),
         waitingToReceive' = Left(waitingToReceive, First(waitingToReceive)),
         frArg' = [frArg EXCEPT ![t] = NoFrArg],
         UNCHANGED <<waitingToSend, txLock>>, frAt[t] \notin {"placed", "blocked"}
  PROVE  FrInv'
<1>1. /\ t \in FrTasks /\ t \notin Receivers /\ messages < Capacity
      /\ UNCHANGED <<waitingToSend, txLock, readFrom>>
      /\ messages' = messages + 1 /\ writeTo' = (writeTo + 1) % Capacity
      /\ ring' = [ring EXCEPT ![writeTo] = frArg[t].item]
      /\ frArg' = [frArg EXCEPT ![t] = NoFrArg]
  BY FrUsers DEF CopyIn
<1>2. txLock = -1 /\ SchedulerRuns
  OBVIOUS
<1>3. PICK n \in 0 .. Len(waitingToReceive) :
        n = First(waitingToReceive) /\ n \in 0 .. 1 /\ (n < Len(waitingToReceive) => n = 1)
  BY FirstCut, FrShape
<1>4. PICK W \in SUBSET Receivers :
        /\ W = Woken(waitingToReceive, n)
        /\ W \subseteq ToSet(waitingToReceive) /\ IsFiniteSet(W) /\ Cardinality(W) = n
        /\ waitingToReceive' \in Seq(Receivers) /\ IsInjective(waitingToReceive')
        /\ ToSet(waitingToReceive') = ToSet(waitingToReceive) \ W
        /\ waitingToReceive' # <<>> => n = 1 /\ waitingToReceive # <<>>
  <2>1. waitingToReceive' = Left(waitingToReceive, n)
    BY <1>3
  <2>2. /\ waitingToReceive \in Seq(Receivers) /\ IsInjective(waitingToReceive)
        /\ ToSet(waitingToReceive) \subseteq Receivers
    BY FrShape
  <2>3. waitingToReceive' # <<>> => n < Len(waitingToReceive)
    BY <2>1, <2>2, ListCut
  <2>4. n < Len(waitingToReceive) => waitingToReceive # <<>>
    BY <1>3
  <2> QED
    BY <1>3, <2>1, <2>2, <2>3, <2>4, ListCut
<1>5. \A u \in FrTasks :
        frAt'[u] = IF u = t THEN "done" ELSE IF u \in W THEN "top" ELSE frAt[u]
  BY <1>3, <1>4 DEF Goes
<1>6. frAt' \in [FrTasks -> FrSteps]
  BY <1>3, <1>4, FrShape DEF Goes, FrSteps
<1>7. frArg[t].item \in Items \cup {Blank} /\ NoFrArg \in FrArgs
  BY <1>1, FrShape DEF FrArgs, NoFrArg, Patience
<1>8. FrTypeOK'
  <2>1. /\ messages' \in 0 .. Capacity /\ writeTo' \in FrPlaces
        /\ ring' \in [FrPlaces -> Items \cup {Blank}] /\ frArg' \in [FrTasks -> FrArgs]
    BY <1>1, <1>7, FrShape, FrUsers, SMTT(30) DEF FrPlaces
  <2> QED
    BY <1>1, <1>4, <1>6, <2>1, FrShape DEF FrTypeOK, FrSteps, UNLOCKED
<1>9. \A u \in W : u \in Receivers /\ u # t /\ frAt[u] = "blocked"
  BY <1>1, <1>2, <1>4, FrShape, FrUsers DEF SchedulerRuns, Locked
<1>10. SchedulerRuns'
  BY <1>2, <1>5 DEF SchedulerRuns, Locked
<1>11. OneLocks' /\ LockHeld' /\ StuckStill'
  BY <1>1, <1>2, <1>8, <1>10, FrQuiet DEF FrTypeOK
<1>12. Places'
  BY <1>1, <1>4, <1>5, FrUsers DEF FrInv, Places
<1>13. Listed'
  <2>1. ASSUME NEW u \in Senders
        PROVE  u \in ToSet(waitingToSend') <=> frAt'[u] \in {"placed", "blocked"}
    BY <1>1, <1>5, <1>9, FrUsers DEF FrInv, Listed
  <2>2. ASSUME NEW u \in Receivers
        PROVE  u \in ToSet(waitingToReceive') <=> frAt'[u] \in {"placed", "blocked"}
    BY <1>1, <1>4, <1>5, FrUsers DEF FrInv, Listed
  <2> QED
    BY <2>1, <2>2 DEF Listed
<1>14. NoneForgotten'
  <2>1. Counted = 0 /\ Counted' = 0
    BY <1>1, <1>2 DEF Counted
  <2>2. ASSUME waitingToReceive' # <<>> PROVE messages' <= Cardinality(AwakeOf(Receivers)')
    <3>1. n = 1 /\ messages <= Cardinality(AwakeOf(Receivers)) + 0
      BY <1>4, <2>1, <2>2, ForgottenShape DEF FrInv
    <3>2. W \cap AwakeOf(Receivers) = {} /\ AwakeOf(Receivers) \cup W \subseteq AwakeOf(Receivers)'
      BY <1>1, <1>5, <1>9, FrUsers DEF AwakeOf
    <3>3. Cardinality(AwakeOf(Receivers)) + 1 <= Cardinality(AwakeOf(Receivers)')
      BY <1>4, <3>1, <3>2, WokenCount, FrUsers
    <3> QED
      BY <1>1, <3>1, <3>3, FrShape, FrUsers, AwakeCount, AwakeCountAfter
  <2>3. ASSUME waitingToSend' # <<>> PROVE Capacity - messages' <= Cardinality(AwakeOf(Senders)')
    <3>1. Capacity - messages <= Cardinality(AwakeOf(Senders))
      BY <1>1, <2>3, ForgottenShape DEF FrInv
    <3>2. AwakeOf(Senders) \subseteq AwakeOf(Senders)' \cup {t}
      BY <1>5, <1>9, FrUsers DEF AwakeOf
    <3>3. Cardinality(AwakeOf(Senders)) <= Cardinality(AwakeOf(Senders)') + 1
      BY <3>2, OneFewer, FrUsers
    <3>4. PICK a, b, m \in Nat : /\ a = Cardinality(AwakeOf(Senders))
                                /\ b = Cardinality(AwakeOf(Senders)') /\ m = messages
      BY FrShape, AwakeCount, AwakeCountAfter
    <3>5. Capacity - m <= a /\ a <= b + 1 /\ messages' = m + 1 /\ Capacity \in Nat
      BY <1>1, <3>1, <3>3, <3>4, FrUsers
    <3>6. Capacity - (m + 1) <= b
      BY <3>4, <3>5
    <3> QED
      BY <3>4, <3>5, <3>6
  <2> QED
    BY <2>1, <2>2, <2>3, ForgottenShapeAfter, AwakeCountAfter
<1> QED
  BY <1>8, <1>11, <1>12, <1>13, <1>14 DEF FrInv

\* xQueueGenericSend with room
LEMMA FrSends ==
  ASSUME FrInv, NEW t \in FrTasks, FrSend(t)
  PROVE  FrInv'
<1>1. t \in Senders /\ t \in Tasks /\ t \in FrSenders /\ frAt[t] = "top" /\ Runs(t)
  BY FrUsers DEF FrSend
<1>2. txLock = -1 /\ SchedulerRuns
  BY <1>1, LockKnown DEF Locked
<1> QED
  BY <1>1, <1>2, FrComes DEF FrSend

\* An item is received, the first sender that waits is woken.
LEMMA FrReceives ==
  ASSUME FrInv, NEW t \in FrTasks, FrReceive(t)
  PROVE  FrInv'
<1>1. /\ t \in Receivers /\ t \in Tasks /\ frAt[t] = "top" /\ Runs(t) /\ messages > 0
      /\ UNCHANGED <<waitingToReceive, txLock, ring, writeTo>>
      /\ messages' = messages - 1 /\ readFrom' = (readFrom + 1) % Capacity
      /\ frArg' = [frArg EXCEPT ![t] = [NoFrArg EXCEPT !.item = ring[(readFrom + 1) % Capacity]]]
  BY FrUsers DEF FrReceive, CopyOut
<1>2. txLock = -1 /\ SchedulerRuns
  BY <1>1, LockKnown DEF Locked
<1>3. PICK n \in 0 .. Len(waitingToSend) :
        n = First(waitingToSend) /\ n \in 0 .. 1 /\ (n < Len(waitingToSend) => n = 1)
  BY FirstCut, FrShape
<1>4. PICK W \in SUBSET Senders :
        /\ W = Woken(waitingToSend, n)
        /\ W \subseteq ToSet(waitingToSend) /\ IsFiniteSet(W) /\ Cardinality(W) = n
        /\ waitingToSend' \in Seq(Senders) /\ IsInjective(waitingToSend')
        /\ ToSet(waitingToSend') = ToSet(waitingToSend) \ W
        /\ waitingToSend' # <<>> => n = 1 /\ waitingToSend # <<>>
  <2>1. waitingToSend' = Left(waitingToSend, n)
    BY <1>3 DEF FrReceive
  <2>2. /\ waitingToSend \in Seq(Senders) /\ IsInjective(waitingToSend)
        /\ ToSet(waitingToSend) \subseteq Senders
    BY FrShape
  <2>3. waitingToSend' # <<>> => n < Len(waitingToSend)
    BY <2>1, <2>2, ListCut
  <2>4. n < Len(waitingToSend) => waitingToSend # <<>>
    BY <1>3
  <2> QED
    BY <1>3, <2>1, <2>2, <2>3, <2>4, ListCut
<1>5. \A u \in FrTasks :
        frAt'[u] = IF u = t THEN "done" ELSE IF u \in W THEN "top" ELSE frAt[u]
  BY <1>3, <1>4 DEF FrReceive, Goes
<1>6. frAt' \in [FrTasks -> FrSteps]
  BY <1>3, <1>4, FrShape DEF FrReceive, Goes, FrSteps
<1>7. readFrom' \in FrPlaces /\ [NoFrArg EXCEPT !.item = ring[(readFrom + 1) % Capacity]] \in FrArgs
  <2>1. (readFrom + 1) % Capacity \in FrPlaces
    BY FrShape, FrUsers DEF FrPlaces
  <2>2. ring[(readFrom + 1) % Capacity] \in Items \cup {Blank}
    BY <2>1, FrShape
  <2> QED
    BY <1>1, <2>1, <2>2 DEF FrArgs, NoFrArg, Patience
<1>8. FrTypeOK'
  <2>1. messages' \in 0 .. Capacity /\ frArg' \in [FrTasks -> FrArgs]
    BY <1>1, <1>7, FrShape, FrUsers
  <2> QED
    BY <1>1, <1>4, <1>6, <1>7, <2>1, FrShape DEF FrTypeOK, FrSteps, UNLOCKED
<1>9. \A u \in W : u \in Senders /\ u # t /\ frAt[u] = "blocked"
  BY <1>1, <1>2, <1>4, FrShape, FrUsers DEF SchedulerRuns, Locked
<1>10. SchedulerRuns'
  BY <1>2, <1>5 DEF SchedulerRuns, Locked
<1>11. OneLocks' /\ LockHeld' /\ StuckStill'
  BY <1>1, <1>2, <1>8, <1>10, FrQuiet DEF FrTypeOK
<1>12. Places'
  BY <1>1, <1>4, <1>5, FrUsers DEF FrInv, Places
<1>13. Listed'
  <2>1. ASSUME NEW u \in Receivers
        PROVE  u \in ToSet(waitingToReceive') <=> frAt'[u] \in {"placed", "blocked"}
    BY <1>1, <1>5, <1>9, FrUsers DEF FrInv, Listed
  <2>2. ASSUME NEW u \in Senders
        PROVE  u \in ToSet(waitingToSend') <=> frAt'[u] \in {"placed", "blocked"}
    BY <1>1, <1>4, <1>5, FrUsers DEF FrInv, Listed
  <2> QED
    BY <2>1, <2>2 DEF Listed
<1>14. NoneForgotten'
  <2>1. Counted = 0 /\ Counted' = 0
    BY <1>1, <1>2 DEF Counted
  <2>2. ASSUME waitingToSend' # <<>> PROVE Capacity - messages' <= Cardinality(AwakeOf(Senders)')
    <3>1. n = 1 /\ Capacity - messages <= Cardinality(AwakeOf(Senders))
      BY <1>4, <2>2, ForgottenShape DEF FrInv
    <3>2. W \cap AwakeOf(Senders) = {} /\ AwakeOf(Senders) \cup W \subseteq AwakeOf(Senders)'
      BY <1>1, <1>5, <1>9, FrUsers DEF AwakeOf
    <3>3. Cardinality(AwakeOf(Senders)) + 1 <= Cardinality(AwakeOf(Senders)')
      BY <1>4, <3>1, <3>2, WokenCount, FrUsers
    <3>4. PICK a, b, m \in Nat : /\ a = Cardinality(AwakeOf(Senders))
                                /\ b = Cardinality(AwakeOf(Senders)') /\ m = messages
      BY FrShape, AwakeCount, AwakeCountAfter
    <3>5. Capacity - m <= a /\ a + 1 <= b /\ messages' = m - 1 /\ Capacity \in Nat
      BY <1>1, <3>1, <3>3, <3>4, FrUsers
    <3>6. Capacity - (m - 1) <= b
      BY <3>4, <3>5
    <3> QED
      BY <3>4, <3>5, <3>6
  <2>3. ASSUME waitingToReceive' # <<>> PROVE messages' <= Cardinality(AwakeOf(Receivers)')
    <3>1. messages <= Cardinality(AwakeOf(Receivers)) + 0
      BY <1>1, <2>1, <2>3, ForgottenShape DEF FrInv
    <3>2. AwakeOf(Receivers) \subseteq AwakeOf(Receivers)' \cup {t}
      BY <1>5, <1>9, FrUsers DEF AwakeOf
    <3>3. Cardinality(AwakeOf(Receivers)) <= Cardinality(AwakeOf(Receivers)') + 1
      BY <3>2, OneFewer, FrUsers
    <3> QED
      BY <1>1, <3>1, <3>3, FrShape, FrUsers, AwakeCount, AwakeCountAfter
  <2> QED
    BY <2>1, <2>2, <2>3, ForgottenShapeAfter, AwakeCountAfter
<1> QED
  BY <1>8, <1>11, <1>12, <1>13, <1>14 DEF FrInv

\* xQueueGenericSendFromISR: an item that comes while the queue is locked is counted.
LEMMA FrInterrupts ==
  ASSUME FrInv, NEW t \in FrTasks, FrInterrupt(t)
  PROVE  FrInv'
<1>1. frAt[t] = "raised" /\ t \in Interrupts /\ t \in FrSenders /\ t \notin Tasks
  BY FrUsers DEF FrInterrupt, FrInv, Places
<1>2. NoFrArg \in FrArgs /\ frArg' = [frArg EXCEPT ![t] = NoFrArg] /\ frArg[t] \in FrArgs
  BY FrShape DEF FrArgs, NoFrArg, Patience, FrInterrupt
<1>3. CASE messages = Capacity
  <2>1. Goes(t, "failed", {}) /\ UNCHANGED <<frData, frLists, txLock>>
    BY <1>3 DEF FrInterrupt
  <2>2. FrTypeOK'
    BY <1>2, <2>1 DEF FrInv, FrTypeOK, Goes, frData, frLists
  <2> QED
    BY <1>1, <2>1, <2>2, FrMoves DEF Locked, frData, frLists
<1>4. CASE messages # Capacity /\ txLock = -1
  <2>1. messages < Capacity /\ SchedulerRuns
    BY <1>4, FrShape, FrUsers DEF FrInv, LockHeld, UNLOCKED
  <2>2. /\ CopyIn(frArg[t].item)
        /\ Goes(t, "done", Woken(waitingToReceive, First(waitingToReceive)))
        /\ waitingToReceive' = Left(waitingToReceive, First(waitingToReceive))
        /\ UNCHANGED <<waitingToSend, txLock>>
    BY <1>4 DEF FrInterrupt, UNLOCKED
  <2> QED
    BY <1>1, <1>2, <1>4, <2>1, <2>2, FrComes
<1>5. CASE messages # Capacity /\ txLock # -1
  <2>0. messages < Capacity /\ txLock \in 0 .. Capacity /\ ~ SchedulerRuns
    BY <1>5, FrShape, FrUsers DEF FrInv, LockHeld, UNLOCKED
  <2>1. /\ CopyIn(frArg[t].item) /\ Goes(t, "done", Woken(waitingToReceive, 0))
        /\ waitingToReceive' = Left(waitingToReceive, 0)
        /\ txLock' = txLock + 1 /\ UNCHANGED waitingToSend
    BY <1>5 DEF FrInterrupt, UNLOCKED
  <2>2. /\ waitingToReceive' \in Seq(Receivers) /\ IsInjective(waitingToReceive')
        /\ ToSet(waitingToReceive') = ToSet(waitingToReceive)
        /\ Woken(waitingToReceive, 0) = {}
        /\ waitingToReceive' # <<>> => waitingToReceive # <<>>
    <3>1. 0 \in 0 .. Len(waitingToReceive)
      BY FrShape
    <3>2. /\ Left(waitingToReceive, 0) \in Seq(Receivers) /\ IsInjective(Left(waitingToReceive, 0))
          /\ ToSet(Left(waitingToReceive, 0)) = ToSet(waitingToReceive) \ Woken(waitingToReceive, 0)
          /\ IsFiniteSet(Woken(waitingToReceive, 0)) /\ Cardinality(Woken(waitingToReceive, 0)) = 0
          /\ Left(waitingToReceive, 0) # <<>> => 0 < Len(waitingToReceive)
      BY <3>1, ListCut, FrShape
    <3>3. Woken(waitingToReceive, 0) = {}
      BY <3>2, FS_EmptySet
    <3>4. 0 < Len(waitingToReceive) => waitingToReceive # <<>>
      OBVIOUS
    <3> QED
      BY <2>1, <3>2, <3>3, <3>4
  <2>3. \A u \in FrTasks : frAt'[u] = IF u = t THEN "done" ELSE frAt[u]
    BY <2>1, <2>2 DEF Goes
  <2>4. /\ messages' = messages + 1 /\ writeTo' = (writeTo + 1) % Capacity
        /\ ring' = [ring EXCEPT ![writeTo] = frArg[t].item] /\ UNCHANGED readFrom
    BY <2>1 DEF CopyIn
  <2>5. FrTypeOK'
    <3>1. frAt' \in [FrTasks -> FrSteps]
      BY <2>1, <2>2, FrShape DEF Goes, FrSteps
    <3>2. /\ messages' \in 0 .. Capacity /\ writeTo' \in FrPlaces /\ txLock' \in -1 .. Capacity
          /\ ring' \in [FrPlaces -> Items \cup {Blank}] /\ frArg' \in [FrTasks -> FrArgs]
      <4>1. frArg[t].item \in Items \cup {Blank} /\ frArg' \in [FrTasks -> FrArgs]
        BY <1>2, FrShape DEF FrArgs
      <4>2. txLock' \in -1 .. Capacity /\ messages' \in 0 .. Capacity
        BY <2>0, <2>1, <2>4, FrShape, FrUsers
      <4>3. writeTo' \in FrPlaces
        BY <2>4, FrShape, FrUsers DEF FrPlaces
      <4> QED
        BY <2>4, <4>1, <4>2, <4>3, FrShape
    <3> QED
      BY <2>1, <2>2, <2>4, <3>1, <3>2, FrShape DEF FrTypeOK, FrSteps, UNLOCKED
  <2>6. \A u \in FrTasks : frAt'[u] \in Locked <=> frAt[u] \in Locked
    BY <1>1, <2>3 DEF Locked
  <2>7. OneLocks' /\ LockHeld'
    <3>1. OneLocks' /\ (SchedulerRuns' <=> SchedulerRuns)
      BY <2>6 DEF FrInv, OneLocks, SchedulerRuns
    <3>2. txLock' # -1 /\ txLock' <= messages'
      BY <2>0, <2>1, <2>4, FrShape, FrUsers
    <3> QED
      BY <2>0, <3>1, <3>2 DEF LockHeld, UNLOCKED
  <2>8. Places' /\ Listed'
    BY <1>1, <2>1, <2>2, <2>3, FrUsers, SMTT(30) DEF FrInv, Places, Listed
  <2>9. StuckStill'
    <3>1. ASSUME NEW u \in Senders, frAt'[u] = "stuck" PROVE FALSE
      <4>1. u \in FrTasks /\ frAt[u] = "stuck"
        BY <2>3, <3>1, FrUsers
      <4>2. messages = Capacity
        BY <4>1 DEF FrInv, StuckStill
      <4> QED
        BY <2>0, <4>2, FrUsers
    <3>2. ASSUME NEW u \in Receivers, frAt'[u] = "stuck" PROVE messages' <= txLock'
      <4>1. messages <= txLock
        BY <2>3, <3>2, FrUsers DEF FrInv, StuckStill
      <4> QED
        BY <2>0, <2>1, <2>4, <4>1, FrShape, FrUsers
    <3> QED
      BY <3>1, <3>2 DEF StuckStill
  <2>10. NoneForgotten'
    <3>1. AwakeOf(Receivers)' = AwakeOf(Receivers) /\ AwakeOf(Senders)' = AwakeOf(Senders)
      BY <1>1, <2>3, FrUsers DEF AwakeOf
    <3>2. Counted = txLock /\ Counted' = txLock + 1
      BY <2>0, <2>1 DEF Counted
    <3>3. ASSUME waitingToReceive' # <<>>
          PROVE  messages' <= Cardinality(AwakeOf(Receivers)') + Counted'
      <4>1. messages <= Cardinality(AwakeOf(Receivers)) + txLock
        BY <2>2, <3>2, <3>3, ForgottenShape DEF FrInv
      <4>2. PICK a \in Nat : a = Cardinality(AwakeOf(Receivers))
        BY AwakeCount
      <4>3. messages <= a + txLock /\ messages \in Nat /\ txLock \in Nat
        BY <2>0, <4>1, <4>2, FrShape, FrUsers
      <4>4. messages + 1 <= a + (txLock + 1)
        BY <4>2, <4>3
      <4> QED
        BY <2>4, <3>1, <3>2, <4>2, <4>4
    <3>4. ASSUME waitingToSend' # <<>> PROVE Capacity - messages' <= Cardinality(AwakeOf(Senders)')
      <4>1. Capacity - messages <= Cardinality(AwakeOf(Senders))
        BY <2>1, <3>4, ForgottenShape DEF FrInv
      <4> QED
        BY <2>4, <3>1, <4>1, FrShape, FrUsers, AwakeCount
    <3> QED
      BY <3>3, <3>4, ForgottenShapeAfter
  <2> QED
    BY <2>5, <2>7, <2>8, <2>9, <2>10 DEF FrInv
<1> QED
  BY <1>3, <1>4, <1>5

\* prvUnlockQueue makes up for what has come while the queue was locked.
LEMMA FrUnlocks ==
  ASSUME FrInv, NEW t \in FrTasks, FrUnlock(t)
  PROVE  FrInv'
<1>1. /\ frAt[t] \in {"placed", "again", "late"} /\ frAt[t] \in Locked /\ Runs(t)
      /\ txLock' = -1 /\ UNCHANGED <<frData, waitingToSend, frArg>>
  BY DEF FrUnlock, Locked, UNLOCKED
<1>2. t \in Tasks
  BY <1>1, FrUsers DEF FrInv, Places
<1>3. txLock \in 0 .. Capacity /\ \A u \in FrTasks \ {t} : frAt[u] \notin Locked
  BY <1>1, <1>2, LockKnown
<1>4. PICK n \in 0 .. Len(waitingToReceive) :
        /\ n = IF txLock < Len(waitingToReceive) THEN txLock ELSE Len(waitingToReceive)
        /\ n < Len(waitingToReceive) => n = txLock
  BY <1>3, FrShape, SMTT(30)
<1>5. PICK W \in SUBSET Receivers :
        /\ W = Woken(waitingToReceive, n)
        /\ W \subseteq ToSet(waitingToReceive) /\ IsFiniteSet(W) /\ Cardinality(W) = n
        /\ waitingToReceive' \in Seq(Receivers) /\ IsInjective(waitingToReceive')
        /\ ToSet(waitingToReceive') = ToSet(waitingToReceive) \ W
        /\ waitingToReceive' # <<>> => n = txLock /\ waitingToReceive # <<>>
  <2>1. waitingToReceive' = Left(waitingToReceive, n)
    BY <1>4 DEF FrUnlock
  <2>2. /\ waitingToReceive \in Seq(Receivers) /\ IsInjective(waitingToReceive)
        /\ ToSet(waitingToReceive) \subseteq Receivers
    BY FrShape
  <2>3. waitingToReceive' # <<>> => n < Len(waitingToReceive)
    BY <2>1, <2>2, ListCut
  <2>4. n < Len(waitingToReceive) => waitingToReceive # <<>>
    BY <1>4
  <2> QED
    BY <1>4, <2>1, <2>2, <2>3, <2>4, ListCut
<1>6. PICK to \in FrSteps :
        /\ to = After(t, W) /\ to \notin Locked /\ to # "raised" /\ to # "idle"
        /\ frAt[t] = "placed" => to = IF t \in W THEN "top" ELSE "blocked"
        /\ frAt[t] = "again" => to = "top"
        /\ frAt[t] = "late" => to = IF t \in Senders THEN "failed" ELSE "expired"
  <2>1. CASE frAt[t] = "placed"
    BY <2>1 DEF After, FrSteps, Locked
  <2>2. CASE frAt[t] = "again"
    BY <2>2 DEF After, FrSteps, Locked
  <2>3. CASE frAt[t] = "late"
    BY <2>3 DEF After, FrSteps, Locked
  <2> QED
    BY <1>1, <2>1, <2>2, <2>3
<1>7. Goes(t, to, W)
  BY <1>4, <1>5, <1>6 DEF FrUnlock
<1>8. \A u \in FrTasks : frAt'[u] = IF u = t THEN to ELSE IF u \in W THEN "top" ELSE frAt[u]
  BY <1>7 DEF Goes
<1>9. FrTypeOK'
  <2>1. frAt' \in [FrTasks -> FrSteps]
    BY <1>7, FrShape DEF Goes, FrSteps
  <2> QED
    BY <1>1, <1>5, <2>1, FrShape, FrUsers DEF FrTypeOK, FrSteps, UNLOCKED, frData
<1>10. SchedulerRuns'
  BY <1>3, <1>6, <1>8 DEF SchedulerRuns, Locked
<1>11. OneLocks' /\ LockHeld' /\ StuckStill'
  BY <1>1, <1>9, <1>10, FrQuiet DEF FrTypeOK
<1>12. Places'
  <2>1. \A u \in Senders : frAt'[u] # "expired"
    BY <1>1, <1>6, <1>8, FrUsers DEF FrInv, Places
  <2> QED
    BY <1>2, <1>5, <1>6, <1>8, <2>1, FrUsers DEF FrInv, Places
<1>13. ASSUME NEW u \in W
       PROVE  u \in Receivers /\ frAt[u] \in {"placed", "blocked"} /\ frAt'[u] = "top"
  <2>1. u \in Receivers /\ frAt[u] \in {"placed", "blocked"} /\ u \in FrTasks
    BY <1>5, FrShape, FrUsers
  <2>2. CASE u = t
    BY <1>1, <1>6, <1>8, <2>1, <2>2
  <2>3. CASE u # t
    BY <1>8, <2>1, <2>3
  <2> QED
    BY <2>1, <2>2, <2>3
<1>14. Listed'
  <2>1. ASSUME NEW u \in Senders
        PROVE  u \in ToSet(waitingToSend') <=> frAt'[u] \in {"placed", "blocked"}
    <3>1. u \notin W /\ u \in FrTasks /\ (u \in ToSet(waitingToSend) <=> frAt[u] \in {"placed", "blocked"})
      BY <1>5, FrUsers DEF FrInv, Listed
    <3>2. CASE u = t
      BY <1>1, <1>6, <1>8, <3>1, <3>2
    <3>3. CASE u # t
      BY <1>1, <1>8, <3>1, <3>3
    <3> QED
      BY <3>2, <3>3
  <2>2. ASSUME NEW u \in Receivers
        PROVE  u \in ToSet(waitingToReceive') <=> frAt'[u] \in {"placed", "blocked"}
    <3>1. u \in FrTasks /\ (u \in ToSet(waitingToReceive) <=> frAt[u] \in {"placed", "blocked"})
      BY FrUsers DEF FrInv, Listed
    <3>2. CASE u \in W
      BY <1>5, <1>13, <3>2
    <3>3. CASE u \notin W /\ u = t
      BY <1>1, <1>5, <1>6, <1>8, <3>1, <3>3
    <3>4. CASE u \notin W /\ u # t
      BY <1>5, <1>8, <3>1, <3>4
    <3> QED
      BY <3>2, <3>3, <3>4
  <2> QED
    BY <2>1, <2>2 DEF Listed
<1>15. NoneForgotten'
  <2>1. Counted = txLock /\ Counted' = 0
    BY <1>1, <1>3 DEF Counted
  <2>2. ASSUME waitingToReceive' # <<>> PROVE messages' <= Cardinality(AwakeOf(Receivers)') + 0
    <3>1. n = txLock /\ messages <= Cardinality(AwakeOf(Receivers)) + txLock
      BY <1>5, <2>1, <2>2, ForgottenShape DEF FrInv
    <3>2. W \cap AwakeOf(Receivers) = {}
      BY <1>13 DEF AwakeOf
    <3>3. AwakeOf(Receivers) \cup W \subseteq AwakeOf(Receivers)'
      BY <1>1, <1>8, <1>13, FrUsers DEF AwakeOf
    <3>4. Cardinality(AwakeOf(Receivers)) + n <= Cardinality(AwakeOf(Receivers)')
      BY <1>5, <3>2, <3>3, WokenCount, FrUsers
    <3>5. PICK a, b, m \in Nat : /\ a = Cardinality(AwakeOf(Receivers))
                                /\ b = Cardinality(AwakeOf(Receivers)') /\ m = messages
      BY FrShape, AwakeCount, AwakeCountAfter
    <3>6. m <= a + n /\ a + n <= b /\ messages' = m
      BY <1>1, <3>1, <3>4, <3>5 DEF frData
    <3>7. m <= b + 0
      BY <3>5, <3>6
    <3> QED
      BY <3>5, <3>6, <3>7
  <2>3. ASSUME waitingToSend' # <<>> PROVE Capacity - messages' <= Cardinality(AwakeOf(Senders)')
    <3>1. Capacity - messages <= Cardinality(AwakeOf(Senders))
      BY <1>1, <2>3, ForgottenShape DEF FrInv
    <3>2. AwakeOf(Senders) \subseteq AwakeOf(Senders)'
      BY <1>1, <1>5, <1>8, FrUsers DEF AwakeOf
    <3>3. Cardinality(AwakeOf(Senders)) <= Cardinality(AwakeOf(Senders)')
      BY <3>2, AwakeCountAfter, FS_Subset
    <3> QED
      BY <1>1, <3>1, <3>3, FrShape, FrUsers, AwakeCount, AwakeCountAfter DEF frData
  <2> QED
    BY <2>1, <2>2, <2>3, ForgottenShapeAfter, AwakeCountAfter
<1> QED
  BY <1>9, <1>11, <1>12, <1>14, <1>15 DEF FrInv

\* vTaskPlaceOnEventList, with the queue still locked
LEMMA FrPlaced ==
  ASSUME FrInv, NEW t \in FrTasks, FrPlace(t)
  PROVE  FrInv'
<1>1. /\ frAt[t] = "stuck" /\ frAt[t] \in Locked /\ Runs(t) /\ Goes(t, "placed", {})
      /\ UNCHANGED <<frData, txLock, frArg>>
  BY DEF FrPlace, Locked
<1>2. t \in Tasks
  BY <1>1, FrUsers DEF FrInv, Places
<1>3. txLock \in 0 .. Capacity
  BY <1>1, <1>2, LockKnown
<1>4. \A u \in FrTasks : frAt'[u] = IF u = t THEN "placed" ELSE frAt[u]
  BY <1>1 DEF Goes
<1>5. /\ t \notin ToSet(waitingToSend) /\ t \notin ToSet(waitingToReceive)
      /\ \A r : r \in ToSet(waitingToSend) => r \in Senders
      /\ \A r : r \in ToSet(waitingToReceive) => r \in Receivers
  BY <1>1, FrShape
<1>6. /\ t \in Senders =>
           /\ waitingToSend' \in Seq(Senders) /\ IsInjective(waitingToSend')
           /\ ToSet(waitingToSend') = ToSet(waitingToSend) \cup {t} /\ UNCHANGED waitingToReceive
           /\ messages = Capacity
      /\ t \notin Senders =>
           /\ waitingToReceive' \in Seq(Receivers) /\ IsInjective(waitingToReceive')
           /\ ToSet(waitingToReceive') = ToSet(waitingToReceive) \cup {t} /\ UNCHANGED waitingToSend
           /\ messages <= txLock
  <2>1. CASE t \in Senders
    <3>0. \A s \in Senders : Rank[s] \in Nat
      BY FrUsers
    <3>1. waitingToSend' = Inserted(waitingToSend, t, Rank) /\ UNCHANGED waitingToReceive
      BY <2>1 DEF FrPlace
    <3>2. /\ Inserted(waitingToSend, t, Rank) \in Seq(Senders)
          /\ IsInjective(Inserted(waitingToSend, t, Rank))
          /\ ToSet(Inserted(waitingToSend, t, Rank)) = ToSet(waitingToSend) \cup {t}
      BY <1>5, <2>1, <3>0, InsertEffect, FrShape
    <3>3. messages = Capacity
      BY <1>1, <2>1 DEF FrInv, StuckStill
    <3> QED
      BY <2>1, <3>1, <3>2, <3>3
  <2>2. CASE t \notin Senders
    <3>0. t \in Receivers
      BY <1>2, <2>2, FrUsers
    <3>4. \A s \in Receivers : Rank[s] \in Nat
      BY FrUsers
    <3>1. waitingToReceive' = Inserted(waitingToReceive, t, Rank) /\ UNCHANGED waitingToSend
      BY <2>2 DEF FrPlace
    <3>2. /\ Inserted(waitingToReceive, t, Rank) \in Seq(Receivers)
          /\ IsInjective(Inserted(waitingToReceive, t, Rank))
          /\ ToSet(Inserted(waitingToReceive, t, Rank)) = ToSet(waitingToReceive) \cup {t}
      BY <1>5, <3>0, <3>4, InsertEffect, FrShape
    <3>3. messages <= txLock
      BY <1>1, <3>0 DEF FrInv, StuckStill
    <3> QED
      BY <2>2, <3>1, <3>2, <3>3
  <2> QED
    BY <2>1, <2>2
<1>7. FrTypeOK'
  <2>1. frAt' \in [FrTasks -> FrSteps]
    BY <1>1, FrShape DEF Goes, FrSteps, Locked
  <2>2. /\ waitingToSend' \in Seq(Senders) /\ IsInjective(waitingToSend')
        /\ waitingToReceive' \in Seq(Receivers) /\ IsInjective(waitingToReceive')
    BY <1>6, FrShape
  <2> QED
    BY <1>1, <2>1, <2>2, FrShape DEF FrTypeOK, FrSteps, UNLOCKED, frData
<1>8. \A u \in FrTasks : frAt'[u] \in Locked <=> frAt[u] \in Locked
  BY <1>1, <1>4 DEF Locked
<1>9. OneLocks' /\ LockHeld'
  BY <1>1, <1>8 DEF FrInv, OneLocks, LockHeld, SchedulerRuns, frData
<1>10. Places'
  BY <1>2, <1>4, FrUsers DEF FrInv, Places
<1>11. Listed'
  <2>1. ASSUME NEW u \in Senders
        PROVE  u \in ToSet(waitingToSend') <=> frAt'[u] \in {"placed", "blocked"}
    <3>1. u \in FrTasks /\ (u \in ToSet(waitingToSend) <=> frAt[u] \in {"placed", "blocked"})
      BY FrUsers DEF FrInv, Listed
    <3>2. CASE u = t
      BY <1>4, <1>6, <3>1, <3>2
    <3>3. CASE u # t
      BY <1>4, <1>6, <3>1, <3>3
    <3> QED
      BY <3>2, <3>3
  <2>2. ASSUME NEW u \in Receivers
        PROVE  u \in ToSet(waitingToReceive') <=> frAt'[u] \in {"placed", "blocked"}
    <3>1. u \in FrTasks /\ (u \in ToSet(waitingToReceive) <=> frAt[u] \in {"placed", "blocked"})
      BY FrUsers DEF FrInv, Listed
    <3>2. CASE u = t
      BY <1>4, <1>6, <3>1, <3>2, FrUsers
    <3>3. CASE u # t
      BY <1>4, <1>6, <3>1, <3>3
    <3> QED
      BY <3>2, <3>3
  <2> QED
    BY <2>1, <2>2 DEF Listed
<1>12. StuckStill'
  BY <1>1, <1>4, FrUsers DEF FrInv, StuckStill, frData
<1>13. NoneForgotten'
  <2>1. AwakeOf(Receivers)' = AwakeOf(Receivers) /\ AwakeOf(Senders)' = AwakeOf(Senders)
    BY <1>1, <1>4, FrUsers DEF AwakeOf
  <2>2. Counted' = Counted /\ Counted = txLock /\ messages' = messages
    BY <1>1, <1>3 DEF Counted, frData
  <2>3. ASSUME waitingToReceive' # <<>>
        PROVE  messages <= Cardinality(AwakeOf(Receivers)) + Counted
    <3>1. CASE t \in Senders
      BY <1>6, <2>3, <3>1, ForgottenShape DEF FrInv
    <3>2. CASE t \notin Senders
      BY <1>3, <1>6, <2>2, <3>2, AwakeCount, FrShape, FrUsers
    <3> QED
      BY <3>1, <3>2
  <2>4. ASSUME waitingToSend' # <<>> PROVE Capacity - messages <= Cardinality(AwakeOf(Senders))
    <3>1. CASE t \in Senders
      BY <1>6, <3>1, AwakeCount, FrUsers
    <3>2. CASE t \notin Senders
      BY <1>6, <2>4, <3>2, ForgottenShape DEF FrInv
    <3> QED
      BY <3>1, <3>2
  <2> QED
    BY <2>1, <2>2, <2>3, <2>4, ForgottenShapeAfter
<1> QED
  BY <1>7, <1>9, <1>10, <1>11, <1>12, <1>13 DEF FrInv

\* The time of one that waits is over.
LEMMA FrTicks ==
  ASSUME FrInv, NEW t \in FrTasks, FrTick(t)
  PROVE  FrInv'
<1>1. /\ frAt[t] = "blocked" /\ SchedulerRuns /\ Goes(t, "top", {})
      /\ waitingToSend' = Removed(waitingToSend, t)
      /\ waitingToReceive' = Removed(waitingToReceive, t)
      /\ UNCHANGED <<frData, txLock, frArg>>
  BY DEF FrTick
<1>2. t \in Tasks /\ txLock = -1
  BY <1>1, FrUsers DEF FrInv, Places, LockHeld, UNLOCKED
<1>3. \A u \in FrTasks : frAt'[u] = IF u = t THEN "top" ELSE frAt[u]
  BY <1>1 DEF Goes
<1>4. /\ waitingToSend' \in Seq(Senders) /\ IsInjective(waitingToSend')
      /\ ToSet(waitingToSend') = ToSet(waitingToSend) \ {t}
      /\ waitingToReceive' \in Seq(Receivers) /\ IsInjective(waitingToReceive')
      /\ ToSet(waitingToReceive') = ToSet(waitingToReceive) \ {t}
  BY <1>1, RemoveEffect, FrShape
<1>5. FrTypeOK'
  <2>1. frAt' \in [FrTasks -> FrSteps]
    BY <1>1, FrShape DEF Goes, FrSteps
  <2> QED
    BY <1>1, <1>4, <2>1, FrShape DEF FrTypeOK, FrSteps, UNLOCKED, frData
<1>6. OneLocks' /\ LockHeld' /\ StuckStill'
  <2>1. SchedulerRuns'
    BY <1>1, <1>3 DEF SchedulerRuns, Locked
  <2> QED
    BY <1>1, <1>2, <1>5, <2>1, FrQuiet DEF FrTypeOK
<1>7. Places'
  BY <1>2, <1>3, FrUsers DEF FrInv, Places
<1>8. Listed'
  BY <1>3, <1>4, FrUsers DEF FrInv, Listed
<1>9. NoneForgotten'
  <2>1. /\ waitingToReceive' # <<>> => waitingToReceive # <<>>
        /\ waitingToSend' # <<>> => waitingToSend # <<>>
    <3>1. ToSet(<<>>) = {}
      BY DEF ToSet
    <3>2. ASSUME NEW S, NEW q \in Seq(S), q # <<>> PROVE ToSet(q) # {}
      <4>1. 1 \in DOMAIN q
        BY <3>2
      <4> QED
        BY <4>1 DEF ToSet
    <3> QED
      BY <1>4, <3>1, <3>2
  <2>2. /\ AwakeOf(Receivers) \subseteq AwakeOf(Receivers)'
        /\ AwakeOf(Senders) \subseteq AwakeOf(Senders)'
    BY <1>3, FrUsers DEF AwakeOf
  <2>3. /\ Cardinality(AwakeOf(Receivers)) <= Cardinality(AwakeOf(Receivers)')
        /\ Cardinality(AwakeOf(Senders)) <= Cardinality(AwakeOf(Senders)')
    BY <2>2, AwakeCountAfter, FS_Subset
  <2>4. Counted' = Counted /\ Counted = 0 /\ messages' = messages /\ messages \in 0 .. Capacity
    BY <1>1, <1>2, FrShape DEF Counted, frData
  <2>5. /\ waitingToReceive # <<>> => messages <= Cardinality(AwakeOf(Receivers)) + 0
        /\ waitingToSend # <<>> => Capacity - messages <= Cardinality(AwakeOf(Senders))
    BY <2>4, ForgottenShape DEF FrInv
  <2>6. PICK a, b, c, d, m \in Nat :
          /\ a = Cardinality(AwakeOf(Receivers)) /\ b = Cardinality(AwakeOf(Receivers)')
          /\ c = Cardinality(AwakeOf(Senders)) /\ d = Cardinality(AwakeOf(Senders)')
          /\ m = messages
    BY <2>4, AwakeCount, AwakeCountAfter, FrUsers
  <2>7. waitingToReceive' # <<>> => m <= b + 0
    BY <2>1, <2>3, <2>5, <2>6
  <2>8. waitingToSend' # <<>> => Capacity - m <= d
    BY <2>1, <2>3, <2>5, <2>6, FrUsers
  <2> QED
    BY <2>4, <2>6, <2>7, <2>8, ForgottenShapeAfter
<1> QED
  BY <1>5, <1>6, <1>7, <1>8, <1>9 DEF FrInv

\* vTaskSuspendAll and prvLockQueue
LEMMA FrSuspends ==
  ASSUME FrInv, NEW t \in FrTasks, FrSuspend(t)
  PROVE  FrInv'
<1>1. /\ frAt[t] = "suspend" /\ Runs(t) /\ txLock' = 0 /\ Goes(t, "looking", {})
      /\ UNCHANGED <<frData, frLists, frArg>>
  BY DEF FrSuspend, UNMODIFIED
<1>2. t \in Tasks
  BY <1>1, FrUsers DEF FrInv, Places
<1>3. txLock = -1 /\ SchedulerRuns
  BY <1>1, <1>2, LockKnown DEF Locked
<1>4. \A u \in FrTasks : frAt'[u] = IF u = t THEN "looking" ELSE frAt[u]
  BY <1>1 DEF Goes
<1>5. FrTypeOK'
  <2>1. frAt' \in [FrTasks -> FrSteps]
    BY <1>1, FrShape DEF Goes, FrSteps, Locked
  <2> QED
    BY <1>1, <2>1, FrShape, FrUsers DEF FrTypeOK, FrSteps, UNLOCKED, frData, frLists
<1>6. OneLocks'
  BY <1>3, <1>4 DEF OneLocks, SchedulerRuns
<1>7. LockHeld'
  <2>1. frAt'[t] \in Locked
    BY <1>4 DEF Locked
  <2> QED
    BY <1>1, <2>1, FrShape DEF LockHeld, SchedulerRuns, UNLOCKED, frData
<1>8. Places' /\ Listed'
  BY <1>1, <1>2, <1>4, FrUsers DEF FrInv, Places, Listed, frLists
<1>9. StuckStill'
  BY <1>3, <1>4, FrUsers DEF StuckStill, SchedulerRuns, Locked
<1>10. NoneForgotten'
  <2>1. AwakeOf(Receivers)' = AwakeOf(Receivers) /\ AwakeOf(Senders)' = AwakeOf(Senders)
    BY <1>1, <1>4, FrUsers DEF AwakeOf
  <2>2. Counted' = Counted /\ UNCHANGED <<messages, waitingToSend, waitingToReceive>>
    BY <1>1, <1>3 DEF Counted, frData, frLists
  <2> QED
    BY <2>1, <2>2, ForgottenShape, ForgottenShapeAfter DEF FrInv
<1> QED
  BY <1>5, <1>6, <1>7, <1>8, <1>9, <1>10 DEF FrInv

\* The steps of a call that leave content, lists and lock alone
LEMMA FrMovesOn ==
  ASSUME FrInv, NEW t \in FrTasks,
         \/ FrCall(t) \/ FrMeetsStuck(t) \/ FrLook(t) \/ FrExpired(t) \/ FrReturn(t)
  PROVE  FrInv'
<1>0. frAt \in [FrTasks -> FrSteps] /\ frArg \in [FrTasks -> FrArgs] /\ NoFrArg \in FrArgs
  BY FrShape DEF FrArgs, NoFrArg, Patience
<1>a. ASSUME NEW to \in FrSteps, Goes(t, to, {}), frArg' \in [FrTasks -> FrArgs],
             UNCHANGED <<frData, frLists, txLock>>
      PROVE  FrTypeOK'
  <2>1. frAt' \in [FrTasks -> FrSteps]
    BY <1>0, <1>a DEF Goes
  <2> QED
    BY <1>a, <2>1, FrShape DEF FrTypeOK, FrSteps, UNLOCKED, frData, frLists
<1>1. CASE FrCall(t)
  <2>1. PICK to : to = IF t \in Interrupts THEN "raised" ELSE "top"
    OBVIOUS
  <2>2. Goes(t, to, {}) /\ frAt[t] = "idle" /\ UNCHANGED <<frData, frLists, txLock>>
    BY <1>0, <1>1, <2>1 DEF FrCall, Goes
  <2>3. frArg' \in [FrTasks -> FrArgs]
    BY <1>0, <1>1 DEF FrCall
  <2>4. FrTypeOK'
    BY <1>a, <2>1, <2>2, <2>3 DEF FrSteps
  <2> QED
    BY <2>1, <2>2, <2>4, FrMoves, FrUsers DEF Locked, frData, frLists
<1>2. CASE FrMeetsStuck(t)
  <2>1. PICK to \in {"failed", "suspend"} :
          /\ Goes(t, to, {}) /\ frAt[t] = "top" /\ FrStuck(t)
          /\ frArg' \in [FrTasks -> FrArgs] /\ UNCHANGED <<frData, frLists, txLock>>
    <3>1. frAt[t] = "top" /\ FrStuck(t) /\ UNCHANGED <<frData, frLists, txLock>>
      BY <1>2 DEF FrMeetsStuck
    <3>2. CASE Goes(t, "failed", {}) /\ frArg' = [frArg EXCEPT ![t] = NoFrArg]
      BY <1>0, <3>1, <3>2
    <3>3. CASE Goes(t, "suspend", {}) /\ frArg' = [frArg EXCEPT ![t].entered = TRUE]
      <4>1. PICK a \in FrArgs : a = frArg[t]
        BY <1>0
      <4>2. [a EXCEPT !.entered = TRUE] \in FrArgs
        BY DEF FrArgs
      <4>3. frArg' = [frArg EXCEPT ![t] = [a EXCEPT !.entered = TRUE]]
        BY <3>3, <4>1
      <4>4. frArg' \in [FrTasks -> FrArgs]
        BY <1>0, <4>2, <4>3
      <4> QED
        BY <3>1, <3>3, <4>4
    <3> QED
      BY <1>2, <3>2, <3>3 DEF FrMeetsStuck
  <2>2. t \notin Interrupts
    BY <2>1 DEF FrInv, Places
  <2>3. FrTypeOK'
    BY <1>a, <2>1 DEF FrSteps
  <2> QED
    BY <2>1, <2>2, <2>3, FrMoves DEF Locked, frData, frLists
<1>3. CASE FrLook(t)
  <2>1. PICK to \in {"late", "stuck", "again"} :
          /\ Goes(t, to, {}) /\ frAt[t] = "looking" /\ (to = "stuck" => FrStuck(t))
          /\ UNCHANGED <<frData, frLists, txLock, frArg>>
    BY <1>3 DEF FrLook
  <2>2. t \notin Interrupts
    BY <2>1 DEF FrInv, Places
  <2>3. FrTypeOK'
    BY <1>0, <1>a, <2>1 DEF FrSteps, Locked
  <2> QED
    BY <2>1, <2>2, <2>3, FrMoves DEF Locked, frData, frLists
<1>4. CASE FrExpired(t)
  <2>1. PICK to \in {"failed", "top"} :
          /\ Goes(t, to, {}) /\ frAt[t] = "expired"
          /\ frArg' \in [FrTasks -> FrArgs] /\ UNCHANGED <<frData, frLists, txLock>>
    BY <1>0, <1>4 DEF FrExpired, FrArgs
  <2>2. t \notin Interrupts
    BY <2>1 DEF FrInv, Places
  <2>3. FrTypeOK'
    BY <1>a, <2>1 DEF FrSteps
  <2> QED
    BY <2>1, <2>2, <2>3, FrMoves DEF Locked, frData, frLists
<1>5. CASE FrReturn(t)
  <2>1. /\ Goes(t, "idle", {}) /\ frAt[t] \in {"done", "failed"}
        /\ frArg' \in [FrTasks -> FrArgs] /\ UNCHANGED <<frData, frLists, txLock>>
    BY <1>0, <1>5 DEF FrReturn
  <2>2. FrTypeOK'
    BY <1>a, <2>1 DEF FrSteps
  <2> QED
    BY <2>1, <2>2, FrMoves DEF Locked, frData, frLists
<1> QED
  BY <1>1, <1>2, <1>3, <1>4, <1>5

\* The queue is in order at the start.
LEMMA FrStarts == FrInit => FrInv
<1> SUFFICES ASSUME FrInit PROVE FrInv
  OBVIOUS
<1>1. /\ waitingToSend = <<>> /\ waitingToReceive = <<>>
      /\ ToSet(waitingToSend) = {} /\ ToSet(waitingToReceive) = {}
      /\ IsInjective(waitingToSend) /\ IsInjective(waitingToReceive)
  BY DEF FrInit, ToSet, IsInjective
<1>2. FrTypeOK
  <2>1. NoFrArg \in FrArgs
    BY DEF FrArgs, NoFrArg, Patience
  <2>2. /\ ring \in [FrPlaces -> Items \cup {Blank}]
        /\ writeTo \in FrPlaces /\ readFrom \in FrPlaces /\ messages \in 0 .. Capacity
        /\ txLock \in UNLOCKED .. Capacity
    BY FrUsers DEF FrInit, FrPlaces, UNLOCKED
  <2>3. /\ waitingToSend \in Seq(Senders) /\ waitingToReceive \in Seq(Receivers)
        /\ frAt \in [FrTasks -> FrSteps] /\ frArg \in [FrTasks -> FrArgs]
    BY <1>1, <2>1 DEF FrInit, FrSteps
  <2> QED
    BY <1>1, <2>2, <2>3 DEF FrTypeOK, FrSteps
<1>3. \A t \in FrTasks : frAt[t] = "idle"
  BY DEF FrInit
<1>4. OneLocks /\ LockHeld /\ Places /\ Listed /\ StuckStill
  BY <1>1, <1>3, FrUsers DEF FrInit, OneLocks, LockHeld, SchedulerRuns, UNLOCKED, Places, Listed,
     StuckStill, Locked
<1>5. NoneForgotten
  BY <1>1, ForgottenShape
<1> QED
  BY <1>2, <1>4, <1>5 DEF FrInv

\* It stays in order.
LEMMA FrStays == FrInv /\ [FrNext]_frVars => FrInv'
<1> SUFFICES ASSUME FrInv, [FrNext]_frVars PROVE FrInv'
  OBVIOUS
<1>1. CASE UNCHANGED frVars
  <2>1. UNCHANGED <<ring, writeTo, readFrom, messages, waitingToSend, waitingToReceive, txLock, frAt, frArg>>
    BY <1>1 DEF frVars, frData, frLists
  <2>2. FrTypeOK' /\ OneLocks' /\ LockHeld' /\ Places' /\ Listed' /\ StuckStill'
    BY <2>1 DEF FrInv, FrTypeOK, OneLocks, LockHeld, SchedulerRuns, Places, Listed, StuckStill
  <2>3. NoneForgotten'
    BY <2>1 DEF FrInv, NoneForgotten
  <2> QED
    BY <2>2, <2>3 DEF FrInv
<1>2. ASSUME NEW t \in FrTasks,
             \/ FrCall(t) \/ FrSend(t) \/ FrReceive(t) \/ FrMeetsStuck(t) \/ FrSuspend(t)
             \/ FrLook(t) \/ FrPlace(t) \/ FrUnlock(t) \/ FrExpired(t) \/ FrTick(t)
             \/ FrInterrupt(t) \/ FrReturn(t)
      PROVE  FrInv'
  BY <1>2, FrMovesOn, FrSends, FrReceives, FrSuspends, FrPlaced, FrUnlocks, FrTicks, FrInterrupts
<1> QED
  BY <1>1, <1>2 DEF FrNext

\* The invariant of the queue, for any tasks, interrupts, items and capacity
THEOREM FreeRtosInvariant == FrSpec => []FrInv
BY FrStarts, FrStays, PTL DEF FrSpec

(* The variables of the queue have their types: no list holds a task twice,*)
(* the ring never more than it has room for, and cTxLock never counts more *)
(* than the ring holds (queue.c).                                          *)
THEOREM FreeRtosTypeCorrect == FrSpec => []FrTypeOK
<1>1. FrInv => FrTypeOK
  BY DEF FrInv
<1> QED
  BY <1>1, FreeRtosInvariant, PTL

(* With any number of tasks and interrupts, no item or place is left with  *)
(* a task that waits for it and nobody awake, or counted in cTxLock, to see*)
(* it: prvLockQueue and prvUnlockQueue close the gap between the look at   *)
(* the queue and the sleep (queue.c).                                      *)
THEOREM FreeRtosForgetsNone == FrSpec => []NoneForgotten
<1>1. FrInv => NoneForgotten
  BY DEF FrInv
<1> QED
  BY <1>1, FreeRtosInvariant, PTL

-----------------------------------------------------------------------------
(* The queue implements BoundedQueue.                                      *)

\* The items of the ring are items, and the next one is written behind them.
FrRingSound ==
  /\ writeTo = (readFrom + (messages + 1)) % Capacity
  /\ \A i \in 1 .. messages : ring[(readFrom + i) % Capacity] \in Items

InFrCall(t) == frAt[t] \in Locked \cup {"top", "suspend", "blocked", "expired", "raised"}

(* A task in a call has what it called with, what was received is an item, *)
(* only a call with a time-out runs out of time, no task sleeps that has   *)
(* not found the queue full or empty, and an interrupt polls.              *)
FrCallKept(t) ==
  /\ t \in FrSenders /\ InFrCall(t) => frArg[t].item \in Sends[t]
  /\ t \in Receivers /\ frAt[t] = "done" => frArg[t].item \in Items
  /\ frAt[t] \in {"late", "expired"} => frArg[t].patience = "timed"
  /\ frAt[t] \in Locked \cup {"suspend", "blocked"} => frArg[t].entered
  /\ frAt[t] = "raised" => frArg[t].patience = "poll"

FrFull == FrInv /\ FrRingSound /\ \A t \in FrTasks : FrCallKept(t)

FrCalls == [t \in FrTasks |-> FrCallOf(t)]
FrQueueStep == [FrAbstract!Next]_<<FrContent, FrCalls>>

\* A step further on the ring.
LEMMA FrRingPlace ==
  ASSUME NEW h \in FrPlaces, NEW k \in 0 .. Capacity
  PROVE  /\ (h + k) % Capacity = IF h + k < Capacity THEN h + k ELSE h + k - Capacity
         /\ (h + k) % Capacity \in FrPlaces
<1> USE FrUsers DEF FrPlaces
<1>1. CASE h + k < Capacity
  BY <1>1
<1>2. CASE h + k >= Capacity
  BY <1>2
<1> QED
  BY <1>1, <1>2

\* The next place is one further, from either end.
LEMMA FrRingNext ==
  ASSUME NEW h \in FrPlaces, NEW k \in 0 .. Capacity
  PROVE  /\ (((h + 1) % Capacity) + k) % Capacity = (h + (k + 1)) % Capacity
         /\ (((h + k) % Capacity) + 1) % Capacity = (h + (k + 1)) % Capacity
<1> USE FrUsers
<1>0. 1 \in 0 .. Capacity /\ k \in Nat /\ h \in Nat /\ h < Capacity /\ k <= Capacity
  BY DEF FrPlaces
<1>1. \A g \in FrPlaces, j \in 0 .. Capacity :
        /\ (g + j) % Capacity = IF g + j < Capacity THEN g + j ELSE g + j - Capacity
        /\ (g + j) % Capacity \in FrPlaces
  BY FrRingPlace
<1>2. PICK a \in FrPlaces : a = (h + 1) % Capacity /\ a = IF h + 1 < Capacity THEN h + 1 ELSE 0
  <2>1. h + 1 < Capacity \/ h + 1 = Capacity
    BY <1>0
  <2> QED
    BY <1>0, <1>1, <2>1
<1>3. PICK b \in FrPlaces : b = (h + k) % Capacity /\ b = IF h + k < Capacity THEN h + k ELSE h + k - Capacity
  BY <1>1
<1>4. (a + k) % Capacity = IF a + k < Capacity THEN a + k ELSE a + k - Capacity
  BY <1>1
<1>5. (b + 1) % Capacity = IF b + 1 < Capacity THEN b + 1 ELSE b + 1 - Capacity
  BY <1>0, <1>1
<1>6. CASE k < Capacity
  <2>1. (h + (k + 1)) % Capacity = IF h + (k + 1) < Capacity THEN h + (k + 1) ELSE h + (k + 1) - Capacity
    BY <1>0, <1>1, <1>6
  <2>2. (a + k) % Capacity = (h + (k + 1)) % Capacity
    BY <1>0, <1>2, <1>4, <1>6, <2>1
  <2>3. (b + 1) % Capacity = (h + (k + 1)) % Capacity
    BY <1>0, <1>3, <1>5, <1>6, <2>1
  <2> QED
    BY <1>2, <1>3, <2>2, <2>3
<1>7. CASE k = Capacity
  <2>1. (h + (k + 1)) % Capacity = a
    <3>1. CASE h + 1 < Capacity
      <4>1. (h + (Capacity + 1)) % Capacity = h + 1
        BY <1>0, <3>1
      <4> QED
        BY <1>2, <1>7, <3>1, <4>1
    <3>2. CASE h + 1 = Capacity
      <4>1. h + (Capacity + 1) = 2 * Capacity
        BY <1>0, <3>2
      <4>2. (2 * Capacity) % Capacity = 0
        OBVIOUS
      <4> QED
        BY <1>2, <1>7, <3>2, <4>1, <4>2
    <3> QED
      BY <1>0, <3>1, <3>2
  <2>2. (a + k) % Capacity = a
    BY <1>2, <1>4, <1>7 DEF FrPlaces
  <2>3. b = h
    BY <1>0, <1>3, <1>7
  <2> QED
    BY <1>2, <1>3, <2>1, <2>2, <2>3
<1> QED
  BY <1>0, <1>6, <1>7

\* Different offsets are different places.
LEMMA FrRingApart ==
  ASSUME NEW h \in FrPlaces, NEW k \in 1 .. Capacity, NEW j \in 1 .. Capacity, j # k
  PROVE  (h + k) % Capacity # (h + j) % Capacity
<1>1. /\ (h + k) % Capacity = IF h + k < Capacity THEN h + k ELSE h + k - Capacity
      /\ (h + j) % Capacity = IF h + j < Capacity THEN h + j ELSE h + j - Capacity
  BY FrRingPlace, FrUsers
<1> QED
  BY <1>1, FrUsers DEF FrPlaces

-----------------------------------------------------------------------------
(* What a step does to the calls and to the content, as BoundedQueue sees  *)
(* them.                                                                   *)

OnlyFrCall(t, c) ==
  /\ FrCallOf(t)' = c
  /\ \A v \in FrTasks : v # t => FrCallOf(v)' = FrCallOf(v)

\* Changing one call is an EXCEPT on all of them.
LEMMA FrCallChanges ==
  ASSUME NEW t \in FrTasks, NEW c, OnlyFrCall(t, c)
  PROVE  /\ FrCalls' = [FrCalls EXCEPT ![t] = c]
         /\ FrCalls[t] = FrCallOf(t)
         /\ t \in FrAbstract!Users
<1>1. FrAbstract!Users = FrTasks
  BY FrUsers DEF FrAbstract!Users
<1> QED
  BY <1>1 DEF FrCalls, OnlyFrCall

\* A task that only moves between the places of its wait is in the same call.
LEMMA FrSameCall ==
  ASSUME NEW v \in FrTasks, frArg'[v] = frArg[v],
         \/ frAt'[v] = frAt[v]
         \/ InFrCall(v) /\ InFrCall(v)'
  PROVE  FrCallOf(v)' = FrCallOf(v)
<1>1. CASE frAt'[v] = frAt[v]
  BY <1>1 DEF FrCallOf, FrPatience
<1>2. CASE InFrCall(v) /\ InFrCall(v)'
  BY <1>2 DEF FrCallOf, FrPatience, InFrCall, Locked
<1> QED
  BY <1>1, <1>2

\* To the other tasks a step does no more than wake some that wait.
LEMMA FrOthers ==
  ASSUME FrFull, NEW t \in FrTasks, NEW to, NEW woken, Goes(t, to, woken),
         \A u \in woken : frAt[u] \in {"placed", "blocked"},
         \A v \in FrTasks : v # t => frArg'[v] = frArg[v]
  PROVE  /\ frAt'[t] = to
         /\ \A v \in FrTasks : v # t => FrCallOf(v)' = FrCallOf(v) /\ FrCallKept(v)'
<1>1. frAt'[t] = to
  BY DEF Goes
<1>2. ASSUME NEW v \in FrTasks, v # t
      PROVE  FrCallOf(v)' = FrCallOf(v) /\ FrCallKept(v)'
  <2>1. FrCallKept(v) /\ frArg'[v] = frArg[v]
    BY <1>2 DEF FrFull
  <2>2. CASE v \in woken
    <3>1. frAt'[v] = "top" /\ frAt[v] \in {"placed", "blocked"}
      BY <1>2, <2>2 DEF Goes
    <3>2. FrCallOf(v)' = FrCallOf(v)
      BY <2>1, <3>1, FrSameCall DEF InFrCall, Locked
    <3>3. FrCallKept(v)'
      BY <2>1, <3>1 DEF FrCallKept, InFrCall, Locked
    <3> QED
      BY <3>2, <3>3
  <2>3. CASE v \notin woken
    <3>1. frAt'[v] = frAt[v]
      BY <1>2, <2>3 DEF Goes
    <3>2. FrCallOf(v)' = FrCallOf(v)
      BY <2>1, <3>1, FrSameCall
    <3>3. FrCallKept(v)'
      BY <2>1, <3>1 DEF FrCallKept, InFrCall
    <3> QED
      BY <3>2, <3>3
  <2> QED
    BY <2>2, <2>3
<1> QED
  BY <1>1, <1>2

\* What the ring holds is a sequence of items.
FrContentShape ==
  /\ FrContent \in Seq(Items) /\ Len(FrContent) = messages /\ messages \in 0 .. Capacity
  /\ \A i \in 1 .. messages : FrContent[i] = ring[(readFrom + i) % Capacity]

\* The invariant gives the ring's content its shape.
LEMMA FrContentType == FrFull => FrContentShape
<1> SUFFICES ASSUME FrFull PROVE FrContentShape
  OBVIOUS
<1>1. messages \in 0 .. Capacity /\ \A i \in 1 .. messages : ring[(readFrom + i) % Capacity] \in Items
  BY FrShape DEF FrFull, FrRingSound
<1> QED
  BY <1>1, FrUsers DEF FrContent, FrContentShape

\* BoundedQueue counts as we do.
LEMMA FrSameCount == \A S : FrAbstract!Cardinality(S) = Cardinality(S)
BY DEF FrAbstract!Cardinality, Cardinality

\* A queue that holds as many items as it has room for is full, whoever else passes.
LEMMA FrIsFull ==
  ASSUME FrFull, messages = Capacity, NEW t \in FrTasks
  PROVE  FrAbstract!Full(t)
<1>1. IsFiniteSet(FrAbstract!Passing(t))
  <2>1. FrAbstract!Passing(t) \subseteq FrTasks
    BY FrUsers DEF FrAbstract!Passing, FrAbstract!Users
  <2>2. IsFiniteSet(FrTasks)
    BY QueueAssumption, FS_Union DEF FrTasks
  <2> QED
    BY <2>1, <2>2, FS_Subset
<1>2. Cardinality(FrAbstract!Passing(t)) \in Nat
  BY <1>1, FS_CardinalityType
<1>3. Len(FrContent) = Capacity
  BY FrContentType DEF FrContentShape
<1> QED
  BY <1>2, <1>3, FrSameCount, FrUsers DEF FrAbstract!Full

\* A step that neither a task's call nor the content shows
LEMMA FrStutters ==
  ASSUME FrContent' = FrContent, NEW t \in FrTasks, FrCallOf(t)' = FrCallOf(t),
         \A v \in FrTasks : v # t => FrCallOf(v)' = FrCallOf(v)
  PROVE  FrQueueStep
<1>1. \A v \in FrTasks : FrCallOf(v)' = FrCallOf(v)
  OBVIOUS
<1>2. FrCalls' = FrCalls
  BY <1>1 DEF FrCalls
<1> QED
  BY <1>2 DEF FrQueueStep

\* A call that gives up: a send on a full queue, a receive on an empty one
LEMMA FrGivesUp ==
  ASSUME FrFull, NEW t \in FrTasks, InFrCall(t) \/ frAt[t] = "raised", FrContent' = FrContent,
         OnlyFrCall(t, [phase |-> "failed"]), frArg[t].patience # "forever",
         t \in FrSenders => messages = Capacity \/ frArg[t].entered,
         t \notin FrSenders => messages = 0
  PROVE  FrQueueStep
<1>1. /\ FrCalls' = [FrCalls EXCEPT ![t] = [phase |-> "failed"]]
      /\ FrCalls[t] = FrCallOf(t) /\ t \in FrAbstract!Users
  BY FrCallChanges
<1>2. FrCalls[t].patience # "forever"
  BY <1>1 DEF FrCallOf, FrPatience, InFrCall, Locked
<1>3. CASE t \in FrSenders
  <2>1. FrCalls[t].phase = "sending" /\ FrCalls[t].met = frArg[t].entered
    BY <1>1, <1>3 DEF FrCallOf, InFrCall, Locked
  <2>2. FrAbstract!Full(t) \/ FrCalls[t].met
    BY <1>3, <2>1, FrIsFull
  <2>3. FrAbstract!GiveUp(t)
    BY <1>1, <1>2, <2>1, <2>2
    DEF FrAbstract!GiveUp, FrAbstract!Becomes, FrAbstract!Full, FrAbstract!Passing, FrCalls
  <2> QED
    BY <1>1, <2>3 DEF FrQueueStep, FrAbstract!Next
<1>4. CASE t \notin FrSenders
  <2>1. FrCalls[t].phase = "receiving"
    BY <1>1, <1>4 DEF FrCallOf, InFrCall, Locked
  <2>2. FrContent = <<>>
    BY <1>4, FrContentType DEF FrContentShape
  <2>3. FrAbstract!GiveUp(t)
    BY <1>1, <1>2, <2>1, <2>2 DEF FrAbstract!GiveUp, FrAbstract!Becomes, FrCalls
  <2> QED
    BY <1>1, <2>3 DEF FrQueueStep, FrAbstract!Next
<1> QED
  BY <1>3, <1>4


-----------------------------------------------------------------------------
(* The ring.                                                               *)

\* An item is copied in behind the others.
LEMMA FrCopiesIn ==
  ASSUME FrFull, NEW item \in Items, CopyIn(item), messages < Capacity
  PROVE  FrRingSound' /\ FrContent' = Append(FrContent, item)
<1>1. /\ ring' = [ring EXCEPT ![writeTo] = item] /\ writeTo' = (writeTo + 1) % Capacity
      /\ messages' = messages + 1 /\ readFrom' = readFrom
  BY DEF CopyIn
<1>2. /\ messages \in 0 .. Capacity - 1 /\ readFrom \in FrPlaces /\ writeTo \in FrPlaces
      /\ ring \in [FrPlaces -> Items \cup {Blank}]
      /\ writeTo = (readFrom + (messages + 1)) % Capacity
      /\ Capacity \in Nat \ {0}
  BY FrShape, FrUsers DEF FrFull, FrRingSound
<1>3. PICK n \in 1 .. Capacity : n = messages + 1 /\ n - 1 = messages
  BY <1>2
<1>4. writeTo = (readFrom + n) % Capacity
  BY <1>2, <1>3
<1>5. writeTo' = (readFrom + (n + 1)) % Capacity
  <2>1. n \in 0 .. Capacity
    BY <1>2
  <2> QED
    BY <1>1, <1>2, <1>4, <2>1, FrRingNext
<1>6. ring'[(readFrom + n) % Capacity] = item
  BY <1>1, <1>2, <1>4
<1>7. ASSUME NEW i \in 1 .. n - 1
      PROVE  /\ ring'[(readFrom + i) % Capacity] = ring[(readFrom + i) % Capacity]
             /\ ring[(readFrom + i) % Capacity] \in Items
  <2>1. i \in 1 .. Capacity /\ i \in 0 .. Capacity /\ i # n /\ i \in 1 .. messages
    BY <1>2, <1>3
  <2>2. (readFrom + i) % Capacity # writeTo
    BY <1>2, <1>4, <2>1, FrRingApart
  <2>3. (readFrom + i) % Capacity \in FrPlaces
    BY <1>2, <2>1, FrRingPlace
  <2> QED
    BY <1>1, <1>2, <2>1, <2>2, <2>3 DEF FrFull, FrRingSound
<1>8. FrRingSound'
  <2>1. ASSUME NEW i \in 1 .. n PROVE ring'[(readFrom + i) % Capacity] \in Items
    <3>1. CASE i = n
      BY <1>6, <3>1
    <3>2. CASE i # n
      <4>1. i \in 1 .. n - 1
        BY <3>2
      <4> QED
        BY <1>7, <4>1
    <3> QED
      BY <3>1, <3>2
  <2>2. messages' = n /\ readFrom' = readFrom
    BY <1>1, <1>3
  <2> QED
    BY <1>5, <2>1, <2>2 DEF FrRingSound
<1>9. FrContent' = Append(FrContent, item)
  <2>1. /\ FrContent \in Seq(Items) /\ Len(FrContent) = messages
        /\ \A i \in 1 .. messages : FrContent[i] = ring[(readFrom + i) % Capacity]
    BY FrContentType DEF FrContentShape
  <2>2. PICK old \in Seq(Items) : /\ old = FrContent /\ Len(old) = n - 1
                                  /\ \A i \in 1 .. n - 1 : old[i] = ring[(readFrom + i) % Capacity]
    BY <1>3, <2>1
  <2>3. \A i \in 1 .. n : ring'[(readFrom + i) % Capacity] = IF i = n THEN item ELSE old[i]
    <3> SUFFICES ASSUME NEW i \in 1 .. n
                 PROVE  ring'[(readFrom + i) % Capacity] = IF i = n THEN item ELSE old[i]
      OBVIOUS
    <3>1. i # n => i \in 1 .. n - 1
      OBVIOUS
    <3> QED
      BY <1>6, <1>7, <2>2, <3>1
  <2>4. PICK new \in Seq(Items) : /\ new = FrContent' /\ Len(new) = n
                                  /\ \A i \in 1 .. n : new[i] = IF i = n THEN item ELSE old[i]
    <3>1. FrContent' = [i \in 1 .. n |-> ring'[(readFrom + i) % Capacity]]
      BY <1>1, <1>3 DEF FrContent
    <3>2. \A i \in 1 .. n : ring'[(readFrom + i) % Capacity] \in Items
      BY <2>2, <2>3
    <3> QED
      BY <2>3, <3>1, <3>2
  <2>5. new = Append(old, item)
    BY <2>2, <2>4
  <2> QED
    BY <2>2, <2>4, <2>5
<1> QED
  BY <1>8, <1>9

\* The first item is copied out.
LEMMA FrCopiesOut ==
  ASSUME FrFull, NEW t \in FrTasks, CopyOut(t), messages > 0
  PROVE  /\ FrRingSound' /\ ring[(readFrom + 1) % Capacity] \in Items
         /\ FrContent # <<>> /\ Head(FrContent) = ring[(readFrom + 1) % Capacity]
         /\ FrContent' = Tail(FrContent)
<1>1. /\ readFrom' = (readFrom + 1) % Capacity /\ messages' = messages - 1
      /\ ring' = ring /\ writeTo' = writeTo
  BY DEF CopyOut
<1>2. /\ messages \in 1 .. Capacity /\ readFrom \in FrPlaces
      /\ writeTo = (readFrom + (messages + 1)) % Capacity
      /\ \A i \in 1 .. messages : ring[(readFrom + i) % Capacity] \in Items
      /\ Capacity \in Nat \ {0}
  BY FrShape, FrUsers DEF FrFull, FrRingSound
<1>3. PICK n \in 0 .. Capacity - 1 : n = messages - 1 /\ messages = n + 1
  BY <1>2
<1>4. 1 \in 1 .. messages
  BY <1>2
<1>5. ring[(readFrom + 1) % Capacity] \in Items
  BY <1>2, <1>4
<1>6. ASSUME NEW i \in 0 .. Capacity
      PROVE  (readFrom' + i) % Capacity = (readFrom + (i + 1)) % Capacity
  BY <1>1, <1>2, FrRingNext
<1>7. FrRingSound'
  <2>1. writeTo' = (readFrom' + (n + 1)) % Capacity
    <3>1. n + 1 \in 0 .. Capacity /\ (n + 1) + 1 = messages + 1
      BY <1>2, <1>3
    <3> QED
      BY <1>1, <1>2, <1>6, <3>1
  <2>2. ASSUME NEW i \in 1 .. n PROVE ring'[(readFrom' + i) % Capacity] \in Items
    <3>1. i \in 0 .. Capacity /\ i + 1 \in 1 .. messages
      BY <1>2, <1>3
    <3> QED
      BY <1>1, <1>2, <1>6, <3>1
  <2> QED
    BY <1>1, <1>3, <2>1, <2>2 DEF FrRingSound
<1>8. PICK old \in Seq(Items) :
        /\ old = FrContent /\ Len(old) = n + 1
        /\ \A i \in 1 .. n + 1 : old[i] = ring[(readFrom + i) % Capacity]
  BY <1>3, FrContentType DEF FrContentShape
<1>9. old # <<>> /\ Head(old) = ring[(readFrom + 1) % Capacity]
  <2>1. 1 \in 1 .. n + 1
    OBVIOUS
  <2>2. old[1] = ring[(readFrom + 1) % Capacity]
    BY <1>8, <2>1
  <2> QED
    BY <1>8, <2>2
<1>10. FrContent' = Tail(old)
  <2>1. ASSUME NEW i \in 1 .. n
        PROVE  ring'[(readFrom' + i) % Capacity] = old[i + 1] /\ old[i + 1] \in Items
    <3>1. i \in 0 .. Capacity /\ i + 1 \in 1 .. n + 1
      BY <1>2
    <3> QED
      BY <1>1, <1>6, <1>8, <3>1
  <2>2. PICK rest \in Seq(Items) : /\ rest = Tail(old) /\ Len(rest) = n
                                   /\ \A i \in 1 .. n : rest[i] = old[i + 1]
    <3>1. /\ Tail(old) \in Seq(Items) /\ Len(Tail(old)) = n
          /\ \A i \in 1 .. n : Tail(old)[i] = old[i + 1]
      BY <1>8, <1>9
    <3> QED
      BY <3>1
  <2>3. FrContent' = [i \in 1 .. n |-> ring'[(readFrom' + i) % Capacity]]
    BY <1>1, <1>3 DEF FrContent
  <2>4. FrContent' = [i \in 1 .. n |-> rest[i]]
    BY <2>1, <2>2, <2>3
  <2>5. rest \in [1 .. n -> Items]
    BY <2>2, LenProperties
  <2> QED
    BY <2>2, <2>4, <2>5
<1> QED
  BY <1>5, <1>7, <1>8, <1>9, <1>10

\* What leaves the ring alone leaves its content alone.
LEMMA FrRingStays ==
  ASSUME FrFull, UNCHANGED frData
  PROVE  FrRingSound' /\ FrContent' = FrContent
<1>1. UNCHANGED <<ring, writeTo, readFrom, messages>>
  BY DEF frData
<1>2. FrRingSound'
  BY <1>1 DEF FrFull, FrRingSound
<1>3. FrContent' = FrContent
  BY <1>1 DEF FrContent
<1> QED
  BY <1>2, <1>3


-----------------------------------------------------------------------------
(* The steps of the queue.                                                 *)

\* The rest of the invariant is kept, and the step is one of BoundedQueue.
FrFollows == FrRingSound' /\ (\A v \in FrTasks : FrCallKept(v)') /\ FrQueueStep

\* Those that are woken have been waiting.
LEMMA FrWokenWaited ==
  ASSUME FrInv
  PROVE  /\ \A n \in 0 .. Len(waitingToReceive) : \A u \in Woken(waitingToReceive, n) :
              u \in Receivers /\ frAt[u] \in {"placed", "blocked"}
         /\ \A n \in 0 .. Len(waitingToSend) : \A u \in Woken(waitingToSend, n) :
              u \in Senders /\ frAt[u] \in {"placed", "blocked"}
<1>1. /\ waitingToReceive \in Seq(Receivers) /\ IsInjective(waitingToReceive)
      /\ waitingToSend \in Seq(Senders) /\ IsInjective(waitingToSend)
  BY FrShape
<1>2. \A n \in 0 .. Len(waitingToReceive) : Woken(waitingToReceive, n) \subseteq ToSet(waitingToReceive)
  BY <1>1, ListCut
<1>3. \A n \in 0 .. Len(waitingToSend) : Woken(waitingToSend, n) \subseteq ToSet(waitingToSend)
  BY <1>1, ListCut
<1> QED
  BY <1>2, <1>3, FrShape

\* A send with room, of a task or an interrupt
LEMMA FrComesFollows ==
  ASSUME FrFull, NEW t \in FrSenders, InFrCall(t) \/ frAt[t] = "raised", messages < Capacity,
         CopyIn(frArg[t].item), NEW woken, Goes(t, "done", woken),
         \A u \in woken : frAt[u] \in {"placed", "blocked"},
         frArg' = [frArg EXCEPT ![t] = NoFrArg]
  PROVE  FrFollows
<1>1. /\ t \in FrTasks /\ t \notin Receivers /\ frArg \in [FrTasks -> FrArgs] /\ Capacity \in Nat
      /\ messages \in 0 .. Capacity
  BY FrUsers, FrShape DEF FrFull
<1>2. PICK item : item = frArg[t].item
  OBVIOUS
<1>3. item \in Items
  BY <1>1, <1>2, QueueAssumption, FrUsers DEF FrFull, FrCallKept, InFrCall
<1>4. FrRingSound' /\ FrContent' = Append(FrContent, item)
  BY <1>2, <1>3, FrCopiesIn
<1>5. \A v \in FrTasks : v # t => frArg'[v] = frArg[v]
  BY <1>1
<1>6. /\ frAt'[t] = "done"
      /\ \A v \in FrTasks : v # t => FrCallOf(v)' = FrCallOf(v) /\ FrCallKept(v)'
  BY <1>1, <1>5, FrOthers
<1>7. FrCallKept(t)'
  BY <1>1, <1>6 DEF FrCallKept, InFrCall, Locked
<1>8. FrCallOf(t)' = [phase |-> "sent"]
  BY <1>1, <1>6 DEF FrCallOf
<1>9. OnlyFrCall(t, [phase |-> "sent"])
  BY <1>6, <1>8 DEF OnlyFrCall
<1>10. /\ FrCalls' = [FrCalls EXCEPT ![t] = [phase |-> "sent"]]
       /\ FrCalls[t] = FrCallOf(t) /\ t \in FrAbstract!Users
  BY <1>1, <1>9, FrCallChanges
<1>11. FrCalls[t].phase = "sending" /\ FrCalls[t].item = item
  BY <1>2, <1>10 DEF FrCallOf, InFrCall, Locked
<1>12. Len(FrContent) < Capacity
  BY FrContentType DEF FrContentShape
<1>13. FrAbstract!Enqueue(t)
  BY <1>4, <1>10, <1>11, <1>12 DEF FrAbstract!Enqueue, FrAbstract!Becomes, FrCalls
<1>14. FrQueueStep
  BY <1>10, <1>13 DEF FrQueueStep, FrAbstract!Next
<1> QED
  BY <1>4, <1>6, <1>7, <1>14 DEF FrFollows

\* xQueueGenericSend with room
LEMMA FrSendFollows ==
  ASSUME FrFull, NEW t \in FrTasks, FrSend(t)
  PROVE  FrFollows
<1>1. First(waitingToReceive) \in 0 .. Len(waitingToReceive)
  BY FirstCut, FrShape DEF FrFull
<1>2. PICK woken : woken = Woken(waitingToReceive, First(waitingToReceive))
  OBVIOUS
<1>3. \A u \in woken : frAt[u] \in {"placed", "blocked"}
  BY <1>1, <1>2, FrWokenWaited DEF FrFull
<1>4. t \in FrSenders /\ InFrCall(t)
  BY FrUsers DEF FrSend, InFrCall
<1> QED
  BY <1>2, <1>3, <1>4, FrComesFollows DEF FrSend

\* xQueueReceive with an item
LEMMA FrReceiveFollows ==
  ASSUME FrFull, NEW t \in FrTasks, FrReceive(t)
  PROVE  FrFollows
<1>1. /\ t \in Receivers /\ t \notin FrSenders /\ frAt[t] = "top" /\ messages > 0 /\ CopyOut(t)
      /\ Goes(t, "done", Woken(waitingToSend, First(waitingToSend)))
      /\ frArg \in [FrTasks -> FrArgs]
  BY FrUsers, FrShape DEF FrReceive, FrFull
<1>2. First(waitingToSend) \in 0 .. Len(waitingToSend)
  BY FirstCut, FrShape DEF FrFull
<1>3. PICK woken : woken = Woken(waitingToSend, First(waitingToSend))
  OBVIOUS
<1>4. \A u \in woken : frAt[u] \in {"placed", "blocked"}
  BY <1>2, <1>3, FrWokenWaited DEF FrFull
<1>5. PICK item \in Items : item = ring[(readFrom + 1) % Capacity]
  BY <1>1, FrCopiesOut
<1>6. /\ FrRingSound' /\ FrContent # <<>> /\ Head(FrContent) = item
      /\ FrContent' = Tail(FrContent)
  BY <1>1, <1>5, FrCopiesOut
<1>7. frArg' = [frArg EXCEPT ![t] = [NoFrArg EXCEPT !.item = item]]
  BY <1>1, <1>5 DEF CopyOut
<1>8. /\ frAt'[t] = "done" /\ frArg'[t].item = item
      /\ \A v \in FrTasks : v # t => FrCallOf(v)' = FrCallOf(v) /\ FrCallKept(v)'
  <2>1. \A v \in FrTasks : v # t => frArg'[v] = frArg[v]
    BY <1>1, <1>7
  <2>2. frArg'[t].item = item
    BY <1>1, <1>7 DEF NoFrArg
  <2> QED
    BY <1>1, <1>3, <1>4, <2>1, <2>2, FrOthers
<1>9. FrCallKept(t)'
  BY <1>1, <1>8 DEF FrCallKept, InFrCall, Locked
<1>10. FrCallOf(t)' = [phase |-> "received", item |-> item]
  BY <1>1, <1>8 DEF FrCallOf
<1>11. OnlyFrCall(t, [phase |-> "received", item |-> item])
  BY <1>8, <1>10 DEF OnlyFrCall
<1>12. /\ FrCalls' = [FrCalls EXCEPT ![t] = [phase |-> "received", item |-> item]]
       /\ FrCalls[t] = FrCallOf(t) /\ t \in FrAbstract!Users
  BY <1>11, FrCallChanges
<1>13. FrCalls[t].phase = "receiving"
  BY <1>1, <1>12 DEF FrCallOf
<1>14. FrAbstract!Dequeue(t)
  BY <1>6, <1>12, <1>13 DEF FrAbstract!Dequeue, FrAbstract!Becomes, FrCalls
<1>15. FrQueueStep
  BY <1>12, <1>14 DEF FrQueueStep, FrAbstract!Next
<1> QED
  BY <1>6, <1>8, <1>9, <1>15 DEF FrFollows

\* The scheduler calls, the looks and the sleeps
LEMMA FrWaitFollows ==
  ASSUME FrFull, NEW t \in FrTasks, FrSuspend(t) \/ FrLook(t) \/ FrPlace(t) \/ FrTick(t)
  PROVE  FrFollows
<1>1. /\ UNCHANGED frData /\ UNCHANGED frArg
      /\ frAt[t] \in {"suspend", "looking", "stuck", "blocked"}
  BY DEF FrSuspend, FrLook, FrPlace, FrTick, frData
<1>2. PICK to \in {"looking", "late", "stuck", "again", "placed", "top"} :
        /\ Goes(t, to, {})
        /\ to = "late" => frArg[t].patience = "timed"
  BY DEF FrSuspend, FrLook, FrPlace, FrTick
<1>3. /\ frAt'[t] = to
      /\ \A v \in FrTasks : v # t => FrCallOf(v)' = FrCallOf(v) /\ FrCallKept(v)'
  BY <1>1, <1>2, FrOthers
<1>4. FrRingSound' /\ FrContent' = FrContent
  BY <1>1, FrRingStays
<1>5. FrCallOf(t)' = FrCallOf(t)
  BY <1>1, <1>2, <1>3, FrSameCall DEF InFrCall, Locked
<1>6. FrCallKept(t)'
  <2>1. FrCallKept(t) /\ InFrCall(t) /\ frArg[t].entered
    BY <1>1 DEF FrFull, FrCallKept, InFrCall, Locked
  <2> QED
    BY <1>1, <1>2, <1>3, <2>1 DEF FrCallKept, InFrCall, Locked
<1>7. FrQueueStep
  BY <1>3, <1>4, <1>5, FrStutters
<1> QED
  BY <1>3, <1>4, <1>6, <1>7 DEF FrFollows

\* A call that fails, of a task or an interrupt
LEMMA FrFailFollows ==
  ASSUME FrFull, NEW t \in FrTasks, InFrCall(t) \/ frAt[t] = "raised",
         Goes(t, "failed", {}), UNCHANGED frData,
         \A v \in FrTasks : v # t => frArg'[v] = frArg[v],
         frArg[t].patience # "forever",
         t \in FrSenders => messages = Capacity \/ frArg[t].entered,
         t \notin FrSenders => messages = 0
  PROVE  FrFollows
<1>1. /\ frAt'[t] = "failed"
      /\ \A v \in FrTasks : v # t => FrCallOf(v)' = FrCallOf(v) /\ FrCallKept(v)'
  BY FrOthers
<1>2. FrRingSound' /\ FrContent' = FrContent
  BY FrRingStays
<1>3. FrCallOf(t)' = [phase |-> "failed"]
  BY <1>1 DEF FrCallOf
<1>4. OnlyFrCall(t, [phase |-> "failed"])
  BY <1>1, <1>3 DEF OnlyFrCall
<1>5. FrCallKept(t)'
  BY <1>1 DEF FrCallKept, InFrCall, Locked
<1>6. FrQueueStep
  BY <1>2, <1>4, FrGivesUp DEF InFrCall
<1> QED
  BY <1>1, <1>2, <1>5, <1>6 DEF FrFollows

\* A send that has met a full queue is otherwise as it was.
LEMMA FrHasMet ==
  ASSUME NEW item, NEW patience, NEW met
  PROVE  [[phase |-> "sending", item |-> item, patience |-> patience, met |-> met]
            EXCEPT !.met = TRUE]
           = [phase |-> "sending", item |-> item, patience |-> patience, met |-> TRUE]
<1> DEFINE c == [phase |-> "sending", item |-> item, patience |-> patience, met |-> met]
           d == [phase |-> "sending", item |-> item, patience |-> patience, met |-> TRUE]
           e == [c EXCEPT !.met = TRUE]
<1>1. /\ DOMAIN c = {"phase", "item", "patience", "met"}
      /\ DOMAIN d = {"phase", "item", "patience", "met"}
      /\ d = [x \in DOMAIN d |-> d[x]]
  OBVIOUS
<1>2. e = [x \in DOMAIN c |-> IF x = "met" THEN TRUE ELSE c[x]]
  OBVIOUS
<1>3. \A x \in {"phase", "item", "patience"} : c[x] = d[x]
  OBVIOUS
<1>4. d["met"] = TRUE
  OBVIOUS
<1> HIDE DEF c, d, e
<1>5. \A x \in DOMAIN d : d[x] = IF x = "met" THEN TRUE ELSE c[x]
  BY <1>1, <1>3, <1>4
<1>6. d = [x \in DOMAIN c |-> IF x = "met" THEN TRUE ELSE c[x]]
  BY <1>1, <1>5
<1>7. e = d
  BY <1>2, <1>6
<1> QED
  BY <1>7 DEF c, d, e

\* There is nothing to be had: a poll fails, any other call has met a full queue.
LEMMA FrStuckFollows ==
  ASSUME FrFull, NEW t \in FrTasks, FrMeetsStuck(t)
  PROVE  FrFollows
<1>1. /\ frAt[t] = "top" /\ FrStuck(t) /\ UNCHANGED frData /\ frArg \in [FrTasks -> FrArgs]
      /\ t \notin Interrupts /\ (t \in FrSenders <=> t \in Senders)
  BY FrUsers, FrShape DEF FrMeetsStuck, frData, FrFull, FrInv, Places
<1>2. /\ t \in FrSenders => messages = Capacity
      /\ t \notin FrSenders => messages = 0
  BY <1>1 DEF FrStuck
<1>3. CASE frArg[t].patience \in {"poll", "over"}
  <2>1. /\ Goes(t, "failed", {}) /\ \A v \in FrTasks : v # t => frArg'[v] = frArg[v]
        /\ frArg[t].patience # "forever"
    BY <1>1, <1>3 DEF FrMeetsStuck
  <2> QED
    BY <1>1, <1>2, <2>1, FrFailFollows DEF InFrCall
<1>4. CASE frArg[t].patience \notin {"poll", "over"}
  <2>1. Goes(t, "suspend", {}) /\ frArg' = [frArg EXCEPT ![t].entered = TRUE]
    BY <1>4 DEF FrMeetsStuck
  <2>2. /\ frArg'[t] = [frArg[t] EXCEPT !.entered = TRUE]
        /\ \A v \in FrTasks : v # t => frArg'[v] = frArg[v]
    BY <1>1, <2>1
  <2>3. /\ frArg'[t].item = frArg[t].item /\ frArg'[t].patience = frArg[t].patience
        /\ frArg'[t].entered = TRUE
    BY <1>1, <2>2 DEF FrArgs
  <2>4. /\ frAt'[t] = "suspend"
        /\ \A v \in FrTasks : v # t => FrCallOf(v)' = FrCallOf(v) /\ FrCallKept(v)'
    BY <2>1, <2>2, FrOthers
  <2>5. FrRingSound' /\ FrContent' = FrContent
    BY <1>1, FrRingStays
  <2>6. FrCallKept(t)'
    <3>1. FrCallKept(t) /\ InFrCall(t)
      BY <1>1 DEF FrFull, InFrCall
    <3> QED
      BY <2>3, <2>4, <3>1 DEF FrCallKept, InFrCall, Locked
  <2>7. CASE t \in FrSenders
    <3>1. /\ FrCallOf(t) = [phase |-> "sending", item |-> frArg[t].item,
                            patience |-> FrPatience(t), met |-> frArg[t].entered]
          /\ FrCallOf(t)' = [phase |-> "sending", item |-> frArg[t].item,
                             patience |-> FrPatience(t), met |-> TRUE]
      BY <1>1, <2>3, <2>4, <2>7 DEF FrCallOf, FrPatience
    <3>2. FrCallOf(t)' = [FrCallOf(t) EXCEPT !.met = TRUE]
      <4>1. PICK met : met = frArg[t].entered
        OBVIOUS
      <4> QED
        BY <3>1, <4>1, FrHasMet
    <3>3. OnlyFrCall(t, [FrCallOf(t) EXCEPT !.met = TRUE])
      BY <2>4, <3>2 DEF OnlyFrCall
    <3>4. /\ FrCalls' = [FrCalls EXCEPT ![t] = [FrCallOf(t) EXCEPT !.met = TRUE]]
          /\ FrCalls[t] = FrCallOf(t) /\ t \in FrAbstract!Users
      BY <3>3, FrCallChanges
    <3>5. FrCalls[t].phase = "sending" /\ FrAbstract!Full(t)
      BY <1>2, <2>7, <3>1, <3>4, FrIsFull
    <3>6. FrAbstract!MeetFull(t)
      BY <2>5, <3>4, <3>5
      DEF FrAbstract!MeetFull, FrAbstract!Becomes, FrAbstract!Full, FrAbstract!Passing, FrCalls
    <3>7. FrQueueStep
      BY <3>4, <3>6 DEF FrQueueStep, FrAbstract!Next
    <3> QED
      BY <2>4, <2>5, <2>6, <3>7 DEF FrFollows
  <2>8. CASE t \notin FrSenders
    <3>1. FrCallOf(t)' = FrCallOf(t)
      BY <1>1, <2>3, <2>4, <2>8 DEF FrCallOf, FrPatience
    <3>2. FrQueueStep
      BY <2>4, <2>5, <3>1, FrStutters
    <3> QED
      BY <2>4, <2>5, <2>6, <3>2 DEF FrFollows
  <2> QED
    BY <2>7, <2>8
<1> QED
  BY <1>3, <1>4

\* The scheduler goes on: a send whose time is over fails, any other call goes on.
LEMMA FrUnlockFollows ==
  ASSUME FrFull, NEW t \in FrTasks, FrUnlock(t)
  PROVE  FrFollows
<1>1. /\ frAt[t] \in {"placed", "again", "late"} /\ UNCHANGED frData /\ UNCHANGED frArg
      /\ t \notin Interrupts /\ (t \in FrSenders <=> t \in Senders)
  BY FrUsers DEF FrUnlock, frData, FrFull, FrInv, Places
<1>2. InFrCall(t) /\ frArg[t].entered /\ (frAt[t] = "late" => frArg[t].patience = "timed")
  BY <1>1 DEF FrFull, FrCallKept, InFrCall, Locked
<1>3. PICK n \in 0 .. Len(waitingToReceive) :
        n = IF txLock < Len(waitingToReceive) THEN txLock ELSE Len(waitingToReceive)
  <2>1. t \in Tasks /\ Runs(t) /\ frAt[t] \in Locked
    BY <1>1, FrUsers DEF FrUnlock, Locked
  <2>2. txLock \in 0 .. Capacity
    BY <2>1, LockKnown DEF FrFull
  <2>3. Len(waitingToReceive) \in Nat
    BY FrShape DEF FrFull
  <2> QED
    BY <2>2, <2>3
<1>4. PICK woken : woken = Woken(waitingToReceive, n)
  OBVIOUS
<1>5. Goes(t, After(t, woken), woken)
  BY <1>3, <1>4 DEF FrUnlock
<1>6. PICK to : to = After(t, woken)
  OBVIOUS
<1>7. /\ to \in {"top", "blocked", "expired", "failed"}
      /\ to \in {"expired", "failed"} => frAt[t] = "late"
      /\ to = "failed" => t \in Senders
  BY <1>1, <1>6 DEF After
<1>8. /\ frAt'[t] = to
      /\ \A v \in FrTasks : v # t => FrCallOf(v)' = FrCallOf(v) /\ FrCallKept(v)'
  <2>1. \A u \in woken : frAt[u] \in {"placed", "blocked"}
    BY <1>4, FrWokenWaited DEF FrFull
  <2> QED
    BY <1>1, <1>5, <1>6, <2>1, FrOthers
<1>9. FrRingSound' /\ FrContent' = FrContent
  BY <1>1, FrRingStays
<1>10. FrCallKept(t)'
  <2>1. FrCallKept(t)
    BY DEF FrFull
  <2> QED
    BY <1>1, <1>2, <1>7, <1>8, <2>1 DEF FrCallKept, InFrCall, Locked
<1>11. CASE to = "failed"
  <2>1. OnlyFrCall(t, [phase |-> "failed"])
    <3>1. FrCallOf(t)' = [phase |-> "failed"]
      BY <1>8, <1>11 DEF FrCallOf
    <3> QED
      BY <1>8, <3>1 DEF OnlyFrCall
  <2>2. frArg[t].patience # "forever" /\ t \in FrSenders
    BY <1>1, <1>2, <1>7, <1>11
  <2>3. FrQueueStep
    BY <1>2, <1>9, <2>1, <2>2, FrGivesUp
  <2> QED
    BY <1>8, <1>9, <1>10, <2>3 DEF FrFollows
<1>12. CASE to # "failed"
  <2>1. FrCallOf(t)' = FrCallOf(t)
    BY <1>1, <1>2, <1>7, <1>8, <1>12, FrSameCall DEF InFrCall, Locked
  <2>2. FrQueueStep
    BY <1>8, <1>9, <2>1, FrStutters
  <2> QED
    BY <1>8, <1>9, <1>10, <2>2 DEF FrFollows
<1> QED
  BY <1>11, <1>12

\* A receive whose time is over fails on an empty queue, or looks once more.
LEMMA FrExpiredFollows ==
  ASSUME FrFull, NEW t \in FrTasks, FrExpired(t)
  PROVE  FrFollows
<1>1. /\ frAt[t] = "expired" /\ UNCHANGED frData /\ t \in Receivers /\ t \notin FrSenders
      /\ frArg \in [FrTasks -> FrArgs] /\ frArg[t].patience = "timed" /\ t \notin Senders
      /\ frArg' = [frArg EXCEPT ![t].patience = "over"]
      /\ Goes(t, IF FrStuck(t) THEN "failed" ELSE "top", {})
  BY FrUsers, FrShape DEF FrExpired, frData, FrFull, FrInv, Places, FrCallKept
<1>2. \A v \in FrTasks : v # t => frArg'[v] = frArg[v]
  BY <1>1
<1>3. CASE FrStuck(t)
  <2>1. messages = 0 /\ frArg[t].patience # "forever" /\ Goes(t, "failed", {}) /\ InFrCall(t)
    BY <1>1, <1>3 DEF FrStuck, InFrCall
  <2> QED
    BY <1>1, <1>2, <2>1, FrFailFollows
<1>4. CASE ~ FrStuck(t)
  <2>1. Goes(t, "top", {})
    BY <1>1, <1>4
  <2>2. /\ frAt'[t] = "top"
        /\ \A v \in FrTasks : v # t => FrCallOf(v)' = FrCallOf(v) /\ FrCallKept(v)'
    BY <1>2, <2>1, FrOthers
  <2>3. FrRingSound' /\ FrContent' = FrContent
    BY <1>1, FrRingStays
  <2>4. frArg'[t].patience = "over"
    BY <1>1 DEF FrArgs
  <2>5. FrCallOf(t)' = FrCallOf(t)
    BY <1>1, <2>2, <2>4 DEF FrCallOf, FrPatience
  <2>6. FrCallKept(t)'
    BY <1>1, <2>2 DEF FrCallKept, Locked
  <2>7. FrQueueStep
    BY <2>2, <2>3, <2>5, FrStutters
  <2> QED
    BY <2>2, <2>3, <2>6, <2>7 DEF FrFollows
<1> QED
  BY <1>3, <1>4

\* xQueueGenericSendFromISR
LEMMA FrInterruptFollows ==
  ASSUME FrFull, NEW t \in FrTasks, FrInterrupt(t)
  PROVE  FrFollows
<1>1. /\ frAt[t] = "raised" /\ t \in Interrupts /\ t \in FrSenders
      /\ frArg \in [FrTasks -> FrArgs] /\ messages \in 0 .. Capacity /\ Capacity \in Nat
      /\ frArg[t].patience = "poll" /\ frArg' = [frArg EXCEPT ![t] = NoFrArg]
  BY FrUsers, FrShape DEF FrInterrupt, FrFull, FrInv, Places, FrCallKept
<1>2. CASE messages = Capacity
  <2>1. Goes(t, "failed", {}) /\ UNCHANGED frData
    BY <1>2 DEF FrInterrupt
  <2>2. \A v \in FrTasks : v # t => frArg'[v] = frArg[v]
    BY <1>1
  <2>3. frArg[t].patience # "forever"
    BY <1>1
  <2> QED
    BY <1>1, <1>2, <2>1, <2>2, <2>3, FrFailFollows
<1>3. CASE messages # Capacity
  <2>1. PICK n : n = IF txLock = UNLOCKED THEN First(waitingToReceive) ELSE 0
    OBVIOUS
  <2>2. CopyIn(frArg[t].item) /\ Goes(t, "done", Woken(waitingToReceive, n))
    BY <1>3, <2>1 DEF FrInterrupt
  <2>3. n \in 0 .. Len(waitingToReceive)
    <3>1. First(waitingToReceive) \in 0 .. Len(waitingToReceive) /\ Len(waitingToReceive) \in Nat
      BY FirstCut, FrShape DEF FrFull
    <3> QED
      BY <2>1, <3>1
  <2>4. \A u \in Woken(waitingToReceive, n) : frAt[u] \in {"placed", "blocked"}
    BY <2>3, FrWokenWaited DEF FrFull
  <2>5. messages < Capacity
    BY <1>1, <1>3
  <2> QED
    BY <1>1, <2>2, <2>4, <2>5, FrComesFollows
<1> QED
  BY <1>2, <1>3

\* A call begins.
LEMMA FrCallFollows ==
  ASSUME FrFull, NEW t \in FrTasks, FrCall(t)
  PROVE  FrFollows
<1>1. PICK a \in FrArgs :
        /\ a.item \in IF t \in FrSenders THEN Sends[t] ELSE {Blank}
        /\ a.patience \in Waits[t] /\ ~ a.entered /\ frArg' = [frArg EXCEPT ![t] = a]
  BY DEF FrCall
<1>2. PICK to : to = IF t \in Interrupts THEN "raised" ELSE "top"
  OBVIOUS
<1>3. /\ frAt[t] = "idle" /\ UNCHANGED frData /\ frAt' = [frAt EXCEPT ![t] = to]
      /\ frAt \in [FrTasks -> FrSteps] /\ frArg \in [FrTasks -> FrArgs]
  BY <1>2, FrShape DEF FrCall, frData, FrFull
<1>4. Goes(t, to, {})
  BY <1>3 DEF Goes
<1>5. frArg'[t] = a /\ \A v \in FrTasks : v # t => frArg'[v] = frArg[v]
  BY <1>1, <1>3
<1>6. /\ frAt'[t] = to
      /\ \A v \in FrTasks : v # t => FrCallOf(v)' = FrCallOf(v) /\ FrCallKept(v)'
  BY <1>4, <1>5, FrOthers
<1>7. FrRingSound' /\ FrContent' = FrContent
  BY <1>3, FrRingStays
<1>8. /\ Waits[t] \subseteq Patience /\ (t \in Interrupts => Waits[t] = {"poll"})
      /\ a.entered = FALSE /\ a.patience # "over"
  BY <1>1, QueueAssumption DEF FrTasks, FrArgs, Patience
<1>9. FrCallKept(t)'
  BY <1>1, <1>2, <1>5, <1>6, <1>8 DEF FrCallKept, Locked
<1>10. FrPatience(t)' = a.patience
  BY <1>5, <1>8 DEF FrPatience
<1>11. FrCallOf(t) = [phase |-> "none"]
  BY <1>3 DEF FrCallOf
<1>12. CASE t \in FrSenders
  <2> DEFINE c == [phase |-> "sending", item |-> a.item, patience |-> a.patience, met |-> FALSE]
  <2>1. FrCallOf(t)' = c
    BY <1>2, <1>5, <1>6, <1>8, <1>10, <1>12 DEF FrCallOf
  <2>2. OnlyFrCall(t, c)
    BY <1>6, <2>1 DEF OnlyFrCall
  <2>3. /\ FrCalls' = [FrCalls EXCEPT ![t] = c] /\ FrCalls[t] = [phase |-> "none"]
        /\ t \in FrAbstract!Users
    BY <1>11, <2>2, FrCallChanges
  <2>4. FrAbstract!Begin(t)
    BY <1>1, <1>7, <1>12, <2>3
    DEF FrAbstract!Begin, FrAbstract!Becomes, FrAbstract!NoCall, FrCalls
  <2>5. FrQueueStep
    BY <2>3, <2>4 DEF FrQueueStep, FrAbstract!Next
  <2> QED
    BY <1>6, <1>7, <1>9, <2>5 DEF FrFollows
<1>13. CASE t \notin FrSenders
  <2> DEFINE c == [phase |-> "receiving", patience |-> a.patience]
  <2>0. t \in Receivers
    BY <1>13, FrUsers
  <2>1. FrCallOf(t)' = c
    BY <1>2, <1>6, <1>10, <1>13, FrUsers DEF FrCallOf
  <2>2. OnlyFrCall(t, c)
    BY <1>6, <2>1 DEF OnlyFrCall
  <2>3. /\ FrCalls' = [FrCalls EXCEPT ![t] = c] /\ FrCalls[t] = [phase |-> "none"]
        /\ t \in FrAbstract!Users
    BY <1>11, <2>2, FrCallChanges
  <2>4. FrAbstract!Begin(t)
    BY <1>1, <1>7, <2>0, <2>3
    DEF FrAbstract!Begin, FrAbstract!Becomes, FrAbstract!NoCall, FrCalls
  <2>5. FrQueueStep
    BY <2>3, <2>4 DEF FrQueueStep, FrAbstract!Next
  <2> QED
    BY <1>6, <1>7, <1>9, <2>5 DEF FrFollows
<1> QED
  BY <1>12, <1>13

\* A call returns.
LEMMA FrReturnFollows ==
  ASSUME FrFull, NEW t \in FrTasks, FrReturn(t)
  PROVE  FrFollows
<1>1. /\ frAt[t] \in {"done", "failed"} /\ UNCHANGED frData /\ Goes(t, "idle", {})
      /\ frArg \in [FrTasks -> FrArgs] /\ frArg' = [frArg EXCEPT ![t] = NoFrArg]
  BY FrShape DEF FrReturn, frData, FrFull
<1>2. /\ frAt'[t] = "idle"
      /\ \A v \in FrTasks : v # t => FrCallOf(v)' = FrCallOf(v) /\ FrCallKept(v)'
  <2>1. \A v \in FrTasks : v # t => frArg'[v] = frArg[v]
    BY <1>1
  <2> QED
    BY <1>1, <2>1, FrOthers
<1>3. FrRingSound' /\ FrContent' = FrContent
  BY <1>1, FrRingStays
<1>4. FrCallKept(t)'
  BY <1>2 DEF FrCallKept, InFrCall, Locked
<1>5. FrCallOf(t)' = [phase |-> "none"]
  BY <1>2 DEF FrCallOf
<1>6. OnlyFrCall(t, [phase |-> "none"])
  BY <1>2, <1>5 DEF OnlyFrCall
<1>7. /\ FrCalls' = [FrCalls EXCEPT ![t] = [phase |-> "none"]]
      /\ FrCalls[t] = FrCallOf(t) /\ t \in FrAbstract!Users
  BY <1>6, FrCallChanges
<1>8. FrCallOf(t) \in FrAbstract!Answered
  <2>1. FrCallKept(t) /\ (t \in FrSenders \/ t \in Receivers)
    BY FrUsers DEF FrFull
  <2> QED
    BY <1>1, <2>1 DEF FrCallOf, FrCallKept, FrAbstract!Answered
<1>9. FrAbstract!Return(t)
  BY <1>3, <1>7, <1>8 DEF FrAbstract!Return, FrAbstract!Becomes, FrAbstract!NoCall, FrCalls
<1>10. FrQueueStep
  BY <1>7, <1>9 DEF FrQueueStep, FrAbstract!Next
<1> QED
  BY <1>2, <1>3, <1>4, <1>10 DEF FrFollows

\* Every step keeps the invariant and is a step of BoundedQueue, or nothing to it.
LEMMA FrStepFollows == FrFull /\ [FrNext]_frVars => FrFull' /\ FrQueueStep
<1> SUFFICES ASSUME FrFull, [FrNext]_frVars PROVE FrFull' /\ FrQueueStep
  OBVIOUS
<1>1. FrInv'
  BY FrStays DEF FrFull
<1>2. CASE UNCHANGED frVars
  <2>1. UNCHANGED <<frData, frAt, frArg>>
    BY <1>2 DEF frVars
  <2>2. FrRingSound' /\ FrContent' = FrContent
    BY <2>1, FrRingStays
  <2>3. \A v \in FrTasks : FrCallOf(v)' = FrCallOf(v) /\ FrCallKept(v)'
    BY <2>1 DEF FrFull, FrCallKept, InFrCall, FrCallOf, FrPatience
  <2>4. FrCalls' = FrCalls
    BY <2>3 DEF FrCalls
  <2> QED
    BY <1>1, <2>2, <2>3, <2>4 DEF FrFull, FrQueueStep
<1>3. ASSUME NEW t \in FrTasks,
             \/ FrCall(t) \/ FrSend(t) \/ FrReceive(t) \/ FrMeetsStuck(t) \/ FrSuspend(t)
             \/ FrLook(t) \/ FrPlace(t) \/ FrUnlock(t) \/ FrExpired(t) \/ FrTick(t)
             \/ FrInterrupt(t) \/ FrReturn(t)
      PROVE  FrFollows
  BY <1>3, FrCallFollows, FrSendFollows, FrReceiveFollows, FrStuckFollows, FrWaitFollows,
     FrUnlockFollows, FrExpiredFollows, FrInterruptFollows, FrReturnFollows
<1> QED
  BY <1>1, <1>2, <1>3 DEF FrNext, FrFull, FrFollows

\* A new queue is empty, and nobody is in a call.
LEMMA FrStartFollows == FrInit => FrFull /\ FrAbstract!Init
<1> SUFFICES ASSUME FrInit PROVE FrFull /\ FrAbstract!Init
  OBVIOUS
<1>1. /\ writeTo = 0 /\ readFrom = Capacity - 1 /\ messages = 0
      /\ \A t \in FrTasks : frAt[t] = "idle"
  BY DEF FrInit
<1>2. FrRingSound
  <2>1. (readFrom + (messages + 1)) % Capacity = 0
    <3>1. readFrom + (messages + 1) = Capacity
      BY <1>1, FrUsers
    <3> QED
      BY <3>1, FrUsers
  <2> QED
    BY <1>1, <2>1 DEF FrRingSound
<1>3. \A t \in FrTasks : FrCallKept(t)
  BY <1>1 DEF FrCallKept, InFrCall, Locked
<1>4. FrFull
  BY <1>2, <1>3, FrStarts DEF FrFull
<1>5. FrContent = <<>>
  BY <1>1, <1>4, FrContentType DEF FrContentShape
<1>6. FrCalls = [t \in FrAbstract!Users |-> [phase |-> "none"]]
  <2>1. FrAbstract!Users = FrTasks
    BY FrUsers DEF FrAbstract!Users
  <2>2. \A t \in FrTasks : FrCallOf(t) = [phase |-> "none"]
    BY <1>1 DEF FrCallOf
  <2> QED
    BY <2>1, <2>2 DEF FrCalls
<1> QED
  BY <1>4, <1>5, <1>6 DEF FrAbstract!Init, FrAbstract!NoCall, FrCalls

(* The queue of the FreeRTOS kernel is the queue of osal.h, with items that*)
(* come from interrupts and while the queue is locked: first in first out, *)
(* each item received once; a send gives up only when it has found the     *)
(* queue full and a receive only on an empty one, whoever is woken late or *)
(* loses its item to another task (xQueueGenericSend, xQueueReceive,       *)
(* xQueueGenericSendFromISR).                                              *)
THEOREM FreeRtosImplementsQueue == FrSpec => FrImplements
<1>1. FrInit => FrFull /\ FrAbstract!Init
  BY FrStartFollows
<1>2. FrFull /\ [FrNext]_frVars
        => FrFull' /\ [FrAbstract!Next]_<<FrContent, [t \in FrTasks |-> FrCallOf(t)]>>
  BY FrStepFollows DEF FrQueueStep, FrCalls
<1> QED
  BY <1>1, <1>2, PTL DEF FrSpec, FrImplements, FrAbstract!Spec

=============================================================================
