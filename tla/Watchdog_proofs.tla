-------------------------- MODULE Watchdog_proofs --------------------------
(***************************************************************************)
(* For every registry, every table that is large enough and all periods    *)
(* that satisfy WatchdogAssumption: on a board, where no task runs before  *)
(* all are registered, and as long as the clock does not wrap, every task  *)
(* has one record, only hung tasks are reported, no reset comes without a  *)
(* report, and a hung task leads to the reset within HealthTimeout + Iwdg. *)
(* All of it follows from one inductive invariant, IInv of Watchdog.       *)
(***************************************************************************)
EXTENDS Watchdog, FiniteSetTheorems, TLAPS

OnBoard == ~Concurrent /\ ~Wraps

-----------------------------------------------------------------------------
(* The registry and the places of the table.                               *)
LEMMA OrderFacts ==
  /\ Len(Order) \in Nat /\ DOMAIN Order = 1 .. Len(Order)
  /\ Capacity \in Nat /\ Len(Order) <= Capacity /\ Places = 0 .. Capacity - 1
  /\ \A k \in DOMAIN Order : Order[k] \in Names
  /\ \A n \in Names : \E k \in DOMAIN Order : Order[k] = n
  /\ \A j, k \in DOMAIN Order : Order[j] = Order[k] => j = k
  /\ NoName \notin Names /\ "main" \notin Names /\ "Watchdog" \in Names
  /\ TimeModulus \in Nat \ {0}
<1>1. Order \in Seq(Names)
  BY TraceAssumption
<1> QED
  BY <1>1, TraceAssumption, WatchdogAssumption DEF Places, Names

LEMMA PeriodFacts ==
  /\ HealthTimeout \in Nat /\ Interval \in Nat \ {0} /\ MaxGap \in Nat /\ Iwdg \in Nat
  /\ MaxGap <= HealthTimeout /\ Interval + 1 < Iwdg
BY WatchdogAssumption

(* The types that the steps below need.                                    *)
LEMMA TypeFacts ==
  ASSUME IInv
  PROVE  /\ count \in Nat /\ count <= Capacity /\ started \in Nat /\ started <= Len(Order)
         /\ now \in Nat /\ now < TimeModulus /\ sampled \in Nat /\ index \in Nat /\ rest \in Nat
         /\ sinceKick \in Nat /\ index <= count
         /\ \A i \in Places : /\ table[i] \in Records
                              /\ table[i].checkIn \in Nat /\ table[i].stopped \in BOOLEAN
                              /\ table[i].stopRequested \in BOOLEAN
         /\ \A n \in Names : age[n] \in Nat /\ life[n] \in Lives
BY OrderFacts DEF IInv, WatchdogTypeOK, TraceTypeOK, Records, Places

(* After boot the table is the registry, record by record.                 *)
LEMMA BootedFacts ==
  ASSUME IInv, Booted
  PROVE  /\ count = started /\ count = Len(Order)
         /\ \A i \in Places : i < count => /\ Filled(i) /\ i + 1 \in DOMAIN Order
                                           /\ table[i].name = Owner(i) /\ Owner(i) \in Names
         /\ \A i \in Places : Filled(i) => i < count
         /\ \A n \in Names : life[n] # "unborn"
<1>1. count = started /\ count = Len(Order)
  BY DEF IInv, BootShape, Booted
<1>2. ASSUME NEW i \in Places, i < count
      PROVE  /\ Filled(i) /\ i + 1 \in DOMAIN Order
             /\ table[i].name = Owner(i) /\ Owner(i) \in Names
  <2>1. Filled(i) /\ i + 1 \in DOMAIN Order
    BY <1>1, <1>2, OrderFacts, TypeFacts DEF Filled, Booted
  <2> QED
    BY <2>1, OrderFacts DEF IInv, BootShape, Owner
<1>3. \A n \in Names : life[n] # "unborn"
  <2> SUFFICES ASSUME NEW n \in Names PROVE life[n] # "unborn"
    OBVIOUS
  <2>1. PICK k \in DOMAIN Order : Order[k] = n
    BY OrderFacts
  <2> QED
    BY <1>1, <2>1, OrderFacts, TypeFacts DEF IInv, BootShape
<1> QED
  BY <1>1, <1>2, <1>3 DEF Filled

(* A search after boot finds exactly the record of the task.               *)
LEMMA SearchFacts ==
  ASSUME IInv, Booted, NEW n \in Names
  PROVE  /\ ~MeetsNull(n)
         /\ \A i \in Places : FirstAt(n, i) <=> i < count /\ Owner(i) = n
         /\ \A i, j \in Places : FirstAt(n, i) /\ FirstAt(n, j) => i = j
         /\ \E i \in Places : i < count /\ Owner(i) = n
         /\ FoundAt(n) # {}
<1>1. \A i \in Places : i \in FoundAt(n) <=> i < count /\ Owner(i) = n
  BY BootedFacts DEF FoundAt
<1>2. ASSUME NEW i \in Places, NEW j \in Places, i < count, j < count, Owner(i) = n, Owner(j) = n
      PROVE  i = j
  <2>1. i + 1 = j + 1
    BY <1>2, BootedFacts, OrderFacts DEF Owner
  <2> QED
    BY <2>1, OrderFacts
<1>3. \A i \in Places : FirstAt(n, i) <=> i \in FoundAt(n)
  <2> SUFFICES ASSUME NEW i \in Places, i \in FoundAt(n), NEW j \in FoundAt(n)
               PROVE  i <= j
    BY DEF FirstAt
  <2>1. j \in Places
    BY DEF FoundAt
  <2>2. i = j
    BY <1>1, <1>2, <2>1
  <2> QED
    BY <2>1, <2>2, OrderFacts
<1>4. ~MeetsNull(n)
  BY BootedFacts, OrderFacts DEF MeetsNull
<1>5. \E i \in Places : i < count /\ Owner(i) = n
  <2>1. PICK k \in DOMAIN Order : Order[k] = n
    BY OrderFacts
  <2>2. k - 1 \in Places /\ k - 1 < count /\ k - 1 + 1 = k
    BY <2>1, BootedFacts, OrderFacts
  <2> QED
    BY <2>1, <2>2 DEF Owner
<1> QED
  BY <1>1, <1>2, <1>3, <1>4, <1>5

(* Every task has a record after boot, which tells its age and its end.    *)
LEMMA RecordOf ==
  ASSUME IInv, Booted, NEW n \in Names
  PROVE  \E i \in Places : /\ i < count /\ Owner(i) = n
                           /\ table[i].checkIn + age[n] = now
                           /\ table[i].stopped <=> life[n] = "gone"
<1>1. PICK i \in Places : i < count /\ Owner(i) = n
  BY SearchFacts
<1> QED
  BY <1>1, BootedFacts DEF IInv, AgesAgree, RecordsTell

-----------------------------------------------------------------------------
(* A step after boot that keeps the names keeps the shape of the table.    *)
LEMMA ShapeKept ==
  ASSUME IInv, Booted, UNCHANGED <<count, step, slot, started>>,
         \A i \in Places : table'[i].name = table[i].name,
         \A n \in Names : life'[n] # "unborn"
  PROVE  /\ BootShape' /\ Booted' /\ BeforeBoot'
         /\ \A i \in Places : Filled(i)' <=> Filled(i)
         /\ \A i \in Places : Owner(i)' = Owner(i)
<1>1. \A k \in DOMAIN Order : life'[Order[k]] # "unborn" /\ ~(k > started)
  BY BootedFacts, OrderFacts
<1>2. \A i \in Places : (Filled(i)' <=> Filled(i)) /\ Owner(i)' = Owner(i)
  BY DEF Filled, Owner
<1>3. Booted'
  BY DEF Booted
<1>4. BeforeBoot'
  BY <1>3 DEF BeforeBoot
<1> QED
  BY <1>1, <1>2, <1>3, <1>4 DEF IInv, BootShape, Booted

(* What a check-in changes: the time in one record, and at the head of the *)
(* loop perhaps the life of the task.                                      *)
LEMMA CheckInEffect ==
  ASSUME IInv, Booted, NEW t \in Names, CheckIn(t) \/ LoopTop(t)
  PROVE  /\ UNCHANGED <<count, step, slot, started, now>>
         /\ table' \in [Places -> Records]
         /\ \A i \in Places :
              /\ table'[i].name = table[i].name /\ table'[i].stopped = table[i].stopped
              /\ table'[i].checkIn = IF i < count /\ Owner(i) = t THEN now ELSE table[i].checkIn
         /\ life' \in [Names -> Lives]
         /\ life[t] \in {"running", "leaving"} /\ life'[t] \in {"running", "leaving"}
         /\ \A n \in Names : n # t => life'[n] = life[n]
         /\ \A n \in Names : life'[n] # "unborn"
<1>1. PICK i \in Places : FirstAt(t, i) /\ table' = [table EXCEPT ![i].checkIn = now]
  BY DEF CheckIn, LoopTop
<1>2. i < count /\ Owner(i) = t /\ \A j \in Places : j < count /\ Owner(j) = t => j = i
  BY <1>1, SearchFacts
<1>3. table \in [Places -> Records] /\ now \in 0 .. TimeModulus - 1 /\ life \in [Names -> Lives]
  BY DEF IInv, WatchdogTypeOK, TraceTypeOK
<1>4. table' \in [Places -> Records]
  BY <1>1, <1>3 DEF Records
<1>5. \A j \in Places :
        /\ table'[j].name = table[j].name /\ table'[j].stopped = table[j].stopped
        /\ table'[j].checkIn = IF j < count /\ Owner(j) = t THEN now ELSE table[j].checkIn
  BY <1>1, <1>2, <1>3 DEF Records
<1>6. /\ life[t] \in {"running", "leaving"} /\ life' \in [Names -> Lives]
      /\ life'[t] \in {"running", "leaving"} /\ \A n \in Names : n # t => life'[n] = life[n]
  BY <1>3 DEF CheckIn, LoopTop, Free, Lives
<1>7. UNCHANGED <<count, step, slot, started, now>>
  BY DEF CheckIn, LoopTop
<1>8. \A n \in Names : life'[n] # "unborn"
  BY <1>6, BootedFacts
<1> QED
  BY <1>4, <1>5, <1>6, <1>7, <1>8

(* A task that checks in, worker or watchdog, makes its age zero: what the *)
(* records say stays true, no age grows, and what a scan has seen stays    *)
(* young enough.                                                           *)
LEMMA CheckInKeepsAges ==
  ASSUME IInv, Booted, NEW t \in Names, CheckIn(t) \/ LoopTop(t), t \notin hung,
         age' = [age EXCEPT ![t] = 0], UNCHANGED hung
  PROVE  /\ TraceTypeOK' /\ age' \in [Names -> 0 .. AgeCap] /\ BootShape' /\ AgesAgree'
         /\ \A n \in Names : age'[n] <= age[n]
         /\ UNCHANGED sinceKick => AgesFollowKick'
         /\ UNCHANGED <<wd, healthy, index, sampled>> => HealthySoFar'
<1> USE CheckInEffect
<1>1. TraceTypeOK'
  BY DEF IInv, WatchdogTypeOK, TraceTypeOK
<1>2. age \in [Names -> 0 .. AgeCap] /\ AgeCap \in Nat
  BY OrderFacts DEF IInv, WatchdogTypeOK, AgeCap
<1>3. /\ age' \in [Names -> 0 .. AgeCap] /\ age'[t] = 0
      /\ \A n \in Names : (n # t => age'[n] = age[n]) /\ age'[n] <= age[n]
  BY <1>2
<1>4. /\ BootShape' /\ BeforeBoot'
      /\ \A i \in Places : Filled(i)' <=> Filled(i)
      /\ \A i \in Places : Owner(i)' = Owner(i)
  BY ShapeKept
<1>5. RecordsTell'
  <2> SUFFICES ASSUME NEW i \in Places, Filled(i)'
               PROVE  /\ table'[i].checkIn + age'[Owner(i)'] = now'
                      /\ table'[i].stopped <=> life'[Owner(i)'] = "gone"
    BY DEF RecordsTell
  <2>1. /\ Filled(i) /\ i < count /\ Owner(i) \in Names /\ Owner(i)' = Owner(i)
        /\ table[i].checkIn + age[Owner(i)] = now /\ now \in Nat
        /\ table[i].stopped <=> life[Owner(i)] = "gone"
    BY <1>4, BootedFacts, TypeFacts DEF IInv, AgesAgree, RecordsTell
  <2>2. CASE Owner(i) = t
    BY <1>3, <2>1, <2>2
  <2>3. CASE Owner(i) # t
    BY <1>3, <2>1, <2>3
  <2> QED
    BY <2>2, <2>3
<1>6. HungStay'
  BY DEF IInv, AgesAgree, HungStay, WatchdogTypeOK
<1>7. WorkersOnTime'
  <2> SUFFICES ASSUME NEW u \in Workers, Alive(u)' PROVE age'[u] <= MaxGap
    BY DEF WorkersOnTime
  <2>1. u \in Names
    BY DEF Workers
  <2>2. Alive(u)
    BY <2>1 DEF Alive
  <2>3. age[u] <= MaxGap /\ age[u] \in Nat /\ age'[u] \in Nat
    BY <1>3, <2>1, <2>2, TypeFacts DEF IInv, AgesAgree, WorkersOnTime
  <2> QED
    BY <1>3, <2>1, <2>3, PeriodFacts
<1>8. ASSUME UNCHANGED sinceKick PROVE AgesFollowKick'
  <2> SUFFICES ASSUME NEW n \in Names, life'[n] # "gone"
               PROVE  age'[n] <= HealthTimeout + 1 + sinceKick
    BY <1>8 DEF AgesFollowKick
  <2>1. age[n] <= HealthTimeout + 1 + sinceKick /\ age'[n] <= age[n] /\ age'[n] \in Nat
    BY <1>3 DEF IInv, RoundKnows, AgesFollowKick
  <2> QED
    BY <2>1, TypeFacts, PeriodFacts
<1>9. ASSUME UNCHANGED <<wd, healthy, index, sampled>> PROVE HealthySoFar'
  <2> SUFFICES ASSUME wd = "scan", healthy, NEW i \in Places, i < index, ~table[i].stopped
               PROVE  sampled <= table'[i].checkIn + HealthTimeout
    BY <1>9 DEF HealthySoFar
  <2>1. sampled <= table[i].checkIn + HealthTimeout /\ sampled <= now
    BY DEF IInv, RoundKnows, HealthySoFar, SampleYoung
  <2> QED
    BY <2>1, TypeFacts, PeriodFacts, SMTT(30)
<1> QED
  BY <1>1, <1>3, <1>4, <1>5, <1>6, <1>7, <1>8, <1>9 DEF AgesAgree

-----------------------------------------------------------------------------
(* The steps of a worker.                                                  *)
LEMMA WorkerCheckInStep ==
  ASSUME IInv, OnBoard, NEW t \in Workers, WorkerChecksIn(t)
  PROVE  IInv'
<1>1. /\ t \in Names /\ t # "Watchdog" /\ t \notin hung /\ up /\ Booted
      /\ CheckIn(t) \/ LoopTop(t)
      /\ age' = [age EXCEPT ![t] = 0]
      /\ UNCHANGED <<wd, rest, index, sampled, healthy, sinceKick, up, hung, reported>>
  BY DEF WorkerChecksIn, Workers, Working, Alive, CheckIn, LoopTop, Free, MayRun, OnBoard
<1>2. /\ TraceTypeOK' /\ age' \in [Names -> 0 .. AgeCap] /\ BootShape' /\ AgesAgree'
      /\ AgesFollowKick' /\ HealthySoFar'
  BY <1>1, CheckInKeepsAges
<1>3. UNCHANGED <<count, now>> /\ life'["Watchdog"] = life["Watchdog"]
  BY <1>1, CheckInEffect, OrderFacts
<1>4. WatchdogTypeOK'
  BY <1>1, <1>2, <1>3 DEF IInv, WatchdogTypeOK
<1>5. (Alive("Watchdog")' <=> Alive("Watchdog")) /\ age'["Watchdog"] = age["Watchdog"]
  BY <1>1, <1>3, OrderFacts DEF Alive, IInv, WatchdogTypeOK
<1>6. SampleYoung' /\ QuietMeansKicked'
  BY <1>1, <1>3, <1>5 DEF IInv, RoundKnows, SampleYoung, QuietMeansKicked
<1>7. UpUntilReset' /\ NoFalseAlarm' /\ NoResetWithoutDiagnosis'
  BY <1>1 DEF IInv, RoundKnows, UpUntilReset, NoFalseAlarm, NoResetWithoutDiagnosis
<1> QED
  BY <1>2, <1>4, <1>6, <1>7 DEF IInv, RoundKnows

(* A task marks itself stopped; the watchdog does so too.                  *)
LEMMA MarkStoppedStep ==
  ASSUME IInv, OnBoard, NEW t \in Names, Working(t), MarkStopped(t), UNCHANGED watchVars
  PROVE  IInv'
<1>1. /\ Booted /\ up /\ t \notin hung /\ life[t] = "leaving"
      /\ life' = [life EXCEPT ![t] = "gone"]
      /\ table' = [i \in Places |-> IF FirstAt(t, i) THEN [table[i] EXCEPT !.stopped = TRUE]
                                    ELSE table[i]]
      /\ UNCHANGED <<count, step, slot, started, now>>
      /\ UNCHANGED <<wd, rest, index, sampled, healthy, sinceKick, up, hung, age, reported>>
  BY DEF MarkStopped, Free, MayRun, Working, Alive, OnBoard, watchVars
<1>2. \A i \in Places : FirstAt(t, i) <=> i < count /\ Owner(i) = t
  BY <1>1, SearchFacts
<1>3. life \in [Names -> Lives] /\ table \in [Places -> Records]
  BY DEF IInv, WatchdogTypeOK, TraceTypeOK
<1>4. /\ table' \in [Places -> Records]
      /\ \A i \in Places :
           /\ table'[i].name = table[i].name /\ table'[i].checkIn = table[i].checkIn
           /\ table'[i].stopped <=> table[i].stopped \/ (i < count /\ Owner(i) = t)
  BY <1>1, <1>2, <1>3 DEF Records
<1>5. /\ life' \in [Names -> Lives] /\ life'[t] = "gone"
      /\ \A n \in Names : n # t => life'[n] = life[n]
      /\ \A n \in Names : life'[n] # "unborn"
  BY <1>1, <1>3, BootedFacts DEF Lives
<1>6. WatchdogTypeOK'
  BY <1>1, <1>4, <1>5 DEF IInv, WatchdogTypeOK, TraceTypeOK
<1>7. /\ BootShape' /\ BeforeBoot'
      /\ \A i \in Places : (Filled(i)' <=> Filled(i)) /\ Owner(i)' = Owner(i)
  BY <1>1, <1>4, <1>5, ShapeKept
<1>8. \A n \in Names : Alive(n)' => Alive(n)
  BY <1>1, <1>5 DEF Alive
<1>9. AgesAgree'
  <2>1. RecordsTell'
    <3> SUFFICES ASSUME NEW i \in Places, Filled(i)'
                 PROVE  /\ table'[i].checkIn + age'[Owner(i)'] = now'
                        /\ table'[i].stopped <=> life'[Owner(i)'] = "gone"
      BY DEF RecordsTell
    <3>1. /\ Filled(i) /\ i < count /\ Owner(i) \in Names /\ Owner(i)' = Owner(i)
          /\ table[i].checkIn + age[Owner(i)] = now
          /\ table[i].stopped <=> life[Owner(i)] = "gone"
      BY <1>1, <1>7, BootedFacts DEF IInv, AgesAgree, RecordsTell
    <3> QED
      BY <1>1, <1>4, <1>5, <3>1
  <2>2. HungStay'
    BY <1>1, <1>5 DEF IInv, AgesAgree, HungStay, WatchdogTypeOK
  <2>3. WorkersOnTime'
    BY <1>1, <1>8 DEF IInv, AgesAgree, Workers, WorkersOnTime
  <2> QED
    BY <1>7, <2>1, <2>2, <2>3 DEF AgesAgree
<1>10. wd = "scan" => t # "Watchdog"
  BY <1>1 DEF IInv, RoundKnows, SampleYoung
<1>11. RoundKnows'
  <2>1. SampleYoung'
    BY <1>1, <1>5, <1>8, <1>10, OrderFacts DEF IInv, RoundKnows, SampleYoung
  <2>2. QuietMeansKicked'
    BY <1>1, <1>8, OrderFacts DEF IInv, RoundKnows, QuietMeansKicked
  <2>3. HealthySoFar'
    BY <1>1, <1>4 DEF IInv, RoundKnows, HealthySoFar
  <2>4. AgesFollowKick'
    BY <1>1, <1>5 DEF IInv, RoundKnows, AgesFollowKick
  <2>5. UpUntilReset'
    BY <1>1 DEF IInv, RoundKnows, UpUntilReset
  <2> QED
    BY <2>1, <2>2, <2>3, <2>4, <2>5 DEF RoundKnows
<1>12. NoFalseAlarm' /\ NoResetWithoutDiagnosis'
  BY <1>1 DEF IInv, NoFalseAlarm, NoResetWithoutDiagnosis
<1> QED
  BY <1>6, <1>7, <1>9, <1>11, <1>12 DEF IInv

LEMMA WorkerStopStep ==
  ASSUME IInv, OnBoard, NEW t \in Workers, WorkerStops(t)
  PROVE  IInv'
BY MarkStoppedStep DEF WorkerStops, Workers

LEMMA EndWatchdogStep ==
  ASSUME IInv, OnBoard, EndWatchdog
  PROVE  IInv'
BY MarkStoppedStep, OrderFacts DEF EndWatchdog

(* A request to stop touches one flag that no part of IInv reads.          *)
LEMMA AskToStopStep ==
  ASSUME IInv, NEW t \in Names, AskToStop(t)
  PROVE  IInv'
<1>1. PICK i \in Places : table' = [table EXCEPT ![i].stopRequested = TRUE]
  BY DEF AskToStop, RequestStop
<1>2. /\ Booted /\ UNCHANGED <<count, step, slot, started, life, now>>
      /\ UNCHANGED <<wd, rest, index, sampled, healthy, sinceKick, up, hung, age, reported>>
  BY DEF AskToStop, RequestStop, watchVars
<1>3. table \in [Places -> Records]
  BY DEF IInv, WatchdogTypeOK, TraceTypeOK
<1>4. /\ table' \in [Places -> Records]
      /\ \A j \in Places : /\ table'[j].name = table[j].name
                           /\ table'[j].checkIn = table[j].checkIn
                           /\ table'[j].stopped = table[j].stopped
  BY <1>1, <1>3 DEF Records
<1>5. WatchdogTypeOK'
  BY <1>2, <1>4 DEF IInv, WatchdogTypeOK, TraceTypeOK
<1>6. /\ BootShape' /\ BeforeBoot'
      /\ \A j \in Places : (Filled(j)' <=> Filled(j)) /\ Owner(j)' = Owner(j)
  BY <1>2, <1>4, BootedFacts, ShapeKept
<1>7. RecordsTell'
  BY <1>2, <1>4, <1>6 DEF IInv, AgesAgree, RecordsTell
<1>8. HungStay' /\ WorkersOnTime'
  BY <1>2 DEF IInv, AgesAgree, HungStay, WorkersOnTime, Alive
<1>9. SampleYoung' /\ QuietMeansKicked' /\ AgesFollowKick' /\ UpUntilReset'
  BY <1>2 DEF IInv, RoundKnows, SampleYoung, QuietMeansKicked, AgesFollowKick, UpUntilReset, Alive
<1>10. HealthySoFar'
  BY <1>2, <1>4 DEF IInv, RoundKnows, HealthySoFar
<1>11. NoFalseAlarm' /\ NoResetWithoutDiagnosis'
  BY <1>2 DEF IInv, NoFalseAlarm, NoResetWithoutDiagnosis, Alive
<1> QED
  BY <1>5, <1>6, <1>7, <1>8, <1>9, <1>10, <1>11 DEF IInv, AgesAgree, RoundKnows

(* A task that hangs is no longer bound to anything.                       *)
LEMMA HangStep ==
  ASSUME IInv, Hang
  PROVE  IInv'
<1>1. PICK stuck \in {Names} \cup {{t} : t \in Names} :
        /\ \E t \in stuck : Working(t)
        /\ hung' = hung \cup {t \in stuck : life[t] # "gone"}
  BY DEF Hang
<1>2. stuck \subseteq Names
  OBVIOUS
<1>3. /\ Booted /\ UNCHANGED <<count, table, step, slot, started, life, now>>
      /\ UNCHANGED <<wd, rest, index, sampled, healthy, sinceKick, up, age, reported>>
  BY DEF Hang, traceVars
<1>4. up /\ hung \subseteq hung' /\ \A n \in Names : Alive(n)' => Alive(n)
  BY <1>1, <1>3 DEF Working, Alive
<1>5. WatchdogTypeOK'
  BY <1>1, <1>2, <1>3 DEF IInv, WatchdogTypeOK, TraceTypeOK
<1>6. /\ BootShape' /\ BeforeBoot'
      /\ \A j \in Places : (Filled(j)' <=> Filled(j)) /\ Owner(j)' = Owner(j)
  BY <1>3, BootedFacts, ShapeKept
<1>7. RecordsTell'
  BY <1>3, <1>6 DEF IInv, AgesAgree, RecordsTell
<1>8. HungStay'
  BY <1>1, <1>2, <1>3, BootedFacts, TypeFacts DEF IInv, AgesAgree, HungStay, Lives
<1>9. WorkersOnTime'
  BY <1>3, <1>4 DEF IInv, AgesAgree, WorkersOnTime, Workers
<1>10. SampleYoung' /\ QuietMeansKicked' /\ AgesFollowKick' /\ UpUntilReset' /\ HealthySoFar'
  BY <1>3, <1>4, OrderFacts
  DEF IInv, RoundKnows, SampleYoung, QuietMeansKicked, AgesFollowKick, UpUntilReset, HealthySoFar
<1>11. NoFalseAlarm' /\ NoResetWithoutDiagnosis'
  BY <1>3, <1>4 DEF IInv, NoFalseAlarm, NoResetWithoutDiagnosis
<1> QED
  BY <1>5, <1>6, <1>7, <1>8, <1>9, <1>10, <1>11 DEF IInv, AgesAgree, RoundKnows

-----------------------------------------------------------------------------
(* The steps of the watchdog task.                                         *)
LEMMA BeginRoundStep ==
  ASSUME IInv, OnBoard, BeginRound
  PROVE  IInv'
<1>1. /\ "Watchdog" \in Names /\ "Watchdog" \notin hung /\ up /\ Booted
      /\ LoopTop("Watchdog") /\ wd = "sleep" /\ rest = 0
      /\ age' = [age EXCEPT !["Watchdog"] = 0]
      /\ UNCHANGED <<rest, sinceKick, up, hung, reported>>
  BY OrderFacts DEF BeginRound, Working, Alive, LoopTop, Free, MayRun, OnBoard
<1>2. /\ TraceTypeOK' /\ age' \in [Names -> 0 .. AgeCap] /\ BootShape' /\ AgesAgree'
      /\ AgesFollowKick'
  BY <1>1, CheckInKeepsAges
<1>3. /\ UNCHANGED <<count, now>> /\ life'["Watchdog"] \in {"running", "leaving"}
      /\ Alive("Watchdog") /\ age'["Watchdog"] = 0
  BY <1>1, CheckInEffect DEF Alive, IInv, WatchdogTypeOK
<1>4. NoFalseAlarm' /\ NoResetWithoutDiagnosis' /\ UpUntilReset'
  BY <1>1 DEF IInv, RoundKnows, UpUntilReset, NoFalseAlarm, NoResetWithoutDiagnosis
<1>5. CASE life'["Watchdog"] = "leaving"
  <2>1. UNCHANGED <<wd, index, sampled, healthy>>
    BY <1>5 DEF BeginRound
  <2>2. WatchdogTypeOK'
    BY <1>1, <1>2, <1>3, <2>1 DEF IInv, WatchdogTypeOK
  <2>3. RoundKnows'
    BY <1>1, <1>2, <1>3, <1>4, <2>1
    DEF IInv, RoundKnows, SampleYoung, QuietMeansKicked, HealthySoFar
  <2> QED
    BY <1>2, <1>4, <2>2, <2>3 DEF IInv
<1>6. CASE life'["Watchdog"] # "leaving"
  <2>1. wd' = "scan" /\ index' = 0 /\ sampled' = now /\ healthy' = TRUE
    BY <1>6 DEF BeginRound
  <2>2. WatchdogTypeOK'
    BY <1>1, <1>2, <1>3, <2>1, TypeFacts DEF IInv, WatchdogTypeOK, TraceTypeOK
  <2>3. SampleYoung'
    BY <1>3, <1>6, <2>1, TypeFacts DEF SampleYoung
  <2>4. QuietMeansKicked'
    BY <1>1, <1>3, <2>1, TypeFacts, PeriodFacts DEF IInv, RoundKnows, QuietMeansKicked
  <2>5. HealthySoFar'
    BY <2>1, OrderFacts DEF HealthySoFar
  <2> QED
    BY <1>2, <1>4, <2>2, <2>3, <2>4, <2>5 DEF IInv, RoundKnows
<1> QED
  BY <1>5, <1>6

(* A record that is too old is the record of a hung task: a working task   *)
(* has kept its bound, and the watchdog checked in when its round began.   *)
LEMMA SilentIsHung ==
  ASSUME IInv, Scanning, Booted, NEW i \in Places, i < count, TooSilent(table[i])
  PROVE  table[i].name \in hung
<1> DEFINE n == Owner(i)
<1>1. /\ n \in Names /\ table[i].name = n /\ life[n] \in {"running", "leaving"}
      /\ table[i].checkIn + age[n] = now
  BY BootedFacts, TypeFacts DEF IInv, AgesAgree, RecordsTell, TooSilent, Lives
<1>2. sampled <= now /\ age["Watchdog"] <= now - sampled
  BY DEF Scanning, Working, IInv, RoundKnows, SampleYoung
<1>3. /\ table[i].checkIn \in Nat /\ age[n] \in Nat /\ now \in Nat /\ sampled \in Nat
      /\ HealthTimeout \in Nat /\ MaxGap \in Nat /\ MaxGap <= HealthTimeout
  BY <1>1, TypeFacts, PeriodFacts
<1>4. SUFFICES ASSUME n \notin hung PROVE FALSE
  BY <1>1
<1>5. CASE n = "Watchdog"
  <2>1. sampled <= table[i].checkIn
    BY <1>1, <1>2, <1>3, <1>5
  <2> QED
    BY <1>3, <2>1 DEF TooSilent, Since
<1>6. CASE n # "Watchdog"
  <2>1. age[n] <= MaxGap
    BY <1>1, <1>4, <1>6 DEF Workers, Alive, IInv, AgesAgree, WorkersOnTime
  <2> QED
    BY <1>1, <1>2, <1>3, <2>1 DEF TooSilent, Since
<1> QED
  BY <1>5, <1>6

LEMMA ScanRecordStep ==
  ASSUME IInv, OnBoard, ScanRecord
  PROVE  IInv'
<1>1. /\ wd = "scan" /\ up /\ Alive("Watchdog") /\ index < count /\ index' = index + 1
      /\ IF TooSilent(table[index])
         THEN healthy' = FALSE /\ reported' = reported \cup {table[index].name}
         ELSE UNCHANGED <<healthy, reported>>
      /\ UNCHANGED <<count, table, step, slot, started, life, now>>
      /\ UNCHANGED <<wd, rest, sampled, sinceKick, up, hung, age>>
  BY DEF ScanRecord, Scanning, Working, traceVars
<1>2. Booted
  BY <1>1 DEF IInv, AgesAgree, BeforeBoot
<1>3. index \in Places /\ index \in Nat
  BY <1>1, TypeFacts, OrderFacts
<1>4. table[index].name \in Names /\ (TooSilent(table[index]) => table[index].name \in hung)
  BY <1>1, <1>2, <1>3, BootedFacts, SilentIsHung DEF ScanRecord
<1>5. WatchdogTypeOK'
  <2>1. index' \in 0 .. count
    BY <1>1, <1>3, TypeFacts
  <2>2. healthy' \in BOOLEAN /\ reported' \subseteq Names
    BY <1>1, <1>4 DEF IInv, WatchdogTypeOK
  <2> QED
    BY <1>1, <2>1, <2>2 DEF IInv, WatchdogTypeOK, TraceTypeOK
<1>6. /\ BootShape' /\ BeforeBoot'
      /\ \A j \in Places : (Filled(j)' <=> Filled(j)) /\ Owner(j)' = Owner(j)
  BY <1>1, <1>2, BootedFacts, ShapeKept
<1>7. AgesAgree'
  <2>1. RecordsTell'
    BY <1>1, <1>6 DEF IInv, AgesAgree, RecordsTell
  <2>2. HungStay' /\ WorkersOnTime'
    BY <1>1 DEF IInv, AgesAgree, HungStay, WorkersOnTime, Alive
  <2> QED
    BY <1>6, <2>1, <2>2 DEF AgesAgree
<1>8. SampleYoung' /\ AgesFollowKick' /\ UpUntilReset'
  BY <1>1 DEF IInv, RoundKnows, SampleYoung, AgesFollowKick, UpUntilReset, Alive
<1>9. QuietMeansKicked'
  <2>1. reported' = {} => UNCHANGED <<healthy, reported>>
    BY <1>1
  <2> QED
    BY <1>1, <2>1 DEF IInv, RoundKnows, QuietMeansKicked, Alive
<1>10. HealthySoFar'
  <2> SUFFICES ASSUME healthy', NEW i \in Places, i < index', ~table[i].stopped
               PROVE  sampled <= table[i].checkIn + HealthTimeout
    BY <1>1 DEF HealthySoFar
  <2>1. healthy /\ ~TooSilent(table[index])
    BY <1>1
  <2>2. CASE i < index
    BY <1>1, <2>1, <2>2 DEF IInv, RoundKnows, HealthySoFar
  <2>3. CASE i = index
    <3>1. /\ sampled \in Nat /\ table[index].checkIn \in Nat /\ HealthTimeout \in Nat
          /\ ~table[index].stopped
      BY <1>3, <2>3, TypeFacts, PeriodFacts
    <3> QED
      BY <2>1, <2>3, <3>1 DEF TooSilent, Since
  <2>4. i < index \/ i = index
    BY <1>1, <1>3, OrderFacts
  <2> QED
    BY <2>2, <2>3, <2>4
<1>11. NoFalseAlarm' /\ NoResetWithoutDiagnosis'
  BY <1>1, <1>4 DEF IInv, NoFalseAlarm, NoResetWithoutDiagnosis
<1> QED
  BY <1>5, <1>6, <1>7, <1>8, <1>9, <1>10, <1>11 DEF IInv, RoundKnows

LEMMA EndRoundStep ==
  ASSUME IInv, OnBoard, EndRound
  PROVE  IInv'
<1>1. /\ wd = "scan" /\ up /\ Alive("Watchdog") /\ "Watchdog" \in Names
      /\ "Watchdog" \notin hung /\ Booted /\ index = count /\ CheckIn("Watchdog")
      /\ age' = [age EXCEPT !["Watchdog"] = 0]
      /\ sinceKick' = (IF healthy THEN 0 ELSE sinceKick)
      /\ wd' = "sleep" /\ rest' = Interval
      /\ UNCHANGED <<index, sampled, healthy, up, hung, reported>>
  BY OrderFacts DEF EndRound, Scanning, Working, Alive, CheckIn, Free, MayRun, OnBoard
<1>2. /\ TraceTypeOK' /\ age' \in [Names -> 0 .. AgeCap] /\ BootShape' /\ AgesAgree'
      /\ \A n \in Names : age'[n] <= age[n]
      /\ UNCHANGED sinceKick => AgesFollowKick'
  BY <1>1, CheckInKeepsAges
<1>3. UNCHANGED <<count, now, life>>
  BY <1>1 DEF CheckIn
<1>4. WatchdogTypeOK'
  BY <1>1, <1>2, <1>3, TypeFacts, PeriodFacts DEF IInv, WatchdogTypeOK
<1>5. SampleYoung' /\ HealthySoFar'
  BY <1>1 DEF SampleYoung, HealthySoFar
<1>6. QuietMeansKicked'
  BY <1>1, PeriodFacts DEF IInv, RoundKnows, QuietMeansKicked
<1>7. UpUntilReset'
  BY <1>1, PeriodFacts DEF IInv, RoundKnows, UpUntilReset
<1>8. AgesFollowKick'
  <2>1. CASE ~healthy
    BY <1>1, <1>2, <2>1
  <2>2. CASE healthy
    <3> SUFFICES ASSUME NEW n \in Names, life[n] # "gone"
                 PROVE  age'[n] <= HealthTimeout + 1
      BY <1>1, <1>3, <2>2, PeriodFacts DEF AgesFollowKick
    <3>1. PICK i \in Places : i < count /\ table[i].checkIn + age[n] = now /\ ~table[i].stopped
      BY <1>1, RecordOf
    <3>2. sampled <= table[i].checkIn + HealthTimeout /\ now <= sampled + 1
      BY <1>1, <2>2, <3>1 DEF IInv, RoundKnows, HealthySoFar, SampleYoung
    <3>3. age'[n] <= age[n] /\ age'[n] \in Nat /\ age[n] \in Nat
      BY <1>2, TypeFacts
    <3>4. table[i].checkIn \in Nat /\ sampled \in Nat /\ now \in Nat /\ HealthTimeout \in Nat
      BY <3>1, TypeFacts, PeriodFacts
    <3> QED
      BY ONLY <3>1, <3>2, <3>3, <3>4
  <2> QED
    BY <2>1, <2>2
<1>9. NoFalseAlarm' /\ NoResetWithoutDiagnosis'
  BY <1>1 DEF IInv, NoFalseAlarm, NoResetWithoutDiagnosis
<1> QED
  BY <1>2, <1>4, <1>5, <1>6, <1>7, <1>8, <1>9 DEF IInv, RoundKnows

-----------------------------------------------------------------------------
(* The clock.  A step of it needs every promise kept (OnTime); what it can *)
(* end is the period of the IWDG, and a round that was due has then found  *)
(* somebody to report.                                                     *)
LEMMA TickStep ==
  ASSUME IInv, OnBoard, Tick
  PROVE  IInv'
<1>0. up /\ OnTime
  BY DEF Tick
<1>1. /\ up /\ Booted /\ now' = now + 1 /\ now + 1 < TimeModulus
      /\ rest' = (IF rest > 0 THEN rest - 1 ELSE 0)
      /\ sinceKick' = sinceKick + 1 /\ up' = (sinceKick' < Iwdg)
      /\ UNCHANGED <<count, table, step, slot, started, life, wd, index, sampled,
                     healthy, hung, reported>>
  BY TypeFacts, OrderFacts DEF Tick, OnBoard
<1>2. /\ age' \in [Names -> 0 .. AgeCap]
      /\ \A n \in Names : age[n] \in Nat /\ age'[n] = age[n] + 1
  <2>1. \A n \in Names : age[n] \in Nat /\ age[n] < AgeCap /\ age[n] + 1 \in 0 .. AgeCap
    <3> SUFFICES ASSUME NEW n \in Names
                 PROVE  age[n] \in Nat /\ age[n] < AgeCap /\ age[n] + 1 \in 0 .. AgeCap
      OBVIOUS
    <3>1. PICK i \in Places : table[i].checkIn + age[n] = now
      BY <1>1, RecordOf
    <3>2. table[i].checkIn \in Nat /\ age[n] \in Nat /\ now \in Nat /\ now < TimeModulus
      BY <3>1, TypeFacts
    <3>3. TimeModulus \in Nat
      BY OrderFacts
    <3> QED
      BY <3>1, <3>2, <3>3 DEF AgeCap
  <2>2. age' = [n \in Names |-> age[n] + 1]
    BY <2>1 DEF Tick
  <2> QED
    BY <2>1, <2>2
<1>3. \A n \in Names : Alive(n)' <=> Alive(n)
  BY <1>1 DEF Alive
<1>4. sinceKick < Iwdg /\ sinceKick \in Nat /\ rest \in 0 .. Interval
  BY <1>1, TypeFacts DEF IInv, RoundKnows, UpUntilReset, WatchdogTypeOK
<1>5. WatchdogTypeOK'
  <2>1. TraceTypeOK'
    BY <1>1, TypeFacts, OrderFacts DEF IInv, WatchdogTypeOK, TraceTypeOK
  <2>2. rest' \in 0 .. Interval /\ sinceKick' \in 0 .. Iwdg /\ up' \in BOOLEAN
    BY <1>1, <1>4, PeriodFacts
  <2> QED
    BY <1>1, <1>2, <2>1, <2>2 DEF IInv, WatchdogTypeOK
<1>6. /\ BootShape' /\ BeforeBoot'
      /\ \A j \in Places : (Filled(j)' <=> Filled(j)) /\ Owner(j)' = Owner(j)
  BY <1>1, BootedFacts, ShapeKept
<1>7. RecordsTell'
  <2> SUFFICES ASSUME NEW i \in Places, Filled(i)
               PROVE  /\ table[i].checkIn + age'[Owner(i)] = now + 1
                      /\ table[i].stopped <=> life[Owner(i)] = "gone"
    BY <1>1, <1>6 DEF RecordsTell
  <2>1. /\ Owner(i) \in Names /\ table[i].checkIn + age[Owner(i)] = now
        /\ table[i].stopped <=> life[Owner(i)] = "gone"
    BY <1>1, BootedFacts DEF IInv, AgesAgree, RecordsTell
  <2>2. age'[Owner(i)] = age[Owner(i)] + 1 /\ age[Owner(i)] \in Nat /\ table[i].checkIn \in Nat
    BY <1>2, <2>1, TypeFacts
  <2> QED
    BY <2>1, <2>2
<1>8. HungStay'
  BY <1>1 DEF IInv, AgesAgree, HungStay
<1>9. WorkersOnTime'
  <2> SUFFICES ASSUME NEW t \in Workers, Alive(t)' PROVE age'[t] <= MaxGap
    BY DEF WorkersOnTime
  <2>1. t \in Names /\ age[t] < MaxGap
    BY <1>0, <1>3 DEF OnTime, Workers, Working
  <2> QED
    BY <1>2, <2>1, PeriodFacts
<1>10. Alive("Watchdog") => \/ wd = "sleep" /\ rest > 0
                            \/ wd = "scan" /\ sampled = now
  BY <1>0 DEF OnTime, Working
<1>11. SampleYoung'
  <2>1. wd = "scan" => sampled <= now /\ life["Watchdog"] = "running"
    BY DEF IInv, RoundKnows, SampleYoung
  <2>2. ASSUME wd = "scan", Alive("Watchdog")
        PROVE  now + 1 <= sampled + 1 /\ age'["Watchdog"] <= now + 1 - sampled
    <3>1. sampled = now /\ age["Watchdog"] <= now - sampled
      BY <1>10, <2>2 DEF IInv, RoundKnows, SampleYoung
    <3> QED
      BY <1>2, <3>1, TypeFacts, OrderFacts, SMTT(30)
  <2>3. wd = "scan" => sampled <= now + 1
    BY <2>1, TypeFacts
  <2> SUFFICES ASSUME wd' = "scan"
               PROVE  /\ sampled' <= now' /\ life'["Watchdog"] = "running"
                      /\ Alive("Watchdog")' =>
                           now' <= sampled' + 1 /\ age'["Watchdog"] <= now' - sampled'
    BY DEF SampleYoung
  <2>4. wd = "scan" /\ sampled' = sampled /\ life' = life /\ now' = now + 1
    BY <1>1
  <2>5. Alive("Watchdog")' => Alive("Watchdog")
    BY <1>3, OrderFacts
  <2>6. sampled' <= now' /\ life'["Watchdog"] = "running"
    BY <2>1, <2>3, <2>4
  <2>7. ASSUME Alive("Watchdog")'
        PROVE  now' <= sampled' + 1 /\ age'["Watchdog"] <= now' - sampled'
    <3>1. now + 1 <= sampled + 1 /\ age'["Watchdog"] <= now + 1 - sampled
      BY <2>2, <2>4, <2>5, <2>7
    <3>2. now \in Nat /\ sampled \in Nat
      BY TypeFacts
    <3> QED
      BY ONLY <2>4, <3>1, <3>2
  <2> QED
    BY <2>6, <2>7
<1>12. QuietMeansKicked'
  <2> SUFFICES ASSUME reported = {}, Alive("Watchdog")
               PROVE  IF wd = "sleep" THEN sinceKick' + rest' <= Interval
                      ELSE healthy /\ sinceKick' <= Interval + (now' - sampled)
    BY <1>1, <1>3, OrderFacts DEF QuietMeansKicked
  <2>1. IF wd = "sleep" THEN sinceKick + rest <= Interval
        ELSE healthy /\ sinceKick <= Interval + (now - sampled)
    BY DEF IInv, RoundKnows, QuietMeansKicked
  <2>2. CASE wd = "sleep"
    BY <1>1, <1>4, <1>10, <2>1, <2>2, PeriodFacts
  <2>3. CASE wd # "sleep"
    <3>1. /\ now \in Nat /\ sampled \in Nat /\ Interval \in Nat
          /\ now' = now + 1 /\ sinceKick' = sinceKick + 1
      BY <1>1, PeriodFacts, TypeFacts
    <3> QED
      BY ONLY <1>4, <2>1, <2>3, <3>1
  <2> QED
    BY <2>2, <2>3
<1>13. HealthySoFar'
  BY <1>1 DEF IInv, RoundKnows, HealthySoFar
<1>14. AgesFollowKick'
  <2> SUFFICES ASSUME NEW n \in Names, life[n] # "gone"
               PROVE  age'[n] <= HealthTimeout + 1 + sinceKick'
    BY <1>1 DEF AgesFollowKick
  <2>1. age[n] <= HealthTimeout + 1 + sinceKick
    BY DEF IInv, RoundKnows, AgesFollowKick
  <2> QED
    BY <1>1, <1>2, <1>4, <2>1, PeriodFacts
<1>15. UpUntilReset'
  BY <1>1 DEF UpUntilReset
<1>16. NoFalseAlarm'
  BY <1>1 DEF IInv, NoFalseAlarm
<1>17. NoResetWithoutDiagnosis'
  <2> SUFFICES ASSUME reported = {}, Alive("Watchdog") PROVE up'
    BY <1>1, <1>3, OrderFacts DEF NoResetWithoutDiagnosis
  <2>1. IF wd = "sleep" THEN sinceKick + rest <= Interval
        ELSE sinceKick <= Interval + (now - sampled)
    BY DEF IInv, RoundKnows, QuietMeansKicked
  <2>2. sinceKick <= Interval
    BY <1>4, <1>10, <2>1, PeriodFacts, TypeFacts
  <2> QED
    BY <1>1, <1>4, <1>15, <2>2, PeriodFacts DEF UpUntilReset
<1> QED
  BY <1>5, <1>6, <1>7, <1>8, <1>9, <1>11, <1>12, <1>13, <1>14, <1>15, <1>16, <1>17
  DEF IInv, AgesAgree, RoundKnows

-----------------------------------------------------------------------------
(* The starter: before the last record is filled the clock stands still,   *)
(* and it fills place after place in the order of the registry.            *)
LEMMA StarterFinds ==
  ASSUME IInv, step["main"] = "find"
  PROVE  FoundAt(Wanted("main")) = {} /\ ~MeetsNull(Wanted("main"))
<1>1. /\ started = count + 1 /\ started \in DOMAIN Order
      /\ Wanted("main") = Order[started]
  BY TypeFacts, OrderFacts DEF IInv, BootShape, Wanted
<1>2. ASSUME NEW i \in Places, i < count
      PROVE  /\ i + 1 \in DOMAIN Order /\ i + 1 # started
             /\ table[i].name = Order[i + 1]
  <2>1. i \in Nat /\ i + 1 < started
    BY <1>1, <1>2, TypeFacts, OrderFacts
  <2>2. Filled(i)
    BY <2>1, TypeFacts DEF Filled
  <2>3. i + 1 \in DOMAIN Order /\ i + 1 # started
    BY <2>1, TypeFacts, OrderFacts
  <2> QED
    BY <2>2, <2>3 DEF Owner, IInv, BootShape
<1>3. FoundAt(Wanted("main")) = {}
  BY <1>1, <1>2, OrderFacts DEF FoundAt
<1>4. ~MeetsNull(Wanted("main"))
  BY <1>1, <1>2, OrderFacts DEF MeetsNull
<1> QED
  BY <1>3, <1>4

(* What holds of every step of the starter.                                *)
LEMMA StarterKeeps ==
  ASSUME IInv, ~Booted, UNCHANGED watchVars, UNCHANGED now,
         TraceTypeOK', count <= count', BootShape', RecordsTell',
         \A n \in Names : life'[n] \in {"unborn", "running"}
  PROVE  IInv'
<1>1. /\ now = 0 /\ wd = "sleep" /\ rest = 0 /\ sinceKick = 0 /\ hung = {}
      /\ \A n \in Names : age[n] = 0
      /\ UNCHANGED <<wd, rest, index, sampled, healthy, sinceKick, up, hung, age, reported>>
  BY DEF IInv, AgesAgree, BeforeBoot, watchVars
<1>2. WatchdogTypeOK'
  <2>1. index' \in 0 .. count'
    BY <1>1, TypeFacts, OrderFacts DEF TraceTypeOK
  <2> QED
    BY <1>1, <2>1 DEF IInv, WatchdogTypeOK
<1>3. BeforeBoot' /\ HungStay'
  BY <1>1 DEF BeforeBoot, HungStay
<1>4. WorkersOnTime' /\ AgesFollowKick'
  BY <1>1, PeriodFacts DEF WorkersOnTime, AgesFollowKick, Workers
<1>5. SampleYoung' /\ HealthySoFar' /\ UpUntilReset' /\ NoFalseAlarm'
  BY <1>1 DEF SampleYoung, HealthySoFar, IInv, RoundKnows, UpUntilReset, NoFalseAlarm
<1>6. QuietMeansKicked'
  BY <1>1, PeriodFacts DEF QuietMeansKicked
<1>7. NoResetWithoutDiagnosis'
  BY <1>1, PeriodFacts DEF IInv, RoundKnows, UpUntilReset, NoResetWithoutDiagnosis
<1> QED
  BY <1>2, <1>3, <1>4, <1>5, <1>6, <1>7 DEF IInv, AgesAgree, RoundKnows

LEMMA BootStep ==
  ASSUME IInv, Boot
  PROVE  IInv'
<1> USE OrderFacts, TypeFacts
<1>1. ~Booted /\ UNCHANGED watchVars /\ UNCHANGED now
  BY DEF Boot, StarterStep, StartTask, RegisterAgain, FindOrCreateStep, NotFound, Searching,
         ClaimPlace, BumpCount, FillRecord, Booted
<1>2. /\ now = 0 /\ \A n \in Names : age[n] = 0 /\ life[n] \in {"unborn", "running"}
      /\ UNCHANGED <<age, now>>
  BY <1>1 DEF IInv, AgesAgree, BeforeBoot, watchVars
<1>3. TraceTypeOK /\ BootShape /\ RecordsTell
  BY DEF IInv, WatchdogTypeOK, AgesAgree
<1>4. "main" \in Procs /\ \A t \in Names : t \in Procs /\ t # "main"
  BY DEF Procs
<1>5. CASE StartTask
  <2>1. /\ started' = started + 1 /\ started < Len(Order) /\ count = started
        /\ step["main"] = "idle" /\ step' = [step EXCEPT !["main"] = "find"]
        /\ life' = [life EXCEPT ![Order[started + 1]] = "running"]
        /\ UNCHANGED <<count, table, slot>> /\ started + 1 \in DOMAIN Order
    BY <1>3, <1>5 DEF StartTask, BootShape
  <2>2. TraceTypeOK'
    <3>1. step' \in [Procs -> Steps]
      BY <1>3, <1>4, <2>1 DEF TraceTypeOK, Steps
    <3>2. life' \in [Names -> Lives] /\ started' \in 0 .. Len(Order)
      BY <1>3, <2>1, SMTT(30) DEF TraceTypeOK, Lives
    <3> QED
      BY <1>2, <1>3, <2>1, <3>1, <3>2 DEF TraceTypeOK
  <2>3. /\ step'["main"] = "find" /\ \A t \in Names : step'[t] = step[t]
    BY <1>3, <1>4, <2>1 DEF TraceTypeOK
  <2>4. \A i \in Places : (Filled(i)' <=> Filled(i)) /\ Owner(i)' = Owner(i)
    BY <2>1, <2>3, SMTT(30) DEF Filled, Owner
  <2>5. \A k \in DOMAIN Order : life'[Order[k]] = "unborn" <=> k > started'
    <3> SUFFICES ASSUME NEW k \in DOMAIN Order
                 PROVE  life'[Order[k]] = "unborn" <=> k > started + 1
      BY <2>1
    <3>1. CASE k = started + 1
      BY <1>3, <2>1, <3>1 DEF TraceTypeOK
    <3>2. CASE k # started + 1
      <4>1. life'[Order[k]] = life[Order[k]]
        BY <1>3, <2>1, <3>2 DEF TraceTypeOK
      <4> QED
        BY <1>3, <3>2, <4>1 DEF BootShape
    <3> QED
      BY <3>1, <3>2
  <2>6. BootShape'
    BY <1>3, <2>1, <2>3, <2>4, <2>5 DEF BootShape
  <2>7. \A n \in Names : life'[n] \in {"unborn", "running"}
    BY <1>2, <1>3, <2>1 DEF TraceTypeOK
  <2>8. RecordsTell'
    <3> SUFFICES ASSUME NEW i \in Places, Filled(i)
                 PROVE  /\ table[i].checkIn + age[Owner(i)] = now
                        /\ table[i].stopped <=> life'[Owner(i)] = "gone"
      BY <1>2, <2>1, <2>4 DEF RecordsTell
    <3>1. Owner(i) \in Names
      BY DEF Filled, Owner
    <3> QED
      BY <1>2, <1>3, <2>7, <3>1 DEF RecordsTell
  <2> QED
    BY <1>1, <2>1, <2>2, <2>6, <2>7, <2>8, StarterKeeps
<1>6. CASE RegisterAgain
  BY <1>6, StarterFinds DEF RegisterAgain
<1>7. CASE NotFound("main")
  <2>1. /\ step["main"] = "find" /\ step' = [step EXCEPT !["main"] = "claim"]
        /\ UNCHANGED <<count, table, slot, started, life>>
    BY <1>7, StarterFinds DEF NotFound, Searching
  <2>2. TraceTypeOK'
    BY <1>2, <1>3, <1>4, <2>1 DEF TraceTypeOK, Steps
  <2>3. /\ step'["main"] = "claim" /\ \A t \in Names : step'[t] = step[t]
    BY <1>3, <1>4, <2>1 DEF TraceTypeOK
  <2>4. \A i \in Places : (Filled(i)' <=> Filled(i)) /\ Owner(i)' = Owner(i)
    BY <2>1, <2>3 DEF Filled, Owner
  <2>5. BootShape' /\ RecordsTell'
    BY <1>2, <1>3, <2>1, <2>3, <2>4 DEF BootShape, RecordsTell
  <2> QED
    BY <1>1, <1>2, <2>1, <2>2, <2>5, StarterKeeps
<1>8. CASE ClaimPlace("main")
  <2>1. step["main"] = "claim" /\ started = count + 1 /\ count < Capacity
    BY <1>3, <1>8 DEF ClaimPlace, BootShape
  <2>2. /\ slot' = [slot EXCEPT !["main"] = count] /\ step' = [step EXCEPT !["main"] = "bump"]
        /\ UNCHANGED <<count, table, started, life>>
    BY <1>8, <2>1 DEF ClaimPlace
  <2>3. TraceTypeOK'
    BY <1>2, <1>3, <1>4, <2>1, <2>2 DEF TraceTypeOK, Steps
  <2>4. /\ step'["main"] = "bump" /\ slot'["main"] = count
        /\ \A t \in Names : step'[t] = step[t]
    BY <1>3, <1>4, <2>2 DEF TraceTypeOK
  <2>5. \A i \in Places : (Filled(i)' <=> Filled(i)) /\ Owner(i)' = Owner(i)
    BY <2>1, <2>2, <2>4 DEF Filled, Owner
  <2>6. BootShape' /\ RecordsTell'
    BY <1>2, <1>3, <2>1, <2>2, <2>4, <2>5 DEF BootShape, RecordsTell
  <2> QED
    BY <1>1, <1>2, <2>2, <2>3, <2>6, StarterKeeps
<1>9. CASE BumpCount("main")
  <2>1. step["main"] = "bump" /\ started = count + 1 /\ slot["main"] = count
    BY <1>3, <1>9 DEF BumpCount, BootShape
  <2>2. /\ count' = count + 1 /\ step' = [step EXCEPT !["main"] = "fill"]
        /\ UNCHANGED <<table, slot, started, life>>
    BY <1>9, <2>1 DEF BumpCount
  <2>3. TraceTypeOK'
    BY <1>2, <1>3, <1>4, <2>1, <2>2 DEF TraceTypeOK, Steps
  <2>4. /\ step'["main"] = "fill" /\ \A t \in Names : step'[t] = step[t]
    BY <1>3, <1>4, <2>2 DEF TraceTypeOK
  <2>5. \A i \in Places : (Filled(i)' <=> Filled(i)) /\ Owner(i)' = Owner(i)
    BY <2>1, <2>2, <2>4 DEF Filled, Owner
  <2>6. BootShape' /\ RecordsTell'
    BY <1>2, <1>3, <2>1, <2>2, <2>4, <2>5 DEF BootShape, RecordsTell
  <2> QED
    BY <1>1, <1>2, <2>2, <2>3, <2>6, StarterKeeps
<1>10. CASE FillRecord("main")
  <2>1. /\ step["main"] = "fill" /\ started = count /\ started = slot["main"] + 1
        /\ slot["main"] \in Nat /\ slot["main"] \in Places /\ started \in DOMAIN Order
    BY <1>3, <1>4, <1>10 DEF FillRecord, BootShape, TraceTypeOK
  <2> DEFINE s == slot["main"]
             r == [name |-> Order[started], checkIn |-> 0, stopRequested |-> FALSE,
                   stopped |-> FALSE]
  <2>2. /\ table' = [table EXCEPT ![s] = r]
        /\ step' = [step EXCEPT !["main"] = "idle"]
        /\ UNCHANGED <<count, slot, started, life>>
    BY <1>2, <1>10 DEF FillRecord, Fresh, Wanted
  <2>3. r \in Records
    BY <2>1 DEF Records
  <2>4. TraceTypeOK'
    BY <1>2, <1>3, <1>4, <2>1, <2>2, <2>3 DEF TraceTypeOK, Steps
  <2>5. /\ step'["main"] = "idle" /\ \A t \in Names : step'[t] = step[t]
        /\ table'[s] = r /\ \A i \in Places : i # s => table'[i] = table[i]
    BY <1>3, <1>4, <2>1, <2>2 DEF TraceTypeOK
  <2>6. \A i \in Places : Owner(i)' = Owner(i) /\ (Filled(i)' <=> Filled(i) \/ i = s)
    <3> SUFFICES ASSUME NEW i \in Places PROVE Filled(i)' <=> Filled(i) \/ i = s
      BY DEF Owner
    <3>0. i \in Nat /\ started \in Nat
      OBVIOUS
    <3>1. Filled(i)' <=> i < started
      BY ONLY <2>2, <2>5 DEF Filled
    <3>2. Filled(i) <=> i + 1 < started
      BY ONLY <2>1, <3>0 DEF Filled
    <3> QED
      BY ONLY <2>1, <3>0, <3>1, <3>2
  <2>7. ASSUME NEW i \in Places, Filled(i)'
        PROVE  /\ table'[i].name = Owner(i)'
               /\ table'[i].checkIn + age'[Owner(i)'] = now'
               /\ table'[i].stopped <=> life'[Owner(i)'] = "gone"
    <3>1. Owner(i)' = Owner(i) /\ Owner(i) \in Names
      <4>1. i < started /\ i + 1 \in DOMAIN Order
        BY <2>2, <2>7 DEF Filled
      <4> QED
        BY <2>6, <4>1 DEF Owner
    <3>2. CASE i = s
      <4>1. table'[i] = r /\ r.name = Order[s + 1] /\ r.checkIn = 0 /\ r.stopped = FALSE
        BY <2>1, <2>5, <3>2
      <4>2. life'[Owner(i)] # "gone" /\ age'[Owner(i)] = 0 /\ now' = 0
        BY <1>2, <2>2, <3>1
      <4> QED
        BY <3>1, <3>2, <4>1, <4>2 DEF Owner
    <3>3. CASE i # s
      BY <1>2, <1>3, <2>2, <2>5, <2>6, <2>7, <3>1, <3>3 DEF BootShape, RecordsTell
    <3> QED
      BY <3>2, <3>3
  <2>8. RecordsTell'
    BY <2>7 DEF RecordsTell
  <2>9. BootShape'
    <3>1. \A i \in Places : table'[i].name = IF Filled(i)' THEN Owner(i)' ELSE NoName
      <4> SUFFICES ASSUME NEW i \in Places, ~Filled(i)' PROVE table'[i].name = NoName
        BY <2>7
      <4>1. ~Filled(i) /\ table'[i] = table[i]
        BY <2>5, <2>6
      <4> QED
        BY <1>3, <4>1 DEF BootShape
    <3>2. step'["main"] = "idle" /\ count' = started'
      BY <2>1, <2>2, <2>5
    <3>3. \A k \in DOMAIN Order : life'[Order[k]] = "unborn" <=> k > started'
      BY <1>3, <2>2 DEF BootShape
    <3> QED
      BY <1>3, <2>5, <3>1, <3>2, <3>3 DEF BootShape
  <2> QED
    BY <1>1, <1>2, <2>2, <2>4, <2>8, <2>9, StarterKeeps
<1> QED
  BY <1>5, <1>6, <1>7, <1>8, <1>9, <1>10 DEF Boot, StarterStep, FindOrCreateStep

-----------------------------------------------------------------------------
(* IInv holds initially and every step keeps it.                           *)
LEMMA InitInvariant ==
  ASSUME OnBoard, Init
  PROVE  IInv
<1> USE OrderFacts, PeriodFacts
<1>1. /\ count = 0 /\ started = 0 /\ now = 0 /\ step = [p \in Procs |-> "idle"]
      /\ slot = [p \in Procs |-> 0] /\ life = [n \in Names |-> "unborn"]
      /\ table = [i \in Places |-> [name |-> NoName, checkIn |-> 0,
                                    stopRequested |-> FALSE, stopped |-> FALSE]]
  BY DEF Init, TraceInit
<1>2. /\ wd = "sleep" /\ rest = 0 /\ index = 0 /\ sampled = 0 /\ healthy = TRUE
      /\ sinceKick = 0 /\ up = TRUE /\ hung = {} /\ reported = {}
      /\ age = [n \in Names |-> 0]
  BY DEF Init
<1>3. TraceTypeOK
  <2>1. table \in [Places -> Records]
    BY <1>1 DEF Records
  <2>2. step \in [Procs -> Steps] /\ slot \in [Procs -> 0 .. Capacity]
    BY <1>1 DEF Steps
  <2>3. life \in [Names -> Lives]
    BY <1>1 DEF Lives
  <2>4. count \in 0 .. Capacity /\ started \in 0 .. Len(Order) /\ now \in 0 .. TimeModulus - 1
    BY <1>1
  <2> QED
    BY ONLY <2>1, <2>2, <2>3, <2>4 DEF TraceTypeOK
<1>4. WatchdogTypeOK
  BY <1>1, <1>2, <1>3 DEF WatchdogTypeOK, AgeCap
<1>5. BootShape
  <2>1. step["main"] = "idle" /\ \A t \in Names : step[t] = "idle"
    BY <1>1 DEF Procs
  <2>2. \A i \in Places : ~Filled(i)
    BY <1>1 DEF Filled
  <2>3. \A k \in DOMAIN Order : life[Order[k]] = "unborn" /\ k > started
    BY <1>1
  <2> QED
    BY <1>1, <2>1, <2>2, <2>3 DEF BootShape
<1>6. AgesAgree
  <2>1. BeforeBoot /\ HungStay
    BY <1>1, <1>2 DEF BeforeBoot, HungStay
  <2>2. RecordsTell
    BY <1>1 DEF RecordsTell, Filled
  <2>3. WorkersOnTime
    BY <1>2 DEF WorkersOnTime, Workers
  <2> QED
    BY <2>1, <2>2, <2>3 DEF AgesAgree
<1>7. RoundKnows
  BY <1>2 DEF RoundKnows, SampleYoung, QuietMeansKicked, HealthySoFar, AgesFollowKick, UpUntilReset
<1> QED
  BY <1>2, <1>4, <1>5, <1>6, <1>7 DEF IInv, NoFalseAlarm, NoResetWithoutDiagnosis

LEMMA StutterStep ==
  ASSUME IInv, UNCHANGED vars
  PROVE  IInv'
<1>1. /\ UNCHANGED <<count, table, step, slot, started, life, now>>
      /\ UNCHANGED <<wd, rest, index, sampled, healthy, sinceKick, up, hung, age, reported>>
  BY DEF vars, traceVars, watchVars
<1>2. WatchdogTypeOK' /\ BootShape'
  BY <1>1 DEF IInv, WatchdogTypeOK, TraceTypeOK, BootShape, Filled, Owner
<1>3. AgesAgree'
  BY <1>1 DEF IInv, AgesAgree, BeforeBoot, Booted, RecordsTell, Filled, Owner, HungStay,
              WorkersOnTime, Alive
<1>4. RoundKnows'
  BY <1>1 DEF IInv, RoundKnows, SampleYoung, QuietMeansKicked, HealthySoFar, AgesFollowKick,
              UpUntilReset, Alive
<1>5. NoFalseAlarm' /\ NoResetWithoutDiagnosis'
  BY <1>1 DEF IInv, NoFalseAlarm, NoResetWithoutDiagnosis, Alive
<1> QED
  BY <1>2, <1>3, <1>4, <1>5 DEF IInv

LEMMA NextInvariant ==
  ASSUME OnBoard, IInv, [Next]_vars
  PROVE  IInv'
<1>1. CASE Boot
  BY <1>1, BootStep
<1>2. CASE Hang
  BY <1>2, HangStep
<1>3. CASE Tick
  BY <1>3, TickStep
<1>4. CASE BeginRound
  BY <1>4, BeginRoundStep
<1>5. CASE EndWatchdog
  BY <1>5, EndWatchdogStep
<1>6. CASE ScanRecord
  BY <1>6, ScanRecordStep
<1>7. CASE EndRound
  BY <1>7, EndRoundStep
<1>8. ASSUME NEW t \in Workers, WorkerChecksIn(t) PROVE IInv'
  BY <1>8, WorkerCheckInStep
<1>9. ASSUME NEW t \in Workers, WorkerStops(t) PROVE IInv'
  BY <1>9, WorkerStopStep
<1>10. ASSUME NEW t \in Names, AskToStop(t) PROVE IInv'
  BY <1>10, AskToStopStep
<1>11. CASE UNCHANGED vars
  BY <1>11, StutterStep
<1> QED
  BY <1>1, <1>2, <1>3, <1>4, <1>5, <1>6, <1>7, <1>8, <1>9, <1>10, <1>11 DEF Next

(* The inductive invariant holds for ever (crash_dump.c: watchdogTask).    *)
THEOREM InvariantHolds ==
  ASSUME OnBoard
  PROVE  Spec => []IInv
BY InitInvariant, NextInvariant, PTL DEF Spec, OnBoard

-----------------------------------------------------------------------------
(* The state of the table, the tasks and the watchdog is well typed.       *)
THEOREM WatchdogTypes ==
  ASSUME OnBoard
  PROVE  Spec => []WatchdogTypeOK
<1>1. IInv => WatchdogTypeOK
  BY DEF IInv
<1> QED
  BY <1>1, InvariantHolds, PTL

(* An alive task is never logged as UNHEALTHY, although records change     *)
(* while the watchdog copies them one at a time (crash_dump.c).            *)
THEOREM AlarmsAreTrue ==
  ASSUME OnBoard
  PROVE  Spec => []NoFalseAlarm
<1>1. IInv => NoFalseAlarm
  BY DEF IInv
<1> QED
  BY <1>1, InvariantHolds, PTL

(* The board is not reset before a task was logged, unless the watchdog    *)
(* task itself hangs or was stopped.                                       *)
THEOREM ResetsAreDiagnosed ==
  ASSUME OnBoard
  PROVE  Spec => []NoResetWithoutDiagnosis
<1>1. IInv => NoResetWithoutDiagnosis
  BY DEF IInv
<1> QED
  BY <1>1, InvariantHolds, PTL

(* A genuine lock-up reaches the hardware reset within HealthTimeout and   *)
(* one period of the IWDG.                                                 *)
THEOREM LockupsReset ==
  ASSUME OnBoard
  PROVE  Spec => []LockupReachesReset
<1>1. ASSUME IInv PROVE LockupReachesReset
  <2> SUFFICES ASSUME NEW t \in hung, up PROVE age[t] <= HealthTimeout + Iwdg
    BY DEF LockupReachesReset, ResetBound
  <2>1. t \in Names /\ life[t] # "gone"
    BY <1>1 DEF IInv, WatchdogTypeOK, AgesAgree, HungStay
  <2>2. age[t] <= HealthTimeout + 1 + sinceKick /\ sinceKick < Iwdg
    BY <1>1, <2>1 DEF IInv, RoundKnows, AgesFollowKick, UpUntilReset
  <2>3. age[t] \in Nat /\ sinceKick \in Nat
    BY <1>1, <2>1, TypeFacts
  <2> QED
    BY <2>2, <2>3, PeriodFacts
<1> QED
  BY <1>1, InvariantHolds, PTL

(* Every task is found under exactly one record (app_task_trace.c:         *)
(* findOrCreate), as long as the starter is alone with the table.          *)
THEOREM RecordsAreUnique ==
  ASSUME OnBoard
  PROVE  Spec => []OneRecordPerTask
<1>1. ASSUME IInv PROVE OneRecordPerTask
  <2> USE <1>1, OrderFacts, TypeFacts
  <2>1. \A p \in Procs : step[p] # "crashed"
    BY DEF Procs, IInv, BootShape
  <2>2. ASSUME NEW n \in Names
        PROVE  /\ Cardinality(FoundAt(n)) <= 1
               /\ life[n] # "unborn" /\ ~BeingRegistered(n) => FoundAt(n) # {}
    <3>1. PICK k \in DOMAIN Order : Order[k] = n
      OBVIOUS
    <3>2. ASSUME NEW i \in FoundAt(n) PROVE i = k - 1
      <4>1. i \in Places /\ table[i].name = n
        BY DEF FoundAt
      <4>2. Filled(i)
        BY <4>1 DEF IInv, BootShape
      <4>3. Order[i + 1] = n /\ i + 1 \in DOMAIN Order
        <5>1. Owner(i) = n
          BY <4>1, <4>2 DEF IInv, BootShape
        <5>2. i + 1 \in DOMAIN Order
          BY <4>1, <4>2, SMTT(30) DEF Filled
        <5> QED
          BY <5>1, <5>2 DEF Owner
      <4>4. i + 1 = k
        BY <3>1, <4>3
      <4>5. i \in Nat /\ k \in Nat
        BY <4>1
      <4> QED
        BY ONLY <4>4, <4>5
    <3>3. Cardinality(FoundAt(n)) <= 1
      <4>1. CASE FoundAt(n) = {}
        <5>1. Cardinality({}) = 0
          BY ONLY FS_EmptySet
        <5> QED
          BY <4>1, <5>1
      <4>2. CASE FoundAt(n) # {}
        <5>1. FoundAt(n) = {k - 1}
          BY ONLY <3>2, <4>2
        <5>2. Cardinality({k - 1}) = 1
          BY ONLY FS_Singleton
        <5> QED
          BY ONLY <5>1, <5>2
      <4> QED
        BY <4>1, <4>2
    <3>4. ASSUME life[n] # "unborn", ~BeingRegistered(n) PROVE k - 1 \in FoundAt(n)
      <4>1. k <= started /\ (step["main"] # "idle" => k # started)
        <5>1. ~(k > started)
          BY <3>1, <3>4 DEF IInv, BootShape
        <5>2. step["main"] # "idle" => k # started
          BY <3>1, <3>4 DEF BeingRegistered
        <5> QED
          BY <5>1, <5>2
      <4>2. k - 1 \in Places /\ k - 1 + 1 = k /\ Filled(k - 1)
        <5>1. k \in Nat /\ k >= 1 /\ k <= Capacity /\ started \in Nat
          BY SMTT(30)
        <5>2. k - 1 \in Places /\ k - 1 + 1 = k
          BY <5>1, SMTT(30)
        <5> QED
          BY ONLY <4>1, <5>1, <5>2 DEF Filled
      <4>3. started <= count + 1 /\ (step["main"] = "idle" => started = count)
        BY SMTT(30) DEF IInv, WatchdogTypeOK, TraceTypeOK, BootShape, Steps, Procs
      <4>4. k - 1 < count
        BY <4>1, <4>3
      <4>5. table[k - 1].name = n
        BY <3>1, <4>2 DEF IInv, BootShape, Owner
      <4> QED
        BY <4>2, <4>4, <4>5 DEF FoundAt
    <3> QED
      BY <3>3, <3>4
  <2> QED
    BY <2>1, <2>2 DEF OneRecordPerTask
<1> QED
  BY <1>1, InvariantHolds, PTL

=============================================================================
