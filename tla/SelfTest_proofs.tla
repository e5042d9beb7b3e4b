-------------------------- MODULE SelfTest_proofs --------------------------
(***************************************************************************)
(* For any pool of two slots or more, any queue and any events: the battery*)
(* of the self-test fails no check on a sound library but for a waiter that*)
(* ran late or a delivery it gave up, and gives back the events it takes.  *)
(***************************************************************************)
EXTENDS SelfTest, FiniteSetTheorems, SequenceTheorems, TLAPS

\* A handle may be good for a slot that waits for an answer, has it, or was
\* given up.
Pending(h) == IsCurrent(h) /\ st[h.slot] = "pending" /\ held[h.slot] = Sides
Settled(h, x) ==
  /\ IsCurrent(h) /\ st[h.slot] = "resolved" /\ held[h.slot] = {"future"}
  /\ ans[h.slot] = x
Late(h) == IsCurrent(h) /\ st[h.slot] = "timedOut" /\ held[h.slot] = {"promise"}

\* The requests that the producer has yet to answer
InFlight ==
  {inbox[i] : i \in DOMAIN inbox} \cup (IF producer = "delay" THEN {request} ELSE {})
Owns(s) == \E i \in DOMAIN mine : IsCurrent(mine[i]) /\ mine[i].slot = s
Asked == [promise |-> mine[1], mode |-> Battery[check]]

StagesOf(c) ==
  CASE c = "controls" -> {"top", "stopped", "start", "wait"}
    [] c = "timeout" -> {"start", "wait", "late"}
    [] c \in Deliveries -> {"start", "send", "wait"}
    [] c = "stale" -> {"start", "set", "take", "reuse", "poison", "answer", "read"}
    [] c = "cancel" -> {"start", "set", "claim", "release"}

AllPending ==
  \A i \in DOMAIN mine :
    Pending(mine[i]) /\ \A j \in DOMAIN mine : mine[i].slot = mine[j].slot => i = j

\* The first handle is of an earlier occupant, and so it stays: its slot is free, or
\* that of the second handle.
FirstIsStale ==
  /\ ~IsCurrent(mine[1])
  /\ st[mine[1].slot] = "free" \/ (Len(mine) = 2 /\ mine[1].slot = mine[2].slot)

\* What the waiter has at each stage of each check
MineSound ==
  /\ stage \in StagesOf(Battery[check])
  /\ stage \in {"top", "stopped", "start"} => mine = <<>> /\ ok
  /\ In("controls", "wait") => mine = <<>> /\ ok
  /\ In("timeout", "wait") \/ Delivering("send") \/ In("stale", "set") \/ In("cancel", "set")
       => Len(mine) = 1 /\ Pending(mine[1])
  /\ In("timeout", "late") => Len(mine) = 1 /\ Late(mine[1])
  /\ Delivering("wait") =>
       /\ Len(mine) = 1
       /\ (Pending(mine[1]) /\ Asked \in InFlight) \/ Settled(mine[1], Battery[check])
  /\ In("stale", "take") => Len(mine) = 1 /\ Settled(mine[1], "real")
  /\ In("stale", "reuse") => Len(mine) = 1 /\ FirstIsStale
  /\ In("stale", "poison") \/ In("stale", "answer")
       => Len(mine) = 2 /\ Pending(mine[2]) /\ FirstIsStale
  /\ In("stale", "read") => Len(mine) = 2 /\ Settled(mine[2], "real") /\ FirstIsStale
  /\ In("cancel", "claim") => AllPending
  /\ In("cancel", "release") => AllPending /\ mine # <<>>

\* The requests are of different slots.
InboxApart ==
  /\ \A i, j \in DOMAIN inbox : inbox[i].promise.slot = inbox[j].promise.slot => i = j
  /\ producer = "delay" =>
       request \in Requests /\ \A i \in DOMAIN inbox : inbox[i].promise.slot # request.promise.slot

\* A request that nobody waits for any more holds a slot that was given up.
RequestsHeld ==
  \A r \in InFlight :
     \/ Late(r.promise) /\ ~Owns(r.promise.slot)
     \/ Delivering("wait") /\ Pending(r.promise) /\ r = Asked

\* No slot leaks, and the state of each says who holds it.
SlotsOwned == \A s \in Slots : st[s] = "free" \/ Owns(s) \/ \E r \in InFlight : r.promise.slot = s
FreeSound == \A s \in Slots : st[s] = "free" <=> held[s] = {}

ControlSound == control # NoEvent <=> In("controls", "wait")

\* The request of a delivery is the last in the queue.  Once it is answered nothing
\* is in flight, and the time of the last answer is that of this one.
StampSound ==
  Delivering("wait") =>
    IF Pending(mine[1])
    THEN inbox # <<>> => inbox[Len(inbox)] = Asked
    ELSE InFlight = {} /\ stamped = Asked

\* With nothing behind, nothing has gone wrong but the time: the pool is the waiter's alone, and the
\* slot that a stale handle is of is the first free one.
OnTime ==
  ~behind =>
    /\ ok /\ (report = "FAIL" => late)
    /\ \A r \in InFlight : ~Late(r.promise)
    /\ Battery[check] = "stale" /\ mine # <<>> => \A s \in Slots : mine[1].slot <= s
    /\ Battery[check] = "stale" /\ Len(mine) = 2 => mine[1].slot = mine[2].slot

TestInv ==
  /\ TestTypeOK /\ MineSound /\ InboxApart /\ RequestsHeld /\ SlotsOwned /\ FreeSound
  /\ ControlSound /\ StampSound /\ OnTime /\ EventsReturn

-----------------------------------------------------------------------------
(* Lemmas about the pool's operations.                                     *)
OnlySlots(S) ==
  \A t \in Slots \ S : /\ st'[t] = st[t] /\ gen'[t] = gen[t]
                       /\ held'[t] = held[t] /\ ans'[t] = ans[t]

\* A slot that is freed is of another generation.
LEMMA GenMoves ==
  \A g \in Generations : (g + 1) % GenModulus \in Generations /\ (g + 1) % GenModulus # g
<1> SUFFICES ASSUME NEW g \in Generations
             PROVE  (g + 1) % GenModulus \in Generations /\ (g + 1) % GenModulus # g
  OBVIOUS
<1> USE PoolAssumption, TestAssumption DEF Generations
<1>1. CASE g + 1 < GenModulus
  <2>1. (g + 1) % GenModulus = g + 1
    BY <1>1
  <2> QED
    BY <1>1, <2>1
<1>2. CASE g + 1 = GenModulus
  <2>1. (g + 1) % GenModulus = 0
    BY <1>2
  <2> QED
    BY <1>2, <2>1
<1> QED
  BY <1>1, <1>2

\* Leaving a slot changes that slot only, and frees it with the last side.
LEMMA LeaveSlotEffect ==
  ASSUME PoolTypeOK, FreeSound,
         NEW s \in Slots, NEW left \in SUBSET Sides, NEW state \in SlotStates,
         NEW x \in Answers \cup {NoAnswer}, LeaveSlot(s, left, state, x),
         left # {} => state # "free"
  PROVE  /\ PoolTypeOK' /\ FreeSound' /\ OnlySlots({s}) /\ held'[s] = left
         /\ left = {} => st'[s] = "free" /\ gen'[s] # gen[s]
         /\ left # {} => st'[s] = state /\ ans'[s] = x /\ gen'[s] = gen[s]
<1>1. /\ PoolTypeOK' /\ OnlySlots({s}) /\ held'[s] = left
      /\ left = {} => st'[s] = "free" /\ gen'[s] # gen[s]
      /\ left # {} => st'[s] = state /\ ans'[s] = x /\ gen'[s] = gen[s]
  BY GenMoves DEF PoolTypeOK, LeaveSlot, SlotStates, OnlySlots
<1>2. FreeSound'
  BY <1>1 DEF FreeSound, OnlySlots
<1> QED
  BY <1>1, <1>2

\* Claiming a slot hands out both its sides.
LEMMA ClaimEffect ==
  ASSUME PoolTypeOK, FreeSound, NEW s \in Slots, Claim(s)
  PROVE  /\ PoolTypeOK' /\ FreeSound' /\ OnlySlots({s})
         /\ held'[s] = Sides /\ st'[s] = "pending" /\ gen' = gen
BY DEF PoolTypeOK, FreeSound, Claim, SlotStates, Sides, OnlySlots

\* A handle on a slot that did not change is as good as before.
LEMMA HandleKept ==
  ASSUME NEW S \in SUBSET Slots, OnlySlots(S), NEW h \in Handles, h.slot \notin S
  PROVE  /\ IsCurrent(h)' <=> IsCurrent(h)
         /\ Pending(h)' <=> Pending(h)
         /\ Late(h)' <=> Late(h)
         /\ \A x : Settled(h, x)' <=> Settled(h, x)
         /\ st'[h.slot] = st[h.slot]
<1>1. h.slot \in Slots \ S
  BY DEF Handles
<1> QED
  BY <1>1 DEF OnlySlots, IsCurrent, Pending, Late, Settled

-----------------------------------------------------------------------------
(* What the variables hold.                                                *)
Checks == {"controls", "timeout", "task", "forever", "isr", "stale", "cancel"}

\* The battery is of seven checks.
LEMMA BatteryShape ==
  /\ Len(Battery) = 7 /\ DOMAIN Battery = 1 .. 7
  /\ Battery[1] = "controls"
  /\ \A c \in DOMAIN Battery : Battery[c] \in Checks
BY DEF Battery, Checks

\* The handles of the waiter are handles.
LEMMA MineTyped ==
  ASSUME TestTypeOK
  PROVE  /\ Len(mine) \in Nat /\ DOMAIN mine = 1 .. Len(mine)
         /\ \A i \in DOMAIN mine : mine[i] \in Handles /\ mine[i].slot \in Slots
<1>1. mine \in Seq(Handles)
  BY DEF TestTypeOK
<1>2. /\ Len(mine) \in Nat /\ DOMAIN mine = 1 .. Len(mine)
      /\ \A i \in DOMAIN mine : mine[i] \in Handles
  BY <1>1, ElementOfSeq, LenProperties
<1> QED
  BY <1>2 DEF Handles

\* What is in flight are requests.
LEMMA RequestTyped ==
  ASSUME TestInv
  PROVE  /\ Len(inbox) \in Nat /\ DOMAIN inbox = 1 .. Len(inbox)
         /\ \A i \in DOMAIN inbox : inbox[i] \in Requests
         /\ \A r \in InFlight : /\ r \in Requests /\ r.promise \in Handles
                                /\ r.promise.slot \in Slots /\ r.mode \in Deliveries
<1>1. inbox \in Seq(Requests)
  BY DEF TestInv, TestTypeOK
<1>2. /\ Len(inbox) \in Nat /\ DOMAIN inbox = 1 .. Len(inbox)
      /\ \A i \in DOMAIN inbox : inbox[i] \in Requests
  BY <1>1, ElementOfSeq, LenProperties
<1>3. producer = "delay" => request \in Requests
  BY DEF TestInv, InboxApart
<1>4. \A r \in InFlight : r \in Requests
  BY <1>2, <1>3 DEF InFlight
<1>5. \A r \in Requests : /\ r.promise \in Handles /\ r.promise.slot \in Slots
                          /\ r.mode \in Deliveries
  BY DEF Requests, Handles
<1> QED
  BY <1>2, <1>4, <1>5

\* But for the wait of a delivery, all that is in flight is late.
LEMMA FlightsAreLate ==
  ASSUME TestInv, ~Delivering("wait") \/ ~Pending(mine[1])
  PROVE  \A r \in InFlight : /\ Late(r.promise) /\ ~Owns(r.promise.slot)
                             /\ r.promise \in Handles /\ r.promise.slot \in Slots
BY RequestTyped DEF TestInv, RequestsHeld, Asked

-----------------------------------------------------------------------------
(* The waiter's steps.                                                     *)
\* What is in flight does not mind a step on slots that are the waiter's or free.
LEMMA FlightsStay ==
  ASSUME TestInv, ~Delivering("wait") \/ ~Pending(mine[1]), UNCHANGED <<inbox, request, producer>>,
         NEW S \in SUBSET Slots, OnlySlots(S),
         \A s \in S : Owns(s) \/ st[s] = "free",
         \A s \in Slots \ S : Owns(s)' <=> Owns(s),
         \A s \in S : st'[s] = "free" \/ Owns(s)'
  PROVE  /\ InboxApart' /\ RequestsHeld' /\ SlotsOwned' /\ InFlight' = InFlight
         /\ \A r \in InFlight : Late(r.promise)'
<1>1. InboxApart' /\ InFlight' = InFlight
  BY DEF TestInv, InboxApart, InFlight
<1>2. ASSUME NEW r \in InFlight
      PROVE  Late(r.promise)' /\ ~Owns(r.promise.slot)'
  <2>1. /\ Late(r.promise) /\ ~Owns(r.promise.slot)
        /\ r.promise \in Handles /\ r.promise.slot \in Slots
    BY FlightsAreLate
  <2>2. r.promise.slot \notin S
    BY <2>1 DEF Late
  <2> QED
    BY <2>1, <2>2, HandleKept
<1>3. RequestsHeld'
  BY <1>1, <1>2 DEF RequestsHeld
<1>4. SlotsOwned'
  BY <1>1 DEF TestInv, SlotsOwned, OnlySlots
<1> QED
  BY <1>1, <1>2, <1>3, <1>4

\* The end of a check leaves the waiter with nothing.
LEMMA DoneEffect ==
  ASSUME TestInv, NEW p \in BOOLEAN, NEW tardy \in BOOLEAN, DoneIn(p, tardy)
  PROVE  /\ check' \in DOMAIN Battery /\ stage' \in Stages /\ stage' \in {"top", "start"}
         /\ stage' = "top" => Battery[check'] = "controls"
         /\ mine' = <<>> /\ mine' \in Seq(Handles) /\ Len(mine') = 0 /\ ok' = TRUE
         /\ report' = (IF p /\ ~tardy THEN "PASS" ELSE "FAIL") /\ late' = tardy
         /\ MineSound' /\ \A s : ~Owns(s)'
         /\ ~Delivering("wait")' /\ ~In("controls", "wait")'
<1>1. check \in 1 .. 7
  BY BatteryShape DEF TestInv, TestTypeOK
<1>2. /\ check' \in DOMAIN Battery /\ stage' \in {"top", "start"}
      /\ stage' = "top" => Battery[check'] = "controls"
  BY <1>1, BatteryShape DEF DoneIn
<1>3. /\ mine' = <<>> /\ ok' = TRUE
      /\ report' = (IF p /\ ~tardy THEN "PASS" ELSE "FAIL") /\ late' = tardy
  BY DEF DoneIn, Reports
<1>4. mine' \in Seq(Handles) /\ Len(mine') = 0 /\ DOMAIN mine' = {}
  BY <1>3
<1>5. stage' \in StagesOf(Battery[check'])
  BY <1>2, BatteryShape DEF StagesOf, Checks, Deliveries
<1>6. MineSound'
  BY <1>2, <1>3, <1>5 DEF MineSound, In, Delivering
<1> QED
  BY <1>2, <1>3, <1>4, <1>6 DEF Owns, Delivering, In, Stages

\* On time, nothing is in flight but what a delivery waits for.
LEMMA AloneOnTime ==
  ASSUME TestInv, ~Delivering("wait") \/ ~Pending(mine[1]), ~behind
  PROVE  InFlight = {}
BY FlightsAreLate DEF TestInv, OnTime

\* And every slot that the waiter does not have is free.
LEMMA AllFree ==
  ASSUME TestInv, ~Delivering("wait"), ~behind
  PROVE  \A s \in Slots : st[s] = "free" \/ Owns(s)
BY AloneOnTime DEF TestInv, SlotsOwned

\* So that a waiter with nothing finds a slot.
LEMMA SlotForOne ==
  ASSUME TestInv, ~Delivering("wait"), \A s : ~Owns(s), FreeSlots = {}
  PROVE  behind
<1>1. Slots # {}
  BY TestAssumption, FS_EmptySet
<1>2. behind \in BOOLEAN
  BY DEF TestInv, TestTypeOK
<1> QED
  BY <1>1, <1>2, AllFree DEF FreeSlots

\* A check may end that has let go of all it had, and failed only for its time or if
\* something is behind.
LEMMA EndedStep ==
  ASSUME TestInv, ~Delivering("wait") \/ ~Pending(mine[1]), NEW p \in BOOLEAN,
         NEW tardy \in BOOLEAN, DoneIn(p, tardy), WaiterOnly,
         UNCHANGED <<inbox, behind>>, control' = NoEvent, inUse' \subseteq Events, EventsReturn',
         PoolTypeOK', FreeSound', NEW S \in SUBSET Slots, OnlySlots(S),
         \A s \in S : (Owns(s) \/ st[s] = "free") /\ st'[s] = "free",
         \A s : Owns(s) => s \in S,
         ~behind => p
  PROVE  TestInv'
<1>1. /\ check' \in DOMAIN Battery /\ stage' \in Stages /\ stage' \in {"top", "start"}
      /\ mine' = <<>> /\ mine' \in Seq(Handles) /\ Len(mine') = 0 /\ ok' = TRUE
      /\ report' = (IF p /\ ~tardy THEN "PASS" ELSE "FAIL") /\ late' = tardy
      /\ MineSound' /\ \A s : ~Owns(s)'
      /\ ~Delivering("wait")' /\ ~In("controls", "wait")'
  BY DoneEffect
<1>2. UNCHANGED <<inbox, request, producer, stamped, port, stopping, behind>>
  BY DEF WaiterOnly
<1>3. /\ InboxApart' /\ RequestsHeld' /\ SlotsOwned' /\ InFlight' = InFlight
  BY <1>1, <1>2, FlightsStay
<1>4. TestTypeOK'
  <2>1. Cardinality(Slots) \in Nat
    BY TestAssumption, FS_CardinalityType
  <2>2. TestTypeOK
    BY DEF TestInv
  <2> QED
    BY <1>1, <1>2, <2>1, <2>2 DEF TestTypeOK
<1>5. ControlSound' /\ StampSound'
  BY <1>1 DEF ControlSound, StampSound
<1>6. OnTime'
  BY <1>1, <1>2, <1>3, AloneOnTime DEF OnTime
<1> QED
  BY <1>1, <1>3, <1>4, <1>5, <1>6 DEF TestInv

\* A check may go on that has as many handles as it should.
LEMMA GoesOn ==
  ASSUME TestInv, ~Delivering("wait"), UNCHANGED <<check, report, late, inbox, behind>>, WaiterOnly,
         NoEvents, stage' \in Stages, ok' \in BOOLEAN, ~behind => ok',
         ~In("controls", "wait"), stage' # "wait" \/ Battery[check] = "timeout",
         PoolTypeOK', FreeSound',
         mine' \in Seq(Handles), Len(mine') <= Cardinality(Slots), MineSound',
         NEW S \in SUBSET Slots, OnlySlots(S),
         \A s \in S : Owns(s) \/ st[s] = "free",
         \A s \in Slots \ S : Owns(s)' <=> Owns(s),
         \A s \in S : st'[s] = "free" \/ Owns(s)',
         ~behind /\ Battery[check] = "stale" /\ mine' # <<>> =>
           /\ \A s \in Slots : mine'[1].slot <= s
           /\ Len(mine') = 2 => mine'[1].slot = mine'[2].slot
  PROVE  TestInv'
<1>2. UNCHANGED <<inbox, request, producer, stamped, port, stopping, behind, inUse, control, check,
                  report, late>>
  BY DEF WaiterOnly, NoEvents
<1>3. /\ InboxApart' /\ RequestsHeld' /\ SlotsOwned' /\ InFlight' = InFlight
  BY <1>2, FlightsStay
<1>4. TestTypeOK'
  <2>2. TestTypeOK
    BY DEF TestInv
  <2> QED
    BY <1>2, <2>2 DEF TestTypeOK
<1>5. ControlSound' /\ StampSound' /\ EventsReturn'
  BY <1>2 DEF TestInv, ControlSound, StampSound, EventsReturn, In, Delivering, Deliveries
<1>6. OnTime'
  BY <1>2, <1>3, AloneOnTime DEF TestInv, OnTime
<1> QED
  BY <1>3, <1>4, <1>5, <1>6 DEF TestInv

\* A handle that stays is of the same slot, current or not, where the pool does not change.
LEMMA OwnsKept ==
  ASSUME TestInv, NEW S \in SUBSET Slots, OnlySlots(S), mine' = mine
  PROVE  \A s \in Slots \ S : Owns(s)' <=> Owns(s)
<1>1. \A i \in DOMAIN mine : mine[i] \in Handles /\ mine[i].slot \in Slots
  BY MineTyped DEF TestInv
<1>2. \A i \in DOMAIN mine : mine[i].slot \in Slots \ S => (IsCurrent(mine[i])' <=> IsCurrent(mine[i]))
  BY <1>1 DEF OnlySlots, IsCurrent
<1> QED
  BY <1>1, <1>2 DEF Owns, IsCurrent

\* cfuture_create gives the waiter one more handle.
LEMMA CreateEffect ==
  ASSUME TestInv, NEW n \in Slots, FirstFree(n), Claim(n), mine' = Append(mine, HandleOn(n))
  PROVE  /\ PoolTypeOK' /\ FreeSound' /\ OnlySlots({n}) /\ st[n] = "free" /\ gen' = gen
         /\ mine' \in Seq(Handles) /\ Len(mine') = Len(mine) + 1
         /\ DOMAIN mine' = 1 .. Len(mine) + 1
         /\ \A i \in DOMAIN mine : mine'[i] = mine[i]
         /\ mine'[Len(mine) + 1] = HandleOn(n)
         /\ HandleOn(n) \in Handles /\ HandleOn(n).slot = n
         /\ Pending(HandleOn(n))' /\ gen[n] = HandleOn(n).gen
         /\ st'[n] = "pending" /\ held'[n] = Sides
         /\ Owns(n)' /\ \A s \in Slots \ {n} : Owns(s)' <=> Owns(s)
<1>1. /\ PoolTypeOK' /\ FreeSound' /\ OnlySlots({n}) /\ st[n] = "free"
      /\ held'[n] = Sides /\ st'[n] = "pending" /\ gen' = gen
  BY ClaimEffect DEF TestInv, TestTypeOK, FirstFree
<1>2. PICK h : h = HandleOn(n)
  OBVIOUS
<1>3. h \in Handles /\ h.slot = n /\ h.gen = gen[n]
  BY <1>2 DEF HandleOn, Handles, TestInv, TestTypeOK, PoolTypeOK
<1>4. mine \in Seq(Handles) /\ mine' = Append(mine, h)
  BY <1>2 DEF TestInv, TestTypeOK
<1>5. /\ mine' \in Seq(Handles) /\ Len(mine') = Len(mine) + 1
      /\ DOMAIN mine' = 1 .. Len(mine) + 1 /\ DOMAIN mine = 1 .. Len(mine) /\ Len(mine) \in Nat
      /\ \A i \in DOMAIN mine : mine'[i] = mine[i]
      /\ mine'[Len(mine) + 1] = h
  <2>1. /\ mine' \in Seq(Handles) /\ Len(mine') = Len(mine) + 1
        /\ \A i \in 1 .. Len(mine) : mine'[i] = mine[i]
        /\ mine'[Len(mine) + 1] = h
    BY <1>3, <1>4, AppendProperties
  <2> QED
    BY <1>4, <2>1, LenProperties
<1>6. Pending(h)'
  BY <1>1, <1>3 DEF Pending, IsCurrent
<1>7. Owns(n)'
  BY <1>1, <1>3, <1>5 DEF Owns, IsCurrent
<1>8. \A s \in Slots \ {n} : Owns(s)' <=> Owns(s)
  <2>1. \A i \in DOMAIN mine' : i \in DOMAIN mine \/ i = Len(mine) + 1
    BY <1>5
  <2>2. \A i \in DOMAIN mine : i \in DOMAIN mine'
    BY <1>5
  <2> QED
    BY <1>1, <1>3, <1>5, <2>1, <2>2 DEF Owns, IsCurrent
<1>9. /\ mine'[Len(mine) + 1] = HandleOn(n)
      /\ HandleOn(n) \in Handles /\ HandleOn(n).slot = n /\ gen[n] = HandleOn(n).gen
  BY <1>2, <1>3, <1>5
<1>10. Pending(HandleOn(n))'
  BY <1>1, <1>9 DEF Pending, IsCurrent, HandleOn
<1> QED
  BY <1>1, <1>5, <1>7, <1>8, <1>9, <1>10

-----------------------------------------------------------------------------
(* How a check begins.                                                     *)
\* A check that finds no slot ends, and only with something late.
LEMMA RefusedStep ==
  ASSUME TestInv, ~Delivering("wait"), ~In("controls", "wait"), \A s : ~Owns(s), FreeSlots = {},
         DoneIn(FALSE, FALSE), NoPool, NoEvents, WaiterOnly, UNCHANGED <<inbox, behind>>
  PROVE  TestInv'
<1>1. /\ control' = NoEvent /\ inUse' \subseteq Events /\ EventsReturn'
  BY DEF TestInv, ControlSound, EventsReturn, TestTypeOK, NoEvents, WaiterOnly
<1>2. PoolTypeOK' /\ FreeSound' /\ OnlySlots({})
  BY DEF TestInv, TestTypeOK, PoolTypeOK, FreeSound, OnlySlots, NoPool, poolVars
<1>3. behind
  BY SlotForOne
<1>4. {} \in SUBSET Slots
  OBVIOUS
<1> QED
  BY <1>1, <1>2, <1>3, <1>4, EndedStep

\* A check that finds a slot has its first handle.
LEMMA BegunStep ==
  ASSUME TestInv, stage = "start", NEW n \in Slots, FirstFree(n), Claim(n),
         mine' = Append(mine, HandleOn(n)),
         \/ Battery[check] = "timeout" /\ Stay("wait")
         \/ Battery[check] \in Deliveries /\ Stay("send")
         \/ Battery[check] \in {"stale", "cancel"} /\ Stay("set"),
         UNCHANGED <<ok, inbox, behind>>, NoEvents, WaiterOnly
  PROVE  TestInv'
<1>1. ~Delivering("wait") /\ ~In("controls", "wait") /\ mine = <<>> /\ ok
  BY DEF TestInv, MineSound, Delivering, In
<1>2. /\ PoolTypeOK' /\ FreeSound' /\ OnlySlots({n}) /\ st[n] = "free"
      /\ mine' \in Seq(Handles) /\ Len(mine') = 1
      /\ mine'[1] = HandleOn(n) /\ HandleOn(n).slot = n /\ gen'[n] = HandleOn(n).gen
      /\ st'[n] = "pending" /\ held'[n] = Sides
      /\ Owns(n)' /\ \A s \in Slots \ {n} : Owns(s)' <=> Owns(s)
  <2>1. Len(mine) = 0
    BY <1>1
  <2>2. Len(mine) + 1 = 1
    BY <2>1
  <2> QED
    BY <2>2, CreateEffect
<1>3. /\ UNCHANGED <<check, report, late>>
      /\ \/ Battery[check] = "timeout" /\ stage' = "wait"
         \/ Battery[check] \in Deliveries /\ stage' = "send"
         \/ Battery[check] \in {"stale", "cancel"} /\ stage' = "set"
  BY DEF Stay
<1>4. MineSound'
  <2>1. Len(mine') = 1 /\ Pending(mine[1])'
    BY <1>2 DEF Pending, IsCurrent
  <2>2. stage' \in StagesOf(Battery[check'])
    BY <1>3 DEF StagesOf, Deliveries
  <2>3. stage' \in {"wait", "send", "set"} /\ ~Delivering("wait")' /\ ~In("controls", "wait")'
    BY <1>3 DEF Delivering, Deliveries, In
  <2> QED
    BY <1>3, <2>1, <2>2, <2>3 DEF MineSound, In, Delivering
<1>5. stage' \in Stages /\ Cardinality(Slots) \in Nat /\ Len(mine') <= Cardinality(Slots)
  BY <1>2, <1>3, TestAssumption, FS_CardinalityType DEF Stages
<1>6. ok' = ok /\ ok \in BOOLEAN /\ (stage' # "wait" \/ Battery[check] = "timeout")
  BY <1>1, <1>3
<1>7. ~behind => \A s \in Slots : mine'[1].slot <= s
  <2> SUFFICES ASSUME ~behind, NEW s \in Slots
               PROVE  n <= s
    BY <1>2
  <2>1. st[s] = "free"
    BY <1>1, AllFree DEF Owns
  <2> QED
    BY <2>1 DEF FirstFree
<1>8. {n} \in SUBSET Slots /\ \A s \in {n} : st[s] = "free" /\ Owns(s)'
  BY <1>2
<1>9. UNCHANGED <<check, report, late, inbox, behind>>
  BY <1>3
<1> QED
  BY <1>1, <1>2, <1>4, <1>5, <1>6, <1>7, <1>8, <1>9, GoesOn

\* The beginnings of the checks
LEMMA Begins ==
  ASSUME TestInv, TimeoutCreates \/ DeliveryCreates \/ StaleCreates \/ CancelCreates
  PROVE  TestInv'
<1> USE DEF CreateOr, Done
<1>1. stage = "start" /\ Battery[check] # "controls"
  BY DEF TimeoutCreates, DeliveryCreates, StaleCreates, CancelCreates, In, Delivering, Deliveries
<1>2. ~Delivering("wait") /\ ~In("controls", "wait") /\ mine = <<>> /\ ok
  BY <1>1 DEF TestInv, MineSound, Delivering, In
<1>3. \A s : ~Owns(s)
  BY <1>2 DEF Owns
<1>4. CASE TimeoutCreates
  BY <1>1, <1>2, <1>3, <1>4, RefusedStep, BegunStep DEF TimeoutCreates, In
<1>5. CASE StaleCreates
  BY <1>1, <1>2, <1>3, <1>5, RefusedStep, BegunStep DEF StaleCreates, In
<1>6. CASE CancelCreates
  <2>1. CASE FreeSlots = {}
    <3>1. /\ NoPool /\ Stay("claim") /\ ok' = FALSE /\ UNCHANGED <<mine, inbox, behind>>
          /\ NoEvents /\ WaiterOnly /\ Battery[check] = "cancel"
      BY <1>6, <2>1 DEF CancelCreates, In
    <3>2. PoolTypeOK' /\ FreeSound' /\ OnlySlots({}) /\ {} \in SUBSET Slots
      BY <3>1 DEF TestInv, TestTypeOK, PoolTypeOK, FreeSound, OnlySlots, NoPool, poolVars
    <3>3. behind
      BY <1>2, <1>3, <2>1, SlotForOne
    <3>4. \A s \in Slots \ {} : Owns(s)' <=> Owns(s)
      BY <3>1, <3>2, OwnsKept
    <3>5. MineSound'
      BY <1>2, <3>1 DEF MineSound, In, Delivering, StagesOf, Deliveries, AllPending, Stay
    <3>6. /\ mine' \in Seq(Handles) /\ Len(mine') <= Cardinality(Slots)
          /\ stage' \in Stages /\ UNCHANGED <<check, report, late>> /\ stage' = "claim"
      BY <3>1 DEF TestInv, TestTypeOK, Stay, Stages
    <3> QED
      BY <1>2, <3>1, <3>2, <3>3, <3>4, <3>5, <3>6, GoesOn
  <2>2. CASE FreeSlots # {}
    BY <1>1, <1>2, <1>6, <2>2, BegunStep DEF CancelCreates, In
  <2> QED
    BY <2>1, <2>2
<1>7. CASE DeliveryCreates
  <2>1. CASE Battery[check] = "isr" /\ port # "places"
    <3>1. NoPool /\ DoneIn(TRUE, FALSE) /\ UNCHANGED <<inbox, behind>> /\ NoEvents /\ WaiterOnly
      BY <1>7, <2>1 DEF DeliveryCreates, Ending, EndingIn
    <3>2. /\ control' = NoEvent /\ inUse' \subseteq Events /\ EventsReturn'
      BY <1>2, <3>1 DEF TestInv, ControlSound, EventsReturn, TestTypeOK, NoEvents, WaiterOnly
    <3>3. PoolTypeOK' /\ FreeSound' /\ OnlySlots({}) /\ {} \in SUBSET Slots
      BY <3>1 DEF TestInv, TestTypeOK, PoolTypeOK, FreeSound, OnlySlots, NoPool, poolVars
    <3> QED
      BY <1>2, <1>3, <3>1, <3>2, <3>3, EndedStep
  <2>2. CASE ~(Battery[check] = "isr" /\ port # "places")
    <3>1. CreateOr(Done(FALSE), "send") /\ Battery[check] \in Deliveries
      BY <1>7, <2>2 DEF DeliveryCreates, Delivering
    <3> QED
      BY <1>1, <1>2, <1>3, <3>1, RefusedStep, BegunStep
  <2> QED
    BY <2>1, <2>2
<1> QED
  BY <1>4, <1>5, <1>6, <1>7

-----------------------------------------------------------------------------
(* What becomes of the slot of a handle.                                   *)
Freed(h) == st'[h.slot] = "free" /\ ~IsCurrent(h)'

\* An answer to a pair that waits for one settles it.
LEMMA Answering ==
  ASSUME TestInv, NEW h \in Handles, NEW x \in Answers, Pending(h), Resolve(h, x)
  PROVE  PoolTypeOK' /\ FreeSound' /\ OnlySlots({h.slot}) /\ Settled(h, x)'
<1>1. h.slot \in Slots
  BY DEF Handles
<1>2. LeaveSlot(h.slot, {"future"}, "resolved", x)
  <2>1. Sides \ {"promise"} = {"future"}
    BY DEF Sides
  <2> QED
    BY <2>1 DEF Resolve, Pending, Sides
<1>3. {"future"} \in SUBSET Sides /\ {"future"} # {} /\ "resolved" \in SlotStates /\ "resolved" # "free"
  BY DEF Sides, SlotStates
<1>4. /\ PoolTypeOK' /\ FreeSound' /\ OnlySlots({h.slot}) /\ held'[h.slot] = {"future"}
      /\ st'[h.slot] = "resolved" /\ ans'[h.slot] = x /\ gen'[h.slot] = gen[h.slot]
  <2>1. PICK y \in Answers \cup {NoAnswer} : y = x
    OBVIOUS
  <2>2. LeaveSlot(h.slot, {"future"}, "resolved", y) /\ PoolTypeOK /\ FreeSound
    BY <1>2, <2>1 DEF TestInv, TestTypeOK
  <2> QED
    BY <1>1, <1>3, <2>1, <2>2, LeaveSlotEffect
<1> QED
  BY <1>4 DEF Settled, Pending, IsCurrent

\* A pair whose future gives up is late.
LEMMA Giving ==
  ASSUME TestInv, NEW h \in Handles, Pending(h), GiveUp(h)
  PROVE  PoolTypeOK' /\ FreeSound' /\ OnlySlots({h.slot}) /\ Late(h)'
<1>1. h.slot \in Slots
  BY DEF Handles
<1>2. LeaveSlot(h.slot, {"promise"}, "timedOut", NoAnswer)
  <2>1. Sides \ {"future"} = {"promise"}
    BY DEF Sides
  <2> QED
    BY <2>1 DEF GiveUp, Pending
<1>3. {"promise"} \in SUBSET Sides /\ {"promise"} # {} /\ "timedOut" \in SlotStates /\ "timedOut" # "free"
  BY DEF Sides, SlotStates
<1>4. /\ PoolTypeOK' /\ FreeSound' /\ OnlySlots({h.slot}) /\ held'[h.slot] = {"promise"}
      /\ st'[h.slot] = "timedOut" /\ gen'[h.slot] = gen[h.slot]
  BY <1>1, <1>2, <1>3, LeaveSlotEffect, ZenonT(30) DEF TestInv, TestTypeOK
<1> QED
  BY <1>4 DEF Late, Pending, IsCurrent

\* The last side frees the slot.
LEMMA Freeing ==
  ASSUME TestInv, NEW h \in Handles, IsCurrent(h),
         NEW state \in SlotStates, NEW x \in Answers \cup {NoAnswer},
         LeaveSlot(h.slot, {}, state, x)
  PROVE  PoolTypeOK' /\ FreeSound' /\ OnlySlots({h.slot}) /\ Freed(h)
<1>1. h.slot \in Slots
  BY DEF Handles
<1>2. {} \in SUBSET Sides
  OBVIOUS
<1>3. /\ PoolTypeOK' /\ FreeSound' /\ OnlySlots({h.slot})
      /\ st'[h.slot] = "free" /\ gen'[h.slot] # gen[h.slot]
  BY <1>1, <1>2, LeaveSlotEffect DEF TestInv, TestTypeOK
<1> QED
  BY <1>3 DEF Freed, IsCurrent

\* That is so of a taken answer, of a late promise, and of a pair that is cancelled.
LEMMA LastSide ==
  ASSUME TestInv, NEW h \in Handles,
         \/ \E x \in Answers : Settled(h, x) /\ TakeAnswer(h)
         \/ \E x \in Answers : Late(h) /\ Resolve(h, x)
         \/ Pending(h) /\ Cancel(h)
  PROVE  PoolTypeOK' /\ FreeSound' /\ OnlySlots({h.slot}) /\ Freed(h)
<1>1. h.slot \in Slots /\ IsCurrent(h)
  BY DEF Handles, Settled, Late, Pending
<1>2. st[h.slot] \in SlotStates /\ ans[h.slot] \in Answers \cup {NoAnswer}
  BY <1>1 DEF TestInv, TestTypeOK, PoolTypeOK
<1>3. CASE \E x \in Answers : Settled(h, x) /\ TakeAnswer(h)
  <2>1. LeaveSlot(h.slot, {}, st[h.slot], ans[h.slot])
    <3>1. held[h.slot] \ {"future"} = {}
      BY <1>3 DEF Settled
    <3> QED
      BY <1>3, <3>1 DEF TakeAnswer
  <2> QED
    BY <1>1, <1>2, <2>1, Freeing
<1>4. CASE \E x \in Answers : Late(h) /\ Resolve(h, x)
  <2>1. LeaveSlot(h.slot, {}, st[h.slot], ans[h.slot])
    <3>1. held[h.slot] \ {"promise"} = {} /\ "promise" \in held[h.slot] /\ st[h.slot] # "pending"
      BY <1>4 DEF Late
    <3> QED
      BY <1>1, <1>4, <3>1 DEF Resolve
  <2> QED
    BY <1>1, <1>2, <2>1, Freeing
<1>5. CASE Pending(h) /\ Cancel(h)
  <2>1. LeaveSlot(h.slot, {}, "free", NoAnswer) /\ "free" \in SlotStates
    BY <1>5 DEF Cancel, Abandon, SlotStates
  <2> QED
    BY <1>1, <2>1, Freeing
<1> QED
  BY <1>3, <1>4, <1>5

\* A step with a handle that the waiter keeps, good or freed
LEMMA UsedStep ==
  ASSUME TestInv, ~Delivering("wait"), ~In("controls", "wait"), stage' # "wait",
         NEW k \in DOMAIN mine, IsCurrent(mine[k]), mine' = mine,
         ok' \in BOOLEAN, ~behind => ok' = ok,
         stage' \in Stages, UNCHANGED <<check, report, late, inbox, behind>>, NoEvents, WaiterOnly,
         PoolTypeOK', FreeSound', OnlySlots({mine[k].slot}),
         Freed(mine[k]) \/ IsCurrent(mine[k])', MineSound'
  PROVE  TestInv'
<1>1. PICK h \in Handles : h = mine[k]
  BY MineTyped DEF TestInv
<1>2. h.slot \in Slots /\ {h.slot} \in SUBSET Slots
  BY <1>1 DEF Handles
<1>3. \A s \in {h.slot} : Owns(s) /\ (st'[s] = "free" \/ Owns(s)')
  BY <1>1 DEF Owns, Freed, IsCurrent
<1>4. OnlySlots({h.slot})
  BY <1>1
<1>5. \A s \in Slots \ {h.slot} : Owns(s)' <=> Owns(s)
  BY <1>2, <1>4, OwnsKept
<1>6. /\ mine' \in Seq(Handles) /\ Len(mine') <= Cardinality(Slots)
      /\ ok' \in BOOLEAN /\ (~behind => ok')
  BY DEF TestInv, TestTypeOK, OnTime
<1>7. ~behind /\ Battery[check] = "stale" /\ mine' # <<>> =>
        /\ \A s \in Slots : mine'[1].slot <= s
        /\ Len(mine') = 2 => mine'[1].slot = mine'[2].slot
  BY DEF TestInv, OnTime
<1> QED
  BY <1>2, <1>3, <1>4, <1>5, <1>6, <1>7, GoesOn

\* The last step of a check frees the slot of its one good handle.
LEMMA FreedStep ==
  ASSUME TestInv, ~Delivering("wait") \/ ~Pending(mine[1]), ~In("controls", "wait"),
         NEW k \in DOMAIN mine, IsCurrent(mine[k]),
         \A i \in DOMAIN mine : IsCurrent(mine[i]) => mine[i].slot = mine[k].slot,
         NEW p \in BOOLEAN, NEW tardy \in BOOLEAN, DoneIn(p, tardy), ~behind => p,
         UNCHANGED <<inbox, behind>>, NoEvents, WaiterOnly,
         PoolTypeOK', FreeSound', OnlySlots({mine[k].slot}), Freed(mine[k])
  PROVE  TestInv'
<1>1. PICK h \in Handles : h = mine[k]
  BY MineTyped DEF TestInv
<1>2. h.slot \in Slots /\ {h.slot} \in SUBSET Slots
  BY <1>1 DEF Handles
<1>3. \A s \in {h.slot} : (Owns(s) \/ st[s] = "free") /\ st'[s] = "free"
  BY <1>1 DEF Owns, Freed
<1>4. \A s : Owns(s) => s \in {h.slot}
  BY <1>1 DEF Owns
<1>5. OnlySlots({h.slot})
  BY <1>1
<1>6. /\ control' = NoEvent /\ inUse' \subseteq Events /\ EventsReturn'
  BY DEF TestInv, ControlSound, EventsReturn, TestTypeOK, NoEvents, WaiterOnly
<1> QED
  BY <1>2, <1>3, <1>4, <1>5, <1>6, EndedStep

-----------------------------------------------------------------------------
(* The checks of the time-out and of the stale handle, step by step.       *)
\* The check of the time-out gives up its future, and lets go of its promise.
LEMMA TimeoutStep ==
  ASSUME TestInv, TimeoutExpires \/ TimeoutDrops
  PROVE  TestInv'
<1>0. Battery[check] = "timeout"
  BY DEF TimeoutExpires, TimeoutDrops, In
<1>1. ~Delivering("wait") /\ ~In("controls", "wait") /\ Len(mine) = 1
  BY <1>0 DEF TimeoutExpires, TimeoutDrops, TestInv, MineSound, Delivering, In, Deliveries
<1>2. 1 \in DOMAIN mine /\ (\A i \in DOMAIN mine : i = 1) /\ mine[1] \in Handles
  BY <1>1, MineTyped DEF TestInv
<1>3. CASE TimeoutExpires
  <2>1. /\ GiveUp(mine[1]) /\ Stay("late") /\ ok' = (ok /\ TRUE) /\ UNCHANGED <<mine, inbox, behind>>
        /\ NoEvents /\ WaiterOnly /\ stage = "wait"
    BY <1>3 DEF TimeoutExpires, Using, In
  <2>2. Pending(mine[1])
    BY <1>0, <2>1 DEF TestInv, MineSound, In
  <2>3. PoolTypeOK' /\ FreeSound' /\ OnlySlots({mine[1].slot}) /\ Late(mine[1])'
    <3>1. PICK h \in Handles : h = mine[1]
      BY <1>2
    <3>2. PoolTypeOK' /\ FreeSound' /\ OnlySlots({h.slot}) /\ Late(h)'
      BY <2>1, <2>2, <3>1, Giving
    <3> QED
      BY <2>1, <3>1, <3>2 DEF Late, IsCurrent
  <2>4. MineSound'
    <3>1. Len(mine') = 1 /\ Late(mine[1])' /\ stage' = "late" /\ Battery[check'] = "timeout"
      BY <1>0, <1>1, <2>1, <2>3 DEF Stay
    <3> QED
      BY <3>1 DEF MineSound, In, Delivering, StagesOf, Deliveries
  <2>5. stage' \in Stages /\ stage' # "wait" /\ UNCHANGED <<check, report, late, inbox, behind>>
    BY <2>1 DEF Stay, Stages
  <2>6. mine' = mine /\ ok' = ok /\ ok \in BOOLEAN
    BY <2>1 DEF TestInv, TestTypeOK
  <2>7. IsCurrent(mine[1]) /\ IsCurrent(mine[1])'
    BY <2>2, <2>3 DEF Pending, Late
  <2> QED
    BY <1>1, <1>2, <2>1, <2>3, <2>4, <2>5, <2>6, <2>7, UsedStep
<1>4. CASE TimeoutDrops
  <2>1. PICK tardy \in BOOLEAN :
          /\ Resolve(mine[1], "dropped") /\ DoneIn(TRUE, tardy) /\ UNCHANGED <<inbox, behind>>
          /\ NoEvents /\ WaiterOnly /\ stage = "late"
    BY <1>4 DEF TimeoutDrops, EndingIn, In
  <2>2. Late(mine[1]) /\ "dropped" \in Answers
    BY <1>0, <2>1, TestAssumption DEF TestInv, MineSound, In
  <2>3. PICK h \in Handles : h = mine[1]
    BY <1>2
  <2>4. PoolTypeOK' /\ FreeSound' /\ OnlySlots({h.slot}) /\ Freed(h)
    BY <2>1, <2>2, <2>3, LastSide
  <2>5. IsCurrent(mine[1]) /\ \A i \in DOMAIN mine : mine[i].slot = mine[1].slot
    BY <1>2, <2>2 DEF Late
  <2>6. PoolTypeOK' /\ FreeSound' /\ OnlySlots({mine[1].slot}) /\ (Freed(mine[1]))
    BY <2>3, <2>4
  <2> QED
    BY <1>1, <1>2, <2>1, <2>5, <2>6, FreedStep
<1> QED
  BY <1>3, <1>4

\* The check of the stale handle goes on with the first handle, and then the second.
LEMMA StaleStep ==
  ASSUME TestInv, StaleSets \/ StaleTakes \/ StalePoisons \/ StaleAnswers \/ StaleReads
  PROVE  TestInv'
<1>0. Battery[check] = "stale" /\ stage \in {"set", "take", "poison", "answer", "read"}
  BY DEF StaleSets, StaleTakes, StalePoisons, StaleAnswers, StaleReads, In
<1>1. ~Delivering("wait") /\ ~In("controls", "wait")
  BY <1>0 DEF Delivering, In, Deliveries
<1>2. /\ Len(mine) \in Nat /\ DOMAIN mine = 1 .. Len(mine)
      /\ \A i \in DOMAIN mine : mine[i] \in Handles
  BY MineTyped DEF TestInv
<1>3. ok \in BOOLEAN /\ (~behind => ok)
  BY DEF TestInv, TestTypeOK, OnTime
<1>4. {"real", "poison"} \subseteq Answers
  BY TestAssumption
<1>5. CASE StaleSets
  <2>1. /\ Resolve(mine[1], "real") /\ Stay("take") /\ ok' = (ok /\ TRUE) /\ UNCHANGED <<mine, inbox, behind>>
        /\ NoEvents /\ WaiterOnly /\ stage = "set"
    BY <1>5 DEF StaleSets, Using, In
  <2>2. Len(mine) = 1 /\ Pending(mine[1]) /\ 1 \in DOMAIN mine
    BY <1>0, <1>2, <2>1 DEF TestInv, MineSound, In
  <2>3. PICK h \in Handles : h = mine[1]
    BY <1>2, <2>2
  <2>4. PoolTypeOK' /\ FreeSound' /\ OnlySlots({h.slot}) /\ Settled(h, "real")'
    BY <1>4, <2>1, <2>2, <2>3, Answering
  <2>5. Settled(mine[1], "real")'
    BY <2>1, <2>3, <2>4 DEF Settled, IsCurrent
  <2>6. MineSound' /\ stage' \in Stages /\ stage' # "wait" /\ UNCHANGED <<check, report, late, inbox, behind>>
    <3>1. Len(mine') = 1 /\ stage' = "take" /\ Battery[check'] = "stale"
      BY <1>0, <2>1, <2>2 DEF Stay
    <3> QED
      BY <2>1, <2>5, <3>1 DEF MineSound, In, Delivering, StagesOf, Deliveries, Stages, Stay
  <2>7. mine' = mine /\ ok' = ok /\ IsCurrent(mine[1]) /\ IsCurrent(mine[1])'
    BY <1>3, <2>1, <2>2, <2>5 DEF Pending, Settled
  <2>8. OnlySlots({mine[1].slot})
    BY <2>3, <2>4
  <2> QED
    BY <1>1, <1>3, <2>1, <2>2, <2>4, <2>6, <2>7, <2>8, UsedStep
<1>6. CASE StaleTakes
  <2>1. /\ TakeAnswer(mine[1]) /\ Stay("reuse") /\ ok' = (ok /\ TRUE) /\ UNCHANGED <<mine, inbox, behind>>
        /\ NoEvents /\ WaiterOnly /\ stage = "take"
    BY <1>6 DEF StaleTakes, Using, In
  <2>2. Len(mine) = 1 /\ Settled(mine[1], "real") /\ 1 \in DOMAIN mine
    BY <1>0, <1>2, <2>1 DEF TestInv, MineSound, In
  <2>3. PICK h \in Handles : h = mine[1]
    BY <1>2, <2>2
  <2>4. PoolTypeOK' /\ FreeSound' /\ OnlySlots({h.slot}) /\ Freed(h)
    BY <1>4, <2>1, <2>2, <2>3, LastSide
  <2>5. Freed(mine[1]) /\ st'[mine'[1].slot] = "free" /\ ~IsCurrent(mine[1])'
    BY <2>1, <2>3, <2>4 DEF Freed, IsCurrent
  <2>6. MineSound' /\ stage' \in Stages /\ stage' # "wait" /\ UNCHANGED <<check, report, late, inbox, behind>>
    <3>1. Len(mine') = 1 /\ stage' = "reuse" /\ Battery[check'] = "stale"
      BY <1>0, <2>1, <2>2 DEF Stay
    <3>2. FirstIsStale'
      BY <2>5 DEF FirstIsStale
    <3> QED
      BY <2>1, <3>1, <3>2 DEF MineSound, In, Delivering, StagesOf, Deliveries, Stages, Stay
  <2>7. mine' = mine /\ ok' = ok /\ IsCurrent(mine[1])
    BY <1>3, <2>1, <2>2 DEF Settled
  <2>8. OnlySlots({mine[1].slot})
    BY <2>3, <2>4
  <2> QED
    BY <1>1, <1>3, <2>1, <2>2, <2>4, <2>5, <2>6, <2>7, <2>8, UsedStep
<1>7. CASE StalePoisons
  <2>1. /\ Resolve(mine[1], "poison") /\ Stay("answer") /\ UNCHANGED <<mine, inbox, behind>>
        /\ ok' = (ok /\ mine[2].slot = mine[1].slot /\ ~IsActive(mine[1]))
        /\ NoEvents /\ WaiterOnly /\ stage = "poison"
    BY <1>7 DEF StalePoisons, Using, In
  <2>2. Len(mine) = 2 /\ Pending(mine[2]) /\ FirstIsStale /\ 2 \in DOMAIN mine
    BY <1>0, <1>2, <2>1 DEF TestInv, MineSound, In
  <2>3. UNCHANGED poolVars
    BY <2>1, <2>2 DEF Resolve, FirstIsStale
  <2>4. PoolTypeOK' /\ FreeSound' /\ OnlySlots({mine[2].slot})
    BY <2>3 DEF TestInv, TestTypeOK, PoolTypeOK, FreeSound, OnlySlots, poolVars
  <2>5. Pending(mine[2])' /\ FirstIsStale'
    BY <2>1, <2>2, <2>3 DEF Pending, FirstIsStale, IsCurrent, poolVars
  <2>6. MineSound' /\ stage' \in Stages /\ stage' # "wait" /\ UNCHANGED <<check, report, late, inbox, behind>>
    <3>1. Len(mine') = 2 /\ stage' = "answer" /\ Battery[check'] = "stale"
      BY <1>0, <2>1, <2>2 DEF Stay
    <3> QED
      BY <2>1, <2>5, <3>1 DEF MineSound, In, Delivering, StagesOf, Deliveries, Stages, Stay
  <2>7. mine' = mine /\ IsCurrent(mine[2]) /\ IsCurrent(mine[2])'
    BY <2>1, <2>2, <2>5 DEF Pending
  <2>8. ok' \in BOOLEAN /\ (~behind => ok' = ok)
    <3>1. ~behind => mine[2].slot = mine[1].slot
      BY <1>0, <2>2 DEF TestInv, OnTime
    <3> QED
      BY <1>3, <2>1, <2>2, <3>1 DEF IsActive, FirstIsStale
  <2> QED
    BY <1>1, <2>1, <2>2, <2>4, <2>6, <2>7, <2>8, UsedStep
<1>8. CASE StaleAnswers
  <2>1. /\ Resolve(mine[2], "real") /\ Stay("read") /\ UNCHANGED <<mine, inbox, behind>>
        /\ ok' = (ok /\ IsActive(mine[2])) /\ NoEvents /\ WaiterOnly /\ stage = "answer"
    BY <1>8 DEF StaleAnswers, Using, In
  <2>2. Len(mine) = 2 /\ Pending(mine[2]) /\ FirstIsStale /\ 2 \in DOMAIN mine /\ 1 \in DOMAIN mine
    BY <1>0, <1>2, <2>1 DEF TestInv, MineSound, In
  <2>3. PICK h \in Handles : h = mine[2]
    BY <1>2, <2>2
  <2>4. PoolTypeOK' /\ FreeSound' /\ OnlySlots({h.slot}) /\ Settled(h, "real")'
    BY <1>4, <2>1, <2>2, <2>3, Answering
  <2>5. Settled(mine[2], "real")'
    BY <2>1, <2>3, <2>4 DEF Settled, IsCurrent
  <2>9. FirstIsStale'
    <3>1. PICK g \in Handles : g = mine[1]
      BY <1>2, <2>2
    <3>2. g.slot \in Slots /\ ~IsCurrent(g) /\ (st[g.slot] = "free" \/ g.slot = h.slot)
      BY <2>2, <2>3, <3>1 DEF FirstIsStale, Handles
    <3>3. CASE g.slot = h.slot
      <4>1. gen'[h.slot] = gen[h.slot]
        BY <2>2, <2>3, <2>4 DEF Pending, Settled, IsCurrent
      <4> QED
        BY <2>1, <2>2, <2>3, <3>1, <3>2, <3>3, <4>1 DEF FirstIsStale, IsCurrent
    <3>4. CASE g.slot # h.slot
      <4>1. st'[g.slot] = st[g.slot] /\ gen'[g.slot] = gen[g.slot]
        BY <2>4, <3>2, <3>4 DEF OnlySlots
      <4> QED
        BY <2>1, <3>1, <3>2, <3>4, <4>1 DEF FirstIsStale, IsCurrent
    <3> QED
      BY <3>3, <3>4
  <2>6. MineSound' /\ stage' \in Stages /\ stage' # "wait" /\ UNCHANGED <<check, report, late, inbox, behind>>
    <3>1. Len(mine') = 2 /\ stage' = "read" /\ Battery[check'] = "stale"
      BY <1>0, <2>1, <2>2 DEF Stay
    <3> QED
      BY <2>1, <2>5, <2>9, <3>1 DEF MineSound, In, Delivering, StagesOf, Deliveries, Stages, Stay
  <2>7. mine' = mine /\ ok' = ok /\ IsCurrent(mine[2]) /\ IsCurrent(mine[2])'
    BY <1>3, <2>1, <2>2, <2>5 DEF Pending, Settled, IsActive
  <2>8. OnlySlots({mine[2].slot})
    BY <2>3, <2>4
  <2> QED
    BY <1>1, <1>3, <2>1, <2>2, <2>4, <2>6, <2>7, <2>8, UsedStep
<1>9. CASE StaleReads
  <2>1. /\ TakeAnswer(mine[2]) /\ DoneIn(ok /\ ans[mine[2].slot] = "real", FALSE)
        /\ UNCHANGED <<inbox, behind>> /\ NoEvents /\ WaiterOnly /\ stage = "read"
    BY <1>9 DEF StaleReads, Ending, EndingIn, In
  <2>2. Len(mine) = 2 /\ Settled(mine[2], "real") /\ FirstIsStale /\ 2 \in DOMAIN mine
    BY <1>0, <1>2, <2>1 DEF TestInv, MineSound, In
  <2>3. PICK h \in Handles : h = mine[2]
    BY <1>2, <2>2
  <2>4. PoolTypeOK' /\ FreeSound' /\ OnlySlots({h.slot}) /\ Freed(h)
    BY <1>4, <2>1, <2>2, <2>3, LastSide
  <2>5. /\ IsCurrent(mine[2])
        /\ \A i \in DOMAIN mine : IsCurrent(mine[i]) => mine[i].slot = mine[2].slot
    <3>1. \A i \in DOMAIN mine : i = 1 \/ i = 2
      BY <1>2, <2>2
    <3> QED
      BY <2>2, <3>1 DEF Settled, FirstIsStale
  <2>6. OnlySlots({mine[2].slot}) /\ (Freed(mine[2]))
    BY <2>3, <2>4
  <2>7. PICK p \in BOOLEAN : p = (ok /\ ans[mine[2].slot] = "real")
    OBVIOUS
  <2>8. DoneIn(p, FALSE) /\ (~behind => p)
    BY <1>3, <2>1, <2>2, <2>7 DEF Settled
  <2> QED
    BY <1>1, <2>1, <2>2, <2>4, <2>5, <2>6, <2>8, FreedStep
<1> QED
  BY <1>5, <1>6, <1>7, <1>8, <1>9

\* The slot that was let go is claimed again.
LEMMA ReuseStep ==
  ASSUME TestInv, StaleReuses
  PROVE  TestInv'
<1>0. Battery[check] = "stale" /\ stage = "reuse" /\ CreateOr(Done(FALSE), "poison")
  BY DEF StaleReuses, In
<1>1. ~Delivering("wait") /\ ~In("controls", "wait") /\ Len(mine) = 1 /\ FirstIsStale
  BY <1>0 DEF TestInv, MineSound, Delivering, In, Deliveries
<1>2. DOMAIN mine = 1 .. 1 /\ mine[1] \in Handles /\ 1 \in DOMAIN mine
  BY <1>1, MineTyped DEF TestInv
<1>3. \A s : ~Owns(s)
  BY <1>1, <1>2 DEF Owns, FirstIsStale
<1>4. CASE FreeSlots = {}
  BY <1>0, <1>1, <1>3, <1>4, RefusedStep DEF CreateOr, Done
<1>5. CASE FreeSlots # {}
  <2>1. PICK n \in Slots : /\ FirstFree(n) /\ Claim(n) /\ mine' = Append(mine, HandleOn(n))
                           /\ Stay("poison") /\ UNCHANGED <<ok, inbox, behind>>
                           /\ NoEvents /\ WaiterOnly
    BY <1>0, <1>5 DEF CreateOr
  <2>2. /\ PoolTypeOK' /\ FreeSound' /\ OnlySlots({n}) /\ st[n] = "free" /\ gen' = gen
        /\ mine' \in Seq(Handles) /\ Len(mine') = 2
        /\ mine'[1] = mine[1] /\ mine'[2] = HandleOn(n) /\ HandleOn(n).slot = n
        /\ gen[n] = HandleOn(n).gen /\ st'[n] = "pending" /\ held'[n] = Sides
        /\ Owns(n)' /\ \A s \in Slots \ {n} : Owns(s)' <=> Owns(s)
    <3>1. Len(mine) + 1 = 2
      BY <1>1
    <3> QED
      BY <1>1, <1>2, <2>1, <3>1, CreateEffect
  <2>3. PICK g \in Handles : g = mine[1]
    BY <1>2
  <2>4. g.slot \in Slots /\ ~IsCurrent(g) /\ st[g.slot] = "free"
    BY <1>1, <2>3 DEF FirstIsStale, Handles
  <2>5. FirstIsStale' /\ Pending(mine[2])'
    <3>1. g.slot = n \/ st'[g.slot] = "free"
      BY <2>2, <2>4 DEF OnlySlots
    <3> QED
      BY <2>2, <2>3, <2>4, <3>1 DEF FirstIsStale, Pending, IsCurrent
  <2>6. /\ MineSound' /\ stage' \in Stages /\ stage' # "wait"
        /\ UNCHANGED <<check, report, late, inbox, behind>>
    <3>1. stage' = "poison" /\ Battery[check'] = "stale"
      BY <1>0, <2>1 DEF Stay
    <3> QED
      BY <2>1, <2>2, <2>5, <3>1 DEF MineSound, In, Delivering, StagesOf, Deliveries, Stages, Stay
  <2>7. Cardinality(Slots) \in Nat /\ Len(mine') <= Cardinality(Slots)
    BY <2>2, TestAssumption, FS_CardinalityType
  <2>8. ok' \in BOOLEAN /\ (~behind => ok')
    BY <2>1 DEF TestInv, TestTypeOK, OnTime
  <2>9. ~behind => /\ \A s \in Slots : mine'[1].slot <= s
                   /\ mine'[1].slot = mine'[2].slot
    <3> SUFFICES ASSUME ~behind
                 PROVE  (\A s \in Slots : g.slot <= s) /\ g.slot = n
      BY <2>2, <2>3
    <3>1. \A s \in Slots : g.slot <= s
      BY <1>0, <1>1, <2>3 DEF TestInv, OnTime
    <3>2. n <= g.slot
      BY <2>1, <2>4 DEF FirstFree
    <3>3. n \in Nat /\ g.slot \in Nat
      BY <2>4, PoolAssumption
    <3> QED
      BY <3>1, <3>2, <3>3
  <2>10. {n} \in SUBSET Slots /\ \A s \in {n} : st[s] = "free" /\ Owns(s)'
    BY <2>2
  <2> QED
    BY <1>1, <2>1, <2>2, <2>6, <2>7, <2>8, <2>9, <2>10, GoesOn
<1> QED
  BY <1>4, <1>5

-----------------------------------------------------------------------------
(* The check of cancellation and leaks.                                    *)
\* When everything is on time and no slot is free, the waiter has them all.
LEMMA AllClaimed ==
  ASSUME TestInv, ~Delivering("wait"), ~behind, FreeSlots = {}
  PROVE  Len(mine) = Cardinality(Slots)
<1>1. Len(mine) \in Nat /\ DOMAIN mine = 1 .. Len(mine)
  BY MineTyped DEF TestInv
<1>2. PICK n \in Nat : n = Len(mine)
  BY <1>1
<1>3. PICK f : f = [i \in 1 .. n |-> mine[i].slot]
  OBVIOUS
<1>4. \A i \in 1 .. n : f[i] = mine[i].slot /\ f[i] \in Slots
  BY <1>1, <1>2, <1>3, MineTyped DEF TestInv
<1>5. f \in [1 .. n -> Slots]
  BY <1>3, <1>4
<1>6. \A s \in Slots : \E i \in 1 .. n : f[i] = s
  BY <1>1, <1>2, <1>4, AllFree DEF Owns, FreeSlots
<1>7. ExistsSurjection(1 .. n, Slots)
  BY <1>5, <1>6 DEF ExistsSurjection, Surjection
<1>8. Cardinality(Slots) <= n
  BY <1>7, FS_SurjCardinalityBound
<1>9. Cardinality(Slots) \in Nat /\ Len(mine) <= Cardinality(Slots)
  BY TestAssumption, FS_CardinalityType DEF TestInv, TestTypeOK
<1> QED
  BY <1>2, <1>8, <1>9

\* Claiming goes on until there is no slot left.
LEMMA ClaimStep ==
  ASSUME TestInv, CancelClaims \/ CancelClaimed
  PROVE  TestInv'
<1>0. Battery[check] = "cancel" /\ stage = "claim"
  BY DEF CancelClaims, CancelClaimed, In
<1>1. ~Delivering("wait") /\ ~In("controls", "wait") /\ AllPending
  BY <1>0 DEF TestInv, MineSound, Delivering, In, Deliveries
<1>2. /\ Len(mine) \in Nat /\ DOMAIN mine = 1 .. Len(mine)
      /\ \A i \in DOMAIN mine : mine[i] \in Handles /\ mine[i].slot \in Slots
  BY MineTyped DEF TestInv
<1>3. /\ ok \in BOOLEAN /\ (~behind => ok) /\ mine \in Seq(Handles)
      /\ Cardinality(Slots) \in Nat /\ Cardinality(Slots) > 1 /\ Len(mine) <= Cardinality(Slots)
  BY TestAssumption, FS_CardinalityType DEF TestInv, TestTypeOK, OnTime
<1>4. CASE CancelClaims
  <2>1. PICK n \in Slots : /\ FirstFree(n) /\ Claim(n) /\ mine' = Append(mine, HandleOn(n))
                           /\ Stay("claim") /\ UNCHANGED <<ok, inbox, behind>>
                           /\ NoEvents /\ WaiterOnly
    BY <1>4 DEF CancelClaims, CreateOr, ClaimsOver
  <2>2. /\ PoolTypeOK' /\ FreeSound' /\ OnlySlots({n}) /\ st[n] = "free" /\ gen' = gen
        /\ mine' \in Seq(Handles) /\ Len(mine') = Len(mine) + 1 /\ DOMAIN mine' = 1 .. Len(mine) + 1
        /\ \A i \in DOMAIN mine : mine'[i] = mine[i]
        /\ mine'[Len(mine) + 1] = HandleOn(n) /\ HandleOn(n).slot = n
        /\ gen[n] = HandleOn(n).gen /\ st'[n] = "pending" /\ held'[n] = Sides
        /\ Owns(n)' /\ \A s \in Slots \ {n} : Owns(s)' <=> Owns(s)
    BY <2>1, CreateEffect
  <2>3. AllPending'
    <3>1. \A i \in DOMAIN mine' : i \in DOMAIN mine \/ i = Len(mine) + 1
      BY <1>2, <2>2
    <3>2. ASSUME NEW i \in DOMAIN mine
          PROVE  /\ mine[i].slot \in Slots \ {n} /\ mine'[i] = mine[i]
                 /\ gen'[mine[i].slot] = mine[i].gen
                 /\ st'[mine[i].slot] = "pending" /\ held'[mine[i].slot] = Sides
      <4>1. mine[i].slot \in Slots /\ Pending(mine[i])
        BY <1>1, <1>2 DEF AllPending
      <4>2. mine[i].slot # n
        BY <2>2, <4>1 DEF Pending
      <4> QED
        BY <2>2, <4>1, <4>2 DEF OnlySlots, Pending, IsCurrent
    <3>3. \A i \in DOMAIN mine' : Pending(mine[i])'
      BY <2>2, <3>1, <3>2 DEF Pending, IsCurrent
    <3>4. \A i, j \in DOMAIN mine' : mine'[i].slot = mine'[j].slot => i = j
      BY <1>1, <2>2, <3>1, <3>2 DEF AllPending
    <3> QED
      BY <3>3, <3>4 DEF AllPending
  <2>4. /\ MineSound' /\ stage' \in Stages /\ stage' # "wait"
        /\ UNCHANGED <<check, report, late, inbox, behind>>
    <3>1. stage' = "claim" /\ Battery[check'] = "cancel"
      BY <1>0, <2>1 DEF Stay
    <3> QED
      BY <2>1, <2>3, <3>1 DEF MineSound, In, Delivering, StagesOf, Deliveries, Stages, Stay
  <2>5. Len(mine') <= Cardinality(Slots)
    BY <1>2, <1>3, <1>4, <2>2 DEF CancelClaims, ClaimsOver
  <2>6. {n} \in SUBSET Slots /\ \A s \in {n} : st[s] = "free" /\ Owns(s)'
    BY <2>2
  <2> QED
    BY <1>0, <1>1, <1>3, <2>1, <2>2, <2>4, <2>5, <2>6, GoesOn
<1>5. CASE CancelClaimed /\ mine = <<>>
  <2>1. NoPool /\ DoneIn(FALSE, FALSE) /\ UNCHANGED <<inbox, behind>> /\ NoEvents /\ WaiterOnly
    BY <1>5 DEF CancelClaimed, Ending, EndingIn
  <2>2. Len(mine) = 0 /\ \A s : ~Owns(s)
    BY <1>2, <1>5 DEF Owns
  <2>3. FreeSlots = {}
    BY <1>3, <1>5, <2>2 DEF CancelClaimed, ClaimsOver
  <2> QED
    BY <1>1, <2>1, <2>2, <2>3, RefusedStep
<1>6. CASE CancelClaimed /\ mine # <<>>
  <2>1. /\ NoPool /\ Stay("release") /\ ok' = (ok /\ Len(mine) = Cardinality(Slots))
        /\ UNCHANGED <<mine, inbox, behind>> /\ NoEvents /\ WaiterOnly /\ ClaimsOver
    BY <1>6 DEF CancelClaimed, Using
  <2>2. PoolTypeOK' /\ FreeSound' /\ OnlySlots({}) /\ {} \in SUBSET Slots
    BY <2>1 DEF TestInv, TestTypeOK, PoolTypeOK, FreeSound, OnlySlots, NoPool, poolVars
  <2>3. \A s \in Slots \ {} : Owns(s)' <=> Owns(s)
    BY <2>1, <2>2, OwnsKept
  <2>4. ~behind => Len(mine) = Cardinality(Slots)
    BY <1>1, <2>1, AllClaimed DEF ClaimsOver
  <2>5. AllPending'
    BY <1>1, <2>1 DEF AllPending, Pending, IsCurrent, NoPool, poolVars
  <2>6. /\ MineSound' /\ stage' \in Stages /\ stage' # "wait"
        /\ UNCHANGED <<check, report, late, inbox, behind>>
    <3>1. stage' = "release" /\ Battery[check'] = "cancel" /\ mine' # <<>>
      BY <1>0, <1>6, <2>1 DEF Stay
    <3> QED
      BY <2>1, <2>5, <3>1 DEF MineSound, In, Delivering, StagesOf, Deliveries, Stages, Stay
  <2>7. ok' \in BOOLEAN /\ (~behind => ok')
    BY <1>3, <2>1, <2>4
  <2>8. mine' \in Seq(Handles) /\ Len(mine') <= Cardinality(Slots)
    BY <1>3, <2>1
  <2> QED
    BY <1>0, <1>1, <2>1, <2>2, <2>3, <2>6, <2>7, <2>8, GoesOn
<1> QED
  BY <1>4, <1>5, <1>6

\* What was claimed is cancelled, the first pair at once and the others one by one.
LEMMA CancelStep ==
  ASSUME TestInv, CancelOne \/ CancelReleases
  PROVE  TestInv'
<1>0. Battery[check] = "cancel" /\ stage \in {"set", "release"}
  BY DEF CancelOne, CancelReleases, In
<1>1. ~Delivering("wait") /\ ~In("controls", "wait")
  BY <1>0 DEF Delivering, In, Deliveries
<1>2. /\ Len(mine) \in Nat /\ DOMAIN mine = 1 .. Len(mine) /\ mine \in Seq(Handles)
      /\ \A i \in DOMAIN mine : mine[i] \in Handles /\ mine[i].slot \in Slots
  BY MineTyped DEF TestInv, TestTypeOK
<1>3. /\ ok \in BOOLEAN /\ (~behind => ok)
      /\ Cardinality(Slots) \in Nat /\ Cardinality(Slots) > 1 /\ Len(mine) <= Cardinality(Slots)
  BY TestAssumption, FS_CardinalityType DEF TestInv, TestTypeOK, OnTime
<1>4. CASE CancelOne
  <2>1. /\ Cancel(mine[1]) /\ mine' = <<>> /\ Stay("claim") /\ UNCHANGED <<ok, inbox, behind>>
        /\ NoEvents /\ WaiterOnly /\ stage = "set"
    BY <1>4 DEF CancelOne, In
  <2>2. Len(mine) = 1 /\ Pending(mine[1]) /\ 1 \in DOMAIN mine /\ \A i \in DOMAIN mine : i = 1
    BY <1>0, <1>2, <2>1 DEF TestInv, MineSound, In
  <2>3. PICK h \in Handles : h = mine[1]
    BY <1>2, <2>2
  <2>4. PoolTypeOK' /\ FreeSound' /\ OnlySlots({h.slot}) /\ Freed(h)
    BY <2>1, <2>2, <2>3, LastSide
  <2>5. {h.slot} \in SUBSET Slots /\ \A s \in {h.slot} : Owns(s) /\ st'[s] = "free"
    BY <1>2, <2>2, <2>3, <2>4 DEF Owns, Freed, Pending
  <2>6. \A s \in Slots \ {h.slot} : ~Owns(s) /\ ~Owns(s)'
    BY <2>1, <2>2, <2>3 DEF Owns
  <2>7. /\ MineSound' /\ stage' \in Stages /\ stage' # "wait"
        /\ UNCHANGED <<check, report, late, inbox, behind>>
    <3>1. stage' = "claim" /\ Battery[check'] = "cancel" /\ AllPending'
      BY <1>0, <2>1 DEF Stay, AllPending
    <3> QED
      BY <2>1, <3>1 DEF MineSound, In, Delivering, StagesOf, Deliveries, Stages, Stay
  <2>8. mine' \in Seq(Handles) /\ Len(mine') <= Cardinality(Slots) /\ ok' = ok
    BY <1>3, <2>1
  <2> QED
    BY <1>0, <1>1, <1>3, <2>1, <2>4, <2>5, <2>6, <2>7, <2>8, GoesOn
<1>5. CASE CancelReleases
  <2>1. AllPending /\ mine # <<>> /\ 1 \in DOMAIN mine /\ Head(mine) = mine[1] /\ stage = "release"
    BY <1>0, <1>2, <1>5 DEF TestInv, MineSound, In, CancelReleases
  <2>2. Cancel(mine[1]) /\ UNCHANGED <<inbox, behind>> /\ NoEvents /\ WaiterOnly
    BY <1>5, <2>1 DEF CancelReleases
  <2>3. PICK h \in Handles : h = mine[1]
    BY <1>2, <2>1
  <2>4. Pending(mine[1]) /\ IsCurrent(mine[1])
    BY <2>1 DEF AllPending, Pending
  <2>5. PoolTypeOK' /\ FreeSound' /\ OnlySlots({h.slot}) /\ Freed(h)
    BY <2>2, <2>3, <2>4, LastSide
  <2>6. CASE Len(mine) = 1
    <3>0. DoneIn(ok, FALSE)
      BY <1>5, <2>6, Zenon DEF CancelReleases, Done
    <3>1. \A i \in DOMAIN mine : i = 1
      BY <1>2, <2>6
    <3>2. /\ \A i \in DOMAIN mine : IsCurrent(mine[i]) => mine[i].slot = mine[1].slot
          /\ OnlySlots({mine[1].slot}) /\ (Freed(mine[1]))
      BY <2>3, <2>5, <3>1
    <3> QED
      BY <1>1, <1>3, <2>1, <2>2, <2>4, <2>5, <3>0, <3>1, <3>2, FreedStep
  <2>7. CASE Len(mine) # 1
    <3>1. mine' = Tail(mine) /\ Stay("release") /\ UNCHANGED ok
      BY <1>5, <2>7 DEF CancelReleases
    <3>2. /\ mine' \in Seq(Handles) /\ Len(mine') = Len(mine) - 1 /\ mine' # <<>>
          /\ DOMAIN mine' = 1 .. Len(mine) - 1
          /\ \A i \in DOMAIN mine' : i + 1 \in DOMAIN mine /\ i + 1 # 1 /\ mine'[i] = mine[i + 1]
      BY <1>2, <2>1, <2>7, <3>1
    <3>3. ASSUME NEW i \in DOMAIN mine, i # 1
          PROVE  /\ mine[i].slot \in Slots \ {h.slot}
                 /\ gen'[mine[i].slot] = mine[i].gen /\ gen[mine[i].slot] = mine[i].gen
                 /\ st'[mine[i].slot] = "pending" /\ held'[mine[i].slot] = Sides
      <4>1. mine[i].slot \in Slots /\ Pending(mine[i]) /\ mine[i].slot # h.slot
        BY <1>2, <2>1, <2>3, <3>3 DEF AllPending
      <4> QED
        BY <2>5, <4>1 DEF OnlySlots, Pending, IsCurrent
    <3>4. AllPending'
      <4>1. \A i \in DOMAIN mine' : Pending(mine[i])'
        BY <3>2, <3>3 DEF Pending, IsCurrent
      <4>2. ASSUME NEW i \in DOMAIN mine', NEW j \in DOMAIN mine', mine'[i].slot = mine'[j].slot
            PROVE  i = j
        <5>1. i + 1 = j + 1
          BY <2>1, <3>2, <4>2 DEF AllPending
        <5> QED
          BY <1>2, <3>2, <5>1
      <4> QED
        BY <4>1, <4>2 DEF AllPending
    <3>5. \A s \in Slots \ {h.slot} : Owns(s)' <=> Owns(s)
      <4> SUFFICES ASSUME NEW s \in Slots \ {h.slot}
                   PROVE  Owns(s)' <=> Owns(s)
        OBVIOUS
      <4>1. ASSUME Owns(s)
            PROVE  Owns(s)'
        <5>1. PICK i \in DOMAIN mine : IsCurrent(mine[i]) /\ mine[i].slot = s
          BY <4>1 DEF Owns
        <5>2. i # 1
          BY <2>3, <5>1
        <5>3. i - 1 \in DOMAIN mine' /\ mine'[i - 1] = mine[i]
          <6>1. i - 1 \in 1 .. Len(mine) - 1 /\ (i - 1) + 1 = i
            BY <1>2, <5>2
          <6> QED
            BY <3>2, <6>1
        <5>4. gen'[mine[i].slot] = mine[i].gen
          BY <3>3, <5>2
        <5> QED
          BY <5>1, <5>3, <5>4 DEF Owns, IsCurrent
      <4>2. ASSUME Owns(s)'
            PROVE  Owns(s)
        BY <3>2, <3>3, <4>2 DEF Owns, IsCurrent
      <4> QED
        BY <4>1, <4>2
    <3>6. {h.slot} \in SUBSET Slots /\ \A s \in {h.slot} : Owns(s) /\ st'[s] = "free"
      BY <1>2, <2>1, <2>3, <2>4, <2>5 DEF Owns, Freed
    <3>7. /\ MineSound' /\ stage' \in Stages /\ stage' # "wait"
          /\ UNCHANGED <<check, report, late, inbox, behind>>
      <4>1. stage' = "release" /\ Battery[check'] = "cancel"
        BY <1>0, <3>1 DEF Stay
      <4> QED
        BY <2>2, <3>1, <3>2, <3>4, <4>1
        DEF MineSound, In, Delivering, StagesOf, Deliveries, Stages, Stay
    <3>8. Len(mine') <= Cardinality(Slots) /\ ok' = ok
      BY <1>2, <1>3, <3>1, <3>2
    <3> QED
      BY <1>0, <1>1, <1>3, <2>2, <2>5, <3>2, <3>5, <3>6, <3>7, <3>8, GoesOn
  <2> QED
    BY <2>6, <2>7
<1> QED
  BY <1>4, <1>5

-----------------------------------------------------------------------------
(* Rounds and controls.                                                    *)
\* A round begins on time again if nothing is left behind, as no slot is then late.
LEMMA TopStep ==
  ASSUME TestInv, WaiterTop
  PROVE  TestInv'
<1>1. /\ stage = "top" /\ ~Delivering("wait") /\ ~In("controls", "wait") /\ mine = <<>> /\ ok
      /\ Battery[check] = "controls" /\ control = NoEvent
  <2>1. stage = "top" /\ stage \in StagesOf(Battery[check]) /\ Battery[check] \in Checks
    BY BatteryShape DEF WaiterTop, TestInv, MineSound, TestTypeOK
  <2>2. Battery[check] = "controls"
    BY <2>1 DEF StagesOf, Checks, Deliveries
  <2> QED
    BY <2>1, <2>2 DEF TestInv, MineSound, Delivering, In, ControlSound
<1>2. /\ UNCHANGED <<check, mine, ok, inbox, request, producer, stamped, port, stopping, inUse, control>>
      /\ stage' \in {"start", "stopped"} /\ UNCHANGED poolVars
      /\ stage' = "stopped" => UNCHANGED <<report, late, behind>>
      /\ stage' = "start" => /\ report' = "PASS" /\ late' = FALSE
                             /\ behind' = (behind /\ (LiveSlots # {} \/ inbox # <<>>))
  BY DEF WaiterTop, Reports, NoPool, NoEvents, WaiterOnly
<1>3. PoolTypeOK' /\ FreeSound' /\ OnlySlots({}) /\ {} \in SUBSET Slots
  BY <1>2 DEF TestInv, TestTypeOK, PoolTypeOK, FreeSound, OnlySlots, poolVars
<1>4. \A s \in Slots \ {} : Owns(s)' <=> Owns(s)
  BY <1>2, <1>3, OwnsKept
<1>5. /\ InboxApart' /\ RequestsHeld' /\ SlotsOwned' /\ InFlight' = InFlight
      /\ \A r \in InFlight : Late(r.promise)'
  BY <1>1, <1>2, <1>3, <1>4, FlightsStay
<1>6. TestTypeOK'
  <2>1. TestTypeOK
    BY DEF TestInv
  <2>2. /\ check \in DOMAIN Battery /\ mine \in Seq(Handles) /\ Len(mine) <= Cardinality(Slots)
        /\ behind \in BOOLEAN /\ report \in {"none", "PASS", "FAIL"} /\ ok \in BOOLEAN
        /\ late \in BOOLEAN
    BY <2>1 DEF TestTypeOK
  <2>3. /\ stage' \in Stages /\ report' \in {"none", "PASS", "FAIL"} /\ behind' \in BOOLEAN
        /\ late' \in BOOLEAN
    BY <1>2, <2>2 DEF Stages
  <2> QED
    BY <1>2, <1>3, <2>1, <2>2, <2>3 DEF TestTypeOK
<1>7. MineSound'
  BY <1>1, <1>2 DEF MineSound, In, Delivering, StagesOf, Deliveries
<1>8. ControlSound' /\ StampSound' /\ EventsReturn'
  BY <1>1, <1>2 DEF TestInv, ControlSound, StampSound, EventsReturn, In, Delivering
<1>9. OnTime'
  <2>1. mine' = <<>> /\ ok' /\ ok
    BY <1>1, <1>2
  <2>2. CASE ~behind
    <3>1. InFlight = {} /\ (report = "FAIL" => late)
      BY <1>1, <2>2, AloneOnTime DEF TestInv, OnTime
    <3> QED
      BY <1>2, <1>5, <2>1, <3>1 DEF OnTime
  <2>3. CASE behind /\ stage' = "start" /\ LiveSlots = {}
    <3>1. \A s \in Slots : st[s] = "free"
      BY <2>3 DEF LiveSlots, FreeSlots
    <3>2. \A r \in InFlight : FALSE
      BY <1>1, <3>1, FlightsAreLate DEF Late
    <3> QED
      BY <1>2, <1>5, <2>1, <2>3, <3>2 DEF OnTime
  <2>4. CASE behind /\ stage' = "start" /\ LiveSlots # {}
    BY <1>2, <2>4 DEF OnTime
  <2>5. CASE behind /\ stage' = "stopped"
    BY <1>2, <2>5 DEF OnTime
  <2> QED
    BY <1>2, <2>2, <2>3, <2>4, <2>5
<1> QED
  BY <1>3, <1>5, <1>6, <1>7, <1>8, <1>9 DEF TestInv

\* The control takes an event, where there is one, and gives it back.
LEMMA ControlStep ==
  ASSUME TestInv, ControlCreates \/ ControlDestroys
  PROVE  TestInv'
<1>0. Battery[check] = "controls" /\ stage \in {"start", "wait"}
  BY DEF ControlCreates, ControlDestroys, In
<1>1. ~Delivering("wait") /\ mine = <<>> /\ ok
  BY <1>0 DEF TestInv, MineSound, Delivering, In, Deliveries
<1>2. UNCHANGED <<inbox, behind>> /\ NoPool /\ WaiterOnly
  BY DEF ControlCreates, ControlDestroys
<1>3. PoolTypeOK' /\ FreeSound' /\ OnlySlots({}) /\ {} \in SUBSET Slots
  BY <1>2 DEF TestInv, TestTypeOK, PoolTypeOK, FreeSound, OnlySlots, NoPool, poolVars
<1>4. \A s : ~Owns(s)
  BY <1>1 DEF Owns
<1>5. /\ inUse \subseteq Events /\ control \in Events \cup {NoEvent}
      /\ port = "places" => inUse = {control} \ {NoEvent}
  BY DEF TestInv, TestTypeOK, EventsReturn
<1>6. CASE ControlCreates /\ Events \subseteq inUse
  <2>1. PICK tardy \in BOOLEAN : DoneIn(TRUE, tardy) /\ NoEvents /\ control = NoEvent
    BY <1>6 DEF ControlCreates, TestInv, ControlSound, In
  <2>2. control' = NoEvent /\ inUse' \subseteq Events /\ EventsReturn'
    BY <1>2, <1>5, <2>1 DEF NoEvents, WaiterOnly, EventsReturn
  <2> QED
    BY <1>1, <1>2, <1>3, <1>4, <2>1, <2>2, EndedStep
<1>7. CASE ControlDestroys
  <2>1. PICK tardy \in BOOLEAN :
          DoneIn(TRUE, tardy) /\ control' = NoEvent /\ inUse' = Released(control)
    BY <1>7 DEF ControlDestroys
  <2>2. inUse' \subseteq Events /\ EventsReturn'
    BY <1>2, <1>5, <2>1 DEF Released, WaiterOnly, EventsReturn
  <2> QED
    BY <1>1, <1>2, <1>3, <1>4, <2>1, <2>2, EndedStep
<1>8. CASE ControlCreates /\ ~(Events \subseteq inUse)
  <2>1. /\ \E e \in Events : control' = e /\ inUse' = inUse \cup {e}
        /\ stage' = "wait" /\ UNCHANGED <<check, mine, ok>>
        /\ \E tardy \in BOOLEAN : Reports(TRUE, tardy)
    BY <1>8 DEF ControlCreates
  <2>9. PICK e \in Events : control' = e /\ inUse' = inUse \cup {e}
    BY <2>1
  <2>2. /\ UNCHANGED <<check, mine, ok, inbox, behind, port, request, producer, stamped, stopping>>
        /\ stage' = "wait" /\ Battery[check'] = "controls" /\ control = NoEvent
        /\ report' \in {"PASS", "FAIL"} /\ late' \in BOOLEAN /\ (report' = "FAIL" => late')
    BY <1>0, <1>2, <1>8, <2>1 DEF Reports, WaiterOnly, ControlCreates, TestInv, ControlSound, In
  <2>3. \A s \in Slots \ {} : Owns(s)' <=> Owns(s)
    BY <1>3, <2>2, OwnsKept
  <2>4. /\ InboxApart' /\ RequestsHeld' /\ SlotsOwned' /\ InFlight' = InFlight
    BY <1>1, <1>3, <2>2, <2>3, FlightsStay
  <2>5. TestTypeOK'
    <3>1. TestTypeOK
      BY DEF TestInv
    <3> QED
      BY <1>3, <1>5, <2>9, <2>2, <3>1 DEF TestTypeOK, Stages
  <2>6. MineSound'
    BY <1>1, <2>2 DEF MineSound, In, Delivering, StagesOf, Deliveries
  <2>7. ControlSound' /\ StampSound' /\ EventsReturn'
    BY <1>5, <2>9, <2>2, TestAssumption
    DEF ControlSound, StampSound, EventsReturn, In, Delivering, Deliveries
  <2>8. OnTime'
    BY <1>0, <1>1, <2>2, <2>4, AloneOnTime DEF TestInv, OnTime
  <2> QED
    BY <1>3, <2>4, <2>5, <2>6, <2>7, <2>8 DEF TestInv
<1> QED
  BY <1>6, <1>7, <1>8

-----------------------------------------------------------------------------
(* The delivery of an answer.                                              *)
\* A request that is sent is the only one that is not late.
LEMMA SendStep ==
  ASSUME TestInv, DeliverySends
  PROVE  TestInv'
<1>0. Battery[check] \in Deliveries /\ stage = "send"
  BY DEF DeliverySends, Delivering
<1>1. /\ ~Delivering("wait") /\ ~In("controls", "wait") /\ Len(mine) = 1
      /\ Pending(mine[1]) /\ IsCurrent(mine[1])
  BY <1>0 DEF TestInv, MineSound, Delivering, In, Deliveries, Pending
<1>2. 1 \in DOMAIN mine /\ (\A i \in DOMAIN mine : i = 1) /\ mine[1] \in Handles /\ mine[1].slot \in Slots
  BY <1>1, MineTyped DEF TestInv
<1>3. \A r \in InFlight : /\ Late(r.promise) /\ ~Owns(r.promise.slot)
                          /\ r.promise \in Handles /\ r.promise.slot \in Slots
  BY <1>1, FlightsAreLate
<1>4. Owns(mine[1].slot) /\ \A s : Owns(s) => s = mine[1].slot
  BY <1>1, <1>2 DEF Owns
<1>5. /\ inbox \in Seq(Requests) /\ Len(inbox) \in Nat /\ DOMAIN inbox = 1 .. Len(inbox)
      /\ \A i \in DOMAIN inbox : inbox[i] \in InFlight
  BY RequestTyped DEF TestInv, TestTypeOK, InFlight
<1>6. CASE Len(inbox) < TestDepth
  <2>1. /\ inbox' = Append(inbox, Asked) /\ stage' = "wait" /\ UNCHANGED poolVars
        /\ UNCHANGED <<check, report, late, mine, ok, behind, inUse, control, port, request, producer,
                       stamped, stopping>>
    BY <1>6 DEF DeliverySends, Asked, Stay, NoPool, NoEvents, WaiterOnly
  <2>2. PICK r : r = Asked
    OBVIOUS
  <2>3. r \in Requests /\ r.promise = mine[1] /\ Asked' = r
    BY <1>0, <1>2, <2>1, <2>2 DEF Asked, Requests
  <2>4. /\ inbox' \in Seq(Requests) /\ Len(inbox') = Len(inbox) + 1
        /\ DOMAIN inbox' = 1 .. Len(inbox) + 1
        /\ \A i \in DOMAIN inbox : i \in DOMAIN inbox' /\ inbox'[i] = inbox[i]
        /\ inbox'[Len(inbox) + 1] = r /\ Len(inbox) + 1 \in DOMAIN inbox'
    <3>1. inbox' = Append(inbox, r)
      BY <2>1, <2>2
    <3>2. /\ inbox' \in Seq(Requests) /\ Len(inbox') = Len(inbox) + 1
          /\ \A i \in 1 .. Len(inbox) : inbox'[i] = inbox[i]
          /\ inbox'[Len(inbox) + 1] = r
      BY <1>5, <2>3, <3>1, AppendProperties
    <3> QED
      BY <1>5, <3>2, LenProperties
  <2>5. \A i \in DOMAIN inbox' : i \in DOMAIN inbox \/ (i = Len(inbox) + 1 /\ inbox'[i] = r)
    BY <1>5, <2>4
  <2>6. InFlight' = InFlight \cup {r}
    <3>1. {inbox'[i] : i \in DOMAIN inbox'} = {inbox[i] : i \in DOMAIN inbox} \cup {r}
      BY <2>4, <2>5
    <3> QED
      BY <2>1, <3>1 DEF InFlight
  <2>7. \A q \in InFlight : q.promise.slot # r.promise.slot
    BY <1>3, <1>4, <2>3
  <2>8. InboxApart'
    <3>1. \A i, j \in DOMAIN inbox' : inbox'[i].promise.slot = inbox'[j].promise.slot => i = j
      BY <1>5, <2>4, <2>5, <2>7 DEF TestInv, InboxApart
    <3>2. producer = "delay" =>
            request \in Requests /\ \A i \in DOMAIN inbox' : inbox'[i].promise.slot # request.promise.slot
      <4>1. producer = "delay" => request \in InFlight
        BY DEF InFlight
      <4> QED
        BY <2>4, <2>5, <2>7, <4>1 DEF TestInv, InboxApart
    <3> QED
      BY <2>1, <3>1, <3>2 DEF InboxApart
  <2>9. Pending(mine[1])' /\ Asked' \in InFlight' /\ Delivering("wait")'
    BY <1>0, <1>1, <2>1, <2>3, <2>6 DEF Pending, IsCurrent, poolVars, Delivering
  <2>10. \A q \in InFlight : Late(q.promise)' /\ ~Owns(q.promise.slot)'
    BY <1>3, <2>1 DEF Late, IsCurrent, poolVars, Owns
  <2>11. RequestsHeld'
    <3>1. Pending(r.promise)'
      BY <2>1, <2>3, <2>9 DEF Pending, IsCurrent
    <3> QED
      BY <2>3, <2>6, <2>9, <2>10, <3>1 DEF RequestsHeld
  <2>12. SlotsOwned'
    BY <2>1, <2>6 DEF TestInv, SlotsOwned, poolVars, Owns, IsCurrent
  <2>13. MineSound'
    <3>1. Len(mine') = 1 /\ stage' = "wait" /\ Battery[check'] \in Deliveries
      BY <1>0, <1>1, <2>1
    <3> QED
      BY <2>9, <3>1 DEF MineSound, In, Delivering, StagesOf, Deliveries
  <2>14. TestTypeOK' /\ FreeSound' /\ ControlSound' /\ EventsReturn'
    <3>1. TestTypeOK /\ FreeSound /\ ControlSound /\ EventsReturn
      BY DEF TestInv
    <3>2. PoolTypeOK' /\ FreeSound'
      BY <2>1, <3>1 DEF TestTypeOK, PoolTypeOK, FreeSound, poolVars
    <3>3. Len(inbox') <= TestDepth
      BY <1>5, <1>6, <2>4, TestAssumption
    <3>4. TestTypeOK'
      BY <2>1, <2>4, <3>1, <3>2, <3>3 DEF TestTypeOK, Stages
    <3> QED
      BY <1>0, <1>1, <2>1, <3>1, <3>2, <3>4 DEF ControlSound, EventsReturn, In, Deliveries
  <2>15. OnTime'
    <3>1. ~Late(r.promise)'
      BY <2>1, <2>3, <2>9 DEF Pending, Late
    <3>2. ~behind => InFlight = {} /\ ok /\ (report = "FAIL" => late)
      BY <1>1, AloneOnTime DEF TestInv, OnTime
    <3> QED
      BY <1>0, <2>1, <2>6, <3>1, <3>2 DEF OnTime, Deliveries
  <2>16. StampSound'
    <3>1. inbox'[Len(inbox')] = Asked'
      BY <2>3, <2>4
    <3> QED
      BY <2>9, <3>1 DEF StampSound
  <2> QED
    BY <2>8, <2>11, <2>12, <2>13, <2>14, <2>15, <2>16 DEF TestInv
<1>7. CASE ~(Len(inbox) < TestDepth)
  <2>1. /\ Cancel(mine[1]) /\ DoneIn(FALSE, FALSE) /\ UNCHANGED <<inbox, behind>>
        /\ NoEvents /\ WaiterOnly
    BY <1>7 DEF DeliverySends, Done
  <2>2. PICK h \in Handles : h = mine[1]
    BY <1>2
  <2>3. PoolTypeOK' /\ FreeSound' /\ OnlySlots({h.slot}) /\ Freed(h)
    BY <1>1, <2>1, <2>2, LastSide
  <2>4. OnlySlots({mine[1].slot}) /\ (Freed(mine[1]))
    BY <2>2, <2>3
  <2>5. behind
    <3>1. 1 \in DOMAIN inbox
      BY <1>5, <1>7, TestAssumption
    <3>2. behind \in BOOLEAN
      BY DEF TestInv, TestTypeOK
    <3> QED
      BY <1>1, <1>5, <3>1, <3>2, AloneOnTime
  <2>6. \A i \in DOMAIN mine : mine[i].slot = mine[1].slot
    BY <1>2
  <2> QED
    BY <1>1, <1>2, <2>1, <2>3, <2>4, <2>5, <2>6, FreedStep
<1> QED
  BY <1>6, <1>7

\* The answer that arrives is that of the request, and so is its time.
LEMMA ArriveStep ==
  ASSUME TestInv, DeliveryArrives
  PROVE  TestInv'
<1>0. PICK tardy \in BOOLEAN :
        /\ Battery[check] \in Deliveries /\ stage = "wait" /\ TakeAnswer(mine[1])
        /\ DoneIn(ans[mine[1].slot] = Battery[check] /\ stamped = Asked, tardy)
        /\ UNCHANGED <<inbox, behind>> /\ NoEvents /\ WaiterOnly
  BY DEF DeliveryArrives, Delivering, EndingIn, Asked
<1>1. /\ ~In("controls", "wait") /\ Len(mine) = 1
      /\ Pending(mine[1]) \/ Settled(mine[1], Battery[check])
  BY <1>0 DEF TestInv, MineSound, Delivering, In, Deliveries
<1>2. Settled(mine[1], Battery[check]) /\ ~Pending(mine[1]) /\ IsCurrent(mine[1])
  BY <1>0, <1>1 DEF TakeAnswer, Pending, Settled
<1>3. 1 \in DOMAIN mine /\ (\A i \in DOMAIN mine : i = 1) /\ mine[1] \in Handles
  BY <1>1, MineTyped DEF TestInv
<1>4. PICK h \in Handles : h = mine[1]
  BY <1>3
<1>5. PoolTypeOK' /\ FreeSound' /\ OnlySlots({h.slot}) /\ Freed(h)
  <2>1. Battery[check] \in Answers
    BY <1>0, TestAssumption DEF Deliveries
  <2> QED
    BY <1>0, <1>2, <1>4, <2>1, LastSide
<1>6. OnlySlots({mine[1].slot}) /\ (Freed(mine[1]))
  BY <1>4, <1>5
<1>7. DoneIn(TRUE, tardy)
  <2>1. stamped = Asked
    BY <1>0, <1>2 DEF TestInv, StampSound, Delivering
  <2>2. (ans[mine[1].slot] = Battery[check] /\ stamped = Asked) = TRUE
    BY <1>2, <2>1 DEF Settled
  <2> QED
    BY <1>0, <2>2
<1>8. \A i \in DOMAIN mine : mine[i].slot = mine[1].slot
  BY <1>3
<1> QED
  BY <1>0, <1>1, <1>2, <1>3, <1>5, <1>6, <1>7, <1>8, FreedStep

\* A delivery that gives up leaves its request late.
LEMMA ExpireStep ==
  ASSUME TestInv, DeliveryExpires
  PROVE  TestInv'
<1>0. /\ Battery[check] \in Deliveries /\ stage = "wait" /\ GiveUp(mine[1])
      /\ DoneIn(FALSE, FALSE) /\ behind' = TRUE
      /\ UNCHANGED <<inbox, inUse, control, port, request, producer, stamped, stopping>>
  BY DEF DeliveryExpires, Delivering, Done, NoEvents, WaiterOnly
<1>1. /\ ~In("controls", "wait") /\ Len(mine) = 1
      /\ (Pending(mine[1]) /\ Asked \in InFlight) \/ Settled(mine[1], Battery[check])
  BY <1>0 DEF TestInv, MineSound, Delivering, In, Deliveries
<1>2. Pending(mine[1]) /\ Asked \in InFlight
  BY <1>0, <1>1 DEF GiveUp, Settled
<1>3. 1 \in DOMAIN mine /\ (\A i \in DOMAIN mine : i = 1) /\ mine[1] \in Handles
  BY <1>1, MineTyped DEF TestInv
<1>4. PICK h \in Handles : h = mine[1]
  BY <1>3
<1>5. PoolTypeOK' /\ FreeSound' /\ OnlySlots({h.slot}) /\ Late(h)'
  BY <1>0, <1>2, <1>4, Giving
<1>6. /\ check' \in DOMAIN Battery /\ stage' \in Stages
      /\ mine' = <<>> /\ mine' \in Seq(Handles) /\ Len(mine') = 0 /\ ok' = TRUE
      /\ report' = "FAIL" /\ late' = FALSE /\ MineSound' /\ \A s : ~Owns(s)'
      /\ ~Delivering("wait")' /\ ~In("controls", "wait")'
  BY <1>0, DoneEffect
<1>7. Owns(h.slot) /\ h.slot \in Slots /\ \A s : Owns(s) => s = h.slot
  BY <1>2, <1>3, <1>4 DEF Owns, Pending, Handles
<1>8. InFlight' = InFlight /\ InboxApart'
  BY <1>0 DEF TestInv, InFlight, InboxApart
<1>9. ASSUME NEW r \in InFlight
      PROVE  Late(r.promise)'
  <2>1. r.promise \in Handles /\ r.promise.slot \in Slots
    BY RequestTyped
  <2>2. CASE Late(r.promise) /\ ~Owns(r.promise.slot)
    <3>1. r.promise.slot \notin {h.slot} /\ {h.slot} \in SUBSET Slots
      BY <1>7, <2>2
    <3> QED
      BY <1>5, <2>1, <2>2, <3>1, HandleKept
  <2>3. CASE r = Asked
    <3>1. r.promise = h
      BY <1>4, <2>3 DEF Asked
    <3> QED
      BY <1>5, <3>1
  <2> QED
    BY <2>2, <2>3 DEF TestInv, RequestsHeld
<1>10. RequestsHeld'
  BY <1>6, <1>8, <1>9 DEF RequestsHeld
<1>11. SlotsOwned'
  <2> SUFFICES ASSUME NEW s \in Slots
               PROVE  st'[s] = "free" \/ \E r \in InFlight : r.promise.slot = s
    BY <1>8 DEF SlotsOwned
  <2>1. CASE s = h.slot
    <3>1. Asked.promise.slot = s
      BY <1>4, <2>1 DEF Asked
    <3> QED
      BY <1>2, <3>1
  <2>2. CASE s # h.slot
    <3>1. st'[s] = st[s] /\ ~Owns(s)
      BY <1>5, <1>7, <2>2 DEF OnlySlots
    <3> QED
      BY <3>1 DEF TestInv, SlotsOwned
  <2> QED
    BY <2>1, <2>2
<1>12. TestTypeOK'
  <2>1. Cardinality(Slots) \in Nat
    BY TestAssumption, FS_CardinalityType
  <2>2. TestTypeOK
    BY DEF TestInv
  <2>3. /\ port' \in {"places", "bits"} /\ inUse' \subseteq Events /\ control' \in Events \cup {NoEvent}
        /\ inbox' \in Seq(Requests) /\ Len(inbox') <= TestDepth /\ request' \in Requests \cup {NoHeld}
        /\ producer' \in {"top", "receive", "delay", "stopped"}
        /\ stamped' \in Requests \cup {NoHeld} /\ stopping' \subseteq {"waiter", "producer"}
    BY <1>0, <2>2 DEF TestTypeOK
  <2>4. Len(mine') <= Cardinality(Slots) /\ report' \in {"none", "PASS", "FAIL"}
    BY <1>6, <2>1
  <2>5. ok' \in BOOLEAN /\ late' \in BOOLEAN /\ behind' \in BOOLEAN
    BY <1>0, <1>6
  <2> QED
    BY <1>5, <1>6, <2>3, <2>4, <2>5 DEF TestTypeOK
<1>13. ControlSound' /\ StampSound' /\ EventsReturn' /\ OnTime'
  BY <1>0, <1>1, <1>6 DEF TestInv, ControlSound, StampSound, EventsReturn, OnTime
<1> QED
  BY <1>5, <1>6, <1>8, <1>10, <1>11, <1>12, <1>13 DEF TestInv

-----------------------------------------------------------------------------
(* The producer's steps.                                                   *)
\* The same in flight is as good as before.
LEMMA SameFlights ==
  ASSUME TestInv, TestTypeOK', InboxApart', InFlight' = InFlight,
         inbox' # <<>> => inbox # <<>> /\ inbox'[Len(inbox')] = inbox[Len(inbox)],
         UNCHANGED <<poolVars, port, inUse, control, check, stage, mine, ok, stamped, report, late, behind>>
  PROVE  TestInv'
<1>1. \A h : /\ Pending(h)' <=> Pending(h)
             /\ Late(h)' <=> Late(h)
             /\ IsCurrent(h)' <=> IsCurrent(h)
             /\ \A x : Settled(h, x)' <=> Settled(h, x)
  BY DEF Pending, Late, Settled, IsCurrent, poolVars
<1>2. \A s : Owns(s)' <=> Owns(s)
  BY DEF Owns, IsCurrent, poolVars
<1>3. Asked' = Asked /\ (Delivering("wait")' <=> Delivering("wait"))
  BY DEF Asked, Delivering
<1>4. RequestsHeld'
  BY <1>1, <1>2, <1>3 DEF TestInv, RequestsHeld
<1>5. SlotsOwned' /\ FreeSound'
  BY <1>2 DEF TestInv, SlotsOwned, FreeSound, poolVars
<1>6. MineSound'
  <2>1. MineSound
    BY DEF TestInv
  <2> QED
    BY <1>3, <2>1 DEF MineSound, In, Delivering, AllPending, FirstIsStale,
                      Pending, Late, Settled, IsCurrent, poolVars
<1>7. ControlSound' /\ EventsReturn'
  BY DEF TestInv, ControlSound, EventsReturn, In
<1>8. OnTime'
  BY <1>1 DEF TestInv, OnTime, poolVars
<1>9. StampSound'
  <2>1. Pending(mine[1])' <=> Pending(mine[1])
    BY DEF Pending, IsCurrent, poolVars
  <2> QED
    BY <1>3, <2>1 DEF TestInv, StampSound
<1> QED
  BY <1>4, <1>5, <1>6, <1>7, <1>8, <1>9 DEF TestInv

\* A request that the producer takes stays in flight.
LEMMA TakeStep ==
  ASSUME TestInv, ProducerTop \/ ProducerReceives \/ RequestStop
  PROVE  TestInv'
<1>0. UNCHANGED <<poolVars, port, inUse, control, check, stage, mine, ok, stamped, report, late, behind>>
  BY DEF ProducerTop, ProducerReceives, RequestStop, ProducerOnly
<1>1. TestTypeOK /\ PoolTypeOK'
  BY <1>0 DEF TestInv, TestTypeOK, PoolTypeOK, poolVars
<1>2. CASE RequestStop
  <2>1. stopping' \subseteq {"waiter", "producer"} /\ UNCHANGED <<inbox, request, producer>>
    BY <1>1, <1>2 DEF RequestStop, TestTypeOK
  <2>2. TestTypeOK' /\ InboxApart' /\ InFlight' = InFlight
    BY <1>0, <1>1, <2>1 DEF TestInv, TestTypeOK, InboxApart, InFlight
  <2> QED
    BY <1>0, <2>1, <2>2, SameFlights
<1>3. CASE ProducerTop
  <2>1. /\ producer = "top" /\ producer' \in {"stopped", "receive"}
        /\ UNCHANGED <<inbox, request, stopping>>
    BY <1>3 DEF ProducerTop, ProducerOnly
  <2>2. TestTypeOK' /\ InboxApart' /\ InFlight' = InFlight
    BY <1>0, <1>1, <2>1 DEF TestInv, TestTypeOK, InboxApart, InFlight
  <2> QED
    BY <1>0, <2>1, <2>2, SameFlights
<1>4. CASE ProducerReceives /\ inbox = <<>>
  <2>1. producer = "receive" /\ producer' = "top" /\ UNCHANGED <<inbox, request, stopping>>
    BY <1>4 DEF ProducerReceives, ProducerOnly
  <2>2. TestTypeOK' /\ InboxApart' /\ InFlight' = InFlight
    BY <1>0, <1>1, <2>1 DEF TestInv, TestTypeOK, InboxApart, InFlight
  <2> QED
    BY <1>0, <2>1, <2>2, SameFlights
<1>5. CASE ProducerReceives /\ inbox # <<>>
  <2>1. /\ producer = "receive" /\ producer' = "delay" /\ request' = Head(inbox)
        /\ inbox' = Tail(inbox) /\ UNCHANGED stopping
    BY <1>5 DEF ProducerReceives, ProducerOnly
  <2>2. /\ inbox \in Seq(Requests) /\ Len(inbox) \in Nat /\ DOMAIN inbox = 1 .. Len(inbox)
        /\ Len(inbox) <= TestDepth
        /\ \A i \in DOMAIN inbox : inbox[i] \in Requests
    BY <1>1, RequestTyped DEF TestTypeOK
  <2>3. /\ inbox' \in Seq(Requests) /\ Len(inbox') = Len(inbox) - 1 /\ DOMAIN inbox' = 1 .. Len(inbox) - 1
        /\ request' = inbox[1] /\ 1 \in DOMAIN inbox
        /\ \A i \in DOMAIN inbox' : i \in Nat /\ i + 1 \in DOMAIN inbox /\ i + 1 # 1
                                    /\ inbox'[i] = inbox[i + 1]
    BY <1>5, <2>1, <2>2
  <2>4. \A j \in DOMAIN inbox : j # 1 => j - 1 \in DOMAIN inbox' /\ inbox'[j - 1] = inbox[j]
    <3> SUFFICES ASSUME NEW j \in DOMAIN inbox, j # 1
                 PROVE  j - 1 \in DOMAIN inbox' /\ inbox'[j - 1] = inbox[j]
      OBVIOUS
    <3>1. j - 1 \in 1 .. Len(inbox) - 1 /\ (j - 1) + 1 = j
      BY <2>2
    <3> QED
      BY <2>3, <3>1
  <2>5. InFlight' = InFlight
    <3>1. InFlight = {inbox[i] : i \in DOMAIN inbox}
      BY <2>1 DEF InFlight
    <3>2. InFlight' = {inbox'[i] : i \in DOMAIN inbox'} \cup {inbox[1]}
      BY <2>1, <2>3 DEF InFlight
    <3>3. \A r : r \in InFlight' => r \in InFlight
      BY <2>3, <3>1, <3>2
    <3>4. \A r : r \in InFlight => r \in InFlight'
      <4> SUFFICES ASSUME NEW j \in DOMAIN inbox
                   PROVE  inbox[j] \in InFlight'
        BY <3>1
      <4>1. CASE j = 1
        BY <3>2, <4>1
      <4>2. CASE j # 1
        BY <2>4, <3>2, <4>2
      <4> QED
        BY <4>1, <4>2
    <3> QED
      BY <3>3, <3>4
  <2>6. InboxApart'
    <3>1. InboxApart
      BY DEF TestInv
    <3>2. \A i, j \in DOMAIN inbox' : inbox'[i].promise.slot = inbox'[j].promise.slot => i = j
      <4> SUFFICES ASSUME NEW i \in DOMAIN inbox', NEW j \in DOMAIN inbox',
                          inbox'[i].promise.slot = inbox'[j].promise.slot
                   PROVE  i = j
        OBVIOUS
      <4>1. i + 1 = j + 1
        BY <2>3, <3>1 DEF InboxApart
      <4> QED
        BY <2>3, <4>1
    <3>3. \A i \in DOMAIN inbox' : inbox'[i].promise.slot # request'.promise.slot
      BY <2>3, <3>1 DEF InboxApart
    <3> QED
      BY <2>2, <2>3, <3>2, <3>3 DEF InboxApart
  <2>7. TestTypeOK'
    <3>1. Len(inbox') <= TestDepth /\ request' \in Requests
      BY <2>2, <2>3, TestAssumption
    <3> QED
      BY <1>0, <1>1, <2>1, <2>3, <3>1 DEF TestTypeOK
  <2>8. inbox' # <<>> => inbox # <<>> /\ inbox'[Len(inbox')] = inbox[Len(inbox)]
    <3> SUFFICES ASSUME inbox' # <<>>
                 PROVE  inbox'[Len(inbox')] = inbox[Len(inbox)]
      BY <1>5
    <3>1. Len(inbox') \in DOMAIN inbox' /\ Len(inbox') + 1 = Len(inbox)
      BY <2>2, <2>3
    <3> QED
      BY <2>3, <3>1
  <2> QED
    BY <1>0, <2>5, <2>6, <2>7, <2>8, SameFlights
<1> QED
  BY <1>2, <1>3, <1>4, <1>5

\* An answer settles the slot that waits for it, or frees that of a late request.
LEMMA ResolveStep ==
  ASSUME TestInv, ProducerResolves
  PROVE  TestInv'
<1>0. /\ producer = "delay" /\ Resolve(request.promise, request.mode)
      /\ producer' = "top" /\ request' = NoHeld
      /\ stamped' = request
      /\ UNCHANGED <<inbox, port, inUse, control, check, stage, mine, ok, stopping, report, late, behind>>
  BY DEF ProducerResolves, ProducerOnly
<1>1. PICK r : r = request
  OBVIOUS
<1>2. /\ r \in InFlight /\ r.promise \in Handles /\ r.promise.slot \in Slots
      /\ r.mode \in Deliveries /\ r.mode \in Answers
  <2>1. r \in InFlight
    BY <1>0, <1>1 DEF InFlight
  <2> QED
    BY <2>1, RequestTyped, TestAssumption DEF Deliveries
<1>3. PICK h \in Handles : h = r.promise
  BY <1>2
<1>4. h.slot \in Slots /\ {h.slot} \in SUBSET Slots
  BY <1>2, <1>3
<1>5. /\ InFlight = InFlight' \cup {r}
      /\ \A q \in InFlight' : /\ q \in InFlight /\ q.promise \in Handles
                              /\ q.promise.slot \in Slots /\ q.promise.slot # h.slot
  <2>1. InFlight' = {inbox[i] : i \in DOMAIN inbox}
    BY <1>0 DEF InFlight
  <2>2. InFlight = {inbox[i] : i \in DOMAIN inbox} \cup {r}
    BY <1>0, <1>1 DEF InFlight
  <2>3. \A i \in DOMAIN inbox : inbox[i].promise.slot # h.slot
    BY <1>0, <1>1, <1>3 DEF TestInv, InboxApart
  <2> QED
    BY <2>1, <2>2, <2>3, RequestTyped
<1>6. (Late(h) /\ ~Owns(h.slot)) \/ (Delivering("wait") /\ Pending(h) /\ r = Asked)
  BY <1>2, <1>3 DEF TestInv, RequestsHeld
<1>7. /\ \/ Late(h) /\ ~Owns(h.slot) /\ Freed(h)
         \/ Delivering("wait") /\ Pending(h) /\ r = Asked /\ Settled(h, Battery[check])'
      /\ PoolTypeOK' /\ FreeSound' /\ OnlySlots({h.slot})
  <2>1. Resolve(h, r.mode) /\ r.mode \in Answers
    BY <1>0, <1>1, <1>2, <1>3
  <2>2. CASE Late(h) /\ ~Owns(h.slot)
    BY <2>1, <2>2, LastSide
  <2>3. CASE Delivering("wait") /\ Pending(h) /\ r = Asked
    <3>1. PoolTypeOK' /\ FreeSound' /\ OnlySlots({h.slot}) /\ Settled(h, r.mode)'
      <4>1. PICK x \in Answers : x = r.mode
        BY <2>1
      <4>2. Resolve(h, x)
        BY <2>1, <4>1
      <4>3. PoolTypeOK' /\ FreeSound' /\ OnlySlots({h.slot}) /\ Settled(h, x)'
        BY <2>3, <4>2, Answering
      <4> QED
        BY <1>0, <1>1, <4>1, <4>3 DEF Settled, IsCurrent
    <3>2. r.mode = Battery[check] /\ check' = check
      BY <1>0, <2>3 DEF Asked
    <3> QED
      BY <2>3, <3>1, <3>2 DEF Settled, IsCurrent
  <2> QED
    BY <1>6, <2>2, <2>3
<1>8. \A s \in Slots \ {h.slot} : Owns(s)' <=> Owns(s)
  BY <1>0, <1>4, <1>7, OwnsKept
<1>9. TestTypeOK' /\ InboxApart'
  <2>1. stamped' \in Requests
    BY <1>0 DEF TestInv, InboxApart
  <2> QED
    BY <1>0, <1>7, <2>1 DEF TestInv, TestTypeOK, InboxApart
<1>10. ASSUME NEW q \in InFlight'
       PROVE  /\ Late(q.promise)' <=> Late(q.promise)
              /\ \/ Late(q.promise)' /\ ~Owns(q.promise.slot)'
                 \/ Delivering("wait") /\ Pending(q.promise)' /\ q = Asked
  <2>1. /\ q \in InFlight /\ q.promise \in Handles
        /\ q.promise.slot \in Slots /\ q.promise.slot # h.slot
    BY <1>5
  <2>2. q.promise.slot \notin {h.slot}
    BY <2>1
  <2>3. /\ Late(q.promise)' <=> Late(q.promise)
        /\ Pending(q.promise)' <=> Pending(q.promise)
        /\ Owns(q.promise.slot)' <=> Owns(q.promise.slot)
    BY <1>4, <1>7, <1>8, <2>1, <2>2, HandleKept
  <2> QED
    BY <2>1, <2>3 DEF TestInv, RequestsHeld
<1>11. Asked' = Asked /\ (Delivering("wait")' <=> Delivering("wait"))
  BY <1>0 DEF Asked, Delivering
<1>12. RequestsHeld'
  BY <1>10, <1>11 DEF RequestsHeld
<1>13. /\ Len(mine) \in Nat /\ DOMAIN mine = 1 .. Len(mine)
       /\ \A i \in DOMAIN mine : mine[i] \in Handles /\ mine[i].slot \in Slots
  BY MineTyped DEF TestInv
<1>14. Delivering("wait") => Len(mine) = 1 /\ 1 \in DOMAIN mine
  BY <1>13 DEF TestInv, MineSound
<1>15. r = Asked => h = mine[1]
  BY <1>3 DEF Asked
<1>16. SlotsOwned'
  <2> SUFFICES ASSUME NEW s \in Slots
               PROVE  st'[s] = "free" \/ Owns(s)' \/ \E q \in InFlight' : q.promise.slot = s
    BY DEF SlotsOwned
  <2>1. CASE s = h.slot
    <3>1. CASE Freed(h)
      BY <2>1, <3>1 DEF Freed
    <3>2. CASE Delivering("wait") /\ r = Asked /\ Settled(h, Battery[check])'
      BY <1>0, <1>14, <1>15, <2>1, <3>2 DEF Settled, Owns, IsCurrent
    <3> QED
      BY <1>7, <3>1, <3>2
  <2>2. CASE s # h.slot
    <3>1. s \in Slots \ {h.slot} /\ st'[s] = st[s]
      BY <1>7, <2>2 DEF OnlySlots
    <3>2. CASE \E q \in InFlight : q.promise.slot = s
      BY <1>3, <1>5, <2>2, <3>2
    <3> QED
      BY <1>8, <3>1, <3>2 DEF TestInv, SlotsOwned
  <2> QED
    BY <2>1, <2>2
<1>17. MineSound'
  <2>0. MineSound
    BY DEF TestInv
  <2>1. CASE Delivering("wait") /\ r = Asked /\ Settled(h, Battery[check])'
    <3>1. Settled(mine[1], Battery[check])'
      BY <1>0, <1>15, <2>1 DEF Settled, IsCurrent
    <3>2. Len(mine') = 1 /\ stage' = "wait" /\ Battery[check'] \in Deliveries
      BY <1>0, <1>14, <2>1 DEF Delivering
    <3> QED
      BY <3>1, <3>2 DEF MineSound, In, Delivering, StagesOf, Deliveries
  <2>2. CASE Late(h) /\ ~Owns(h.slot)
    <3>1. ASSUME NEW i \in DOMAIN mine, IsCurrent(mine[i])
          PROVE  /\ mine[i].slot # h.slot
                 /\ gen'[mine[i].slot] = gen[mine[i].slot] /\ st'[mine[i].slot] = st[mine[i].slot]
                 /\ held'[mine[i].slot] = held[mine[i].slot] /\ ans'[mine[i].slot] = ans[mine[i].slot]
      <4>1. mine[i].slot # h.slot /\ mine[i].slot \in Slots \ {h.slot}
        BY <1>13, <2>2, <3>1 DEF Owns
      <4> QED
        BY <1>7, <4>1 DEF OnlySlots
    <3>2. ASSUME NEW i \in DOMAIN mine
          PROVE  /\ Pending(mine[i]) => Pending(mine[i])'
                 /\ Late(mine[i]) => Late(mine[i])'
                 /\ \A x : Settled(mine[i], x) => Settled(mine[i], x)'
      BY <1>0, <3>1 DEF Pending, Late, Settled, IsCurrent
    <3>3. AllPending => AllPending'
      BY <1>0, <3>2 DEF AllPending
    <3>4. ASSUME Len(mine) = 1 \/ (Len(mine) = 2 /\ IsCurrent(mine[2])), FirstIsStale
          PROVE  FirstIsStale'
      <4>1. 1 \in DOMAIN mine
        BY <1>13, <3>4
      <4>2. PICK g \in Handles : g = mine[1]
        BY <1>13, <4>1
      <4>3. g.slot \in Slots /\ ~IsCurrent(g)
        BY <3>4, <4>1, <4>2, <1>13 DEF FirstIsStale
      <4>4. CASE st[g.slot] = "free"
        <5>1. g.slot # h.slot
          BY <2>2, <4>4 DEF Late
        <5>2. st'[g.slot] = st[g.slot] /\ gen'[g.slot] = gen[g.slot]
          BY <1>7, <4>3, <5>1 DEF OnlySlots
        <5> QED
          BY <1>0, <4>2, <4>3, <4>4, <5>2 DEF FirstIsStale, IsCurrent
      <4>5. CASE Len(mine) = 2 /\ g.slot = mine[2].slot
        <5>1. 2 \in DOMAIN mine /\ IsCurrent(mine[2])
          BY <1>13, <3>4, <4>5
        <5>2. gen'[g.slot] = gen[g.slot]
          BY <3>1, <4>5, <5>1
        <5> QED
          BY <1>0, <4>2, <4>3, <4>5, <5>2 DEF FirstIsStale, IsCurrent
      <4> QED
        BY <3>4, <4>2, <4>4, <4>5 DEF FirstIsStale
    <3>5. Asked \in InFlight /\ Pending(mine[1]) => Asked' \in InFlight'
      <4>1. Pending(mine[1]) => Asked # r
        BY <1>3, <2>2 DEF Asked, Pending, Late
      <4> QED
        BY <1>5, <1>11, <4>1
    <3>6. Len(mine) = 1 => 1 \in DOMAIN mine
      BY <1>13
    <3>7. Len(mine) = 2 => 1 \in DOMAIN mine /\ 2 \in DOMAIN mine
      BY <1>13
    <3>8. /\ \A x : Settled(mine[2], x) => IsCurrent(mine[2])
          /\ Pending(mine[2]) => IsCurrent(mine[2])
      BY DEF Settled, Pending
    <3>9. stage' = stage /\ check' = check /\ mine' = mine /\ ok' = ok
      BY <1>0
    <3>10. CASE Battery[check] = "controls"
      BY <2>0, <3>9, <3>10 DEF MineSound, In, Delivering, Deliveries
    <3>11. CASE Battery[check] = "timeout"
      BY <2>0, <3>2, <3>6, <3>9, <3>11 DEF MineSound, In, Delivering, Deliveries
    <3>12. CASE Battery[check] \in Deliveries
      BY <2>0, <3>2, <3>5, <3>6, <3>9, <3>12 DEF MineSound, In, Delivering, Deliveries
    <3>13. CASE Battery[check] = "stale"
      BY <2>0, <3>2, <3>4, <3>6, <3>7, <3>8, <3>9, <3>13 DEF MineSound, In, Delivering, Deliveries
    <3>14. CASE Battery[check] = "cancel"
      BY <2>0, <3>2, <3>3, <3>6, <3>9, <3>14 DEF MineSound, In, Delivering, Deliveries
    <3>15. Battery[check] \in Checks
      BY BatteryShape DEF TestInv, TestTypeOK
    <3> QED
      BY <3>10, <3>11, <3>12, <3>13, <3>14, <3>15 DEF Checks, Deliveries
  <2> QED
    BY <1>7, <2>1, <2>2
<1>18. ControlSound' /\ EventsReturn'
  BY <1>0 DEF TestInv, ControlSound, EventsReturn, In
<1>19. OnTime'
  <2>1. \A q \in InFlight' : q \in InFlight /\ (Late(q.promise)' <=> Late(q.promise))
    BY <1>5, <1>10
  <2> QED
    BY <1>0, <2>1 DEF TestInv, OnTime
<1>20. StampSound'
  <2> SUFFICES ASSUME Delivering("wait")
               PROVE  IF Pending(mine[1])'
                      THEN inbox # <<>> => inbox[Len(inbox)] = Asked
                      ELSE InFlight' = {} /\ request = Asked
    BY <1>0, <1>11 DEF StampSound
  <2>1. CASE Pending(h) /\ r = Asked /\ Settled(h, Battery[check])'
    <3>1. inbox = <<>>
      <4> SUFFICES ASSUME inbox # <<>>
                   PROVE  FALSE
        OBVIOUS
      <4>1. Len(inbox) \in DOMAIN inbox
        BY RequestTyped
      <4>2. inbox[Len(inbox)] = Asked
        BY <1>15, <2>1 DEF TestInv, StampSound
      <4> QED
        BY <1>0, <1>1, <2>1, <4>1, <4>2 DEF TestInv, InboxApart
    <3>2. InFlight' = {}
      <4>1. DOMAIN inbox = {}
        BY <3>1
      <4> QED
        BY <1>0, <4>1 DEF InFlight
    <3>3. ~Pending(mine[1])'
      BY <1>0, <1>15, <2>1 DEF Pending, Settled, IsCurrent
    <3> QED
      BY <1>1, <2>1, <3>2, <3>3
  <2>2. CASE Late(h) /\ ~Owns(h.slot)
    <3>1. Pending(mine[1]) /\ (inbox # <<>> => inbox[Len(inbox)] = Asked)
      BY <1>2 DEF TestInv, StampSound
    <3>2. mine[1] \in Handles /\ mine[1].slot \notin {h.slot}
      BY <1>13, <1>14, <2>2, <3>1 DEF Pending, Late
    <3>3. Pending(mine[1])'
      <4>1. PICK g \in Handles : g = mine[1]
        BY <3>2
      <4>2. Pending(g)'
        BY <1>4, <1>7, <3>1, <3>2, <4>1, HandleKept
      <4> QED
        BY <1>0, <4>1, <4>2 DEF Pending, IsCurrent
    <3> QED
      BY <3>1, <3>3
  <2> QED
    BY <1>7, <2>1, <2>2
<1> QED
  BY <1>7, <1>9, <1>12, <1>16, <1>17, <1>18, <1>19, <1>20 DEF TestInv

-----------------------------------------------------------------------------
(* The theorems.                                                           *)
\* The self-test starts with a free pool and nothing in flight.
LEMMA TestInvInit == TestInit => TestInv
<1> SUFFICES ASSUME TestInit
             PROVE  TestInv
  OBVIOUS
<1>1. Cardinality(Slots) \in Nat /\ 1 \in DOMAIN Battery /\ Battery[1] = "controls"
  BY TestAssumption, FS_CardinalityType, BatteryShape
<1>2. PoolTypeOK /\ FreeSound /\ \A s \in Slots : st[s] = "free"
  BY PoolAssumption DEF TestInit, PoolInit, PoolTypeOK, FreeSound, Generations, SlotStates
<1>3. TestTypeOK
  <2>1. /\ mine = <<>> /\ inbox = <<>> /\ Len(mine) = 0 /\ Len(inbox) = 0
        /\ mine \in Seq(Handles) /\ inbox \in Seq(Requests)
    BY DEF TestInit
  <2>2. 0 <= TestDepth /\ 0 <= Cardinality(Slots)
    BY <1>1, TestAssumption
  <2>3. /\ check \in DOMAIN Battery /\ stage \in Stages /\ ok \in BOOLEAN /\ behind \in BOOLEAN
        /\ stopping \subseteq {"waiter", "producer"} /\ report = "none" /\ request = NoHeld
        /\ port \in {"places", "bits"} /\ inUse \subseteq Events /\ control = NoEvent
        /\ producer = "top" /\ stamped = NoHeld /\ late = FALSE
    BY <1>1 DEF TestInit, Stages
  <2> QED
    BY <1>2, <2>1, <2>2, <2>3 DEF TestTypeOK
<1>4. InFlight = {}
  BY DEF TestInit, InFlight
<1>5. MineSound
  BY <1>1 DEF TestInit, MineSound, In, Delivering, StagesOf, Deliveries
<1> QED
  BY <1>1, <1>2, <1>3, <1>4, <1>5
  DEF TestInit, TestInv, InboxApart, RequestsHeld, SlotsOwned, ControlSound, StampSound, OnTime,
      EventsReturn, In, Delivering

\* Every step of the self-test keeps the invariant.
LEMMA TestInvNext == TestInv /\ [TestNext]_allTestVars => TestInv'
<1> SUFFICES ASSUME TestInv, [TestNext]_allTestVars
             PROVE  TestInv'
  OBVIOUS
<1>1. CASE UNCHANGED allTestVars
  <2>1. /\ TestTypeOK' /\ InboxApart' /\ InFlight' = InFlight
        /\ UNCHANGED <<poolVars, inbox, port, inUse, control, check, stage, mine, ok, stamped, report, late,
                       behind>>
    BY <1>1
    DEF TestInv, TestTypeOK, PoolTypeOK, InboxApart, InFlight, allTestVars, testVars, poolVars
  <2> QED
    BY <2>1, SameFlights
<1>2. CASE WaiterRuns
  BY <1>2, TopStep, ControlStep, Begins, TimeoutStep, SendStep, ArriveStep, ExpireStep,
     StaleStep, ReuseStep, ClaimStep, CancelStep DEF WaiterRuns
<1>3. CASE ProducerRuns
  BY <1>3, TakeStep, ResolveStep DEF ProducerRuns
<1>4. CASE RequestStop
  BY <1>4, TakeStep
<1> QED
  BY <1>1, <1>2, <1>3, <1>4 DEF TestNext

\* The invariant of the self-test.
THEOREM SelfTestInvariant == TestSpec => []TestInv
<1> QED
  BY TestInvInit, TestInvNext, PTL DEF TestSpec

(* The types of the self-test: no check has more handles than the pool has *)
(* slots, and the queue of the producer stays within its depth.            *)
THEOREM SelfTestTypeCorrect == TestSpec => []TestTypeOK
<1>1. TestInv => TestTypeOK
  BY DEF TestInv
<1> QED
  BY <1>1, SelfTestInvariant, PTL

(* The battery reports FAIL only when the waiter ran too late for the times*)
(* that a check allows, or until what a delivery that was given up left    *)
(* behind is gone: for any pool, queue and events, no verdict is a false   *)
(* one of the values, the slots or the answers' times (report).            *)
THEOREM SelfTestFailsOnlyLate == TestSpec => []FailuresAreLate
<1>1. TestInv => FailuresAreLate
  BY DEF TestInv, TestTypeOK, OnTime, FailuresAreLate
<1> QED
  BY <1>1, SelfTestInvariant, PTL

(* Every event that checkControls makes is given back where events are     *)
(* places, however many rounds the battery goes through.                   *)
THEOREM SelfTestReturnsEvents == TestSpec => []EventsReturn
<1>1. TestInv => EventsReturn
  BY DEF TestInv
<1> QED
  BY <1>1, SelfTestInvariant, PTL

=============================================================================
