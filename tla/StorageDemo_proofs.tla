------------------------- MODULE StorageDemo_proofs -------------------------
(***************************************************************************)
(* For any set of clients with disciplined scripts, any pool, queue depth  *)
(* and generation width: IInv is an inductive invariant of StorageDemo, and*)
(* StorageDemo implements BlockStore.  For the four scenarios of the demo: *)
(* SizeInv bounds the slots and queue places that are taken at once, and   *)
(* PassInv says why no scenario ever fails.                                *)
(***************************************************************************)
EXTENDS StorageDemo, ClientScenarios, SequenceTheorems, FiniteSetTheorems, TLAPS

-----------------------------------------------------------------------------
(* Lemmas about the pool's operations.                                     *)

\* Leaving a slot changes that slot only, and frees it with the last side.
LEMMA LeaveSlotEffect ==
  ASSUME PoolTypeOK,
         NEW s \in Slots, NEW left \in SUBSET Sides, NEW state \in SlotStates,
         NEW a \in Answers \cup {NoAnswer}, LeaveSlot(s, left, state, a)
  PROVE  /\ PoolTypeOK'
         /\ \A t \in Slots : t # s => /\ st'[t] = st[t] /\ gen'[t] = gen[t]
                                      /\ held'[t] = held[t] /\ ans'[t] = ans[t]
         /\ held'[s] = left
         /\ left = {} => st'[s] = "free" /\ ans'[s] = NoAnswer
         /\ left # {} => st'[s] = state /\ ans'[s] = a /\ gen'[s] = gen[s]
<1>1. \A g \in Generations : (g + 1) % GenModulus \in Generations
  BY PoolAssumption DEF Generations
<1> QED
  BY <1>1 DEF PoolTypeOK, LeaveSlot, SlotStates

\* Claiming a slot hands out both its sides.
LEMMA ClaimEffect ==
  ASSUME PoolTypeOK, NEW s \in Slots, Claim(s)
  PROVE  /\ PoolTypeOK'
         /\ \A t \in Slots : t # s => st'[t] = st[t] /\ held'[t] = held[t]
         /\ held'[s] = Sides /\ st'[s] = "pending"
         /\ gen' = gen /\ ans' = ans
BY DEF PoolTypeOK, Claim, SlotStates, Sides

-----------------------------------------------------------------------------
(* Steps that touch neither the pool, nor the queue, nor a handle.         *)
LEMMA QuietStep ==
  ASSUME IInv, UNCHANGED <<poolVars, queue, request, clientVars>>
  PROVE  (PoolSafety /\ FuturesFollowScript)' /\ PoolTypeOK' /\ ClientTypeOK'
<1>1. PoolTypeOK' /\ ClientTypeOK'
  BY DEF IInv, TypeOK, PoolTypeOK, ClientTypeOK, poolVars, clientVars, Points
<1>2. PromisesExclusive'
  BY DEF IInv, PoolSafety, PromisesExclusive, poolVars, clientVars, IsCurrent, Unsent, PromiseOf, Instr
<1>3. FuturesExclusive'
  BY DEF IInv, PoolSafety, FuturesExclusive, poolVars, clientVars, IsCurrent
<1>4. NoSlotLost'
  BY DEF IInv, PoolSafety, NoSlotLost, poolVars, clientVars, Unsent, PromiseOf, Instr
<1>5. StateFollowsHolders'
  BY DEF IInv, PoolSafety, StateFollowsHolders, poolVars
<1>6. FuturesFollowScript'
  BY DEF IInv, FuturesFollowScript, clientVars, Instr
<1> QED
  BY <1>1, <1>2, <1>3, <1>4, <1>5, <1>6 DEF PoolSafety

\* The request T_S works on is a request, and its data are block data.
LEMMA RequestType ==
  ASSUME IInv, request # NoRequest
  PROVE  /\ request \in Requests
         /\ request.promise \in Handles
         /\ request.load.val \in Values
BY SharedAssumption DEF IInv, TypeOK, ServiceTypeOK, Requests, Handles

\* What T_S can be about to answer is an answer.
LEMMA OutcomeType ==
  /\ \A c \in Codes : Failed(c) \in Answers
  /\ \A v \in Values : Done(v) \in Answers
<1>1. \A c \in Codes : Failed(c) \in [code : Codes, val : Values]
  BY ServiceAssumption DEF Failed
<1>2. \A v \in Values : Done(v) \in [code : Codes, val : Values]
  BY DEF Done, Codes
<1> QED
  BY <1>1, <1>2, ServiceAssumption

-----------------------------------------------------------------------------
(* The steps of T_S on its own variables and the media.                    *)
QuietServicer ==
  LoopTop \/ ReceiveTimesOut \/ MountVolume \/ Format \/ Remount \/ OpenBlockFile
    \/ CheckActive \/ SlowDelay \/ Work \/ Sync \/ Plug \/ Unplug

LEMMA QuietServicerFrame ==
  ASSUME IInv, QuietServicer
  PROVE  UNCHANGED <<poolVars, queue, request, stopRequested>>
BY DEF QuietServicer, LoopTop, ReceiveTimesOut, MountVolume, Format, Remount, OpenBlockFile,
       CheckActive, SlowDelay, Work, Sync, Plug, Unplug, sharedVars, AfterMount

LEMMA QuietServicerStep ==
  ASSUME IInv, QuietServicer
  PROVE  SharedTypeOK' /\ ServiceTypeOK' /\ ServicerReady'
<1> USE DEF IInv, TypeOK, SharedTypeOK, ServiceTypeOK, ServicerReady, sharedVars
<1>0. UNCHANGED <<queue, request, stopRequested>>
  BY QuietServicerFrame
<1>1. CASE LoopTop
  BY <1>0, <1>1 DEF LoopTop, SvcPoints
<1>2. CASE ReceiveTimesOut
  BY <1>0, <1>2 DEF ReceiveTimesOut, SvcPoints
<1>3. CASE MountVolume
  BY <1>0, <1>3 DEF MountVolume, AfterMount, SvcPoints
<1>4. CASE OpenBlockFile
  BY <1>0, <1>4 DEF OpenBlockFile, AfterMount, SvcPoints
<1>5. CASE CheckActive
  <2>1. outcome' \in Answers \cup {NoAnswer}
    BY <1>5, OutcomeType DEF CheckActive, Codes
  <2>2. at' = "resolve" <=> outcome' # NoAnswer
    BY <1>5, OutcomeType, PoolAssumption DEF CheckActive, Codes
  <2> QED
    BY <1>0, <1>5, <2>1, <2>2 DEF CheckActive, SvcPoints
<1>6. CASE SlowDelay
  BY <1>0, <1>6 DEF SlowDelay, SvcPoints
<1>7. CASE Work
  <2>1. disk' \in [Blocks -> Values]
    BY <1>7, RequestType DEF Work
  <2>2. outcome' \in Answers \cup {NoAnswer} /\ (at' = "resolve" <=> outcome' # NoAnswer)
    BY <1>7, OutcomeType, PoolAssumption, ServiceAssumption DEF Work, Codes
  <2> QED
    BY <1>0, <1>7, <2>1, <2>2 DEF Work, SvcPoints
<1>8. CASE Sync
  <2>1. outcome' \in Answers \cup {NoAnswer} /\ (at' = "resolve" <=> outcome' # NoAnswer)
    BY <1>8, OutcomeType, PoolAssumption, ServiceAssumption DEF Sync, Codes
  <2> QED
    BY <1>0, <1>8, <2>1 DEF Sync, SvcPoints
<1>9. CASE Plug
  BY <1>0, <1>9 DEF Plug
<1>10. CASE Unplug
  BY <1>0, <1>10 DEF Unplug
<1>11. CASE Format
  <2>1. disk' \in [Blocks -> Values]
    BY <1>11, ServiceAssumption DEF Format, EmptyFile
  <2> QED
    BY <1>0, <1>11, <2>1 DEF Format, AfterMount, SvcPoints
<1>12. CASE Remount
  BY <1>0, <1>12 DEF Remount, AfterMount, SvcPoints
<1> QED
  BY <1>1, <1>2, <1>3, <1>4, <1>5, <1>6, <1>7, <1>8, <1>9, <1>10, <1>11, <1>12 DEF QuietServicer

-----------------------------------------------------------------------------
(* What a queue holds after an item left it and after one came in.         *)
LEMMA TailItems ==
  ASSUME NEW S, NEW q \in Seq(S), q # <<>>
  PROVE  /\ Head(q) \in S /\ Head(q) = q[1] /\ 1 \in DOMAIN q
         /\ Tail(q) \in Seq(S) /\ Len(Tail(q)) <= Len(q)
         /\ \A i \in DOMAIN Tail(q) : i \in Nat /\ i + 1 \in DOMAIN q
                                      /\ i + 1 # 1 /\ Tail(q)[i] = q[i + 1]
         /\ \A j \in DOMAIN q : j # 1 => j - 1 \in DOMAIN Tail(q) /\ Tail(q)[j - 1] = q[j]
OBVIOUS

LEMMA AppendItems ==
  ASSUME NEW S, NEW q \in Seq(S), NEW r \in S, NEW p, p = Append(q, r)
  PROVE  /\ p \in Seq(S) /\ Len(p) = Len(q) + 1
         /\ Len(q) + 1 \in DOMAIN p /\ Len(q) + 1 \notin DOMAIN q
         /\ p[Len(q) + 1] = r
         /\ \A i \in DOMAIN q : i \in DOMAIN p /\ p[i] = q[i]
         /\ \A i \in DOMAIN p : i = Len(q) + 1 \/ i \in DOMAIN q
<1>1. /\ p \in Seq(S) /\ Len(p) = Len(q) + 1
      /\ \A i \in 1 .. Len(q) : p[i] = q[i]
      /\ p[Len(q) + 1] = r
  BY AppendProperties
<1>2. DOMAIN q = 1 .. Len(q) /\ Len(q) \in Nat /\ DOMAIN p = 1 .. Len(q) + 1
  BY <1>1, LenProperties
<1> QED
  BY <1>1, <1>2

\* Every promise handle in the queue is a handle.
LEMMA QueueType ==
  ASSUME IInv
  PROVE  \A i \in DOMAIN queue : /\ queue[i] \in Requests
                                 /\ queue[i].promise \in Handles
                                 /\ queue[i].promise.slot \in Slots
<1>1. queue \in Seq(Requests)
  BY DEF IInv, TypeOK, SharedTypeOK
<1>2. \A i \in DOMAIN queue : queue[i] \in Requests
  BY <1>1, ElementOfSeq, LenProperties
<1>3. \A r \in Requests : r.promise \in Handles /\ r.promise.slot \in Slots
  BY DEF Requests, Handles
<1> QED
  BY <1>2, <1>3

\* So is every future a requester holds, and the promise it has yet to send.
LEMMA FutureType ==
  ASSUME IInv, NEW c \in Clients, NEW h \in Futures, fut[c][h] # NoFuture
  PROVE  fut[c][h] \in Handles /\ fut[c][h].slot \in Slots
BY DEF IInv, TypeOK, ClientTypeOK, Handles

\* A requester is at an instruction of its script, and the script is disciplined.
LEMMA ScriptFacts ==
  ASSUME IInv, NEW c \in Clients
  PROVE  /\ pc[c] \in Points(c) /\ Points(c) \subseteq Nat
         /\ Instr(c) \in Instructions /\ Instr(c).h \in Futures
         /\ Disciplined(c, pc[c])
BY ScriptAssumption DEF IInv, TypeOK, ClientTypeOK, Instr, Instructions

LEMMA UnsentType ==
  ASSUME IInv, NEW c \in Clients, Unsent(c), PromiseOf(c) # NoFuture
  PROVE  PromiseOf(c) \in Handles /\ PromiseOf(c).slot \in Slots
BY FutureType, ScriptFacts DEF PromiseOf

-----------------------------------------------------------------------------
(* The head of the queue moves into T_S's hands.                           *)
LEMMA ReceiveStep ==
  ASSUME IInv, Receive, UNCHANGED clientVars
  PROVE  IInv'
<1> DEFINE q == queue
<1>1. /\ q # <<>> /\ request' = q[1] /\ queue' = Tail(q) /\ request = NoRequest
      /\ UNCHANGED <<poolVars, clientVars>>
  BY TailItems DEF IInv, TypeOK, SharedTypeOK, Receive, QueueReceive, ServicerReady
<1>2. q \in Seq(Requests) /\ Len(q) <= QueueDepth /\ Len(q) \in Nat
  BY DEF IInv, TypeOK, SharedTypeOK
<1>3. /\ q[1] \in Requests /\ 1 \in DOMAIN q /\ queue' \in Seq(Requests) /\ Len(queue') <= QueueDepth
      /\ \A i \in DOMAIN queue' : i \in Nat /\ i + 1 \in DOMAIN q /\ i + 1 # 1 /\ queue'[i] = q[i + 1]
      /\ \A j \in DOMAIN q : j # 1 => j - 1 \in DOMAIN queue' /\ queue'[j - 1] = q[j]
  BY <1>1, <1>2, TailItems, SharedAssumption
<1>4. request' # NoRequest
  BY <1>1, <1>3, ServiceAssumption
<1>5. TypeOK'
  <2>1. PoolTypeOK' /\ ClientTypeOK'
    BY <1>1 DEF IInv, TypeOK, PoolTypeOK, ClientTypeOK, poolVars, clientVars, Points
  <2>2. SharedTypeOK'
    BY <1>1, <1>3 DEF IInv, TypeOK, SharedTypeOK, Receive
  <2>3. request' \in Requests /\ at' \in SvcPoints
    BY <1>1, <1>3 DEF Receive, SvcPoints
  <2>4. ServiceTypeOK'
    BY <2>3 DEF IInv, TypeOK, ServiceTypeOK, Receive
  <2> QED
    BY <2>1, <2>2, <2>4 DEF TypeOK
<1>6. PromisesExclusive'
  <2>1. PromisesExclusive
    BY DEF IInv, PoolSafety
  <2>2. \A i \in DOMAIN queue' : queue'[i].promise.slot # request'.promise.slot
    BY <1>1, <1>3, <2>1 DEF PromisesExclusive
  <2>3. \A i, j \in DOMAIN queue' :
          queue'[i].promise.slot = queue'[j].promise.slot => i = j
    <3> SUFFICES ASSUME NEW i \in DOMAIN queue', NEW j \in DOMAIN queue',
                        queue'[i].promise.slot = queue'[j].promise.slot
                 PROVE  i = j
      OBVIOUS
    <3>1. i + 1 = j + 1
      BY <1>3, <2>1 DEF PromisesExclusive
    <3> QED
      BY <3>1, <1>3
  <2>0. /\ gen' = gen /\ held' = held
        /\ \A c \in Clients : (Unsent(c)' <=> Unsent(c)) /\ PromiseOf(c)' = PromiseOf(c)
    BY <1>1 DEF poolVars, clientVars, Unsent, PromiseOf, Instr
  <2>4. ASSUME NEW i \in DOMAIN queue'
        PROVE  /\ IsCurrent(queue[i].promise)' /\ "promise" \in held'[queue'[i].promise.slot]
               /\ \A c \in Clients : Unsent(c)' => PromiseOf(c)'.slot # queue'[i].promise.slot
    <3>1. i + 1 \in DOMAIN queue /\ queue'[i] = queue[i + 1]
      BY <1>3
    <3> QED
      BY <2>0, <2>1, <3>1 DEF PromisesExclusive, IsCurrent
  <2>5. /\ IsCurrent(request.promise)' /\ "promise" \in held'[request'.promise.slot]
        /\ \A c \in Clients : Unsent(c)' => PromiseOf(c)'.slot # request'.promise.slot
    <3>1. 1 \in DOMAIN queue /\ request' = queue[1]
      BY <1>1, <1>3
    <3> QED
      BY <2>0, <2>1, <3>1 DEF PromisesExclusive, IsCurrent
  <2>6. \A c \in Clients : Unsent(c)' => /\ PromiseOf(c)' # NoFuture /\ IsCurrent(PromiseOf(c))'
                                        /\ "promise" \in held'[PromiseOf(c)'.slot]
    BY <2>0, <2>1 DEF PromisesExclusive, IsCurrent
  <2> QED
    BY <2>2, <2>3, <2>4, <2>5, <2>6 DEF PromisesExclusive
<1>7. FuturesExclusive' /\ StateFollowsHolders' /\ FuturesFollowScript'
  BY <1>1 DEF IInv, PoolSafety, FuturesExclusive, StateFollowsHolders, FuturesFollowScript,
              poolVars, clientVars, IsCurrent, Instr
<1>8. NoSlotLost'
  <2> SUFFICES ASSUME NEW s \in Slots, "promise" \in held[s]
               PROVE  \/ \E i \in DOMAIN queue' : queue'[i].promise.slot = s
                      \/ request'.promise.slot = s
                      \/ \E c \in Clients : Unsent(c) /\ PromiseOf(c).slot = s
    BY <1>1, <1>4
    DEF IInv, PoolSafety, NoSlotLost, poolVars, clientVars, Unsent, PromiseOf, Instr
  <2>1. CASE \E j \in DOMAIN q : q[j].promise.slot = s
    <3>1. PICK j \in DOMAIN q : q[j].promise.slot = s
      BY <2>1
    <3>2. CASE j = 1
      BY <3>1, <3>2, <1>1
    <3>3. CASE j # 1
      BY <3>1, <3>3, <1>3
    <3> QED
      BY <3>2, <3>3
  <2> QED
    BY <1>1, <2>1 DEF IInv, PoolSafety, NoSlotLost
<1>9. ServicerReady'
  BY <1>1, <1>4 DEF IInv, ServicerReady, Receive
<1> QED
  BY <1>5, <1>6, <1>7, <1>8, <1>9 DEF IInv, PoolSafety

-----------------------------------------------------------------------------
(* T_S lets go of its promise: with the answer, or for nobody.             *)
LEMMA ResolvePromiseStep ==
  ASSUME IInv, ResolvePromise, UNCHANGED clientVars
  PROVE  IInv'
<1> DEFINE s == request.promise.slot
           left == held[s] \ {"promise"}
<1>1. /\ request # NoRequest /\ request' = NoRequest /\ outcome # NoAnswer
      /\ UNCHANGED <<queue, clientVars>>
  BY DEF IInv, ServicerReady, ResolvePromise
<1>2. s \in Slots /\ IsCurrent(request.promise) /\ "promise" \in held[s]
  BY <1>1, RequestType DEF Handles, IInv, PoolSafety, PromisesExclusive
<1>3. \E state \in SlotStates, a \in Answers \cup {NoAnswer} :
        /\ LeaveSlot(s, left, state, a)
        /\ left # {} => st[s] = "pending" /\ state = "resolved" /\ a # NoAnswer
  <2>1. outcome \in Answers /\ st[s] \in SlotStates /\ ans[s] \in Answers \cup {NoAnswer}
    BY <1>1, <1>2 DEF IInv, TypeOK, ServiceTypeOK, PoolTypeOK
  <2>2. CASE st[s] = "pending"
    <3>1. LeaveSlot(s, left, "resolved", outcome)
      BY <1>2, <2>2 DEF ResolvePromise, Resolve
    <3> QED
      BY <3>1, <2>1, <2>2, <1>1 DEF SlotStates
  <2>3. CASE st[s] # "pending"
    <3>1. LeaveSlot(s, left, st[s], ans[s])
      BY <1>2, <2>3 DEF ResolvePromise, Resolve
    <3>2. left = {}
      BY <1>2, <2>1, <2>3 DEF IInv, PoolSafety, StateFollowsHolders, SlotStates
    <3> QED
      BY <3>1, <3>2, <2>1
  <2> QED
    BY <2>2, <2>3
<1>4. PICK state \in SlotStates, a \in Answers \cup {NoAnswer} :
        /\ LeaveSlot(s, left, state, a)
        /\ left # {} => st[s] = "pending" /\ state = "resolved" /\ a # NoAnswer
  BY <1>3
<1>5. /\ PoolTypeOK /\ held[s] \in SUBSET Sides /\ left \in SUBSET Sides
      /\ left \in {{}, {"future"}}
  BY <1>2 DEF IInv, TypeOK, PoolTypeOK, Sides
<1>6. /\ PoolTypeOK'
      /\ \A t \in Slots : t # s => /\ st'[t] = st[t] /\ gen'[t] = gen[t]
                                   /\ held'[t] = held[t] /\ ans'[t] = ans[t]
      /\ held'[s] = left
      /\ left = {} => st'[s] = "free" /\ ans'[s] = NoAnswer
      /\ left # {} => st'[s] = state /\ ans'[s] = a /\ gen'[s] = gen[s]
  BY <1>2, <1>4, <1>5, LeaveSlotEffect
<1>7. TypeOK'
  <2>1. SharedTypeOK' /\ ClientTypeOK'
    BY <1>1 DEF IInv, TypeOK, SharedTypeOK, ClientTypeOK, ServiceTypeOK, ResolvePromise,
                clientVars, Points
  <2>2. ServiceTypeOK'
    BY <1>1 DEF IInv, TypeOK, ServiceTypeOK, ResolvePromise, SvcPoints
  <2> QED
    BY <1>6, <2>1, <2>2 DEF TypeOK
<1>8. PromisesExclusive'
  <2> USE DEF IsCurrent, Unsent, PromiseOf, Instr, clientVars
  <2>1. PromisesExclusive
    BY DEF IInv, PoolSafety
  <2>2. ASSUME NEW i \in DOMAIN queue
        PROVE  /\ IsCurrent(queue[i].promise)' /\ "promise" \in held'[queue[i].promise.slot]
               /\ queue[i].promise.slot # s
    BY <1>1, <1>6, <2>1, QueueType DEF PromisesExclusive
  <2>3. ASSUME NEW c \in Clients, Unsent(c)
        PROVE  /\ PromiseOf(c) # NoFuture /\ "promise" \in held'[PromiseOf(c).slot]
               /\ gen'[PromiseOf(c).slot] = PromiseOf(c).gen
    <3> HIDE DEF Unsent, PromiseOf
    <3>1. /\ PromiseOf(c) # NoFuture /\ PromiseOf(c).slot # s
          /\ gen[PromiseOf(c).slot] = PromiseOf(c).gen /\ "promise" \in held[PromiseOf(c).slot]
      BY <1>1, <2>1, <2>3 DEF PromisesExclusive
    <3>2. PromiseOf(c).slot \in Slots
      BY <3>1, <2>3, UnsentType
    <3> QED
      BY <1>6, <3>1, <3>2
  <2>4. \A c \in Clients : Unsent(c)' = Unsent(c) /\ PromiseOf(c)' = PromiseOf(c)
    BY <1>1
  <2> HIDE DEF Unsent, PromiseOf
  <2> QED
    BY <1>1, <2>1, <2>2, <2>3, <2>4 DEF PromisesExclusive
<1>9. FuturesExclusive'
  <2>1. FuturesExclusive
    BY DEF IInv, PoolSafety
  <2>2. ASSUME NEW c \in Clients, NEW h \in Futures, fut[c][h] # NoFuture
        PROVE  IsCurrent(fut[c][h])' /\ "future" \in held'[fut[c][h].slot]
    <3>1. fut[c][h].slot \in Slots /\ IsCurrent(fut[c][h]) /\ "future" \in held[fut[c][h].slot]
      BY <2>1, <2>2, FutureType DEF FuturesExclusive
    <3> QED
      BY <1>1, <1>6, <3>1 DEF IsCurrent, clientVars
  <2> QED
    BY <1>1, <2>1, <2>2 DEF FuturesExclusive, clientVars, IsCurrent
<1>10. NoSlotLost'
  <2>1. NoSlotLost
    BY DEF IInv, PoolSafety
  <2>2. ASSUME NEW t \in Slots, "promise" \in held'[t]
        PROVE  \/ \E i \in DOMAIN queue : queue[i].promise.slot = t
               \/ \E c \in Clients : Unsent(c) /\ PromiseOf(c).slot = t
    <3>1. t # s /\ "promise" \in held[t]
      BY <1>6, <2>2
    <3> QED
      BY <2>1, <3>1 DEF NoSlotLost
  <2>3. ASSUME NEW t \in Slots, "future" \in held'[t]
        PROVE  \E c \in Clients, h \in Futures : fut[c][h] # NoFuture /\ fut[c][h].slot = t
    BY <1>6, <2>1, <2>3 DEF NoSlotLost
  <2> QED
    BY <1>1, <2>2, <2>3 DEF NoSlotLost, Unsent, PromiseOf, Instr, clientVars
<1>11. StateFollowsHolders'
  <2>1. ASSUME NEW t \in Slots, t # s
        PROVE  /\ st'[t] = st[t] /\ held'[t] = held[t] /\ ans'[t] = ans[t]
    BY <1>6, <2>1
  <2>2. /\ st'[s] = "free" <=> held'[s] = {}
        /\ st'[s] = "pending" <=> held'[s] = Sides
        /\ st'[s] = "resolved" <=> held'[s] = {"future"}
        /\ st'[s] = "timedOut" <=> held'[s] = {"promise"}
        /\ st'[s] = "resolved" <=> ans'[s] # NoAnswer
    BY <1>4, <1>5, <1>6 DEF Sides
  <2> QED
    BY <2>1, <2>2 DEF IInv, PoolSafety, StateFollowsHolders
<1>12. FuturesFollowScript' /\ ServicerReady'
  BY <1>1 DEF IInv, FuturesFollowScript, ServicerReady, ResolvePromise, Instr, clientVars
<1> QED
  BY <1>7, <1>8, <1>9, <1>10, <1>11, <1>12 DEF IInv, PoolSafety

-----------------------------------------------------------------------------
(* How the steps of a requester change its own variables.                  *)
LEMMA PcMoves ==
  ASSUME IInv, NEW c \in Clients, NEW n \in Points(c), pc' = [pc EXCEPT ![c] = n]
  PROVE  /\ Instr(c)' = Script[c][n]
         /\ \A d \in Clients : d # c => Instr(d)' = Instr(d)
         /\ pc' \in [Clients -> Nat] /\ \A d \in Clients : pc'[d] \in Points(d)
<1>1. pc \in [Clients -> Nat] /\ n \in Nat /\ \A d \in Clients : pc[d] \in Points(d)
  BY ScriptFacts DEF IInv, TypeOK, ClientTypeOK
<1>2. pc'[c] = n /\ \A d \in Clients : d # c => pc'[d] = pc[d]
  BY <1>1
<1> QED
  BY <1>1, <1>2 DEF Instr

LEMMA GotoType ==
  ASSUME IInv, NEW c \in Clients, NEW n, NEW pass \in BOOLEAN, Goto(c, n, pass)
  PROVE  pc' = [pc EXCEPT ![c] = n] /\ good' \in [Clients -> BOOLEAN]
BY DEF IInv, TypeOK, ClientTypeOK, Goto

LEMMA FutureSet ==
  ASSUME IInv, NEW c \in Clients, NEW h \in Futures, NEW f \in Handles \cup {NoFuture},
         SetFuture(c, h, f)
  PROVE  /\ fut' \in [Clients -> [Futures -> Handles \cup {NoFuture}]]
         /\ fut'[c][h] = f
         /\ \A d \in Clients, k \in Futures : <<d, k>> # <<c, h>> => fut'[d][k] = fut[d][k]
<1>1. fut \in [Clients -> [Futures -> Handles \cup {NoFuture}]]
  BY DEF IInv, TypeOK, ClientTypeOK
<1>2. /\ fut'[c] = [fut[c] EXCEPT ![h] = f]
      /\ \A d \in Clients : d # c => fut'[d] = fut[d]
  BY <1>1 DEF SetFuture
<1> QED
  BY <1>1, <1>2 DEF SetFuture

\* What belongs to T_S stays as it is.
LEMMA ServicerFrame ==
  ASSUME IInv, UNCHANGED svcVars
  PROVE  ServiceTypeOK' /\ ServicerReady'
BY DEF IInv, TypeOK, ServiceTypeOK, ServicerReady, svcVars

(* A requester goes from one instruction to another, neither of them a     *)
(* send, without touching a future.                                        *)
LEMMA MoveStep ==
  ASSUME IInv, NEW c \in Clients, NEW n \in Points(c), pc' = [pc EXCEPT ![c] = n],
         good' \in [Clients -> BOOLEAN], UNCHANGED <<poolVars, sharedVars, svcVars, fut>>,
         ~Unsent(c), Script[c][n].op # "send", Script[c][n].live = Instr(c).live
  PROVE  IInv'
<1>1. /\ Instr(c)' = Script[c][n]
      /\ \A d \in Clients : d # c => Instr(d)' = Instr(d)
      /\ pc' \in [Clients -> Nat] /\ \A d \in Clients : pc'[d] \in Points(d)
  BY PcMoves
<1>2. TypeOK'
  BY <1>1, ServicerFrame
  DEF IInv, TypeOK, PoolTypeOK, SharedTypeOK, ClientTypeOK, poolVars, sharedVars, Points
<1>3. ServicerReady'
  BY ServicerFrame
<1>4. /\ \A d \in Clients : Unsent(d)' => Unsent(d) /\ PromiseOf(d)' = PromiseOf(d)
      /\ \A d \in Clients : Unsent(d) => Unsent(d)' /\ PromiseOf(d)' = PromiseOf(d)
  BY <1>1 DEF Unsent, PromiseOf
<1>5. PromisesExclusive' /\ NoSlotLost'
  BY <1>4 DEF IInv, PoolSafety, PromisesExclusive, NoSlotLost, IsCurrent, poolVars,
              sharedVars, svcVars
<1>6. FuturesExclusive' /\ StateFollowsHolders'
  BY DEF IInv, PoolSafety, FuturesExclusive, StateFollowsHolders, IsCurrent, poolVars
<1>7. FuturesFollowScript'
  BY <1>1 DEF IInv, FuturesFollowScript
<1> QED
  BY <1>2, <1>3, <1>5, <1>6, <1>7 DEF IInv, PoolSafety

\* The instructions that only wait or loop.
LEMMA WaitingStep ==
  ASSUME IInv, NEW c \in Clients, UNCHANGED svcVars,
         WaitForMedia(c) \/ IterationTop(c) \/ NextIteration(c)
  PROVE  IInv'
<1>1. /\ Disciplined(c, pc[c]) /\ Instr(c) \in Instructions
      /\ Instr(c).op \in {"media", "top", "sleep"}
  BY ScriptFacts DEF WaitForMedia, IterationTop, NextIteration, Sleep
<1>2. \A n \in {Instr(c).ok, Instr(c).fail} :
        n \in Points(c) /\ Script[c][n].op # "send" /\ Script[c][n].live = Instr(c).live
  BY <1>1 DEF Disciplined, Instr
<1>3. ~Unsent(c) /\ UNCHANGED <<poolVars, sharedVars, fut>>
  BY <1>1 DEF Unsent, WaitForMedia, IterationTop, NextIteration, Sleep
<1>4. CASE WaitForMedia(c)
  BY <1>2, <1>3, <1>4, GotoType, MoveStep DEF WaitForMedia
<1>5. CASE IterationTop(c)
  <2>1. PICK n \in {Instr(c).ok, Instr(c).fail} : Goto(c, n, TRUE)
    BY <1>5 DEF IterationTop
  <2> QED
    BY <1>2, <1>3, <2>1, GotoType, MoveStep
<1>6. CASE NextIteration(c)
  <2>1. pc' = [pc EXCEPT ![c] = Instr(c).ok] /\ good' \in [Clients -> BOOLEAN]
    BY <1>6 DEF NextIteration, Sleep, IInv, TypeOK, ClientTypeOK
  <2> QED
    BY <1>2, <1>3, <2>1, MoveStep
<1> QED
  BY <1>4, <1>5, <1>6

\* A stop request is seen later, at the head of a loop.
LEMMA RequestStopStep ==
  ASSUME IInv, NEW t \in Stoppable, RequestStop(t)
  PROVE  IInv'
<1>1. UNCHANGED <<poolVars, queue, published, svcVars, clientVars>>
      /\ stopRequested' = stopRequested \cup {t}
  BY DEF RequestStop
<1>2. (PoolSafety /\ FuturesFollowScript)' /\ PoolTypeOK' /\ ClientTypeOK'
  BY <1>1, QuietStep DEF svcVars
<1>3. SharedTypeOK'
  BY <1>1, DemoAssumption DEF IInv, TypeOK, SharedTypeOK
<1> QED
  BY <1>1, <1>2, <1>3, ServicerFrame DEF IInv, TypeOK

(* cfuture_create: the new pair is on a slot nobody holds a handle of.     *)
LEMMA CreatePairStep ==
  ASSUME IInv, NEW c \in Clients, CreatePair(c), UNCHANGED svcVars
  PROVE  IInv'
<1> DEFINE h == Instr(c).h
<1>1. /\ h \notin Instr(c).live /\ h \in Futures /\ ~Unsent(c)
      /\ Instr(c).ok \in Points(c) /\ Instr(c).fail \in Points(c)
      /\ Script[c][Instr(c).ok].live = Instr(c).live \cup {h}
      /\ Script[c][Instr(c).ok].op = "send" /\ Script[c][Instr(c).ok].h = h
      /\ Script[c][Instr(c).fail].live = Instr(c).live /\ Script[c][Instr(c).fail].op # "send"
  BY ScriptFacts DEF CreatePair, Disciplined, Instr, Unsent
<1>2. CASE FreeSlots = {} /\ Goto(c, Instr(c).fail, FALSE) /\ UNCHANGED <<poolVars, fut>>
  BY <1>1, <1>2, GotoType, MoveStep DEF CreatePair
<1>3. ASSUME NEW s \in Slots, FirstFree(s), Claim(s), SetFuture(c, h, HandleOn(s)),
             Goto(c, Instr(c).ok, TRUE), UNCHANGED sharedVars
      PROVE  IInv'
  <2> DEFINE f == HandleOn(s)
  <2>1. st[s] = "free" /\ held[s] = {} /\ PoolTypeOK
    BY <1>3 DEF FirstFree, FreeSlots, IInv, TypeOK, PoolSafety, StateFollowsHolders
  <2>2. /\ PoolTypeOK'
        /\ \A t \in Slots : t # s => st'[t] = st[t] /\ held'[t] = held[t]
        /\ held'[s] = Sides /\ st'[s] = "pending" /\ gen' = gen /\ ans' = ans
    BY <1>3, <2>1, ClaimEffect
  <2>3. f \in Handles /\ f.slot = s /\ f.gen = gen[s] /\ f # NoFuture
    BY <2>1, ClientAssumption DEF HandleOn, Handles, PoolTypeOK
  <2>4. /\ fut' \in [Clients -> [Futures -> Handles \cup {NoFuture}]]
        /\ fut'[c][h] = f
        /\ \A d \in Clients, k \in Futures : <<d, k>> # <<c, h>> => fut'[d][k] = fut[d][k]
    BY <1>1, <1>3, <2>3, FutureSet
  <2>5. /\ Instr(c)' = Script[c][Instr(c).ok]
        /\ \A d \in Clients : d # c => Instr(d)' = Instr(d)
        /\ pc' \in [Clients -> Nat] /\ \A d \in Clients : pc'[d] \in Points(d)
        /\ good' \in [Clients -> BOOLEAN]
    BY <1>1, <1>3, GotoType, PcMoves
  <2>6. UNCHANGED <<queue, published, stopRequested, request>>
    BY <1>3 DEF sharedVars, svcVars
  <2>7. TypeOK' /\ ServicerReady'
    BY <2>2, <2>4, <2>5, <2>6, ServicerFrame
    DEF IInv, TypeOK, SharedTypeOK, ClientTypeOK, Points
  <2>8. fut[c][h] = NoFuture
    BY <1>1 DEF IInv, FuturesFollowScript
  <2>9. /\ \A d \in Clients : d # c => Unsent(d)' = Unsent(d) /\ PromiseOf(d)' = PromiseOf(d)
        /\ Unsent(c)' /\ PromiseOf(c)' = f
    BY <1>1, <2>4, <2>5, ScriptFacts DEF Unsent, PromiseOf
  <2>10. PromisesExclusive'
    <3>1. PromisesExclusive
      BY DEF IInv, PoolSafety
    <3>2. ASSUME NEW i \in DOMAIN queue
          PROVE  /\ queue[i].promise.slot # s /\ IsCurrent(queue[i].promise)'
                 /\ "promise" \in held'[queue[i].promise.slot]
      BY <2>1, <2>2, <2>6, <3>1, QueueType DEF PromisesExclusive, IsCurrent
    <3>3. request # NoRequest => /\ request.promise.slot # s /\ IsCurrent(request.promise)'
                                 /\ "promise" \in held'[request.promise.slot]
      BY <2>1, <2>2, <2>6, <3>1, RequestType DEF PromisesExclusive, IsCurrent, Handles
    <3>4. ASSUME NEW d \in Clients, d # c, Unsent(d)
          PROVE  /\ PromiseOf(d) # NoFuture /\ gen'[PromiseOf(d).slot] = PromiseOf(d).gen
                 /\ "promise" \in held'[PromiseOf(d).slot]
      BY <2>1, <2>2, <3>1, <3>4, UnsentType DEF PromisesExclusive, IsCurrent
    <3>5. \A d \in Clients : Unsent(d)' =>
            /\ PromiseOf(d)' # NoFuture /\ IsCurrent(PromiseOf(d))'
            /\ "promise" \in held'[PromiseOf(d)'.slot]
      BY <2>2, <2>3, <2>9, <3>4 DEF IsCurrent, Sides
    <3>6. \A d \in Clients : Unsent(d)' =>
            /\ \A i \in DOMAIN queue : PromiseOf(d)'.slot # queue[i].promise.slot
            /\ request # NoRequest => PromiseOf(d)'.slot # request.promise.slot
      BY <2>3, <2>9, <3>1, <3>2, <3>3 DEF PromisesExclusive
    <3> QED
      BY <2>6, <3>1, <3>2, <3>3, <3>5, <3>6 DEF PromisesExclusive
  <2>11. FuturesExclusive'
    <3>1. FuturesExclusive
      BY DEF IInv, PoolSafety
    <3>2. ASSUME NEW d \in Clients, NEW k \in Futures, <<d, k>> # <<c, h>>, fut[d][k] # NoFuture
          PROVE  /\ fut[d][k].slot # s /\ IsCurrent(fut[d][k])
                 /\ "future" \in held'[fut[d][k].slot]
      BY <2>1, <2>2, <3>1, <3>2, FutureType DEF FuturesExclusive
    <3> QED
      BY <2>2, <2>3, <2>4, <3>1, <3>2 DEF FuturesExclusive, IsCurrent, Sides
  <2>12. NoSlotLost'
    <3>1. NoSlotLost
      BY DEF IInv, PoolSafety
    <3>2. ASSUME NEW t \in Slots, "promise" \in held'[t]
          PROVE  \/ \E i \in DOMAIN queue : queue[i].promise.slot = t
                 \/ request # NoRequest /\ request.promise.slot = t
                 \/ \E d \in Clients : Unsent(d)' /\ PromiseOf(d)'.slot = t
      BY <1>1, <2>2, <2>3, <2>9, <3>1, <3>2 DEF NoSlotLost
    <3>3. ASSUME NEW t \in Slots, "future" \in held'[t]
          PROVE  \E d \in Clients, k \in Futures : fut'[d][k] # NoFuture /\ fut'[d][k].slot = t
      <4>1. CASE t = s
        BY <1>1, <2>3, <2>4, <4>1
      <4>2. CASE t # s
        <5>1. PICK d \in Clients, k \in Futures : fut[d][k] # NoFuture /\ fut[d][k].slot = t
          BY <2>2, <3>1, <3>3, <4>2 DEF NoSlotLost
        <5> QED
          BY <2>4, <2>8, <5>1
      <4> QED
        BY <4>1, <4>2
    <3> QED
      BY <2>6, <3>2, <3>3 DEF NoSlotLost
  <2>13. StateFollowsHolders'
    BY <2>1, <2>2 DEF IInv, PoolSafety, StateFollowsHolders, Sides
  <2>14. FuturesFollowScript'
    <3>1. {k \in Futures : fut'[c][k] # NoFuture} = Instr(c).live \cup {h}
      BY <1>1, <2>3, <2>4 DEF IInv, FuturesFollowScript
    <3>2. \A d \in Clients : d # c =>
            {k \in Futures : fut'[d][k] # NoFuture} = {k \in Futures : fut[d][k] # NoFuture}
      BY <2>4
    <3> QED
      BY <1>1, <2>5, <3>1, <3>2 DEF IInv, FuturesFollowScript
  <2> QED
    BY <2>7, <2>10, <2>11, <2>12, <2>13, <2>14 DEF IInv, PoolSafety
<1> QED
  BY <1>2, <1>3 DEF CreatePair

-----------------------------------------------------------------------------
(* osal_queue_send: the promise goes from the requester into the queue.    *)
LEMMA SendStep ==
  ASSUME IInv, NEW c \in Clients, Send(c), UNCHANGED svcVars
  PROVE  IInv'
<1> DEFINE r == RequestOf(c)
           last == Len(queue) + 1
<1>1. /\ Unsent(c) /\ r.promise = PromiseOf(c) /\ PromiseOf(c) # NoFuture
      /\ Instr(c).ok \in Points(c) /\ Script[c][Instr(c).ok].op # "send"
      /\ Script[c][Instr(c).ok].live = Instr(c).live
  BY ScriptFacts
  DEF Send, Disciplined, Instr, Unsent, RequestOf, PromiseOf, IInv, PoolSafety, PromisesExclusive
<1>2. r \in Requests
  BY <1>1, UnsentType, ScriptFacts DEF RequestOf, Requests, Instructions
<1>3. /\ queue \in Seq(Requests) /\ Len(queue) <= QueueDepth /\ Len(queue) # QueueDepth
      /\ queue' = Append(queue, r) /\ Len(queue) \in Nat
      /\ UNCHANGED <<poolVars, published, stopRequested, fut, request>>
  BY DEF IInv, TypeOK, SharedTypeOK, Send, QueueSend, Full, svcVars
<1>4. /\ queue' \in Seq(Requests) /\ Len(queue') = Len(queue) + 1
      /\ last \in DOMAIN queue' /\ last \notin DOMAIN queue
      /\ queue'[last] = r
      /\ \A i \in DOMAIN queue : i \in DOMAIN queue' /\ queue'[i] = queue[i]
      /\ \A i \in DOMAIN queue' : i = last \/ i \in DOMAIN queue
  BY <1>2, <1>3, AppendItems
<1>5. /\ Instr(c)' = Script[c][Instr(c).ok]
      /\ \A d \in Clients : d # c => Instr(d)' = Instr(d)
      /\ pc' \in [Clients -> Nat] /\ \A d \in Clients : pc'[d] \in Points(d)
      /\ good' \in [Clients -> BOOLEAN]
  BY <1>1, GotoType, PcMoves DEF Send
<1>6. /\ ~Unsent(c)'
      /\ \A d \in Clients : d # c => Unsent(d)' = Unsent(d) /\ PromiseOf(d)' = PromiseOf(d)
  BY <1>1, <1>3, <1>5 DEF Unsent, PromiseOf
<1>7. TypeOK' /\ ServicerReady'
  <2>1. SharedTypeOK'
    BY <1>3, <1>4, SharedAssumption DEF IInv, TypeOK, SharedTypeOK
  <2> QED
    BY <2>1, <1>3, <1>5, ServicerFrame
    DEF IInv, TypeOK, PoolTypeOK, ClientTypeOK, Points, poolVars
<1>8. PromisesExclusive'
  <2>1. PromisesExclusive
    BY DEF IInv, PoolSafety
  <2>2. \A i \in DOMAIN queue' :
          /\ IsCurrent(queue'[i].promise) /\ "promise" \in held[queue'[i].promise.slot]
          /\ request # NoRequest => request.promise.slot # queue'[i].promise.slot
    BY <1>1, <1>4, <2>1 DEF PromisesExclusive
  <2>3. \A i, j \in DOMAIN queue' :
          queue'[i].promise.slot = queue'[j].promise.slot => i = j
    BY <1>1, <1>4, <2>1 DEF PromisesExclusive
  <2>4. ASSUME NEW d \in Clients, Unsent(d)'
        PROVE  /\ d # c /\ Unsent(d) /\ PromiseOf(d)' = PromiseOf(d)
               /\ \A i \in DOMAIN queue' : PromiseOf(d).slot # queue'[i].promise.slot
    <3>1. d # c /\ Unsent(d) /\ PromiseOf(d)' = PromiseOf(d)
      BY <1>6, <2>4
    <3>2. fut[d][Instr(d).h].slot # fut[c][Instr(c).h].slot
      <4>1. Instr(d).h \in Futures /\ Instr(c).h \in Futures
        BY ScriptFacts
      <4>2. fut[d][Instr(d).h] # NoFuture /\ fut[c][Instr(c).h] # NoFuture
        BY <1>1, <2>1, <3>1 DEF PromisesExclusive, PromiseOf
      <4> QED
        BY <3>1, <4>1, <4>2 DEF IInv, PoolSafety, FuturesExclusive
    <3> QED
      BY <1>1, <1>4, <2>1, <3>1, <3>2 DEF PromisesExclusive, PromiseOf
  <2> QED
    BY <1>3, <2>1, <2>2, <2>3, <2>4 DEF PromisesExclusive, IsCurrent, poolVars
<1>9. FuturesExclusive' /\ StateFollowsHolders'
  BY <1>3 DEF IInv, PoolSafety, FuturesExclusive, StateFollowsHolders, IsCurrent, poolVars
<1>10. NoSlotLost'
  <2>1. NoSlotLost
    BY DEF IInv, PoolSafety
  <2>2. ASSUME NEW s \in Slots, "promise" \in held[s]
        PROVE  \/ \E i \in DOMAIN queue' : queue'[i].promise.slot = s
               \/ request # NoRequest /\ request.promise.slot = s
               \/ \E d \in Clients : Unsent(d)' /\ PromiseOf(d)'.slot = s
    BY <1>1, <1>4, <1>6, <2>1, <2>2 DEF NoSlotLost
  <2> QED
    BY <1>3, <2>1, <2>2 DEF NoSlotLost, poolVars
<1>11. FuturesFollowScript'
  BY <1>1, <1>3, <1>5 DEF IInv, FuturesFollowScript
<1> QED
  BY <1>7, <1>8, <1>9, <1>10, <1>11 DEF IInv, PoolSafety

(* cfuture_abandon after a send that timed out: both sides let go at once. *)
LEMMA SendTimesOutStep ==
  ASSUME IInv, NEW c \in Clients, SendTimesOut(c), UNCHANGED svcVars
  PROVE  IInv'
<1> DEFINE h == Instr(c).h
           s == fut[c][h].slot
<1>1. /\ Unsent(c) /\ fut[c][h] # NoFuture /\ fut[c][h] = PromiseOf(c) /\ h \in Futures
      /\ Instr(c).fail \in Points(c) /\ Script[c][Instr(c).fail].op # "send"
      /\ Script[c][Instr(c).fail].live = Instr(c).live \ {h}
  BY ScriptFacts DEF SendTimesOut, Disciplined, Instr, Unsent, PromiseOf, IInv, PoolSafety,
                     PromisesExclusive
<1>2. s \in Slots /\ PoolTypeOK
  BY <1>1, FutureType DEF IInv, TypeOK
<1>3. /\ PoolTypeOK'
      /\ \A t \in Slots : t # s => /\ st'[t] = st[t] /\ gen'[t] = gen[t]
                                   /\ held'[t] = held[t] /\ ans'[t] = ans[t]
      /\ held'[s] = {} /\ st'[s] = "free" /\ ans'[s] = NoAnswer
  BY <1>2, LeaveSlotEffect DEF SendTimesOut, Abandon, SlotStates
<1>4. /\ fut' \in [Clients -> [Futures -> Handles \cup {NoFuture}]]
      /\ fut'[c][h] = NoFuture
      /\ \A d \in Clients, k \in Futures : <<d, k>> # <<c, h>> => fut'[d][k] = fut[d][k]
  BY <1>1, FutureSet DEF SendTimesOut
<1>5. /\ Instr(c)' = Script[c][Instr(c).fail]
      /\ \A d \in Clients : d # c => Instr(d)' = Instr(d)
      /\ pc' \in [Clients -> Nat] /\ \A d \in Clients : pc'[d] \in Points(d)
      /\ good' \in [Clients -> BOOLEAN]
  BY <1>1, GotoType, PcMoves DEF SendTimesOut
<1>6. UNCHANGED <<queue, published, stopRequested, request>>
  BY DEF SendTimesOut, sharedVars, svcVars
<1>7. TypeOK' /\ ServicerReady'
  BY <1>3, <1>4, <1>5, <1>6, ServicerFrame DEF IInv, TypeOK, SharedTypeOK, ClientTypeOK, Points
<1>8. /\ ~Unsent(c)'
      /\ \A d \in Clients : d # c => Unsent(d)' = Unsent(d) /\ PromiseOf(d)' = PromiseOf(d)
  BY <1>1, <1>4, <1>5, ScriptFacts DEF Unsent, PromiseOf
<1>9. ASSUME NEW d \in Clients, NEW k \in Futures, <<d, k>> # <<c, h>>, fut[d][k] # NoFuture
      PROVE  /\ fut[d][k].slot # s /\ fut[d][k].slot \in Slots
             /\ IsCurrent(fut[d][k]) /\ "future" \in held[fut[d][k].slot]
  BY <1>1, <1>9, FutureType DEF IInv, PoolSafety, FuturesExclusive
<1>10. PromisesExclusive'
  <2>1. PromisesExclusive
    BY DEF IInv, PoolSafety
  <2>2. ASSUME NEW i \in DOMAIN queue
        PROVE  /\ queue[i].promise.slot # s /\ IsCurrent(queue[i].promise)'
               /\ "promise" \in held'[queue[i].promise.slot]
    BY <1>1, <1>3, <1>6, <2>1, QueueType DEF PromisesExclusive, IsCurrent
  <2>3. request # NoRequest => /\ request.promise.slot # s /\ IsCurrent(request.promise)'
                               /\ "promise" \in held'[request.promise.slot]
    BY <1>1, <1>3, <1>6, <2>1, RequestType DEF PromisesExclusive, IsCurrent, Handles
  <2>4. ASSUME NEW d \in Clients, d # c, Unsent(d)
        PROVE  /\ PromiseOf(d) # NoFuture /\ gen'[PromiseOf(d).slot] = PromiseOf(d).gen
               /\ "promise" \in held'[PromiseOf(d).slot]
    <3>1. PromiseOf(d) # NoFuture /\ PromiseOf(d).slot # s
      BY <2>1, <2>4, <1>9, ScriptFacts DEF PromisesExclusive, PromiseOf
    <3> QED
      BY <1>3, <2>1, <2>4, <3>1, UnsentType DEF PromisesExclusive, IsCurrent
  <2> QED
    BY <1>6, <1>8, <2>1, <2>2, <2>3, <2>4 DEF PromisesExclusive, IsCurrent
<1>11. FuturesExclusive'
  <2>1. ASSUME NEW d \in Clients, NEW k \in Futures, fut'[d][k] # NoFuture
        PROVE  /\ fut'[d][k] = fut[d][k] /\ gen'[fut'[d][k].slot] = fut'[d][k].gen
               /\ "future" \in held'[fut'[d][k].slot]
    <3>1. <<d, k>> # <<c, h>> /\ fut'[d][k] = fut[d][k]
      BY <1>4, <2>1
    <3> QED
      BY <1>3, <1>9, <2>1, <3>1 DEF IsCurrent
  <2> QED
    BY <2>1 DEF IInv, PoolSafety, FuturesExclusive, IsCurrent
<1>12. NoSlotLost'
  <2>1. NoSlotLost
    BY DEF IInv, PoolSafety
  <2>2. ASSUME NEW t \in Slots, "promise" \in held'[t]
        PROVE  \/ \E i \in DOMAIN queue : queue[i].promise.slot = t
               \/ request # NoRequest /\ request.promise.slot = t
               \/ \E d \in Clients : Unsent(d)' /\ PromiseOf(d)'.slot = t
    <3>1. t # s /\ "promise" \in held[t]
      BY <1>3, <2>2
    <3> QED
      BY <1>1, <1>8, <2>1, <3>1 DEF NoSlotLost
  <2>3. ASSUME NEW t \in Slots, "future" \in held'[t]
        PROVE  \E d \in Clients, k \in Futures : fut'[d][k] # NoFuture /\ fut'[d][k].slot = t
    <3>1. t # s /\ "future" \in held[t]
      BY <1>3, <2>3
    <3>2. PICK d \in Clients, k \in Futures : fut[d][k] # NoFuture /\ fut[d][k].slot = t
      BY <2>1, <3>1 DEF NoSlotLost
    <3> QED
      BY <1>4, <3>1, <3>2
  <2> QED
    BY <1>6, <2>2, <2>3 DEF NoSlotLost
<1>13. StateFollowsHolders'
  BY <1>3 DEF IInv, PoolSafety, StateFollowsHolders, Sides
<1>14. FuturesFollowScript'
  <2>1. {k \in Futures : fut'[c][k] # NoFuture} = Instr(c).live \ {h}
    BY <1>1, <1>4 DEF IInv, FuturesFollowScript
  <2>2. \A d \in Clients : d # c =>
          {k \in Futures : fut'[d][k] # NoFuture} = {k \in Futures : fut[d][k] # NoFuture}
    BY <1>4
  <2> QED
    BY <1>1, <1>5, <2>1, <2>2 DEF IInv, FuturesFollowScript
<1> QED
  BY <1>7, <1>10, <1>11, <1>12, <1>13, <1>14 DEF IInv, PoolSafety

-----------------------------------------------------------------------------
(* cfuture_wait_for: the requester collects its answer or gives up.        *)
LEMMA LetGoStep ==
  ASSUME IInv, NEW c \in Clients, UNCHANGED svcVars, AwaitAnswer(c) \/ AwaitTimesOut(c)
  PROVE  IInv'
<1> DEFINE h == Instr(c).h
           s == fut[c][h].slot
           left == held[s] \ {"future"}
<1>1. /\ ~Unsent(c) /\ fut[c][h] # NoFuture /\ h \in Futures
      /\ \A n \in {Instr(c).ok, Instr(c).fail} :
           /\ n \in Points(c) /\ Script[c][n].op # "send"
           /\ Script[c][n].live = Instr(c).live \ {h}
  BY ScriptFacts DEF AwaitAnswer, AwaitTimesOut, Disciplined, Instr, Unsent, IInv,
                     FuturesFollowScript
<1>2. s \in Slots /\ PoolTypeOK /\ left \in SUBSET Sides
  BY <1>1, FutureType DEF IInv, TypeOK, PoolTypeOK
<1>3. PICK state \in SlotStates, a \in Answers \cup {NoAnswer} :
        /\ LeaveSlot(s, left, state, a)
        /\ \/ left = {}
           \/ left = {"promise"} /\ held[s] = Sides /\ state = "timedOut" /\ a = NoAnswer
  <2>1. CASE AwaitAnswer(c)
    <3>1. held[s] = {"future"} /\ LeaveSlot(s, left, st[s], ans[s])
      BY <1>2, <2>1 DEF AwaitAnswer, TakeAnswer, IInv, PoolSafety, StateFollowsHolders
    <3> QED
      BY <1>2, <3>1 DEF PoolTypeOK
  <2>2. CASE AwaitTimesOut(c)
    <3>1. held[s] = Sides /\ LeaveSlot(s, left, "timedOut", NoAnswer)
      BY <1>2, <2>2 DEF AwaitTimesOut, GiveUp, IInv, PoolSafety, StateFollowsHolders
    <3> QED
      BY <3>1 DEF SlotStates, Sides
  <2> QED
    BY <2>1, <2>2
<1>4. /\ PoolTypeOK'
      /\ \A t \in Slots : t # s => /\ st'[t] = st[t] /\ gen'[t] = gen[t]
                                   /\ held'[t] = held[t] /\ ans'[t] = ans[t]
      /\ held'[s] = left
      /\ left = {} => st'[s] = "free" /\ ans'[s] = NoAnswer
      /\ left # {} => st'[s] = state /\ ans'[s] = a /\ gen'[s] = gen[s]
  <2>1. LeaveSlot(s, left, state, a)
    BY <1>3
  <2> HIDE DEF left, s
  <2> QED
    BY <1>2, <2>1, LeaveSlotEffect
<1>5. /\ fut' \in [Clients -> [Futures -> Handles \cup {NoFuture}]]
      /\ fut'[c][h] = NoFuture
      /\ \A d \in Clients, k \in Futures : <<d, k>> # <<c, h>> => fut'[d][k] = fut[d][k]
  BY <1>1, FutureSet DEF AwaitAnswer, AwaitTimesOut, Conclude
<1>6. PICK n \in {Instr(c).ok, Instr(c).fail} : \E pass \in BOOLEAN : Goto(c, n, pass)
  <2>1. PICK b : Goto(c, IF b \in Instr(c).want THEN Instr(c).ok ELSE Instr(c).fail,
                      b \in Instr(c).want)
    BY DEF AwaitAnswer, AwaitTimesOut, Conclude
  <2>2. CASE b \in Instr(c).want
    BY <2>1, <2>2 DEF Goto
  <2>3. CASE b \notin Instr(c).want
    BY <2>1, <2>3 DEF Goto
  <2> QED
    BY <2>2, <2>3
<1>7. /\ Instr(c)' = Script[c][n]
      /\ \A d \in Clients : d # c => Instr(d)' = Instr(d)
      /\ pc' \in [Clients -> Nat] /\ \A d \in Clients : pc'[d] \in Points(d)
      /\ good' \in [Clients -> BOOLEAN]
  BY <1>1, <1>6, GotoType, PcMoves
<1>8. UNCHANGED <<queue, published, stopRequested, request>>
  BY DEF AwaitAnswer, AwaitTimesOut, sharedVars, svcVars
<1>9. TypeOK' /\ ServicerReady'
  BY <1>4, <1>5, <1>7, <1>8, ServicerFrame DEF IInv, TypeOK, SharedTypeOK, ClientTypeOK, Points
<1>10. /\ ~Unsent(c)'
       /\ \A d \in Clients : d # c => Unsent(d)' = Unsent(d) /\ PromiseOf(d)' = PromiseOf(d)
  BY <1>1, <1>5, <1>7, ScriptFacts DEF Unsent, PromiseOf
<1>11. \A g \in Handles : IsCurrent(g) /\ "promise" \in held[g.slot]
                            => gen'[g.slot] = g.gen /\ "promise" \in held'[g.slot]
  <2> SUFFICES ASSUME NEW g \in Handles, IsCurrent(g), "promise" \in held[g.slot]
               PROVE  gen'[g.slot] = g.gen /\ "promise" \in held'[g.slot]
    OBVIOUS
  <2>1. g.slot \in Slots
    BY DEF Handles
  <2>2. CASE g.slot = s
    BY <1>4, <2>2 DEF IsCurrent
  <2>3. CASE g.slot # s
    BY <1>4, <2>1, <2>3 DEF IsCurrent
  <2> QED
    BY <2>2, <2>3
<1>12. PromisesExclusive'
  <2>1. PromisesExclusive
    BY DEF IInv, PoolSafety
  <2>2. \A i \in DOMAIN queue : /\ gen'[queue[i].promise.slot] = queue[i].promise.gen
                                /\ "promise" \in held'[queue[i].promise.slot]
    BY <1>11, <2>1, QueueType DEF PromisesExclusive
  <2>3. request # NoRequest => /\ gen'[request.promise.slot] = request.promise.gen
                               /\ "promise" \in held'[request.promise.slot]
    BY <1>11, <2>1, RequestType DEF PromisesExclusive
  <2>4. \A d \in Clients : Unsent(d) =>
          /\ PromiseOf(d) # NoFuture /\ gen'[PromiseOf(d).slot] = PromiseOf(d).gen
          /\ "promise" \in held'[PromiseOf(d).slot]
    BY <1>11, <2>1, UnsentType DEF PromisesExclusive
  <2>5. \A d \in Clients : Unsent(d)' => Unsent(d) /\ PromiseOf(d)' = PromiseOf(d)
    BY <1>10
  <2> QED
    BY <1>8, <2>1, <2>2, <2>3, <2>4, <2>5 DEF PromisesExclusive, IsCurrent
<1>13. FuturesExclusive'
  <2>1. ASSUME NEW d \in Clients, NEW k \in Futures, fut'[d][k] # NoFuture
        PROVE  /\ fut'[d][k] = fut[d][k] /\ gen'[fut'[d][k].slot] = fut'[d][k].gen
               /\ "future" \in held'[fut'[d][k].slot]
    <3>1. <<d, k>> # <<c, h>> /\ fut'[d][k] = fut[d][k] /\ fut[d][k] # NoFuture
      BY <1>5, <2>1
    <3>2. /\ fut[d][k].slot # s /\ fut[d][k].slot \in Slots
          /\ IsCurrent(fut[d][k]) /\ "future" \in held[fut[d][k].slot]
      BY <1>1, <3>1, FutureType DEF IInv, PoolSafety, FuturesExclusive
    <3> QED
      BY <1>4, <3>1, <3>2 DEF IsCurrent
  <2> QED
    BY <2>1 DEF IInv, PoolSafety, FuturesExclusive, IsCurrent
<1>14. NoSlotLost'
  <2>1. NoSlotLost
    BY DEF IInv, PoolSafety
  <2>2. ASSUME NEW t \in Slots, "promise" \in held'[t]
        PROVE  \/ \E i \in DOMAIN queue : queue[i].promise.slot = t
               \/ request # NoRequest /\ request.promise.slot = t
               \/ \E d \in Clients : Unsent(d)' /\ PromiseOf(d)'.slot = t
    <3>1. "promise" \in held[t]
      BY <1>4, <2>2
    <3> QED
      BY <1>1, <1>10, <2>1, <3>1 DEF NoSlotLost
  <2>3. ASSUME NEW t \in Slots, "future" \in held'[t]
        PROVE  \E d \in Clients, k \in Futures : fut'[d][k] # NoFuture /\ fut'[d][k].slot = t
    <3>1. t # s /\ "future" \in held[t]
      BY <1>4, <2>3
    <3>2. PICK d \in Clients, k \in Futures : fut[d][k] # NoFuture /\ fut[d][k].slot = t
      BY <2>1, <3>1 DEF NoSlotLost
    <3> QED
      BY <1>5, <3>1, <3>2
  <2> QED
    BY <1>8, <2>2, <2>3 DEF NoSlotLost
<1>15. StateFollowsHolders'
  <2>1. /\ st'[s] = "free" <=> held'[s] = {}
        /\ st'[s] = "pending" <=> held'[s] = Sides
        /\ st'[s] = "resolved" <=> held'[s] = {"future"}
        /\ st'[s] = "timedOut" <=> held'[s] = {"promise"}
        /\ st'[s] = "resolved" <=> ans'[s] # NoAnswer
    BY <1>3, <1>4 DEF Sides
  <2>2. StateFollowsHolders
    BY DEF IInv, PoolSafety
  <2>3. ASSUME NEW t \in Slots, t # s
        PROVE  st'[t] = st[t] /\ held'[t] = held[t] /\ ans'[t] = ans[t]
    BY <1>4, <2>3
  <2> QED
    BY <2>1, <2>2, <2>3 DEF StateFollowsHolders
<1>16. FuturesFollowScript'
  <2>1. {k \in Futures : fut'[c][k] # NoFuture} = Instr(c).live \ {h}
    BY <1>1, <1>5 DEF IInv, FuturesFollowScript
  <2>2. \A d \in Clients : d # c =>
          {k \in Futures : fut'[d][k] # NoFuture} = {k \in Futures : fut[d][k] # NoFuture}
    BY <1>5
  <2> QED
    BY <1>1, <1>7, <2>1, <2>2 DEF IInv, FuturesFollowScript
<1> QED
  BY <1>9, <1>12, <1>13, <1>14, <1>15, <1>16 DEF IInv, PoolSafety

-----------------------------------------------------------------------------
(* The invariant is inductive.                                             *)
LEMMA InitInvariant == Init => IInv
<1> SUFFICES ASSUME Init PROVE IInv
  OBVIOUS
<1> USE DEF Init, PoolInit, SharedInit, ServiceInit, ClientInit
<1>1. PoolTypeOK
  BY PoolAssumption DEF PoolTypeOK, SlotStates, Generations
<1>2. SharedTypeOK
  <2>1. queue \in Seq(Requests) /\ Len(queue) = 0
    BY EmptySeq
  <2>2. Len(queue) <= QueueDepth
    BY <2>1, SharedAssumption
  <2>3. published \in BOOLEAN /\ stopRequested \subseteq Tasks
    OBVIOUS
  <2> QED
    BY <2>1, <2>2, <2>3 DEF SharedTypeOK
<1>3. ServiceTypeOK
  BY ServiceAssumption DEF ServiceTypeOK, SvcPoints, EmptyFile
<1>4. ClientTypeOK
  BY ScriptAssumption DEF ClientTypeOK
<1>5. \A c \in Clients : Instr(c).op = "media" /\ Instr(c).live = {}
  BY ScriptAssumption DEF Instr, Disciplined
<1>6. PoolSafety
  BY <1>5 DEF PoolSafety, PromisesExclusive, FuturesExclusive, NoSlotLost,
              StateFollowsHolders, Unsent, Sides
<1>7. FuturesFollowScript
  BY <1>5 DEF FuturesFollowScript
<1>8. ServicerReady
  BY DEF ServicerReady
<1> QED
  BY <1>1, <1>2, <1>3, <1>4, <1>6, <1>7, <1>8 DEF IInv, TypeOK

LEMMA NextInvariant == IInv /\ [Next]_vars => IInv'
<1> SUFFICES ASSUME IInv, [Next]_vars PROVE IInv'
  OBVIOUS
<1>1. ASSUME QuietServicer, UNCHANGED clientVars PROVE IInv'
  BY <1>1, QuietServicerFrame, QuietServicerStep, QuietStep DEF IInv, TypeOK
<1>2. CASE ServicerStep
  BY <1>1, <1>2, ReceiveStep, ResolvePromiseStep DEF ServicerStep, SlowDelayOver, QuietServicer
<1>3. ASSUME NEW c \in Clients, ClientStep(c) PROVE IInv'
  BY <1>3, WaitingStep, CreatePairStep, SendStep, SendTimesOutStep, LetGoStep DEF ClientStep
<1>4. CASE Media
  BY <1>1, <1>4 DEF Media, QuietServicer
<1>5. ASSUME NEW t \in Stoppable, RequestStop(t) PROVE IInv'
  BY <1>5, RequestStopStep
<1>6. CASE UNCHANGED vars
  <2>1. UNCHANGED <<poolVars, sharedVars, svcVars, clientVars>>
    BY <1>6 DEF vars
  <2>2. (PoolSafety /\ FuturesFollowScript)' /\ PoolTypeOK' /\ ClientTypeOK'
    BY <2>1, QuietStep DEF sharedVars, svcVars
  <2>3. SharedTypeOK'
    BY <2>1 DEF IInv, TypeOK, SharedTypeOK, sharedVars
  <2> QED
    BY <2>1, <2>2, <2>3, ServicerFrame DEF IInv, TypeOK
<1> QED
  BY <1>2, <1>3, <1>4, <1>5, <1>6 DEF Next

LEMMA InvariantHolds == Spec => []IInv
BY InitInvariant, NextInvariant, PTL DEF Spec

-----------------------------------------------------------------------------
\* Every reachable state is well typed: no queue over its depth, no handle
\* outside the pool, no generation outside its counter.
THEOREM TypeCorrect == Spec => []TypeOK
<1>1. IInv => TypeOK
  BY DEF IInv
<1> QED
  BY <1>1, InvariantHolds, PTL

\* No answer reaches a slot that has changed hands, however many requesters
\* time out, abandon and claim again (client_tasks.c, scenario 4).
THEOREM PromisesStayExclusive == Spec => []PromisesExclusive
<1>1. IInv => PromisesExclusive
  BY DEF IInv, PoolSafety
<1> QED
  BY <1>1, InvariantHolds, PTL

\* A requester only ever collects or gives up a pair of its own.
THEOREM FuturesStayExclusive == Spec => []FuturesExclusive
<1>1. IInv => FuturesExclusive
  BY DEF IInv, PoolSafety
<1> QED
  BY <1>1, InvariantHolds, PTL

\* Every side of a pair that counts as held is held by somebody.
THEOREM NoSlotIsLost == Spec => []NoSlotLost
<1>1. IInv => NoSlotLost
  BY DEF IInv, PoolSafety
<1> QED
  BY <1>1, InvariantHolds, PTL

\* T_S touches the block file only with the volume mounted, the file open
\* and a request in its hands.
THEOREM ServicerIsReady == Spec => []ServicerReady
<1>1. IInv => ServicerReady
  BY DEF IInv
<1> QED
  BY <1>1, InvariantHolds, PTL

-----------------------------------------------------------------------------
(* What T_S may find on the media.  Before there is a file system there is *)
(* nothing in the block file, and what is mounted has one.                 *)
VolumeSound ==
  /\ ~formatted => disk = EmptyFile
  /\ mounted \/ at = "remount" => formatted
  /\ at = "format" => ~formatted \/ FalseBlank

LEMMA VolumeInit == Init => VolumeSound
BY DEF Init, ServiceInit, VolumeSound

LEMMA VolumeStep == IInv /\ VolumeSound /\ [Next]_vars => VolumeSound'
<1> SUFFICES ASSUME IInv, VolumeSound, [Next]_vars PROVE VolumeSound'
  OBVIOUS
<1> USE DEF VolumeSound
<1>1. CASE ServicerStep
  <2>1. CASE MountVolume
    BY <2>1 DEF MountVolume, AfterMount
  <2>2. CASE Format
    BY <2>2 DEF Format, AfterMount
  <2>3. CASE Remount
    BY <2>3 DEF Remount, AfterMount
  <2>4. CASE OpenBlockFile
    BY <2>4 DEF OpenBlockFile, AfterMount
  <2>5. CASE Work
    <3>1. formatted
      BY <2>5 DEF Work, IInv, ServicerReady
    <3> QED
      BY <2>5, <3>1 DEF Work
  <2>6. CASE LoopTop \/ Receive \/ ReceiveTimesOut \/ CheckActive \/ SlowDelay \/ Sync
               \/ ResolvePromise
    BY <2>6 DEF LoopTop, Receive, ReceiveTimesOut, CheckActive, SlowDelay, Sync, ResolvePromise
  <2> QED
    BY <1>1, <2>1, <2>2, <2>3, <2>4, <2>5, <2>6 DEF ServicerStep, SlowDelayOver
<1>2. CASE Media
  BY <1>2 DEF Media, Plug, Unplug
<1>3. CASE UNCHANGED svcVars
  BY <1>3 DEF svcVars
<1> QED
  BY <1>1, <1>2, <1>3 DEF Next, ClientStep, RequestStop, vars

\* A format finds nothing to erase, unless the drive is taken for a blank one.
LEMMA FormatKeeps ==
  ASSUME ~FalseBlank, VolumeSound, Format
  PROVE  disk' = disk
BY DEF VolumeSound, Format

(* On a drive whose boot sector is read or not read, and never taken for a *)
(* blank one, no format of mountVolume destroys a block that was written,  *)
(* whenever the drive is pulled and put back.                              *)
THEOREM FormatNeverErases ==
  ASSUME ~FalseBlank
  PROVE  Spec => FormatErasesNothing
<1>1. VolumeSound /\ [Next]_vars => [at = "format" => disk' = disk]_vars
  <2> SUFFICES ASSUME VolumeSound, Next, at = "format"
               PROVE  disk' = disk
    OBVIOUS
  <2>1. CASE ServicerStep
    BY <2>1, FormatKeeps
    DEF ServicerStep, LoopTop, Receive, ReceiveTimesOut, MountVolume, Remount, OpenBlockFile,
        CheckActive, SlowDelayOver, SlowDelay, Work, Sync, ResolvePromise
  <2>2. CASE Media
    BY <2>2 DEF Media, Plug, Unplug
  <2>3. CASE UNCHANGED svcVars
    BY <2>3 DEF svcVars
  <2> QED
    BY <2>1, <2>2, <2>3 DEF Next, ClientStep, RequestStop
<1> QED
  BY <1>1, InvariantHolds, VolumeInit, VolumeStep, PTL DEF Spec, FormatErasesNothing

-----------------------------------------------------------------------------
(* The demo implements BlockStore: what one step of the demo does to the   *)
(* calls and to the commitment is a step of BlockStore, or nothing.        *)

(* What T_S is about to say when it took nothing up: "cancelled" only to   *)
(* a slot that nobody waits for any more, "notReady" and no more.          *)
VerdictInv ==
  at = "resolve" =>
    /\ outcome.code = "cancelled" => st[request.promise.slot] # "pending"
    /\ outcome.code = "notReady" => outcome = Failed("notReady")

Callers == Clients \X Futures
StoreStep == [Store!Next]_(Store!storeVars)

\* What a step does to the calls, seen through the mapping.
SameCalls == \A k \in Callers : AbstractCall(k)' = AbstractCall(k)
OnlyCall(k, c) ==
  /\ AbstractCall(k)' = c
  /\ \A j \in Callers : j # k => AbstractCall(j)' = AbstractCall(j)

AllCalls == [j \in Callers |-> AbstractCall(j)]

\* Changing one call is an EXCEPT on all of them.
LEMMA MapCalls ==
  ASSUME NEW k \in Callers, NEW c, OnlyCall(k, c)
  PROVE  AllCalls' = [AllCalls EXCEPT ![k] = c]
BY DEF AllCalls, OnlyCall, Callers

\* Changing no call leaves all of them as they are.
LEMMA MapSame ==
  ASSUME SameCalls
  PROVE  UNCHANGED [j \in Callers |-> AbstractCall(j)]
BY DEF SameCalls, Callers

\* Nothing that BlockStore knows has changed.
LEMMA MapStutter ==
  ASSUME SameCalls, disk' = disk, AbstractCurrent' = AbstractCurrent
  PROVE  StoreStep
BY MapSame DEF StoreStep, Store!storeVars, Callers

\* A call is made.
LEMMA MapInvoke ==
  ASSUME NEW k \in Callers, NEW p \in Payloads, AbstractCall(k) = NoCall,
         OnlyCall(k, [phase |-> "waiting", load |-> p]),
         disk' = disk, AbstractCurrent' = AbstractCurrent
  PROVE  StoreStep
<1>1. AllCalls[k] = NoCall
  BY DEF AllCalls
<1>2. AllCalls' = [AllCalls EXCEPT ![k] = [phase |-> "waiting", load |-> p]]
  BY MapCalls
<1>3. Store!Invoke(k, p)
  BY <1>1, <1>2 DEF AllCalls, Store!Invoke, Store!Waiting, Callers
<1> QED
  BY <1>3 DEF StoreStep, Store!Next, Callers

\* The store takes a waiting call up.
LEMMA MapCommit ==
  ASSUME NEW k \in Callers, NEW p, AbstractCall(k) = [phase |-> "waiting", load |-> p],
         OnlyCall(k, [phase |-> "committed", load |-> p]),
         disk' = disk, AbstractCurrent = NoCall,
         AbstractCurrent' = [load |-> p, stage |-> "begun"]
  PROVE  StoreStep
<1>1. AbstractCall(k) # NoCall
  BY DEF NoCall
<1>2. AllCalls[k] = AbstractCall(k)
  BY DEF AllCalls
<1>3. AllCalls' = [AllCalls EXCEPT ![k] = [phase |-> "committed", load |-> p]]
  BY MapCalls DEF AllCalls
<1>4. AllCalls[k].load = p /\ AllCalls[k].phase = "waiting" /\ AllCalls[k] # NoCall
  BY <1>1, <1>2
<1>5. AllCalls' = [AllCalls EXCEPT ![k] = Store!Committed(AllCalls[k].load)]
  BY <1>3, <1>4 DEF Store!Committed
<1>6. Store!Commit(k)
  BY <1>4, <1>5 DEF AllCalls, Store!Commit, Store!InPhase, Callers
<1> QED
  BY <1>6 DEF StoreStep, Store!Next, Callers

\* The data of the call that was taken up reach the media.
LEMMA MapStore ==
  ASSUME NEW p, p.cmd = "Write", p.blk \in Blocks,
         SameCalls, AbstractCurrent = [load |-> p, stage |-> "begun"],
         disk' = [disk EXCEPT ![p.blk] = p.val],
         AbstractCurrent' = [load |-> p, stage |-> "stored"]
  PROVE  StoreStep
<1>1. AbstractCurrent # NoCall
  BY DEF NoCall
<1>2. Store!Store
  BY <1>1, MapSame DEF Store!Store, Callers
<1> QED
  BY <1>2 DEF StoreStep, Store!Next

\* The outcome of the work is known.
LEMMA MapDecide ==
  ASSUME NEW p, NEW stage \in {"begun", "stored"}, NEW a,
         SameCalls, disk' = disk, AbstractCurrent = [load |-> p, stage |-> stage],
         a \in Store!Verdicts,
         AbstractCurrent' = [load |-> p, stage |-> "decided", answer |-> a]
  PROVE  StoreStep
<1>1. AbstractCurrent # NoCall
  BY DEF NoCall
<1>2. Store!Decide
  BY <1>1, MapSame DEF Store!Decide, Callers
<1> QED
  BY <1>2 DEF StoreStep, Store!Next

\* The outcome reaches the call that was taken up, or nobody.
LEMMA MapFinish ==
  ASSUME NEW p, NEW a, AbstractCurrent = [load |-> p, stage |-> "decided", answer |-> a],
         AbstractCurrent' = NoCall, disk' = disk,
         \/ \E k \in Callers :
              /\ AbstractCall(k) = [phase |-> "committed", load |-> p]
              /\ OnlyCall(k, [phase |-> "answered", answer |-> a])
         \/ /\ \A k \in Callers : AbstractCall(k).phase # "committed"
            /\ SameCalls
  PROVE  StoreStep
<1>1. AbstractCurrent # NoCall
  BY DEF NoCall
<1>2. ASSUME NEW k \in Callers, AbstractCall(k) = [phase |-> "committed", load |-> p],
             OnlyCall(k, [phase |-> "answered", answer |-> a])
      PROVE  Store!Finish
  <2>1. AbstractCall(k) # NoCall
    BY <1>2 DEF NoCall
  <2>2. AllCalls[k] = AbstractCall(k)
    BY DEF AllCalls
  <2>3. AllCalls' = [AllCalls EXCEPT ![k] = [phase |-> "answered", answer |-> a]]
    BY <1>2, MapCalls
  <2>4. AllCalls' = [AllCalls EXCEPT ![k] = Store!Answered(AbstractCurrent.answer)]
    BY <2>3 DEF Store!Answered
  <2>5. Store!InPhase(k, "committed")
    BY <1>2, <2>1, <2>2 DEF AllCalls, Store!InPhase, Callers
  <2> QED
    BY <1>1, <2>4, <2>5 DEF AllCalls, Store!Finish, Callers
<1>3. ASSUME \A k \in Callers : AbstractCall(k).phase # "committed", SameCalls
      PROVE  Store!Finish
  BY <1>1, <1>3, MapSame DEF Store!Finish, Store!InPhase, Callers
<1> QED
  BY <1>2, <1>3 DEF StoreStep, Store!Next

\* A waiting call is told that the store is not ready.
LEMMA MapRefuse ==
  ASSUME NEW k \in Callers, NEW p, AbstractCall(k) = [phase |-> "waiting", load |-> p],
         OnlyCall(k, [phase |-> "answered", answer |-> Failed("notReady")]),
         disk' = disk, AbstractCurrent' = AbstractCurrent
  PROVE  StoreStep
<1>1. AbstractCall(k) # NoCall
  BY DEF NoCall
<1>2. AllCalls[k] = AbstractCall(k)
  BY DEF AllCalls
<1>3. AllCalls' = [AllCalls EXCEPT ![k] = [phase |-> "answered", answer |-> Failed("notReady")]]
  BY MapCalls DEF AllCalls
<1>4. Store!Refuse(k)
  BY <1>1, <1>2, <1>3
  DEF AllCalls, Store!Refuse, Store!Refusals, Store!InPhase, Store!Answered, Store!Answer,
      Failed, Callers
<1> QED
  BY <1>4 DEF StoreStep, Store!Next, Callers

\* A call is given up, before or after it was taken up.
LEMMA MapGiveUp ==
  ASSUME NEW k \in Callers, NEW p, NEW phase \in {"waiting", "committed"},
         AbstractCall(k) = [phase |-> phase, load |-> p],
         OnlyCall(k, NoCall), disk' = disk, AbstractCurrent' = AbstractCurrent
  PROVE  StoreStep
<1>1. AbstractCall(k) # NoCall
  BY DEF NoCall
<1>2. AllCalls[k] = AbstractCall(k)
  BY DEF AllCalls
<1>3. AllCalls' = [AllCalls EXCEPT ![k] = NoCall]
  BY MapCalls DEF AllCalls
<1>4. Store!GiveUp(k)
  BY <1>1, <1>2, <1>3 DEF AllCalls, Store!GiveUp, Store!InPhase, Callers
<1> QED
  BY <1>4 DEF StoreStep, Store!Next, Callers

\* A call is answered and its caller has the answer.
LEMMA MapCollect ==
  ASSUME NEW k \in Callers, NEW a, AbstractCall(k) = [phase |-> "answered", answer |-> a],
         OnlyCall(k, NoCall), disk' = disk, AbstractCurrent' = AbstractCurrent
  PROVE  StoreStep
<1>1. AbstractCall(k) # NoCall
  BY DEF NoCall
<1>2. AllCalls[k] = AbstractCall(k)
  BY DEF AllCalls
<1>3. AllCalls' = [AllCalls EXCEPT ![k] = NoCall]
  BY MapCalls DEF AllCalls
<1>4. Store!Collect(k)
  BY <1>1, <1>2, <1>3 DEF AllCalls, Store!Collect, Store!InPhase, Callers
<1> QED
  BY <1>4 DEF StoreStep, Store!Next, Callers

-----------------------------------------------------------------------------
\* What a call looks like, by the state of its slot.
Loose(s) ==
  /\ request # NoRequest => request.promise.slot # s
  /\ \A i \in DOMAIN queue : queue[i].promise.slot # s

ShapedCall(c, h) ==
  LET f == fut[c][h] IN
    /\ f = NoFuture => AbstractCall(<<c, h>>) = NoCall
    /\ f # NoFuture =>
         /\ f.slot \in Slots /\ st[f.slot] \in {"pending", "resolved"}
         /\ st[f.slot] = "resolved" =>
              AbstractCall(<<c, h>>) = [phase |-> "answered", answer |-> ans[f.slot]]
         /\ st[f.slot] = "pending" =>
              /\ request # NoRequest /\ request.promise.slot = f.slot =>
                   AbstractCall(<<c, h>>) =
                     [phase |-> IF Committing THEN "committed" ELSE "waiting",
                      load |-> request.load]
              /\ \A i \in DOMAIN queue :
                   queue[i].promise.slot = f.slot =>
                     AbstractCall(<<c, h>>) = [phase |-> "waiting", load |-> queue[i].load]
              /\ Loose(f.slot) => AbstractCall(<<c, h>>) = NoCall

CallsShaped == \A c \in Clients, h \in Futures : ShapedCall(c, h)

\* On a state of the invariant every call has that shape.
LEMMA CallShape == IInv => CallsShaped
<1> SUFFICES ASSUME IInv, NEW c \in Clients, NEW h \in Futures
             PROVE  ShapedCall(c, h)
  BY DEF CallsShaped
<1> DEFINE f == fut[c][h]
<1>0. <<c, h>>[1] = c /\ <<c, h>>[2] = h
  OBVIOUS
<1>1. CASE f = NoFuture
  BY <1>0, <1>1 DEF AbstractCall, ShapedCall
<1>2. CASE f # NoFuture
  <2>1. f.slot \in Slots /\ "future" \in held[f.slot]
    BY <1>2, FutureType DEF IInv, PoolSafety, FuturesExclusive
  <2>2. st[f.slot] \in SlotStates
    BY <2>1 DEF IInv, TypeOK, PoolTypeOK
  <2>3. st[f.slot] \in {"pending", "resolved"}
    BY <2>1, <2>2 DEF IInv, PoolSafety, StateFollowsHolders, SlotStates
  <2>4. ASSUME st[f.slot] = "resolved"
        PROVE  AbstractCall(<<c, h>>) = [phase |-> "answered", answer |-> ans[f.slot]]
    BY <1>0, <1>2, <2>4 DEF AbstractCall
  <2>5. ASSUME st[f.slot] = "pending", request # NoRequest, request.promise.slot = f.slot
        PROVE  AbstractCall(<<c, h>>) =
                 [phase |-> IF Committing THEN "committed" ELSE "waiting", load |-> request.load]
    BY <1>0, <1>2, <2>5 DEF AbstractCall
  <2>6. ASSUME st[f.slot] = "pending", NEW i \in DOMAIN queue, queue[i].promise.slot = f.slot
        PROVE  AbstractCall(<<c, h>>) = [phase |-> "waiting", load |-> queue[i].load]
    <3>1. QueuedAt(f.slot) = {i} /\ (request # NoRequest => request.promise.slot # f.slot)
      BY <2>6 DEF IInv, PoolSafety, PromisesExclusive, QueuedAt
    <3>2. (CHOOSE j \in QueuedAt(f.slot) : TRUE) = i
      BY <3>1
    <3> HIDE DEF f
    <3>3. QueuedAt(f.slot) # {}
      BY <3>1
    <3> USE DEF f
    <3> QED
      BY <1>0, <1>2, <2>6, <3>1, <3>2, <3>3 DEF AbstractCall
  <2>7. ASSUME st[f.slot] = "pending", Loose(f.slot)
        PROVE  AbstractCall(<<c, h>>) = NoCall
    <3>1. QueuedAt(f.slot) = {} /\ (request # NoRequest => request.promise.slot # f.slot)
      BY <2>7 DEF Loose, QueuedAt
    <3> QED
      BY <1>0, <1>2, <2>7, <3>1 DEF AbstractCall
  <2> QED
    BY <1>2, <2>1, <2>3, <2>4, <2>5, <2>6, <2>7 DEF ShapedCall
<1> QED
  BY <1>1, <1>2

(* A future whose slot nobody touched shows the same call, if T_S has not  *)
(* changed its mind about its request.                                     *)
LEMMA SameCall ==
  ASSUME NEW c \in Clients, NEW h \in Futures,
         UNCHANGED <<queue, request, fut[c][h]>>,
         fut[c][h] # NoFuture =>
           /\ UNCHANGED <<st[fut[c][h].slot], ans[fut[c][h].slot]>>
           /\ \/ Committing' = Committing
              \/ request # NoRequest => request.promise.slot # fut[c][h].slot
  PROVE  AbstractCall(<<c, h>>)' = AbstractCall(<<c, h>>)
<1>0. <<c, h>>[1] = c /\ <<c, h>>[2] = h
  OBVIOUS
<1>1. CASE fut[c][h] = NoFuture
  BY <1>0, <1>1 DEF AbstractCall
<1>2. CASE fut[c][h] # NoFuture
  <2>1. QueuedAt(fut[c][h].slot)' = QueuedAt(fut[c][h].slot)
    BY DEF QueuedAt
  <2>2. CASE Committing' = Committing
    BY <1>0, <1>2, <2>1, <2>2 DEF AbstractCall
  <2>3. CASE request # NoRequest => request.promise.slot # fut[c][h].slot
    BY <1>0, <1>2, <2>1, <2>3 DEF AbstractCall
  <2> QED
    BY <1>2, <2>2, <2>3
<1> QED
  BY <1>1, <1>2

\* A caller is a client and one of its future variables.
LEMMA PairsAreCallers ==
  /\ \A k \in Callers : \E c \in Clients, h \in Futures : k = <<c, h>>
  /\ \A c \in Clients, h \in Futures : <<c, h>> \in Callers
BY DEF Callers

\* The commitment, by where T_S is.
LEMMA CurrentShape ==
  /\ ~Committing => AbstractCurrent = NoCall
  /\ at \in {"slow", "work"} =>
       Committing /\ AbstractCurrent = [load |-> request.load, stage |-> "begun"]
  /\ at = "sync" =>
       Committing /\ AbstractCurrent = [load |-> request.load, stage |-> "stored"]
  /\ at = "resolve" /\ Committing =>
       AbstractCurrent = [load |-> request.load, stage |-> "decided", answer |-> outcome]
BY DEF Committing, AbstractCurrent

-----------------------------------------------------------------------------
(* VerdictInv is an invariant: a slot that was given up stays given up.    *)
LEMMA RequestSlot ==
  ASSUME IInv, request # NoRequest
  PROVE  /\ request.promise.slot \in Slots /\ IsCurrent(request.promise)
         /\ "promise" \in held[request.promise.slot]
         /\ st[request.promise.slot] \in {"pending", "timedOut"}
<1>1. /\ request.promise.slot \in Slots /\ IsCurrent(request.promise)
      /\ "promise" \in held[request.promise.slot]
  BY RequestType DEF Handles, IInv, PoolSafety, PromisesExclusive
<1>2. st[request.promise.slot] \in SlotStates
  BY <1>1 DEF IInv, TypeOK, PoolTypeOK
<1> QED
  BY <1>1, <1>2 DEF IInv, PoolSafety, StateFollowsHolders, SlotStates

\* No requester makes a slot in use wait for an answer again.
LEMMA NoNewPending ==
  ASSUME IInv, NEW c \in Clients, ClientStep(c), NEW s \in Slots, st[s] \notin {"free", "pending"}
  PROVE  st'[s] # "pending"
<1>0. st \in [Slots -> SlotStates]
  BY DEF IInv, TypeOK, PoolTypeOK
<1>1. CASE CreatePair(c)
  <2>1. CASE UNCHANGED poolVars
    BY <2>1 DEF poolVars
  <2>2. CASE \E t \in Slots : FirstFree(t) /\ Claim(t)
    BY <1>0, <2>2 DEF FirstFree, Claim
  <2> QED
    BY <1>1, <2>1, <2>2 DEF CreatePair
<1>2. CASE SendTimesOut(c)
  BY <1>0, <1>2 DEF SendTimesOut, Abandon, LeaveSlot
<1>3. CASE AwaitAnswer(c)
  BY <1>0, <1>3 DEF AwaitAnswer, TakeAnswer, LeaveSlot
<1>4. CASE AwaitTimesOut(c)
  BY <1>0, <1>4 DEF AwaitTimesOut, GiveUp, LeaveSlot
<1>5. CASE WaitForMedia(c) \/ IterationTop(c) \/ Send(c) \/ NextIteration(c)
  BY <1>5 DEF WaitForMedia, IterationTop, Send, NextIteration, Sleep, poolVars
<1> QED
  BY <1>1, <1>2, <1>3, <1>4, <1>5 DEF ClientStep

\* VerdictInv holds at first ...
LEMMA VerdictInit == Init => VerdictInv
BY DEF Init, ServiceInit, VerdictInv

\* ... and from then on.
LEMMA VerdictStep == IInv /\ VerdictInv /\ [Next]_vars => VerdictInv'
<1> SUFFICES ASSUME IInv, VerdictInv, [Next]_vars PROVE VerdictInv'
  OBVIOUS
<1>1. CASE ServicerStep
  <2>1. CASE CheckActive
    <3>1. request # NoRequest /\ IsCurrent(request.promise)
      BY <2>1, RequestSlot DEF CheckActive, IInv, ServicerReady
    <3> QED
      BY <2>1, <3>1 DEF CheckActive, VerdictInv, IsActive, Failed, poolVars
  <2>2. CASE Work
    BY <2>2 DEF Work, VerdictInv, Failed, Done
  <2>3. CASE Sync
    BY <2>3 DEF Sync, VerdictInv, Failed, Done
  <2>4. CASE LoopTop \/ Receive \/ ReceiveTimesOut \/ MountVolume \/ Format \/ Remount
               \/ OpenBlockFile \/ SlowDelay \/ ResolvePromise
    BY <2>4 DEF LoopTop, Receive, ReceiveTimesOut, MountVolume, Format, Remount, OpenBlockFile, AfterMount,
                SlowDelay, ResolvePromise, VerdictInv
  <2> QED
    BY <1>1, <2>1, <2>2, <2>3, <2>4 DEF ServicerStep, SlowDelayOver
<1>2. ASSUME NEW c \in Clients, ClientStep(c) PROVE VerdictInv'
  <2>1. SUFFICES ASSUME at = "resolve", outcome.code = "cancelled"
                 PROVE  st'[request.promise.slot] # "pending"
    BY <1>2 DEF ClientStep, svcVars, VerdictInv, Failed
  <2>2. request # NoRequest
    BY <2>1 DEF IInv, ServicerReady
  <2>3. st[request.promise.slot] \notin {"free", "pending"}
    BY <2>1, <2>2, RequestSlot DEF VerdictInv
  <2> QED
    BY <1>2, <2>2, <2>3, RequestSlot, NoNewPending
<1>3. CASE Media \/ (\E t \in Stoppable : RequestStop(t)) \/ UNCHANGED vars
  BY <1>3 DEF Media, Plug, Unplug, RequestStop, vars, svcVars, poolVars, VerdictInv, Failed
<1> QED
  BY <1>1, <1>2, <1>3 DEF Next

-----------------------------------------------------------------------------
(* The steps.                                                              *)

\* Steps that leave calls, blocks and commitment alone.
LEMMA IdleStep ==
  ASSUME UNCHANGED <<st, ans, queue, request, disk, fut>>,
         Committing' = Committing, AbstractCurrent' = AbstractCurrent
  PROVE  StoreStep
<1>1. SameCalls
  BY SameCall, PairsAreCallers DEF SameCalls
<1> QED
  BY <1>1, MapStutter

\* Steps of T_S around the work, and the media.
LEMMA QuietServicerMaps ==
  ASSUME IInv, UNCHANGED clientVars, disk' = disk,
         LoopTop \/ ReceiveTimesOut \/ MountVolume \/ Format \/ Remount \/ OpenBlockFile \/ SlowDelay
           \/ Plug \/ Unplug
  PROVE  StoreStep
<1>1. UNCHANGED <<st, ans, queue, request, disk, fut, outcome>>
  BY DEF LoopTop, ReceiveTimesOut, MountVolume, Format, Remount, OpenBlockFile, AfterMount, SlowDelay,
         Plug, Unplug, poolVars, sharedVars, clientVars
<1>2. \/ ~Committing /\ ~Committing'
      \/ at \in {"slow", "work"} /\ at' \in {"slow", "work"}
      \/ at' = at
  BY DEF LoopTop, ReceiveTimesOut, MountVolume, Format, Remount, OpenBlockFile, AfterMount, SlowDelay,
         Plug, Unplug, Committing
<1>3. Committing' = Committing /\ AbstractCurrent' = AbstractCurrent
  BY <1>1, <1>2 DEF Committing, AbstractCurrent
<1> QED
  BY <1>1, <1>3, IdleStep

\* A requester that waits or loops.
LEMMA ClientIdleMaps ==
  ASSUME IInv, NEW c \in Clients, UNCHANGED svcVars,
         WaitForMedia(c) \/ IterationTop(c) \/ NextIteration(c)
  PROVE  StoreStep
<1>1. UNCHANGED <<st, ans, queue, request, disk, fut, at, outcome>>
  BY DEF WaitForMedia, IterationTop, NextIteration, Sleep, poolVars, sharedVars, svcVars
<1> QED
  BY <1>1, IdleStep DEF Committing, AbstractCurrent

\* The work is over, and its outcome is what BlockStore allows.
LEMMA DecidingMaps ==
  ASSUME IInv, UNCHANGED <<poolVars, queue, request, disk, clientVars>>,
         NEW stage \in {"begun", "stored"},
         IF stage = "begun" THEN at \in {"slow", "work"} ELSE at = "sync",
         at' = "resolve", outcome'.code \notin {"cancelled", "notReady"},
         outcome' \in Store!Verdicts
  PROVE  StoreStep
<1>1. Committing /\ Committing' /\ AbstractCurrent = [load |-> request.load, stage |-> stage]
  BY DEF Committing, AbstractCurrent
<1>2. AbstractCurrent' = [load |-> request.load, stage |-> "decided", answer |-> outcome']
  BY <1>1 DEF AbstractCurrent
<1>3. SameCalls
  BY <1>1, SameCall, PairsAreCallers DEF SameCalls, poolVars, clientVars
<1> QED
  BY <1>1, <1>2, <1>3, MapDecide

\* handleRead, handleWrite and the GetStatus case.
LEMMA WorkMaps ==
  ASSUME IInv, Work, UNCHANGED clientVars
  PROVE  StoreStep
<1> DEFINE load == request.load
<1>1. /\ request # NoRequest /\ load \in Payloads /\ load.cmd \in Commands
      /\ UNCHANGED <<poolVars, queue, request, clientVars>> /\ at = "work"
  BY RequestType, SharedAssumption DEF IInv, ServicerReady, Work, Requests, sharedVars
<1>2. AbstractCurrent = [load |-> load, stage |-> "begun"] /\ Committing
  BY <1>1, CurrentShape
<1>3. CASE at' = "resolve"
  <2>1. UNCHANGED disk /\ outcome' \in Store!Verdicts /\ outcome'.code \notin {"cancelled", "notReady"}
    BY <1>1, <1>2, <1>3 DEF Work, NoRoomFor, Store!Verdicts, Store!Answer, Failed, Done, Commands
  <2> QED
    BY <1>1, <1>3, <2>1, DecidingMaps
<1>4. CASE at' = "sync"
  <2>1. load.cmd = "Write" /\ load.blk \in Blocks /\ disk' = [disk EXCEPT ![load.blk] = load.val]
    BY <1>4 DEF Work
  <2>2. Committing' /\ AbstractCurrent' = [load |-> load, stage |-> "stored"]
    BY <1>1, <1>4 DEF Committing, AbstractCurrent
  <2>3. SameCalls
    BY <1>1, <1>2, <2>2, SameCall, PairsAreCallers DEF SameCalls, poolVars, clientVars
  <2> QED
    BY <1>2, <2>1, <2>2, <2>3, MapStore
<1> QED
  BY <1>3, <1>4 DEF Work

\* The f_sync of a write.
LEMMA SyncMaps ==
  ASSUME IInv, Sync, UNCHANGED clientVars
  PROVE  StoreStep
<1>1. /\ UNCHANGED <<poolVars, queue, request, disk, clientVars>>
      /\ at = "sync" /\ at' = "resolve"
  BY DEF Sync, sharedVars
<1>2. AbstractCurrent = [load |-> request.load, stage |-> "stored"]
  BY <1>1, CurrentShape
<1>3. outcome' \in Store!Verdicts /\ outcome'.code \notin {"cancelled", "notReady"}
  BY <1>2 DEF Sync, Store!Verdicts, Store!Answer, Failed, Done
<1> QED
  BY <1>1, <1>3, DecidingMaps

\* A requester's future is on a slot that no other future is on.
LEMMA OwnSlot ==
  ASSUME IInv, NEW c \in Clients, NEW h \in Futures, fut[c][h] # NoFuture,
         NEW d \in Clients, NEW k \in Futures, <<d, k>> # <<c, h>>, fut[d][k] # NoFuture
  PROVE  fut[d][k].slot # fut[c][h].slot /\ fut[d][k].slot \in Slots
BY FutureType DEF IInv, PoolSafety, FuturesExclusive

\* A slot whose answer is still waited for has its future with a requester.
LEMMA PendingHasHolder ==
  ASSUME IInv, NEW s \in Slots, st[s] = "pending"
  PROVE  \E c \in Clients, h \in Futures : fut[c][h] # NoFuture /\ fut[c][h].slot = s
BY DEF IInv, PoolSafety, StateFollowsHolders, NoSlotLost, Sides

(* A future on a slot that T_S has no request for shows the same call when *)
(* T_S lets its request go.                                                *)
LEMMA SameCallElsewhere ==
  ASSUME NEW c \in Clients, NEW h \in Futures, UNCHANGED <<queue, fut[c][h]>>,
         fut[c][h] # NoFuture =>
           /\ UNCHANGED <<st[fut[c][h].slot], ans[fut[c][h].slot]>>
           /\ request # NoRequest => request.promise.slot # fut[c][h].slot,
         request' = NoRequest
  PROVE  AbstractCall(<<c, h>>)' = AbstractCall(<<c, h>>)
<1>0. <<c, h>>[1] = c /\ <<c, h>>[2] = h
  OBVIOUS
<1>1. QueuedAt(fut[c][h].slot)' = QueuedAt(fut[c][h].slot)
  BY DEF QueuedAt
<1> QED
  BY <1>0, <1>1 DEF AbstractCall

\* From pairs to callers.
LEMMA OnlyThis ==
  ASSUME NEW c \in Clients, NEW h \in Futures, NEW a, AbstractCall(<<c, h>>)' = a,
         \A d \in Clients, k \in Futures :
           <<d, k>> # <<c, h>> => AbstractCall(<<d, k>>)' = AbstractCall(<<d, k>>)
  PROVE  OnlyCall(<<c, h>>, a)
BY PairsAreCallers DEF OnlyCall

\* T_S commits to a request that is still waited for, or refuses it.
LEMMA CheckActiveMaps ==
  ASSUME IInv, IInv', CheckActive, UNCHANGED clientVars
  PROVE  StoreStep
<1>1. /\ UNCHANGED <<st, ans, queue, request, disk, fut>>
      /\ at = "check" /\ request # NoRequest /\ ~Committing
  BY DEF CheckActive, IInv, ServicerReady, poolVars, sharedVars, clientVars, Committing
<1>2. CASE at' = "resolve"
  <2>1. ~Committing'
    BY <1>2 DEF CheckActive, Committing, Failed
  <2>2. Committing' = Committing /\ AbstractCurrent' = AbstractCurrent
    BY <1>1, <2>1 DEF Committing, AbstractCurrent
  <2> QED
    BY <1>1, <2>2, IdleStep
<1>3. CASE at' # "resolve"
  <2> DEFINE s == request.promise.slot
             p == request.load
  <2>1. IsActive(request.promise) /\ at' \in {"slow", "work"} /\ Committing'
    BY <1>3 DEF CheckActive, Committing
  <2>2. s \in Slots /\ st[s] = "pending"
    BY <1>1, <2>1, RequestSlot DEF IsActive
  <2>3. PICK c \in Clients, h \in Futures : fut[c][h] # NoFuture /\ fut[c][h].slot = s
    BY <2>2, PendingHasHolder
  <2>4. AbstractCall(<<c, h>>) = [phase |-> "waiting", load |-> p]
    BY <1>1, <2>2, <2>3, CallShape DEF CallsShaped, ShapedCall
  <2>5. AbstractCall(<<c, h>>)' = [phase |-> "committed", load |-> p]
    <3>1. CallsShaped'
      BY CallShape, PTL
    <3> QED
      BY <1>1, <2>1, <2>2, <2>3, <3>1 DEF CallsShaped, ShapedCall
  <2>6. ASSUME NEW d \in Clients, NEW k \in Futures, <<d, k>> # <<c, h>>
        PROVE  AbstractCall(<<d, k>>)' = AbstractCall(<<d, k>>)
    BY <1>1, <2>3, <2>6, OwnSlot, SameCall
  <2>7. AbstractCurrent = NoCall /\ AbstractCurrent' = [load |-> p, stage |-> "begun"]
    BY <1>1, <2>1 DEF AbstractCurrent
  <2>8. OnlyCall(<<c, h>>, [phase |-> "committed", load |-> p])
    BY <2>5, <2>6, OnlyThis
  <2>9. <<c, h>> \in Callers
    BY PairsAreCallers
  <2> QED
    BY <1>1, <2>4, <2>7, <2>8, <2>9, MapCommit
<1> QED
  BY <1>2, <1>3

\* A request that moves from the queue into T_S's hands still waits.
LEMMA ReceiveMaps ==
  ASSUME IInv, IInv', Receive, UNCHANGED clientVars
  PROVE  StoreStep
<1>1. /\ UNCHANGED <<st, ans, disk, fut>> /\ request = NoRequest
      /\ ~Committing /\ ~Committing'
  BY DEF Receive, IInv, ServicerReady, poolVars, clientVars, Committing
<1>2. queue \in Seq(Requests) /\ queue # <<>> /\ queue' = Tail(queue) /\ request' = Head(queue)
  BY DEF Receive, QueueReceive, IInv, TypeOK, SharedTypeOK
<1>3. /\ request' = queue[1] /\ 1 \in DOMAIN queue /\ request' # NoRequest
      /\ \A i \in DOMAIN queue' : i + 1 \in DOMAIN queue /\ queue'[i] = queue[i + 1]
      /\ \A j \in DOMAIN queue : j # 1 => j - 1 \in DOMAIN queue' /\ queue'[j - 1] = queue[j]
  BY <1>2, TailItems, ServiceAssumption
<1>4. CallsShaped /\ CallsShaped'
  BY CallShape, PTL
<1>5. ASSUME NEW c \in Clients, NEW h \in Futures
      PROVE  AbstractCall(<<c, h>>)' = AbstractCall(<<c, h>>)
  <2> DEFINE s == fut[c][h].slot
  <2>0. ShapedCall(c, h) /\ ShapedCall(c, h)'
    BY <1>4 DEF CallsShaped
  <2>1. CASE fut[c][h] = NoFuture \/ st[s] = "resolved"
    BY <1>1, <2>0, <2>1 DEF ShapedCall
  <2>2. ASSUME fut[c][h] # NoFuture, st[s] = "pending", NEW j \in DOMAIN queue,
               queue[j].promise.slot = s
        PROVE  AbstractCall(<<c, h>>)' = AbstractCall(<<c, h>>)
    <3>1. AbstractCall(<<c, h>>) = [phase |-> "waiting", load |-> queue[j].load]
      BY <2>0, <2>2 DEF ShapedCall
    <3>2. CASE j = 1
      <4>1. /\ request' = queue[j] /\ request'.promise.slot = s /\ ~Committing'
            /\ fut'[c][h] = fut[c][h] /\ st'[s] = "pending"
        BY <1>1, <1>3, <2>2, <3>2
      <4>2. AbstractCall(<<c, h>>)' = [phase |-> "waiting", load |-> request'.load]
        BY <1>3, <2>0, <2>2, <4>1 DEF ShapedCall
      <4> QED
        BY <3>1, <4>1, <4>2
    <3>3. CASE j # 1
      <4>1. /\ j - 1 \in DOMAIN queue' /\ queue'[j - 1] = queue[j]
            /\ fut'[c][h] = fut[c][h] /\ st'[s] = "pending"
        BY <1>1, <1>3, <2>2, <3>3
      <4>2. AbstractCall(<<c, h>>)' = [phase |-> "waiting", load |-> queue'[j - 1].load]
        BY <2>0, <2>2, <4>1 DEF ShapedCall
      <4> QED
        BY <3>1, <4>1, <4>2
    <3> QED
      BY <3>2, <3>3
  <2>3. ASSUME fut[c][h] # NoFuture, st[s] = "pending",
               \A j \in DOMAIN queue : queue[j].promise.slot # s
        PROVE  AbstractCall(<<c, h>>)' = AbstractCall(<<c, h>>)
    <3>1. Loose(s) /\ Loose(s)'
      BY <1>1, <1>3, <2>3 DEF Loose
    <3> HIDE DEF Loose
    <3> QED
      BY <1>1, <2>0, <2>3, <3>1 DEF ShapedCall
  <2> QED
    BY <2>0, <2>1, <2>2, <2>3 DEF ShapedCall
<1>6. SameCalls
  BY <1>5, PairsAreCallers DEF SameCalls
<1> QED
  BY <1>1, <1>6, MapStutter DEF AbstractCurrent

(* The answer goes to the requester whose request it is, or, when it gave  *)
(* up, to nobody.                                                          *)
LEMMA ResolvePromiseMaps ==
  ASSUME IInv, IInv', VerdictInv, ResolvePromise, UNCHANGED clientVars
  PROVE  StoreStep
<1> DEFINE s == request.promise.slot
           p == request.load
<1>1. /\ UNCHANGED <<queue, disk, fut>> /\ request # NoRequest /\ request' = NoRequest
      /\ at = "resolve" /\ ~Committing' /\ AbstractCurrent' = NoCall
  BY DEF ResolvePromise, IInv, ServicerReady, clientVars, Committing, AbstractCurrent
<1>2. s \in Slots /\ IsCurrent(request.promise) /\ "promise" \in held[s]
      /\ st[s] \in {"pending", "timedOut"}
  BY <1>1, RequestSlot
<1>3. st \in [Slots -> SlotStates] /\ ans \in [Slots -> Answers \cup {NoAnswer}]
  BY DEF IInv, TypeOK, PoolTypeOK
<1>4. \A t \in Slots : t # s => st'[t] = st[t] /\ ans'[t] = ans[t]
  BY <1>1, <1>2, <1>3 DEF ResolvePromise, Resolve, LeaveSlot
<1>5. CASE st[s] = "pending"
  <2>1. held[s] = Sides /\ held[s] \ {"promise"} # {}
    BY <1>2, <1>5 DEF IInv, PoolSafety, StateFollowsHolders, Sides
  <2>2. st'[s] = "resolved" /\ ans'[s] = outcome
    BY <1>2, <1>3, <1>5, <2>1 DEF ResolvePromise, Resolve, LeaveSlot
  <2>3. PICK c \in Clients, h \in Futures : fut[c][h] # NoFuture /\ fut[c][h].slot = s
    BY <1>2, <1>5, PendingHasHolder
  <2>4. AbstractCall(<<c, h>>)' = [phase |-> "answered", answer |-> outcome]
    <3>1. CallsShaped'
      BY CallShape, PTL
    <3> QED
      BY <1>1, <2>2, <2>3, <3>1 DEF CallsShaped, ShapedCall
  <2>5. AbstractCall(<<c, h>>) = [phase |-> IF Committing THEN "committed" ELSE "waiting",
                                  load |-> p]
    BY <1>1, <1>5, <2>3, CallShape DEF CallsShaped, ShapedCall
  <2>6. ASSUME NEW d \in Clients, NEW k \in Futures, <<d, k>> # <<c, h>>
        PROVE  AbstractCall(<<d, k>>)' = AbstractCall(<<d, k>>)
    <3>1. fut[d][k] # NoFuture => fut[d][k].slot # s /\ fut[d][k].slot \in Slots
      BY <2>3, <2>6, OwnSlot
    <3> QED
      BY <1>1, <1>4, <3>1, SameCallElsewhere
  <2>7. OnlyCall(<<c, h>>, [phase |-> "answered", answer |-> outcome]) /\ <<c, h>> \in Callers
    BY <2>4, <2>6, OnlyThis, PairsAreCallers
  <2>8. CASE Committing
    <3>1. AbstractCurrent = [load |-> p, stage |-> "decided", answer |-> outcome]
      BY <1>1, <2>8, CurrentShape
    <3>2. AbstractCall(<<c, h>>) = [phase |-> "committed", load |-> p]
      BY <2>5, <2>8
    <3> QED
      BY <1>1, <2>7, <3>1, <3>2, MapFinish
  <2>9. CASE ~Committing
    <3>1. outcome = Failed("notReady") /\ AbstractCurrent = NoCall
      BY <1>1, <1>5, <2>9 DEF VerdictInv, Committing, AbstractCurrent
    <3>2. AbstractCall(<<c, h>>) = [phase |-> "waiting", load |-> p]
      BY <2>5, <2>9
    <3> QED
      BY <1>1, <2>7, <3>1, <3>2, MapRefuse
  <2> QED
    BY <2>8, <2>9
<1>6. CASE st[s] = "timedOut"
  <2>1. \A c \in Clients, h \in Futures : fut[c][h] # NoFuture =>
          fut[c][h].slot # s /\ fut[c][h].slot \in Slots
    BY <1>2, <1>6, FutureType DEF IInv, PoolSafety, FuturesExclusive, StateFollowsHolders
  <2>2. SameCalls
    <3>1. ASSUME NEW c \in Clients, NEW h \in Futures
          PROVE  AbstractCall(<<c, h>>)' = AbstractCall(<<c, h>>)
      BY <1>1, <1>4, <2>1, SameCallElsewhere
    <3> QED
      BY <3>1, PairsAreCallers DEF SameCalls
  <2>3. ASSUME NEW c \in Clients, NEW h \in Futures
        PROVE  AbstractCall(<<c, h>>).phase # "committed"
    <3>1. <<c, h>>[1] = c /\ <<c, h>>[2] = h
      OBVIOUS
    <3> QED
      BY <2>1, <3>1 DEF AbstractCall, NoCall
  <2>4. \A k \in Callers : AbstractCall(k).phase # "committed"
    BY <2>3, PairsAreCallers
  <2>5. CASE Committing
    <3>1. AbstractCurrent = [load |-> p, stage |-> "decided", answer |-> outcome]
      BY <1>1, <2>5, CurrentShape
    <3> QED
      BY <1>1, <2>2, <2>4, <3>1, MapFinish
  <2>6. CASE ~Committing
    BY <1>1, <2>2, <2>6, MapStutter DEF AbstractCurrent
  <2> QED
    BY <2>5, <2>6
<1> QED
  BY <1>2, <1>5, <1>6

\* What T_S has committed to is T_S's affair.
LEMMA ClientsKeepCurrent ==
  ASSUME UNCHANGED svcVars
  PROVE  /\ Committing' = Committing /\ AbstractCurrent' = AbstractCurrent
         /\ disk' = disk /\ request' = request
BY DEF svcVars, Committing, AbstractCurrent

(* One requester's future changes, and nothing but its slot with it: the   *)
(* other calls look the same.                                              *)
LEMMA OthersKeepCalls ==
  ASSUME IInv, UNCHANGED svcVars, UNCHANGED queue, NEW c \in Clients, NEW h \in Futures,
         NEW s \in Slots, fut[c][h] # NoFuture => fut[c][h].slot = s,
         "future" \in held[s] => fut[c][h] # NoFuture,
         \A t \in Slots : t # s => st'[t] = st[t] /\ ans'[t] = ans[t],
         \A d \in Clients, k \in Futures : <<d, k>> # <<c, h>> => fut'[d][k] = fut[d][k]
  PROVE  \A d \in Clients, k \in Futures :
           <<d, k>> # <<c, h>> => AbstractCall(<<d, k>>)' = AbstractCall(<<d, k>>)
<1> SUFFICES ASSUME NEW d \in Clients, NEW k \in Futures, <<d, k>> # <<c, h>>
             PROVE  AbstractCall(<<d, k>>)' = AbstractCall(<<d, k>>)
  OBVIOUS
<1>1. ASSUME fut[d][k] # NoFuture
      PROVE  fut[d][k].slot # s /\ fut[d][k].slot \in Slots
  BY <1>1, FutureType DEF IInv, PoolSafety, FuturesExclusive
<1> QED
  BY <1>1, SameCall, ClientsKeepCurrent

\* The promise that a requester has yet to send is nobody's call.
LEMMA UnsentIsNoCall ==
  ASSUME IInv, NEW c \in Clients, Unsent(c)
  PROVE  /\ fut[c][Instr(c).h] # NoFuture /\ Instr(c).h \in Futures
         /\ fut[c][Instr(c).h] \in Handles /\ fut[c][Instr(c).h].slot \in Slots
         /\ st[fut[c][Instr(c).h].slot] = "pending" /\ Loose(fut[c][Instr(c).h].slot)
         /\ AbstractCall(<<c, Instr(c).h>>) = NoCall
<1> DEFINE h == Instr(c).h
           f == fut[c][h]
<1>1. f # NoFuture /\ h \in Futures /\ f = PromiseOf(c)
  BY ScriptFacts DEF IInv, PoolSafety, PromisesExclusive, PromiseOf
<1>2. f \in Handles /\ f.slot \in Slots
  BY <1>1, FutureType
<1>3. "promise" \in held[f.slot] /\ "future" \in held[f.slot] /\ held[f.slot] \in SUBSET Sides
  BY <1>1, <1>2 DEF IInv, PoolSafety, PromisesExclusive, FuturesExclusive, TypeOK, PoolTypeOK
<1>4. st[f.slot] = "pending"
  BY <1>2, <1>3 DEF IInv, PoolSafety, StateFollowsHolders, Sides
<1>5. Loose(f.slot)
  BY <1>1 DEF IInv, PoolSafety, PromisesExclusive, Loose
<1>6. AbstractCall(<<c, h>>) = NoCall
  BY <1>1, <1>4, <1>5, CallShape DEF CallsShaped, ShapedCall
<1> QED
  BY <1>1, <1>2, <1>4, <1>5, <1>6

\* A new pair is not yet a call.
LEMMA CreatePairMaps ==
  ASSUME IInv, IInv', NEW c \in Clients, CreatePair(c), UNCHANGED svcVars
  PROVE  StoreStep
<1>0. PICK h \in Futures : h = Instr(c).h
  BY ScriptFacts
<1>1. CASE UNCHANGED <<poolVars, fut>>
  BY <1>1, IdleStep, ClientsKeepCurrent DEF CreatePair, poolVars, sharedVars
<1>2. ASSUME NEW s \in Slots, FirstFree(s), Claim(s), SetFuture(c, h, HandleOn(s)),
             UNCHANGED sharedVars
      PROVE  StoreStep
  <2>1. st[s] = "free" /\ held[s] = {} /\ PoolTypeOK /\ h \in Futures /\ fut[c][h] = NoFuture
    BY <1>0, <1>2, ScriptFacts
    DEF FirstFree, IInv, TypeOK, PoolSafety, StateFollowsHolders, CreatePair, Disciplined, Instr,
        FuturesFollowScript
  <2>2. /\ \A t \in Slots : t # s => st'[t] = st[t]
        /\ st'[s] = "pending" /\ ans' = ans /\ gen[s] \in Generations
    BY <1>2, <2>1, ClaimEffect DEF PoolTypeOK
  <2>3. HandleOn(s) \in Handles /\ HandleOn(s).slot = s /\ HandleOn(s) # NoFuture
    BY <2>2, ClientAssumption DEF HandleOn, Handles
  <2>4. /\ fut'[c][h] = HandleOn(s)
        /\ \A d \in Clients, k \in Futures : <<d, k>> # <<c, h>> => fut'[d][k] = fut[d][k]
    BY <1>2, <2>1, <2>3, FutureSet
  <2>5. UNCHANGED <<queue, request>>
    BY <1>2 DEF sharedVars, svcVars
  <2>6. Loose(s)
    BY <2>1, RequestSlot DEF Loose, IInv, PoolSafety, PromisesExclusive
  <2>7. Loose(s)'
    BY <2>5, <2>6 DEF Loose
  <2>8. AbstractCall(<<c, h>>)' = NoCall
    <3>1. CallsShaped'
      BY CallShape, PTL
    <3>2. ShapedCall(c, h)'
      BY <2>1, <3>1 DEF CallsShaped
    <3>3. fut'[c][h] # NoFuture /\ fut'[c][h].slot = s
      BY ONLY <2>3, <2>4
    <3> QED
      BY ONLY <2>2, <2>7, <3>2, <3>3 DEF ShapedCall
  <2>9. AbstractCall(<<c, h>>) = NoCall
    BY <2>1, CallShape DEF CallsShaped, ShapedCall
  <2>10. SameCalls
    <3>1. \A d \in Clients, k \in Futures :
            <<d, k>> # <<c, h>> => AbstractCall(<<d, k>>)' = AbstractCall(<<d, k>>)
      BY <2>1, <2>2, <2>4, <2>5, OthersKeepCalls
    <3> QED
      BY <2>8, <2>9, <3>1, PairsAreCallers DEF SameCalls
  <2> QED
    BY <2>10, MapStutter, ClientsKeepCurrent
<1> QED
  BY <1>0, <1>1, <1>2 DEF CreatePair

\* The call is made when its request is in the queue.
LEMMA SendMaps ==
  ASSUME IInv, IInv', NEW c \in Clients, Send(c), UNCHANGED svcVars
  PROVE  StoreStep
<1>0. PICK h \in Futures : h = Instr(c).h
  BY ScriptFacts
<1>a. PICK s : s = fut[c][h].slot
  OBVIOUS
<1>b. PICK r, last, load : r = RequestOf(c) /\ last = Len(queue) + 1 /\ load = Instr(c).load
  OBVIOUS
<1>1. /\ fut[c][h] # NoFuture /\ h \in Futures /\ fut[c][h] \in Handles /\ s \in Slots
      /\ st[s] = "pending" /\ Loose(s) /\ AbstractCall(<<c, h>>) = NoCall
  BY <1>0, <1>a, UnsentIsNoCall DEF Send, Unsent
<1>2. /\ UNCHANGED <<st, ans, fut, request>> /\ queue' = Append(queue, r)
      /\ queue \in Seq(Requests)
  BY <1>b DEF Send, QueueSend, poolVars, svcVars, IInv, TypeOK, SharedTypeOK
<1>3. load \in Payloads /\ r \in Requests /\ r.promise = fut[c][h] /\ r.load = load
  BY <1>0, <1>1, <1>b, ScriptFacts DEF RequestOf, Requests, Instructions
<1>4. /\ last \in DOMAIN queue' /\ queue'[last] = r
      /\ \A i \in DOMAIN queue : i \in DOMAIN queue' /\ queue'[i] = queue[i]
      /\ \A i \in DOMAIN queue' : i = last \/ i \in DOMAIN queue
  <2>1. \E p : p = queue'
    OBVIOUS
  <2> QED
    BY <1>2, <1>3, <1>b, <2>1, AppendItems
<1>5. CallsShaped /\ CallsShaped'
  BY CallShape, PTL
<1>6. AbstractCall(<<c, h>>)' = [phase |-> "waiting", load |-> load]
  <2>0. ShapedCall(c, h)'
    BY <1>5 DEF CallsShaped
  <2>1. queue'[last].promise.slot = s /\ fut'[c][h] = fut[c][h] /\ st'[s] = "pending"
    BY <1>1, <1>2, <1>3, <1>4, <1>a
  <2>2. AbstractCall(<<c, h>>)' = [phase |-> "waiting", load |-> queue'[last].load]
    BY <1>1, <1>4, <1>a, <2>0, <2>1 DEF ShapedCall
  <2> QED
    BY <1>3, <1>4, <2>2
<1>7. ASSUME NEW d \in Clients, NEW k \in Futures, <<d, k>> # <<c, h>>
      PROVE  AbstractCall(<<d, k>>)' = AbstractCall(<<d, k>>)
  <2>a. PICK t : t = fut[d][k].slot
    OBVIOUS
  <2>0. fut'[d][k] = fut[d][k] /\ st' = st /\ ans' = ans /\ Committing' = Committing
    BY <1>2, ClientsKeepCurrent
  <2>b. ShapedCall(d, k) /\ ShapedCall(d, k)'
    BY <1>5 DEF CallsShaped
  <2>1. CASE fut[d][k] = NoFuture \/ st[t] = "resolved"
    BY <2>b, <2>0, <2>a, <2>1 DEF ShapedCall
  <2>2. ASSUME fut[d][k] # NoFuture, st[t] = "pending", request # NoRequest,
               request.promise.slot = t
        PROVE  AbstractCall(<<d, k>>)' = AbstractCall(<<d, k>>)
    BY <1>2, <2>b, <2>0, <2>a, <2>2 DEF ShapedCall
  <2>3. ASSUME fut[d][k] # NoFuture, st[t] = "pending", NEW j \in DOMAIN queue,
               queue[j].promise.slot = t
        PROVE  AbstractCall(<<d, k>>)' = AbstractCall(<<d, k>>)
    <3>1. AbstractCall(<<d, k>>) = [phase |-> "waiting", load |-> queue[j].load]
      BY <2>b, <2>a, <2>3 DEF ShapedCall
    <3>2. AbstractCall(<<d, k>>)' = [phase |-> "waiting", load |-> queue'[j].load]
      BY <1>4, <2>b, <2>0, <2>a, <2>3 DEF ShapedCall
    <3> QED
      BY <1>4, <3>1, <3>2
  <2>4. ASSUME fut[d][k] # NoFuture, st[t] = "pending", Loose(t)
        PROVE  AbstractCall(<<d, k>>)' = AbstractCall(<<d, k>>)
    <3>1. t # s
      BY <1>1, <1>7, <1>a, <2>a, <2>4, OwnSlot
    <3>2. Loose(t)'
      BY <1>2, <1>3, <1>4, <1>a, <2>4, <3>1 DEF Loose
    <3> QED
      BY <2>b, <2>0, <2>a, <2>4, <3>2 DEF ShapedCall
  <2>5. fut[d][k] # NoFuture => st[t] \in {"pending", "resolved"}
    BY <2>b, <2>a DEF ShapedCall
  <2> QED
    BY <2>1, <2>2, <2>3, <2>4, <2>5 DEF Loose
<1>8. OnlyCall(<<c, h>>, [phase |-> "waiting", load |-> load]) /\ <<c, h>> \in Callers
  BY <1>1, <1>6, <1>7, OnlyThis, PairsAreCallers
<1> QED
  BY <1>1, <1>3, <1>8, MapInvoke, ClientsKeepCurrent

\* An abandoned pair never was a call.
LEMMA SendTimesOutMaps ==
  ASSUME IInv, IInv', NEW c \in Clients, SendTimesOut(c), UNCHANGED svcVars
  PROVE  StoreStep
<1>0. PICK h \in Futures : h = Instr(c).h
  BY ScriptFacts
<1> DEFINE s == fut[c][h].slot
<1>1. /\ fut[c][h] # NoFuture /\ h \in Futures /\ s \in Slots
      /\ AbstractCall(<<c, h>>) = NoCall
  BY <1>0, UnsentIsNoCall DEF SendTimesOut, Unsent
<1>2. /\ \A t \in Slots : t # s => st'[t] = st[t] /\ ans'[t] = ans[t]
      /\ UNCHANGED queue
  BY <1>0, <1>1 DEF SendTimesOut, Abandon, LeaveSlot, sharedVars, IInv, TypeOK, PoolTypeOK
<1>3. /\ fut'[c][h] = NoFuture
      /\ \A d \in Clients, k \in Futures : <<d, k>> # <<c, h>> => fut'[d][k] = fut[d][k]
  BY <1>0, <1>1, FutureSet DEF SendTimesOut
<1>4. AbstractCall(<<c, h>>)' = NoCall
  <2>1. CallsShaped'
    BY CallShape, PTL
  <2> QED
    BY <1>1, <1>3, <2>1 DEF CallsShaped, ShapedCall
<1>5. \A d \in Clients, k \in Futures :
        <<d, k>> # <<c, h>> => AbstractCall(<<d, k>>)' = AbstractCall(<<d, k>>)
  BY <1>1, <1>2, <1>3, OthersKeepCalls
<1>6. SameCalls
  BY <1>1, <1>4, <1>5, PairsAreCallers DEF SameCalls
<1> QED
  BY <1>6, MapStutter, ClientsKeepCurrent

\* The answer is collected, or the call is given up.
LEMMA LetGoMaps ==
  ASSUME IInv, IInv', NEW c \in Clients, UNCHANGED svcVars, AwaitAnswer(c) \/ AwaitTimesOut(c)
  PROVE  StoreStep
<1>0. PICK h \in Futures : h = Instr(c).h
  BY ScriptFacts
<1> DEFINE s == fut[c][h].slot
<1>1. ~Unsent(c) /\ fut[c][h] # NoFuture /\ h \in Futures
  BY <1>0, ScriptFacts DEF AwaitAnswer, AwaitTimesOut, Disciplined, Instr, Unsent, IInv,
                     FuturesFollowScript
<1>2. s \in Slots
  BY <1>1, FutureType
<1>3. /\ \A t \in Slots : t # s => st'[t] = st[t] /\ ans'[t] = ans[t]
      /\ UNCHANGED queue
  BY <1>0, <1>2
  DEF AwaitAnswer, AwaitTimesOut, TakeAnswer, GiveUp, LeaveSlot, sharedVars, IInv, TypeOK,
              PoolTypeOK
<1>4. /\ fut'[c][h] = NoFuture
      /\ \A d \in Clients, k \in Futures : <<d, k>> # <<c, h>> => fut'[d][k] = fut[d][k]
  BY <1>0, <1>1, FutureSet DEF AwaitAnswer, AwaitTimesOut, Conclude
<1>5. AbstractCall(<<c, h>>)' = NoCall
  <2>1. CallsShaped'
    BY CallShape, PTL
  <2> QED
    BY <1>1, <1>4, <2>1 DEF CallsShaped, ShapedCall
<1>6. \A d \in Clients, k \in Futures :
        <<d, k>> # <<c, h>> => AbstractCall(<<d, k>>)' = AbstractCall(<<d, k>>)
  BY <1>1, <1>2, <1>3, <1>4, OthersKeepCalls
<1>7. OnlyCall(<<c, h>>, NoCall) /\ <<c, h>> \in Callers
  BY <1>1, <1>5, <1>6, OnlyThis, PairsAreCallers
<1>8. CASE AwaitAnswer(c)
  <2>1. AbstractCall(<<c, h>>) = [phase |-> "answered", answer |-> ans[s]]
    BY <1>0, <1>1, <1>8, CallShape DEF AwaitAnswer, TakeAnswer, CallsShaped, ShapedCall
  <2> QED
    BY <1>7, <2>1, MapCollect, ClientsKeepCurrent
<1>9. CASE AwaitTimesOut(c)
  <2>1. st[s] = "pending" /\ "promise" \in held[s]
    BY <1>0, <1>2, <1>9 DEF AwaitTimesOut, GiveUp, IInv, PoolSafety, StateFollowsHolders, Sides
  <2>2. ~ \E d \in Clients : Unsent(d) /\ PromiseOf(d).slot = s
    <3>1. ASSUME NEW d \in Clients, Unsent(d), PromiseOf(d).slot = s PROVE FALSE
      <4>1. /\ fut[d][Instr(d).h] # NoFuture /\ Instr(d).h \in Futures
            /\ fut[d][Instr(d).h].slot = s
        BY <3>1, UnsentIsNoCall DEF PromiseOf
      <4>2. d = c
        BY <1>1, <4>1, OwnSlot
      <4> QED
        BY <1>1, <3>1, <4>2
    <3> QED
      BY <3>1
  <2>3. \/ request # NoRequest /\ request.promise.slot = s
        \/ \E i \in DOMAIN queue : queue[i].promise.slot = s
    BY <1>2, <2>1, <2>2 DEF IInv, PoolSafety, NoSlotLost
  <2>4. CASE request # NoRequest /\ request.promise.slot = s
    <3>1. AbstractCall(<<c, h>>) = [phase |-> IF Committing THEN "committed" ELSE "waiting",
                                    load |-> request.load]
      BY <1>1, <2>1, <2>4, CallShape DEF CallsShaped, ShapedCall
    <3>2. CASE Committing
      BY <1>7, <3>1, <3>2, MapGiveUp, ClientsKeepCurrent
    <3>3. CASE ~Committing
      BY <1>7, <3>1, <3>3, MapGiveUp, ClientsKeepCurrent
    <3> QED
      BY <3>2, <3>3
  <2>5. CASE \E i \in DOMAIN queue : queue[i].promise.slot = s
    <3>1. PICK i \in DOMAIN queue : queue[i].promise.slot = s
      BY <2>5
    <3>2. AbstractCall(<<c, h>>) = [phase |-> "waiting", load |-> queue[i].load]
      BY <1>1, <2>1, <3>1, CallShape DEF CallsShaped, ShapedCall
    <3> QED
      BY <1>7, <3>2, MapGiveUp, ClientsKeepCurrent
  <2> QED
    BY <2>3, <2>4, <2>5
<1> QED
  BY <1>8, <1>9

\* Every step of the demo is a step of BlockStore, or nothing to it.
LEMMA NextMaps ==
  ASSUME ~FalseBlank, IInv, IInv', VolumeSound, VerdictInv, [Next]_vars
  PROVE  StoreStep
<1>0. LoopTop \/ ReceiveTimesOut \/ MountVolume \/ Format \/ Remount \/ OpenBlockFile \/ SlowDelay
        \/ Plug \/ Unplug => disk' = disk
  BY FormatKeeps
  DEF LoopTop, ReceiveTimesOut, MountVolume, Remount, OpenBlockFile, SlowDelay, Plug, Unplug
<1>1. CASE ServicerStep
  BY <1>0, <1>1, QuietServicerMaps, ReceiveMaps, CheckActiveMaps, WorkMaps, SyncMaps, ResolvePromiseMaps
  DEF ServicerStep, SlowDelayOver
<1>2. ASSUME NEW c \in Clients, ClientStep(c) PROVE StoreStep
  BY <1>2, ClientIdleMaps, CreatePairMaps, SendMaps, SendTimesOutMaps, LetGoMaps DEF ClientStep
<1>3. CASE Media
  BY <1>0, <1>3, QuietServicerMaps DEF Media
<1>4. ASSUME NEW t \in Stoppable, RequestStop(t) PROVE StoreStep
  BY <1>4, IdleStep, ClientsKeepCurrent DEF RequestStop, poolVars, clientVars
<1>5. CASE UNCHANGED vars
  <2>1. UNCHANGED svcVars /\ UNCHANGED <<st, ans, queue, fut>>
    BY <1>5 DEF vars, poolVars, sharedVars, clientVars
  <2> QED
    BY <2>1, IdleStep, ClientsKeepCurrent
<1> QED
  BY <1>1, <1>2, <1>3, <1>4, <1>5 DEF Next

\* Nothing is called, nothing taken up and every block is blank.
LEMMA InitMaps == Init => Store!Init
<1> SUFFICES ASSUME Init PROVE Store!Init
  OBVIOUS
<1>1. disk = [b \in Blocks |-> Blank]
  BY DEF Init, ServiceInit, EmptyFile
<1>2. AbstractCurrent = NoCall
  BY DEF Init, ServiceInit, AbstractCurrent, Committing
<1>3. \A k \in Callers : AbstractCall(k) = NoCall
  <2>1. CallsShaped
    BY InitInvariant, CallShape
  <2>2. \A c \in Clients, h \in Futures : fut[c][h] = NoFuture
    BY DEF Init, ClientInit
  <2>3. \A c \in Clients, h \in Futures : AbstractCall(<<c, h>>) = NoCall
    BY <2>1, <2>2 DEF CallsShaped, ShapedCall
  <2> QED
    BY <2>3, PairsAreCallers
<1> QED
  BY <1>1, <1>2, <1>3 DEF Store!Init, Callers

\* The storage demo implements BlockStore, on a drive that is not taken for a
\* blank one: no answer tells of work that was not done, or reaches another.
THEOREM DemoImplementsBlockStore ==
  ASSUME ~FalseBlank
  PROVE  Spec => ImplementsBlockStore
<1>1. Init => Store!Init /\ VerdictInv
  BY InitMaps, VerdictInit
<1>2. IInv /\ IInv' /\ VolumeSound /\ VerdictInv /\ [Next]_vars =>
        VerdictInv' /\ [Store!Next]_(Store!storeVars)
  BY VerdictStep, NextMaps DEF StoreStep
<1> QED
  BY <1>1, <1>2, InvariantHolds, VolumeInit, VolumeStep, PTL
  DEF Spec, ImplementsBlockStore, Store!Spec

-----------------------------------------------------------------------------
(* The demo as client_tasks.c and storage_demo.c set it up: its scenarios, *)
(* or some of them, and the timing they are built on.  T_S runs on: without*)
(* it no answer comes in time, which is what Punctual says they do.        *)
AsInTheDemo ==
  /\ Clients \subseteq DemoClients
  /\ Script = [c \in Clients |-> DemoScript(c)]
  /\ Punctual /\ "StorageSvc" \notin Stoppable

\* Requests that T_S has not finished with
InFlight == {queue[i] : i \in DOMAIN queue} \cup ({request} \ {NoRequest})

\* Nobody waits for its answer any more.
Late(r) == st[r.promise.slot] = "timedOut"

\* Where a scenario has given a request up that may still be on its way
MayBeLate(c, k) ==
  \/ c = "QTimeout" /\ k \in 11 .. 16
  \/ c = "LateDone" /\ k = 6
  \/ c = "AbaIso" /\ k \in 8 .. 12

LateInv ==
  /\ \A r \in InFlight : Late(r) => MayBeLate(r.from, pc[r.from])
  /\ \A q, r \in InFlight : Late(q) /\ Late(r) /\ q.from = r.from => q = r

\* A future is on a request of its own client.
OwnInv ==
  \A r \in InFlight, c \in Clients, h \in Futures :
    fut[c][h] # NoFuture /\ fut[c][h].slot = r.promise.slot => r.from = c

SizeInv == LateInv /\ OwnInv

\* How many slots and queue places a scenario takes at most
LateDisciplined(c, i, k) ==
  /\ i.op = "poll" => ~MayBeLate(c, k) /\ MayBeLate(c, i.ok) /\ MayBeLate(c, i.fail)
  /\ i.op # "sleep" /\ MayBeLate(c, k) => MayBeLate(c, i.ok) /\ MayBeLate(c, i.fail)
  /\ c = "Happy" => ~MayBeLate(c, k) /\ i.live \subseteq {"main"}
  /\ c = "QTimeout" /\ MayBeLate(c, k) => i.live \subseteq {"main"} \/ i.live \subseteq {"occupy"}
  /\ c = "LateDone" => i.live \subseteq {"main"} /\ (MayBeLate(c, k) => i.live = {})

LEMMA ScriptsAreLateDisciplined ==
  ASSUME AsInTheDemo, NEW c \in Clients, NEW k \in Points(c)
  PROVE  LateDisciplined(c, Script[c][k], k)
<1>1. Script[c] = DemoScript(c) /\ Points(c) = DOMAIN Script[c] /\ c \in DemoClients
  BY DEF AsInTheDemo, Points
<1>2. CASE c = "Happy"
  <2>1. Script[c] = HappyScript /\ k \in 1 .. 10
    BY <1>1, <1>2 DEF DemoScript, HappyScript
  <2>2. LateDisciplined("Happy", HappyScript[k], k)
    BY ONLY <2>1
    DEF HappyScript, Plain, CreateIn, SendOn, WaitOn, PollOn, Hurry, Step, OnlyMain, OnlyOccupy,
        Both, MayBeLate, LateDisciplined
  <2> QED
    BY <1>2, <2>1, <2>2
<1>3. CASE c = "QTimeout"
  <2>1. Script[c] = QueueTimeoutScript /\ k \in 1 .. 17
    BY <1>1, <1>3 DEF DemoScript, QueueTimeoutScript
  <2>2. LateDisciplined("QTimeout", QueueTimeoutScript[k], k)
    BY ONLY <2>1
    DEF QueueTimeoutScript, Plain, CreateIn, SendOn, WaitOn, PollOn, Hurry, Step,
        OnlyMain, OnlyOccupy,
        Both, MayBeLate, LateDisciplined
  <2> QED
    BY <1>3, <2>1, <2>2
<1>4. CASE c = "LateDone"
  <2>1. Script[c] = LateCompletionScript /\ k \in 1 .. 7
    BY <1>1, <1>4 DEF DemoScript, LateCompletionScript
  <2>2. LateDisciplined("LateDone", LateCompletionScript[k], k)
    BY ONLY <2>1
    DEF LateCompletionScript, Plain, CreateIn, SendOn, WaitOn, PollOn, Hurry, Step,
        OnlyMain, OnlyOccupy,
        Both, MayBeLate, LateDisciplined
  <2> QED
    BY <1>4, <2>1, <2>2
<1>5. CASE c = "AbaIso"
  <2>1. Script[c] = AbaIsolationScript /\ k \in 1 .. 13
    BY <1>1, <1>5 DEF DemoScript, AbaIsolationScript
  <2>2. LateDisciplined("AbaIso", AbaIsolationScript[k], k)
    BY ONLY <2>1
    DEF AbaIsolationScript, Plain, CreateIn, SendOn, WaitOn, PollOn, Hurry, Step,
        OnlyMain, OnlyOccupy,
        Both, MayBeLate, LateDisciplined
  <2> QED
    BY <1>5, <2>1, <2>2
<1> QED
  BY <1>1, <1>2, <1>3, <1>4, <1>5 DEF DemoClients

-----------------------------------------------------------------------------
(* Requests on their way, and the slots of their promises                  *)
LEMMA FlightType ==
  ASSUME IInv
  PROVE  \A r \in InFlight :
           /\ r \in Requests /\ r.promise \in Handles /\ r.promise.slot \in Slots
           /\ r.from \in Clients
           /\ "promise" \in held[r.promise.slot] /\ IsCurrent(r.promise)
           /\ st[r.promise.slot] \in {"pending", "timedOut"}
<1>1. \A r \in Requests : r.promise \in Handles /\ r.promise.slot \in Slots /\ r.from \in Clients
  BY DEF Requests, Handles
<1>2. \A r \in InFlight : r \in Requests
  BY QueueType, RequestType DEF InFlight
<1>3. \A r \in InFlight : "promise" \in held[r.promise.slot] /\ IsCurrent(r.promise)
  BY DEF IInv, PoolSafety, PromisesExclusive, InFlight
<1>4. \A s \in Slots : "promise" \in held[s] => st[s] \in {"pending", "timedOut"}
  BY DEF IInv, PoolSafety, StateFollowsHolders, TypeOK, PoolTypeOK, SlotStates
<1> QED
  BY <1>1, <1>2, <1>3, <1>4

LEMMA FlightApart ==
  ASSUME IInv, NEW q \in InFlight, NEW r \in InFlight, q.promise.slot = r.promise.slot
  PROVE  q = r
BY DEF IInv, PoolSafety, PromisesExclusive, InFlight

LEMMA UnsentApart ==
  ASSUME IInv, NEW r \in InFlight, NEW c \in Clients, Unsent(c)
  PROVE  PromiseOf(c).slot # r.promise.slot
BY DEF IInv, PoolSafety, PromisesExclusive, InFlight

\* Each future of a client is on a slot that is pending or resolved.
LEMMA FutureHeld ==
  ASSUME IInv, NEW c \in Clients, NEW h \in Futures, fut[c][h] # NoFuture
  PROVE  fut[c][h].slot \in Slots /\ st[fut[c][h].slot] \in {"pending", "resolved"}
<1>1. fut[c][h].slot \in Slots /\ "future" \in held[fut[c][h].slot]
  BY FutureType DEF IInv, PoolSafety, FuturesExclusive
<1> QED
  BY <1>1 DEF IInv, PoolSafety, StateFollowsHolders, TypeOK, PoolTypeOK, SlotStates

\* What the steps do to the requests on their way
LEMMA SameFlight ==
  ASSUME UNCHANGED <<queue, request>>
  PROVE  InFlight' = InFlight
BY DEF InFlight

LEMMA ReceiveFlight ==
  ASSUME IInv, Receive
  PROVE  InFlight' = InFlight
<1>1. queue \in Seq(Requests) /\ queue # <<>> /\ request = NoRequest
      /\ request' = Head(queue) /\ queue' = Tail(queue)
  BY DEF IInv, TypeOK, SharedTypeOK, Receive, QueueReceive, ServicerReady
<1>2. Head(queue) # NoRequest
  BY <1>1, TailItems, ServiceAssumption
<1>3. ASSUME NEW r \in InFlight PROVE r \in InFlight'
  <2>1. PICK j \in DOMAIN queue : r = queue[j]
    BY <1>1, <1>3 DEF InFlight
  <2>2. CASE j = 1
    BY <1>1, <1>2, <2>1, <2>2, TailItems DEF InFlight
  <2>3. CASE j # 1
    <3>1. j - 1 \in DOMAIN Tail(queue) /\ Tail(queue)[j - 1] = queue[j]
      BY <1>1, <2>3, TailItems
    <3> QED
      BY <1>1, <2>1, <3>1 DEF InFlight
  <2> QED
    BY <2>2, <2>3
<1>4. ASSUME NEW r \in InFlight' PROVE r \in InFlight
  <2>1. CASE r = Head(queue)
    BY <1>1, <2>1, TailItems DEF InFlight
  <2>2. CASE \E i \in DOMAIN Tail(queue) : r = Tail(queue)[i]
    BY <1>1, <2>2, TailItems DEF InFlight
  <2> QED
    BY <1>1, <1>4, <2>1, <2>2 DEF InFlight
<1> QED
  BY <1>3, <1>4

LEMMA SendFlight ==
  ASSUME IInv, NEW c \in Clients, Send(c), UNCHANGED svcVars
  PROVE  InFlight' = InFlight \cup {RequestOf(c)}
<1>1. queue \in Seq(Requests) /\ RequestOf(c) \in Requests /\ queue' = Append(queue, RequestOf(c))
      /\ request' = request
  <2>1. Unsent(c) /\ PromiseOf(c) # NoFuture
    BY DEF Send, Unsent, IInv, PoolSafety, PromisesExclusive
  <2> QED
    BY <2>1, UnsentType, ScriptFacts
    DEF RequestOf, PromiseOf, Requests, Instructions, IInv, TypeOK, SharedTypeOK, Send, QueueSend,
        svcVars
<1>2. /\ Len(queue) + 1 \in DOMAIN queue' /\ queue'[Len(queue) + 1] = RequestOf(c)
      /\ \A i \in DOMAIN queue : i \in DOMAIN queue' /\ queue'[i] = queue[i]
      /\ \A i \in DOMAIN queue' : i = Len(queue) + 1 \/ i \in DOMAIN queue
  BY <1>1, AppendItems
<1> QED
  BY <1>1, <1>2 DEF InFlight

\* T_S answers the request in its hands, or lets its slot go.
LEMMA ResolveEffect ==
  ASSUME IInv, ResolvePromise
  PROVE  /\ request \in InFlight /\ at = "resolve" /\ outcome # NoAnswer
         /\ InFlight' = InFlight \ {request}
         /\ \A t \in Slots : t # request.promise.slot => st'[t] = st[t] /\ ans'[t] = ans[t]
         /\ st[request.promise.slot] = "pending" =>
              st'[request.promise.slot] = "resolved" /\ ans'[request.promise.slot] = outcome
         /\ st[request.promise.slot] = "timedOut" => st'[request.promise.slot] = "free"
<1> DEFINE s == request.promise.slot
<1>1. /\ UNCHANGED queue /\ request # NoRequest /\ request' = NoRequest
      /\ at = "resolve" /\ outcome # NoAnswer
  BY DEF ResolvePromise, IInv, ServicerReady
<1>2. s \in Slots /\ IsCurrent(request.promise) /\ "promise" \in held[s]
  BY <1>1, RequestSlot
<1>3. st \in [Slots -> SlotStates] /\ ans \in [Slots -> Answers \cup {NoAnswer}]
  BY DEF IInv, TypeOK, PoolTypeOK
<1>4. \A t \in Slots : t # s => st'[t] = st[t] /\ ans'[t] = ans[t]
  BY <1>1, <1>2, <1>3 DEF ResolvePromise, Resolve, LeaveSlot
<1>5. ASSUME st[s] = "pending" PROVE st'[s] = "resolved" /\ ans'[s] = outcome
  <2>1. held[s] = Sides /\ held[s] \ {"promise"} # {}
    BY <1>2, <1>5 DEF IInv, PoolSafety, StateFollowsHolders, Sides
  <2> QED
    BY <1>2, <1>3, <1>5, <2>1 DEF ResolvePromise, Resolve, LeaveSlot
<1>6. ASSUME st[s] = "timedOut" PROVE st'[s] = "free"
  <2>1. held[s] = {"promise"} /\ held[s] \ {"promise"} = {}
    BY <1>2, <1>6 DEF IInv, PoolSafety, StateFollowsHolders
  <2> QED
    BY <1>2, <1>3, <1>6, <2>1 DEF ResolvePromise, Resolve, LeaveSlot
<1>7. \A i \in DOMAIN queue : queue[i] # request
  BY <1>1 DEF IInv, PoolSafety, PromisesExclusive
<1> QED
  BY <1>1, <1>4, <1>5, <1>6, <1>7 DEF InFlight

\* A new pair is on a slot that was free, or there was none.
LEMMA CreateEffect ==
  ASSUME IInv, NEW c \in Clients, CreatePair(c)
  PROVE  /\ Instr(c).op = "create" /\ UNCHANGED sharedVars
         /\ \/ /\ FreeSlots = {} /\ UNCHANGED <<poolVars, fut>>
               /\ Goto(c, Instr(c).fail, FALSE)
            \/ /\ Goto(c, Instr(c).ok, TRUE)
               /\ \E s \in Slots :
                    /\ st[s] = "free" /\ st'[s] = "pending" /\ ans' = ans
                    /\ \A t \in Slots : t # s => st'[t] = st[t]
                    /\ fut'[c][Instr(c).h] = HandleOn(s)
                    /\ \A d \in Clients, k \in Futures :
                         <<d, k>> # <<c, Instr(c).h>> => fut'[d][k] = fut[d][k]
<1>1. CASE FreeSlots = {} /\ Goto(c, Instr(c).fail, FALSE) /\ UNCHANGED <<poolVars, fut>>
  BY <1>1 DEF CreatePair
<1>2. ASSUME NEW s \in Slots, FirstFree(s), Claim(s), SetFuture(c, Instr(c).h, HandleOn(s)),
             Goto(c, Instr(c).ok, TRUE)
      PROVE  /\ st[s] = "free" /\ st'[s] = "pending" /\ ans' = ans
             /\ \A t \in Slots : t # s => st'[t] = st[t]
             /\ fut'[c][Instr(c).h] = HandleOn(s)
             /\ \A d \in Clients, k \in Futures :
                  <<d, k>> # <<c, Instr(c).h>> => fut'[d][k] = fut[d][k]
  <2>1. /\ st'[s] = "pending" /\ ans' = ans
        /\ \A t \in Slots : t # s => st'[t] = st[t]
    BY <1>2, ClaimEffect DEF IInv, TypeOK
  <2>2. HandleOn(s) \in Handles
    BY DEF HandleOn, Handles, IInv, TypeOK, PoolTypeOK
  <2> QED
    BY <1>2, <2>1, <2>2, FutureSet, ScriptFacts DEF FirstFree
<1> QED
  BY <1>1, <1>2 DEF CreatePair

\* A client lets go of a future, and of its slot unless the promise is out.
LEMMA LetGoEffect ==
  ASSUME IInv, NEW c \in Clients, AwaitAnswer(c) \/ AwaitTimesOut(c) \/ SendTimesOut(c)
  PROVE  /\ fut[c][Instr(c).h] # NoFuture /\ fut[c][Instr(c).h].slot \in Slots
         /\ \A t \in Slots : t # fut[c][Instr(c).h].slot => st'[t] = st[t] /\ ans'[t] = ans[t]
         /\ fut'[c][Instr(c).h] = NoFuture
         /\ \A d \in Clients, k \in Futures :
              <<d, k>> # <<c, Instr(c).h>> => fut'[d][k] = fut[d][k]
         /\ UNCHANGED sharedVars
         /\ ~AwaitTimesOut(c) => st'[fut[c][Instr(c).h].slot] = "free"
<1> DEFINE h == Instr(c).h
           s == fut[c][h].slot
<1>1. fut[c][h] # NoFuture /\ s \in Slots /\ h \in Futures
  <2>1. h \in Instr(c).live /\ h \in Futures
    BY ScriptFacts DEF AwaitAnswer, AwaitTimesOut, SendTimesOut, Disciplined, Instr
  <2> QED
    BY <2>1, FutureType DEF IInv, FuturesFollowScript
<1>2. /\ fut'[c][h] = NoFuture
      /\ \A d \in Clients, k \in Futures : <<d, k>> # <<c, h>> => fut'[d][k] = fut[d][k]
  BY <1>1, FutureSet DEF AwaitAnswer, AwaitTimesOut, SendTimesOut, Conclude
<1>3. \A t \in Slots : t # s => st'[t] = st[t] /\ ans'[t] = ans[t]
  BY <1>1 DEF AwaitAnswer, AwaitTimesOut, SendTimesOut, TakeAnswer, GiveUp, Abandon, LeaveSlot,
              IInv, TypeOK, PoolTypeOK
<1>4. ASSUME AwaitAnswer(c) PROVE st'[s] = "free"
  <2>1. held[s] \ {"future"} = {}
    BY <1>1, <1>4 DEF AwaitAnswer, TakeAnswer, IInv, PoolSafety, StateFollowsHolders
  <2> QED
    BY <1>1, <1>4, <2>1 DEF AwaitAnswer, TakeAnswer, LeaveSlot, IInv, TypeOK, PoolTypeOK
<1>5. ASSUME SendTimesOut(c) PROVE st'[s] = "free"
  BY <1>1, <1>5 DEF SendTimesOut, Abandon, LeaveSlot, IInv, TypeOK, PoolTypeOK
<1>6. UNCHANGED sharedVars
  BY DEF AwaitAnswer, AwaitTimesOut, SendTimesOut
<1> QED
  BY <1>1, <1>2, <1>3, <1>4, <1>5, <1>6

-----------------------------------------------------------------------------
(* At most one request of a client is late, where its script says so, and  *)
(* whoever holds a future on a request has sent it.                        *)
LEMMA LateKept ==
  ASSUME LateInv,
         \A r \in InFlight' : Late(r)' =>
           /\ r \in InFlight /\ Late(r)
           /\ MayBeLate(r.from, pc[r.from]) => MayBeLate(r.from, pc'[r.from])
  PROVE  LateInv'
BY DEF LateInv

LEMMA OwnKept ==
  ASSUME OwnInv,
         \A r \in InFlight', c \in Clients, h \in Futures :
           fut'[c][h] # NoFuture /\ fut'[c][h].slot = r.promise.slot =>
             r \in InFlight /\ fut[c][h] = fut'[c][h]
  PROVE  OwnInv'
BY DEF OwnInv

LEMMA LateMoves ==
  ASSUME AsInTheDemo, IInv, NEW c \in Clients, Instr(c).op # "sleep",
         NEW n \in {Instr(c).ok, Instr(c).fail}, pc' = [pc EXCEPT ![c] = n]
  PROVE  \A d \in Clients : MayBeLate(d, pc[d]) => MayBeLate(d, pc'[d])
<1>1. pc'[c] = n /\ \A d \in Clients : d # c => pc'[d] = pc[d]
  BY DEF IInv, TypeOK, ClientTypeOK
<1>2. LateDisciplined(c, Instr(c), pc[c])
  BY ScriptFacts, ScriptsAreLateDisciplined DEF Instr
<1> QED
  BY <1>1, <1>2 DEF LateDisciplined

\* Neither a slot, nor a future, nor a request on its way is touched.
LEMMA SizeIdle ==
  ASSUME IInv, SizeInv, InFlight' = InFlight, UNCHANGED <<poolVars, fut>>,
         \A r \in InFlight :
           Late(r) /\ MayBeLate(r.from, pc[r.from]) => MayBeLate(r.from, pc'[r.from])
  PROVE  SizeInv'
<1>1. LateInv'
  BY LateKept DEF SizeInv, Late, poolVars
<1>2. OwnInv'
  BY OwnKept DEF SizeInv
<1> QED
  BY <1>1, <1>2 DEF SizeInv

LEMMA SizeServicer ==
  ASSUME IInv, SizeInv, UNCHANGED clientVars, QuietServicer \/ Receive \/ ResolvePromise
  PROVE  SizeInv'
<1>0. UNCHANGED <<pc, fut>>
  BY DEF clientVars
<1>1. CASE QuietServicer
  BY <1>0, <1>1, QuietServicerFrame, SameFlight, SizeIdle
<1>2. CASE Receive
  BY <1>0, <1>2, ReceiveFlight, SizeIdle DEF Receive
<1>3. CASE ResolvePromise
  <2>2. \A r \in InFlight' : r \in InFlight /\ (Late(r)' => Late(r))
    BY <1>3, ResolveEffect, FlightType, FlightApart DEF Late
  <2>3. LateInv'
    BY <1>0, <2>2, LateKept DEF SizeInv
  <2>4. OwnInv'
    BY <1>0, <2>2, OwnKept DEF SizeInv
  <2> QED
    BY <2>3, <2>4 DEF SizeInv
<1> QED
  BY <1>1, <1>2, <1>3

LEMMA SizeMoves ==
  ASSUME AsInTheDemo, IInv, SizeInv, NEW c \in Clients, UNCHANGED svcVars,
         WaitForMedia(c) \/ IterationTop(c) \/ NextIteration(c)
  PROVE  SizeInv'
<1>1. UNCHANGED <<poolVars, fut, sharedVars>> /\ InFlight' = InFlight
  BY SameFlight DEF WaitForMedia, IterationTop, NextIteration, Sleep, sharedVars, svcVars
<1>2. CASE WaitForMedia(c) \/ IterationTop(c)
  <2>1. PICK n \in {Instr(c).ok, Instr(c).fail} : pc' = [pc EXCEPT ![c] = n]
    BY <1>2 DEF WaitForMedia, IterationTop, Goto
  <2>2. Instr(c).op # "sleep"
    BY <1>2 DEF WaitForMedia, IterationTop
  <2> QED
    BY <1>1, <2>1, <2>2, LateMoves, SizeIdle, FlightType
<1>3. CASE NextIteration(c)
  <2>1. \A r \in InFlight : r.from # c
    BY <1>3 DEF NextIteration, AsInTheDemo, Outstanding, InFlight
  <2>2. \A d \in Clients : d # c => pc'[d] = pc[d]
    BY <1>3 DEF NextIteration, Sleep, IInv, TypeOK, ClientTypeOK
  <2> QED
    BY <1>1, <2>1, <2>2, SizeIdle, FlightType
<1> QED
  BY <1>2, <1>3

LEMMA SizeCreates ==
  ASSUME AsInTheDemo, IInv, SizeInv, NEW c \in Clients, UNCHANGED svcVars, CreatePair(c)
  PROVE  SizeInv'
<1>1. InFlight' = InFlight /\ Instr(c).op # "sleep"
  BY CreateEffect, SameFlight DEF sharedVars, svcVars
<1>2. \A d \in Clients : MayBeLate(d, pc[d]) => MayBeLate(d, pc'[d])
  BY <1>1, CreateEffect, LateMoves DEF Goto
<1>3. CASE UNCHANGED <<poolVars, fut>>
  BY <1>1, <1>2, <1>3, SizeIdle, FlightType
<1>4. ASSUME NEW s \in Slots, st[s] = "free", \A t \in Slots : t # s => st'[t] = st[t],
             fut'[c][Instr(c).h] = HandleOn(s),
             \A d \in Clients, k \in Futures :
               <<d, k>> # <<c, Instr(c).h>> => fut'[d][k] = fut[d][k]
      PROVE  SizeInv'
  <2>1. \A r \in InFlight : r.promise.slot # s /\ r.promise.slot \in Slots /\ r.from \in Clients
    BY <1>4, FlightType
  <2>2. LateInv'
    BY <1>1, <1>2, <1>4, <2>1, LateKept DEF SizeInv, Late
  <2>3. HandleOn(s).slot = s
    BY DEF HandleOn
  <2>4. OwnInv'
    BY <1>1, <1>4, <2>1, <2>3, OwnKept DEF SizeInv
  <2> QED
    BY <2>2, <2>4 DEF SizeInv
<1> QED
  BY <1>3, <1>4, CreateEffect

LEMMA SizeSends ==
  ASSUME AsInTheDemo, IInv, SizeInv, NEW c \in Clients, UNCHANGED svcVars, Send(c)
  PROVE  SizeInv'
<1>1. InFlight' = InFlight \cup {RequestOf(c)} /\ UNCHANGED <<poolVars, fut>>
  BY SendFlight DEF Send
<1>2. \A d \in Clients : MayBeLate(d, pc[d]) => MayBeLate(d, pc'[d])
  BY LateMoves DEF Send, Goto
<1>3. /\ RequestOf(c).from = c /\ RequestOf(c).promise = fut[c][Instr(c).h]
      /\ fut[c][Instr(c).h] # NoFuture /\ Instr(c).h \in Futures
      /\ st[fut[c][Instr(c).h].slot] # "timedOut"
  <2>1. Unsent(c) /\ PromiseOf(c) # NoFuture
    BY DEF Send, Unsent, IInv, PoolSafety, PromisesExclusive
  <2>2. Instr(c).h \in Futures
    BY ScriptFacts
  <2> QED
    BY <2>1, <2>2, FutureHeld DEF PromiseOf, RequestOf
<1>4. LateInv'
  BY <1>1, <1>2, <1>3, FlightType, LateKept DEF SizeInv, Late, poolVars
<1>5. OwnInv'
  <2> SUFFICES ASSUME NEW r \in InFlight', NEW d \in Clients, NEW h \in Futures,
                      fut[d][h] # NoFuture, fut[d][h].slot = r.promise.slot
               PROVE  r.from = d
    BY <1>1 DEF OwnInv
  <2>1. CASE r \in InFlight
    BY <2>1 DEF SizeInv, OwnInv
  <2>2. CASE r = RequestOf(c)
    BY <1>3, <2>2 DEF IInv, PoolSafety, FuturesExclusive
  <2> QED
    BY <1>1, <2>1, <2>2
<1> QED
  BY <1>4, <1>5 DEF SizeInv

LEMMA SizeLetsGo ==
  ASSUME AsInTheDemo, IInv, SizeInv, NEW c \in Clients, UNCHANGED svcVars,
         AwaitAnswer(c) \/ AwaitTimesOut(c) \/ SendTimesOut(c)
  PROVE  SizeInv'
<1> DEFINE s == fut[c][Instr(c).h].slot
<1>1. InFlight' = InFlight /\ Instr(c).op # "sleep" /\ Instr(c).h \in Futures
  BY LetGoEffect, SameFlight, ScriptFacts
  DEF sharedVars, svcVars, AwaitAnswer, AwaitTimesOut, SendTimesOut
<1>2. PICK n \in {Instr(c).ok, Instr(c).fail} : pc' = [pc EXCEPT ![c] = n]
  BY DEF AwaitAnswer, AwaitTimesOut, SendTimesOut, Conclude, Goto
<1>3. \A d \in Clients : MayBeLate(d, pc[d]) => MayBeLate(d, pc'[d])
  BY <1>1, <1>2, LateMoves
<1>4. OwnInv'
  BY <1>1, LetGoEffect, OwnKept DEF SizeInv
<1>5. CASE ~AwaitTimesOut(c)
  <2>1. LateInv'
    BY <1>1, <1>3, <1>5, LetGoEffect, FlightType, LateKept DEF SizeInv, Late
  <2> QED
    BY <1>4, <2>1 DEF SizeInv
<1>6. CASE AwaitTimesOut(c)
  <2>1. Instr(c).op = "poll"
    BY <1>6 DEF AwaitTimesOut, AsInTheDemo
  <2>2. ~MayBeLate(c, pc[c]) /\ MayBeLate(c, n)
    BY <1>2, <2>1, ScriptFacts, ScriptsAreLateDisciplined DEF LateDisciplined, Instr
  <2>3. pc'[c] = n
    BY <1>2 DEF IInv, TypeOK, ClientTypeOK
  <2>4. \A r \in InFlight : r.promise.slot = s => r.from = c
    BY <1>1, LetGoEffect DEF SizeInv, OwnInv
  <2>5. \A r \in InFlight : Late(r) => r.from # c
    BY <2>2 DEF SizeInv, LateInv
  <2>6. \A r \in InFlight : r.promise.slot # s => (Late(r)' <=> Late(r))
    BY LetGoEffect, FlightType DEF Late
  <2>7. \A r \in InFlight : Late(r)' => MayBeLate(r.from, pc'[r.from])
    BY <1>3, <2>2, <2>3, <2>4, <2>6, FlightType DEF SizeInv, LateInv
  <2>8. \A q, r \in InFlight : Late(q)' /\ Late(r)' /\ q.from = r.from => q = r
    BY <2>4, <2>5, <2>6, FlightApart DEF SizeInv, LateInv
  <2>9. LateInv'
    BY <1>1, <2>7, <2>8 DEF LateInv
  <2> QED
    BY <1>4, <2>9 DEF SizeInv
<1> QED
  BY <1>5, <1>6

LEMMA SizeInit == Init => SizeInv
<1> SUFFICES ASSUME Init PROVE SizeInv
  OBVIOUS
<1>1. InFlight = {}
  BY DEF Init, SharedInit, ServiceInit, InFlight
<1> QED
  BY <1>1 DEF SizeInv, LateInv, OwnInv

LEMMA SizeNext ==
  ASSUME AsInTheDemo
  PROVE  IInv /\ SizeInv /\ [Next]_vars => SizeInv'
<1> SUFFICES ASSUME IInv, SizeInv, [Next]_vars PROVE SizeInv'
  OBVIOUS
<1>1. CASE ServicerStep \/ Media
  BY <1>1, SizeServicer DEF ServicerStep, Media, SlowDelayOver, QuietServicer
<1>2. ASSUME NEW c \in Clients, ClientStep(c) PROVE SizeInv'
  BY <1>2, SizeMoves, SizeCreates, SizeSends, SizeLetsGo DEF ClientStep
<1>3. CASE UNCHANGED vars \/ \E t \in Stoppable : RequestStop(t)
  <2>1. UNCHANGED <<poolVars, queue, request, clientVars>>
    BY <1>3 DEF vars, RequestStop, sharedVars, svcVars
  <2> QED
    BY <2>1, SameFlight, SizeIdle DEF clientVars
<1> QED
  BY <1>1, <1>2, <1>3 DEF Next

-----------------------------------------------------------------------------
(* What a client has a part in: a future of its own, or a late request     *)
Owned(c) ==
  {s \in Slots :
     \/ \E h \in Instr(c).live : fut[c][h].slot = s
     \/ \E r \in InFlight : Late(r) /\ r.from = c /\ r.promise.slot = s}

LEMMA LiveAreOwned ==
  ASSUME IInv
  PROVE  \A s \in LiveSlots : \E c \in Clients : s \in Owned(c)
<1> SUFFICES ASSUME NEW s \in Slots, st[s] # "free"
             PROVE  \E c \in Clients : s \in Owned(c)
  BY DEF LiveSlots, FreeSlots
<1>1. CASE "future" \in held[s]
  <2>1. PICK c \in Clients, h \in Futures : fut[c][h] # NoFuture /\ fut[c][h].slot = s
    BY <1>1 DEF IInv, PoolSafety, NoSlotLost
  <2>2. h \in Instr(c).live
    BY <2>1 DEF IInv, FuturesFollowScript
  <2> QED
    BY <2>1, <2>2 DEF Owned
<1>2. CASE "future" \notin held[s]
  <2>1. held[s] = {"promise"} /\ st[s] = "timedOut"
    BY <1>2 DEF IInv, PoolSafety, StateFollowsHolders, TypeOK, PoolTypeOK, Sides
  <2>2. \A c \in Clients : Unsent(c) => PromiseOf(c).slot # s
    <3> SUFFICES ASSUME NEW c \in Clients, Unsent(c), PromiseOf(c).slot = s
                 PROVE  FALSE
      OBVIOUS
    <3>1. PromiseOf(c) # NoFuture /\ Instr(c).h \in Futures
      BY ScriptFacts DEF IInv, PoolSafety, PromisesExclusive
    <3> QED
      BY <1>2, <3>1 DEF PromiseOf, IInv, PoolSafety, FuturesExclusive
  <2>3. PICK r \in InFlight : r.promise.slot = s
    BY <2>1, <2>2 DEF IInv, PoolSafety, NoSlotLost, InFlight
  <2> QED
    BY <2>1, <2>3, FlightType DEF Owned, Late
<1> QED
  BY <1>1, <1>2

\* All the late requests of a client are on one slot.
LEMMA OneLateSlot ==
  ASSUME SizeInv, NEW c \in Clients
  PROVE  \E l : \A r \in InFlight : Late(r) /\ r.from = c => r.promise.slot = l
<1>1. CASE \E q \in InFlight : Late(q) /\ q.from = c
  <2>1. PICK q \in InFlight : Late(q) /\ q.from = c
    BY <1>1
  <2>2. \A r \in InFlight : Late(r) /\ r.from = c => r.promise.slot = q.promise.slot
    BY <2>1 DEF SizeInv, LateInv
  <2> QED
    BY <2>2
<1> QED
  BY <1>1

\* How many slots each scenario may have a part in at once
LEMMA OwnedBound ==
  ASSUME AsInTheDemo, IInv, SizeInv, NEW c \in Clients
  PROVE  \E x, y, z : /\ Owned(c) \subseteq {x, y, z}
                      /\ c \in {"Happy", "LateDone"} => Owned(c) \subseteq {x}
                      /\ c = "QTimeout" => Owned(c) \subseteq {x, y}
<1> DEFINE m == fut[c]["main"].slot
           o == fut[c]["occupy"].slot
<1>1. PICK l : \A r \in InFlight : Late(r) /\ r.from = c => r.promise.slot = l
  BY OneLateSlot
<1>2. LateDisciplined(c, Instr(c), pc[c]) /\ Instr(c).live \subseteq {"main", "occupy"}
  BY ScriptFacts, ScriptsAreLateDisciplined DEF Instr, Instructions, Futures
<1>3. ~MayBeLate(c, pc[c]) => \A r \in InFlight : Late(r) => r.from # c
  BY DEF SizeInv, LateInv
<1>4. Owned(c) \subseteq {m, o, l}
  BY <1>1, <1>2 DEF Owned
<1>5. CASE c = "Happy"
  <2>1. Owned(c) \subseteq {m}
    BY <1>2, <1>3, <1>5 DEF LateDisciplined, Owned
  <2> QED
    BY <1>5, <2>1
<1>6. CASE c = "LateDone"
  <2>1. CASE MayBeLate(c, pc[c])
    <3>1. Owned(c) \subseteq {l}
      BY <1>1, <1>2, <1>6, <2>1 DEF LateDisciplined, Owned
    <3> QED
      BY <1>6, <3>1
  <2>2. CASE ~MayBeLate(c, pc[c])
    <3>1. Owned(c) \subseteq {m}
      BY <1>2, <1>3, <1>6, <2>2 DEF LateDisciplined, Owned
    <3> QED
      BY <1>6, <3>1
  <2> QED
    BY <2>1, <2>2
<1>7. CASE c = "QTimeout"
  <2>1. CASE ~MayBeLate(c, pc[c])
    <3>1. Owned(c) \subseteq {m, o}
      BY <1>2, <1>3, <2>1 DEF Owned
    <3> QED
      BY ONLY <1>7, <3>1
  <2>2. CASE MayBeLate(c, pc[c]) /\ Instr(c).live \subseteq {"main"}
    <3>1. Owned(c) \subseteq {m, l}
      BY <1>1, <2>2 DEF Owned
    <3> QED
      BY ONLY <1>7, <3>1
  <2>3. CASE MayBeLate(c, pc[c]) /\ Instr(c).live \subseteq {"occupy"}
    <3>1. Owned(c) \subseteq {o, l}
      BY <1>1, <2>3 DEF Owned
    <3> QED
      BY ONLY <1>7, <3>1
  <2> QED
    BY <1>2, <1>7, <2>1, <2>2, <2>3 DEF LateDisciplined
<1>8. CASE c \notin {"Happy", "LateDone", "QTimeout"}
  BY <1>4, <1>8
<1> QED
  BY <1>5, <1>6, <1>7, <1>8

LEMMA AtMostSeven ==
  ASSUME NEW S, NEW a, NEW b, NEW c, NEW d, NEW e, NEW f, NEW g,
         S \subseteq {a, b, c, d, e, f, g}
  PROVE  IsFiniteSet(S) /\ Cardinality(S) <= 7 /\ Cardinality(S) \in Nat
<1> DEFINE T == {a, b, c, d, e, f, g}
           all == <<a, b, c, d, e, f, g>>
<1>1. IsFiniteSet(1 .. 7) /\ Cardinality(1 .. 7) = 7
  <2>1. ASSUME NEW n \in Nat PROVE IsFiniteSet(1 .. n) /\ Cardinality(1 .. n) = n
    <3>1. /\ IsFiniteSet(1 .. n)
          /\ Cardinality(1 .. n) = IF 1 > n THEN 0 ELSE n - 1 + 1
      BY FS_Interval
    <3> QED
      BY <3>1
  <2> QED
    BY <2>1
<1>2. all \in Surjection(1 .. 7, T)
  <2>1. all \in [1 .. 7 -> T]
    OBVIOUS
  <2>2. \A t \in T : \E i \in 1 .. 7 : all[i] = t
    <3>1. /\ all[1] = a /\ all[2] = b /\ all[3] = c /\ all[4] = d
          /\ all[5] = e /\ all[6] = f /\ all[7] = g
      OBVIOUS
    <3> HIDE DEF all
    <3> QED
      BY <3>1
  <2> QED
    BY <2>1, <2>2 DEF Surjection
<1> HIDE DEF T, all
<1>3. IsFiniteSet(T) /\ Cardinality(T) <= 7
  BY <1>1, <1>2, FS_Surjection
<1>4. IsFiniteSet(S) /\ Cardinality(S) <= Cardinality(T)
  BY <1>3, FS_Subset DEF T
<1>5. Cardinality(S) \in Nat /\ Cardinality(T) \in Nat
  BY <1>3, <1>4, FS_CardinalityType
<1> DEFINE p == Cardinality(S)
           q == Cardinality(T)
<1>6. p \in Nat /\ q \in Nat /\ p <= q /\ q <= 7
  BY <1>3, <1>4, <1>5
<1> HIDE DEF p, q
<1>7. p <= 7
  BY <1>6
<1> QED
  BY <1>4, <1>5, <1>7 DEF p

LEMMA SizesFollow ==
  ASSUME AsInTheDemo, IInv, SizeInv
  PROVE  SizedForOverlap
<1> DEFINE Part(c) == IF c \in Clients THEN Owned(c) ELSE {}
<1>1. \A c \in DemoClients : \E x, y, z :
        /\ Part(c) \subseteq {x, y, z}
        /\ c \in {"Happy", "LateDone"} => Part(c) \subseteq {x}
        /\ c = "QTimeout" => Part(c) \subseteq {x, y}
  BY OwnedBound
<1>2. PICK a : Part("Happy") \subseteq {a}
  BY <1>1 DEF DemoClients
<1>3. PICK b, c : Part("QTimeout") \subseteq {b, c}
  BY <1>1 DEF DemoClients
<1>4. PICK d : Part("LateDone") \subseteq {d}
  BY <1>1 DEF DemoClients
<1>5. PICK e, f, g : Part("AbaIso") \subseteq {e, f, g}
  BY <1>1 DEF DemoClients
<1>6. LiveSlots \subseteq {a, b, c, d, e, f, g}
  <2> SUFFICES ASSUME NEW s \in LiveSlots
               PROVE  s \in {a, b, c, d, e, f, g}
    OBVIOUS
  <2>1. PICK k \in Clients : s \in Owned(k)
    BY LiveAreOwned
  <2>2. s \in Part(k) /\ k \in {"Happy", "QTimeout", "LateDone", "AbaIso"}
    BY <2>1 DEF AsInTheDemo, DemoClients
  <2> HIDE DEF Part
  <2> QED
    BY <1>2, <1>3, <1>4, <1>5, <2>2
<1>7. IsFiniteSet(LiveSlots) /\ Cardinality(LiveSlots) <= 7 /\ Cardinality(LiveSlots) \in Nat
  BY <1>6, AtMostSeven
<1>8. Len(queue) <= Cardinality(LiveSlots) /\ Len(queue) \in Nat
  <2> DEFINE slotOf == [i \in 1 .. Len(queue) |-> queue[i].promise.slot]
  <2>1. Len(queue) \in Nat /\ DOMAIN queue = 1 .. Len(queue)
    BY LenProperties DEF IInv, TypeOK, SharedTypeOK
  <2>2. slotOf \in Injection(1 .. Len(queue), LiveSlots)
    <3>1. \A i \in DOMAIN queue : queue[i].promise.slot \in LiveSlots
      BY FlightType DEF InFlight, LiveSlots, FreeSlots
    <3>2. \A i, j \in DOMAIN queue : queue[i].promise.slot = queue[j].promise.slot => i = j
      BY DEF IInv, PoolSafety, PromisesExclusive
    <3>3. slotOf \in [1 .. Len(queue) -> LiveSlots]
      BY <2>1, <3>1
    <3>4. \A i, j \in 1 .. Len(queue) : slotOf[i] = slotOf[j] => i = j
      BY <2>1, <3>2
    <3> QED
      BY <3>3, <3>4 DEF Injection, IsInjective
  <2>3. Cardinality(1 .. Len(queue)) <= Cardinality(LiveSlots)
    BY <1>7, <2>2, FS_Injection
  <2>4. Cardinality(1 .. Len(queue)) = Len(queue)
    <3> DEFINE n == Len(queue)
    <3>1. n \in Nat /\ 1 \in Int /\ n \in Int
      BY <2>1
    <3> HIDE DEF n
    <3>2. Cardinality(1 .. n) = IF 1 > n THEN 0 ELSE n - 1 + 1
      BY <3>1, FS_Interval
    <3>3. Cardinality(1 .. n) = n
      BY <3>1, <3>2
    <3> QED
      BY <3>3 DEF n
  <2> QED
    BY <2>1, <2>3, <2>4
<1> QED
  BY <1>7, <1>8 DEF SizedForOverlap

(* The demo's own sizing comment: no more than seven pairs, and no more    *)
(* than seven requests in the queue, in whatever order the tasks of        *)
(* client_tasks.c run, whichever of them are asked to stop and whatever the*)
(* media do.                                                               *)
THEOREM DemoIsSizedForOverlap ==
  ASSUME AsInTheDemo
  PROVE  Spec => []SizedForOverlap
<1>1. IInv /\ SizeInv /\ [Next]_vars => SizeInv'
  BY SizeNext
<1>2. IInv /\ SizeInv => SizedForOverlap
  BY SizesFollow
<1> QED
  BY <1>1, <1>2, InitInvariant, NextInvariant, SizeInit, PTL DEF Spec

-----------------------------------------------------------------------------
(* The scenarios pass.  What is told apart: where a scenario is, what it   *)
(* has asked for with each of its futures, and what is in the two blocks   *)
(* that are read back.                                                     *)

\* The demo on a board whose drive stays in and has room, with more slots and more
\* queue places than the seven that are ever taken
HealthyBoard ==
  /\ AsInTheDemo
  /\ Blocks = DemoBlocks /\ SlowBlock = DemoSlowBlock /\ Blank = DemoBlank
  /\ Answers = DemoAnswers /\ TimeoutAnswer = DemoTimeout
  /\ ~MediaFails /\ ~VolumeFills /\ ~FalseBlank
  /\ IsFiniteSet(Slots) /\ Cardinality(Slots) > 7 /\ QueueDepth > 7

\* The blocks that scenarios read back, and what they put there before
Kept == {"block1", "block2"}
Content(b) == IF b = "block1" THEN "pattern" ELSE "canary"
Stored(b) == b \in Kept => disk[b] = Content(b)

\* What a scenario has asked for with the future h, the latest time
Asked(c, k, h) ==
  CASE c = "Happy" -> IF k <= 5 THEN Ask("Write", "block1", "pattern")
                      ELSE Ask("Read", "block1", DemoBlank)
    [] c = "QTimeout" -> IF h = "occupy" THEN NoLoad
                         ELSE IF k <= 6 THEN Ask("Write", "block2", "canary")
                         ELSE IF k <= 11 THEN Ask("Write", "block2", "attempted")
                         ELSE Ask("Read", "block2", DemoBlank)
    [] c = "LateDone" -> Ask("Write", DemoSlowBlock, "attempted")
    [] c = "AbaIso" -> IF h = "occupy" THEN NoLoad
                       ELSE IF k <= 7 THEN Ask("GetStatus", "block4A", DemoBlank)
                       ELSE Ask("Write", "block4B", "second")

\* Where a scenario has made sure of what is in its block
Wrote(c, k) ==
  \/ c = "Happy" /\ k \in 6 .. 8
  \/ c = "QTimeout" /\ k \in 6 .. 14
Home(c) == IF c = "Happy" THEN "block1" ELSE "block2"

\* The answer to a request, once a read finds what was put there
Due(load) == Done(IF load.cmd = "Read" THEN Content(load.blk) ELSE DemoBlank)
AnsweredWell(load, a) ==
  load.blk \in DemoBlocks => a = Due(load) /\ (load.cmd = "Write" => Stored(load.blk))
Harmless(load) == load.cmd = "Write" /\ load.blk \in Kept => load.val = Content(load.blk)

\* The future on the slow request that a settle window is about
SlowName(live) == IF "occupy" \in live THEN "occupy" ELSE "main"

\* What the scripts have in common: at an instruction ...
ToldHere(c, i, k) ==
  /\ i.op = "poll" => i.hurry /\ DemoTimeout \in i.want
  /\ i.hurry => i.op \in {"create", "send", "poll"} /\ SlowName(i.live) \in i.live
  /\ \A h \in i.live : Asked(c, k, h).cmd = "Read" => Wrote(c, k) /\ Asked(c, k, h).blk = Home(c)
  /\ \A h \in i.live : ~Harmless(Asked(c, k, h)) => i.hurry
  /\ i.op = "wait" => \/ DemoAnswers \subseteq i.want
                      \/ /\ Asked(c, k, i.h).blk \in DemoBlocks
                         /\ Due(Asked(c, k, i.h)) \in i.want

\* ... and on the way to the next.
HurriesOn(i, j) == i.hurry /\ i.h = "main" /\ "occupy" \in i.live /\ "occupy" \in j.live
HurryBegins(c, i, j, k, n) ==
  /\ i.op = "send" /\ n = i.ok /\ i.load.blk = DemoSlowBlock
  /\ ~MayBeLate(c, k) /\ i.live = {i.h} /\ j.live = {i.h}
ToldThere(c, i, j, k, n) ==
  /\ j.hurry => HurriesOn(i, j) \/ HurryBegins(c, i, j, k, n)
  /\ i.op = "send" => Asked(c, i.ok, i.h) = i.load
  /\ \A h \in i.live \cap j.live :
       i.op # "send" \/ h # i.h => Asked(c, n, h) = Asked(c, k, h)
  /\ Wrote(c, n) /\ ~Wrote(c, k) =>
       /\ i.op = "wait"
       /\ Asked(c, k, i.h).cmd = "Write" /\ Asked(c, k, i.h).blk = Home(c)
  /\ i.op = "media" => j.op = "top"
  /\ i.op = "top" /\ n = i.fail => j.op = "stop"

\* The instructions of the scripts, one by one
LEMMA HappyItems ==
  /\ HappyScript[1] = Plain("media", 2, 2)
  /\ HappyScript[2] = Plain("top", 3, 10)
  /\ HappyScript[3] = CreateIn("main", {}, 4, 9)
  /\ HappyScript[4] = SendOn("main", Ask("Write", "block1", "pattern"), OnlyMain, 5, 9)
  /\ HappyScript[5] = WaitOn("main", Success(DemoBlank), OnlyMain, 6, 9)
  /\ HappyScript[6] = CreateIn("main", {}, 7, 9)
  /\ HappyScript[7] = SendOn("main", Ask("Read", "block1", DemoBlank), OnlyMain, 8, 9)
  /\ HappyScript[8] = WaitOn("main", Success("pattern"), OnlyMain, 9, 9)
  /\ HappyScript[9] = Plain("sleep", 2, 2)
  /\ HappyScript[10] = Plain("stop", 10, 10)
BY DEF HappyScript

LEMMA QueueTimeoutItems ==
  /\ QueueTimeoutScript[1] = Plain("media", 2, 2)
  /\ QueueTimeoutScript[2] = Plain("top", 3, 17)
  /\ QueueTimeoutScript[3] = CreateIn("main", {}, 4, 16)
  /\ QueueTimeoutScript[4] = SendOn("main", Ask("Write", "block2", "canary"), OnlyMain, 5, 16)
  /\ QueueTimeoutScript[5] = WaitOn("main", Success(DemoBlank), OnlyMain, 6, 16)
  /\ QueueTimeoutScript[6] = CreateIn("occupy", {}, 7, 16)
  /\ QueueTimeoutScript[7] =
       SendOn("occupy", Ask("GetStatus", DemoSlowBlock, DemoBlank), OnlyOccupy, 8, 16)
  /\ QueueTimeoutScript[8] = Hurry(CreateIn("main", OnlyOccupy, 9, 15))
  /\ QueueTimeoutScript[9] =
       Hurry(SendOn("main", Ask("Write", "block2", "attempted"), Both, 10, 15))
  /\ QueueTimeoutScript[10] = Hurry(PollOn("main", Both, 11, 11))
  /\ QueueTimeoutScript[11] = WaitOn("occupy", Anything, OnlyOccupy, 12, 12)
  /\ QueueTimeoutScript[12] = CreateIn("main", {}, 13, 16)
  /\ QueueTimeoutScript[13] = SendOn("main", Ask("Read", "block2", DemoBlank), OnlyMain, 14, 16)
  /\ QueueTimeoutScript[14] = WaitOn("main", Success("canary"), OnlyMain, 16, 16)
  /\ QueueTimeoutScript[15] = WaitOn("occupy", Anything, OnlyOccupy, 16, 16)
  /\ QueueTimeoutScript[16] = Plain("sleep", 2, 2)
  /\ QueueTimeoutScript[17] = Plain("stop", 17, 17)
BY DEF QueueTimeoutScript

LEMMA LateCompletionItems ==
  /\ LateCompletionScript[1] = Plain("media", 2, 2)
  /\ LateCompletionScript[2] = Plain("top", 3, 7)
  /\ LateCompletionScript[3] = CreateIn("main", {}, 4, 6)
  /\ LateCompletionScript[4] =
       SendOn("main", Ask("Write", DemoSlowBlock, "attempted"), OnlyMain, 5, 6)
  /\ LateCompletionScript[5] = Hurry(PollOn("main", OnlyMain, 6, 6))
  /\ LateCompletionScript[6] = Plain("sleep", 2, 2)
  /\ LateCompletionScript[7] = Plain("stop", 7, 7)
BY DEF LateCompletionScript

LEMMA AbaIsolationItems ==
  /\ AbaIsolationScript[1] = Plain("media", 2, 2)
  /\ AbaIsolationScript[2] = Plain("top", 3, 13)
  /\ AbaIsolationScript[3] = CreateIn("occupy", {}, 4, 12)
  /\ AbaIsolationScript[4] =
       SendOn("occupy", Ask("GetStatus", DemoSlowBlock, DemoBlank), OnlyOccupy, 5, 12)
  /\ AbaIsolationScript[5] = Hurry(CreateIn("main", OnlyOccupy, 6, 11))
  /\ AbaIsolationScript[6] =
       Hurry(SendOn("main", Ask("GetStatus", "block4A", DemoBlank), Both, 7, 11))
  /\ AbaIsolationScript[7] = Hurry(PollOn("main", Both, 8, 8))
  /\ AbaIsolationScript[8] = Hurry(CreateIn("main", OnlyOccupy, 9, 11))
  /\ AbaIsolationScript[9] = SendOn("main", Ask("Write", "block4B", "second"), Both, 10, 11)
  /\ AbaIsolationScript[10] = WaitOn("main", Success(DemoBlank), Both, 11, 11)
  /\ AbaIsolationScript[11] = WaitOn("occupy", Anything, OnlyOccupy, 12, 12)
  /\ AbaIsolationScript[12] = Plain("sleep", 2, 2)
  /\ AbaIsolationScript[13] = Plain("stop", 13, 13)
BY DEF AbaIsolationScript

LEMMA ScriptsAreToldHere ==
  ASSUME AsInTheDemo, NEW c \in Clients, NEW k \in Points(c)
  PROVE  ToldHere(c, Script[c][k], k)
<1>1. Script[c] = DemoScript(c) /\ Points(c) = DOMAIN Script[c] /\ c \in DemoClients
  BY DEF AsInTheDemo, Points
<1>2. CASE c = "Happy"
  <2>1. Script[c] = HappyScript /\ k \in 1 .. 10
    BY <1>1, <1>2 DEF DemoScript, HappyScript
  <2>2. ToldHere("Happy", HappyScript[k], k)
    <3>1. CASE k \in 1 .. 5
      BY ONLY <3>1, HappyItems
      DEF Plain, CreateIn, SendOn, WaitOn, PollOn, Hurry, Step, OnlyMain, OnlyOccupy, Both, Asked,
          Ask, NoLoad, Wrote, Home, Kept, Content, Harmless, SlowName, ToldHere, Done, Due,
          Success, Anything, DemoTimeout, DemoBlank, DemoSlowBlock, DemoBlocks
    <3>2. CASE k \in 6 .. 10
      BY ONLY <3>2, HappyItems
      DEF Plain, CreateIn, SendOn, WaitOn, PollOn, Hurry, Step, OnlyMain, OnlyOccupy, Both, Asked,
          Ask, NoLoad, Wrote, Home, Kept, Content, Harmless, SlowName, ToldHere, Done, Due,
          Success, Anything, DemoTimeout, DemoBlank, DemoSlowBlock, DemoBlocks
    <3> QED
      BY ONLY <2>1, <3>1, <3>2
  <2> QED
    BY ONLY <1>2, <2>1, <2>2
<1>3. CASE c = "QTimeout"
  <2>1. Script[c] = QueueTimeoutScript /\ k \in 1 .. 17
    BY <1>1, <1>3 DEF DemoScript, QueueTimeoutScript
  <2>2. ToldHere("QTimeout", QueueTimeoutScript[k], k)
    <3>1. CASE k \in 1 .. 5
      BY ONLY <3>1, QueueTimeoutItems
      DEF Plain, CreateIn, SendOn, WaitOn, PollOn, Hurry, Step, OnlyMain, OnlyOccupy, Both, Asked,
          Ask, NoLoad, Wrote, Home, Kept, Content, Harmless, SlowName, ToldHere, Done, Due,
          Success, Anything, DemoTimeout, DemoBlank, DemoSlowBlock, DemoBlocks
    <3>2. CASE k \in 6 .. 8
      BY ONLY <3>2, QueueTimeoutItems
      DEF Plain, CreateIn, SendOn, WaitOn, PollOn, Hurry, Step, OnlyMain, OnlyOccupy, Both, Asked,
          Ask, NoLoad, Wrote, Home, Kept, Content, Harmless, SlowName, ToldHere, Done, Due,
          Success, Anything, DemoTimeout, DemoBlank, DemoSlowBlock, DemoBlocks
    <3>3. CASE k \in 9 .. 11
      BY ONLY <3>3, QueueTimeoutItems
      DEF Plain, CreateIn, SendOn, WaitOn, PollOn, Hurry, Step, OnlyMain, OnlyOccupy, Both, Asked,
          Ask, NoLoad, Wrote, Home, Kept, Content, Harmless, SlowName, ToldHere, Done, Due,
          Success, Anything, DemoTimeout, DemoBlank, DemoSlowBlock, DemoBlocks
    <3>4. CASE k \in 12 .. 17
      BY ONLY <3>4, QueueTimeoutItems
      DEF Plain, CreateIn, SendOn, WaitOn, PollOn, Hurry, Step, OnlyMain, OnlyOccupy, Both, Asked,
          Ask, NoLoad, Wrote, Home, Kept, Content, Harmless, SlowName, ToldHere, Done, Due,
          Success, Anything, DemoTimeout, DemoBlank, DemoSlowBlock, DemoBlocks
    <3> QED
      BY ONLY <2>1, <3>1, <3>2, <3>3, <3>4
  <2> QED
    BY ONLY <1>3, <2>1, <2>2
<1>4. CASE c = "LateDone"
  <2>1. Script[c] = LateCompletionScript /\ k \in 1 .. 7
    BY <1>1, <1>4 DEF DemoScript, LateCompletionScript
  <2>2. ToldHere("LateDone", LateCompletionScript[k], k)
    BY ONLY <2>1, LateCompletionItems
    DEF Plain, CreateIn, SendOn, WaitOn, PollOn, Hurry, Step, OnlyMain, OnlyOccupy, Both, Asked,
        Ask, NoLoad, Wrote, Home, Kept, Content, Harmless, SlowName, ToldHere, Done, Due,
        Success, Anything, DemoTimeout, DemoBlank, DemoSlowBlock, DemoBlocks
  <2> QED
    BY ONLY <1>4, <2>1, <2>2
<1>5. CASE c = "AbaIso"
  <2>1. Script[c] = AbaIsolationScript /\ k \in 1 .. 13
    BY <1>1, <1>5 DEF DemoScript, AbaIsolationScript
  <2>2. ToldHere("AbaIso", AbaIsolationScript[k], k)
    <3>1. CASE k \in 1 .. 4
      BY ONLY <3>1, AbaIsolationItems
      DEF Plain, CreateIn, SendOn, WaitOn, PollOn, Hurry, Step, OnlyMain, OnlyOccupy, Both, Asked,
          Ask, NoLoad, Wrote, Home, Kept, Content, Harmless, SlowName, ToldHere, Done, Due,
          Success, Anything, DemoTimeout, DemoBlank, DemoSlowBlock, DemoBlocks
    <3>2. CASE k \in 5 .. 7
      BY ONLY <3>2, AbaIsolationItems
      DEF Plain, CreateIn, SendOn, WaitOn, PollOn, Hurry, Step, OnlyMain, OnlyOccupy, Both, Asked,
          Ask, NoLoad, Wrote, Home, Kept, Content, Harmless, SlowName, ToldHere, Done, Due,
          Success, Anything, DemoTimeout, DemoBlank, DemoSlowBlock, DemoBlocks
    <3>3. CASE k \in 8 .. 10
      BY ONLY <3>3, AbaIsolationItems
      DEF Plain, CreateIn, SendOn, WaitOn, PollOn, Hurry, Step, OnlyMain, OnlyOccupy, Both, Asked,
          Ask, NoLoad, Wrote, Home, Kept, Content, Harmless, SlowName, ToldHere, Done, Due,
          Success, Anything, DemoTimeout, DemoBlank, DemoSlowBlock, DemoBlocks
    <3>4. CASE k \in 11 .. 13
      BY ONLY <3>4, AbaIsolationItems
      DEF Plain, CreateIn, SendOn, WaitOn, PollOn, Hurry, Step, OnlyMain, OnlyOccupy, Both, Asked,
          Ask, NoLoad, Wrote, Home, Kept, Content, Harmless, SlowName, ToldHere, Done, Due,
          Success, Anything, DemoTimeout, DemoBlank, DemoSlowBlock, DemoBlocks
    <3> QED
      BY ONLY <2>1, <3>1, <3>2, <3>3, <3>4
  <2> QED
    BY ONLY <1>5, <2>1, <2>2
<1> QED
  BY ONLY <1>1, <1>2, <1>3, <1>4, <1>5 DEF DemoClients

LEMMA ScriptsAreToldThere ==
  ASSUME AsInTheDemo, NEW c \in Clients, NEW k \in Points(c),
         NEW n \in {Script[c][k].ok, Script[c][k].fail}
  PROVE  ToldThere(c, Script[c][k], Script[c][n], k, n)
<1>1. Script[c] = DemoScript(c) /\ Points(c) = DOMAIN Script[c] /\ c \in DemoClients
  BY DEF AsInTheDemo, Points
<1>2. CASE c = "Happy"
  <2>1. Script[c] = HappyScript /\ k \in 1 .. 10
    BY <1>1, <1>2 DEF DemoScript, HappyScript
  <2>2. \A m \in {HappyScript[k].ok, HappyScript[k].fail} :
          ToldThere("Happy", HappyScript[k], HappyScript[m], k, m)
    <3>1. CASE k \in 1 .. 5
      BY ONLY <3>1, HappyItems
      DEF Plain, CreateIn, SendOn, WaitOn, PollOn, Hurry, Step, OnlyMain, OnlyOccupy, Both, Asked,
          Ask, NoLoad, Wrote, Home, MayBeLate, ToldThere, HurriesOn, HurryBegins, DemoBlank,
          DemoSlowBlock
    <3>2. CASE k \in 6 .. 10
      BY ONLY <3>2, HappyItems
      DEF Plain, CreateIn, SendOn, WaitOn, PollOn, Hurry, Step, OnlyMain, OnlyOccupy, Both, Asked,
          Ask, NoLoad, Wrote, Home, MayBeLate, ToldThere, HurriesOn, HurryBegins, DemoBlank,
          DemoSlowBlock
    <3> QED
      BY ONLY <2>1, <3>1, <3>2
  <2> QED
    BY ONLY <1>2, <2>1, <2>2
<1>3. CASE c = "QTimeout"
  <2>1. Script[c] = QueueTimeoutScript /\ k \in 1 .. 17
    BY <1>1, <1>3 DEF DemoScript, QueueTimeoutScript
  <2>2. \A m \in {QueueTimeoutScript[k].ok, QueueTimeoutScript[k].fail} :
          ToldThere("QTimeout", QueueTimeoutScript[k], QueueTimeoutScript[m], k, m)
    <3>1. CASE k \in 1 .. 5
      BY ONLY <3>1, QueueTimeoutItems
      DEF Plain, CreateIn, SendOn, WaitOn, PollOn, Hurry, Step, OnlyMain, OnlyOccupy, Both, Asked,
          Ask, NoLoad, Wrote, Home, MayBeLate, ToldThere, HurriesOn, HurryBegins, DemoBlank,
          DemoSlowBlock
    <3>2. CASE k \in 6 .. 8
      BY ONLY <3>2, QueueTimeoutItems
      DEF Plain, CreateIn, SendOn, WaitOn, PollOn, Hurry, Step, OnlyMain, OnlyOccupy, Both, Asked,
          Ask, NoLoad, Wrote, Home, MayBeLate, ToldThere, HurriesOn, HurryBegins, DemoBlank,
          DemoSlowBlock
    <3>3. CASE k \in 9 .. 11
      BY ONLY <3>3, QueueTimeoutItems
      DEF Plain, CreateIn, SendOn, WaitOn, PollOn, Hurry, Step, OnlyMain, OnlyOccupy, Both, Asked,
          Ask, NoLoad, Wrote, Home, MayBeLate, ToldThere, HurriesOn, HurryBegins, DemoBlank,
          DemoSlowBlock
    <3>4. CASE k \in 12 .. 17
      BY ONLY <3>4, QueueTimeoutItems
      DEF Plain, CreateIn, SendOn, WaitOn, PollOn, Hurry, Step, OnlyMain, OnlyOccupy, Both, Asked,
          Ask, NoLoad, Wrote, Home, MayBeLate, ToldThere, HurriesOn, HurryBegins, DemoBlank,
          DemoSlowBlock
    <3> QED
      BY ONLY <2>1, <3>1, <3>2, <3>3, <3>4
  <2> QED
    BY ONLY <1>3, <2>1, <2>2
<1>4. CASE c = "LateDone"
  <2>1. Script[c] = LateCompletionScript /\ k \in 1 .. 7
    BY <1>1, <1>4 DEF DemoScript, LateCompletionScript
  <2>2. \A m \in {LateCompletionScript[k].ok, LateCompletionScript[k].fail} :
          ToldThere("LateDone", LateCompletionScript[k], LateCompletionScript[m], k, m)
    BY ONLY <2>1, LateCompletionItems
    DEF Plain, CreateIn, SendOn, WaitOn, PollOn, Hurry, Step, OnlyMain, OnlyOccupy, Both, Asked,
        Ask, NoLoad, Wrote, Home, MayBeLate, ToldThere, HurriesOn, HurryBegins, DemoBlank,
        DemoSlowBlock
  <2> QED
    BY ONLY <1>4, <2>1, <2>2
<1>5. CASE c = "AbaIso"
  <2>1. Script[c] = AbaIsolationScript /\ k \in 1 .. 13
    BY <1>1, <1>5 DEF DemoScript, AbaIsolationScript
  <2>2. \A m \in {AbaIsolationScript[k].ok, AbaIsolationScript[k].fail} :
          ToldThere("AbaIso", AbaIsolationScript[k], AbaIsolationScript[m], k, m)
    <3>1. CASE k \in 1 .. 4
      BY ONLY <3>1, AbaIsolationItems
      DEF Plain, CreateIn, SendOn, WaitOn, PollOn, Hurry, Step, OnlyMain, OnlyOccupy, Both, Asked,
          Ask, NoLoad, Wrote, Home, MayBeLate, ToldThere, HurriesOn, HurryBegins, DemoBlank,
          DemoSlowBlock
    <3>2. CASE k \in 5 .. 7
      BY ONLY <3>2, AbaIsolationItems
      DEF Plain, CreateIn, SendOn, WaitOn, PollOn, Hurry, Step, OnlyMain, OnlyOccupy, Both, Asked,
          Ask, NoLoad, Wrote, Home, MayBeLate, ToldThere, HurriesOn, HurryBegins, DemoBlank,
          DemoSlowBlock
    <3>3. CASE k \in 8 .. 10
      BY ONLY <3>3, AbaIsolationItems
      DEF Plain, CreateIn, SendOn, WaitOn, PollOn, Hurry, Step, OnlyMain, OnlyOccupy, Both, Asked,
          Ask, NoLoad, Wrote, Home, MayBeLate, ToldThere, HurriesOn, HurryBegins, DemoBlank,
          DemoSlowBlock
    <3>4. CASE k \in 11 .. 13
      BY ONLY <3>4, AbaIsolationItems
      DEF Plain, CreateIn, SendOn, WaitOn, PollOn, Hurry, Step, OnlyMain, OnlyOccupy, Both, Asked,
          Ask, NoLoad, Wrote, Home, MayBeLate, ToldThere, HurriesOn, HurryBegins, DemoBlank,
          DemoSlowBlock
    <3> QED
      BY ONLY <2>1, <3>1, <3>2, <3>3, <3>4
  <2> QED
    BY ONLY <1>5, <2>1, <2>2
<1> QED
  BY ONLY <1>1, <1>2, <1>3, <1>4, <1>5 DEF DemoClients

-----------------------------------------------------------------------------
\* While the drive stays in, the volume stays ready once it is, and nobody
\* starts a scenario before that.
MediaInv ==
  /\ volumeReady => mediaUp
  /\ published => volumeReady
  /\ InFlight # {} => published
  /\ outcome # NoAnswer => outcome.code # "io"
  /\ \A c \in Clients :
       \/ published
       \/ Instr(c).op = "media"
       \/ c \in stopRequested /\ Instr(c).op \in {"top", "stop"}

\* In a settle window the slow request is the first of its client, and
\* nothing that the client waits for has been answered.
SlowSlot(c) == fut[c][SlowName(Instr(c).live)].slot
IsSlowOne(c, r) == r.from = c /\ r.load.blk = SlowBlock /\ r.promise.slot = SlowSlot(c)
SlowFirst(c) ==
  \/ request # NoRequest /\ IsSlowOne(c, request) /\ at \in {"check", "slow"}
  \/ /\ request # NoRequest => request.from # c
     /\ \E i \in DOMAIN queue :
          IsSlowOne(c, queue[i]) /\ \A j \in DOMAIN queue : queue[j].from = c => i <= j

HurryInv ==
  \A c \in Clients : Instr(c).hurry =>
    SlowFirst(c) /\ \A h \in Instr(c).live : st[fut[c][h].slot] = "pending"

\* A future is on a request for what its client has asked for, and resolved
\* with the answer to that.
Faithful(c, h) ==
  LET s == fut[c][h].slot
      load == Asked(c, pc[c], h)
  IN /\ \A r \in InFlight : r.promise.slot = s => r.load = load
     /\ st[s] = "resolved" => AnsweredWell(load, ans[s])
FutureInv == \A c \in Clients : \A h \in Instr(c).live : Faithful(c, h)

\* T_S spoils no block that is read back.
WorkInv ==
  request # NoRequest =>
    /\ at \in {"slow", "work", "sync"} => Harmless(request.load)
    /\ at = "sync" => request.load.cmd = "Write" /\ Stored(request.load.blk)
    /\ at = "resolve" /\ st[request.promise.slot] = "pending" =>
         AnsweredWell(request.load, outcome)

WroteInv == \A c \in Clients : Wrote(c, pc[c]) => Stored(Home(c))

PassInv == MediaInv /\ HurryInv /\ FutureInv /\ WorkInv /\ WroteInv /\ ScenariosPass

\* All that is known before a step
Healthy == IInv /\ VolumeSound /\ SizeInv /\ PassInv

-----------------------------------------------------------------------------
(* What the steps of a client do to all that, in one piece.                *)
Untouched(d, h) ==
  /\ h \in Instr(d).live /\ fut'[d][h] = fut[d][h]
  /\ st'[fut[d][h].slot] = st[fut[d][h].slot] /\ ans'[fut[d][h].slot] = ans[fut[d][h].slot]
Fresh(d, h) ==
  /\ st'[fut'[d][h].slot] = "pending"
  /\ \A r \in InFlight' : r.promise.slot # fut'[d][h].slot

Moved(c, n) ==
  /\ pc'[c] = n /\ Instr(c)' = Script[c][n]
  /\ \A d \in Clients : d # c => pc'[d] = pc[d] /\ Instr(d)' = Instr(d)
  /\ UNCHANGED <<svcVars, published, stopRequested>>
  /\ \A d \in Clients : \A h \in Instr(d)'.live :
       Untouched(d, h) \/ (d = c /\ h \notin Instr(c).live /\ Instr(c).op # "send" /\ Fresh(d, h))
  /\ \/ Instr(c).op # "send" /\ UNCHANGED queue /\ InFlight' = InFlight
     \/ /\ Instr(c).op = "send" /\ n = Instr(c).ok /\ UNCHANGED st
        /\ queue' = Append(queue, RequestOf(c)) /\ InFlight' = InFlight \cup {RequestOf(c)}
  /\ Instr(c).op = "media" => published \/ c \in stopRequested
  /\ Instr(c).op = "top" => n = IF c \in stopRequested THEN Instr(c).fail ELSE Instr(c).ok
  /\ Instr(c).op # "stop"
  /\ Instr(c).op = "wait" => st[fut[c][Instr(c).h].slot] = "resolved"
  /\ good'[c]
  /\ \A d \in Clients : d # c => good'[d] = good[d]

LEMMA ClientGoesOn ==
  ASSUME IInv, NEW c \in Clients, NEW n \in {Instr(c).ok, Instr(c).fail}, Instr(c).op # "stop",
         pc' = [pc EXCEPT ![c] = n], Instr(c).op = "send" => n = Instr(c).ok
  PROVE  /\ pc'[c] = n /\ Instr(c)' = Script[c][n]
         /\ \A d \in Clients : d # c => pc'[d] = pc[d] /\ Instr(d)' = Instr(d)
         /\ n \in Points(c)
<1>1. Disciplined(c, pc[c]) /\ Instr(c) \in Instructions
  BY ScriptFacts
<1>2. n \in Points(c)
  BY <1>1 DEF Disciplined, Instr, Instructions, Ops
<1>3. pc \in [Clients -> Nat]
  BY DEF IInv, TypeOK, ClientTypeOK
<1> QED
  BY <1>2, <1>3, PcMoves

LEMMA GoodGoto ==
  ASSUME IInv, ScenariosPass, NEW c \in Clients, NEW n, NEW pass, pass = TRUE, Goto(c, n, pass)
  PROVE  pc' = [pc EXCEPT ![c] = n] /\ good'[c] /\ \A d \in Clients : d # c => good'[d] = good[d]
BY DEF IInv, TypeOK, ClientTypeOK, Goto, ScenariosPass

LEMMA WaitingMoves ==
  ASSUME HealthyBoard, Healthy, NEW c \in Clients, UNCHANGED svcVars,
         WaitForMedia(c) \/ IterationTop(c) \/ NextIteration(c)
  PROVE  \E n \in {Instr(c).ok, Instr(c).fail} : Moved(c, n)
<1> USE DEF Healthy, PassInv
<1>1. /\ UNCHANGED <<poolVars, fut, sharedVars>> /\ InFlight' = InFlight
      /\ Instr(c).op \in {"media", "top", "sleep"}
  BY SameFlight DEF WaitForMedia, IterationTop, NextIteration, Sleep, sharedVars, svcVars
<1>2. PICK n \in {Instr(c).ok, Instr(c).fail} :
        /\ pc' = [pc EXCEPT ![c] = n] /\ good'[c] /\ \A d \in Clients : d # c => good'[d] = good[d]
        /\ Instr(c).op = "top" => n = IF c \in stopRequested THEN Instr(c).fail ELSE Instr(c).ok
  <2>1. CASE WaitForMedia(c)
    BY <2>1, GoodGoto DEF WaitForMedia
  <2>2. CASE IterationTop(c)
    BY <2>2, GoodGoto DEF IterationTop
  <2>3. CASE NextIteration(c)
    BY <2>3 DEF NextIteration, Sleep, IInv, TypeOK, ClientTypeOK
  <2> QED
    BY <2>1, <2>2, <2>3
<1>3. /\ pc'[c] = n /\ Instr(c)' = Script[c][n]
      /\ \A d \in Clients : d # c => pc'[d] = pc[d] /\ Instr(d)' = Instr(d)
      /\ Script[c][n].live = {}
  <2>1. Script[c][n].live = {}
    BY <1>1, ScriptFacts DEF Disciplined, Instr
  <2> QED
    BY <1>1, <1>2, <2>1, ClientGoesOn
<1>4. Instr(c).op = "media" => published \/ c \in stopRequested
  BY <1>1 DEF WaitForMedia, IterationTop, NextIteration, Sleep, HealthyBoard, AsInTheDemo
<1>5. \A d \in Clients : \A h \in Instr(d)'.live : Untouched(d, h)
  BY <1>1, <1>3 DEF Untouched, poolVars
<1>6. Moved(c, n)
  BY <1>1, <1>2, <1>3, <1>4, <1>5 DEF Moved, sharedVars
<1> QED
  BY <1>6

\* The pool never runs out, so that a pair is always created.
LEMMA CreateMoves ==
  ASSUME HealthyBoard, Healthy, NEW c \in Clients, UNCHANGED svcVars, CreatePair(c)
  PROVE  \E n \in {Instr(c).ok, Instr(c).fail} : Moved(c, n)
<1> USE DEF Healthy, PassInv
<1> DEFINE h == Instr(c).h
           n == Instr(c).ok
<1>1. FreeSlots # {}
  <2>1. SizedForOverlap
    BY SizesFollow DEF HealthyBoard
  <2>2. FreeSlots = {} => LiveSlots = Slots
    BY DEF LiveSlots, FreeSlots
  <2>3. Cardinality(Slots) \in Nat /\ Cardinality(Slots) > 7
    BY FS_CardinalityType DEF HealthyBoard
  <2> QED
    BY <2>1, <2>2, <2>3 DEF SizedForOverlap
<1>2. /\ Instr(c).op = "create" /\ UNCHANGED sharedVars /\ Goto(c, n, TRUE)
      /\ InFlight' = InFlight
  BY <1>1, CreateEffect, SameFlight DEF sharedVars, svcVars
<1>3. PICK s \in Slots :
        /\ st[s] = "free" /\ st'[s] = "pending" /\ ans' = ans
        /\ \A t \in Slots : t # s => st'[t] = st[t]
        /\ fut'[c][h] = HandleOn(s)
        /\ \A d \in Clients, k \in Futures : <<d, k>> # <<c, h>> => fut'[d][k] = fut[d][k]
  BY <1>1, CreateEffect
<1>4. /\ pc' = [pc EXCEPT ![c] = n]
      /\ good'[c] /\ \A d \in Clients : d # c => good'[d] = good[d]
  BY <1>2, GoodGoto
<1>5. /\ pc'[c] = n /\ Instr(c)' = Script[c][n]
      /\ \A d \in Clients : d # c => pc'[d] = pc[d] /\ Instr(d)' = Instr(d)
      /\ Script[c][n].live = Instr(c).live \cup {h} /\ h \notin Instr(c).live
  <2>1. Script[c][n].live = Instr(c).live \cup {h} /\ h \notin Instr(c).live
    BY <1>2, ScriptFacts DEF Disciplined, Instr
  <2> QED
    BY <1>2, <1>4, <2>1, ClientGoesOn
<1>6. ASSUME NEW d \in Clients, NEW k \in Instr(d).live PROVE Untouched(d, k)
  <2>1. k \in Futures /\ fut[d][k] # NoFuture
    BY ScriptFacts DEF IInv, FuturesFollowScript, Instructions
  <2>2. fut[d][k].slot \in Slots /\ fut[d][k].slot # s
    BY <1>3, <2>1, FutureHeld
  <2>3. <<d, k>> # <<c, h>>
    BY <1>5, <1>6
  <2> QED
    BY <1>3, <1>6, <2>1, <2>2, <2>3 DEF Untouched
<1>7. Fresh(c, h)
  <2>1. \A r \in InFlight : r.promise.slot # s
    BY <1>3, FlightType
  <2> QED
    BY <1>2, <1>3, <2>1 DEF Fresh, HandleOn
<1>8. \A d \in Clients : \A k \in Instr(d)'.live :
        Untouched(d, k) \/ (d = c /\ k \notin Instr(c).live /\ Instr(c).op # "send" /\ Fresh(d, k))
  BY <1>2, <1>5, <1>6, <1>7
<1>9. Moved(c, n)
  BY <1>2, <1>4, <1>5, <1>8 DEF Moved, sharedVars
<1> QED
  BY <1>9

LEMMA SendMoves ==
  ASSUME HealthyBoard, Healthy, NEW c \in Clients, UNCHANGED svcVars, Send(c)
  PROVE  \E n \in {Instr(c).ok, Instr(c).fail} : Moved(c, n)
<1> USE DEF Healthy, PassInv
<1> DEFINE n == Instr(c).ok
<1>1. /\ Instr(c).op = "send" /\ UNCHANGED <<poolVars, published, stopRequested, fut>>
      /\ queue' = Append(queue, RequestOf(c)) /\ InFlight' = InFlight \cup {RequestOf(c)}
      /\ Goto(c, n, TRUE)
  BY SendFlight DEF Send, QueueSend
<1>2. /\ pc' = [pc EXCEPT ![c] = n]
      /\ good'[c] /\ \A d \in Clients : d # c => good'[d] = good[d]
  BY <1>1, GoodGoto
<1>3. /\ pc'[c] = n /\ Instr(c)' = Script[c][n]
      /\ \A d \in Clients : d # c => pc'[d] = pc[d] /\ Instr(d)' = Instr(d)
      /\ Script[c][n].live = Instr(c).live
  <2>1. Script[c][n].live = Instr(c).live
    BY <1>1, ScriptFacts DEF Disciplined, Instr
  <2> QED
    BY <1>1, <1>2, <2>1, ClientGoesOn
<1>4. \A d \in Clients : \A h \in Instr(d)'.live : Untouched(d, h)
  BY <1>1, <1>3 DEF Untouched, poolVars
<1>5. Moved(c, n)
  BY <1>1, <1>2, <1>3, <1>4 DEF Moved, poolVars
<1> QED
  BY <1>5

\* The queue never fills, so that no send gives up.
LEMMA SendsFindRoom ==
  ASSUME HealthyBoard, Healthy, NEW c \in Clients
  PROVE  ~SendTimesOut(c)
<1>1. Len(queue) <= 7
  BY SizesFollow DEF Healthy, HealthyBoard, SizedForOverlap
<1>2. Len(queue) \in Nat /\ QueueDepth \in Nat /\ QueueDepth > 7
  BY SharedAssumption, LenProperties DEF Healthy, IInv, TypeOK, SharedTypeOK, HealthyBoard
<1>3. Len(queue) # QueueDepth
  BY <1>1, <1>2
<1> QED
  BY <1>3 DEF SendTimesOut, Full

\* A poll finds no answer, a wait finds one, and both are what they should be.
LEMMA AwaitMoves ==
  ASSUME HealthyBoard, Healthy, NEW c \in Clients, UNCHANGED svcVars,
         AwaitAnswer(c) \/ AwaitTimesOut(c)
  PROVE  \E n \in {Instr(c).ok, Instr(c).fail} : Moved(c, n)
<1> USE DEF Healthy, PassInv
<1> DEFINE h == Instr(c).h
           s == fut[c][h].slot
<1>1. /\ UNCHANGED sharedVars /\ InFlight' = InFlight /\ s \in Slots /\ fut[c][h] # NoFuture
      /\ h \in Futures /\ h \in Instr(c).live
      /\ Instr(c).op \in {"wait", "poll"}
  <2>1. Instr(c).op \in {"wait", "poll"}
    BY DEF AwaitAnswer, AwaitTimesOut
  <2>2. h \in Futures /\ h \in Instr(c).live
    BY <2>1, ScriptFacts DEF Disciplined, Instr
  <2> QED
    BY <2>1, <2>2, LetGoEffect, SameFlight DEF sharedVars, svcVars
<1>2. ToldHere(c, Instr(c), pc[c])
  BY ScriptFacts, ScriptsAreToldHere DEF HealthyBoard, Instr
<1>3. \E a : Conclude(c, a) /\ a \in Instr(c).want
  <2>1. CASE AwaitAnswer(c)
    <3>1. st[s] = "resolved" /\ Conclude(c, ans[s])
      BY <2>1 DEF AwaitAnswer, TakeAnswer
    <3>2. Instr(c).op = "wait"
      BY <1>1, <1>2, <3>1 DEF ToldHere, HurryInv
    <3>3. ans[s] \in DemoAnswers
      BY <1>1, <3>1 DEF IInv, TypeOK, PoolTypeOK, PoolSafety, StateFollowsHolders, HealthyBoard
    <3>4. AnsweredWell(Asked(c, pc[c], h), ans[s])
      BY <1>1, <3>1 DEF FutureInv, Faithful
    <3> QED
      BY <1>2, <3>1, <3>2, <3>3, <3>4 DEF ToldHere, AnsweredWell
  <2>2. CASE AwaitTimesOut(c)
    BY <1>2, <2>2 DEF AwaitTimesOut, ToldHere, HealthyBoard, AsInTheDemo
  <2> QED
    BY <2>1, <2>2
<1>4. PICK n \in {Instr(c).ok, Instr(c).fail} : Goto(c, n, TRUE)
  BY <1>3 DEF Conclude
<1>5. /\ pc' = [pc EXCEPT ![c] = n]
      /\ good'[c] /\ \A d \in Clients : d # c => good'[d] = good[d]
  BY <1>4, GoodGoto
<1>6. /\ pc'[c] = n /\ Instr(c)' = Script[c][n]
      /\ \A d \in Clients : d # c => pc'[d] = pc[d] /\ Instr(d)' = Instr(d)
      /\ Script[c][n].live = Instr(c).live \ {h}
  <2>1. Script[c][n].live = Instr(c).live \ {h}
    BY <1>1, ScriptFacts DEF Disciplined, Instr
  <2> QED
    BY <1>1, <1>5, <2>1, ClientGoesOn
<1>7. ASSUME NEW d \in Clients, NEW k \in Instr(d)'.live PROVE Untouched(d, k)
  <2>1. k \in Instr(d).live /\ <<d, k>> # <<c, h>>
    BY <1>6, <1>7
  <2>2. k \in Futures /\ fut[d][k] # NoFuture
    BY <2>1, ScriptFacts DEF IInv, FuturesFollowScript, Instructions
  <2>3. fut[d][k].slot \in Slots /\ fut[d][k].slot # s
    BY <1>1, <2>1, <2>2, FutureType DEF IInv, PoolSafety, FuturesExclusive
  <2> QED
    BY <2>1, <2>2, <2>3, LetGoEffect DEF Untouched
<1>8. Instr(c).op = "wait" => st[s] = "resolved"
  BY DEF AwaitAnswer, AwaitTimesOut, TakeAnswer, HealthyBoard, AsInTheDemo
<1>9. Moved(c, n)
  BY <1>1, <1>5, <1>6, <1>7, <1>8 DEF Moved, sharedVars
<1> QED
  BY <1>9

LEMMA ClientMoves ==
  ASSUME HealthyBoard, Healthy, NEW c \in Clients, ClientStep(c)
  PROVE  \E n \in {Instr(c).ok, Instr(c).fail} : Moved(c, n)
BY WaitingMoves, CreateMoves, SendMoves, SendsFindRoom, AwaitMoves DEF ClientStep

-----------------------------------------------------------------------------
(* A client's step keeps the parts of PassInv.                             *)
LEMMA MovedHere ==
  ASSUME HealthyBoard, IInv, NEW c \in Clients, NEW n \in {Instr(c).ok, Instr(c).fail}
  PROVE  /\ ToldHere(c, Instr(c), pc[c])
         /\ ToldThere(c, Instr(c), Script[c][n], pc[c], n)
BY ScriptFacts, ScriptsAreToldHere, ScriptsAreToldThere DEF HealthyBoard, Instr

LEMMA MovedMedia ==
  ASSUME HealthyBoard, Healthy, NEW c \in Clients, NEW n \in {Instr(c).ok, Instr(c).fail},
         Moved(c, n)
  PROVE  MediaInv'
<1> USE DEF Healthy, PassInv
<1>1. ToldThere(c, Instr(c), Script[c][n], pc[c], n)
  BY MovedHere
<1>2. UNCHANGED <<volumeReady, mediaUp, published, outcome, stopRequested>>
  BY DEF Moved, svcVars
<1>3. InFlight' # {} => published
  BY DEF Moved, MediaInv
<1>4. \/ published
      \/ Instr(c)'.op = "media"
      \/ c \in stopRequested /\ Instr(c)'.op \in {"top", "stop"}
  BY <1>1 DEF Moved, MediaInv, ToldThere
<1>5. \A d \in Clients : d # c => Instr(d)' = Instr(d)
  BY DEF Moved
<1> QED
  BY <1>2, <1>3, <1>4, <1>5 DEF MediaInv

\* When a settle window begins, nothing else of the client is on its way.
LEMMA NothingElseOut ==
  ASSUME IInv, SizeInv, NEW c \in Clients, Instr(c).op = "send", Instr(c).live = {Instr(c).h},
         ~MayBeLate(c, pc[c])
  PROVE  \A r \in InFlight : r.from # c
<1> SUFFICES ASSUME NEW r \in InFlight, r.from = c PROVE FALSE
  OBVIOUS
<1> DEFINE s == r.promise.slot
<1>1. s \in Slots /\ "promise" \in held[s] /\ st[s] \in {"pending", "timedOut"}
  BY FlightType
<1>2. st[s] = "pending" /\ "future" \in held[s]
  BY <1>1 DEF SizeInv, LateInv, Late, IInv, PoolSafety, StateFollowsHolders, Sides
<1>3. PICK d \in Clients, h \in Futures : fut[d][h] # NoFuture /\ fut[d][h].slot = s
  BY <1>1, <1>2 DEF IInv, PoolSafety, NoSlotLost
<1>4. d = c
  BY <1>3 DEF SizeInv, OwnInv
<1>5. h = Instr(c).h
  BY <1>3, <1>4 DEF IInv, FuturesFollowScript
<1> QED
  BY <1>3, <1>4, <1>5, UnsentApart DEF Unsent, PromiseOf

LEMMA MovedHurry ==
  ASSUME HealthyBoard, Healthy, NEW c \in Clients, NEW n \in {Instr(c).ok, Instr(c).fail},
         Moved(c, n)
  PROVE  HurryInv'
<1> USE DEF Healthy, PassInv
<1>0. ToldThere(c, Instr(c), Script[c][n], pc[c], n) /\ ToldHere(c, Instr(c), pc[c])
  BY MovedHere
<1>1. UNCHANGED <<at, request>>
  BY DEF Moved, svcVars
<1>2. queue \in Seq(Requests)
  BY DEF IInv, TypeOK, SharedTypeOK
\* A slow request that is first stays so.
<1>3. ASSUME NEW d \in Clients, SlowFirst(d), SlowSlot(d)' = SlowSlot(d) PROVE SlowFirst(d)'
  <2>1. \A r : IsSlowOne(d, r)' <=> IsSlowOne(d, r)
    BY <1>3 DEF IsSlowOne
  <2>2. CASE queue' = queue
    BY <1>1, <1>3, <2>1, <2>2 DEF SlowFirst
  <2>3. CASE queue' = Append(queue, RequestOf(c))
    <3>1. /\ \A i \in DOMAIN queue :
               i \in DOMAIN queue' /\ queue'[i] = queue[i] /\ i <= Len(queue) + 1
          /\ \A i \in DOMAIN queue' : i = Len(queue) + 1 \/ i \in DOMAIN queue
      BY <1>2, <2>3
    <3> QED
      BY <1>1, <1>3, <2>1, <3>1 DEF SlowFirst
  <2> QED
    BY <2>2, <2>3 DEF Moved
<1>4. ASSUME NEW d \in Clients, d # c, Instr(d)'.hurry
      PROVE  SlowFirst(d)' /\ \A h \in Instr(d)'.live : (st[fut[d][h].slot] = "pending")'
  <2>1. Instr(d)' = Instr(d) /\ \A h \in Instr(d).live : Untouched(d, h)
    BY <1>4 DEF Moved
  <2>2. SlowName(Instr(d).live) \in Instr(d).live
    BY <1>4, <2>1, ScriptFacts, ScriptsAreToldHere DEF HealthyBoard, ToldHere, Instr
  <2>3. SlowSlot(d)' = SlowSlot(d)
    BY <2>1, <2>2 DEF SlowSlot, Untouched
  <2>4. \A h \in Instr(d)'.live : (st[fut[d][h].slot] = "pending")'
    BY <1>4, <2>1 DEF HurryInv, Untouched
  <2> QED
    BY <1>3, <1>4, <2>1, <2>3, <2>4 DEF HurryInv
<1>5. ASSUME Instr(c)'.hurry, HurriesOn(Instr(c), Script[c][n])
      PROVE  SlowFirst(c)' /\ \A h \in Instr(c)'.live : (st[fut[c][h].slot] = "pending")'
  <2>1. Instr(c)' = Script[c][n] /\ "occupy" \in Instr(c).live /\ "occupy" \in Instr(c)'.live
    BY <1>5 DEF Moved, HurriesOn
  <2>2. \A h \in Instr(c)'.live : (st[fut[c][h].slot] = "pending")'
    BY <1>5 DEF Moved, HurriesOn, HurryInv, Untouched, Fresh
  <2>3. fut'[c]["occupy"].slot = fut[c]["occupy"].slot
    BY <2>1 DEF Moved, Untouched
  <2>4. SlowSlot(c)' = SlowSlot(c)
    BY <2>1, <2>3 DEF SlowSlot, SlowName
  <2> QED
    BY <1>3, <1>5, <2>2, <2>4 DEF HurriesOn, HurryInv
<1>6. ASSUME Instr(c)'.hurry, HurryBegins(c, Instr(c), Script[c][n], pc[c], n)
      PROVE  SlowFirst(c)' /\ \A h \in Instr(c)'.live : (st[fut[c][h].slot] = "pending")'
  <2> DEFINE h == Instr(c).h
  <2>1. /\ Instr(c)' = Script[c][n] /\ Instr(c)'.live = {h} /\ Instr(c).live = {h}
        /\ Untouched(c, h) /\ UNCHANGED st /\ h \in Futures
        /\ queue' = Append(queue, RequestOf(c))
    BY <1>6, ScriptFacts DEF Moved, HurryBegins
  <2>2. \A r \in InFlight : r.from # c
    BY <1>6, NothingElseOut DEF HurryBegins
  <2>3. SlowSlot(c)' = fut[c][h].slot
    BY <2>1 DEF SlowSlot, SlowName, Untouched, Futures
  <2>4. PICK last \in DOMAIN queue' :
          /\ queue'[last] = RequestOf(c)
          /\ \A i \in DOMAIN queue' : i = last \/ (i \in DOMAIN queue /\ queue'[i] = queue[i])
    BY <1>2, <2>1
  <2>5. \A r : r = RequestOf(c) => IsSlowOne(c, r)'
    <3>1. /\ RequestOf(c).from = c /\ RequestOf(c).load = Instr(c).load
          /\ RequestOf(c).promise = fut[c][h]
      BY DEF RequestOf
    <3>2. Instr(c).load.blk = SlowBlock
      BY <1>6 DEF HurryBegins, HealthyBoard
    <3> QED
      BY <2>3, <3>1, <3>2 DEF IsSlowOne
  <2>6. SlowFirst(c)'
    <3>1. (request # NoRequest => request.from # c)'
      BY <1>1, <2>2 DEF InFlight
    <3>2. \E i \in DOMAIN queue' : i = last /\ IsSlowOne(c, queue[i])'
      BY <2>4, <2>5
    <3>3. \A j \in DOMAIN queue' : queue'[j].from = c => last <= j
      <4>1. \A j \in DOMAIN queue' : queue'[j].from = c => j = last
        BY <2>2, <2>4 DEF InFlight
      <4>2. last <= last
        BY <1>2, <2>1, <2>4
      <4> QED
        BY <4>1, <4>2
    <3> QED
      BY <3>1, <3>2, <3>3 DEF SlowFirst
  <2>7. st[fut[c][h].slot] = "pending"
    <3>1. Unsent(c) /\ fut[c][h] # NoFuture /\ "promise" \in held[fut[c][h].slot]
      BY <1>6 DEF HurryBegins, Unsent, PromiseOf, IInv, PoolSafety, PromisesExclusive
    <3>2. fut[c][h].slot \in Slots /\ st[fut[c][h].slot] \in {"pending", "resolved"}
      BY <2>1, <3>1, FutureHeld
    <3> QED
      BY <3>1, <3>2 DEF IInv, PoolSafety, StateFollowsHolders
  <2> QED
    BY <2>1, <2>6, <2>7 DEF Untouched
<1>7. Instr(c)' = Script[c][n]
  BY DEF Moved
<1> QED
  BY <1>0, <1>4, <1>5, <1>6, <1>7 DEF HurryInv, ToldThere

LEMMA MovedFuture ==
  ASSUME HealthyBoard, Healthy, NEW c \in Clients, NEW n \in {Instr(c).ok, Instr(c).fail},
         Moved(c, n)
  PROVE  FutureInv'
<1> USE DEF Healthy, PassInv
<1>0. ToldThere(c, Instr(c), Script[c][n], pc[c], n)
  BY MovedHere
<1>1. UNCHANGED disk
  BY DEF Moved, svcVars
<1>2. \A load, a : AnsweredWell(load, a)' <=> AnsweredWell(load, a)
  BY <1>1 DEF AnsweredWell, Stored
<1> SUFFICES ASSUME NEW d \in Clients, NEW h \in Instr(d)'.live
             PROVE  Faithful(d, h)'
  BY DEF FutureInv
<1>3. CASE Fresh(d, h)
  BY <1>3 DEF Faithful, Fresh
<1>4. CASE Untouched(d, h)
  <2> DEFINE s == fut[d][h].slot
             load == Asked(d, pc[d], h)
  <2>1. /\ h \in Instr(d).live /\ fut'[d][h] = fut[d][h] /\ st'[s] = st[s] /\ ans'[s] = ans[s]
        /\ h \in Futures /\ fut[d][h] # NoFuture
    BY <1>4, ScriptFacts DEF Untouched, IInv, FuturesFollowScript, Instructions
  <2>2. CASE d = c /\ Instr(c).op = "send" /\ h = Instr(c).h
    <3>1. Asked(c, n, h) = Instr(c).load /\ n = Instr(c).ok /\ pc'[c] = n
          /\ InFlight' = InFlight \cup {RequestOf(c)}
      BY <1>0, <2>2 DEF ToldThere, Moved
    <3>2. \A r \in InFlight : r.promise.slot # s
      BY <2>2, UnsentApart DEF Unsent, PromiseOf
    <3>3. RequestOf(c).load = Instr(c).load
      BY DEF RequestOf
    <3>4. st[s] # "resolved"
      <4>1. Unsent(c) /\ "promise" \in held[s]
        BY <2>2 DEF Unsent, PromiseOf, IInv, PoolSafety, PromisesExclusive
      <4>2. s \in Slots
        BY <2>1, FutureHeld
      <4> QED
        BY <4>1, <4>2 DEF IInv, PoolSafety, StateFollowsHolders
    <3> QED
      BY <2>1, <2>2, <3>1, <3>2, <3>3, <3>4 DEF Faithful
  <2>3. CASE ~(d = c /\ Instr(c).op = "send" /\ h = Instr(c).h)
    <3>1. Asked(d, pc'[d], h) = load
      BY <1>0, <2>1, <2>3 DEF Moved, ToldThere
    <3>2. \A r \in InFlight' : r.promise.slot = s => r \in InFlight
      <4>1. CASE Instr(c).op = "send"
        <5>1. Unsent(c) /\ RequestOf(c).promise = fut[c][Instr(c).h] /\ Instr(c).h \in Futures
              /\ fut[c][Instr(c).h] # NoFuture
          BY <4>1, ScriptFacts DEF RequestOf, Unsent, PromiseOf, IInv, PoolSafety, PromisesExclusive
        <5>2. RequestOf(c).promise.slot # s
          BY <2>1, <2>3, <4>1, <5>1 DEF IInv, PoolSafety, FuturesExclusive
        <5> QED
          BY <5>2 DEF Moved
      <4> QED
        BY <4>1 DEF Moved
    <3>3. Faithful(d, h)
      BY <2>1 DEF FutureInv
    <3> QED
      BY <1>2, <2>1, <3>1, <3>2, <3>3 DEF Faithful
  <2> QED
    BY <2>2, <2>3
<1> QED
  BY <1>3, <1>4 DEF Moved

LEMMA MovedWork ==
  ASSUME HealthyBoard, Healthy, NEW c \in Clients, ClientStep(c)
  PROVE  WorkInv'
<1> USE DEF Healthy, PassInv
<1>1. UNCHANGED <<at, request, outcome, disk>>
  BY DEF ClientStep, svcVars
<1>2. \A load, a : AnsweredWell(load, a)' <=> AnsweredWell(load, a)
  BY <1>1 DEF AnsweredWell, Stored
<1>3. \A b : Stored(b)' <=> Stored(b)
  BY <1>1 DEF Stored
<1>4. request # NoRequest /\ st'[request.promise.slot] = "pending" =>
        st[request.promise.slot] = "pending"
  BY RequestSlot, NoNewPending
<1> QED
  BY <1>1, <1>2, <1>3, <1>4 DEF WorkInv

LEMMA MovedWrote ==
  ASSUME HealthyBoard, Healthy, NEW c \in Clients, NEW n \in {Instr(c).ok, Instr(c).fail},
         Moved(c, n)
  PROVE  WroteInv'
<1> USE DEF Healthy, PassInv
<1>0. ToldThere(c, Instr(c), Script[c][n], pc[c], n)
  BY MovedHere
<1>1. UNCHANGED disk
  BY DEF Moved, svcVars
<1>2. \A b : Stored(b)' <=> Stored(b)
  BY <1>1 DEF Stored
<1>3. Wrote(c, n) /\ ~Wrote(c, pc[c]) => Stored(Home(c))
  <2> SUFFICES ASSUME Wrote(c, n), ~Wrote(c, pc[c]) PROVE Stored(Home(c))
    OBVIOUS
  <2> DEFINE h == Instr(c).h
             load == Asked(c, pc[c], h)
  <2>1. Instr(c).op = "wait" /\ load.cmd = "Write" /\ load.blk = Home(c)
    BY <1>0 DEF ToldThere
  <2>2. h \in Instr(c).live
    BY <2>1, ScriptFacts DEF Disciplined, Instr
  <2>3. AnsweredWell(load, ans[fut[c][h].slot])
    BY <2>1, <2>2 DEF Moved, FutureInv, Faithful
  <2>4. load.blk \in DemoBlocks
    BY <2>1 DEF Home, DemoBlocks
  <2> QED
    BY <2>1, <2>3, <2>4 DEF AnsweredWell
<1> QED
  BY <1>2, <1>3 DEF WroteInv, Moved

LEMMA ClientsPass ==
  ASSUME HealthyBoard, Healthy, NEW c \in Clients, ClientStep(c)
  PROVE  PassInv'
<1>1. PICK n \in {Instr(c).ok, Instr(c).fail} : Moved(c, n)
  BY ClientMoves
<1>2. ScenariosPass'
  BY <1>1 DEF Moved, Healthy, PassInv, ScenariosPass
<1> QED
  BY <1>1, <1>2, MovedMedia, MovedHurry, MovedFuture, MovedWork, MovedWrote DEF PassInv

-----------------------------------------------------------------------------
(* The steps of T_S and of the media keep the parts of PassInv.            *)

\* With the drive in, T_S has the volume ready for every request.
LEMMA ReadyForRequests ==
  ASSUME Healthy, request # NoRequest
  PROVE  volumeReady /\ mediaUp
BY DEF Healthy, PassInv, MediaInv, InFlight

\* Who waits for the request in T_S's hands has asked for just that.
LEMMA PendingIsAsked ==
  ASSUME Healthy, request # NoRequest, st[request.promise.slot] = "pending"
  PROVE  LET c == request.from IN
         /\ c \in Clients
         /\ \E h \in Instr(c).live :
              fut[c][h].slot = request.promise.slot /\ request.load = Asked(c, pc[c], h)
<1> USE DEF Healthy, PassInv
<1> DEFINE s == request.promise.slot
<1>0. request \in InFlight
  BY DEF InFlight
<1>1. s \in Slots /\ request.from \in Clients
  BY <1>0, FlightType
<1>2. "future" \in held[s]
  BY <1>1 DEF IInv, PoolSafety, StateFollowsHolders, Sides
<1>3. PICK d \in Clients, h \in Futures : fut[d][h] # NoFuture /\ fut[d][h].slot = s
  BY <1>1, <1>2 DEF IInv, PoolSafety, NoSlotLost
<1>4. d = request.from
  BY <1>0, <1>3 DEF SizeInv, OwnInv
<1>5. h \in Instr(d).live
  BY <1>3 DEF IInv, FuturesFollowScript
<1>6. request.load = Asked(d, pc[d], h)
  BY <1>0, <1>3, <1>5 DEF FutureInv, Faithful
<1> QED
  BY <1>1, <1>3, <1>4, <1>5, <1>6

LEMMA CommittedHarmless ==
  ASSUME HealthyBoard, Healthy, CheckActive, at' \in {"slow", "work"}
  PROVE  Harmless(request.load)
<1> USE DEF Healthy, PassInv
<1>1. request # NoRequest /\ st[request.promise.slot] = "pending"
  BY DEF CheckActive, IsActive, IInv, ServicerReady
<1> DEFINE c == request.from
<1>2. c \in Clients
  BY <1>1, PendingIsAsked
<1>3. PICK h \in Instr(c).live : request.load = Asked(c, pc[c], h)
  BY <1>1, PendingIsAsked
<1>4. CASE ~Instr(c).hurry
  BY <1>2, <1>3, <1>4, ScriptFacts, ScriptsAreToldHere DEF HealthyBoard, ToldHere, Instr
<1>5. CASE Instr(c).hurry
  <2>1. request.load.blk = SlowBlock
    BY <1>1, <1>2, <1>5 DEF HurryInv, SlowFirst, IsSlowOne
  <2> QED
    BY <2>1 DEF Harmless, Kept, HealthyBoard, DemoSlowBlock
<1> QED
  BY <1>4, <1>5

\* What is in the blocks that are read back stays there.
LEMMA StoredKept ==
  ASSUME HealthyBoard, Healthy, QuietServicer \/ Receive \/ ResolvePromise
  PROVE  /\ \A b : Stored(b) => Stored(b)'
         /\ \A load, a : AnsweredWell(load, a) => AnsweredWell(load, a)'
<1> USE DEF Healthy, PassInv
<1>1. \A b : Stored(b) => Stored(b)'
  <2>1. CASE UNCHANGED disk
    BY <2>1 DEF Stored
  <2>2. CASE Work
    <3>1. request # NoRequest /\ at = "work"
      BY <2>2 DEF Work, IInv, ServicerReady
    <3>2. Harmless(request.load)
      BY <3>1 DEF WorkInv
    <3>3. disk \in [Blocks -> Values] /\ Kept \subseteq Blocks
      BY DEF IInv, TypeOK, ServiceTypeOK, HealthyBoard, Kept, DemoBlocks
    <3>4. CASE /\ request.load.cmd = "Write"
               /\ disk' = [disk EXCEPT ![request.load.blk] = request.load.val]
      BY <3>2, <3>3, <3>4 DEF Stored, Harmless
    <3> QED
      BY <2>1, <2>2, <3>4 DEF Work
  <2>3. CASE Format
    BY <2>1, <2>3, FormatKeeps DEF HealthyBoard
  <2> QED
    BY <2>1, <2>2, <2>3 DEF QuietServicer, LoopTop, ReceiveTimesOut, MountVolume, Remount,
       OpenBlockFile, CheckActive, SlowDelay, Sync, Plug, Unplug, Receive, ResolvePromise
<1> QED
  BY <1>1 DEF AnsweredWell

\* T_S neither loses the volume nor reports an I/O error.
LEMMA ServicerMedia ==
  ASSUME HealthyBoard, Healthy, UNCHANGED clientVars, QuietServicer \/ Receive \/ ResolvePromise
  PROVE  MediaInv'
<1> USE DEF Healthy, PassInv
<1>1. /\ UNCHANGED stopRequested /\ InFlight' \subseteq InFlight
      /\ \A c \in Clients : Instr(c)' = Instr(c)
  BY QuietServicerFrame, SameFlight, ReceiveFlight, ResolveEffect
  DEF Receive, ResolvePromise, clientVars, Instr
<1>2. /\ volumeReady' => mediaUp'
      /\ published' => volumeReady'
      /\ published => published'
      /\ outcome' # NoAnswer => outcome'.code # "io"
  <2>1. CASE LoopTop \/ ReceiveTimesOut \/ SlowDelay \/ Receive \/ Plug
    BY <2>1 DEF LoopTop, ReceiveTimesOut, SlowDelay, Receive, Plug, sharedVars, MediaInv
  <2>2. CASE Unplug
    BY <2>2 DEF Unplug, HealthyBoard
  <2>3. CASE MountVolume \/ Format \/ Remount \/ OpenBlockFile
    <3>1. ~volumeReady /\ request = NoRequest
      BY <2>3, ReadyForRequests
      DEF MountVolume, Format, Remount, OpenBlockFile, IInv, ServicerReady
    <3> QED
      BY <2>3, <3>1 DEF MountVolume, Format, Remount, OpenBlockFile, AfterMount, MediaInv
  <2>4. CASE CheckActive
    <3>1. request # NoRequest
      BY <2>4 DEF CheckActive, IInv, ServicerReady
    <3> QED
      BY <2>4, <3>1, ReadyForRequests DEF CheckActive, Failed, sharedVars, MediaInv
  <2>5. CASE Work \/ Sync
    <3>1. request # NoRequest
      BY <2>5 DEF Work, Sync, IInv, ServicerReady
    <3> QED
      BY <2>5, <3>1, ReadyForRequests
      DEF Work, Sync, Done, Failed, NoRoomFor, HealthyBoard, sharedVars, MediaInv
  <2>6. CASE ResolvePromise
    <3>1. request # NoRequest /\ outcome # NoAnswer
      BY <2>6 DEF ResolvePromise, IInv, ServicerReady
    <3> QED
      BY <2>6, <3>1, ReadyForRequests DEF ResolvePromise, MediaInv
  <2> QED
    BY <2>1, <2>2, <2>3, <2>4, <2>5, <2>6 DEF QuietServicer
<1> QED
  BY <1>1, <1>2 DEF MediaInv

\* T_S does not come to the end of a slow request in its settle window.
LEMMA ServicerHurry ==
  ASSUME HealthyBoard, Healthy, UNCHANGED clientVars,
         QuietServicer \/ Receive \/ ResolvePromise, SlowDelay => SlowDelayOver
  PROVE  HurryInv'
<1> USE DEF Healthy, PassInv
<1> SUFFICES ASSUME NEW c \in Clients, Instr(c)'.hurry
             PROVE  SlowFirst(c)' /\ \A h \in Instr(c)'.live : (st[fut[c][h].slot] = "pending")'
  BY DEF HurryInv
<1>1. UNCHANGED <<pc, fut>> /\ Instr(c)' = Instr(c)
  BY DEF clientVars, Instr
<1>2. SlowFirst(c) /\ \A h \in Instr(c).live : st[fut[c][h].slot] = "pending"
  BY <1>1 DEF HurryInv
<1>3. \A r : IsSlowOne(c, r)' <=> IsSlowOne(c, r)
  BY <1>1 DEF IsSlowOne, SlowSlot
<1>4. CASE QuietServicer
  <2>1. UNCHANGED <<poolVars, queue, request>>
    BY <1>4, QuietServicerFrame
  <2>2. ASSUME request # NoRequest, IsSlowOne(c, request), at \in {"check", "slow"}
        PROVE  at' \in {"check", "slow"}
    <3>1. CASE CheckActive
      <4>1. SlowName(Instr(c).live) \in Instr(c).live
        BY <1>1, ScriptFacts, ScriptsAreToldHere DEF HealthyBoard, ToldHere, Instr
      <4>2. IsActive(request.promise)
        BY <1>2, <2>2, <4>1, RequestSlot DEF IsActive, IsSlowOne, SlowSlot
      <4> QED
        BY <2>2, <3>1, <4>2, ReadyForRequests DEF CheckActive, IsSlowOne
    <3>2. CASE SlowDelay
      BY <1>1, <2>2, <3>2 DEF SlowDelayOver, IsSlowOne, HealthyBoard, AsInTheDemo
    <3> QED
      BY <1>4, <2>2, <3>1, <3>2 DEF QuietServicer, LoopTop, ReceiveTimesOut, MountVolume,
         Format, Remount, OpenBlockFile, Work, Sync, Plug, Unplug
  <2> QED
    BY <1>1, <1>2, <1>3, <2>1, <2>2 DEF SlowFirst, poolVars
<1>5. CASE Receive
  <2>1. /\ queue \in Seq(Requests) /\ queue # <<>> /\ request = NoRequest
        /\ request' = Head(queue) /\ queue' = Tail(queue) /\ UNCHANGED poolVars
        /\ request' # NoRequest
    <3>1. queue \in Seq(Requests) /\ queue # <<>> /\ request' = Head(queue)
      BY <1>5 DEF IInv, TypeOK, SharedTypeOK, Receive, QueueReceive
    <3>2. Head(queue) \in Requests
      BY <3>1, TailItems
    <3> QED
      BY <1>5, <3>1, <3>2, ServiceAssumption DEF IInv, Receive, QueueReceive, ServicerReady
  <2>2. /\ Head(queue) = queue[1] /\ 1 \in DOMAIN queue
        /\ \A i \in DOMAIN Tail(queue) :
             i \in Nat /\ i + 1 \in DOMAIN queue /\ Tail(queue)[i] = queue[i + 1]
        /\ \A j \in DOMAIN queue :
             j # 1 => j - 1 \in DOMAIN Tail(queue) /\ Tail(queue)[j - 1] = queue[j]
    BY <2>1, TailItems
  <2>3. PICK i \in DOMAIN queue :
          IsSlowOne(c, queue[i]) /\ \A j \in DOMAIN queue : queue[j].from = c => i <= j
    BY <1>2, <2>1 DEF SlowFirst
  <2>4. i \in Nat /\ i >= 1 /\ queue[i].from = c
    BY <2>1, <2>3 DEF IsSlowOne
  <2>5. CASE i = 1
    <3>1. at' = "check"
      <4>1. queue[1] \in InFlight
        BY <2>2 DEF InFlight
      <4> QED
        BY <1>5, <4>1 DEF Receive, MediaInv
    <3>2. (request # NoRequest /\ IsSlowOne(c, request) /\ at \in {"check", "slow"})'
      <4>1. \E r : r = request' /\ IsSlowOne(c, r)'
        BY <1>3, <2>1, <2>2, <2>3, <2>5
      <4> QED
        BY <2>1, <3>1, <4>1
    <3> QED
      BY <1>1, <1>2, <2>1, <3>2 DEF SlowFirst, poolVars
  <2>6. CASE i # 1
    <3>1. (request # NoRequest => request.from # c)'
      BY <2>1, <2>2, <2>3, <2>4, <2>6
    <3>2. i - 1 \in DOMAIN queue' /\ queue'[i - 1] = queue[i]
      BY <2>1, <2>2, <2>3, <2>6
    <3>3. \A j \in DOMAIN queue' : queue'[j].from = c => i - 1 <= j
      <4> SUFFICES ASSUME NEW j \in DOMAIN queue', queue'[j].from = c
                   PROVE  i - 1 <= j
        OBVIOUS
      <4>1. j \in Nat /\ i <= j + 1
        BY <2>1, <2>2, <2>3
      <4> QED
        BY <2>4, <4>1
    <3>4. \E k \in DOMAIN queue' : k = i - 1 /\ IsSlowOne(c, queue[k])'
      BY <1>3, <2>3, <3>2
    <3>5. SlowFirst(c)'
      BY <3>1, <3>3, <3>4 DEF SlowFirst
    <3> QED
      BY <1>1, <1>2, <2>1, <3>5 DEF poolVars
  <2> QED
    BY <2>5, <2>6
<1>6. CASE ResolvePromise
  <2>1. /\ request \in InFlight /\ at = "resolve" /\ request' = NoRequest /\ UNCHANGED queue
        /\ request # NoRequest
    BY <1>6, ResolveEffect DEF ResolvePromise, IInv, ServicerReady
  <2>2. request.from # c
    BY <1>2, <2>1 DEF SlowFirst
  <2>3. SlowFirst(c)'
    BY <1>2, <1>3, <2>1 DEF SlowFirst
  <2>4. ASSUME NEW h \in Instr(c).live PROVE st'[fut[c][h].slot] = st[fut[c][h].slot]
    <3>1. h \in Futures /\ fut[c][h] # NoFuture
      BY ScriptFacts DEF IInv, FuturesFollowScript, Instructions
    <3>2. fut[c][h].slot \in Slots /\ fut[c][h].slot # request.promise.slot
      BY <2>1, <2>2, <3>1, FutureHeld DEF SizeInv, OwnInv
    <3> QED
      BY <1>6, <3>2, ResolveEffect
  <2> QED
    BY <1>1, <1>2, <2>3, <2>4
<1> QED
  BY <1>4, <1>5, <1>6

\* The answers that T_S gives are what was asked for.
LEMMA ServicerFuture ==
  ASSUME HealthyBoard, Healthy, UNCHANGED clientVars, QuietServicer \/ Receive \/ ResolvePromise
  PROVE  FutureInv'
<1> USE DEF Healthy, PassInv
<1>1. UNCHANGED <<pc, fut>> /\ \A c \in Clients : Instr(c)' = Instr(c)
  BY DEF clientVars, Instr
<1> SUFFICES ASSUME NEW c \in Clients, NEW h \in Instr(c).live
             PROVE  Faithful(c, h)'
  BY <1>1 DEF FutureInv
<1> DEFINE s == fut[c][h].slot
           load == Asked(c, pc[c], h)
<1>2. /\ \A r \in InFlight : r.promise.slot = s => r.load = load
      /\ st[s] = "resolved" => AnsweredWell(load, ans[s])
  BY DEF FutureInv, Faithful
<1>3. \A l, a : AnsweredWell(l, a) => AnsweredWell(l, a)'
  BY StoredKept
<1>4. CASE QuietServicer \/ Receive
  <2>1. InFlight' = InFlight /\ UNCHANGED <<st, ans>>
    BY <1>4, QuietServicerFrame, SameFlight, ReceiveFlight DEF Receive, poolVars
  <2> QED
    BY <1>1, <1>2, <1>3, <2>1 DEF Faithful
<1>5. CASE ResolvePromise
  <2>1. s \in Slots
    BY ScriptFacts, FutureHeld DEF IInv, FuturesFollowScript, Instructions
  <2>2. \A r \in InFlight' : r \in InFlight
    BY <1>5, ResolveEffect
  <2>3. CASE s # request.promise.slot
    BY <1>1, <1>2, <1>3, <1>5, <2>1, <2>2, <2>3, ResolveEffect DEF Faithful
  <2>4. CASE s = request.promise.slot
    <3>1. request \in InFlight /\ at = "resolve" /\ request # NoRequest
      BY <1>5, ResolveEffect DEF IInv, ServicerReady
    <3>2. CASE st[s] = "pending"
      <4>1. st'[s] = "resolved" /\ ans'[s] = outcome
        BY <1>5, <2>4, <3>2, ResolveEffect
      <4>2. AnsweredWell(load, outcome)
        BY <1>2, <2>4, <3>1, <3>2 DEF WorkInv
      <4> QED
        BY <1>1, <1>2, <1>3, <2>2, <4>1, <4>2 DEF Faithful
    <3>3. CASE st[s] # "pending"
      <4>1. st'[s] # "resolved"
        BY <1>5, <2>4, <3>1, <3>3, ResolveEffect, FlightType
      <4> QED
        BY <1>1, <1>2, <2>2, <4>1 DEF Faithful
    <3> QED
      BY <3>2, <3>3
  <2> QED
    BY <2>3, <2>4
<1> QED
  BY <1>4, <1>5

\* A read that is waited for finds what its client put there before.
LEMMA WorkAnswersWell ==
  ASSUME HealthyBoard, Healthy, Work, at' = "resolve", st[request.promise.slot] = "pending"
  PROVE  AnsweredWell(request.load, outcome')
<1> USE DEF Healthy, PassInv
<1> DEFINE load == request.load
           c == request.from
<1>1. request # NoRequest
  BY DEF Work, IInv, ServicerReady
<1>2. mediaUp /\ c \in Clients
  BY <1>1, ReadyForRequests, PendingIsAsked
<1>3. PICK h \in Instr(c).live : load = Asked(c, pc[c], h)
  BY <1>1, PendingIsAsked
<1>4. CASE load.cmd = "GetStatus"
  BY <1>4 DEF Work, AnsweredWell, Due, Done, HealthyBoard
<1>5. CASE load.cmd # "GetStatus" /\ load.blk \notin Blocks
  BY <1>5 DEF AnsweredWell, HealthyBoard
<1>6. CASE load.cmd = "Read" /\ load.blk \in Blocks
  <2>1. Wrote(c, pc[c]) /\ load.blk = Home(c)
    BY <1>2, <1>3, <1>6, ScriptFacts, ScriptsAreToldHere DEF HealthyBoard, ToldHere, Instr
  <2>2. disk[load.blk] = Content(load.blk)
    BY <1>2, <2>1 DEF WroteInv, Stored, Home, Kept
  <2>3. outcome' = Done(disk[load.blk])
    BY <1>2, <1>6 DEF Work, NoRoomFor, HealthyBoard
  <2> QED
    BY <1>6, <2>2, <2>3 DEF AnsweredWell, Due
<1> QED
  BY <1>2, <1>4, <1>5, <1>6 DEF Work, NoRoomFor, HealthyBoard

LEMMA ServicerWork ==
  ASSUME HealthyBoard, Healthy, UNCHANGED clientVars, QuietServicer \/ Receive \/ ResolvePromise
  PROVE  WorkInv'
<1> USE DEF Healthy, PassInv
<1>0. /\ \A b : Stored(b) => Stored(b)'
      /\ \A load, a : AnsweredWell(load, a) => AnsweredWell(load, a)'
  BY StoredKept
<1>1. CASE Receive \/ ResolvePromise
  BY <1>1 DEF Receive, ResolvePromise, WorkInv
<1>2. CASE QuietServicer
  <2>1. UNCHANGED <<st, request>>
    BY <1>2, QuietServicerFrame DEF poolVars
  <2>2. CASE LoopTop \/ ReceiveTimesOut
    BY <2>1, <2>2 DEF LoopTop, ReceiveTimesOut, WorkInv
  <2>3. CASE MountVolume \/ Format \/ Remount \/ OpenBlockFile
    BY <2>1, <2>3 DEF MountVolume, Format, Remount, OpenBlockFile, AfterMount, WorkInv
  <2>4. CASE Plug \/ Unplug
    BY <1>0, <2>1, <2>4 DEF Plug, Unplug, WorkInv
  <2>5. CASE SlowDelay
    BY <1>0, <2>1, <2>5 DEF SlowDelay, WorkInv
  <2>6. CASE CheckActive
    <3>1. request # NoRequest
      BY <2>6 DEF CheckActive, IInv, ServicerReady
    <3>2. at' = "resolve" => st[request.promise.slot] # "pending"
      BY <2>6, <3>1, RequestSlot, ReadyForRequests DEF CheckActive, IsActive
    <3>3. at' \in {"slow", "work"} => Harmless(request.load)
      BY <2>6, CommittedHarmless
    <3>4. at' \in {"slow", "work", "resolve"}
      BY <2>6 DEF CheckActive
    <3> QED
      BY <2>1, <3>2, <3>3, <3>4 DEF WorkInv
  <2>7. CASE Work
    <3>1. request # NoRequest /\ Harmless(request.load)
      BY <2>7 DEF Work, IInv, ServicerReady, WorkInv
    <3>2. CASE at' = "resolve"
      <4>1. st[request.promise.slot] = "pending" => AnsweredWell(request.load, outcome')
        BY <2>7, <3>2, WorkAnswersWell
      <4>2. \A a : a = outcome' /\ AnsweredWell(request.load, a) =>
                    AnsweredWell(request.load, outcome)'
        BY <1>0, <2>1
      <4> QED
        BY <2>1, <3>2, <4>1, <4>2 DEF WorkInv
    <3>3. CASE at' = "sync"
      <4>1. /\ request.load.cmd = "Write" /\ request.load.blk \in Blocks
            /\ disk' = [disk EXCEPT ![request.load.blk] = request.load.val]
        BY <2>7, <3>3 DEF Work
      <4>2. disk \in [Blocks -> Values]
        BY DEF IInv, TypeOK, ServiceTypeOK
      <4>3. Stored(request.load.blk)'
        BY <2>1, <3>1, <4>1, <4>2 DEF Stored, Harmless
      <4> QED
        BY <2>1, <3>1, <3>3, <4>1, <4>3 DEF WorkInv, Harmless
    <3> QED
      BY <2>7, <3>2, <3>3 DEF Work
  <2>8. CASE Sync
    <3>1. /\ request # NoRequest /\ request.load.cmd = "Write" /\ Stored(request.load.blk)
          /\ at' = "resolve"
      BY <2>8 DEF Sync, IInv, ServicerReady, WorkInv
    <3>2. outcome' = Done(DemoBlank)
      BY <2>8, <3>1, ReadyForRequests DEF Sync, HealthyBoard
    <3>3. AnsweredWell(request.load, outcome')
      BY <3>1, <3>2 DEF AnsweredWell, Due
    <3>4. \A a : a = outcome' /\ AnsweredWell(request.load, a) =>
                  AnsweredWell(request.load, outcome)'
      BY <1>0, <2>1
    <3> QED
      BY <2>1, <3>1, <3>3, <3>4 DEF WorkInv
  <2> QED
    BY <1>2, <2>2, <2>3, <2>4, <2>5, <2>6, <2>7, <2>8 DEF QuietServicer
<1> QED
  BY <1>1, <1>2

LEMMA ServicerPasses ==
  ASSUME HealthyBoard, Healthy, UNCHANGED clientVars,
         QuietServicer \/ Receive \/ ResolvePromise, SlowDelay => SlowDelayOver
  PROVE  PassInv'
<1>1. WroteInv'
  BY StoredKept DEF Healthy, PassInv, WroteInv, clientVars
<1>2. ScenariosPass'
  BY DEF Healthy, PassInv, ScenariosPass, clientVars
<1> QED
  BY <1>1, <1>2, ServicerMedia, ServicerHurry, ServicerFuture, ServicerWork DEF PassInv

\* Somebody is asked to stop, or nothing happens.
LEMMA IdlePasses ==
  ASSUME Healthy, UNCHANGED vars \/ \E t \in Stoppable : RequestStop(t)
  PROVE  PassInv'
<1> USE DEF Healthy, PassInv
<1>1. /\ UNCHANGED <<poolVars, queue, published, svcVars, clientVars>>
      /\ stopRequested \subseteq stopRequested'
  BY DEF vars, RequestStop, sharedVars
<1>2. /\ UNCHANGED <<st, ans, queue, published, request, at, outcome, disk, volumeReady, mediaUp>>
      /\ UNCHANGED <<pc, fut, good>> /\ InFlight' = InFlight
      /\ \A c \in Clients : Instr(c)' = Instr(c)
  BY <1>1, SameFlight DEF poolVars, svcVars, clientVars, Instr
<1>3. /\ \A b : Stored(b)' <=> Stored(b)
      /\ \A load, a : AnsweredWell(load, a)' <=> AnsweredWell(load, a)
  BY <1>2 DEF AnsweredWell, Stored
<1>4. MediaInv'
  BY <1>1, <1>2 DEF MediaInv
<1>5. HurryInv'
  <2>1. \A c \in Clients : SlowFirst(c) => SlowFirst(c)'
    BY <1>2 DEF SlowFirst, IsSlowOne, SlowSlot
  <2> QED
    BY <1>2, <2>1 DEF HurryInv
<1>6. FutureInv'
  BY <1>2, <1>3 DEF FutureInv, Faithful
<1>7. WorkInv' /\ WroteInv' /\ ScenariosPass'
  BY <1>2, <1>3 DEF WorkInv, WroteInv, ScenariosPass
<1> QED
  BY <1>4, <1>5, <1>6, <1>7

LEMMA PassInit ==
  ASSUME HealthyBoard
  PROVE  Init => PassInv
<1> SUFFICES ASSUME Init PROVE PassInv
  OBVIOUS
<1>1. /\ InFlight = {} /\ request = NoRequest /\ outcome = NoAnswer /\ ~published /\ ~volumeReady
      /\ pc = [c \in Clients |-> 1] /\ good = [c \in Clients |-> TRUE]
  BY DEF Init, SharedInit, ServiceInit, ClientInit, InFlight
<1>2. \A c \in Clients : Instr(c).op = "media" /\ Instr(c).live = {} /\ ~Wrote(c, pc[c])
  BY <1>1, ScriptAssumption DEF Instr, Disciplined, Wrote
<1>3. \A c \in Clients : ~Instr(c).hurry
  BY <1>1, <1>2, ScriptAssumption, ScriptsAreToldHere DEF HealthyBoard, ToldHere, Instr
<1> QED
  BY <1>1, <1>2, <1>3
  DEF PassInv, MediaInv, HurryInv, FutureInv, WorkInv, WroteInv, ScenariosPass

LEMMA PassNext ==
  ASSUME HealthyBoard
  PROVE  IInv /\ VolumeSound /\ SizeInv /\ PassInv /\ [Next]_vars => PassInv'
<1> SUFFICES ASSUME Healthy, [Next]_vars PROVE PassInv'
  BY DEF Healthy
<1>1. CASE ServicerStep
  <2>1. SlowDelay => SlowDelayOver
    BY <1>1 DEF ServicerStep, LoopTop, Receive, ReceiveTimesOut, MountVolume, Format, Remount, OpenBlockFile,
       CheckActive, Work, Sync, ResolvePromise, SlowDelay
  <2> QED
    BY <1>1, <2>1, ServicerPasses DEF ServicerStep, SlowDelayOver, QuietServicer
<1>2. CASE Media
  <2>1. ~SlowDelay \/ SlowDelayOver
    BY <1>2 DEF Media, Plug, Unplug, SlowDelay
  <2> QED
    BY <1>2, <2>1, ServicerPasses DEF Media, QuietServicer
<1>3. ASSUME NEW c \in Clients, ClientStep(c) PROVE PassInv'
  BY <1>3, ClientsPass
<1>4. CASE UNCHANGED vars \/ \E t \in Stoppable : RequestStop(t)
  BY <1>4, IdlePasses
<1> QED
  BY <1>1, <1>2, <1>3, <1>4 DEF Next

(* On a board whose drive stays in, no scenario ever logs FAIL: whatever   *)
(* the others have in the queue, each gets the answers and the time-outs   *)
(* it is written to see, whichever of them are asked to stop, and when.    *)
THEOREM ScenariosAlwaysPass ==
  ASSUME HealthyBoard
  PROVE  Spec => []ScenariosPass
<1>1. IInv /\ SizeInv /\ [Next]_vars => SizeInv'
  BY SizeNext DEF HealthyBoard
<1>2. IInv /\ VolumeSound /\ SizeInv /\ PassInv /\ [Next]_vars => PassInv'
  BY PassNext
<1>3. Init => PassInv
  BY PassInit
<1>4. PassInv => ScenariosPass
  BY DEF PassInv
<1> QED
  BY <1>1, <1>2, <1>3, <1>4, InitInvariant, NextInvariant, VolumeInit, VolumeStep, SizeInit, PTL
  DEF Spec

=============================================================================
