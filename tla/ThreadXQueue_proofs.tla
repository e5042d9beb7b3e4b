------------------------- MODULE ThreadXQueue_proofs -------------------------
(***************************************************************************)
(* For any senders, receivers, items and capacity: the slots of the ThreadX*)
(* queue are conserved, no post of one fails, and the queue implements     *)
(* BoundedQueue.                                                           *)
(***************************************************************************)
EXTENDS ThreadXQueue, FiniteSetTheorems, SequenceTheorems, TLAPS

In(q, s) == \E i \in DOMAIN q : q[i] = s
Distinct(q) == \A i, j \in DOMAIN q : q[i] = q[j] => i = j

(* Every slot is somewhere, and in one place only; a call holds one between*)
(* its first and its last step.                                            *)
SlotInv ==
  /\ Distinct(free) /\ Distinct(filled)
  /\ \A s \in TxSlots : ~ (In(free, s) /\ In(filled, s))
  /\ \A t \in Tasks :
       txArg[t].slot # NoSlot => ~ In(free, txArg[t].slot) /\ ~ In(filled, txArg[t].slot)
  /\ \A t, u \in Tasks : txArg[t].slot # NoSlot /\ txArg[t].slot = txArg[u].slot => t = u
  /\ \A s \in TxSlots : In(free, s) \/ In(filled, s) \/ \E t \in Tasks : txArg[t].slot = s
  /\ \A t \in Tasks : txAt[t] \in {"copy", "pass on"} <=> txArg[t].slot # NoSlot

TxInv == TxTypeOK /\ SlotInv /\ PostsNeverFail

-----------------------------------------------------------------------------
\* Sequences of slots

(* A receive from a queue of slots takes out the first and no other.      *)
LEMMA TailPlaces ==
  ASSUME NEW S, NEW q \in Seq(S), q # <<>>, Distinct(q)
  PROVE  /\ Head(q) \in S /\ Tail(q) \in Seq(S)
         /\ In(q, Head(q))
         /\ Distinct(Tail(q))
         /\ \A s : In(Tail(q), s) <=> In(q, s) /\ s # Head(q)
<1>1. Len(q) \in Nat \ {0} /\ DOMAIN q = 1 .. Len(q) /\ Head(q) = q[1] /\ 1 \in DOMAIN q
  OBVIOUS
<1>2. /\ Tail(q) \in Seq(S) /\ DOMAIN Tail(q) = 1 .. Len(q) - 1
      /\ \A i \in 1 .. Len(q) - 1 : Tail(q)[i] = q[i + 1]
  OBVIOUS
<1>3. Head(q) \in S /\ In(q, Head(q))
  BY <1>1 DEF In
<1>4. Distinct(Tail(q))
  <2>1. SUFFICES ASSUME NEW i \in 1 .. Len(q) - 1, NEW j \in 1 .. Len(q) - 1,
                        q[i + 1] = q[j + 1]
                 PROVE  i = j
    BY <1>2 DEF Distinct
  <2>2. i + 1 \in DOMAIN q /\ j + 1 \in DOMAIN q
    BY <1>1
  <2>3. i + 1 = j + 1
    BY <2>1, <2>2 DEF Distinct
  <2> QED
    BY <2>3, <1>1
<1>5. ASSUME NEW s PROVE In(Tail(q), s) <=> In(q, s) /\ s # Head(q)
  <2>1. ASSUME In(Tail(q), s) PROVE In(q, s) /\ s # Head(q)
    <3>1. PICK i \in 1 .. Len(q) - 1 : q[i + 1] = s
      BY <2>1, <1>2 DEF In
    <3>2. i + 1 \in DOMAIN q /\ i + 1 # 1
      BY <1>1
    <3> QED
      BY <3>1, <3>2, <1>1 DEF In, Distinct
  <2>2. ASSUME In(q, s), s # Head(q) PROVE In(Tail(q), s)
    <3>1. PICK k \in DOMAIN q : q[k] = s
      BY <2>2 DEF In
    <3>2. k # 1
      BY <3>1, <2>2, <1>1
    <3>3. k - 1 \in 1 .. Len(q) - 1 /\ (k - 1) + 1 = k
      BY <3>2, <1>1
    <3> QED
      BY <3>1, <3>3, <1>2 DEF In
  <2> QED
    BY <2>1, <2>2
<1> QED
  BY <1>2, <1>3, <1>4, <1>5

(* A send to a queue of slots adds its slot and no other.                 *)
LEMMA AppendPlaces ==
  ASSUME NEW S, NEW q \in Seq(S), NEW e \in S, ~ In(q, e), Distinct(q)
  PROVE  /\ Append(q, e) \in Seq(S)
         /\ Distinct(Append(q, e))
         /\ \A s : In(Append(q, e), s) <=> In(q, s) \/ s = e
<1>1. /\ Len(q) \in Nat /\ DOMAIN q = 1 .. Len(q)
      /\ Append(q, e) \in Seq(S) /\ DOMAIN Append(q, e) = 1 .. Len(q) + 1
      /\ \A i \in 1 .. Len(q) : Append(q, e)[i] = q[i]
      /\ Append(q, e)[Len(q) + 1] = e
  OBVIOUS
<1>2. \A i \in 1 .. Len(q) + 1 : i \in 1 .. Len(q) \/ i = Len(q) + 1
  BY <1>1
<1>3. 1 .. Len(q) \subseteq 1 .. Len(q) + 1 /\ Len(q) + 1 \in 1 .. Len(q) + 1
  BY <1>1
<1>4. Distinct(Append(q, e))
  BY <1>1, <1>2 DEF Distinct, In
<1>5. \A s : In(Append(q, e), s) <=> In(q, s) \/ s = e
  BY <1>1, <1>2, <1>3 DEF In
<1> QED
  BY <1>1, <1>4, <1>5

(* A slot that is not in a queue leaves it room.                           *)
LEMMA SlotOutside ==
  ASSUME NEW q \in Seq(TxSlots), Distinct(q), NEW s \in TxSlots, ~ In(q, s)
  PROVE  Room(q)
<1>1. Capacity \in Nat \ {0}
  BY QueueAssumption DEF QueueAssumption
<1> DEFINE others == TxSlots \ {s}
<1>2. IsFiniteSet(TxSlots) /\ Cardinality(TxSlots) = Capacity
  BY <1>1, FS_Interval DEF TxSlots
<1>3. IsFiniteSet(others) /\ Cardinality(others) = Capacity - 1
  BY <1>2, FS_RemoveElement
<1>4. Len(q) \in Nat /\ DOMAIN q = 1 .. Len(q) /\ q \in [1 .. Len(q) -> TxSlots]
  OBVIOUS
<1>5. q \in Injection(1 .. Len(q), others)
  <2>1. q \in [1 .. Len(q) -> others]
    BY <1>4 DEF In
  <2> QED
    BY <2>1, <1>4 DEF Injection, Distinct, IsInjective
<1>6. Cardinality(1 .. Len(q)) <= Cardinality(others)
  BY <1>3, <1>5, FS_Injection
<1>7. Cardinality(1 .. Len(q)) = Len(q)
  BY <1>4, FS_Interval
<1> QED
  BY <1>1, <1>3, <1>4, <1>6, <1>7 DEF Room

-----------------------------------------------------------------------------
\* The steps

(* After osal_queue_create every slot is in the queue of free ones.       *)
LEMMA TxInitInv == TxInit => TxInv
<1> SUFFICES ASSUME TxInit PROVE TxInv
  OBVIOUS
<1>1. Capacity \in Nat \ {0}
  BY QueueAssumption DEF QueueAssumption
<1>2. free \in Seq(TxSlots) /\ filled \in Seq(TxSlots) /\ DOMAIN free = TxSlots /\ DOMAIN filled = {}
  BY <1>1 DEF TxInit, TxSlots
<1>3. TxTypeOK
  BY <1>2 DEF TxInit, TxTypeOK, TxArgs, NoTxArg, Patience
<1>4. \A s : (In(free, s) <=> s \in TxSlots) /\ ~ In(filled, s)
  BY <1>2 DEF In, TxInit
<1>5. Distinct(free) /\ Distinct(filled)
  BY <1>2 DEF Distinct, TxInit
<1>6. \A t \in Tasks : txArg[t].slot = NoSlot /\ txAt[t] = "idle"
  BY DEF TxInit, NoTxArg
<1>7. SlotInv
  BY <1>4, <1>5, <1>6 DEF SlotInv
<1> QED
  BY <1>3, <1>7 DEF TxInv, PostsNeverFail, TxInit

(* A step that leaves the queues and everybody's slot alone, and puts its  *)
(* task nowhere else among those that hold one, keeps the slots in place.  *)
LEMMA SlotsLeftAlone ==
  ASSUME SlotInv, UNCHANGED <<free, filled>>,
         \A t \in Tasks : txArg'[t].slot = txArg[t].slot,
         \A t \in Tasks : txAt'[t] \in {"copy", "pass on"} <=> txAt[t] \in {"copy", "pass on"}
  PROVE  SlotInv'
  BY ZenonT(30) DEF SlotInv

(* A task that takes the first slot of one queue and leaves the other alone*)
(* holds it then, and nobody else.                                         *)
LEMMA TakingKeepsSlots ==
  ASSUME TxTypeOK, SlotInv, NEW t \in Tasks, txAt[t] = "claim",
         NEW slot \in TxSlots, txArg'[t].slot = slot, txAt'[t] = "copy",
         \A u \in Tasks \ {t} : txArg'[u].slot = txArg[u].slot /\ txAt'[u] = txAt[u],
         Distinct(free'), Distinct(filled'),
         In(free, slot) \/ In(filled, slot),
         ~ In(free', slot) /\ ~ In(filled', slot),
         \A s : s # slot => (In(free', s) <=> In(free, s)) /\ (In(filled', s) <=> In(filled, s))
  PROVE  SlotInv'
<1>1. NoSlot \notin TxSlots
  BY DEF TxSlots, NoSlot
<1>2. txArg[t].slot = NoSlot /\ \A u \in Tasks : txArg[u].slot # slot
  BY <1>1 DEF SlotInv
<1>3. \A s \in TxSlots : ~ (In(free, s) /\ In(filled, s))'
  BY DEF SlotInv
<1>4. \A u \in Tasks : txArg'[u].slot # NoSlot =>
        ~ In(free', txArg'[u].slot) /\ ~ In(filled', txArg'[u].slot)
  BY <1>2 DEF SlotInv
<1>5. ASSUME NEW u \in Tasks, NEW v \in Tasks,
             txArg'[u].slot # NoSlot, txArg'[u].slot = txArg'[v].slot
      PROVE  u = v
  <2>1. CASE u # t /\ v # t
    <3>1. txArg'[u].slot = txArg[u].slot /\ txArg'[v].slot = txArg[v].slot
      BY <2>1
    <3>2. \A x, y \in Tasks : txArg[x].slot # NoSlot /\ txArg[x].slot = txArg[y].slot => x = y
      BY DEF SlotInv
    <3> QED
      BY <1>5, <3>1, <3>2
  <2>2. CASE u = t /\ v # t
    BY <1>2, <1>5, <2>2
  <2>3. CASE u # t /\ v = t
    BY <1>2, <1>5, <2>3
  <2> QED
    BY <2>1, <2>2, <2>3
<1>6. ASSUME NEW s \in TxSlots
      PROVE  In(free', s) \/ In(filled', s) \/ \E u \in Tasks : txArg'[u].slot = s
  <2>1. CASE s = slot
    BY <2>1
  <2>2. CASE s # slot /\ (In(free, s) \/ In(filled, s))
    BY <2>2
  <2>3. ASSUME NEW u \in Tasks, txArg[u].slot = s PROVE txArg'[u].slot = s
    BY <2>3, <1>1, <1>2
  <2> QED
    BY <2>1, <2>2, <2>3 DEF SlotInv
<1>7. ASSUME NEW u \in Tasks
      PROVE  txAt'[u] \in {"copy", "pass on"} <=> txArg'[u].slot # NoSlot
  <2>1. CASE u = t
    BY <1>1, <2>1
  <2>2. CASE u # t
    BY <2>2, ZenonT(30) DEF SlotInv
  <2> QED
    BY <2>1, <2>2
<1> QED
  BY <1>3, <1>4, <1>5, <1>6, <1>7 DEF SlotInv

(* A task that puts its slot into one queue and leaves the other alone     *)
(* holds none then.                                                        *)
LEMMA PassingKeepsSlots ==
  ASSUME TxTypeOK, SlotInv, NEW t \in Tasks,
         NEW slot \in TxSlots, txArg[t].slot = slot, txArg'[t].slot = NoSlot, txAt'[t] = "done",
         \A u \in Tasks \ {t} : txArg'[u].slot = txArg[u].slot /\ txAt'[u] = txAt[u],
         Distinct(free'), Distinct(filled'),
         In(free', slot) \/ In(filled', slot), ~ (In(free', slot) /\ In(filled', slot)),
         \A s : s # slot => (In(free', s) <=> In(free, s)) /\ (In(filled', s) <=> In(filled, s))
  PROVE  SlotInv'
<1>1. NoSlot \notin TxSlots
  BY DEF TxSlots, NoSlot
<1>2. \A u \in Tasks \ {t} : txArg[u].slot # slot
  BY <1>1 DEF SlotInv
<1>3. \A s \in TxSlots : ~ (In(free, s) /\ In(filled, s))'
  BY DEF SlotInv
<1>4. \A u \in Tasks : txArg'[u].slot # NoSlot =>
        ~ In(free', txArg'[u].slot) /\ ~ In(filled', txArg'[u].slot)
  BY <1>2 DEF SlotInv
<1>5. ASSUME NEW u \in Tasks, NEW v \in Tasks,
             txArg'[u].slot # NoSlot, txArg'[u].slot = txArg'[v].slot
      PROVE  u = v
  <2>1. u # t /\ v # t
    BY <1>5
  <2>2. txArg'[u].slot = txArg[u].slot /\ txArg'[v].slot = txArg[v].slot
    BY <2>1
  <2>3. \A x, y \in Tasks : txArg[x].slot # NoSlot /\ txArg[x].slot = txArg[y].slot => x = y
    BY DEF SlotInv
  <2> QED
    BY <1>5, <2>2, <2>3
<1>6. ASSUME NEW s \in TxSlots
      PROVE  In(free', s) \/ In(filled', s) \/ \E u \in Tasks : txArg'[u].slot = s
  <2>1. CASE s = slot
    BY <2>1
  <2>2. CASE s # slot /\ (In(free, s) \/ In(filled, s))
    BY <2>2
  <2>3. ASSUME NEW u \in Tasks, txArg[u].slot = s, s # slot PROVE txArg'[u].slot = s
    BY <2>3
  <2> QED
    BY <2>1, <2>2, <2>3 DEF SlotInv
<1>7. \A u \in Tasks : txAt'[u] \in {"copy", "pass on"} <=> txArg'[u].slot # NoSlot
  BY DEF SlotInv
<1> QED
  BY <1>3, <1>4, <1>5, <1>6, <1>7 DEF SlotInv

(* Every step of a send or a receive keeps the slots in place.            *)
LEMMA TxSteps ==
  ASSUME TxInv, TxNext
  PROVE  TxInv'
<1>1. Capacity \in Nat \ {0} /\ NoSlot \notin TxSlots
  BY QueueAssumption DEF QueueAssumption, TxSlots, NoSlot
<1>2. /\ TxTypeOK /\ SlotInv /\ posted = TRUE
      /\ free \in Seq(TxSlots) /\ filled \in Seq(TxSlots)
  BY DEF TxInv, TxTypeOK, PostsNeverFail
<1>3. NoTxArg \in TxArgs /\ NoTxArg.slot = NoSlot
  BY DEF NoTxArg, TxArgs, Patience
<1>4. PICK t \in Tasks : TxCall(t) \/ TxRuns(t)
  BY DEF TxNext
<1>5. txArg[t] \in TxArgs /\ txAt[t] \in {"idle", "claim", "copy", "pass on", "done", "failed"}
  BY <1>2 DEF TxTypeOK
<1>6. ASSUME NEW a \in TxArgs, a.slot = txArg[t].slot, NEW at \in {"idle", "claim", "done", "failed"},
             txAt[t] \notin {"copy", "pass on"}, UNCHANGED <<free, filled, storage, posted>>,
             txArg' = [txArg EXCEPT ![t] = a], txAt' = [txAt EXCEPT ![t] = at]
      PROVE  TxInv'
  <2>1. TxTypeOK'
    BY <1>2, <1>6 DEF TxTypeOK
  <2>2. /\ \A u \in Tasks : txArg'[u].slot = txArg[u].slot
        /\ \A u \in Tasks : txAt'[u] \in {"copy", "pass on"} <=> txAt[u] \in {"copy", "pass on"}
    BY <1>2, <1>6 DEF TxTypeOK
  <2> QED
    BY <1>2, <1>6, <2>1, <2>2, SlotsLeftAlone DEF TxInv, PostsNeverFail
<1>7. txAt[t] \notin {"copy", "pass on"} => txArg[t].slot = NoSlot
  BY <1>2 DEF SlotInv
<1>8. CASE TxCall(t)
  BY <1>6, <1>7, <1>8 DEF TxCall
<1>9. CASE TxGiveUp(t)
  BY <1>3, <1>6, <1>7, <1>9 DEF TxGiveUp
<1>10. CASE TxReturn(t)
  BY <1>3, <1>6, <1>7, <1>10 DEF TxReturn
<1>11. CASE TxCopy(t)
  <2>1. /\ txArg[t].slot \in TxSlots /\ UNCHANGED <<free, filled, posted>>
        /\ txAt' = [txAt EXCEPT ![t] = "pass on"]
    BY <1>1, <1>2, <1>5, <1>11 DEF TxCopy, SlotInv, TxArgs
  <2>2. storage[txArg[t].slot] \in Items \cup {Blank} /\ txArg[t].item \in Items \cup {Blank}
    BY <1>2, <1>5, <2>1 DEF TxTypeOK, TxArgs
  <2>3. storage' \in [TxSlots -> Items \cup {Blank}] /\ txArg' \in [Tasks -> TxArgs]
    <3>1. CASE t \in Senders
      BY <1>2, <1>11, <2>1, <2>2, <3>1 DEF TxCopy, TxTypeOK
    <3>2. CASE t \notin Senders
      <4>1. [txArg[t] EXCEPT !.item = storage[txArg[t].slot]] \in TxArgs
        BY <1>5, <2>2 DEF TxArgs
      <4> QED
        BY <1>2, <1>11, <3>2, <4>1 DEF TxCopy, TxTypeOK
    <3> QED
      BY <3>1, <3>2
  <2>4. TxTypeOK'
    BY <1>2, <2>1, <2>3 DEF TxTypeOK
  <2>5. /\ \A u \in Tasks : txArg'[u].slot = txArg[u].slot
        /\ \A u \in Tasks : txAt'[u] \in {"copy", "pass on"} <=> txAt[u] \in {"copy", "pass on"}
    <3>1. CASE t \in Senders
      BY <1>2, <1>11, <2>1, <3>1 DEF TxCopy, TxTypeOK
    <3>2. CASE t \notin Senders
      <4>1. txArg' = [txArg EXCEPT ![t] = [txArg[t] EXCEPT !.item = storage[txArg[t].slot]]]
        BY <1>11, <3>2 DEF TxCopy
      <4>2. [txArg[t] EXCEPT !.item = storage[txArg[t].slot]].slot = txArg[t].slot
        BY <1>5 DEF TxArgs
      <4> QED
        BY <1>2, <1>11, <2>1, <4>1, <4>2 DEF TxCopy, TxTypeOK
    <3> QED
      BY <3>1, <3>2
  <2> QED
    BY <1>2, <2>1, <2>4, <2>5, SlotsLeftAlone DEF TxInv, PostsNeverFail
<1>12. CASE TxClaim(t)
  <2>1. /\ Head(free) \in TxSlots /\ free' \in Seq(TxSlots) /\ In(free, Head(free)) /\ Distinct(free')
        /\ \A s : In(free', s) <=> In(free, s) /\ s # Head(free)
    BY <1>2, <1>12, TailPlaces DEF SlotInv, TxClaim
  <2>2. filled' = filled /\ Distinct(filled') /\ ~ In(filled, Head(free))
    BY <1>2, <1>12, <2>1 DEF SlotInv, TxClaim
  <2>3. TxTypeOK' /\ txArg'[t].slot = Head(free) /\ txAt[t] = "claim" /\ txAt'[t] = "copy"
    BY <1>2, <1>5, <1>12, <2>1 DEF TxClaim, TxTypeOK, TxArgs
  <2>4. \A u \in Tasks \ {t} : txArg'[u].slot = txArg[u].slot /\ txAt'[u] = txAt[u]
    BY <1>2, <1>12 DEF TxClaim, TxTypeOK
  <2>5. SlotInv'
    BY <1>2, <2>1, <2>2, <2>3, <2>4, TakingKeepsSlots
  <2> QED
    BY <1>2, <1>12, <2>3, <2>5 DEF TxInv, PostsNeverFail, TxClaim
<1>13. CASE TxTake(t)
  <2>1. /\ Head(filled) \in TxSlots /\ filled' \in Seq(TxSlots)
        /\ In(filled, Head(filled)) /\ Distinct(filled')
        /\ \A s : In(filled', s) <=> In(filled, s) /\ s # Head(filled)
    BY <1>2, <1>13, TailPlaces DEF SlotInv, TxTake
  <2>2. free' = free /\ Distinct(free') /\ ~ In(free, Head(filled))
    BY <1>2, <1>13, <2>1 DEF SlotInv, TxTake
  <2>3. TxTypeOK' /\ txArg'[t].slot = Head(filled) /\ txAt[t] = "claim" /\ txAt'[t] = "copy"
    BY <1>2, <1>3, <1>5, <1>13, <2>1 DEF TxTake, TxTypeOK, TxArgs
  <2>4. \A u \in Tasks \ {t} : txArg'[u].slot = txArg[u].slot /\ txAt'[u] = txAt[u]
    BY <1>2, <1>13 DEF TxTake, TxTypeOK
  <2>5. SlotInv'
    BY <1>2, <2>1, <2>2, <2>3, <2>4, TakingKeepsSlots
  <2> QED
    BY <1>2, <1>13, <2>3, <2>5 DEF TxInv, PostsNeverFail, TxTake
<1> DEFINE slot == txArg[t].slot
<1>14. ASSUME txAt[t] = "pass on"
       PROVE  /\ slot \in TxSlots /\ ~ In(free, slot) /\ ~ In(filled, slot)
              /\ Distinct(free) /\ Distinct(filled) /\ Room(free) /\ Room(filled)
  <2>1. slot \in TxSlots /\ slot # NoSlot
    BY <1>2, <1>5, <1>14 DEF SlotInv, TxArgs
  <2>2. ~ In(free, slot) /\ ~ In(filled, slot) /\ Distinct(free) /\ Distinct(filled)
    BY <1>2, <2>1 DEF SlotInv
  <2> QED
    BY <1>2, <2>1, <2>2, SlotOutside
<1>15. CASE TxPost(t)
  <2>1. txAt[t] = "pass on"
    BY <1>15 DEF TxPost
  <2>2. /\ filled' = Append(filled, slot) /\ free' = free /\ posted' = TRUE
        /\ txArg' = [txArg EXCEPT ![t] = NoTxArg] /\ txAt' = [txAt EXCEPT ![t] = "done"]
        /\ storage' = storage
    BY <1>14, <1>15, <2>1 DEF TxPost, Sent
  <2>3. /\ filled' \in Seq(TxSlots) /\ Distinct(filled')
        /\ \A s : In(filled', s) <=> In(filled, s) \/ s = slot
    <3> HIDE DEF slot
    <3>1. /\ Append(filled, slot) \in Seq(TxSlots) /\ Distinct(Append(filled, slot))
          /\ \A s : In(Append(filled, slot), s) <=> In(filled, s) \/ s = slot
      BY <1>2, <1>14, <2>1, AppendPlaces
    <3> QED
      BY <2>2, <3>1
  <2>4. TxTypeOK' /\ txArg'[t].slot = NoSlot /\ txAt'[t] = "done"
    BY <1>2, <1>3, <2>2, <2>3 DEF TxTypeOK
  <2>5. \A u \in Tasks \ {t} : txArg'[u].slot = txArg[u].slot /\ txAt'[u] = txAt[u]
    BY <1>2, <2>2 DEF TxTypeOK
  <2>6. SlotInv'
    BY <1>2, <1>14, <2>1, <2>2, <2>3, <2>4, <2>5, PassingKeepsSlots
  <2> QED
    BY <2>2, <2>4, <2>6 DEF TxInv, PostsNeverFail
<1>16. CASE TxGiveBack(t)
  <2>1. txAt[t] = "pass on"
    BY <1>16 DEF TxGiveBack
  <2>2. /\ free' = Append(free, slot) /\ filled' = filled /\ posted' = TRUE
        /\ txArg' = [txArg EXCEPT ![t].slot = NoSlot] /\ txAt' = [txAt EXCEPT ![t] = "done"]
        /\ storage' = storage
    BY <1>14, <1>16, <2>1 DEF TxGiveBack, Sent
  <2>3. /\ free' \in Seq(TxSlots) /\ Distinct(free')
        /\ \A s : In(free', s) <=> In(free, s) \/ s = slot
    <3> HIDE DEF slot
    <3>1. /\ Append(free, slot) \in Seq(TxSlots) /\ Distinct(Append(free, slot))
          /\ \A s : In(Append(free, slot), s) <=> In(free, s) \/ s = slot
      BY <1>2, <1>14, <2>1, AppendPlaces
    <3> QED
      BY <2>2, <3>1
  <2>4. TxTypeOK' /\ txArg'[t].slot = NoSlot /\ txAt'[t] = "done"
    BY <1>2, <1>5, <2>2, <2>3 DEF TxTypeOK, TxArgs
  <2>5. \A u \in Tasks \ {t} : txArg'[u].slot = txArg[u].slot /\ txAt'[u] = txAt[u]
    BY <1>2, <2>2 DEF TxTypeOK
  <2>6. SlotInv'
    BY <1>2, <1>14, <2>1, <2>2, <2>3, <2>4, <2>5, PassingKeepsSlots
  <2> QED
    BY <2>2, <2>4, <2>6 DEF TxInv, PostsNeverFail
<1> QED
  BY <1>4, <1>8, <1>9, <1>10, <1>11, <1>12, <1>13, <1>15, <1>16 DEF TxRuns

(* So does a step of anything else.                                       *)
LEMMA TxStutters == TxInv /\ UNCHANGED txVars => TxInv'
<1> SUFFICES ASSUME TxInv, UNCHANGED txVars PROVE TxInv'
  OBVIOUS
<1>1. TxTypeOK' /\ PostsNeverFail'
  BY DEF TxInv, TxTypeOK, PostsNeverFail, txVars
<1>2. SlotInv'
  BY SlotsLeftAlone DEF TxInv, txVars
<1> QED
  BY <1>1, <1>2 DEF TxInv

(* The invariant holds of every behaviour.                                *)
LEMMA TxInvAlways == TxSpec => []TxInv
<1>1. TxInv /\ [TxNext]_txVars => TxInv'
  BY TxSteps, TxStutters
<1> QED
  BY TxInitInv, <1>1, PTL DEF TxSpec

-----------------------------------------------------------------------------
(* "Never expected to fail": a post of osal_queue_send always finds room,  *)
(* and so does the slot that osal_queue_receive gives back.                *)
THEOREM PostsNeverFailAlways == TxSpec => []PostsNeverFail
<1>1. TxInv => PostsNeverFail
  BY DEF TxInv
<1> QED
  BY TxInvAlways, <1>1, PTL

(* A slot has one place in a queue that it is in.                          *)
LEMMA PlacesCount ==
  ASSUME NEW q, Distinct(q), NEW s
  PROVE  Cardinality(PlacesIn(q, s)) = IF In(q, s) THEN 1 ELSE 0
<1>1. CASE In(q, s)
  <2>1. PICK i \in DOMAIN q : q[i] = s
    BY <1>1 DEF In
  <2>2. PlacesIn(q, s) = {i}
    BY <2>1 DEF PlacesIn, Distinct
  <2> QED
    BY <1>1, <2>2, FS_Singleton
<1>2. CASE ~ In(q, s)
  <2>1. PlacesIn(q, s) = {}
    BY <1>2 DEF In, PlacesIn
  <2> QED
    BY <1>2, <2>1, FS_EmptySet
<1> QED
  BY <1>1, <1>2

(* A slot has one holder when a call holds it.                            *)
LEMMA HoldersCount ==
  ASSUME SlotInv, NEW s \in TxSlots
  PROVE  Cardinality(Holding(s)) = IF \E t \in Tasks : txArg[t].slot = s THEN 1 ELSE 0
<1>0. s # NoSlot
  BY DEF TxSlots, NoSlot
<1>1. ASSUME NEW t \in Tasks, txArg[t].slot = s PROVE Cardinality(Holding(s)) = 1
  <2>1. Holding(s) = {t}
    BY <1>0, <1>1 DEF Holding, SlotInv
  <2> QED
    BY <2>1, FS_Singleton
<1>2. CASE ~ \E t \in Tasks : txArg[t].slot = s
  <2>1. Holding(s) = {}
    BY <1>2 DEF Holding
  <2> QED
    BY <1>2, <2>1, FS_EmptySet
<1> QED
  BY <1>1, <1>2

(* No slot is lost between the two queues, and none is handed out twice.   *)
THEOREM SlotsConservedAlways == TxSpec => []SlotsConserved
<1>1. ASSUME SlotInv PROVE SlotsConserved
  <2>1. SUFFICES ASSUME NEW s \in TxSlots
        PROVE  Cardinality(PlacesIn(free, s)) + Cardinality(PlacesIn(filled, s))
                 + Cardinality(Holding(s)) = 1
    BY DEF SlotsConserved
  <2>2. Distinct(free) /\ Distinct(filled) /\ ~ (In(free, s) /\ In(filled, s))
    BY <1>1 DEF SlotInv
  <2>3. /\ Cardinality(PlacesIn(free, s)) = IF In(free, s) THEN 1 ELSE 0
        /\ Cardinality(PlacesIn(filled, s)) = IF In(filled, s) THEN 1 ELSE 0
        /\ Cardinality(Holding(s)) = IF \E t \in Tasks : txArg[t].slot = s THEN 1 ELSE 0
    BY <1>1, <2>2, PlacesCount, HoldersCount
  <2>4. ASSUME NEW t \in Tasks, txArg[t].slot = s PROVE ~ In(free, s) /\ ~ In(filled, s)
    <3>1. s # NoSlot
      BY DEF TxSlots, NoSlot
    <3> QED
      BY <1>1, <2>4, <3>1 DEF SlotInv
  <2>5. In(free, s) \/ In(filled, s) \/ \E t \in Tasks : txArg[t].slot = s
    BY <1>1 DEF SlotInv
  <2> QED
    BY <2>2, <2>3, <2>4, <2>5
<1>2. TxInv => SlotsConserved
  BY <1>1 DEF TxInv
<1> QED
  BY TxInvAlways, <1>2, PTL

(* Type correctness of the ThreadX queue                                   *)
THEOREM TxTypeCorrect == TxSpec => []TxTypeOK
<1>1. TxInv => TxTypeOK
  BY DEF TxInv
<1> QED
  BY TxInvAlways, <1>1, PTL
-----------------------------------------------------------------------------
(* The ThreadX queue implements BoundedQueue.                              *)

\* What a call has copied, or will copy.
TaskKept(t) ==
  /\ t \in Senders /\ txAt[t] \in {"claim", "copy", "pass on"} => txArg[t].item \in Sends[t]
  /\ t \in Senders /\ txAt[t] = "pass on" => storage[txArg[t].slot] = txArg[t].item
  /\ t \in Receivers /\ txAt[t] = "copy" => storage[txArg[t].slot] \in Items
  /\ t \in Receivers /\ txAt[t] \in {"pass on", "done"} => txArg[t].item \in Items

(* A slot that is filled, or held by a receive, has an item in it, and one *)
(* that a send has copied to has its own.                                  *)
TxKept ==
  /\ \A s \in TxSlots : In(filled, s) => storage[s] \in Items
  /\ \A t \in Tasks : TaskKept(t)

\* A slot in the hands of a call is in no queue, and leaves both of them room.
LEMMA HeldSlot ==
  ASSUME TxInv, NEW t \in Tasks, txAt[t] \in {"copy", "pass on"}
  PROVE  /\ txArg[t].slot \in TxSlots /\ txArg[t].slot # NoSlot
         /\ ~ In(free, txArg[t].slot) /\ ~ In(filled, txArg[t].slot)
         /\ Room(free) /\ Room(filled)
         /\ \A v \in Tasks : v # t => txArg[v].slot # txArg[t].slot
<1>1. /\ TxTypeOK /\ SlotInv /\ free \in Seq(TxSlots) /\ filled \in Seq(TxSlots)
      /\ txArg[t] \in TxArgs
  BY DEF TxInv, TxTypeOK
<1>2. txArg[t].slot \in TxSlots /\ txArg[t].slot # NoSlot
  BY <1>1 DEF SlotInv, TxArgs
<1>3. /\ ~ In(free, txArg[t].slot) /\ ~ In(filled, txArg[t].slot)
      /\ Distinct(free) /\ Distinct(filled)
  BY <1>1, <1>2 DEF SlotInv
<1>4. \A v \in Tasks : v # t => txArg[v].slot # txArg[t].slot
  BY <1>1, <1>2 DEF SlotInv
<1> QED
  BY <1>1, <1>2, <1>3, <1>4, SlotOutside

\* A step of one call leaves the others alone, with what is in their slots.
LEMMA OthersAlone ==
  ASSUME TxInv, NEW t \in Tasks, TxCall(t) \/ TxRuns(t)
  PROVE  /\ \A v \in Tasks : v # t => txAt'[v] = txAt[v] /\ txArg'[v] = txArg[v]
         /\ \A v \in Tasks : v # t /\ txAt[v] \in {"copy", "pass on"} =>
              storage'[txArg[v].slot] = storage[txArg[v].slot]
         /\ \A s \in TxSlots : In(filled, s) => storage'[s] = storage[s]
         /\ storage' \in [TxSlots -> Items \cup {Blank}]
<1>1. TxTypeOK
  BY DEF TxInv
<1>2. \A v \in Tasks : v # t => txAt'[v] = txAt[v] /\ txArg'[v] = txArg[v]
  <2>1. CASE TxCopy(t)
    BY <1>1, <2>1 DEF TxTypeOK, TxCopy
  <2>2. CASE ~ TxCopy(t)
    BY <1>1, <2>2 DEF TxTypeOK, TxCall, TxRuns, TxClaim, TxTake, TxGiveUp, TxPost, TxGiveBack,
                      TxReturn
  <2> QED
    BY <2>1, <2>2
<1>3. CASE UNCHANGED storage
  BY <1>1, <1>2, <1>3 DEF TxTypeOK
<1>4. CASE TxCopy(t) /\ t \in Senders
  <2>1. /\ storage' = [storage EXCEPT ![txArg[t].slot] = txArg[t].item]
        /\ txAt[t] = "copy" /\ txArg[t].item \in Items \cup {Blank}
    BY <1>1, <1>4 DEF TxCopy, TxTypeOK, TxArgs
  <2>2. /\ txArg[t].slot \in TxSlots /\ ~ In(filled, txArg[t].slot)
        /\ \A v \in Tasks : v # t => txArg[v].slot # txArg[t].slot
    BY <2>1, HeldSlot
  <2>3. \A s \in TxSlots : s # txArg[t].slot => storage'[s] = storage[s]
    BY <1>1, <2>1 DEF TxTypeOK
  <2>4. \A v \in Tasks : txAt[v] \in {"copy", "pass on"} => txArg[v].slot \in TxSlots
    BY HeldSlot
  <2>5. storage' \in [TxSlots -> Items \cup {Blank}]
    BY <1>1, <2>1 DEF TxTypeOK
  <2> QED
    BY <1>2, <2>2, <2>3, <2>4, <2>5
<1> QED
  BY <1>3, <1>4
  DEF TxCall, TxRuns, TxClaim, TxTake, TxGiveUp, TxCopy, TxPost, TxGiveBack, TxReturn

\* A copy, in either direction
LEMMA CopyEffect ==
  ASSUME TxInv, NEW t \in Tasks, TxCopy(t)
  PROVE  /\ txAt[t] = "copy" /\ txAt'[t] = "pass on" /\ UNCHANGED <<free, filled>>
         /\ t \in Senders => txArg'[t] = txArg[t] /\ storage'[txArg[t].slot] = txArg[t].item
         /\ t \notin Senders => /\ txArg'[t].slot = txArg[t].slot
                                /\ txArg'[t].item = storage[txArg[t].slot]
<1>1. TxTypeOK /\ txArg[t] \in TxArgs
  BY DEF TxInv, TxTypeOK
<1>2. txAt[t] = "copy" /\ txAt'[t] = "pass on" /\ UNCHANGED <<free, filled>>
  BY <1>1 DEF TxCopy, TxTypeOK
<1>3. CASE t \in Senders
  <2>1. txArg[t].slot \in TxSlots
    BY <1>2, HeldSlot
  <2> QED
    BY <1>1, <1>2, <1>3, <2>1 DEF TxCopy, TxTypeOK
<1>4. CASE t \notin Senders
  <2>1. txArg' = [txArg EXCEPT ![t] = [txArg[t] EXCEPT !.item = storage[txArg[t].slot]]]
    BY <1>4 DEF TxCopy
  <2>2. txArg'[t] = [txArg[t] EXCEPT !.item = storage[txArg[t].slot]]
    BY <1>1, <2>1 DEF TxTypeOK
  <2> QED
    BY <1>1, <1>2, <1>4, <2>2 DEF TxArgs
<1> QED
  BY <1>3, <1>4

\* A post always finds room.
LEMMA PostEffect ==
  ASSUME TxInv, NEW t \in Tasks, TxPost(t)
  PROVE  /\ t \in Senders /\ txAt[t] = "pass on" /\ txAt'[t] = "done"
         /\ txArg[t].slot \in TxSlots /\ Room(filled)
         /\ filled' = Append(filled, txArg[t].slot) /\ UNCHANGED <<free, storage>>
<1>1. TxTypeOK /\ t \in Senders /\ txAt[t] = "pass on"
  BY DEF TxInv, TxPost
<1>2. txArg[t].slot \in TxSlots /\ Room(filled)
  BY <1>1, HeldSlot
<1> QED
  BY <1>1, <1>2 DEF TxPost, Sent, TxTypeOK

\* What the slots and the calls hold is kept by every step.
LEMMA TxKeptSteps ==
  ASSUME TxInv, TxKept, TxNext
  PROVE  TxKept'
<1>1. PICK t \in Tasks : TxCall(t) \/ TxRuns(t)
  BY DEF TxNext
<1>2. /\ TxTypeOK /\ filled \in Seq(TxSlots) /\ Distinct(filled) /\ txArg[t] \in TxArgs
  BY DEF TxInv, TxTypeOK, SlotInv
<1>3. /\ \A v \in Tasks : v # t => txAt'[v] = txAt[v] /\ txArg'[v] = txArg[v]
      /\ \A v \in Tasks : v # t /\ txAt[v] \in {"copy", "pass on"} =>
           storage'[txArg[v].slot] = storage[txArg[v].slot]
      /\ \A s \in TxSlots : In(filled, s) => storage'[s] = storage[s]
  BY <1>1, OthersAlone
<1>4. \A v \in Tasks : v # t => TaskKept(v)'
  BY <1>3, ZenonT(30) DEF TxKept, TaskKept
<1>5. \A s \in TxSlots : In(filled, s) => storage'[s] \in Items
  BY <1>3 DEF TxKept
<1>6. ~ (t \in Senders /\ t \in Receivers)
  BY QueueAssumption
<1>7. TaskKept(t)
  BY DEF TxKept
<1>8. CASE TxCall(t)
  <2>1. /\ filled' = filled /\ txAt'[t] = "claim"
        /\ t \in Senders => txArg'[t].item \in Sends[t]
    BY <1>2, <1>8 DEF TxCall, TxTypeOK
  <2>2. TaskKept(t)'
    BY <2>1 DEF TaskKept
  <2> QED
    BY <1>4, <1>5, <2>1, <2>2 DEF TxKept, In
<1>9. CASE TxClaim(t)
  <2>1. txArg' = [txArg EXCEPT ![t] = [txArg[t] EXCEPT !.slot = Head(free)]]
    BY <1>9 DEF TxClaim
  <2>2. txArg'[t].item = txArg[t].item
    BY <1>2, <2>1 DEF TxTypeOK, TxArgs
  <2>3. t \in Senders /\ filled' = filled /\ txAt[t] = "claim" /\ txAt'[t] = "copy"
    BY <1>2, <1>9 DEF TxClaim, TxTypeOK
  <2>4. TaskKept(t)'
    BY <1>6, <1>7, <2>2, <2>3 DEF TaskKept
  <2> QED
    BY <1>4, <1>5, <2>3, <2>4 DEF TxKept, In
<1>10. CASE TxTake(t)
  <2>1. /\ t \in Receivers /\ filled # <<>> /\ filled' = Tail(filled) /\ txAt'[t] = "copy"
        /\ txArg'[t].slot = Head(filled)
    BY <1>2, <1>10 DEF TxTake, TxTypeOK, NoTxArg
  <2>2. /\ Head(filled) \in TxSlots /\ In(filled, Head(filled))
        /\ \A s : In(filled', s) => In(filled, s)
    BY <1>2, <2>1, TailPlaces
  <2>3. TaskKept(t)'
    BY <1>5, <1>6, <2>1, <2>2 DEF TaskKept
  <2> QED
    BY <1>4, <1>5, <2>2, <2>3 DEF TxKept
<1>11. CASE TxGiveUp(t) \/ TxReturn(t)
  <2>1. filled' = filled /\ txAt'[t] \in {"failed", "idle"}
    BY <1>2, <1>11 DEF TxGiveUp, TxReturn, TxTypeOK
  <2>2. TaskKept(t)'
    BY <2>1 DEF TaskKept
  <2> QED
    BY <1>4, <1>5, <2>1, <2>2 DEF TxKept, In
<1>12. CASE TxCopy(t)
  <2>1. TaskKept(t)'
    BY <1>6, <1>7, <1>12, CopyEffect DEF TaskKept
  <2>2. filled' = filled
    BY <1>12, CopyEffect
  <2> QED
    BY <1>4, <1>5, <2>1, <2>2 DEF TxKept, In
<1>13. CASE TxPost(t)
  <2>1. /\ t \in Senders /\ txAt[t] = "pass on" /\ txAt'[t] = "done"
        /\ txArg[t].slot \in TxSlots /\ filled' = Append(filled, txArg[t].slot)
        /\ storage' = storage
    BY <1>13, PostEffect
  <2>2. ~ In(filled, txArg[t].slot)
    BY <2>1, HeldSlot
  <2>3. \A s : In(filled', s) <=> In(filled, s) \/ s = txArg[t].slot
    <3>1. PICK e \in TxSlots : e = txArg[t].slot
      BY <2>1
    <3>2. \A s : In(Append(filled, e), s) <=> In(filled, s) \/ s = e
      BY <1>2, <2>2, <3>1, AppendPlaces
    <3> QED
      BY <2>1, <3>1, <3>2
  <2>4. storage[txArg[t].slot] \in Items
    BY <1>7, <2>1, QueueAssumption DEF TaskKept
  <2>5. TaskKept(t)'
    BY <1>6, <2>1 DEF TaskKept
  <2> QED
    BY <1>4, <1>5, <2>1, <2>3, <2>4, <2>5 DEF TxKept
<1>14. CASE TxGiveBack(t)
  <2>1. txArg' = [txArg EXCEPT ![t] = [txArg[t] EXCEPT !.slot = NoSlot]]
    BY <1>14 DEF TxGiveBack
  <2>2. txArg'[t].item = txArg[t].item
    BY <1>2, <2>1 DEF TxTypeOK, TxArgs
  <2>3. t \in Receivers /\ filled' = filled /\ txAt[t] = "pass on" /\ txAt'[t] = "done"
    BY <1>2, <1>14 DEF TxGiveBack, TxTypeOK
  <2>4. TaskKept(t)'
    BY <1>6, <1>7, <2>2, <2>3 DEF TaskKept
  <2> QED
    BY <1>4, <1>5, <2>3, <2>4 DEF TxKept, In
<1> QED
  BY <1>1, <1>8, <1>9, <1>10, <1>11, <1>12, <1>13, <1>14 DEF TxRuns

\* So it always holds.
LEMMA TxKeptAlways == TxSpec => [](TxInv /\ TxKept)
<1>1. TxInit => TxKept
  <2> SUFFICES ASSUME TxInit PROVE TxKept
    OBVIOUS
  <2>1. \A s : ~ In(filled, s)
    BY DEF TxInit, In
  <2>2. \A t \in Tasks : txAt[t] = "idle"
    BY DEF TxInit
  <2> QED
    BY <2>1, <2>2 DEF TxKept, TaskKept
<1>2. TxInv /\ TxKept /\ [TxNext]_txVars => TxKept'
  <2>1. ASSUME TxInv, TxKept, UNCHANGED txVars PROVE TxKept'
    BY <2>1 DEF TxKept, TaskKept, In, txVars
  <2> QED
    BY <2>1, TxKeptSteps
<1> QED
  BY <1>1, <1>2, TxInvAlways, PTL DEF TxSpec

AllCalls == [t \in Tasks |-> TxCallOf(t)]
QueueStep == [TxAbstract!Next]_<<TxContent, AllCalls>>

\* The items of the slots that are filled, in the order of their posts
LEMMA ContentShape ==
  ASSUME TxInv, TxKept
  PROVE  /\ TxContent \in Seq(Items) /\ Len(TxContent) = Len(filled)
         /\ \A i \in 1 .. Len(filled) : TxContent[i] = storage[filled[i]]
<1>1. filled \in Seq(TxSlots)
  BY DEF TxInv, TxTypeOK
<1>2. /\ Len(filled) \in Nat /\ DOMAIN filled = 1 .. Len(filled)
      /\ \A i \in 1 .. Len(filled) : filled[i] \in TxSlots
  BY <1>1
<1>3. \A i \in 1 .. Len(filled) : storage[filled[i]] \in Items
  BY <1>2 DEF TxKept, In
<1> QED
  BY <1>2, <1>3 DEF TxContent

\* A step that fills and empties no slot leaves the content as it is.
LEMMA ContentStays ==
  ASSUME TxInv, filled' = filled, \A s \in TxSlots : In(filled, s) => storage'[s] = storage[s]
  PROVE  TxContent' = TxContent
<1>1. filled \in Seq(TxSlots)
  BY DEF TxInv, TxTypeOK
<1>2. \A i \in DOMAIN filled : filled[i] \in TxSlots
  BY <1>1
<1>3. \A i \in DOMAIN filled : storage'[filled[i]] = storage[filled[i]]
  BY <1>2 DEF In
<1> QED
  BY <1>3 DEF TxContent

\* The calls of the others are the same after a step, and one changes.
LEMMA CallChanges ==
  ASSUME TxInv, NEW t \in Tasks, TxCall(t) \/ TxRuns(t), NEW c, TxCallOf(t)' = c
  PROVE  /\ AllCalls' = [AllCalls EXCEPT ![t] = c]
         /\ AllCalls[t] = TxCallOf(t) /\ t \in TxAbstract!Users
<1>1. \A v \in Tasks : v # t =>
        /\ txAt'[v] = txAt[v] /\ txArg'[v] = txArg[v]
        /\ txAt[v] = "copy" => storage'[txArg[v].slot] = storage[txArg[v].slot]
  BY OthersAlone
<1>2. ASSUME NEW v \in Tasks, v # t
      PROVE  TxCallOf(v)' = TxCallOf(v)
  <2>1. CASE txAt[v] = "copy"
    <3>1. txAt'[v] = "copy" /\ txArg'[v] = txArg[v] /\ storage'[txArg[v].slot] = storage[txArg[v].slot]
      BY <1>1, <1>2, <2>1
    <3>2. (v \in Senders /\ v \notin Receivers) \/ (v \in Receivers /\ v \notin Senders)
      BY QueueAssumption DEF Tasks
    <3>3. CASE v \in Senders
      BY <2>1, <3>1, <3>2, <3>3 DEF TxCallOf
    <3>4. CASE v \in Receivers
      <4>1. TxCallOf(v) = [phase |-> "received", item |-> storage[txArg[v].slot]]
        BY <2>1, <3>2, <3>4 DEF TxCallOf
      <4>2. TxCallOf(v)' = [phase |-> "received", item |-> storage'[txArg'[v].slot]]
        BY <3>1, <3>2, <3>4 DEF TxCallOf
      <4> QED
        BY <3>1, <4>1, <4>2
    <3> QED
      BY <3>2, <3>3, <3>4
  <2>2. CASE txAt[v] # "copy"
    <3>1. txAt'[v] = txAt[v] /\ txArg'[v] = txArg[v]
      BY <1>1, <1>2
    <3>2. (v \in Senders /\ v \notin Receivers) \/ (v \in Receivers /\ v \notin Senders)
      BY QueueAssumption DEF Tasks
    <3>3. txAt[v] \in {"idle", "claim", "pass on", "done", "failed"}
      BY <2>2 DEF TxInv, TxTypeOK
    <3>4. CASE txAt[v] \in {"idle", "failed"}
      BY <3>1, <3>4 DEF TxCallOf
    <3>5. CASE v \in Senders /\ txAt[v] \in {"claim", "pass on", "done"}
      BY <3>1, <3>2, <3>5 DEF TxCallOf
    <3>6. CASE v \in Receivers /\ txAt[v] = "claim"
      BY <3>1, <3>2, <3>6 DEF TxCallOf
    <3>7. CASE v \in Receivers /\ txAt[v] \in {"pass on", "done"}
      <4>1. TxCallOf(v) = [phase |-> "received", item |-> txArg[v].item]
        BY <3>2, <3>7 DEF TxCallOf
      <4>2. TxCallOf(v)' = [phase |-> "received", item |-> txArg'[v].item]
        BY <3>1, <3>2, <3>7 DEF TxCallOf
      <4> QED
        BY <3>1, <4>1, <4>2
    <3> QED
      BY <3>2, <3>3, <3>4, <3>5, <3>6, <3>7
  <2> QED
    BY <2>1, <2>2
<1> QED
  BY <1>2 DEF AllCalls, TxAbstract!Users, Tasks

\* BoundedQueue counts as we do.
LEMMA SameCount == \A S : TxAbstract!Cardinality(S) = Cardinality(S)
BY DEF TxAbstract!Cardinality, Cardinality

\* When no slot is free, those that are not filled are in the hands of calls.
LEMMA HeldWhenNoneFree ==
  ASSUME TxInv, free = <<>>,
         NEW Others, \A u \in Tasks : txArg[u].slot # NoSlot => u \in Others, IsFiniteSet(Others)
  PROVE  Len(filled) + Cardinality(Others) >= Capacity
<1> DEFINE Filled == {s \in TxSlots : In(filled, s)}
           Holders == {u \in Tasks : txArg[u].slot \in TxSlots}
           held == [u \in Holders |-> txArg[u].slot]
           Held == {s \in TxSlots : \E u \in Tasks : txArg[u].slot = s}
<1>0. Capacity \in Nat \ {0} /\ NoSlot \notin TxSlots
  BY QueueAssumption DEF TxSlots, NoSlot
<1>1. /\ Capacity \in Nat \ {0} /\ NoSlot \notin TxSlots
      /\ filled \in Seq(TxSlots) /\ TxTypeOK /\ SlotInv
  BY <1>0 DEF TxInv, TxTypeOK
<1>2. IsFiniteSet(TxSlots) /\ Cardinality(TxSlots) = Capacity
  BY <1>1, FS_Interval DEF TxSlots
<1>3. /\ Len(filled) \in Nat /\ DOMAIN filled = 1 .. Len(filled)
      /\ filled \in [1 .. Len(filled) -> TxSlots]
  BY <1>1
<1>4. Cardinality(Filled) <= Len(filled)
  <2>1. filled \in [1 .. Len(filled) -> Filled]
    BY <1>3 DEF In
  <2>2. filled \in Surjection(1 .. Len(filled), Filled)
    BY <1>3, <2>1 DEF Surjection, In
  <2>3. IsFiniteSet(1 .. Len(filled)) /\ Cardinality(1 .. Len(filled)) = Len(filled)
    <3>1. PICK n \in Nat : n = Len(filled)
      BY <1>3
    <3>2. IsFiniteSet(1 .. n) /\ Cardinality(1 .. n) = n
      BY FS_Interval
    <3> QED
      BY <3>1, <3>2
  <2> QED
    BY <2>2, <2>3, FS_Surjection
<1>5. Cardinality(Held) <= Cardinality(Others)
  <2>1. Holders \in SUBSET Others
    BY <1>1
  <2>2. IsFiniteSet(Holders) /\ Cardinality(Holders) <= Cardinality(Others)
    BY <2>1, FS_Subset
  <2>3. held \in Surjection(Holders, Held)
    BY DEF Surjection
  <2>4. Cardinality(Held) <= Cardinality(Holders)
    BY <2>2, <2>3, FS_Surjection
  <2>5. IsFiniteSet(Held) /\ Cardinality(Held) \in Nat
    BY <1>2, FS_Subset, FS_CardinalityType
  <2>6. Cardinality(Holders) \in Nat /\ Cardinality(Others) \in Nat
    BY <2>2, FS_CardinalityType
  <2> QED
    BY <2>2, <2>4, <2>5, <2>6
<1>6. TxSlots = Filled \cup Held
  <2>1. \A s : ~ In(free, s)
    BY DEF In
  <2> QED
    BY <1>1, <2>1 DEF SlotInv
<1>7. /\ IsFiniteSet(Filled) /\ IsFiniteSet(Held) /\ IsFiniteSet(Filled \cap Held)
  BY <1>2, FS_Subset
<1>8. Cardinality(TxSlots) = Cardinality(Filled) + Cardinality(Held) - Cardinality(Filled \cap Held)
  BY <1>6, <1>7, FS_Union
<1>9. /\ Cardinality(Filled) \in Nat /\ Cardinality(Held) \in Nat
      /\ Cardinality(Filled \cap Held) \in Nat /\ Cardinality(Others) \in Nat
  BY <1>7, FS_CardinalityType
<1> HIDE DEF Filled, Held
<1> QED
  BY <1>1, <1>2, <1>3, <1>4, <1>5, <1>8, <1>9

\* A send that finds no slot free has met a full queue.
LEMMA FullWhenNoneFree ==
  ASSUME TxInv, NEW t \in Senders, txAt[t] = "claim", free = <<>>,
         Len(TxContent) = Len(filled)
  PROVE  TxAbstract!Full(t)
<1> DEFINE Others == {u \in TxAbstract!Users \ {t} : AllCalls[u].phase \in {"sending", "received"}}
<1>1. TxAbstract!Users = Tasks /\ t \in Tasks /\ IsFiniteSet(Tasks) /\ Senders \cap Receivers = {}
  BY QueueAssumption DEF TxAbstract!Users, Tasks
<1>2. ASSUME NEW u \in Tasks, txArg[u].slot # NoSlot
      PROVE  u \in Others
  <2>1. txAt[u] \in {"copy", "pass on"}
    BY <1>2 DEF TxInv, SlotInv
  <2>2. u # t /\ (u \in Senders \/ u \in Receivers)
    BY <2>1 DEF Tasks
  <2>3. TxCallOf(u).phase \in {"sending", "received"}
    <3>1. CASE u \in Senders
      BY <2>1, <3>1 DEF TxCallOf
    <3>2. CASE u \in Receivers /\ txAt[u] = "copy"
      BY <1>1, <3>2 DEF TxCallOf
    <3>3. CASE u \in Receivers /\ txAt[u] = "pass on"
      BY <1>1, <3>3 DEF TxCallOf
    <3> QED
      BY <2>1, <2>2, <3>1, <3>2, <3>3
  <2> QED
    BY <1>1, <2>2, <2>3 DEF AllCalls
<1>3. IsFiniteSet(Others)
  BY <1>1, FS_Subset
<1>4. TxAbstract!Passing(t) = Others
  BY DEF TxAbstract!Passing, AllCalls
<1> HIDE DEF Others
<1>5. Len(filled) + Cardinality(Others) >= Capacity
  BY <1>2, <1>3, HeldWhenNoneFree
<1> QED
  BY <1>4, <1>5, SameCount DEF TxAbstract!Full

\* osal_queue_send: its item is in the queue from the post of its slot on.
LEMMA PostImplements ==
  ASSUME TxInv, TxKept, TxInv', TxKept', NEW t \in Tasks, TxPost(t)
  PROVE  QueueStep
<1>1. /\ t \in Senders /\ txAt[t] = "pass on" /\ txAt'[t] = "done"
      /\ txArg[t].slot \in TxSlots /\ Room(filled)
      /\ filled' = Append(filled, txArg[t].slot) /\ storage' = storage
  BY PostEffect
<1>2. storage[txArg[t].slot] = txArg[t].item /\ filled \in Seq(TxSlots)
  BY <1>1 DEF TxKept, TaskKept, TxInv, TxTypeOK
<1>3. TxContent' = Append(TxContent, txArg[t].item)
  <2>1. PICK slot \in TxSlots : slot = txArg[t].slot
    BY <1>1
  <2>2. /\ DOMAIN filled = 1 .. Len(filled) /\ Len(filled) \in Nat
        /\ DOMAIN filled' = 1 .. Len(filled) + 1
        /\ \A i \in 1 .. Len(filled) : filled'[i] = filled[i]
        /\ filled'[Len(filled) + 1] = slot
    <3>1. filled' = Append(filled, slot)
      BY <1>1, <2>1
    <3> QED
      BY <1>2, <3>1
  <2>3. /\ TxContent \in Seq(Items) /\ Len(TxContent) = Len(filled)
        /\ \A i \in 1 .. Len(filled) : TxContent[i] = storage[filled[i]]
    BY ContentShape
  <2>4. TxContent' = [i \in 1 .. Len(filled) + 1 |-> storage[filled'[i]]]
    BY <1>1, <2>2 DEF TxContent
  <2>5. /\ TxContent'[Len(filled) + 1] = txArg[t].item
        /\ \A i \in 1 .. Len(filled) : TxContent'[i] = TxContent[i]
    BY <1>2, <2>1, <2>2, <2>3, <2>4
  <2>6. txArg[t].item \in Items
    BY <1>1, QueueAssumption DEF TxKept, TaskKept
  <2>7. PICK item \in Items : item = txArg[t].item
    BY <2>6
  <2>8. TxContent' = Append(TxContent, item)
    BY <2>2, <2>3, <2>4, <2>5, <2>7
  <2> QED
    BY <2>7, <2>8
<1>4. TxCallOf(t)' = [phase |-> "sent"]
  BY <1>1 DEF TxCallOf
<1>5. /\ TxCallOf(t).phase = "sending" /\ TxCallOf(t).item = txArg[t].item
  <2>1. t \notin Receivers
    BY <1>1, QueueAssumption
  <2> QED
    BY <1>1, <2>1 DEF TxCallOf
<1>6. /\ AllCalls' = [AllCalls EXCEPT ![t] = [phase |-> "sent"]]
      /\ AllCalls[t] = TxCallOf(t) /\ t \in TxAbstract!Users
  BY <1>4, CallChanges DEF TxRuns
<1>7. Len(TxContent) < Capacity
  BY <1>1, ContentShape DEF Room
<1>8. TxAbstract!Enqueue(t)
  BY <1>3, <1>5, <1>6, <1>7 DEF TxAbstract!Enqueue, TxAbstract!Becomes, AllCalls
<1> QED
  BY <1>6, <1>8 DEF QueueStep, TxAbstract!Next

\* osal_queue_receive has its item when it has taken the slot.
LEMMA TakeImplements ==
  ASSUME TxInv, TxKept, TxInv', TxKept', NEW t \in Tasks, TxTake(t)
  PROVE  QueueStep
<1>1. /\ t \in Receivers /\ t \notin Senders /\ txAt[t] = "claim" /\ txAt'[t] = "copy"
      /\ filled # <<>> /\ filled' = Tail(filled) /\ storage' = storage
      /\ txArg'[t].slot = Head(filled) /\ filled \in Seq(TxSlots)
  BY QueueAssumption DEF TxTake, NoTxArg, TxInv, TxTypeOK
<1>2. /\ TxContent \in Seq(Items) /\ Len(TxContent) = Len(filled)
      /\ \A i \in 1 .. Len(filled) : TxContent[i] = storage[filled[i]]
  BY ContentShape
<1>3. /\ Len(filled) \in Nat \ {0} /\ Head(filled) = filled[1] /\ Len(Tail(filled)) = Len(filled) - 1
      /\ \A i \in 1 .. Len(filled) - 1 : Tail(filled)[i] = filled[i + 1]
  BY <1>1
<1>4. TxContent # <<>> /\ Head(TxContent) = storage[Head(filled)]
  BY <1>2, <1>3
<1>5. TxContent' = Tail(TxContent)
  <2>1. /\ TxContent' \in Seq(Items) /\ Len(TxContent') = Len(filled) - 1
        /\ \A i \in 1 .. Len(filled) - 1 : TxContent'[i] = storage[filled[i + 1]]
    <3>1. /\ filled' \in Seq(TxSlots) /\ Len(filled') = Len(filled) - 1
          /\ DOMAIN filled' = 1 .. Len(filled) - 1
      BY <1>1, <1>3
    <3>2. TxContent' = [i \in 1 .. Len(filled) - 1 |-> storage[filled'[i]]]
      BY <1>1, <3>1 DEF TxContent
    <3>3. \A i \in 1 .. Len(filled) - 1 :
            i + 1 \in 1 .. Len(filled) /\ storage[filled'[i]] = storage[filled[i + 1]]
      BY <1>1, <1>3
    <3>4. \A i \in 1 .. Len(filled) - 1 : storage[filled'[i]] \in Items
      BY <1>2, <3>3
    <3> QED
      BY <1>3, <3>2, <3>3, <3>4
  <2>2. /\ Tail(TxContent) \in Seq(Items) /\ Len(Tail(TxContent)) = Len(filled) - 1
        /\ \A i \in 1 .. Len(filled) - 1 : Tail(TxContent)[i] = TxContent[i + 1]
    BY <1>2, <1>3
  <2>3. \A i \in 1 .. Len(filled) - 1 : TxContent[i + 1] = storage[filled[i + 1]]
    BY <1>2, <1>3
  <2> QED
    BY <1>3, <2>1, <2>2, <2>3
<1>6. TxCallOf(t)' = [phase |-> "received", item |-> Head(TxContent)]
  BY <1>1, <1>4 DEF TxCallOf
<1>7. TxCallOf(t).phase = "receiving"
  BY <1>1 DEF TxCallOf
<1>8. /\ AllCalls' = [AllCalls EXCEPT ![t] = [phase |-> "received", item |-> Head(TxContent)]]
      /\ AllCalls[t] = TxCallOf(t) /\ t \in TxAbstract!Users
  BY <1>6, CallChanges DEF TxRuns
<1>9. TxAbstract!Dequeue(t)
  BY <1>4, <1>5, <1>7, <1>8 DEF TxAbstract!Dequeue, TxAbstract!Becomes, AllCalls
<1> QED
  BY <1>8, <1>9 DEF QueueStep, TxAbstract!Next

\* A call begins, claims, copies, gives back, gives up or returns.
LEMMA QuietImplements ==
  ASSUME TxInv, TxKept, NEW t \in Tasks,
         TxCall(t) \/ TxClaim(t) \/ TxGiveUp(t) \/ TxCopy(t) \/ TxGiveBack(t) \/ TxReturn(t)
  PROVE  QueueStep
<1>1. TxCall(t) \/ TxRuns(t)
  BY DEF TxRuns
<1>2. TxContent' = TxContent
  <2>1. filled' = filled
    BY DEF TxCall, TxClaim, TxGiveUp, TxCopy, TxGiveBack, TxReturn
  <2> QED
    BY <1>1, <2>1, OthersAlone, ContentStays
<1>3. /\ TxTypeOK /\ txArg[t] \in TxArgs /\ TaskKept(t)
  BY DEF TxInv, TxTypeOK, TxKept
<1>4. (t \in Senders /\ t \notin Receivers) \/ (t \in Receivers /\ t \notin Senders)
  BY QueueAssumption DEF Tasks
<1>5. ASSUME TxCallOf(t)' = TxCallOf(t) PROVE QueueStep
  <2>1. AllCalls' = AllCalls
    BY <1>1, <1>5, CallChanges DEF AllCalls
  <2> QED
    BY <1>2, <2>1 DEF QueueStep
<1>6. CASE TxCall(t)
  <2>1. PICK a \in TxArgs :
          /\ a.patience \in Waits[t] /\ a.item \in IF t \in Senders THEN Sends[t] ELSE {Blank}
          /\ txArg' = [txArg EXCEPT ![t] = a]
    BY <1>6 DEF TxCall
  <2>2. txAt[t] = "idle" /\ txAt'[t] = "claim" /\ txArg'[t] = a
    BY <1>3, <1>6, <2>1 DEF TxCall, TxTypeOK
  <2>3. TxCallOf(t) = [phase |-> "none"]
    BY <2>2 DEF TxCallOf
  <2>4. CASE t \in Senders
    <3> DEFINE c == [phase |-> "sending", item |-> a.item, patience |-> a.patience, met |-> FALSE]
    <3>1. TxCallOf(t)' = c
      BY <1>4, <2>2, <2>4 DEF TxCallOf
    <3>2. /\ AllCalls' = [AllCalls EXCEPT ![t] = c] /\ AllCalls[t] = [phase |-> "none"]
          /\ t \in TxAbstract!Users
      BY <1>1, <2>3, <3>1, CallChanges
    <3>3. TxAbstract!Begin(t)
      BY <1>2, <2>1, <2>4, <3>2
      DEF TxAbstract!Begin, TxAbstract!Becomes, TxAbstract!NoCall, AllCalls
    <3> QED
      BY <3>2, <3>3 DEF QueueStep, TxAbstract!Next
  <2>5. CASE t \in Receivers
    <3> DEFINE c == [phase |-> "receiving", patience |-> a.patience]
    <3>1. TxCallOf(t)' = c
      BY <1>4, <2>2, <2>5 DEF TxCallOf
    <3>2. /\ AllCalls' = [AllCalls EXCEPT ![t] = c] /\ AllCalls[t] = [phase |-> "none"]
          /\ t \in TxAbstract!Users
      BY <1>1, <2>3, <3>1, CallChanges
    <3>3. TxAbstract!Begin(t)
      BY <1>2, <2>1, <2>5, <3>2
      DEF TxAbstract!Begin, TxAbstract!Becomes, TxAbstract!NoCall, AllCalls
    <3> QED
      BY <3>2, <3>3 DEF QueueStep, TxAbstract!Next
  <2> QED
    BY <1>4, <2>4, <2>5
<1>7. CASE TxClaim(t)
  <2>1. txArg' = [txArg EXCEPT ![t] = [txArg[t] EXCEPT !.slot = Head(free)]]
    BY <1>7 DEF TxClaim
  <2>2. txArg'[t].item = txArg[t].item /\ txArg'[t].patience = txArg[t].patience
    BY <1>3, <2>1 DEF TxTypeOK, TxArgs
  <2>3. t \in Senders /\ txAt[t] = "claim" /\ txAt'[t] = "copy"
    BY <1>3, <1>7 DEF TxClaim, TxTypeOK
  <2>4. TxCallOf(t)' = TxCallOf(t)
    BY <1>4, <2>2, <2>3 DEF TxCallOf
  <2> QED
    BY <1>5, <2>4
<1>8. CASE TxCopy(t)
  <2>1. CASE t \in Senders
    <3>1. txArg'[t] = txArg[t] /\ txAt[t] = "copy" /\ txAt'[t] = "pass on"
      BY <1>8, <2>1, CopyEffect
    <3>2. TxCallOf(t)' = TxCallOf(t)
      BY <1>4, <2>1, <3>1 DEF TxCallOf
    <3> QED
      BY <1>5, <3>2
  <2>2. CASE t \notin Senders
    <3>1. txArg'[t].item = storage[txArg[t].slot] /\ txAt[t] = "copy" /\ txAt'[t] = "pass on"
      BY <1>8, <2>2, CopyEffect
    <3>2. TxCallOf(t)' = [phase |-> "received", item |-> txArg'[t].item]
      BY <1>4, <2>2, <3>1 DEF TxCallOf
    <3>3. TxCallOf(t) = [phase |-> "received", item |-> storage[txArg[t].slot]]
      BY <1>4, <2>2, <3>1 DEF TxCallOf
    <3> QED
      BY <1>5, <3>1, <3>2, <3>3
  <2> QED
    BY <2>1, <2>2
<1>9. CASE TxGiveBack(t)
  <2>1. txArg' = [txArg EXCEPT ![t] = [txArg[t] EXCEPT !.slot = NoSlot]]
    BY <1>9 DEF TxGiveBack
  <2>2. txArg'[t].item = txArg[t].item
    BY <1>3, <2>1 DEF TxTypeOK, TxArgs
  <2>3. t \in Receivers /\ txAt[t] = "pass on" /\ txAt'[t] = "done"
    BY <1>3, <1>9 DEF TxGiveBack, TxTypeOK
  <2>4. TxCallOf(t)' = TxCallOf(t)
    BY <1>4, <2>2, <2>3 DEF TxCallOf
  <2> QED
    BY <1>5, <2>4
<1>10. CASE TxGiveUp(t)
  <2>1. /\ txAt[t] = "claim" /\ txAt'[t] = "failed" /\ txArg[t].patience # "forever"
        /\ IF t \in Senders THEN free = <<>> ELSE filled = <<>>
    BY <1>3, <1>10 DEF TxGiveUp, TxTypeOK
  <2>2. TxCallOf(t)' = [phase |-> "failed"]
    BY <2>1 DEF TxCallOf
  <2>3. /\ AllCalls' = [AllCalls EXCEPT ![t] = [phase |-> "failed"]]
        /\ AllCalls[t] = TxCallOf(t) /\ t \in TxAbstract!Users
    BY <1>1, <2>2, CallChanges
  <2>4. CASE t \in Senders
    <3>1. AllCalls[t].phase = "sending" /\ AllCalls[t].patience # "forever"
      BY <1>4, <2>1, <2>3, <2>4 DEF TxCallOf
    <3>2. TxAbstract!Full(t)
      BY <2>1, <2>4, ContentShape, FullWhenNoneFree
    <3>3. TxAbstract!GiveUp(t)
      BY <1>2, <2>3, <3>1, <3>2 DEF TxAbstract!GiveUp, TxAbstract!Becomes, AllCalls
    <3> QED
      BY <2>3, <3>3 DEF QueueStep, TxAbstract!Next
  <2>5. CASE t \notin Senders
    <3>1. AllCalls[t].phase = "receiving" /\ AllCalls[t].patience # "forever"
      BY <1>4, <2>1, <2>3, <2>5 DEF TxCallOf
    <3>2. TxContent = <<>>
      <4>1. filled = <<>>
        BY <2>1, <2>5
      <4> QED
        BY <4>1 DEF TxContent
    <3>3. TxAbstract!GiveUp(t)
      BY <1>2, <2>3, <3>1, <3>2 DEF TxAbstract!GiveUp, TxAbstract!Becomes, AllCalls
    <3> QED
      BY <2>3, <3>3 DEF QueueStep, TxAbstract!Next
  <2> QED
    BY <2>4, <2>5
<1>11. CASE TxReturn(t)
  <2>1. txAt[t] \in {"done", "failed"} /\ txAt'[t] = "idle"
    BY <1>3, <1>11 DEF TxReturn, TxTypeOK
  <2>2. TxCallOf(t)' = [phase |-> "none"]
    BY <2>1 DEF TxCallOf
  <2>3. /\ AllCalls' = [AllCalls EXCEPT ![t] = [phase |-> "none"]]
        /\ AllCalls[t] = TxCallOf(t) /\ t \in TxAbstract!Users
    BY <1>1, <2>2, CallChanges
  <2>4. TxCallOf(t) \in TxAbstract!Answered
    <3>1. CASE txAt[t] = "failed"
      BY <3>1 DEF TxCallOf, TxAbstract!Answered
    <3>2. CASE txAt[t] = "done" /\ t \in Senders
      BY <3>2 DEF TxCallOf, TxAbstract!Answered
    <3>3. CASE txAt[t] = "done" /\ t \in Receivers
      <4>1. TxCallOf(t) = [phase |-> "received", item |-> txArg[t].item]
        BY <1>4, <3>3 DEF TxCallOf
      <4> QED
        BY <1>3, <3>3, <4>1 DEF TxAbstract!Answered, TaskKept
    <3> QED
      BY <1>4, <2>1, <3>1, <3>2, <3>3
  <2>5. TxAbstract!Return(t)
    BY <1>2, <2>3, <2>4 DEF TxAbstract!Return, TxAbstract!Becomes, TxAbstract!NoCall, AllCalls
  <2> QED
    BY <2>3, <2>5 DEF QueueStep, TxAbstract!Next
<1> QED
  BY <1>6, <1>7, <1>8, <1>9, <1>10, <1>11

\* Every step is a step of BoundedQueue, or nothing to it.
LEMMA NextImplements ==
  ASSUME TxInv, TxKept, TxInv', TxKept', [TxNext]_txVars
  PROVE  QueueStep
<1>1. ASSUME NEW t \in Tasks, TxCall(t) \/ TxRuns(t) PROVE QueueStep
  BY <1>1, PostImplements, TakeImplements, QuietImplements DEF TxRuns
<1>2. CASE UNCHANGED txVars
  BY <1>2 DEF txVars, QueueStep, TxContent, AllCalls, TxCallOf
<1> QED
  BY <1>1, <1>2 DEF TxNext

\* A new queue is empty, and nobody is in a call.
LEMMA InitImplements == TxInit => TxAbstract!Init
<1> SUFFICES ASSUME TxInit PROVE TxAbstract!Init
  OBVIOUS
<1>1. TxContent = <<>>
  BY DEF TxInit, TxContent
<1>2. \A t \in Tasks : TxCallOf(t) = [phase |-> "none"]
  BY DEF TxInit, TxCallOf
<1> QED
  BY <1>1, <1>2 DEF TxAbstract!Init, TxAbstract!Users, TxAbstract!NoCall, Tasks

(* The ThreadX queue is the queue of osal.h, though a send claims, copies  *)
(* and posts its slot in three steps that others come between, and a send  *)
(* that finds no slot free may do so while another still fills the last.   *)
THEOREM TxImplementsQueue == TxSpec => TxImplements
<1>1. TxInit => TxAbstract!Init
  BY InitImplements
<1>2. /\ TxInv /\ TxKept /\ (TxInv /\ TxKept)' /\ [TxNext]_txVars
      => [TxAbstract!Next]_<<TxContent, [t \in Tasks |-> TxCallOf(t)]>>
  BY NextImplements DEF QueueStep, AllCalls
<1> QED
  BY <1>1, <1>2, TxKeptAlways, PTL DEF TxSpec, TxImplements, TxAbstract!Spec

=============================================================================
