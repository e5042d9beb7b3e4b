---------------------------- MODULE ThreadXQueue ----------------------------
(***************************************************************************)
(* osal_queue_send and osal_queue_receive of the ThreadX target (osal.c):  *)
(* an array of slots, a kernel queue of the slots that are free and one of *)
(* the slots that are filled.  A send claims a free slot, copies its item  *)
(* and posts the slot; a receive takes a filled slot, copies and gives the *)
(* slot back.  Tasks come between these steps.  The kernel's own queue     *)
(* calls (tx_queue_send, tx_queue_receive) are atomic.                     *)
(***************************************************************************)
EXTENDS QueueUsers

VARIABLES
  storage,    \* impl->storage, by slot
  free,       \* impl->free
  filled,     \* impl->filled
  txAt,       \* where each task is in its call
  txArg,      \* its item, how long it waits, and the slot it holds
  posted      \* whether the last post found room

txVars == <<storage, free, filled, txAt, txArg, posted>>

TxSlots == 1 .. Capacity
NoSlot == 0
TxArgs == [item : Items \cup {Blank}, patience : Patience,
           slot : TxSlots \cup {NoSlot}]

TxTypeOK ==
  /\ storage \in [TxSlots -> Items \cup {Blank}]
  /\ free \in Seq(TxSlots) /\ filled \in Seq(TxSlots)
  /\ txAt \in [Tasks -> {"idle", "claim", "copy", "pass on", "done", "failed"}]
  /\ txArg \in [Tasks -> TxArgs]
  /\ posted \in BOOLEAN

NoTxArg == [item |-> Blank, patience |-> "poll", slot |-> NoSlot]

\* osal_queue_create fills the queue of free slots.
TxInit ==
  /\ storage = [s \in TxSlots |-> Blank]
  /\ free = [i \in TxSlots |-> i] /\ filled = <<>>
  /\ txAt = [t \in Tasks |-> "idle"]
  /\ txArg = [t \in Tasks |-> NoTxArg]
  /\ posted = TRUE

TxCall(t) ==
  /\ txAt[t] = "idle"
  /\ \E a \in TxArgs :
       /\ a.slot = NoSlot /\ a.patience \in Waits[t] /\ a.item \in IF t \in Senders THEN Sends[t] ELSE {Blank}
       /\ txArg' = [txArg EXCEPT ![t] = a]
  /\ txAt' = [txAt EXCEPT ![t] = "claim"]
  /\ UNCHANGED <<storage, free, filled, posted>>

\* A wrong send: the slot is looked at and left in the queue.
TxClaimPeeks(t) ==
  /\ t \in Senders /\ txAt[t] = "claim" /\ free # <<>>
  /\ txArg' = [txArg EXCEPT ![t].slot = Head(free)]
  /\ txAt' = [txAt EXCEPT ![t] = "copy"]
  /\ UNCHANGED <<storage, free, filled, posted>>

\* osal_queue_send: a free slot is claimed
TxClaim(t) ==
  /\ t \in Senders /\ txAt[t] = "claim" /\ free # <<>>
  /\ txArg' = [txArg EXCEPT ![t].slot = Head(free)]
  /\ free' = Tail(free)
  /\ txAt' = [txAt EXCEPT ![t] = "copy"]
  /\ UNCHANGED <<storage, filled, posted>>

\* osal_queue_receive: a filled slot is taken
TxTake(t) ==
  /\ t \in Receivers /\ txAt[t] = "claim" /\ filled # <<>>
  /\ txArg' = [txArg EXCEPT ![t] = [NoTxArg EXCEPT !.slot = Head(filled)]]
  /\ filled' = Tail(filled)
  /\ txAt' = [txAt EXCEPT ![t] = "copy"]
  /\ UNCHANGED <<storage, free, posted>>

\* Neither within the time
TxGiveUp(t) ==
  /\ txAt[t] = "claim" /\ txArg[t].patience # "forever"
  /\ IF t \in Senders THEN free = <<>> ELSE filled = <<>>
  /\ txAt' = [txAt EXCEPT ![t] = "failed"]
  /\ txArg' = [txArg EXCEPT ![t] = NoTxArg]
  /\ UNCHANGED <<storage, free, filled, posted>>

\* memcpy in either direction
TxCopy(t) ==
  /\ txAt[t] = "copy"
  /\ IF t \in Senders
     THEN storage' = [storage EXCEPT ![txArg[t].slot] = txArg[t].item] /\ UNCHANGED txArg
     ELSE txArg' = [txArg EXCEPT ![t].item = storage[txArg[t].slot]] /\ UNCHANGED storage
  /\ txAt' = [txAt EXCEPT ![t] = "pass on"]
  /\ UNCHANGED <<free, filled, posted>>

\* tx_queue_send with TX_NO_WAIT: dropped when there is no room
Room(q) == Len(q) < Capacity

\* A wrong send: in front of the others (tx_queue_front_send).
SentInFront(q, slot) == IF Room(q) THEN <<slot>> \o q ELSE q

Sent(q, slot) == IF Room(q) THEN Append(q, slot) ELSE q

\* A wrong post: the slot is forgotten too early.
TxPostCleared(t) ==
  /\ t \in Senders /\ txAt[t] = "pass on"
  /\ posted' = Room(filled)
  /\ filled' = Sent(filled, NoSlot)
  /\ txAt' = [txAt EXCEPT ![t] = "done"]
  /\ txArg' = [txArg EXCEPT ![t] = NoTxArg]
  /\ UNCHANGED <<storage, free>>

\* osal_queue_send posts its slot.  Without room the slot goes back.
TxPost(t) ==
  /\ t \in Senders /\ txAt[t] = "pass on"
  /\ posted' = Room(filled)
  /\ filled' = Sent(filled, txArg[t].slot)
  /\ free' = IF Room(filled) THEN free ELSE Sent(free, txArg[t].slot)
  /\ txAt' = [txAt EXCEPT ![t] = IF Room(filled) THEN "done" ELSE "failed"]
  /\ txArg' = [txArg EXCEPT ![t] = NoTxArg]
  /\ UNCHANGED storage

\* A wrong receive: the slot is kept.
TxGiveBackForgets(t) ==
  /\ t \in Receivers /\ txAt[t] = "pass on"
  /\ txAt' = [txAt EXCEPT ![t] = "done"]
  /\ txArg' = [txArg EXCEPT ![t].slot = NoSlot]
  /\ UNCHANGED <<storage, free, filled, posted>>

\* osal_queue_receive gives its slot back, and is content whether or not there
\* is room.
TxGiveBack(t) ==
  /\ t \in Receivers /\ txAt[t] = "pass on"
  /\ posted' = Room(free)
  /\ free' = Sent(free, txArg[t].slot)
  /\ txAt' = [txAt EXCEPT ![t] = "done"]
  /\ txArg' = [txArg EXCEPT ![t].slot = NoSlot]
  /\ UNCHANGED <<storage, filled>>

TxReturn(t) ==
  /\ txAt[t] \in {"done", "failed"}
  /\ txAt' = [txAt EXCEPT ![t] = "idle"]
  /\ txArg' = [txArg EXCEPT ![t] = NoTxArg]
  /\ UNCHANGED <<storage, free, filled, posted>>

TxRuns(t) ==
  TxClaim(t) \/ TxTake(t) \/ TxGiveUp(t) \/ TxCopy(t) \/ TxPost(t) \/ TxGiveBack(t) \/ TxReturn(t)

TxNext == \E t \in Tasks : TxCall(t) \/ TxRuns(t)

TxSpec == TxInit /\ [][TxNext]_txVars

-----------------------------------------------------------------------------
Holding(s) == {t \in Tasks : txArg[t].slot = s}
PlacesIn(q, s) == {i \in DOMAIN q : q[i] = s}

(* Every slot is free, filled or in the hands of one task, and in one place*)
(* only: none is lost between the two queues, none is written by two.      *)
SlotsConserved ==
  \A s \in TxSlots :
    Cardinality(PlacesIn(free, s)) + Cardinality(PlacesIn(filled, s)) + Cardinality(Holding(s)) = 1

(* "There is always room here - TX_NO_WAIT, never expected to fail"        *)
(* (osal_queue_send), and likewise for the slot that a receive gives back, *)
(* whose failure nobody would see.                                         *)
PostsNeverFail == posted

(* The ThreadX queue is the queue of osal.h.  An item is in the queue from *)
(* the post of its slot on; a receive has its item when it has the slot.   *)
TxCallOf(t) ==
  CASE txAt[t] = "idle" -> [phase |-> "none"]
    [] txAt[t] = "failed" -> [phase |-> "failed"]
    [] t \in Senders /\ txAt[t] = "done" -> [phase |-> "sent"]
    [] t \in Senders /\ txAt[t] \in {"claim", "copy", "pass on"} ->
         [phase |-> "sending", item |-> txArg[t].item, patience |-> txArg[t].patience, met |-> FALSE]
    [] t \in Receivers /\ txAt[t] = "claim" ->
         [phase |-> "receiving", patience |-> txArg[t].patience]
    [] t \in Receivers /\ txAt[t] = "copy" ->
         [phase |-> "received", item |-> storage[txArg[t].slot]]
    [] OTHER -> [phase |-> "received", item |-> txArg[t].item]

TxContent == [i \in DOMAIN filled |-> storage[filled[i]]]

TxAbstract == INSTANCE BoundedQueue WITH
  content <- TxContent,
  call <- [t \in Tasks |-> TxCallOf(t)]

TxImplements == TxAbstract!Spec

=============================================================================
