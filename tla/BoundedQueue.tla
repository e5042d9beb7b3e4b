---------------------------- MODULE BoundedQueue ----------------------------
(***************************************************************************)
(* What osal.h promises of a queue (osal_queue_send, osal_queue_receive):  *)
(* items are copied in and out by value, first in first out, each received *)
(* once, never more than the capacity of them; a call that gives up has no *)
(* effect, a receive gives up only on an empty queue, and a call that may  *)
(* block for ever does not give up.  A send gives up only when it has found*)
(* the queue full, now or before ("queue stayed full"); an implementation  *)
(* may count a place that another call is filling or emptying as taken.    *)
(***************************************************************************)
EXTENDS QueueUsers

VARIABLES
  content,    \* the items in the queue, oldest first
  call        \* the call that each task is in

Users == Senders \cup Receivers

NoCall == [phase |-> "none"]
Answered == [phase : {"sent", "failed"}] \cup [phase : {"received"}, item : Items]

Init == content = <<>> /\ call = [t \in Users |-> NoCall]

Becomes(t, c) == call' = [call EXCEPT ![t] = c]

Begin(t) ==
  /\ call[t] = NoCall
  /\ \/ /\ t \in Senders
        /\ \E item \in Sends[t], patience \in Waits[t] :
             Becomes(t, [phase |-> "sending", item |-> item, patience |-> patience, met |-> FALSE])
     \/ /\ t \in Receivers
        /\ \E patience \in Waits[t] : Becomes(t, [phase |-> "receiving", patience |-> patience])
  /\ UNCHANGED content

Enqueue(t) ==
  /\ call[t].phase = "sending" /\ Len(content) < Capacity
  /\ content' = Append(content, call[t].item)
  /\ Becomes(t, [phase |-> "sent"])

Dequeue(t) ==
  /\ call[t].phase = "receiving" /\ content # <<>>
  /\ content' = Tail(content)
  /\ Becomes(t, [phase |-> "received", item |-> Head(content)])

\* The others that may hold a place of the queue
Passing(t) == {u \in Users \ {t} : call[u].phase \in {"sending", "received"}}

Full(t) == Len(content) + Cardinality(Passing(t)) >= Capacity

\* A send meets a full queue, and goes on waiting for a place.
MeetFull(t) ==
  /\ call[t].phase = "sending" /\ Full(t)
  /\ Becomes(t, [call[t] EXCEPT !.met = TRUE])
  /\ UNCHANGED content

GiveUp(t) ==
  /\ \/ call[t].phase = "sending" /\ (Full(t) \/ call[t].met)
     \/ call[t].phase = "receiving" /\ content = <<>>
  /\ call[t].patience # "forever"
  /\ Becomes(t, [phase |-> "failed"])
  /\ UNCHANGED content

Return(t) ==
  /\ call[t] \in Answered
  /\ Becomes(t, NoCall)
  /\ UNCHANGED content

Next ==
  \E t \in Users :
    Begin(t) \/ Enqueue(t) \/ Dequeue(t) \/ MeetFull(t) \/ GiveUp(t) \/ Return(t)

Spec == Init /\ [][Next]_<<content, call>>

=============================================================================
