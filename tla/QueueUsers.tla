----------------------------- MODULE QueueUsers -----------------------------
(***************************************************************************)
(* Who uses a queue of osal.h, and for what.  A time-out of 0 polls, one of*)
(* UINT32_MAX waits for ever.                                              *)
(***************************************************************************)
EXTENDS Naturals, Sequences, FiniteSets

CONSTANTS
  Senders,    \* the tasks that send
  Receivers,  \* the tasks that receive
  Interrupts, \* the interrupts that send, where the target lets them
  Items,      \* what can be sent
  Sends,      \* which items each of them sends
  Waits,      \* how long each of them, and of the receivers, may wait
  Capacity,   \* itemCount
  Blank       \* the content of memory that no item was copied to

Tasks == Senders \cup Receivers
Patience == {"poll", "timed", "forever"}

ASSUME QueueAssumption ==
  /\ Senders \cap Receivers = {} /\ Interrupts \cap Tasks = {}
  /\ Sends \in [Senders \cup Interrupts -> SUBSET Items]
  /\ Waits \in [Tasks \cup Interrupts -> SUBSET Patience]
  /\ \A i \in Interrupts : Waits[i] = {"poll"}
  /\ IsFiniteSet(Tasks) /\ IsFiniteSet(Interrupts)
  /\ Capacity \in Nat \ {0}
  /\ Blank \notin Items

=============================================================================
