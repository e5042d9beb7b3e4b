----------------------------- MODULE EventLists -----------------------------
(***************************************************************************)
(* The event lists of the FreeRTOS kernel (list.c): the tasks that wait for*)
(* something, in the order in which they are woken.                        *)
(***************************************************************************)
EXTENDS Naturals, FiniteSets, SequencesExt

\* Where vListInsert puts a task: in front of the first of lower priority, and so
\* behind its equals.
LowerIn(list, t, rank) == {i \in DOMAIN list : rank[list[i]] < rank[t]}
PlaceFor(list, t, rank) ==
  IF LowerIn(list, t, rank) = {} THEN Len(list) + 1 ELSE Min(LowerIn(list, t, rank))

\* vListInsert
Inserted(list, t, rank) == InsertAt(list, PlaceFor(list, t, rank), t)

\* uxListRemove, of a task that may be in another list
Removed(list, t) ==
  IF t \in ToSet(list) THEN RemoveAt(list, CHOOSE i \in DOMAIN list : list[i] = t) ELSE list

=============================================================================
