---------------------------- MODULE PromisePool ----------------------------
(***************************************************************************)
(* The promise/future pool of libcfuture as the storage demo and the       *)
(* self-test use it.  The library is a submodule whose source is not in    *)
(* the repository, so this module is modelled from its callers:            *)
(*   - cfuture_create claims a slot and hands out two handles on it, one   *)
(*     for each side; each side releases its own handle exactly once;      *)
(*   - a slot is claimable again when both sides have let go of it;        *)
(*   - cfuture_wait_for resolves the race with the promise side: it takes  *)
(*     the answer, or marks the slot timed out and releases the future;    *)
(*   - cpromise_set_value / cpromise_drop on a slot that is no longer      *)
(*     pending only release the promise side ("silently skips the payload  *)
(*     copy for a slot already >= TIMEOUT", client_tasks.c);               *)
(*   - a handle of an earlier occupant is refused by its generation        *)
(*     (cfuture_selftest.c, checkStaleHandle);                             *)
(*   - cfuture_abandon takes back a pair whose promise was never sent.     *)
(***************************************************************************)
EXTENDS Naturals, FiniteSets

CONSTANTS
  Slots,        \* slot numbers of the pool
  GenModulus,   \* a generation counter wraps at this value
  Answers,      \* what a promise can be resolved with
  NoAnswer      \* the content of a slot that is not resolved

ASSUME PoolAssumption ==
  /\ Slots \subseteq Nat
  /\ GenModulus \in Nat \ {0}
  /\ NoAnswer \notin Answers

VARIABLES
  st,     \* the state word of each slot
  gen,    \* the generation of each slot: bumped whenever the slot is freed
  held,   \* the sides of each slot that still hold their handle
  ans     \* the answer of a resolved slot

poolVars == <<st, gen, held, ans>>

Sides == {"promise", "future"}
SlotStates == {"free", "pending", "resolved", "timedOut"}
Generations == 0 .. GenModulus - 1
Handles == [slot : Slots, gen : Generations]

PoolTypeOK ==
  /\ st \in [Slots -> SlotStates]
  /\ gen \in [Slots -> Generations]
  /\ held \in [Slots -> SUBSET Sides]
  /\ ans \in [Slots -> Answers \cup {NoAnswer}]

PoolInit ==
  /\ st = [s \in Slots |-> "free"]
  /\ gen = [s \in Slots |-> 0]
  /\ held = [s \in Slots |-> {}]
  /\ ans = [s \in Slots |-> NoAnswer]

FreeSlots == {s \in Slots : st[s] = "free"}
LiveSlots == Slots \ FreeSlots
HandleOn(s) == [slot |-> s, gen |-> gen[s]]

(* cfuture_create takes the first free slot: checkStaleHandle expects the  *)
(* slot it has just released to be the one it is given next.               *)
FirstFree(s) == st[s] = "free" /\ \A t \in Slots : st[t] = "free" => s <= t

Claim(s) ==
  /\ st' = [st EXCEPT ![s] = "pending"]
  /\ held' = [held EXCEPT ![s] = Sides]
  /\ UNCHANGED <<gen, ans>>

(* The slot keeps the state and the answer given while a side holds it;    *)
(* the last side to let go frees it and retires its generation.            *)
LeaveSlot(s, left, state, answer) ==
  LET last == left = {} IN
    /\ held' = [held EXCEPT ![s] = left]
    /\ st' = [st EXCEPT ![s] = IF last THEN "free" ELSE state]
    /\ ans' = [ans EXCEPT ![s] = IF last THEN NoAnswer ELSE answer]
    /\ gen' = [gen EXCEPT ![s] = IF last THEN (@ + 1) % GenModulus ELSE @]

IsCurrent(h) == gen[h.slot] = h.gen

\* cpromise_is_active
IsActive(h) == IsCurrent(h) /\ st[h.slot] = "pending"

\* cpromise_set_value and cpromise_drop: a late or stale resolution changes
\* no answer.
Resolve(h, a) ==
  IF ~IsCurrent(h) \/ "promise" \notin held[h.slot]
  THEN UNCHANGED poolVars
  ELSE LET s == h.slot
           first == st[s] = "pending"
       IN LeaveSlot(s, held[s] \ {"promise"},
                    IF first THEN "resolved" ELSE st[s],
                    IF first THEN a ELSE ans[s])

\* cfuture_wait_for that finds the answer
TakeAnswer(h) ==
  /\ st[h.slot] = "resolved"
  /\ LeaveSlot(h.slot, held[h.slot] \ {"future"}, st[h.slot], ans[h.slot])

\* cfuture_wait_for whose time is over before the answer came
GiveUp(h) ==
  /\ st[h.slot] = "pending"
  /\ LeaveSlot(h.slot, held[h.slot] \ {"future"}, "timedOut", NoAnswer)

\* cfuture_abandon of a pair whose promise was never handed over
Abandon(h) == LeaveSlot(h.slot, {}, "free", NoAnswer)

=============================================================================
