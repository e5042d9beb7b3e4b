----------------------------- MODULE BlockStore -----------------------------
(***************************************************************************)
(* What the storage service promises its requesters, without queue, pool   *)
(* or tasks.  A call is made, and then either answered or given up by its  *)
(* caller.  The store commits to one waiting call at a time, gives it its  *)
(* effect on the blocks at most once, and answers it with what happened.   *)
(* A call that was given up before the store committed to it never has an  *)
(* effect; one given up later may have, and its answer goes to nobody.     *)
(***************************************************************************)
EXTENDS Naturals

CONSTANTS
  Callers,    \* places a call can be waited for at
  Payloads,   \* [cmd, blk, val]
  Blocks,     \* the blocks of the store; a payload may name another one
  Values,
  Blank,
  NoCall      \* nothing is called, or nothing is committed to

Codes == {"ok", "cancelled", "notReady", "io", "invalid"}
Refusals == {"notReady"}

VARIABLES
  blocks,     \* contents
  call,       \* NoCall, or the phase, payload and answer of each caller's call
  current     \* NoCall, or what the store has committed to

storeVars == <<blocks, call, current>>

Waiting(p) == [phase |-> "waiting", load |-> p]
Committed(p) == [phase |-> "committed", load |-> p]
Answered(a) == [phase |-> "answered", answer |-> a]
Answer(code, v) == [code |-> code, val |-> v]

InPhase(k, phase) == call[k] # NoCall /\ call[k].phase = phase

Init ==
  /\ blocks = [b \in Blocks |-> Blank]
  /\ call = [k \in Callers |-> NoCall]
  /\ current = NoCall

Invoke(k, p) ==
  /\ call[k] = NoCall
  /\ call' = [call EXCEPT ![k] = Waiting(p)]
  /\ UNCHANGED <<blocks, current>>

\* The store takes up a call that is still waited for.
Commit(k) ==
  /\ InPhase(k, "waiting")
  /\ current = NoCall
  /\ current' = [load |-> call[k].load, stage |-> "begun"]
  /\ call' = [call EXCEPT ![k] = Committed(call[k].load)]
  /\ UNCHANGED blocks

\* A write's data reaches the media; it is not acknowledged yet.
Store ==
  /\ current # NoCall /\ current.stage = "begun"
  /\ current.load.cmd = "Write" /\ current.load.blk \in Blocks
  /\ blocks' = [blocks EXCEPT ![current.load.blk] = current.load.val]
  /\ current' = [current EXCEPT !.stage = "stored"]
  /\ UNCHANGED call

\* The answers the current stage of the work allows.  Only of a block that was
\* never written may the store say that there is no such block.
Verdicts ==
  LET p == current.load IN
    IF current.stage = "stored" THEN {Answer("ok", Blank), Answer("io", Blank)}
    ELSE IF p.cmd = "GetStatus" THEN {Answer("ok", Blank)}
    ELSE IF p.blk \notin Blocks THEN {Answer("invalid", Blank)}
    ELSE IF p.cmd = "Read"
      THEN {Answer("ok", blocks[p.blk]), Answer("io", Blank)} \cup
           IF blocks[p.blk] = Blank THEN {Answer("invalid", Blank)} ELSE {}
    ELSE {Answer("io", Blank)}

Decide ==
  /\ current # NoCall /\ current.stage \in {"begun", "stored"}
  /\ \E a \in Verdicts : current' = [load |-> current.load, stage |-> "decided", answer |-> a]
  /\ UNCHANGED <<blocks, call>>

\* The answer reaches the caller that the work was done for, or nobody.
Finish ==
  /\ current # NoCall /\ current.stage = "decided"
  /\ \/ \E k \in Callers :
          /\ InPhase(k, "committed")
          /\ call' = [call EXCEPT ![k] = Answered(current.answer)]
     \/ /\ \A k \in Callers : ~InPhase(k, "committed")
        /\ UNCHANGED call
  /\ current' = NoCall
  /\ UNCHANGED blocks

\* A waiting call is refused without being taken up.
Refuse(k) ==
  /\ InPhase(k, "waiting")
  /\ \E code \in Refusals : call' = [call EXCEPT ![k] = Answered(Answer(code, Blank))]
  /\ UNCHANGED <<blocks, current>>

GiveUp(k) ==
  /\ InPhase(k, "waiting") \/ InPhase(k, "committed")
  /\ call' = [call EXCEPT ![k] = NoCall]
  /\ UNCHANGED <<blocks, current>>

Collect(k) ==
  /\ InPhase(k, "answered")
  /\ call' = [call EXCEPT ![k] = NoCall]
  /\ UNCHANGED <<blocks, current>>

Next ==
  \/ \E k \in Callers :
       \/ \E p \in Payloads : Invoke(k, p)
       \/ Commit(k) \/ Refuse(k) \/ GiveUp(k) \/ Collect(k)
  \/ Store \/ Decide \/ Finish

Spec == Init /\ [][Next]_storeVars

=============================================================================
