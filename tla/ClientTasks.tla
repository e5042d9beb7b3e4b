---------------------------- MODULE ClientTasks ----------------------------
(***************************************************************************)
(* The Requester tasks (client_tasks.c).  Every one of them runs a script: *)
(* its scenario as a sequence of the few operations the scenarios are made *)
(* of, each with the place to go on when it succeeds and when it does not. *)
(* The scripts of the repository's four scenarios are in ClientScenarios;  *)
(* this module says what an instruction does, for any script.              *)
(*                                                                         *)
(* The two local cfuture_t variables a scenario can hold at once are       *)
(* "main" and "occupy".  Until it is sent the promise of the pair is a     *)
(* local variable too; it is on the slot of the future it was created with.*)
(***************************************************************************)
EXTENDS StorageShared

CONSTANTS
  Script,       \* the instructions of each client
  NoFuture,     \* a cfuture_t variable that holds no future
  TimeoutAnswer \* CFUTURE_ERR_TIMEOUT as the status of a wait

Futures == {"main", "occupy"}

Ops == {"media", "top", "create", "send", "wait", "poll", "sleep", "stop"}

(* op    what the instruction does        h     the future it is about     *)
(* load  what a send asks for             want  the outcomes of a wait the *)
(*                                              scenario goes on with      *)
(* ok, fail   the next instruction        live  the futures held before it *)
(* hurry  executed in the settle window of the slow request just sent      *)
Instructions ==
  [op : Ops, h : Futures, load : Payloads, want : SUBSET (Answers \cup {TimeoutAnswer}),
   ok : Nat, fail : Nat, live : SUBSET Futures, hurry : BOOLEAN]

Points(c) == DOMAIN Script[c]

(* A script uses its futures as C locals are used: it creates into one     *)
(* that holds nothing, sends or waits on one that holds a pair, sends at   *)
(* once what it created, and stops or starts over holding none.            *)
Disciplined(c, k) ==
  LET i == Script[c][k]
      Goes(n, futures) == n \in Points(c) /\ Script[c][n].live = futures
      Sends(n) == Script[c][n].op = "send"
  IN /\ i.op = "create" => /\ i.h \notin i.live
                           /\ Goes(i.ok, i.live \cup {i.h}) /\ Goes(i.fail, i.live)
                           /\ Sends(i.ok) /\ ~Sends(i.fail)
                           /\ Script[c][i.ok].h = i.h
     /\ i.op = "send" => /\ i.h \in i.live
                         /\ Goes(i.ok, i.live) /\ Goes(i.fail, i.live \ {i.h})
                         /\ ~Sends(i.ok) /\ ~Sends(i.fail)
     /\ i.op \in {"wait", "poll"} => /\ i.h \in i.live
                                     /\ Goes(i.ok, i.live \ {i.h})
                                     /\ Goes(i.fail, i.live \ {i.h})
                                     /\ ~Sends(i.ok) /\ ~Sends(i.fail)
     /\ i.op \in {"media", "top", "sleep"} => /\ i.live = {}
                                              /\ Goes(i.ok, {}) /\ Goes(i.fail, {})
                                              /\ ~Sends(i.ok) /\ ~Sends(i.fail)

ASSUME ScriptAssumption ==
  /\ DOMAIN Script = Clients
  /\ \A c \in Clients :
       /\ 1 \in Points(c)
       /\ Points(c) \subseteq Nat
       /\ Script[c][1].op = "media"
       /\ \A k \in Points(c) : Script[c][k] \in Instructions /\ Disciplined(c, k)

ASSUME ClientAssumption == NoFuture \notin Handles /\ TimeoutAnswer \notin Answers

VARIABLES
  pc,     \* the instruction each client executes next
  fut,    \* the futures each client holds
  good    \* FALSE once this iteration has logged a FAIL

clientVars == <<pc, fut, good>>

Instr(c) == Script[c][pc[c]]

ClientTypeOK ==
  /\ pc \in [Clients -> Nat]
  /\ \A c \in Clients : pc[c] \in Points(c)
  /\ fut \in [Clients -> [Futures -> Handles \cup {NoFuture}]]
  /\ good \in [Clients -> BOOLEAN]

ClientInit ==
  /\ pc = [c \in Clients |-> 1]
  /\ fut = [c \in Clients |-> [h \in Futures |-> NoFuture]]
  /\ good = [c \in Clients |-> TRUE]

Goto(c, next, pass) ==
  /\ pc' = [pc EXCEPT ![c] = next]
  /\ good' = [good EXCEPT ![c] = @ /\ pass]

SetFuture(c, h, f) == fut' = [fut EXCEPT ![c][h] = f]

\* waitForMedia: ready, asked to stop, or (10 s later) going on regardless.
\* Punctual: the media reports ready within those 10 s.
WaitForMedia(c) ==
  /\ Instr(c).op = "media"
  /\ published \/ c \in stopRequested \/ ~Punctual
  /\ Goto(c, Instr(c).ok, TRUE)
  /\ UNCHANGED <<poolVars, sharedVars, fut>>

\* A wrong loop: it never looks at the stop request.
IterationTopForEver(c) ==
  /\ Instr(c).op = "top"
  /\ Goto(c, Instr(c).ok, TRUE)
  /\ UNCHANGED <<poolVars, sharedVars, fut>>

\* The head of the task's loop: a new iteration, or the end of the task.
IterationTop(c) ==
  /\ Instr(c).op = "top"
  /\ Goto(c, IF c \in stopRequested THEN Instr(c).fail ELSE Instr(c).ok, TRUE)
  /\ UNCHANGED <<poolVars, sharedVars, fut>>

CreatePair(c) ==
  /\ Instr(c).op = "create"
  /\ \/ \E s \in Slots :
          /\ FirstFree(s)
          /\ Claim(s)
          /\ SetFuture(c, Instr(c).h, HandleOn(s))
          /\ Goto(c, Instr(c).ok, TRUE)
     \/ /\ FreeSlots = {}
        /\ Goto(c, Instr(c).fail, FALSE)
        /\ UNCHANGED <<poolVars, fut>>
  /\ UNCHANGED sharedVars

RequestOf(c) ==
  [promise |-> fut[c][Instr(c).h], load |-> Instr(c).load, from |-> c]

Send(c) ==
  /\ Instr(c).op = "send"
  /\ QueueSend(RequestOf(c))
  /\ Goto(c, Instr(c).ok, TRUE)
  /\ UNCHANGED <<poolVars, published, stopRequested, fut>>

\* A wrong error path: the pair is dropped on the floor.
SendTimesOutLeaks(c) ==
  /\ Instr(c).op = "send"
  /\ Full
  /\ SetFuture(c, Instr(c).h, NoFuture)
  /\ Goto(c, Instr(c).fail, FALSE)
  /\ UNCHANGED <<poolVars, sharedVars>>

\* A wrong error path: the abandoned future stays in its variable.
SendTimesOutKeepsFuture(c) ==
  /\ Instr(c).op = "send"
  /\ Full
  /\ Abandon(fut[c][Instr(c).h])
  /\ Goto(c, Instr(c).fail, FALSE)
  /\ UNCHANGED <<sharedVars, fut>>

\* The queue was full for kClientTaskQueueSendTimeoutMs.
SendTimesOut(c) ==
  /\ Instr(c).op = "send"
  /\ Full
  /\ Abandon(fut[c][Instr(c).h])
  /\ SetFuture(c, Instr(c).h, NoFuture)
  /\ Goto(c, Instr(c).fail, FALSE)
  /\ UNCHANGED sharedVars

\* The scenario compares the outcome of a wait with what it expects.
Conclude(c, a) ==
  /\ SetFuture(c, Instr(c).h, NoFuture)
  /\ Goto(c, IF a \in Instr(c).want THEN Instr(c).ok ELSE Instr(c).fail,
          a \in Instr(c).want)

AwaitAnswer(c) ==
  /\ Instr(c).op \in {"wait", "poll"}
  /\ TakeAnswer(fut[c][Instr(c).h])
  /\ Conclude(c, ans[fut[c][Instr(c).h].slot])
  /\ UNCHANGED sharedVars

\* A wrong timeout: cfuture_abandon for a pair whose promise was sent.
AwaitTimesOutAbandons(c) ==
  /\ Instr(c).op = "poll" \/ (Instr(c).op = "wait" /\ ~Punctual)
  /\ st[fut[c][Instr(c).h].slot] = "pending"
  /\ Abandon(fut[c][Instr(c).h])
  /\ Conclude(c, TimeoutAnswer)
  /\ UNCHANGED sharedVars

\* A wrong timeout: the requester forgets the future without releasing it.
AwaitTimesOutForgets(c) ==
  /\ Instr(c).op = "poll" \/ (Instr(c).op = "wait" /\ ~Punctual)
  /\ st[fut[c][Instr(c).h].slot] = "pending"
  /\ Conclude(c, TimeoutAnswer)
  /\ UNCHANGED <<poolVars, sharedVars>>

\* A poll is a wait of 0 ms.  Punctual: T_S answers within the 2 s and 20 s
\* of the other waits.
AwaitTimesOut(c) ==
  /\ Instr(c).op = "poll" \/ (Instr(c).op = "wait" /\ ~Punctual)
  /\ GiveUp(fut[c][Instr(c).h])
  /\ Conclude(c, TimeoutAnswer)
  /\ UNCHANGED sharedVars

\* osal_delay_ms(kClientTaskCadenceMs), back to the top for an iteration with
\* a verdict of its own.
Sleep(c) ==
  /\ Instr(c).op = "sleep"
  /\ pc' = [pc EXCEPT ![c] = Instr(c).ok]
  /\ good' = [good EXCEPT ![c] = TRUE]
  /\ UNCHANGED <<poolVars, sharedVars, fut>>

=============================================================================
