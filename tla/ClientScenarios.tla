-------------------------- MODULE ClientScenarios --------------------------
(***************************************************************************)
(* The four demo scenarios of client_tasks.c as scripts for ClientTasks.   *)
(* Instruction 1 is waitForMedia, 2 the head of the task's loop, the last  *)
(* two are the cadence delay and the end of the task.  A wait goes on to   *)
(* ok only with an outcome the scenario wants, and any other one makes the *)
(* iteration a FAIL, as does a failed create or send.  The settle and drop *)
(* delays change no state and have no instruction of their own; what they  *)
(* are for is the timing that Punctual and "hurry" state.                  *)
(***************************************************************************)
EXTENDS Naturals

DemoClients == {"Happy", "QTimeout", "LateDone", "AbaIso"}

\* kScenario1BlockId, kScenario2BlockId, kScenario4BlockIdB; scenario 4's
\* block A is only ever asked for its status.
DemoBlocks == {"block1", "block2", "block4B", "block4A"}
DemoSlowBlock == "slow"
DemoBlank == "blank"
DemoValues == {DemoBlank, "pattern", "canary", "attempted", "second"}

DemoCodes == {"ok", "cancelled", "notReady", "io", "invalid"}
DemoAnswers == [code : DemoCodes, val : DemoValues]
DemoTimeout == [code |-> "timeout", val |-> DemoBlank]

NoLoad == [cmd |-> "GetStatus", blk |-> DemoSlowBlock, val |-> DemoBlank]
Ask(cmd, blk, val) == [cmd |-> cmd, blk |-> blk, val |-> val]

Anything == DemoAnswers \cup {DemoTimeout}
Success(v) == {[code |-> "ok", val |-> v]}

Step(op, h, load, want, live, ok, fail) ==
  [op |-> op, h |-> h, load |-> load, want |-> want, live |-> live,
   ok |-> ok, fail |-> fail, hurry |-> FALSE]

Plain(op, ok, fail) == Step(op, "main", NoLoad, {}, {}, ok, fail)
CreateIn(h, live, ok, fail) == Step("create", h, NoLoad, {}, live, ok, fail)
SendOn(h, load, live, ok, fail) == Step("send", h, load, {}, live, ok, fail)
WaitOn(h, want, live, ok, fail) == Step("wait", h, NoLoad, want, live, ok, fail)
PollOn(h, live, ok, fail) == Step("poll", h, NoLoad, {DemoTimeout}, live, ok, fail)
Hurry(i) == [i EXCEPT !.hurry = TRUE]

OnlyMain == {"main"}
OnlyOccupy == {"occupy"}
Both == {"main", "occupy"}

\* clientTaskHappyPathEntry, runHappyPathScenario
HappyScript == <<
  Plain("media", 2, 2),
  Plain("top", 3, 10),
  CreateIn("main", {}, 4, 9),
  SendOn("main", Ask("Write", "block1", "pattern"), OnlyMain, 5, 9),
  WaitOn("main", Success(DemoBlank), OnlyMain, 6, 9),
  CreateIn("main", {}, 7, 9),
  SendOn("main", Ask("Read", "block1", DemoBlank), OnlyMain, 8, 9),
  WaitOn("main", Success("pattern"), OnlyMain, 9, 9),
  Plain("sleep", 2, 2),
  Plain("stop", 10, 10) >>

\* clientTaskQueueTimeoutEntry, runQueueTimeoutScenario with writeBlockSync
\* (3-5), occupyServicer (6-7), the write that must time out (8-10), the
\* drain (11), readBlockByteSync (12-14), the drain of the early returns (15)
QueueTimeoutScript == <<
  Plain("media", 2, 2),
  Plain("top", 3, 17),
  CreateIn("main", {}, 4, 16),
  SendOn("main", Ask("Write", "block2", "canary"), OnlyMain, 5, 16),
  WaitOn("main", Success(DemoBlank), OnlyMain, 6, 16),
  CreateIn("occupy", {}, 7, 16),
  SendOn("occupy", Ask("GetStatus", DemoSlowBlock, DemoBlank), OnlyOccupy, 8, 16),
  Hurry(CreateIn("main", OnlyOccupy, 9, 15)),
  Hurry(SendOn("main", Ask("Write", "block2", "attempted"), Both, 10, 15)),
  Hurry(PollOn("main", Both, 11, 11)),
  WaitOn("occupy", Anything, OnlyOccupy, 12, 12),
  CreateIn("main", {}, 13, 16),
  SendOn("main", Ask("Read", "block2", DemoBlank), OnlyMain, 14, 16),
  WaitOn("main", Success("canary"), OnlyMain, 16, 16),
  WaitOn("occupy", Anything, OnlyOccupy, 16, 16),
  Plain("sleep", 2, 2),
  Plain("stop", 17, 17) >>

\* clientTaskLateCompletionEntry, runLateCompletionScenario
LateCompletionScript == <<
  Plain("media", 2, 2),
  Plain("top", 3, 7),
  CreateIn("main", {}, 4, 6),
  SendOn("main", Ask("Write", DemoSlowBlock, "attempted"), OnlyMain, 5, 6),
  Hurry(PollOn("main", OnlyMain, 6, 6)),
  Plain("sleep", 2, 2),
  Plain("stop", 7, 7) >>

\* clientTaskAbaIsolationEntry, runAbaIsolationScenario: occupyServicer
\* (3-4), the request that goes stale (5-7), the second requester (8-10), the
\* drain (11)
AbaIsolationScript == <<
  Plain("media", 2, 2),
  Plain("top", 3, 13),
  CreateIn("occupy", {}, 4, 12),
  SendOn("occupy", Ask("GetStatus", DemoSlowBlock, DemoBlank), OnlyOccupy, 5, 12),
  Hurry(CreateIn("main", OnlyOccupy, 6, 11)),
  Hurry(SendOn("main", Ask("GetStatus", "block4A", DemoBlank), Both, 7, 11)),
  Hurry(PollOn("main", Both, 8, 8)),
  Hurry(CreateIn("main", OnlyOccupy, 9, 11)),
  SendOn("main", Ask("Write", "block4B", "second"), Both, 10, 11),
  WaitOn("main", Success(DemoBlank), Both, 11, 11),
  WaitOn("occupy", Anything, OnlyOccupy, 12, 12),
  Plain("sleep", 2, 2),
  Plain("stop", 13, 13) >>

DemoScript(c) ==
  CASE c = "Happy" -> HappyScript
    [] c = "QTimeout" -> QueueTimeoutScript
    [] c = "LateDone" -> LateCompletionScript
    [] c = "AbaIso" -> AbaIsolationScript

=============================================================================
