------------------------------ MODULE Watchdog ------------------------------
(***************************************************************************)
(* The independent watchdog task (crash_dump.c) on top of the task trace:  *)
(* once per interval it copies the records one at a time, reports every    *)
(* task that has been silent for too long, and refreshes the hardware      *)
(* watchdog (IWDG) only if there was none.  Tasks check in, stop on        *)
(* request, or hang for good; the IWDG counts on a clock of its own and    *)
(* resets the board.                                                       *)
(*                                                                         *)
(* One unit of time is about eight seconds of the source's constants.  What *)
(* a task has promised is a bound on its silence while it works (the       *)
(* longest waits are the 20 s drain of client_tasks.c and the 12 s lock of *)
(* usb_host.c); what the watchdog has is the highest priority: it runs     *)
(* when its delay is over, and a round takes at most one unit.             *)
(***************************************************************************)
EXTENDS TaskTrace

CONSTANTS
  HealthTimeout,  \* kWatchdogHealthTimeoutMs
  Interval,       \* kWatchdogRefreshIntervalMs
  MaxGap,         \* the longest legitimate time between two check-ins
  Iwdg,           \* the period of the hardware watchdog
  MaxHangs,       \* bound: so many tasks hang one after the other
  Wraps           \* FALSE: the system is watched until its clock would wrap

ASSUME WatchdogAssumption ==
  /\ "Watchdog" \in Names
  /\ HealthTimeout \in Nat /\ Interval \in Nat \ {0} /\ MaxGap \in Nat /\ Iwdg \in Nat
  /\ MaxGap <= HealthTimeout
  /\ Interval + 1 < Iwdg
  /\ MaxHangs \in Nat /\ Wraps \in BOOLEAN

VARIABLES
  wd,         \* where the watchdog task is
  rest,       \* what is left of its delay
  index,      \* the next record it copies
  sampled,    \* its own sample of the time
  healthy,    \* allHealthy
  sinceKick,  \* time since the last refresh of the IWDG
  up,         \* FALSE once the IWDG has reset the board
  hung,       \* tasks that will never do anything again
  age,        \* time since each task's last check-in
  reported    \* tasks that were logged as UNHEALTHY

watchVars == <<wd, rest, index, sampled, healthy, sinceKick, up, hung, age, reported>>
vars == <<traceVars, watchVars>>

Workers == Names \ {"Watchdog"}
Alive(t) == life[t] \in {"running", "leaving"} /\ t \notin hung
Working(t) == up /\ Alive(t)
AgeCap == TimeModulus   \* ages are counted up to here

WatchdogTypeOK ==
  /\ TraceTypeOK
  /\ wd \in {"sleep", "scan"}
  /\ rest \in 0 .. Interval
  /\ index \in 0 .. count
  /\ sampled \in 0 .. TimeModulus - 1
  /\ healthy \in BOOLEAN
  /\ sinceKick \in 0 .. Iwdg
  /\ up \in BOOLEAN
  /\ hung \subseteq Names
  /\ age \in [Names -> 0 .. AgeCap]
  /\ reported \subseteq Names

Init ==
  /\ TraceInit
  /\ wd = "sleep" /\ rest = 0 /\ index = 0 /\ sampled = 0 /\ healthy = TRUE
  /\ sinceKick = 0          \* crashDumpEarlyInit
  /\ up = TRUE
  /\ hung = {} /\ reported = {}
  /\ age = [n \in Names |-> 0]

Boot == StarterStep /\ UNCHANGED watchVars

WorkerChecksIn(t) ==
  /\ Working(t)
  /\ LoopTop(t) \/ CheckIn(t)
  /\ age' = [age EXCEPT ![t] = 0]
  /\ UNCHANGED <<wd, rest, index, sampled, healthy, sinceKick, up, hung, reported>>

WorkerStops(t) ==
  /\ Working(t)
  /\ MarkStopped(t)
  /\ UNCHANGED watchVars

AskToStop(t) == up /\ RequestStop(t) /\ UNCHANGED watchVars

\* A lock-up, a wait without a timeout, a loop without a check-in: of one
\* task, or of the processor and thereby of all.
Hang ==
  /\ Booted /\ Cardinality(hung) < MaxHangs
  /\ \E stuck \in {Names} \cup {{t} : t \in Names} :
       /\ \E t \in stuck : Working(t)
       /\ hung' = hung \cup {t \in stuck : life[t] # "gone"}
  /\ UNCHANGED <<traceVars, wd, rest, index, sampled, healthy, sinceKick, up, age, reported>>

\* The head of the loop, and the sample of the time unless it was asked to
\* stop
BeginRound ==
  /\ wd = "sleep" /\ rest = 0
  /\ Working("Watchdog")
  /\ LoopTop("Watchdog")
  /\ age' = [age EXCEPT !["Watchdog"] = 0]
  /\ IF life'["Watchdog"] = "leaving" THEN UNCHANGED <<wd, index, sampled, healthy>>
     ELSE wd' = "scan" /\ index' = 0 /\ sampled' = now /\ healthy' = TRUE
  /\ UNCHANGED <<rest, sinceKick, up, hung, reported>>

\* It marks itself stopped and exits; nothing refreshes the IWDG any more.
EndWatchdog ==
  /\ Working("Watchdog")
  /\ MarkStopped("Watchdog")
  /\ UNCHANGED watchVars

\* A wrong age: a check-in after the sample underflows.
SinceUnclamped(r) == (sampled + TimeModulus - r.checkIn) % TimeModulus

Since(r) == IF sampled >= r.checkIn THEN sampled - r.checkIn ELSE 0

TooSilent(r) == ~r.stopped /\ Since(r) > HealthTimeout

Scanning == wd = "scan" /\ Working("Watchdog")

\* A wrong scan: it stops looking at the first record that is too old.
ScanRecordUnlogged ==
  /\ Scanning /\ index < count
  /\ healthy' = (healthy /\ ~TooSilent(table[index]))
  /\ index' = index + 1
  /\ UNCHANGED <<traceVars, wd, rest, sampled, sinceKick, up, hung, age, reported>>

\* A wrong bound: one record too many.
ScanRecordPastEnd ==
  /\ Scanning /\ index <= count
  /\ healthy' = (healthy /\ ~TooSilent(table[index]))
  /\ index' = index + 1
  /\ UNCHANGED <<traceVars, wd, rest, sampled, sinceKick, up, hung, age, reported>>

\* One record: appTaskTraceGetByIndex and the verdict on its copy
ScanRecord ==
  /\ Scanning /\ index < count
  /\ LET r == table[index] IN
       IF TooSilent(r)
       THEN healthy' = FALSE /\ reported' = reported \cup {r.name}
       ELSE UNCHANGED <<healthy, reported>>
  /\ index' = index + 1
  /\ UNCHANGED <<traceVars, wd, rest, sampled, sinceKick, up, hung, age>>

\* A wrong end of the round: an unconditional kick.
EndRoundKicking ==
  /\ Scanning /\ index = count
  /\ CheckIn("Watchdog")
  /\ age' = [age EXCEPT !["Watchdog"] = 0]
  /\ sinceKick' = 0
  /\ wd' = "sleep" /\ rest' = Interval
  /\ UNCHANGED <<index, sampled, healthy, up, hung, reported>>

\* The kick, if every task was healthy, the check-in at the end of the loop
\* and osal_delay_ms(kWatchdogRefreshIntervalMs)
EndRound ==
  /\ Scanning /\ index = count
  /\ CheckIn("Watchdog")
  /\ age' = [age EXCEPT !["Watchdog"] = 0]
  /\ sinceKick' = IF healthy THEN 0 ELSE sinceKick
  /\ wd' = "sleep" /\ rest' = Interval
  /\ UNCHANGED <<index, sampled, healthy, up, hung, reported>>

\* The next action is not late: a working task keeps its bound, the watchdog
\* its delay and the length of its round.
OnTime ==
  /\ \A t \in Workers : Working(t) => age[t] < MaxGap
  /\ Working("Watchdog") => \/ wd = "sleep" /\ rest > 0
                            \/ wd = "scan" /\ sampled = now

Tick ==
  /\ up /\ Booted
  /\ OnTime
  /\ Wraps \/ now + 1 < TimeModulus
  /\ now' = IF now + 1 < TimeModulus THEN now + 1 ELSE 0
  /\ age' = [n \in Names |-> IF age[n] < AgeCap THEN age[n] + 1 ELSE AgeCap]
  /\ rest' = IF rest > 0 THEN rest - 1 ELSE 0
  /\ sinceKick' = sinceKick + 1
  /\ up' = (sinceKick' < Iwdg)
  /\ UNCHANGED <<count, table, step, slot, started, life, wd, index, sampled,
                 healthy, hung, reported>>

Next ==
  \/ Boot \/ Hang \/ Tick
  \/ BeginRound \/ EndWatchdog \/ ScanRecord \/ EndRound
  \/ \E t \in Workers : WorkerChecksIn(t) \/ WorkerStops(t)
  \/ \E t \in Names : AskToStop(t)

Spec == Init /\ [][Next]_vars

-----------------------------------------------------------------------------
\* What a task may do without being reported: everything but hang.
NoFalseAlarm == reported \subseteq hung

(* "An unhealthy task gets logged at least once before the hardware        *)
(* watchdog would otherwise reset the board with no diagnostic at all": a  *)
(* reset has a report before it, unless the watchdog task itself is stuck  *)
(* or was stopped.                                                         *)
NoResetWithoutDiagnosis ==
  ~up => reported # {} \/ ~Alive("Watchdog")

ResetBound == HealthTimeout + Iwdg

\* "A genuine lockup still reaches the hardware reset (crashDumpEarlyInit())"
\* (the watchdog task's comment), in a time that its constants bound.
LockupReachesReset == \A t \in hung : up => age[t] <= ResetBound

-----------------------------------------------------------------------------
\* The inductive invariant, for a board (tasks start after boot) whose clock
\* does not wrap.

\* The places whose record is complete
Filled(i) == i < started /\ (i + 1 < started \/ step["main"] = "idle")
Owner(i) == Order[i + 1]

\* The starter fills the table in the order of the registry, alone.
BootShape ==
  /\ \A t \in Names : step[t] = "idle"
  /\ step["main"] = "idle" => count = started
  /\ step["main"] \in {"find", "claim", "bump"} => started = count + 1
  /\ step["main"] = "bump" => slot["main"] = count
  /\ step["main"] = "fill" => started = count /\ started = slot["main"] + 1
  /\ step["main"] # "crashed"
  /\ \A i \in Places : table[i].name = IF Filled(i) THEN Owner(i) ELSE NoName
  /\ \A k \in DOMAIN Order : life[Order[k]] = "unborn" <=> k > started

\* Until then the clock stands still and nothing else happens.
BeforeBoot ==
  ~Booted => /\ now = 0 /\ wd = "sleep" /\ rest = 0 /\ sinceKick = 0 /\ hung = {}
             /\ \A n \in Names : age[n] = 0 /\ life[n] \in {"unborn", "running"}

\* A record says when its task was last heard of, and whether it is gone.
RecordsTell ==
  \A i \in Places : Filled(i) =>
    /\ table[i].checkIn + age[Owner(i)] = now
    /\ table[i].stopped <=> life[Owner(i)] = "gone"

HungStay == \A t \in hung : life[t] \in {"running", "leaving"}

WorkersOnTime == \A t \in Workers : Alive(t) => age[t] <= MaxGap

AgesAgree == BeforeBoot /\ RecordsTell /\ HungStay /\ WorkersOnTime

\* The sample of a round is young, and the watchdog checked in before it.
SampleYoung ==
  wd = "scan" =>
    /\ sampled <= now /\ life["Watchdog"] = "running"
    /\ Alive("Watchdog") => now <= sampled + 1 /\ age["Watchdog"] <= now - sampled

\* As long as nothing was reported every round ends with a kick.
QuietMeansKicked ==
  reported = {} /\ Alive("Watchdog") =>
    IF wd = "sleep" THEN sinceKick + rest <= Interval
    ELSE healthy /\ sinceKick <= Interval + (now - sampled)

\* A round that is healthy so far has seen no record that was too old.
HealthySoFar ==
  wd = "scan" /\ healthy =>
    \A i \in Places : i < index /\ ~table[i].stopped =>
      sampled <= table[i].checkIn + HealthTimeout

\* At a kick no task was more than a round beyond its timeout.
AgesFollowKick ==
  \A n \in Names : life[n] # "gone" => age[n] <= HealthTimeout + 1 + sinceKick

UpUntilReset == up <=> sinceKick < Iwdg

RoundKnows == SampleYoung /\ QuietMeansKicked /\ HealthySoFar /\ AgesFollowKick /\ UpUntilReset

IInv ==
  /\ WatchdogTypeOK /\ BootShape /\ AgesAgree /\ RoundKnows
  /\ NoFalseAlarm /\ NoResetWithoutDiagnosis

=============================================================================
