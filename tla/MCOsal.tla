------------------------------- MODULE MCOsal -------------------------------
(***************************************************************************)
(* The OSAL's three queues, its mutex on FreeRTOS and the self-test,       *)
(* checked side by side: they share nothing, and a behaviour is one of the *)
(* five.                                                                   *)
(***************************************************************************)
EXTENDS PosixQueue, ThreadXQueue, FreeRtosQueue, FreeRtosMutex, SelfTest

CONSTANTS s1, s2, i1, r1, a, b

VARIABLE system   \* which of them this behaviour is of

vars == <<system, posixVars, txVars, frVars, mutexVars, allTestVars>>

MCAnswers == {"task", "forever", "isr", "poison", "real", "dropped"}
MCTestSlots == 1 .. 2
MCEvents == 1 .. 2

\* Each sender has an item of its own, and the interrupt that of the first.
MCSends == (s1 :> {a}) @@ (s2 :> {b}) @@ (i1 :> {a})
MCWaits ==
  (s1 :> Patience) @@ (s2 :> {"timed"}) @@ (r1 :> Patience) @@ (i1 :> {"poll"})
MCBase == [t \in 1 .. 3 |-> t]
MCRank == (s1 :> 1) @@ (s2 :> 1) @@ (r1 :> 2) @@ (i1 :> 3)

Init ==
  /\ system \in {"posix", "threadx", "freertos", "mutex", "self-test"}
  /\ PosixInit /\ TxInit /\ FrInit /\ MutexInit /\ TestInit
  /\ system # "self-test" => port = "bits"

PosixStep == system = "posix" /\ PosixNext /\ UNCHANGED <<system, txVars, frVars, mutexVars, allTestVars>>
TxStep == system = "threadx" /\ TxNext /\ UNCHANGED <<system, posixVars, frVars, mutexVars, allTestVars>>
FrStep ==
  system = "freertos" /\ FrNext /\ UNCHANGED <<system, posixVars, txVars, mutexVars, allTestVars>>
MutexStep ==
  system = "mutex" /\ MutexNext /\ UNCHANGED <<system, posixVars, txVars, frVars, allTestVars>>

OfTest == system = "self-test" /\ UNCHANGED <<system, posixVars, txVars, frVars, mutexVars>>
TestStep == TestNext /\ OfTest

Next == PosixStep \/ TxStep \/ FrStep \/ MutexStep \/ TestStep

\* The tasks of the self-test run, bounded waits end.
Spec ==
  /\ Init /\ [][Next]_vars
  /\ WF_vars(WaiterRuns /\ OfTest)
  /\ WF_vars(ProducerRuns /\ OfTest)

(* TestRecovers, of the behaviours that are the self-test's                *)
BatteryRecovers == system = "self-test" => TestRecovers

=============================================================================
