----------------------------- MODULE MCWatchdog -----------------------------
(* Values for the constants of Watchdog, for model checking.               *)
EXTENDS Watchdog

BoardTasks == <<"Blinky", "Watchdog", "StorageSvc">>
OneWorker == <<"Watchdog", "StorageSvc">>

=============================================================================
