---------------------------- MODULE MCTaskTrace ----------------------------
(* Values for the constants of TaskTrace, for model checking.              *)
EXTENDS TaskTrace

HostTasks == <<"Blinky", "StorageSvc">>

=============================================================================
