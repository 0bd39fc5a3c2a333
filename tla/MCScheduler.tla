---------------------------- MODULE MCScheduler -----------------------------
(* Small instances of Scheduler for TLC. *)
EXTENDS Scheduler

(* Two workers in place of "aids" beside the other shipped thread; or one, *)
(* which starts more.                                                      *)
TwoWorkers == <<"colin", "worker", "worker">>
OneWorker == <<"worker">>

Tasks5 == 0 .. 4
=============================================================================
