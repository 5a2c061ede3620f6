-------------------------- MODULE MCWatchDogWorker --------------------------
(***************************************************************************)
(* Small instances of WatchDogWorker.                                      *)
(***************************************************************************)
EXTENDS WatchDogWorker
=============================================================================
