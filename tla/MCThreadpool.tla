---------------------------- MODULE MCThreadpool ----------------------------
(* Three workers and three tasks: stop() and quit() come while tasks are   *)
(* left, while one is being taken, and when the workers sleep.             *)
EXTENDS Threadpool
=============================================================================
