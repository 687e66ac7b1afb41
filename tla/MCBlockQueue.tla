---------------------------- MODULE MCBlockQueue ----------------------------
(* Two threads on each side and a queue of capacity two: both conditions   *)
(* can have several sleepers, a broadcast can wake more threads than there *)
(* is work for, and two different tasks make a change of order visible.    *)
EXTENDS BlockQueue
=============================================================================
