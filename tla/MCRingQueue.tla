---------------------------- MODULE MCRingQueue ----------------------------
(* Two threads on each side, two slots and enough pushes for the ring to   *)
(* turn twice, so that a slot is reused while a late copy is outstanding.  *)
EXTENDS RingQueue
=============================================================================
