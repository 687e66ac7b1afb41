---------------------------- MODULE MCProcessPool ----------------------------
(* Four children, up to seven codes: the turn wraps, a pipe can hold       *)
(* two codes, and one fork (or pipe) can fail at any place.                *)
EXTENDS ProcessPool
=============================================================================
