----------------------------- MODULE MCUdpRouter -----------------------------
(* Two clients, of which one says a line, and one thing that goes wrong,   *)
(* whatever and whenever it is.                                            *)
EXTENDS UdpRouter
=============================================================================
