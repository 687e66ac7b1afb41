---------------------------- MODULE MCEchoServers ----------------------------
(* Three clients and two descriptors: epoll_server uses a number again,    *)
(* select_server runs out of them.  EchoTurns.cfg has the two servers of   *)
(* one thread, EchoThreads.cfg the three of a thread for each connection.  *)
EXTENDS EchoServers
=============================================================================
