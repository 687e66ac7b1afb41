------------------------------ MODULE MCTcpCalc ------------------------------
(* Two clients with three requests each: the third can reach the server    *)
(* together with the second once an answer was received in two pieces.     *)
EXTENDS TcpCalc
=============================================================================
