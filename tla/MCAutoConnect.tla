---------------------------- MODULE MCAutoConnect ----------------------------
(* The counts of the code: ten tries and five reads.  Two connections, so  *)
(* that a second one at a time would be seen; three greetings can wait.    *)
EXTENDS AutoConnect
=============================================================================
