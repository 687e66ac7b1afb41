----------------------------- MODULE MCReactor -----------------------------
(* An answer is larger than the send buffer, so that sending is            *)
(* interrupted.  One descriptor and two clients: a client can come while   *)
(* no descriptor is free, and the descriptor is used again.  Two requests: *)
(* one can arrive behind another, or behind its unsent answer.             *)
EXTENDS Reactor
CONSTANTS home, lost, odd, page404

Ask(method, path, length, closed) ==
  [method |-> method, path |-> path, length |-> length, zero |-> 0, closed |-> closed]

(* A page, a missing one, one whose suffix is unknown; bodies as the code  *)
(* expects them and as RFC 9112 has them, of a GET too; a bad length; a    *)
(* zero byte in a body; negative lengths that leave an empty line, leave   *)
(* a head which is found again for ever, and never make a request whole.   *)
MCRequests == {Ask("GET", home, 0, TRUE), Ask("GET", odd, 0, TRUE), Ask("GET", home, 1, FALSE),
               Ask("POST", home, 1, TRUE), Ask("POST", home, NaN, TRUE),
               [Ask("POST", home, 1, TRUE) EXCEPT !.zero = 1],
               Ask("GET", lost, -1, TRUE), Ask("GET", home, -2, TRUE), Ask("GET", home, -4, TRUE)}
=============================================================================
