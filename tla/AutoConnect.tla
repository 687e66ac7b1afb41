---------------------------- MODULE AutoConnect ----------------------------
(***************************************************************************)
(* Tcp_autoconnect/: a client that sends a greeting every second, and that *)
(* connects again when a send fails; a server that has a thread for each   *)
(* connection, reads five times and hangs up.  The server may be killed    *)
(* and started again at any time.                                          *)
(*                                                                         *)
(* The kernel closes with FIN, or with RST if there is something unread;   *)
(* it answers what is sent to a closed end with RST, which is back before  *)
(* the next send, a second later.  No connection is cut off silently.      *)
(***************************************************************************)
EXTENDS Integers, FiniteSets

CONSTANTS Tries,      \* n of re_connect
          Reads,      \* n of test_server::_start
          Conns,      \* what connections are told apart by, used again and again
          MaxWaiting  \* bound: greetings that wait to be read

ASSUME AutoAssumption == /\ Tries \in Nat \ {0} /\ Reads \in Nat \ {0}
                         /\ MaxWaiting \in Nat \ {0} /\ IsFiniteSet(Conns)

VARIABLES
  status,   \* _s of the client, or "exited"
  tries,    \* i of re_connect; -1 before close(_fd)
  sockets,  \* descriptors of sockets the client has open
  server,   \* "up" or "down"
  near,     \* per connection: the client's end, "none", "open" or "closed"
  far,      \* per connection: the server's end, "none", "backlog", "serving", "closed"
  reset,    \* per connection: an RST has reached the client
  waiting,  \* per connection: greetings not yet read
  left      \* per connection: n, the reads its thread has left

clientVars == <<status, tries, sockets>>
connVars == <<near, far, reset, waiting, left>>
vars == <<clientVars, server, connVars>>

Init == /\ status = "NEW" /\ tries = -1 /\ sockets = 0
        /\ server \in {"up", "down"}
        /\ near = [i \in Conns |-> "none"] /\ far = [i \in Conns |-> "none"]
        /\ reset = [i \in Conns |-> FALSE]
        /\ waiting = [i \in Conns |-> 0] /\ left = [i \in Conns |-> 0]

Unused(i) == near[i] \in {"none", "closed"} /\ far[i] \in {"none", "closed"}

(* socket_connect: the kernel of a listening server completes it.          *)
Connected(i) == /\ server = "up" /\ Unused(i)
                /\ near' = [near EXCEPT ![i] = "open"]
                /\ far' = [far EXCEPT ![i] = "backlog"]
                /\ reset' = [reset EXCEPT ![i] = FALSE]
                /\ waiting' = [waiting EXCEPT ![i] = 0]
                /\ UNCHANGED left
Refused == server = "down" /\ UNCHANGED connVars
-----------------------------------------------------------------------------
(* The constructor: Tcp_client_init.                                       *)
Construct == /\ status = "NEW"
             /\ sockets' = 1
             /\ \/ (\E i \in Conns : Connected(i)) /\ status' = "CONNECTED"
                \/ Refused /\ status' = "DECONNECTED"
             /\ UNCHANGED <<tries, server>>

(* socket_create fails: exit(SOCKET_ERROR).                                *)
CreateFails == /\ status = "NEW" \/ (status = "DECONNECTED" /\ tries = -1)
               /\ status' = "exited" /\ sockets' = 0
               /\ near' = [i \in Conns |-> IF near[i] = "open" THEN "closed" ELSE near[i]]
               /\ UNCHANGED <<tries, server, far, reset, waiting, left>>

(* _start: Send succeeds, read or not.                                     *)
Send(i) == /\ status = "CONNECTED" /\ near[i] = "open" /\ ~reset[i]
           /\ IF far[i] = "closed"
              THEN reset' = [reset EXCEPT ![i] = TRUE] /\ UNCHANGED waiting
              ELSE /\ waiting[i] < MaxWaiting
                   /\ waiting' = [waiting EXCEPT ![i] = @ + 1]
                   /\ UNCHANGED reset
           /\ UNCHANGED <<clientVars, server, near, far, left>>

(* Send fails: SIGPIPE is ignored, _s = DECONNECTED.                       *)
SendFails(i) == /\ status = "CONNECTED" /\ near[i] = "open" /\ reset[i]
                /\ status' = "DECONNECTED"
                /\ UNCHANGED <<tries, sockets, server, connVars>>

(* Mutant of Reopen: the old descriptor is not closed.                     *)
ReopenLeaks == /\ status = "DECONNECTED" /\ tries = -1
               /\ tries' = 0
               /\ sockets' = sockets + 1
               /\ UNCHANGED <<status, server, connVars>>

(* re_connect: close(_fd); socket_create()                                 *)
Reopen == /\ status = "DECONNECTED" /\ tries = -1
          /\ tries' = 0
          /\ near' = [i \in Conns |-> IF near[i] = "open" THEN "closed" ELSE near[i]]
          /\ UNCHANGED <<status, sockets, server, far, reset, waiting, left>>

(* Mutant of Retry: it gives up without a word at the last try.            *)
RetryForgets == /\ status = "DECONNECTED" /\ tries \in 0 .. Tries - 1
                /\ \/ /\ \E i \in Conns : Connected(i)
                      /\ status' = "CONNECTED" /\ tries' = -1
                   \/ /\ Refused
                      /\ tries' = tries + 1
                      /\ UNCHANGED status
                /\ UNCHANGED <<sockets, server>>

(* re_connect: one turn of the loop.                                       *)
Retry == /\ status = "DECONNECTED" /\ tries \in 0 .. Tries - 1
         /\ \/ /\ \E i \in Conns : Connected(i)
               /\ status' = "CONNECTED" /\ tries' = -1
            \/ /\ Refused
               /\ tries' = tries + 1
               /\ status' = IF tries' = Tries THEN "CLOSEED" ELSE status
         /\ UNCHANGED <<sockets, server>>

(* start() returns, main destroys the client and with it the socket.       *)
End == /\ status = "CLOSEED" /\ sockets > 0
       /\ sockets' = 0
       /\ UNCHANGED <<status, tries, server, connVars>>

Client == Construct \/ Reopen \/ Retry \/ End \/ \E i \in Conns : Send(i) \/ SendFails(i)
-----------------------------------------------------------------------------
(* test_server::start: accept and a thread.                                *)
Accept(i) == /\ server = "up" /\ far[i] = "backlog"
             /\ far' = [far EXCEPT ![i] = "serving"]
             /\ left' = [left EXCEPT ![i] = Reads]
             /\ UNCHANGED <<clientVars, server, near, reset, waiting>>

(* Recv: all that has come, or nothing at the end of the connection.       *)
Recv(i) == /\ far[i] = "serving" /\ left[i] > 0
           /\ waiting[i] > 0 \/ near[i] = "closed"
           /\ waiting' = [waiting EXCEPT ![i] = 0]
           /\ left' = [left EXCEPT ![i] = @ - 1]
           /\ UNCHANGED <<clientVars, server, near, far, reset>>

(* close() at the server's end, with or without something unread.          *)
Closed(i) == /\ far' = [far EXCEPT ![i] = "closed"]
             /\ reset' = [reset EXCEPT ![i] = waiting[i] > 0]
             /\ UNCHANGED <<near, waiting, left>>

(* The thread is through; the last pointer to the Tcp_client closes.       *)
ThreadEnds(i) == /\ far[i] = "serving" /\ left[i] = 0
                 /\ Closed(i)
                 /\ UNCHANGED <<clientVars, server>>

(* A kill: what was accepted or waits to be is closed by the kernel.       *)
Kill == /\ server = "up"
        /\ server' = "down"
        /\ far' = [i \in Conns |-> IF far[i] = "none" THEN "none" ELSE "closed"]
        /\ reset' = [i \in Conns |-> reset[i] \/ far[i] = "backlog"
                                     \/ (far[i] = "serving" /\ waiting[i] > 0)]
        /\ UNCHANGED <<clientVars, near, waiting, left>>

(* main: Tcp_server_init; a bind that fails leaves the server down.        *)
Startup == /\ server = "down"
           /\ server' = "up"
           /\ UNCHANGED <<clientVars, connVars>>

Thread(i) == Recv(i) \/ ThreadEnds(i)

Next == \/ Client \/ CreateFails \/ Kill \/ Startup
        \/ \E i \in Conns : Accept(i) \/ Thread(i)

(* The client and the server's threads run; nobody has to start a server.  *)
Fairness == WF_vars(Client) /\ \A i \in Conns : WF_vars(Accept(i)) /\ WF_vars(Thread(i))

Spec == Init /\ [][Next]_vars
FairSpec == Spec /\ Fairness
-----------------------------------------------------------------------------
(* Types.                                                                  *)
TypeOK == /\ status \in {"NEW", "CONNECTED", "DECONNECTED", "CLOSEED", "exited"}
          /\ tries \in -1 .. Tries /\ sockets \in Nat
          /\ near \in [Conns -> {"none", "open", "closed"}]
          /\ far \in [Conns -> {"none", "backlog", "serving", "closed"}]
          /\ reset \in [Conns -> BOOLEAN]
          /\ waiting \in [Conns -> 0 .. MaxWaiting] /\ left \in [Conns -> 0 .. Reads]

(* Types; and however often the client connects again, it has one socket,  *)
(* and the server has no more than one connection with it, which is the    *)
(* client's: by the time the client sees a failure, the server's end is    *)
(* gone.                                                                   *)
OneConnection ==
  /\ TypeOK
  /\ sockets <= 1 /\ (status \in {"CONNECTED", "DECONNECTED"} => sockets = 1)
  /\ LET mine   == {i \in Conns : near[i] = "open"}
         theirs == {i \in Conns : far[i] \in {"backlog", "serving"}}
     IN  /\ status = "CONNECTED" => mine # {}
         /\ Cardinality(mine) <= 1
         /\ status # "exited" => theirs \subseteq mine /\ (theirs # {} => status = "CONNECTED")

(* A client that has lost its connection gets a new one or gives up; and   *)
(* if the server stays up, it reads greetings again and again, however     *)
(* often it hangs up, unless the client had given up or failed before.     *)
Over == status \in {"CLOSEED", "exited"}
Heard == \E i \in Conns : waiting[i] > 0 /\ Recv(i)
KeepsTalking ==
  /\ status = "DECONNECTED" ~> (status = "CONNECTED" \/ Over)
  /\ <>[](server = "up") => (<>Over \/ []<><<Heard>>_vars)
=============================================================================
