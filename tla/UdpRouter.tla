----------------------------- MODULE UdpRouter -----------------------------
(***************************************************************************)
(* Udp_message_router/: a server that passes every datagram it gets on to  *)
(* all users, and clients with a thread that sends (join, lines, quit) and *)
(* one that receives.  windows-client/ is the same program as the client   *)
(* of Linux-server-client/.  The network may lose a datagram, deliver one  *)
(* twice and let one overtake another; two copies of a datagram that are   *)
(* on their way at once are one.                                           *)
(*                                                                         *)
(* The names common to all specifications begin with Router here: so the   *)
(* proofs about this module and about AutoConnect can share a module.      *)
(***************************************************************************)
EXTENDS Integers, FiniteSets

CONSTANTS Clients,   \* each has an address, which is its name
          Server,
          MaxTalks,  \* bound: lines said in all
          MaxFaults  \* bound: losses, duplicates, overtakings and restarts together

ASSUME RouterAssumption == /\ Server \notin Clients
                           /\ MaxTalks \in Nat /\ MaxFaults \in Nat

VARIABLES router,    \* "starting", "up" or "exited"
          users,     \* users::_set
          net,       \* datagrams on their way
          sender,    \* per client: what sendtoserver does next
          talks,     \* lines said
          running,   \* per client: the flag of its two threads
          receiver,  \* per client: recvtoserver "tests" running, "waits", is "done"
          faults     \* history: what the network and the server have done wrong

threadVars == <<sender, talks, running, receiver>>
routerVars == <<router, users, net, threadVars, faults>>

(* What a client sends, numbered in the order it sends it.                 *)
JoinIn == 0
Line(n) == n
Quit == MaxTalks + 1

Datagram(to, from, text) == [to |-> to, from |-> from, text |-> text]
Fault(kind, d) == [kind |-> kind, of |-> d]

RouterInit == /\ router = "starting" /\ users = {} /\ net = {}
              /\ sender = [c \in Clients |-> "join"]
              /\ talks = 0
              /\ running = [c \in Clients |-> TRUE]
              /\ receiver = [c \in Clients |-> "tests"]
              /\ faults = {}

(* server::init                                                            *)
RouterStartup == /\ router = "starting"
                 /\ router' \in {"up", "exited"}
                 /\ UNCHANGED <<users, net, threadVars, faults>>
-----------------------------------------------------------------------------
(* Nobody reads any more what is sent to a client that has seen its flag.  *)
Read(d) == d.to = Server \/ receiver[d.to] # "done"

(* recvfrom() takes the datagram off the network, or it comes once more.   *)
Deliver(d, sent) ==
  LET overtaking == {Fault("overtaking", d) : e \in {e \in net : e.to = Server /\ e.from = d.from
                                                       /\ d.to = Server /\ e.text < d.text}}
  IN  \E twice \in BOOLEAN :
        /\ twice => Fault("duplicate", d) \notin faults
        /\ faults' = faults \cup overtaking \cup (IF twice THEN {Fault("duplicate", d)} ELSE {})
        /\ faults' # faults => Cardinality(faults') <= MaxFaults
        /\ net' = (IF twice THEN net ELSE net \ {d}) \cup {e \in sent : Read(e)}

(* put_message: to every user, the author included if it is one.           *)
put_message(text, from, to) == {Datagram(u, from, text) : u \in to}

(* The set is ordered by the name, address and port: one entry a client.   *)
add_user(u)  == users \cup {u}
quit_user(u, of) == of \ {u}

(* Mutant of Handle: the user is erased before its quit is passed on.      *)
HandleQuitFirst(d) ==
  /\ router = "up" /\ d \in net /\ d.to = Server
  /\ LET joined == IF d.text = JoinIn THEN add_user(d.from) ELSE users
     IN  /\ users' = IF d.text = Quit THEN quit_user(d.from, joined) ELSE joined
         /\ Deliver(d, put_message(d.text, d.from, users'))
  /\ UNCHANGED <<router, threadVars>>

(* Mutant of Handle: who has quit is not erased.                           *)
HandleKeeps(d) ==
  /\ router = "up" /\ d \in net /\ d.to = Server
  /\ users' = IF d.text = JoinIn THEN add_user(d.from) ELSE users
  /\ Deliver(d, put_message(d.text, d.from, users'))
  /\ UNCHANGED <<router, threadVars>>

(* server::start: add_user, put_message, quit_user.  Anybody may speak.    *)
Handle(d) ==
  /\ router = "up" /\ d \in net /\ d.to = Server
  /\ LET joined == IF d.text = JoinIn THEN add_user(d.from) ELSE users
     IN  /\ Deliver(d, put_message(d.text, d.from, joined))
         /\ users' = IF d.text = Quit THEN quit_user(d.from, joined) ELSE joined
  /\ UNCHANGED <<router, threadVars>>
-----------------------------------------------------------------------------
(* sendto() succeeds, and the datagram is lost if no server is bound.      *)
SendTo(c, text) ==
  LET d == Datagram(Server, c, text)
  IN  IF router = "up" THEN net' = net \cup {d} /\ UNCHANGED faults
                       ELSE faults' = faults \cup {Fault("loss", d)} /\ UNCHANGED net

(* sendtoserver, the first turn: flag.                                     *)
Join(c) == /\ sender[c] = "join"
           /\ SendTo(c, JoinIn)
           /\ sender' = [sender EXCEPT ![c] = "line"]
           /\ UNCHANGED <<router, users, talks, running, receiver>>

(* A line that is not "quit".                                              *)
Speak(c) == /\ sender[c] = "line" /\ talks < MaxTalks
            /\ talks' = talks + 1
            /\ SendTo(c, Line(talks'))
            /\ UNCHANGED <<router, users, sender, running, receiver>>

(* "quit": the flag first, then the datagram, then the thread ends.        *)
QuitFlag(c) == /\ sender[c] = "line"
               /\ running' = [running EXCEPT ![c] = FALSE]
               /\ sender' = [sender EXCEPT ![c] = "quit"]
               /\ UNCHANGED <<router, users, net, talks, receiver, faults>>

QuitSend(c) == /\ sender[c] = "quit"
               /\ SendTo(c, Quit)
               /\ sender' = [sender EXCEPT ![c] = "done"]
               /\ UNCHANGED <<router, users, talks, running, receiver>>

(* recvtoserver: while(running)                                            *)
Test(c) == /\ receiver[c] = "tests"
           /\ receiver' = [receiver EXCEPT ![c] = IF running[c] THEN "waits" ELSE "done"]
           /\ net' = {d \in net : d.to = c => running[c]}
           /\ UNCHANGED <<router, users, sender, talks, running, faults>>

(* recvtoserver: recvfrom returns, the text is printed.                    *)
Receive(d) == /\ d \in net /\ d.to \in Clients /\ receiver[d.to] = "waits"
              /\ Deliver(d, {})
              /\ receiver' = [receiver EXCEPT ![d.to] = "tests"]
              /\ UNCHANGED <<router, users, sender, talks, running>>

(* main: both threads are joined, the process ends.                        *)
Ended(c) == sender[c] = "done" /\ receiver[c] = "done"
-----------------------------------------------------------------------------
Lose(d) == /\ d \in net /\ Cardinality(faults) < MaxFaults
           /\ net' = net \ {d}
           /\ faults' = faults \cup {Fault("loss", d)}
           /\ UNCHANGED <<router, users, threadVars>>

(* The server is killed and started again, with an empty table.            *)
Restart == /\ router = "up" /\ Cardinality(faults) < MaxFaults
           /\ users' = {}
           /\ faults' = faults \cup {Fault("restart", Datagram(Server, Server, Quit))}
           /\ UNCHANGED <<router, net, threadVars>>

ClientThreads(c) == Join(c) \/ QuitSend(c) \/ Test(c)

RouterNext == \/ RouterStartup \/ Restart
              \/ \E c \in Clients : ClientThreads(c) \/ Speak(c) \/ QuitFlag(c)
              \/ \E d \in net : Handle(d) \/ Receive(d) \/ Lose(d)

(* The threads run, and the network delivers what it does not lose.        *)
RouterFairness == /\ WF_routerVars(\E d \in net : Handle(d))
                  /\ \A c \in Clients : /\ WF_routerVars(ClientThreads(c))
                                        /\ WF_routerVars(\E d \in net : d.to = c /\ Receive(d))

RouterSpec == RouterInit /\ [][RouterNext]_routerVars
RouterFairSpec == RouterSpec /\ RouterFairness
-----------------------------------------------------------------------------
RouterTypeOK == /\ router \in {"starting", "up", "exited"} /\ users \subseteq Clients
                /\ \A d \in net : d.to \in Clients \cup {Server} /\ d.from \in Clients
                                  /\ d.text \in JoinIn .. Quit
                /\ sender \in [Clients -> {"join", "line", "quit", "done"}]
                /\ talks \in 0 .. MaxTalks /\ running \in [Clients -> BOOLEAN]
                /\ receiver \in [Clients -> {"tests", "waits", "done"}]

(* Types; and the table keeps a client that has left, once all it sent has *)
(* been handled, only if its quit was lost or overtook what was sent       *)
(* before: also if what it overtook was only a join that came again.       *)
QuitFailed(c) == \E f \in faults : /\ f.kind \in {"loss", "overtaking"}
                                   /\ f.of.to = Server /\ f.of.from = c /\ f.of.text = Quit
LeaversErased ==
  /\ RouterTypeOK
  /\ \A c \in users : \/ sender[c] # "done"
                      \/ \E d \in net : d.to = Server /\ d.from = c
                      \/ QuitFailed(c)

(* The thread that receives can see the flag only after it has received    *)
(* something: a client that says quit ends, for its quit or its join comes *)
(* back to it, unless one of these was lost or the server has forgotten it.*)
Excused(c) == \E f \in faults :
                \/ f.kind = "restart"
                \/ f.kind = "loss" /\ (f.of.to = c \/ f.of.from = c)
QuitEnds == \A c \in Clients : sender[c] = "done" ~> (Ended(c) \/ Excused(c))
=============================================================================
