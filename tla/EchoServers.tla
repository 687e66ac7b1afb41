----------------------------- MODULE EchoServers -----------------------------
(***************************************************************************)
(* Five servers with one skeleton: accept a client, receive what it sends, *)
(* send an answer, see the end of the connection.  kind says which one     *)
(* runs.  select_server/ and epoll_server/ are one thread that takes its   *)
(* readable descriptors turn by turn; Tcp_echo_server/ ("echo"),           *)
(* Tcp_inet_all/ ("inet") and http_server/ ("http") have an accepting      *)
(* thread and a thread for each connection.  What they do at the end of a  *)
(* connection, at an error and without descriptors is different in each.   *)
(***************************************************************************)
EXTENDS Integers, Sequences, FiniteSetsExt

Turns   == {"select", "epoll"}          \* one thread
Threads == {"echo", "inet", "http"}     \* a thread for each connection

CONSTANTS Kinds,     \* the servers that are looked at
          Clients,   \* peers; each connects once
          Fds,       \* the descriptors the process may have besides its own
          MaxChunks, \* bound: messages, of any length, one client sends
          None

Listen == 3          \* _listenfd

ASSUME ServerAssumption == /\ Kinds \subseteq Turns \cup Threads
                           /\ Fds \subseteq Nat \ (0 .. Listen)
                           /\ None \notin Clients /\ MaxChunks \in Nat

VARIABLES kind,      \* which of them this is; never changes
          process,   \* "starting", "up", "dead" (SIGPIPE), "exited",
                     \* "undefined" (FD_SET of -1)
          todo,      \* readable descriptors of this turn not yet handled
          watched,   \* _set, or what epoll watches, besides _listenfd,
                     \* or the descriptors a thread receives from
          conn,      \* the kernel's table: the client of each open descriptor
          backlog,   \* connected clients, not yet accepted
          client,    \* "new", "open", "closed" (FIN), "reset" (RST)
          failed,    \* a reset that no call has reported yet
          sent,      \* messages the client has sent
          inbox,     \* of these, those not received yet: "text" or "icon"
          hand,      \* answers received for, but not yet through send()
          echoed,    \* answers sent, an echo of two messages counting twice
          blocked    \* clients whose answer does not fit into the buffers on
                     \* its way: the send() to them waits for them to read

serverVars == <<kind, todo, watched, conn>>
clientVars == <<client, sent>>
sendVars   == <<hand, echoed, blocked>>
vars == <<serverVars, process, clientVars, backlog, failed, inbox, sendVars>>

Init == /\ kind \in Kinds /\ process = "starting"
        /\ todo = {} /\ watched = {} /\ conn = [fd \in Fds |-> None]
        /\ backlog = <<>> /\ client = [c \in Clients |-> "new"]
        /\ failed = [c \in Clients |-> FALSE]
        /\ sent = [c \in Clients |-> 0] /\ inbox = [c \in Clients |-> <<>>]
        /\ hand = [c \in Clients |-> 0] /\ echoed = [c \in Clients |-> 0]
        /\ blocked = {}

(* socket_create, socket_bind, socket_listen: a failing call ends it.      *)
Startup == /\ process = "starting"
           /\ process' \in {"up", "exited"}
           /\ UNCHANGED <<serverVars, clientVars, backlog, failed, inbox, sendVars>>

Free == {fd \in Fds : conn[fd] = None}

Readable(fd) == IF fd = Listen THEN backlog # <<>>
                ELSE LET c == conn[fd]
                     IN  c # None /\ (inbox[c] # <<>> \/ client[c] # "open")
-----------------------------------------------------------------------------
(* Mutant of Wait: select is not given the last descriptor.                *)
WaitOffByOne ==
  /\ process = "up" /\ kind \in Turns /\ todo = {} /\ \A c \in Clients : hand[c] = 0
  /\ kind = "select" => \A fd \in watched : conn[fd] # None
  /\ LET seen == IF kind = "select" THEN watched \ {Max(watched \cup {Listen})} ELSE watched
     IN  todo' = {fd \in seen \cup {Listen} : Readable(fd)}
  /\ todo' # {}
  /\ UNCHANGED <<kind, watched, conn, process, clientVars, backlog, failed, inbox, sendVars>>

(* select (which fails if one is not open) or epoll_wait.                  *)
Wait ==
  /\ process = "up" /\ kind \in Turns /\ todo = {} /\ \A c \in Clients : hand[c] = 0
  /\ kind = "select" => \A fd \in watched : conn[fd] # None
  /\ todo' = {fd \in watched \cup {Listen} : Readable(fd)}
  /\ todo' # {}
  /\ UNCHANGED <<kind, watched, conn, process, clientVars, backlog, failed, inbox, sendVars>>

(* disposs: the next descriptor of this turn; or the thread of any         *)
(* descriptor returns from accept or recv.                                 *)
Dispose(fd) == /\ process = "up"
               /\ \/ kind \in Turns /\ fd \in todo /\ \A c \in Clients : hand[c] = 0
                  \/ /\ kind \in Threads /\ fd \in watched \cup {Listen} /\ Readable(fd)
                     /\ fd # Listen => hand[conn[fd]] = 0
               /\ kind = "select" => fd = Min(todo)
               /\ todo' = todo \ {fd}

(* The kernel gives out its lowest free number.                            *)
socket_accept(fd) == /\ Free # {} /\ fd = Min(Free)
                     /\ conn' = [conn EXCEPT ![fd] = Head(backlog)]
                     /\ backlog' = Tail(backlog)

(* comment_insert, or a new thread with _start.                            *)
Accept == /\ Dispose(Listen)
          /\ \E fd \in Fds : socket_accept(fd) /\ watched' = watched \cup {fd}
          /\ UNCHANGED <<kind, process, clientVars, failed, inbox, sendVars>>

(* accept fails: the client stays in the backlog, and -1 gets into _set    *)
(* and from there into FD_SET, or is refused by epoll_ctl, or skipped.     *)
AcceptFails == /\ Dispose(Listen) /\ Free = {}
               /\ process' = IF kind = "select" THEN "undefined" ELSE process
               /\ UNCHANGED <<kind, watched, conn, clientVars, backlog, failed, inbox, sendVars>>

(* Received(fd, n): everything the client of fd has sent, for n answers.   *)
Received(fd, n) == /\ inbox[conn[fd]] # <<>>
                   /\ inbox' = [inbox EXCEPT ![conn[fd]] = <<>>]
                   /\ hand' = [hand EXCEPT ![conn[fd]] = n]

(* Mutant of Receive: the message is not taken off the socket.             *)
ReceivePeeks(fd) ==
  /\ Dispose(fd) /\ fd # Listen /\ kind # "http"
  /\ inbox[conn[fd]] # <<>>
  /\ hand' = [hand EXCEPT ![conn[fd]] = Len(inbox[conn[fd]])]
  /\ UNCHANGED <<kind, watched, conn, process, clientVars, backlog, failed, inbox, echoed, blocked>>

(* recv > 0: what has been received is to be sent back.                    *)
Receive(fd) ==
  /\ Dispose(fd) /\ fd # Listen /\ kind # "http"
  /\ Received(fd, Len(inbox[conn[fd]]))
  /\ UNCHANGED <<kind, watched, conn, process, clientVars, backlog, failed, echoed, blocked>>

(* What the uri ends in; a page's is ".html" or none.                      *)
suffix(message) == IF message = "icon" THEN ".ico" ELSE ".html"

(* http_request::Deserialize: the suffix is that of the first line; what   *)
(* has no line, as the rest of a request that came in two pieces, has none.*)
AsksIcon(messages) == suffix(Head(messages)) = ".ico"

(* http_server::_start: one answer, to the first request of what has been  *)
(* received, of whatever file there is; none to a request for an icon.     *)
ReceiveRequest(fd) ==
  /\ Dispose(fd) /\ fd # Listen /\ kind = "http"
  /\ Received(fd, IF AsksIcon(inbox[conn[fd]]) THEN 0 ELSE 1)
  /\ UNCHANGED <<kind, watched, conn, process, clientVars, backlog, failed, echoed, blocked>>

Sending(fd) == process = "up" /\ conn[fd] # None /\ hand[conn[fd]] > 0

(* send() returns.  A peer that has closed answers with a reset.           *)
Sent(fd) ==
  LET c == conn[fd]
  IN  /\ Sending(fd) /\ c \notin blocked /\ client[c] # "reset"
      /\ echoed' = [echoed EXCEPT ![c] = @ + hand[c]]
      /\ hand' = [hand EXCEPT ![c] = 0]
      /\ failed' = [failed EXCEPT ![c] = @ \/ client[c] = "closed"]
      /\ client' = [client EXCEPT ![c] = IF @ = "closed" THEN "reset" ELSE @]
      /\ UNCHANGED <<serverVars, process, sent, backlog, inbox, blocked>>

(* The socket is a blocking one: send() waits until all of the answer is   *)
(* in the buffers, and they are full if the client does not read.  Those   *)
(* of Tcp_echo_server and Tcp_inet_all read each answer before they go on. *)
SendBlocks(fd) ==
  /\ Sending(fd) /\ kind \notin {"echo", "inet"}
  /\ client[conn[fd]] = "open" /\ conn[fd] \notin blocked
  /\ blocked' = blocked \cup {conn[fd]}
  /\ UNCHANGED <<serverVars, process, clientVars, backlog, failed, inbox, hand, echoed>>

(* send() reports the peer's reset; nobody looks at what it returns ...    *)
SendFails(fd) ==
  LET c == conn[fd]
  IN  /\ Sending(fd) /\ client[c] = "reset" /\ failed[c]
      /\ failed' = [failed EXCEPT ![c] = FALSE]
      /\ echoed' = [echoed EXCEPT ![c] = @ + hand[c]]
      /\ hand' = [hand EXCEPT ![c] = 0] /\ blocked' = blocked \ {c}
      /\ UNCHANGED <<serverVars, process, clientVars, backlog, inbox>>

(* ... or raises SIGPIPE.                                                  *)
SendKills(fd) ==
  /\ Sending(fd) /\ client[conn[fd]] = "reset"
  /\ process' = "dead"
  /\ UNCHANGED <<serverVars, clientVars, backlog, failed, inbox, sendVars>>

(* recv returns -1: select_server and Tcp_echo_server go on and will       *)
(* receive 0 next time; so does http_server, for ever (see HttpSpins).     *)
RecvError(fd) ==
  /\ Dispose(fd) /\ fd # Listen /\ kind \in {"select", "echo", "http"}
  /\ inbox[conn[fd]] = <<>> /\ failed[conn[fd]]
  /\ failed' = [failed EXCEPT ![conn[fd]] = FALSE]
  /\ UNCHANGED <<kind, watched, conn, process, clientVars, backlog, inbox, sendVars>>

(* Mutant of RecvEnd: a close that forgets the set.                        *)
RecvEndKeepsEntry(fd) ==
  /\ Dispose(fd) /\ fd # Listen /\ kind = "select"
  /\ inbox[conn[fd]] = <<>> /\ ~failed[conn[fd]]
  /\ conn' = [conn EXCEPT ![fd] = None]
  /\ UNCHANGED <<kind, watched, process, clientVars, backlog, failed, inbox, sendVars>>

(* recv returns 0: _set.erase(i), and no close.                            *)
RecvEnd(fd) ==
  /\ Dispose(fd) /\ fd # Listen /\ kind = "select"
  /\ inbox[conn[fd]] = <<>> /\ ~failed[conn[fd]]
  /\ watched' = watched \ {fd}
  /\ UNCHANGED <<kind, conn, process, clientVars, backlog, failed, inbox, sendVars>>

(* epoll_server closes on 0 and on -1.                                     *)
RecvCloses(fd) ==
  /\ Dispose(fd) /\ fd # Listen /\ kind = "epoll"
  /\ inbox[conn[fd]] = <<>>
  /\ watched' = watched \ {fd}
  /\ conn' = [conn EXCEPT ![fd] = None]
  /\ UNCHANGED <<kind, process, clientVars, backlog, failed, inbox, sendVars>>

(* Tcp_echo_server's thread ends at 0; Tcp_inet_all's too, and its p       *)
(* closes the descriptor.                                                  *)
ThreadEnds(fd) ==
  /\ Dispose(fd) /\ fd # Listen /\ kind \in {"echo", "inet"}
  /\ inbox[conn[fd]] = <<>> /\ ~failed[conn[fd]]
  /\ watched' = watched \ {fd}
  /\ conn' = [conn EXCEPT ![fd] = None]
  /\ UNCHANGED <<kind, process, clientVars, backlog, failed, inbox, sendVars>>

(* -1 in one thread of Tcp_inet_all ends the server: exit(3).              *)
InetExits(fd) ==
  /\ Dispose(fd) /\ fd # Listen /\ kind = "inet"
  /\ inbox[conn[fd]] = <<>> /\ failed[conn[fd]]
  /\ process' = "exited"
  /\ UNCHANGED <<kind, watched, conn, clientVars, backlog, failed, inbox, sendVars>>

(* http_server: Recv asks again until it is given something, so that the   *)
(* thread of a client that has left neither ends nor closes.               *)
HttpSpins(fd) ==
  /\ Dispose(fd) /\ fd # Listen /\ kind = "http"
  /\ inbox[conn[fd]] = <<>> /\ ~failed[conn[fd]]
  /\ UNCHANGED <<kind, watched, conn, process, clientVars, backlog, failed, inbox, sendVars>>
-----------------------------------------------------------------------------
Connect(c) == /\ process = "up" /\ client[c] = "new"
              /\ client' = [client EXCEPT ![c] = "open"]
              /\ backlog' = Append(backlog, c)
              /\ UNCHANGED <<serverVars, process, sent, failed, inbox, sendVars>>

(* The clients of Tcp_echo_server and Tcp_inet_all wait for the answer.    *)
ClientSends(c) ==
  /\ process = "up" /\ client[c] = "open" /\ sent[c] < MaxChunks
  /\ kind \in {"echo", "inet"} => echoed[c] = sent[c]
  /\ sent' = [sent EXCEPT ![c] = @ + 1]
  /\ \E message \in IF kind = "http" THEN {"text", "icon"} ELSE {"text"} :
        inbox' = [inbox EXCEPT ![c] = Append(@, message)]
  /\ UNCHANGED <<serverVars, process, client, backlog, failed, sendVars>>

(* A client that leaves answers unread resets the connection.              *)
ClientCloses(c) == /\ process = "up" /\ client[c] = "open" /\ c \notin blocked
                   /\ client' = [client EXCEPT ![c] = "closed"]
                   /\ UNCHANGED <<serverVars, process, sent, backlog, failed, inbox, sendVars>>

ClientResets(c) == /\ process = "up" /\ client[c] \in {"open", "closed"}
                   /\ client' = [client EXCEPT ![c] = "reset"]
                   /\ failed' = [failed EXCEPT ![c] = TRUE]
                   /\ UNCHANGED <<serverVars, process, sent, backlog, inbox, sendVars>>

(* A client reads what it has been sent; a send() to it goes on.           *)
ClientReads(c) == /\ process = "up" /\ c \in blocked /\ client[c] = "open"
                  /\ blocked' = blocked \ {c}
                  /\ UNCHANGED <<serverVars, process, clientVars, backlog, failed, inbox, hand, echoed>>

(* What is done with a readable descriptor, and the end of a send().       *)
Handle(fd) == \/ Receive(fd) \/ ReceiveRequest(fd) \/ RecvError(fd)
              \/ RecvEnd(fd) \/ RecvCloses(fd) \/ ThreadEnds(fd)
              \/ InetExits(fd) \/ HttpSpins(fd)
SendReturns(fd) == Sent(fd) \/ SendFails(fd) \/ SendKills(fd)

Next == \/ Startup \/ Wait \/ Accept \/ AcceptFails
        \/ \E fd \in Fds : Handle(fd) \/ SendReturns(fd) \/ SendBlocks(fd)
        \/ \E c \in Clients : \/ Connect(c) \/ ClientSends(c) \/ ClientReads(c)
                              \/ ClientCloses(c) \/ ClientResets(c)

(* The threads run; clients do what they like.  An answer is finite: a     *)
(* send() that is let go on again and again comes to its end.              *)
Fairness == /\ WF_vars(Wait \/ Accept \/ AcceptFails)
            /\ \A fd \in Fds : WF_vars(Handle(fd)) /\ SF_vars(SendReturns(fd))

Spec == Init /\ [][Next]_vars
FairSpec == Spec /\ Fairness
-----------------------------------------------------------------------------
(* Types; every message is answered, is being answered or waits to be     *)
(* received, but for those http_server answers together or not at all; a   *)
(* send() waits for a client only while there is something to send it.     *)
TypeOK == /\ kind \in Kinds
          /\ todo \subseteq Fds \cup {Listen} /\ watched \subseteq Fds
          /\ conn \in [Fds -> Clients \cup {None}] /\ backlog \in Seq(Clients)
          /\ client \in [Clients -> {"new", "open", "closed", "reset"}]
          /\ failed \in [Clients -> BOOLEAN]
          /\ blocked \subseteq {c \in Clients : hand[c] > 0}
          /\ \A c \in Clients :
               LET n == echoed[c] + hand[c] + Len(inbox[c])
               IN  IF kind = "http" THEN n <= sent[c] ELSE n = sent[c]

(* What is watched is open, and every connection is watched until its end  *)
(* has been received; an event left in a turn is for a descriptor that is  *)
(* still watched, not for one closed and given out again in that turn; no  *)
(* two descriptors are one client's.                                       *)
ConnectionsWatched ==
  /\ \A fd \in watched : conn[fd] # None
  /\ \A fd \in Fds \ watched :
       conn[fd] # None => /\ kind = "select"
                          /\ client[conn[fd]] \in {"closed", "reset"} /\ inbox[conn[fd]] = <<>>
  /\ todo \ {Listen} \subseteq watched
  /\ \A fd, other \in Fds : conn[fd] = conn[other] => fd = other \/ conn[fd] = None

(* A client whose server is not held up for ever in a send() is not        *)
(* neglected for ever: it is accepted if descriptors become free again and *)
(* again, what it sends is received and answered and, if it is not         *)
(* select_server or http_server, its descriptor is given back when it has  *)
(* left.  A client that does not read its answers holds up its own thread, *)
(* and with one thread everybody.                                          *)
HeldUp(c)    == \E d \in blocked : kind \in Turns \/ d = c
Pending(c)   == \E i \in DOMAIN backlog : backlog[i] = c
Accepted(c)  == \E fd \in Fds : conn[fd] = c
Behind(c)    == /\ Accepted(c)
                /\ \/ inbox[c] # <<>> \/ hand[c] > 0
                   \/ client[c] # "open" /\ kind \notin {"select", "http"}
Neglected(c) == process = "up" /\ (Pending(c) \/ Behind(c))
ClientsServed ==
  \A c \in Clients :
    []<>(~HeldUp(c)) /\ []<>(~Pending(c) \/ Free # {}) => (Neglected(c) ~> ~Neglected(c))
=============================================================================
