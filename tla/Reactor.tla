------------------------------- MODULE Reactor -------------------------------
(***************************************************************************)
(* Reactor/: one thread, an edge-triggered epoll, a listener (Listen.hpp)  *)
(* and connections whose events handle.hpp serves.  Between two system     *)
(* calls of the server the kernel and the peers go on: data, FIN and RST   *)
(* arrive and send buffers drain, so each system call is a step.           *)
(*                                                                         *)
(* What clients send are the pieces of HttpService; a recv() returns any   *)
(* number of those that have arrived, of which only those before a zero    *)
(* byte are kept; an answer has AnswerSize units, and                      *)
(* the kernel takes as many as the send buffer has room for.               *)
(* EINTR does not occur: the program installs no signal handler.           *)
(*                                                                         *)
(* Edges: epoll puts a descriptor on its ready list when data, FIN or RST  *)
(* arrives, when a buffer that refused a send has room again, and when     *)
(* EPOLL_CTL_ADD or _MOD finds an event of the new mask pending.           *)
(* epoll_wait takes the list and reports what is pending at that moment;   *)
(* with at most 64 descriptors (the array of epoll.hpp) it takes it whole. *)
(***************************************************************************)
EXTENDS HttpService, FiniteSets

CONSTANTS Fds,         \* descriptors the process can have besides Listener
          Listener,    \* _listenfd
          AnswerSize,  \* units in an answer
          SendBuffer,  \* units a socket's send buffer holds
          MaxRequests, \* bound: requests all clients send
          MaxClients   \* bound: clients that connect

ASSUME SetsAssumption == IsFiniteSet(Fds) /\ Listener \notin Fds
ASSUME SizesAssumption == /\ AnswerSize \in Nat \ {0} /\ SendBuffer \in Nat \ {0}
                          /\ MaxRequests \in Nat /\ MaxClients \in Nat

VARIABLES
  connects,   \* _connects without the listener: its keys
  mask,       \* per fd: the events in epoll, "r" or "rw"
  inbuff,     \* per fd: Connect::_in, pieces
  outbuff,    \* per fd: units in Connect::_out
  batch,      \* events of this epoll_wait not yet handled
  at,         \* what the thread is doing, see below
  process,    \* "starting", "running", or how it ended
  \* the kernel and the peers
  ready,      \* epoll's ready list
  backlog,    \* connections to accept
  clients,    \* clients that have connected so far
  peer,       \* per fd: "none", "open", "fin", "rst"
  arrived,    \* per fd: pieces to be received
  unsent,     \* per fd: what the client has yet to send of its request
  asked,      \* per fd, history: the requests the client has begun to send
  requests,   \* requests all clients have begun to send
  room,       \* per fd: free units of the send buffer
  refused,    \* per fd: the last send found the buffer full
  answered    \* per fd, history: units the kernel has taken

connVars == <<connects, mask, inbuff, outbuff>>
loopVars == <<batch, at, process>>
peerVars == <<peer, arrived, unsent, asked, requests>>
sendVars == <<room, refused, answered>>
listenVars == <<backlog, clients>>
vars == <<connVars, loopVars, ready, listenVars, peerVars, sendVars>>

(* at.step: "wait" (in Dispatcher), "in" and "out" (the two tests of       *)
(* looponce), "accept", "recv", "send", and "answer": send called in recv; *)
(* "full" and "answerfull" when a send has found no room.                  *)
At(step, event) == at' = [step |-> step, event |-> event]
NoEvent == [fd |-> Listener, in |-> FALSE, out |-> FALSE]
Idle == [step |-> "wait", event |-> NoEvent]

Init == /\ connects = {}
        /\ mask = [f \in Fds |-> "r"]
        /\ inbuff = [f \in Fds |-> <<>>] /\ outbuff = [f \in Fds |-> 0]
        /\ batch = {} /\ at = Idle /\ process = "starting"
        /\ ready = {} /\ backlog = 0 /\ clients = 0
        /\ peer = [f \in Fds |-> "none"]
        /\ arrived = [f \in Fds |-> <<>>] /\ unsent = [f \in Fds |-> <<>>]
        /\ asked = [f \in Fds |-> <<>>] /\ requests = 0
        /\ room = [f \in Fds |-> SendBuffer]
        /\ refused = [f \in Fds |-> FALSE]
        /\ answered = [f \in Fds |-> 0]

(* What epoll_wait reports of a descriptor.  RST comes with EPOLLHUP and   *)
(* EPOLLERR, which looponce turns into EPOLLIN | EPOLLOUT.                 *)
Readable(f) == IF f = Listener THEN backlog > 0
               ELSE arrived[f] # <<>> \/ peer[f] \in {"fin", "rst"}
Writable(f) == f # Listener /\ (peer[f] = "rst" \/ (mask[f] = "rw" /\ room[f] > 0))
EventOf(f) == [fd |-> f, in |-> Readable(f), out |-> Writable(f)]
-----------------------------------------------------------------------------
(* main: Listen creates, binds and listens, epoll is created, _listenfd    *)
(* inserted; a call that fails ends the process.                           *)
Startup == /\ process = "starting"
           /\ process' \in {"running", "exited"}
           /\ UNCHANGED <<connVars, batch, at, ready, listenVars, peerVars, sendVars>>

(* _e.wait(timeout)                                                        *)
EpollWait == /\ at.step = "wait" /\ batch = {} /\ ready # {}
             /\ batch' = {EventOf(f) : f \in {g \in ready : Readable(g) \/ Writable(g)}}
             /\ ready' = {}
             /\ UNCHANGED <<connVars, at, process, listenVars, peerVars, sendVars>>

(* The next event of arr, in whatever order epoll_wait has put them.       *)
NextEvent(e) == /\ at.step = "wait" /\ e \in batch
                /\ batch' = batch \ {e}
                /\ At("in", e)
                /\ UNCHANGED <<connVars, process, ready, listenVars, peerVars, sendVars>>

(* if((ev & EPOLLIN) && count(fd)) recv                                    *)
TestIn == /\ at.step = "in"
          /\ LET e == at.event
             IN  CASE e.in /\ e.fd = Listener    -> At("accept", e)
                   [] e.in /\ e.fd \in connects  -> At("recv", e)
                   [] OTHER                      -> At("out", e)
          /\ UNCHANGED <<connVars, batch, process, ready, listenVars, peerVars, sendVars>>

(* if((ev & EPOLLOUT) && count(fd)) send                                   *)
TestOut == /\ at.step = "out"
           /\ LET e == at.event
              IN  IF e.out /\ e.fd \in connects THEN At("send", e) ELSE at' = Idle
           /\ UNCHANGED <<connVars, batch, process, ready, listenVars, peerVars, sendVars>>
-----------------------------------------------------------------------------
(* Reactor::insert: a new Connect, registered with "r".                    *)
Insert(f) == /\ connects' = connects \cup {f}
             /\ mask' = [mask EXCEPT ![f] = "r"]
             /\ inbuff' = [inbuff EXCEPT ![f] = <<>>]
             /\ outbuff' = [outbuff EXCEPT ![f] = 0]

(* Listen::accept.  What its client has sent before is sent right after.   *)
Accept(f) == /\ at.step = "accept" /\ backlog > 0
             /\ f \in Fds /\ peer[f] = "none"
             /\ backlog' = backlog - 1
             /\ Insert(f)
             /\ peer' = [peer EXCEPT ![f] = "open"]
             /\ unsent' = [unsent EXCEPT ![f] = <<>>]
             /\ asked' = [asked EXCEPT ![f] = <<>>]
             /\ room' = [room EXCEPT ![f] = SendBuffer]
             /\ refused' = [refused EXCEPT ![f] = FALSE]
             /\ answered' = [answered EXCEPT ![f] = 0]
             /\ UNCHANGED <<loopVars, ready, clients, arrived, requests>>

(* EAGAIN, or EMFILE: all descriptors are in use.  Both end the loop.      *)
AcceptEnds == /\ at.step = "accept"
              /\ backlog = 0 \/ \A f \in Fds : peer[f] # "none"
              /\ At("out", at.event)
              /\ UNCHANGED <<connVars, batch, process, ready, listenVars, peerVars, sendVars>>
-----------------------------------------------------------------------------
(* Mutant of Del: closed, but not erased from _connects.                   *)
DelKeepsEntry(f) == /\ ready' = ready \ {f}
                    /\ peer' = [peer EXCEPT ![f] = "none"]
                    /\ arrived' = [arrived EXCEPT ![f] = <<>>]
                    /\ UNCHANGED <<connects, mask, inbuff, outbuff, unsent, asked, requests>>

(* Reactor::del: out of epoll, closed, deleted.                            *)
Del(f) == /\ connects' = connects \ {f}
          /\ ready' = ready \ {f}
          /\ peer' = [peer EXCEPT ![f] = "none"]
          /\ arrived' = [arrived EXCEPT ![f] = <<>>]
          /\ UNCHANGED <<mask, inbuff, outbuff, unsent, asked, requests>>

(* con->inbuff() += buff, of n pieces received: buff is a char array, the  *)
(* string that is appended ends at the first zero byte.                    *)
Appended(f, n) == LET buff == SubSeq(arrived[f], 1, n)
                      zero == SelectInSeq(buff, LAMBDA p : p.kind = "zero")
                  IN  IF zero = 0 THEN buff ELSE SubSeq(buff, 1, zero - 1)

(* http_service::service of what is in the buffer then.                    *)
Served(f, n) == service[inbuff[f] \o Appended(f, n)]

(* Mutant of Recv: one recv() per event.                                   *)
RecvOnce(f, n) ==
  /\ at.step = "recv" /\ at.event.fd = f
  /\ n \in 1 .. Len(arrived[f])
  /\ Served(f, n).end = "fine"
  /\ arrived' = [arrived EXCEPT ![f] = SubSeq(@, n + 1, Len(@))]
  /\ inbuff' = [inbuff EXCEPT ![f] = Served(f, n).in]
  /\ outbuff' = [outbuff EXCEPT ![f] = @ + AnswerSize * Served(f, n).answers]
  /\ At(IF outbuff'[f] > 0 THEN "send" ELSE "out", at.event)
  /\ UNCHANGED <<connects, mask, batch, process, ready, listenVars, peer, unsent, asked,
                 requests, sendVars>>

(* recv() > 0: every complete request is taken off the input and answered; *)
(* then, if there is output, con->send(con).                               *)
Recv(f, n) ==
  /\ at.step = "recv" /\ at.event.fd = f
  /\ n \in 1 .. Len(arrived[f])
  /\ Served(f, n).end = "fine"
  /\ arrived' = [arrived EXCEPT ![f] = SubSeq(@, n + 1, Len(@))]
  /\ inbuff' = [inbuff EXCEPT ![f] = Served(f, n).in]
  /\ outbuff' = [outbuff EXCEPT ![f] = @ + AnswerSize * Served(f, n).answers]
  /\ At(IF outbuff'[f] > 0 THEN "answer" ELSE "recv", at.event)
  /\ UNCHANGED <<connects, mask, batch, process, ready, listenVars, peer, unsent, asked,
                 requests, sendVars>>

(* A request on which service() throws, recurses or loops for ever, or is  *)
(* undefined.                                                              *)
RecvFatal(f, n) ==
  /\ at.step = "recv" /\ at.event.fd = f
  /\ n \in 1 .. Len(arrived[f])
  /\ Served(f, n).end # "fine"
  /\ process' = Served(f, n).end
  /\ UNCHANGED <<connVars, batch, at, ready, listenVars, peerVars, sendVars>>

(* Mutant of RecvAgain: EAGAIN is taken for an error.                      *)
RecvAgainIsError(f) == /\ at.step = "recv" /\ at.event.fd = f
                       /\ arrived[f] = <<>> /\ peer[f] = "open"
                       /\ Del(f)
                       /\ At("out", at.event)
                       /\ UNCHANGED <<batch, process, listenVars, sendVars>>

(* recv() < 0 with EAGAIN: back to looponce.                               *)
RecvAgain(f) == /\ at.step = "recv" /\ at.event.fd = f
                /\ arrived[f] = <<>> /\ peer[f] = "open"
                /\ At("out", at.event)
                /\ UNCHANGED <<connVars, batch, process, ready, listenVars, peerVars, sendVars>>

(* recv() = 0, or another error: excepter.                                 *)
RecvError(f) == /\ at.step = "recv" /\ at.event.fd = f
                /\ arrived[f] = <<>> /\ peer[f] \in {"fin", "rst"}
                /\ Del(f)
                /\ At("out", at.event)
                /\ UNCHANGED <<batch, process, listenVars, sendVars>>

(* Where _send returns to: the loop of _recv, or looponce.                 *)
Return == IF at.step \in {"answer", "answerfull"} THEN At("recv", at.event) ELSE at' = Idle

(* Mutant of Send: returns after one send(), whatever is left.             *)
SendOnce(f, n) ==
  /\ at.step \in {"send", "answer"} /\ at.event.fd = f
  /\ peer[f] # "rst"
  /\ n \in 1 .. outbuff[f] /\ n <= room[f]
  /\ outbuff' = [outbuff EXCEPT ![f] = @ - n]
  /\ room' = [room EXCEPT ![f] = @ - n]
  /\ answered' = [answered EXCEPT ![f] = @ + n]
  /\ Return
  /\ UNCHANGED <<connects, mask, inbuff, batch, process, ready, listenVars, peerVars, refused>>

(* send() > 0: erased from outbuff; return when that is empty.  The test   *)
(* con->events() & EPOLLOUT is of the event the Connect was built with,    *)
(* "r", so updata_r is never called.                                       *)
Send(f, n) ==
  /\ at.step \in {"send", "answer"} /\ at.event.fd = f
  /\ peer[f] # "rst"
  /\ n \in 1 .. outbuff[f] /\ n <= room[f]
  /\ outbuff' = [outbuff EXCEPT ![f] = @ - n]
  /\ room' = [room EXCEPT ![f] = @ - n]
  /\ answered' = [answered EXCEPT ![f] = @ + n]
  /\ IF outbuff'[f] = 0 THEN Return ELSE UNCHANGED at
  /\ UNCHANGED <<connects, mask, inbuff, batch, process, ready, listenVars, peerVars, refused>>

(* send() < 0 with EAGAIN.                                                 *)
SendAgain(f) ==
  /\ at.step \in {"send", "answer"} /\ at.event.fd = f
  /\ peer[f] # "rst" /\ outbuff[f] > 0 /\ room[f] = 0
  /\ refused' = [refused EXCEPT ![f] = TRUE]
  /\ At(IF at.step = "answer" THEN "answerfull" ELSE "full", at.event)
  /\ UNCHANGED <<connVars, batch, process, ready, listenVars, peerVars, room, answered>>

(* updata_rw, return: EPOLL_CTL_MOD lists f if something is pending.       *)
UpdataRw(f) ==
  /\ at.step \in {"full", "answerfull"} /\ at.event.fd = f
  /\ mask' = [mask EXCEPT ![f] = "rw"]
  /\ ready' = IF Readable(f) \/ room[f] > 0 THEN ready \cup {f} ELSE ready
  /\ Return
  /\ UNCHANGED <<connects, inbuff, outbuff, batch, process, listenVars, peerVars, sendVars>>

(* send() of an empty outbuff returns 0 with errno 0, send() to a reset    *)
(* connection fails: excepter.  In "answer" _recv goes on with the deleted *)
(* Connect.                                                                *)
SendError(f) ==
  /\ at.step \in {"send", "answer"} /\ at.event.fd = f
  /\ outbuff[f] = 0 \/ peer[f] = "rst"
  /\ Del(f)
  /\ process' = IF at.step = "answer" THEN "undefined" ELSE process
  /\ at' = Idle
  /\ UNCHANGED <<batch, listenVars, sendVars>>

(* send() after a reset raises SIGPIPE, which nobody ignores, when the     *)
(* reset had been reported already or the peer had closed before.          *)
SigPipe(f) == /\ at.step \in {"send", "answer"} /\ at.event.fd = f
              /\ outbuff[f] > 0 /\ peer[f] = "rst"
              /\ process' = "killed"
              /\ UNCHANGED <<connVars, batch, at, ready, listenVars, peerVars, sendVars>>

Server == \/ EpollWait \/ (\E e \in batch : NextEvent(e)) \/ TestIn \/ TestOut
          \/ (\E f \in Fds : Accept(f)) \/ AcceptEnds
          \/ \E f \in Fds : \/ \E n \in 1 .. Len(arrived[f]) : Recv(f, n) \/ RecvFatal(f, n)
                            \/ RecvAgain(f) \/ RecvError(f)
                            \/ \E n \in 1 .. SendBuffer : Send(f, n)
                            \/ SendAgain(f) \/ UpdataRw(f) \/ SendError(f) \/ SigPipe(f)
-----------------------------------------------------------------------------
Connect == /\ clients < MaxClients
           /\ clients' = clients + 1
           /\ backlog' = backlog + 1
           /\ ready' = ready \cup {Listener}
           /\ UNCHANGED <<connVars, loopVars, peerVars, sendVars>>

ClientAsks(f, r) == /\ peer[f] = "open" /\ unsent[f] = <<>> /\ requests < MaxRequests
                    /\ unsent' = [unsent EXCEPT ![f] = Wire(r)]
                    /\ asked' = [asked EXCEPT ![f] = Append(@, r)]
                    /\ requests' = requests + 1
                    /\ UNCHANGED <<connVars, loopVars, ready, listenVars, peer, arrived,
                                   sendVars>>

ClientSends(f) == /\ peer[f] = "open" /\ unsent[f] # <<>>
                  /\ unsent' = [unsent EXCEPT ![f] = Tail(@)]
                  /\ arrived' = [arrived EXCEPT ![f] = Append(@, Head(unsent[f]))]
                  /\ ready' = ready \cup {f}
                  /\ UNCHANGED <<connVars, loopVars, listenVars, peer, asked, requests,
                                 sendVars>>

ClientLeaves(f, how) == /\ peer[f] \in {"open", "fin"} /\ peer[f] # how
                        /\ peer' = [peer EXCEPT ![f] = how]
                        /\ ready' = ready \cup {f}
                        /\ UNCHANGED <<connVars, loopVars, listenVars, arrived, unsent, asked,
                                       requests, sendVars>>

(* The client reads: room in the send buffer; an edge if a send had failed.*)
ClientReads(f) == /\ peer[f] \in {"open", "fin"} /\ room[f] < SendBuffer
                  /\ room' = [room EXCEPT ![f] = @ + 1]
                  /\ refused' = [refused EXCEPT ![f] = FALSE]
                  /\ ready' = IF refused[f] /\ mask[f] = "rw" THEN ready \cup {f} ELSE ready
                  /\ UNCHANGED <<connVars, loopVars, listenVars, peerVars, answered>>

Environment == \/ Connect
               \/ \E f \in Fds : \/ ClientSends(f) \/ ClientReads(f)
                                 \/ \E r \in Requests : ClientAsks(f, r)
                                 \/ \E how \in {"fin", "rst"} : ClientLeaves(f, how)

Next == Startup \/ (process = "running" /\ (Server \/ Environment))

(* The event loop never stops, and clients read what they are sent.        *)
Fairness == /\ WF_vars(process = "running" /\ Server)
            /\ \A f \in Fds : WF_vars(process = "running" /\ ClientReads(f))

Spec == Init /\ [][Next]_vars
FairSpec == Spec /\ Fairness
-----------------------------------------------------------------------------
Serving(f) == at.step # "wait" /\ at.event.fd = f
Listed(f, kind) == f \in ready \/ \E e \in batch : e.fd = f /\ e[kind]

(* Due to a connection is an answer for every GET that has reached it in   *)
(* one piece and that its client has sent whole.  Where the line break     *)
(* behind a body is missing, the next request stands in for it: it makes   *)
(* the one before it whole and loses its method.  Nothing is due from the  *)
(* first request on that is not plain: behind a zero byte the rest of the  *)
(* portion is lost, and a negative length cuts into the head, is answered  *)
(* for ever or waits for ever.                                             *)
Plain(r) == r.length \in Nat \cup {NaN} /\ r.zero \notin 1 .. BodyLength(r)
PlainTo(reqs, i) == \A j \in 1 .. i : Plain(reqs[j])
Answerable(reqs, i) == /\ reqs[i].method = "GET" /\ PlainTo(reqs, i)
                       /\ i > 1 => ~Unclosed(reqs[i - 1])
Whole(f, i) == LET last == Len(asked[f])
               IN  IF Unclosed(asked[f][i])
                   THEN \/ i + 1 < last
                        \/ i + 1 = last /\ Len(unsent[f]) < Len(Wire(asked[f][last]))
                   ELSE i < last \/ unsent[f] = <<>>
Due(f) == AnswerSize * Cardinality({i \in DOMAIN asked[f] : Answerable(asked[f], i) /\ Whole(f, i)})

(* Types; what is registered is what is open.                              *)
TypeOK == /\ connects = {f \in Fds : peer[f] # "none"}
          /\ mask \in [Fds -> {"r", "rw"}]
          /\ \A f \in Fds : {inbuff[f], arrived[f], unsent[f]} \subseteq Seq(Pieces)
          /\ outbuff \in [Fds -> Nat]
          /\ ready \subseteq Fds \cup {Listener}
          /\ \A e, d \in batch : e.fd = d.fd => e = d
          /\ room \in [Fds -> 0 .. SendBuffer]

(* Requests and answers stay in step however the stream is cut: what has   *)
(* been answered or waits in outbuff is never more than what is due, and   *)
(* is just that once everything that arrived has been received; stated for *)
(* connections whose requests are plain.                                   *)
AnswersInStep ==
  \A f \in {g \in connects : PlainTo(asked[g], Len(asked[g]))} :
    LET given == answered[f] + outbuff[f]
    IN  given <= Due(f) /\ (arrived[f] = <<>> => given = Due(f))

(* No edge is lost.  Of a connection that is not being served: pieces, FIN *)
(* or RST that wait in the kernel are on the ready list or in the batch;   *)
(* output that waits in outbuff waits for a full send buffer, registered   *)
(* with "rw", or its event is listed.                                      *)
NoEdgeLost ==
  process = "running" =>
    \A f \in connects : ~Serving(f) =>
      /\ Readable(f) => Listed(f, "in")
      /\ outbuff[f] > 0 /\ peer[f] # "rst" =>
           mask[f] = "rw" /\ (refused[f] \/ Listed(f, "out"))

(* The server closes a connection only when the peer has left, or when the *)
(* connection's send buffer had been full once: from then on it stays      *)
(* registered for EPOLLOUT, and an event without output ends it.           *)
ClosedForAReason ==
  [][\A f \in connects \ connects' : peer[f] \in {"fin", "rst"} \/ mask[f] = "rw"]_vars

(* Every request of a connection that stays open is answered in full, if   *)
(* an answer is due to it.                                                 *)
Owed(f, n)  == f \in connects /\ Due(f) >= n * AnswerSize
Given(f, n) == answered[f] >= n * AnswerSize \/ peer[f] # "open" \/ process # "running"
AnswersSent == \A f \in Fds : \A n \in 1 .. MaxRequests : Owed(f, n) ~> Given(f, n)
=============================================================================
