------------------------------- MODULE TcpCalc -------------------------------
(***************************************************************************)
(* Tcp_serialize_unserialize/: a calculator over TCP.  A request is        *)
(* length, CRLF, JSON, CRLF (Encode); the server's Recv collects bytes     *)
(* until Decode finds one, and what it had collected behind that one is    *)
(* gone when Recv returns.  An answer is bare JSON, and the client takes   *)
(* whatever its one recv returns for the answer.                           *)
(*                                                                         *)
(* A stream is a sequence of pieces <<request, place>>: a request has the  *)
(* pieces 1 (length and CRLF), 2 (JSON), 3 (CRLF), an answer 1 and 2.      *)
(* recv may cut a stream after any piece.                                  *)
(***************************************************************************)
EXTENDS Integers, Sequences

CONSTANTS Clients,    \* client processes
          MaxRequests, \* bound: requests one client sends
          MaxDescriptors \* bound: descriptors the server has left when it is up

ASSUME MaxRequestsAssumption == MaxRequests \in Nat
ASSUME MaxDescriptorsAssumption == MaxDescriptors \in Nat

VARIABLES client,   \* "new", "sending", "waiting" (in recv), "left"
          sent,     \* requests the client has sent
          got,      \* what its last recv returned
          toServer, \* bytes on their way to the server, not yet received
          toClient, \* and back
          thread,   \* the connection: "none", in the "backlog", or its _start is
                    \* "receiving", "replying", "ended"
          restr,    \* Recv's local restr
          job,      \* the request _start works on; 0 for what was never sent
          refused,  \* the client's end has answered the server with a reset
          short,    \* the client's recv has once returned less than the answer
          lost,     \* requests Recv has discarded
          process,  \* the server: "starting", "up", "exited", "dead"
          free      \* descriptors it can still open

clientVars == <<client, sent, got, short>>
streamVars == <<toServer, toClient, refused>>
threadVars == <<thread, restr, job, lost>>
vars == <<clientVars, streamVars, threadVars, process, free>>

Pieces(r, n) == [i \in 1 .. n |-> <<r, i>>]
Request(r)   == Pieces(r, 3)
Answer(r)    == Pieces(r, 2)

Init == /\ client = [c \in Clients |-> "new"] /\ sent = [c \in Clients |-> 0]
        /\ got = [c \in Clients |-> <<>>] /\ short = [c \in Clients |-> FALSE]
        /\ toServer = [c \in Clients |-> <<>>] /\ toClient = [c \in Clients |-> <<>>]
        /\ refused = [c \in Clients |-> FALSE]
        /\ thread = [c \in Clients |-> "none"] /\ restr = [c \in Clients |-> <<>>]
        /\ job = [c \in Clients |-> 0] /\ lost = [c \in Clients |-> {}]
        /\ process = "starting" /\ free \in 0 .. MaxDescriptors

(* init: Tcp_server_init; a socket, bind or listen that fails ends it.     *)
Startup == /\ process = "starting"
           /\ process' \in {"up", "exited"}
           /\ UNCHANGED <<clientVars, streamVars, threadVars, free>>
-----------------------------------------------------------------------------
(* init: Tcp_client_init.                                                  *)
Connect(c) == /\ client[c] = "new" /\ process = "up"
              /\ client' = [client EXCEPT ![c] = "sending"]
              /\ thread' = [thread EXCEPT ![c] = "backlog"]
              /\ UNCHANGED <<sent, got, short, streamVars, restr, job, lost, process, free>>

(* socket_create fails: exit; or connect does, which main does not look    *)
(* at: the first send, on a socket that is not connected, raises SIGPIPE.  *)
ConnectFails(c) == /\ client[c] = "new"
                   /\ client' = [client EXCEPT ![c] = "left"]
                   /\ UNCHANGED <<sent, got, short, streamVars, threadVars, process, free>>

(* Send(str, Encode).                                                      *)
ClientSend(c) ==
  /\ process = "up" /\ client[c] = "sending" /\ sent[c] < MaxRequests
  /\ client' = [client EXCEPT ![c] = "waiting"]
  /\ sent' = [sent EXCEPT ![c] = @ + 1]
  /\ toServer' = [toServer EXCEPT ![c] = @ \o Request(sent'[c])]
  /\ UNCHANGED <<got, short, toClient, refused, threadVars, process, free>>

(* Recv(re, Decode): one recv; Decode's result is not used.                *)
ClientRecv(c) ==
  /\ client[c] = "waiting"
  /\ \E n \in 1 .. Len(toClient[c]) :
       /\ got' = [got EXCEPT ![c] = SubSeq(toClient[c], 1, n)]
       /\ toClient' = [toClient EXCEPT ![c] = SubSeq(@, n + 1, Len(@))]
       /\ short' = [short EXCEPT ![c] = @ \/ got'[c][n][2] # 2]
  /\ client' = [client EXCEPT ![c] = "sending"]
  /\ UNCHANGED <<sent, toServer, refused, threadVars, process, free>>

(* The client is ended, from outside or by sending to a dead server;       *)
(* unread answers make that a reset.                                       *)
ClientLeaves(c) ==
  /\ client[c] \in {"sending", "waiting"}
  /\ client' = [client EXCEPT ![c] = "left"]
  /\ refused' = [refused EXCEPT ![c] = @ \/ toClient[c] # <<>>]
  /\ toClient' = [toClient EXCEPT ![c] = <<>>]
  /\ UNCHANGED <<sent, got, short, toServer, threadVars, process, free>>
-----------------------------------------------------------------------------
(* Mutant of Accept: one connection at a time.                             *)
AcceptOne(c) == /\ process = "up" /\ thread[c] = "backlog"
                /\ \A d \in Clients : thread[d] \in {"none", "backlog", "ended"}
                /\ free > 0 /\ free' = free - 1
                /\ thread' = [thread EXCEPT ![c] = "receiving"]
                /\ UNCHANGED <<clientVars, streamVars, restr, job, lost, process>>

(* socket_accept, and a detached thread.  Nobody closes a descriptor:      *)
(* once none is free accept fails, socket_accept returns nullptr, start    *)
(* goes round its loop and the client stays in the backlog.                *)
Accept(c) == /\ process = "up" /\ thread[c] = "backlog"
             /\ free > 0 /\ free' = free - 1
             /\ thread' = [thread EXCEPT ![c] = "receiving"]
             /\ UNCHANGED <<clientVars, streamVars, restr, job, lost, process>>

(* Recv has read n more pieces; restr is now text.                         *)
Reads(c, n, text) ==
  /\ process = "up" /\ thread[c] = "receiving"
  /\ text = restr[c] \o SubSeq(toServer[c], 1, n)
  /\ toServer' = [toServer EXCEPT ![c] = SubSeq(@, n + 1, Len(@))]

(* Decode on text that begins with a piece 1: what is found is the first   *)
(* request there.  total counts the line break but the body is cut out at  *)
(* n + len.size(), which is the JSON's place when the length has two       *)
(* digits: the JSON of a client's request always has 22 to 44 bytes.       *)
Separated(text) == \E i \in DOMAIN text : text[i][2] # 2     \* find("\r\n")
Whole(text)     == Len(text) >= 3 /\ text[1][2] = 1
Garbled(text)   == Separated(text) /\ text[1][2] # 1

RequestsIn(text) == {text[i][1] : i \in DOMAIN text}

(* Mutant of RecvPart: restr=peer.                                         *)
RecvPartForgets(c) ==
  \E n \in 1 .. Len(toServer[c]) :
    LET text == restr[c] \o SubSeq(toServer[c], 1, n)
    IN  /\ Reads(c, n, text) /\ ~Whole(text)
        /\ restr' = [restr EXCEPT ![c] = <<>>]
        /\ UNCHANGED <<clientVars, toClient, refused, thread, job, lost, process, free>>

(* Decode returns "": the loop goes on.  Garbled text, too, can look too   *)
(* short for the length it seems to begin with.                            *)
RecvPart(c) ==
  \E n \in 1 .. Len(toServer[c]) :
    LET text == restr[c] \o SubSeq(toServer[c], 1, n)
    IN  /\ Reads(c, n, text) /\ ~Whole(text)
        /\ restr' = [restr EXCEPT ![c] = text]
        /\ UNCHANGED <<clientVars, toClient, refused, thread, job, lost, process, free>>

(* Mutant of RecvMessage: restr outlives Recv, Decode does not erase.      *)
RecvKeepsText(c) ==
  \E n \in 1 .. Len(toServer[c]) :
    LET text == restr[c] \o SubSeq(toServer[c], 1, n)
    IN  /\ Reads(c, n, text) /\ Whole(text)
        /\ thread' = [thread EXCEPT ![c] = "replying"]
        /\ job' = [job EXCEPT ![c] = text[1][1]]
        /\ restr' = [restr EXCEPT ![c] = text]
        /\ UNCHANGED <<clientVars, toClient, refused, lost, process, free>>

(* Decode finds a request: Recv returns, and restr with it.                *)
RecvMessage(c) ==
  \E n \in 1 .. Len(toServer[c]) :
    LET text == restr[c] \o SubSeq(toServer[c], 1, n)
    IN  /\ Reads(c, n, text) /\ Whole(text)
        /\ thread' = [thread EXCEPT ![c] = "replying"]
        /\ job' = [job EXCEPT ![c] = text[1][1]]
        /\ restr' = [restr EXCEPT ![c] = <<>>]
        /\ lost' = [lost EXCEPT ![c] = @ \cup RequestsIn(SubSeq(text, 4, Len(text)))]
        /\ UNCHANGED <<clientVars, toClient, refused, process, free>>

(* Decode takes for a length what is none: stoi throws, which ends the     *)
(* process, or it finds digits and Decode cuts out some other text.        *)
RecvGarbled(c) ==
  \E n \in 1 .. Len(toServer[c]) :
    LET text == restr[c] \o SubSeq(toServer[c], 1, n)
    IN  /\ Reads(c, n, text) /\ Garbled(text)
        /\ \/ process' = "dead" /\ UNCHANGED threadVars
           \/ /\ thread' = [thread EXCEPT ![c] = "replying"]
              /\ job' = [job EXCEPT ![c] = 0]
              /\ restr' = [restr EXCEPT ![c] = <<>>]
              /\ lost' = [lost EXCEPT ![c] = @ \cup RequestsIn(text)]
              /\ UNCHANGED process
        /\ UNCHANGED <<clientVars, toClient, refused, free>>

(* recv returns 0 (after -1, which is read over, if there was a reset):    *)
(* Recv returns 0 and the thread ends, but not its descriptor.             *)
RecvEnd(c) ==
  /\ process = "up" /\ thread[c] = "receiving"
  /\ client[c] = "left" /\ toServer[c] = <<>>
  /\ thread' = [thread EXCEPT ![c] = "ended"]
  /\ restr' = [restr EXCEPT ![c] = <<>>]
  /\ UNCHANGED <<clientVars, streamVars, job, lost, process, free>>

(* Send(p, rstr, Encode): the bare JSON, as Encode's result is not used.   *)
Reply(c) ==
  /\ process = "up" /\ thread[c] = "replying"
  /\ thread' = [thread EXCEPT ![c] = "receiving"]
  /\ IF client[c] = "left"
     THEN /\ refused' = [refused EXCEPT ![c] = TRUE] /\ UNCHANGED toClient
     ELSE /\ toClient' = [toClient EXCEPT ![c] = @ \o Answer(job[c])]
          /\ UNCHANGED refused
  /\ UNCHANGED <<clientVars, toServer, restr, job, lost, process, free>>

(* ... or SIGPIPE, once the client's end has answered with a reset.        *)
ReplyKills(c) == /\ process = "up" /\ thread[c] = "replying" /\ refused[c]
                 /\ process' = "dead"
                 /\ UNCHANGED <<clientVars, streamVars, threadVars, free>>

Serve(c) == \/ Accept(c) \/ RecvPart(c) \/ RecvMessage(c) \/ RecvGarbled(c)
            \/ RecvEnd(c) \/ Reply(c) \/ ReplyKills(c)

Client(c) == \/ Connect(c) \/ ConnectFails(c) \/ ClientSend(c) \/ ClientRecv(c)
             \/ ClientLeaves(c)

Next == Startup \/ \E c \in Clients : Client(c) \/ Serve(c)

(* The server's threads are scheduled; clients do what they like.          *)
Fairness == \A c \in Clients : WF_vars(Serve(c))

Spec == Init /\ [][Next]_vars
FairSpec == Spec /\ Fairness
-----------------------------------------------------------------------------
(* Types; restr exists only inside Recv.                                   *)
Stream(k) == Seq((0 .. MaxRequests) \X (1 .. k))
TypeOK == /\ client \in [Clients -> {"new", "sending", "waiting", "left"}]
          /\ sent \in [Clients -> 0 .. MaxRequests]
          /\ got \in [Clients -> Stream(2)] /\ toClient \in [Clients -> Stream(2)]
          /\ toServer \in [Clients -> Stream(3)] /\ restr \in [Clients -> Stream(3)]
          /\ thread \in [Clients -> {"none", "backlog", "receiving", "replying", "ended"}]
          /\ \A c \in Clients : restr[c] # <<>> => thread[c] = "receiving"
          /\ job \in [Clients -> 0 .. MaxRequests]
          /\ lost \in [Clients -> SUBSET (1 .. MaxRequests)]
          /\ refused \in [Clients -> BOOLEAN] /\ short \in [Clients -> BOOLEAN]
          /\ process \in {"starting", "up", "exited", "dead"} /\ free \in 0 .. MaxDescriptors

(* The framing works as long as the client waits for whole answers:  then  *)
(* no request is discarded and what the client shows is the answer to its  *)
(* last request.  Nor does the server die while all clients do so, whoever *)
(* leaves at whatever moment.                                              *)
InStep(c) == /\ lost[c] = {}
             /\ client[c] = "sending" /\ sent[c] > 0 => got[c] = Answer(sent[c])
FramingHolds == /\ \A c \in Clients : short[c] \/ InStep(c)
                /\ process = "dead" => \E c \in Clients : short[c]

(* A client that waits has an answer on its way in the end, unless some    *)
(* client has received a piece of an answer or the client is in the        *)
(* backlog of a server that has used up its descriptors.                   *)
RequestsAnswered ==
  \A c \in Clients :
    client[c] = "waiting" ~> \/ client[c] # "waiting" \/ toClient[c] # <<>>
                             \/ \E d \in Clients : short[d]
                             \/ thread[c] = "backlog" /\ free = 0
=============================================================================
