----------------------------- MODULE PeerProofs -----------------------------
(***************************************************************************)
(* Proofs about the two programs in which peers come and go, AutoConnect   *)
(* and UdpRouter; no name of the one occurs in the other.                  *)
(*                                                                         *)
(* AutoConnect, for any number of tries and reads and any finite set of    *)
(* connections.  A send fails only after a reset, and a reset is only sent *)
(* by an end that is closed: so the client that gives a connection up is   *)
(* the last to do so, and the next one starts when no thread of the server *)
(* has a connection with it any more.                                      *)
(*                                                                         *)
(* UdpRouter, for any set of clients and any number of lines and of        *)
(* faults.  Once a client has sent its quit, either the quit is on its     *)
(* way, or it was handled as the last of all that the client has sent, so  *)
(* that no join is left that could put the client into the table again.    *)
(***************************************************************************)
EXTENDS AutoConnect, UdpRouter, FiniteSetTheorems, TLAPS

(* The client's and the server's open ends.                                *)
Mine(i)   == near[i] = "open"
Theirs(i) == far[i] \in {"backlog", "serving"}

(* A descriptor exists while the client is in start().                     *)
SocketsCounted == /\ sockets <= 1
                  /\ status \in {"CONNECTED", "DECONNECTED"} => sockets = 1

(* re_connect has left its loop when the client is connected, and closed   *)
(* the old connection before it enters it.                                 *)
ClosedBeforeRetry ==
  /\ status \in {"NEW", "CONNECTED"} => tries = -1
  /\ status = "NEW" \/ (status = "DECONNECTED" /\ tries # -1) => \A i \in Conns : ~Mine(i)

(* The client has one open end; while it lives so has the server, and only *)
(* of that connection.                                                     *)
OneAtATime ==
  /\ status = "CONNECTED" => \E i \in Conns : Mine(i)
  /\ \A i, j \in Conns : Mine(i) /\ Mine(j) => i = j
  /\ status # "exited" => \A i \in Conns : Theirs(i) => Mine(i) /\ status = "CONNECTED"

(* An RST comes from an end that is closed.                                *)
ResetByClosedEnd == \A i \in Conns : reset[i] => far[i] = "closed"

(* The inductive invariant.                                                *)
IInv == TypeOK /\ SocketsCounted /\ ClosedBeforeRetry /\ OneAtATime /\ ResetByClosedEnd
-----------------------------------------------------------------------------
(* There is no connection at first.                                        *)
LEMMA InitIInv == Init => IInv
BY AutoAssumption DEF Init, IInv, TypeOK, SocketsCounted, ClosedBeforeRetry, OneAtATime,
                      ResetByClosedEnd, Mine, Theirs

(* A new connection is the only one, if no end of the client was open.     *)
LEMMA ConnectedStep ==
  ASSUME IInv, NEW i \in Conns, Connected(i), \A j \in Conns : ~Mine(j), status # "exited",
         status' = "CONNECTED", tries' = -1, sockets' = 1, UNCHANGED server
  PROVE  IInv'
<1> USE AutoAssumption DEF IInv
<1>1. TypeOK'
  BY DEF TypeOK, Connected
<1>2. SocketsCounted' /\ ClosedBeforeRetry'
  BY DEF SocketsCounted, ClosedBeforeRetry
<1>3. OneAtATime'
  BY DEF TypeOK, Connected, OneAtATime, Mine, Theirs
<1>4. ResetByClosedEnd'
  BY DEF TypeOK, Connected, ResetByClosedEnd
<1> QED  BY <1>1, <1>2, <1>3, <1>4

(* The client: it gives a connection up only after a reset.                *)
LEMMA ClientStep ==
  ASSUME IInv, Client \/ CreateFails
  PROVE  IInv'
<1> USE AutoAssumption DEF IInv
<1> USE DEF TypeOK, SocketsCounted, ClosedBeforeRetry, OneAtATime, ResetByClosedEnd, Mine, Theirs
<1>1. CASE Construct
  <2>1. ASSUME NEW i \in Conns, Connected(i), status' = "CONNECTED" PROVE IInv'
    BY <1>1, <2>1, ConnectedStep DEF Construct
  <2>2. CASE Refused /\ status' = "DECONNECTED"
    BY <1>1, <2>2 DEF Construct, Refused, connVars
  <2> QED  BY <1>1, <2>1, <2>2 DEF Construct
<1>2. CASE CreateFails
  BY <1>2 DEF CreateFails
<1>3. CASE Reopen
  BY <1>3 DEF Reopen
<1>4. CASE Retry
  <2>1. ASSUME NEW i \in Conns, Connected(i), status' = "CONNECTED", tries' = -1 PROVE IInv'
    BY <1>4, <2>1, ConnectedStep DEF Retry
  <2>2. CASE Refused /\ tries' = tries + 1 /\ status' \in {"CLOSEED", status}
    BY <1>4, <2>2 DEF Retry, Refused, connVars
  <2> QED  BY <1>4, <2>1, <2>2 DEF Retry
<1>5. CASE End
  BY <1>5 DEF End, connVars
<1>6. ASSUME NEW i \in Conns, Send(i) PROVE IInv'
  <2> HIDE DEF TypeOK, SocketsCounted, ClosedBeforeRetry, OneAtATime, ResetByClosedEnd
  <2> USE <1>6 DEF Send, clientVars
  <2>1. TypeOK'
    <3>1. CASE far[i] = "closed"
      BY <3>1 DEF TypeOK
    <3>2. CASE far[i] # "closed"
      <4>1. waiting[i] + 1 \in 0 .. MaxWaiting
        BY <3>2 DEF TypeOK
      <4> QED  BY <3>2, <4>1 DEF TypeOK
    <3> QED  BY <3>1, <3>2
  <2>2. SocketsCounted' /\ ClosedBeforeRetry' /\ OneAtATime'
    BY DEF SocketsCounted, ClosedBeforeRetry, OneAtATime
  <2>3. ResetByClosedEnd'
    BY DEF TypeOK, ResetByClosedEnd
  <2> QED  BY <2>1, <2>2, <2>3
<1>7. ASSUME NEW i \in Conns, SendFails(i) PROVE IInv'
  BY <1>7 DEF SendFails, connVars
<1> QED  BY <1>1, <1>2, <1>3, <1>4, <1>5, <1>6, <1>7 DEF Client

(* The server: only the closing of an end sends a reset.                   *)
LEMMA ServerStep ==
  ASSUME IInv, \/ Kill \/ Startup
               \/ \E i \in Conns : Accept(i) \/ Thread(i)
  PROVE  IInv'
<1> USE AutoAssumption DEF IInv, clientVars, TypeOK, SocketsCounted, ClosedBeforeRetry,
                           OneAtATime, ResetByClosedEnd, Mine, Theirs
<1>1. CASE Kill
  BY <1>1 DEF Kill
<1>2. CASE Startup
  BY <1>2 DEF Startup, connVars
<1>3. ASSUME NEW i \in Conns, Accept(i) PROVE IInv'
  BY <1>3 DEF Accept
<1>4. ASSUME NEW i \in Conns, Recv(i) PROVE IInv'
  BY <1>4 DEF Recv
<1>5. ASSUME NEW i \in Conns, ThreadEnds(i) PROVE IInv'
  BY <1>5 DEF ThreadEnds, Closed
<1> QED  BY <1>1, <1>2, <1>3, <1>4, <1>5 DEF Thread

(* A step that changes nothing breaks nothing.                             *)
LEMMA Stutter == IInv /\ UNCHANGED vars => IInv'
BY DEF IInv, TypeOK, SocketsCounted, ClosedBeforeRetry, OneAtATime, ResetByClosedEnd,
       Mine, Theirs, vars, clientVars, connVars

(* The inductive invariant holds in every reachable state.                 *)
LEMMA Invariance == Spec => []IInv
<1>1. IInv /\ [Next]_vars => IInv'
  BY ClientStep, ServerStep, Stutter DEF Next
<1> QED  BY InitIInv, <1>1, PTL DEF Spec
-----------------------------------------------------------------------------
(* However often the server is killed and the client connects again, the   *)
(* client has one socket and one connection, and the server none besides.  *)
THEOREM ConnectsOnce == Spec => []OneConnection
<1>1. ASSUME IInv PROVE OneConnection
  <2> DEFINE mine == {i \in Conns : near[i] = "open"}
  <2>1. Cardinality(mine) <= 1
    <3>1. CASE mine = {}
      BY <3>1, FS_EmptySet
    <3>2. ASSUME NEW i \in mine PROVE Cardinality(mine) <= 1
      <4>1. mine = {i}
        BY <1>1 DEF IInv, OneAtATime, Mine
      <4> HIDE DEF mine
      <4>2. Cardinality(mine) = 1
        BY <4>1, FS_Singleton
      <4> QED  BY <4>2
    <3> QED  BY <3>1, <3>2
  <2> QED  BY <1>1, <2>1 DEF IInv, SocketsCounted, OneAtATime, OneConnection, Mine, Theirs
<1> QED  BY Invariance, <1>1, PTL
-----------------------------------------------------------------------------
(* A datagram of c for the server is on its way.                           *)
OnItsWay(c, text) == \E d \in net : d.to = Server /\ d.from = c /\ d.text = text

(* Once a client has sent its quit: the quit is on its way, or the client  *)
(* is out of the table with no join to put it back, or the quit failed.    *)
QuitOrOut ==
  \A c \in Clients :
    sender[c] = "done" => \/ OnItsWay(c, Quit)
                          \/ c \notin users /\ ~OnItsWay(c, JoinIn)
                          \/ QuitFailed(c)

(* The inductive invariant.                                                *)
RouterIInv == RouterTypeOK /\ QuitOrOut
-----------------------------------------------------------------------------
(* Nobody has left at first.                                               *)
LEMMA RouterInitIInv == RouterInit => RouterIInv
BY RouterAssumption DEF RouterInit, RouterIInv, RouterTypeOK, QuitOrOut, JoinIn, Quit

(* What a delivery does to the network: all but the datagram stays, nothing*)
(* but what is sent on comes, and an overtaking is held against it.        *)
LEMMA Delivery ==
  ASSUME NEW d \in net, NEW on, Deliver(d, on)
  PROVE  /\ net \ {d} \subseteq net' /\ net' \subseteq net \cup on
         /\ faults \subseteq faults'
         /\ \A e \in net : e.to = Server /\ d.to = Server /\ e.from = d.from /\ e.text < d.text
                        => Fault("overtaking", d) \in faults'
BY DEF Deliver

(* Sending: what is on its way has the types of a datagram.                *)
LEMMA SenderStep ==
  ASSUME RouterIInv, NEW c \in Clients, Join(c) \/ Speak(c) \/ QuitFlag(c) \/ QuitSend(c)
  PROVE  RouterIInv'
<1> USE RouterAssumption DEF RouterIInv, SendTo, Datagram, Fault, JoinIn, Quit, Line
<1>1. CASE Join(c)
  BY <1>1 DEF Join, RouterTypeOK, QuitOrOut, OnItsWay, QuitFailed
<1>2. CASE Speak(c)
  BY <1>2 DEF Speak, RouterTypeOK, QuitOrOut, OnItsWay, QuitFailed
<1>3. CASE QuitFlag(c)
  BY <1>3 DEF QuitFlag, RouterTypeOK, QuitOrOut, OnItsWay, QuitFailed
<1>4. CASE QuitSend(c)
  <2>1. RouterTypeOK'
    BY <1>4 DEF QuitSend, RouterTypeOK
  <2> DEFINE d == Datagram(Server, c, Quit)
  <2>2. ASSUME router = "up" PROVE OnItsWay(c, Quit)'
    <3>1. d \in net'
      BY <1>4, <2>2 DEF QuitSend
    <3> QED  BY <3>1 DEF OnItsWay
  <2>3. ASSUME router # "up" PROVE QuitFailed(c)'
    <3>1. Fault("loss", d) \in faults'
      BY <1>4, <2>3 DEF QuitSend
    <3> QED  BY <3>1 DEF QuitFailed
  <2>4. ASSUME NEW o \in Clients \ {c}, sender'[o] = "done"
        PROVE  \/ OnItsWay(o, Quit)'
               \/ o \notin users' /\ ~OnItsWay(o, JoinIn)'
               \/ QuitFailed(o)'
    BY <1>4, <2>4 DEF QuitSend, RouterTypeOK, QuitOrOut, OnItsWay, QuitFailed
  <2> QED  BY <2>1, <2>2, <2>3, <2>4 DEF QuitOrOut
<1> QED  BY <1>1, <1>2, <1>3, <1>4

(* Handling: a quit that leaves a join behind has overtaken it.            *)
LEMMA HandleStep ==
  ASSUME RouterIInv, NEW d \in net, Handle(d)
  PROVE  RouterIInv'
<1> DEFINE joined == IF d.text = JoinIn THEN add_user(d.from) ELSE users
           on     == put_message(d.text, d.from, joined)
<1> USE RouterAssumption DEF RouterIInv
<1>1. d.from \in Clients /\ d.text \in JoinIn .. Quit /\ d.to = Server
  BY DEF RouterTypeOK, Handle
<1>2. joined \subseteq Clients /\ users' \subseteq joined
  BY <1>1 DEF RouterTypeOK, Handle, add_user, quit_user
<1>3. \A e \in on : e.to \in Clients /\ e.from = d.from /\ e.text = d.text
  BY <1>2 DEF put_message, Datagram
<1>4. /\ net \ {d} \subseteq net' /\ net' \subseteq net \cup on
      /\ faults \subseteq faults'
      /\ \A e \in net : e.to = Server /\ e.from = d.from /\ e.text < d.text
                     => Fault("overtaking", d) \in faults'
  <2>1. Deliver(d, on)
    BY DEF Handle
  <2> HIDE DEF on
  <2> QED  BY <1>1, <2>1, Delivery
<1> HIDE DEF on
<1>5. RouterTypeOK'
  BY <1>1, <1>2, <1>3, <1>4 DEF RouterTypeOK, Handle, threadVars
<1>6. ASSUME NEW c \in Clients, sender'[c] = "done"
      PROVE  \/ OnItsWay(c, Quit)'
             \/ c \notin users' /\ ~OnItsWay(c, JoinIn)'
             \/ QuitFailed(c)'
  <2>1. sender[c] = "done"
    BY <1>6 DEF Handle, threadVars
  <2>2. CASE QuitFailed(c)
    BY <1>4, <2>2 DEF QuitFailed
  <2>3. CASE c \notin users /\ ~OnItsWay(c, JoinIn)
    <3>1. ~OnItsWay(c, JoinIn)'
      BY <1>3, <1>4, <2>3 DEF OnItsWay
    <3>2. c \notin users'
      BY <1>1, <1>2, <2>3 DEF OnItsWay, add_user
    <3> QED  BY <3>1, <3>2
  <2>4. CASE OnItsWay(c, Quit) /\ ~(d.from = c /\ d.text = Quit)
    BY <1>4, <2>4 DEF OnItsWay
  <2>5. CASE d.from = c /\ d.text = Quit
    <3>1. c \notin users'
      BY <2>5 DEF Handle, quit_user, JoinIn, Quit
    <3>2. CASE OnItsWay(c, JoinIn)
      <4>1. Fault("overtaking", d) \in faults'
        BY <1>4, <2>5, <3>2 DEF OnItsWay, JoinIn, Quit
      <4>2. QuitFailed(c)'
        BY <1>1, <2>5, <4>1 DEF QuitFailed, Fault
      <4> QED  BY <4>2
    <3>3. CASE ~OnItsWay(c, JoinIn)
      <4>1. ~OnItsWay(c, JoinIn)'
        BY <1>3, <1>4, <3>3 DEF OnItsWay
      <4> QED  BY <3>1, <4>1
    <3> QED  BY <3>2, <3>3
  <2> QED  BY <2>1, <2>2, <2>3, <2>4, <2>5 DEF QuitOrOut
<1> QED  BY <1>5, <1>6 DEF QuitOrOut

(* What a client receives is none of the server's datagrams.               *)
LEMMA ReceiveStep ==
  ASSUME RouterIInv, NEW d \in net, Receive(d)
  PROVE  RouterIInv'
<1>1. Deliver(d, {}) /\ d.to \in Clients /\ d.to # Server
  BY RouterAssumption DEF Receive
<1>2. net \ {d} \subseteq net' /\ net' \subseteq net /\ faults \subseteq faults'
  BY <1>1, Delivery
<1>3. RouterTypeOK'
  BY <1>2 DEF Receive, RouterIInv, RouterTypeOK
<1>4. QuitOrOut'
  BY <1>1, <1>2 DEF Receive, RouterIInv, QuitOrOut, OnItsWay, QuitFailed
<1> QED  BY <1>3, <1>4 DEF RouterIInv

(* What becomes of the server and what is lost.                            *)
LEMMA NetworkStep ==
  ASSUME RouterIInv, RouterStartup \/ Restart \/ (\E c \in Clients : Test(c))
                       \/ \E d \in net : Lose(d)
  PROVE  RouterIInv'
<1>1. RouterTypeOK'
  BY DEF RouterIInv, RouterTypeOK, RouterStartup, Restart, Test, Lose, threadVars
<1>2. CASE ~(\E d \in net : Lose(d))
  BY <1>1, <1>2, RouterAssumption DEF RouterIInv, QuitOrOut, OnItsWay, QuitFailed, RouterStartup, Restart,
                                      Test, threadVars
<1>3. ASSUME NEW d \in net, Lose(d), NEW c \in Clients, sender'[c] = "done"
      PROVE  \/ OnItsWay(c, Quit)'
             \/ c \notin users' /\ ~OnItsWay(c, JoinIn)'
             \/ QuitFailed(c)'
  <2>1. /\ sender[c] = "done" /\ users' = users
        /\ net' = net \ {d} /\ Fault("loss", d) \in faults' /\ faults \subseteq faults'
    BY <1>3 DEF Lose, threadVars
  <2>2. CASE d.to = Server /\ d.from = c /\ d.text = Quit
    <3>1. QuitFailed(c)'
      BY <2>1, <2>2 DEF QuitFailed, Fault
    <3> QED  BY <3>1
  <2>3. CASE ~(d.to = Server /\ d.from = c /\ d.text = Quit)
    BY <2>1, <2>3 DEF RouterIInv, QuitOrOut, OnItsWay, QuitFailed
  <2> QED  BY <2>2, <2>3
<1> QED  BY <1>1, <1>2, <1>3 DEF RouterIInv, QuitOrOut

(* A step that changes nothing breaks nothing.                             *)
LEMMA RouterStutter == RouterIInv /\ UNCHANGED routerVars => RouterIInv'
BY DEF RouterIInv, RouterTypeOK, QuitOrOut, OnItsWay, QuitFailed, routerVars, threadVars

(* The inductive invariant holds in every reachable state.                 *)
LEMMA RouterInvariance == RouterSpec => []RouterIInv
<1>1. RouterIInv /\ [RouterNext]_routerVars => RouterIInv'
  BY SenderStep, HandleStep, ReceiveStep, NetworkStep, RouterStutter DEF RouterNext, ClientThreads
<1> QED  BY RouterInitIInv, <1>1, PTL DEF RouterSpec
-----------------------------------------------------------------------------
(* The server's table: a client that has left is erased when all it sent   *)
(* has been handled, unless its quit was lost or overtook what came before.*)
THEOREM WhoLeavesIsErased == RouterSpec => []LeaversErased
<1>1. RouterIInv => LeaversErased
  BY DEF RouterIInv, RouterTypeOK, QuitOrOut, OnItsWay, LeaversErased
<1> QED  BY RouterInvariance, <1>1, PTL
=============================================================================
