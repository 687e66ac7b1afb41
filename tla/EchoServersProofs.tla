-------------------------- MODULE EchoServersProofs --------------------------
(***************************************************************************)
(* Proofs about EchoServers, for any number of clients, of messages and of *)
(* descriptors.  A turn of select_server or epoll_server is a list made    *)
(* before its first descriptor is handled; what keeps it valid is that     *)
(* handling a descriptor changes no other's connection, although it may    *)
(* close its own and an accept may be given that number in the same turn.  *)
(***************************************************************************)
EXTENDS EchoServers, SequenceTheorems, WellFoundedInduction, TLAPS

(* Types.                                                                  *)
Counted ==
  /\ process \in {"starting", "up", "dead", "exited", "undefined"}
  /\ echoed \in [Clients -> Nat] /\ hand \in [Clients -> Nat] /\ sent \in [Clients -> Nat]
  /\ inbox \in [Clients -> Seq({"text", "icon"})]

(* The readable descriptors that are left in a turn are still readable.    *)
StillReadable == \A fd \in todo : Readable(fd)

(* A thread for each connection has no list.                               *)
NoTurns == kind \in Threads => todo = {}

(* A client that is known to the kernel has connected, and it waits in the *)
(* backlog once or has a descriptor.                                       *)
OnePlace ==
  /\ \A fd \in Fds : conn[fd] # None => client[conn[fd]] # "new"
  /\ \A i \in DOMAIN backlog : client[backlog[i]] # "new" /\ \A fd \in Fds : conn[fd] # backlog[i]
  /\ \A i, j \in DOMAIN backlog : backlog[i] = backlog[j] => i = j

(* The inductive invariant.                                                *)
IInv == TypeOK /\ ConnectionsWatched /\ Counted /\ StillReadable /\ NoTurns /\ OnePlace
-----------------------------------------------------------------------------
(* The lowest free descriptor is a free one.                               *)
LEMMA LowestIsFree ==
  ASSUME NEW S \in SUBSET Nat, S # {}
  PROVE  Min(S) \in S
<1> DEFINE R == OpToRel(<, Nat)
<1>1. IsWellFoundedOn(R, Nat)
  BY NatLessThanWellFounded
<1>2. PICK x \in S : \A y \in S : ~(<<y, x>> \in R)
  <2> HIDE DEF R
  <2> QED  BY <1>1, WFMin
<1>3. ASSUME NEW y \in S PROVE x <= y
  <2>1. x \in Nat /\ y \in Nat
    OBVIOUS
  <2>2. ~(y < x)
    BY <1>2, <2>1 DEF OpToRel
  <2> QED  BY <2>1, <2>2
<1> QED  BY <1>3 DEF Min

(* The constructor's tables are empty.                                     *)
LEMMA InitIInv == Init => IInv
<1> SUFFICES ASSUME Init PROVE IInv
  OBVIOUS
<1>1. \A S : <<>> \in Seq(S) /\ Len(<<>>) = 0 /\ DOMAIN <<>> = {}
  BY EmptySeq
<1>2. TypeOK
  BY <1>1 DEF Init, TypeOK
<1>3. Counted
  BY <1>1 DEF Init, Counted
<1>4. ConnectionsWatched
  BY DEF Init, ConnectionsWatched
<1>5. StillReadable /\ NoTurns /\ OnePlace
  BY <1>1 DEF Init, StillReadable, NoTurns, OnePlace
<1> QED  BY <1>2, <1>3, <1>4, <1>5 DEF IInv

(* A descriptor that is handled is a client's, which has sent something or *)
(* has left; no other descriptor of this turn is this client's.            *)
LEMMA Handled ==
  ASSUME IInv, NEW fd \in Fds, Dispose(fd)
  PROVE  /\ process = "up" /\ fd # Listen /\ fd \in watched
         /\ conn[fd] \in Clients /\ client[conn[fd]] # "new" /\ hand[conn[fd]] = 0
         /\ inbox[conn[fd]] # <<>> \/ client[conn[fd]] # "open"
         /\ todo' = todo \ {fd}
         /\ \A other \in Fds : conn[other] = conn[fd] => other = fd
<1>1. fd # Listen
  BY ServerAssumption DEF Listen
<1>2. fd \in watched /\ Readable(fd)
  BY <1>1 DEF Dispose, IInv, ConnectionsWatched, StillReadable
<1>3. conn[fd] \in Clients
  BY <1>2 DEF IInv, TypeOK, ConnectionsWatched
<1>4. \A other \in Fds : conn[other] = conn[fd] => other = fd
  BY <1>3, ServerAssumption DEF IInv, ConnectionsWatched
<1>5. hand[conn[fd]] = 0
  BY <1>1, <1>3 DEF Dispose
<1> QED  BY <1>1, <1>2, <1>3, <1>4, <1>5, ServerAssumption DEF Dispose, Readable, IInv, OnePlace

(* What the invariant says about the connections.                          *)
Tables == ConnectionsWatched /\ StillReadable /\ NoTurns /\ OnePlace

(* Everything a client has sent is received.                               *)
LEMMA ReceivingKeeps ==
  ASSUME IInv, NEW fd \in Fds, Dispose(fd), NEW n \in Nat, Received(fd, n),
         UNCHANGED <<kind, watched, conn, client, backlog>>
  PROVE  Tables'
<1> DEFINE c == conn[fd]
<1>1. /\ fd # Listen /\ c \in Clients /\ todo' = todo \ {fd}
      /\ \A other \in Fds : conn[other] = c => other = fd
  BY Handled
<1>2. inbox' = [inbox EXCEPT ![c] = <<>>]
  BY DEF Received
<1> HIDE DEF c
<1>3. \A d \in Clients : inbox'[d] = (IF d = c THEN <<>> ELSE inbox[d])
  BY <1>2 DEF IInv, Counted
<1>4. ConnectionsWatched'
  BY <1>1, <1>3 DEF IInv, TypeOK, ConnectionsWatched
<1>5. StillReadable'
  BY <1>1, <1>3 DEF IInv, TypeOK, StillReadable, Readable
<1>6. NoTurns' /\ OnePlace'
  BY <1>1 DEF IInv, NoTurns, OnePlace
<1> QED  BY <1>4, <1>5, <1>6 DEF Tables

(* A send() may show that the client has left, and so makes nothing        *)
(* unreadable; the turn's list is left alone.                              *)
LEMMA SendingKeeps ==
  ASSUME IInv, NEW c \in Clients,
         \/ client' = client
         \/ client' = [client EXCEPT ![c] = IF @ = "closed" THEN "reset" ELSE @],
         UNCHANGED <<kind, todo, watched, conn, inbox, backlog>>
  PROVE  Tables' /\ client' \in [Clients -> {"new", "open", "closed", "reset"}]
<1>1. /\ client' \in [Clients -> {"new", "open", "closed", "reset"}]
      /\ \A d \in Clients : /\ client'[d] = "open" <=> client[d] = "open"
                            /\ client'[d] = "new" <=> client[d] = "new"
                            /\ client[d] \in {"closed", "reset"} => client'[d] \in {"closed", "reset"}
  BY DEF IInv, TypeOK
<1>2. ConnectionsWatched'
  BY <1>1 DEF IInv, TypeOK, ConnectionsWatched
<1>3. StillReadable'
  BY <1>1 DEF IInv, TypeOK, StillReadable, Readable
<1>4. NoTurns'
  BY DEF IInv, NoTurns
<1>5. OnePlace'
  <2>1. \A i \in DOMAIN backlog : backlog[i] \in Clients
    BY LenProperties, ElementOfSeq DEF IInv, TypeOK
  <2> QED  BY <1>1, <2>1 DEF IInv, TypeOK, OnePlace
<1> QED  BY <1>1, <1>2, <1>3, <1>4, <1>5 DEF Tables

(* The end of a connection is received: select_server only forgets it.     *)
LEMMA EndingKeeps ==
  ASSUME IInv, NEW fd \in Fds, Dispose(fd), inbox[conn[fd]] = <<>>,
         watched' = watched \ {fd},
         conn' = [conn EXCEPT ![fd] = None] \/ (kind = "select" /\ conn' = conn),
         UNCHANGED <<kind, client, inbox, backlog>>
  PROVE  Tables'
<1>1. /\ fd # Listen /\ conn[fd] \in Clients /\ todo' = todo \ {fd}
      /\ client[conn[fd]] # "new" /\ client[conn[fd]] # "open"
  BY Handled
<1>2. client[conn[fd]] \in {"closed", "reset"}
  BY <1>1 DEF IInv, TypeOK
<1>3. \A other \in Fds \ {fd} : conn'[other] = conn[other]
  BY DEF IInv, TypeOK
<1>4. conn'[fd] = None \/ (kind = "select" /\ conn'[fd] = conn[fd])
  BY DEF IInv, TypeOK
<1>5. ConnectionsWatched'
  BY <1>1, <1>2, <1>3, <1>4 DEF IInv, TypeOK, ConnectionsWatched
<1>6. StillReadable'
  BY <1>1, <1>3 DEF IInv, TypeOK, StillReadable, Readable
<1>7. NoTurns'
  BY <1>1 DEF IInv, NoTurns
<1>8. OnePlace'
  <2>1. \A i \in DOMAIN backlog : backlog[i] # None
    BY LenProperties, ElementOfSeq, ServerAssumption DEF IInv, TypeOK
  <2> QED  BY <1>3, <1>4, <2>1 DEF IInv, OnePlace
<1> QED  BY <1>5, <1>6, <1>7, <1>8 DEF Tables

(* An error, or nothing, is received.                                      *)
LEMMA IgnoringKeeps ==
  ASSUME IInv, NEW fd \in Fds, Dispose(fd), UNCHANGED <<kind, watched, conn, client, inbox, backlog>>
  PROVE  Tables'
<1>1. todo' = todo \ {fd}
  BY Handled
<1> QED  BY <1>1 DEF IInv, Tables, ConnectionsWatched, StillReadable, Readable, NoTurns, OnePlace

(* A new connection gets a descriptor that is not in this turn's list.     *)
LEMMA AcceptKeeps ==
  ASSUME IInv, Accept
  PROVE  Tables' /\ TypeOK'
<1>1. PICK fd \in Fds : socket_accept(fd) /\ watched' = watched \cup {fd}
  BY DEF Accept
<1> DEFINE c == Head(backlog)
<1>2. fd \in Free
  <2>1. Free \in SUBSET Nat /\ Free # {}
    BY <1>1, ServerAssumption DEF Free, socket_accept
  <2> QED  BY <1>1, <2>1, LowestIsFree DEF socket_accept
<1>3. backlog # <<>>
  BY DEF Accept, Dispose, Readable, IInv, StillReadable
<1>4. /\ c \in Clients /\ Len(backlog) \in Nat /\ 1 \in DOMAIN backlog /\ c = backlog[1]
      /\ Tail(backlog) \in Seq(Clients) /\ DOMAIN Tail(backlog) = 1 .. Len(backlog) - 1
      /\ DOMAIN backlog = 1 .. Len(backlog)
      /\ \A i \in DOMAIN Tail(backlog) : Tail(backlog)[i] = backlog[i + 1]
  <2>1. backlog \in Seq(Clients)
    BY DEF IInv, TypeOK
  <2>2. Len(backlog) \in Nat /\ Len(backlog) # 0 /\ DOMAIN backlog = 1 .. Len(backlog)
    BY <1>3, <2>1, EmptySeq, LenProperties
  <2>3. /\ Tail(backlog) \in Seq(Clients) /\ Len(Tail(backlog)) = Len(backlog) - 1 /\ c \in Clients
        /\ \A i \in 1 .. Len(Tail(backlog)) : Tail(backlog)[i] = backlog[i + 1]
    BY <1>3, <2>1, HeadTailProperties
  <2>4. DOMAIN Tail(backlog) = 1 .. Len(Tail(backlog))
    BY <2>3, LenProperties
  <2>5. c = backlog[1]
    BY <1>3, <2>1
  <2> QED  BY <2>2, <2>3, <2>4, <2>5
<1>5. conn' = [conn EXCEPT ![fd] = c] /\ backlog' = Tail(backlog)
  BY <1>1 DEF socket_accept
<1>6. todo' = todo \ {Listen} /\ UNCHANGED <<kind, process, client, sent, failed, inbox, hand, echoed, blocked>>
  BY DEF Accept, Dispose, clientVars, sendVars
<1> HIDE DEF c
<1>7. /\ conn[fd] = None /\ conn'[fd] = c /\ c # None /\ fd \notin todo
      /\ \A other \in Fds \ {fd} : conn'[other] = conn[other]
      /\ client[c] # "new" /\ \A other \in Fds : conn[other] # c
  <2>1. conn[fd] = None
    BY <1>2 DEF Free
  <2>2. fd \notin watched /\ fd # Listen
    BY <2>1, ServerAssumption DEF Listen, IInv, ConnectionsWatched
  <2>3. fd \notin todo
    BY <2>2 DEF IInv, ConnectionsWatched
  <2>4. client[c] # "new" /\ \A other \in Fds : conn[other] # c
    BY <1>4 DEF IInv, OnePlace
  <2> QED  BY <1>4, <1>5, <2>1, <2>3, <2>4, ServerAssumption DEF IInv, TypeOK
<1>8. ConnectionsWatched'
  <2>1. \A one \in watched' : conn'[one] # None
    BY <1>1, <1>7 DEF IInv, TypeOK, ConnectionsWatched
  <2>2. \A one \in Fds \ watched' :
          conn'[one] # None => /\ kind = "select"
                               /\ client[conn'[one]] \in {"closed", "reset"}
                               /\ inbox[conn'[one]] = <<>>
    BY <1>1, <1>7 DEF IInv, ConnectionsWatched
  <2>3. todo' \ {Listen} \subseteq watched'
    BY <1>1, <1>6 DEF IInv, ConnectionsWatched
  <2>4. \A one, other \in Fds : conn'[one] = conn'[other] => one = other \/ conn'[one] = None
    BY <1>7 DEF IInv, ConnectionsWatched
  <2> QED  BY <1>6, <2>1, <2>2, <2>3, <2>4 DEF ConnectionsWatched
<1>9. StillReadable'
  BY <1>6, <1>7 DEF IInv, TypeOK, StillReadable, Readable
<1>10. NoTurns'
  BY <1>6 DEF IInv, NoTurns
<1>11. OnePlace'
  <2>1. \A fdesc \in Fds : conn'[fdesc] # None => client[conn'[fdesc]] # "new"
    BY <1>7 DEF IInv, OnePlace
  <2>2. ASSUME NEW i \in DOMAIN backlog'
        PROVE  client[backlog'[i]] # "new" /\ \A fdesc \in Fds : conn'[fdesc] # backlog'[i]
    <3>1. i + 1 \in DOMAIN backlog /\ i + 1 # 1 /\ backlog'[i] = backlog[i + 1]
      BY <1>4, <1>5, <2>2
    <3>2. backlog[i + 1] # backlog[1]
      BY <1>4, <3>1 DEF IInv, OnePlace
    <3> QED  BY <1>4, <1>7, <3>1, <3>2 DEF IInv, OnePlace
  <2>3. ASSUME NEW i \in DOMAIN backlog', NEW j \in DOMAIN backlog', backlog'[i] = backlog'[j]
        PROVE  i = j
    <3>1. /\ i + 1 \in DOMAIN backlog /\ backlog'[i] = backlog[i + 1]
          /\ j + 1 \in DOMAIN backlog /\ backlog'[j] = backlog[j + 1]
      BY <1>4, <1>5, <2>3
    <3>2. i + 1 = j + 1
      BY <2>3, <3>1 DEF IInv, OnePlace
    <3> QED  BY <1>4, <1>5, <3>2
  <2> QED  BY <1>6, <2>1, <2>2, <2>3 DEF OnePlace
<1>12. TypeOK'
  BY <1>1, <1>4, <1>5, <1>6 DEF IInv, TypeOK
<1> QED  BY <1>8, <1>9, <1>10, <1>11, <1>12 DEF Tables

(* The list of a turn is made of what is readable, and a failing accept    *)
(* takes nothing from it but _listenfd.                                    *)
LEMMA TurnKeeps ==
  ASSUME IInv, Wait \/ AcceptFails
  PROVE  Tables' /\ TypeOK' /\ Counted'
<1> USE DEF clientVars, sendVars
<1>1. UNCHANGED <<kind, watched, conn, client, sent, backlog, failed, inbox, hand, echoed, blocked>>
  BY DEF Wait, AcceptFails
<1>2. /\ todo' \subseteq watched \cup {Listen} /\ \A fd \in todo' : Readable(fd)
      /\ kind \in Threads => todo' = {}
  BY DEF Wait, AcceptFails, Dispose, IInv, ConnectionsWatched, StillReadable, NoTurns, Turns, Threads
<1>3. process = "up" /\ process' \in {"up", "undefined"}
  BY DEF Wait, AcceptFails, Dispose
<1>4. TypeOK'
  BY <1>1, <1>2 DEF IInv, TypeOK
<1>5. Counted'
  BY <1>1, <1>3 DEF IInv, Counted
<1>6. ConnectionsWatched' /\ NoTurns' /\ OnePlace'
  BY <1>1, <1>2 DEF IInv, ConnectionsWatched, NoTurns, OnePlace
<1>7. StillReadable'
  BY <1>1, <1>2 DEF StillReadable, Readable
<1> QED  BY <1>4, <1>5, <1>6, <1>7 DEF Tables

(* TypeOK's count of the messages.                                         *)
Balanced == \A c \in Clients :
              LET n == echoed[c] + hand[c] + Len(inbox[c])
              IN  IF kind = "http" THEN n <= sent[c] ELSE n = sent[c]

(* What is received is taken in hand: all there was or, from the HTTP      *)
(* server, less than that.                                                 *)
LEMMA ReceivingCounts ==
  ASSUME IInv, NEW c \in Clients, hand[c] = 0, NEW m \in 0 .. Len(inbox[c]),
         inbox' = [inbox EXCEPT ![c] = <<>>], hand' = [hand EXCEPT ![c] = m],
         kind # "http" => m = Len(inbox[c]),
         UNCHANGED <<kind, process, sent, echoed, blocked>>
  PROVE  Balanced' /\ Counted' /\ blocked' \subseteq {d \in Clients : hand'[d] > 0}
<1>1. \A d \in Clients : /\ echoed[d] \in Nat /\ hand[d] \in Nat
                         /\ Len(inbox[d]) \in Nat /\ sent[d] \in Nat
  BY LenProperties DEF IInv, Counted
<1>2. \A S : <<>> \in Seq(S) /\ Len(<<>>) = 0
  BY EmptySeq
<1>3. m \in Nat /\ m <= Len(inbox[c])
  BY <1>1
<1>4. hand'[c] = m /\ Len(inbox'[c]) = 0
      /\ \A d \in Clients \ {c} : hand'[d] = hand[d] /\ inbox'[d] = inbox[d]
  BY <1>2 DEF IInv, Counted
<1>5. Counted'
  <2>1. hand' \in [Clients -> Nat]
    BY <1>3 DEF IInv, Counted
  <2>2. inbox' \in [Clients -> Seq({"text", "icon"})]
    BY <1>2 DEF IInv, Counted
  <2> QED  BY <2>1, <2>2 DEF IInv, Counted
<1>6. ASSUME NEW d \in Clients
      PROVE  LET n == echoed[d] + hand'[d] + Len(inbox'[d])
             IN  IF kind = "http" THEN n <= sent[d] ELSE n = sent[d]
  <2> DEFINE e == echoed[d]  h == hand[d]  l == Len(inbox[d])  z == sent[d]
             h1 == hand'[d]  l1 == Len(inbox'[d])
  <2>1. e \in Nat /\ h \in Nat /\ l \in Nat /\ z \in Nat
    BY <1>1
  <2>2. IF kind = "http" THEN e + h + l <= z ELSE e + h + l = z
    BY DEF IInv, TypeOK
  <2>3. \/ h1 = h /\ l1 = l
        \/ h = 0 /\ h1 = m /\ l1 = 0 /\ m <= l /\ (kind # "http" => m = l)
    BY <1>3, <1>4
  <2> HIDE DEF e, h, l, z, h1, l1
  <2>4. IF kind = "http" THEN e + h1 + l1 <= z ELSE e + h1 + l1 = z
    BY <1>3, <2>1, <2>2, <2>3
  <2> QED  BY <2>4 DEF e, h1, l1, z
<1>7. c \notin blocked
  BY DEF IInv, TypeOK
<1>8. blocked \subseteq {d \in Clients : hand'[d] > 0}
  BY <1>4, <1>7 DEF IInv, TypeOK
<1> QED  BY <1>5, <1>6, <1>8 DEF Balanced

(* What was in hand has been sent, or send() has failed.                   *)
LEMMA SendingCounts ==
  ASSUME IInv, NEW c \in Clients,
         hand' = [hand EXCEPT ![c] = 0], echoed' = [echoed EXCEPT ![c] = @ + hand[c]],
         UNCHANGED <<kind, process, sent, inbox>>
  PROVE  Balanced' /\ Counted'
<1>1. \A d \in Clients : /\ echoed[d] \in Nat /\ hand[d] \in Nat
                         /\ Len(inbox[d]) \in Nat /\ sent[d] \in Nat
  BY LenProperties DEF IInv, Counted
<1>2. hand'[c] = 0 /\ echoed'[c] = echoed[c] + hand[c]
      /\ \A d \in Clients \ {c} : hand'[d] = hand[d] /\ echoed'[d] = echoed[d]
  BY DEF IInv, Counted
<1>3. Counted'
  BY <1>1 DEF IInv, Counted
<1>4. ASSUME NEW d \in Clients
      PROVE  LET n == echoed'[d] + hand'[d] + Len(inbox[d])
             IN  IF kind = "http" THEN n <= sent[d] ELSE n = sent[d]
  <2> DEFINE e == echoed[d]  h == hand[d]  l == Len(inbox[d])  z == sent[d]
             e1 == echoed'[d]  h1 == hand'[d]
  <2>1. e \in Nat /\ h \in Nat /\ l \in Nat /\ z \in Nat
    BY <1>1
  <2>2. IF kind = "http" THEN e + h + l <= z ELSE e + h + l = z
    BY DEF IInv, TypeOK
  <2>3. (e1 = e /\ h1 = h) \/ (e1 = e + h /\ h1 = 0)
    BY <1>2
  <2> HIDE DEF e, h, l, z, e1, h1
  <2>4. IF kind = "http" THEN e1 + h1 + l <= z ELSE e1 + h1 + l = z
    BY <2>1, <2>2, <2>3
  <2> QED  BY <2>4 DEF e1, h1, l, z
<1> QED  BY <1>3, <1>4 DEF Balanced

(* What a thread, or a turn, does with a client's descriptor.              *)
LEMMA HandlingStep ==
  ASSUME IInv, NEW fd \in Fds, Handle(fd)
  PROVE  IInv'
<1> DEFINE c == conn[fd]
<1> USE DEF Handle, clientVars, sendVars
<1>1. Dispose(fd)
  BY DEF Receive, ReceiveRequest, RecvError, RecvEnd, RecvCloses, ThreadEnds, InetExits, HttpSpins
<1>2. c \in Clients /\ hand[c] = 0 /\ todo' = todo \ {fd} /\ process = "up"
  BY <1>1, Handled
<1>3. UNCHANGED <<kind, client, sent, backlog, echoed, blocked>>
  BY DEF Receive, ReceiveRequest, RecvError, RecvEnd, RecvCloses, ThreadEnds, InetExits, HttpSpins
<1>4. CASE Receive(fd) \/ ReceiveRequest(fd)
  <2>1. inbox[c] # <<>> /\ UNCHANGED <<watched, conn, process, failed>>
    BY <1>4 DEF Receive, ReceiveRequest, Received
  <2>2. Len(inbox[c]) \in Nat \ {0}
    BY <1>2, <2>1, EmptySeq DEF IInv, Counted
  <2>3. PICK m \in 0 .. Len(inbox[c]) : Received(fd, m) /\ (kind # "http" => m = Len(inbox[c]))
    BY <1>4, <2>2 DEF Receive, ReceiveRequest
  <2>4. Tables'
    BY <1>1, <1>3, <2>1, <2>2, <2>3, ReceivingKeeps
  <2>5. inbox' = [inbox EXCEPT ![c] = <<>>] /\ hand' = [hand EXCEPT ![c] = m]
    BY <2>3 DEF Received
  <2>6. Balanced' /\ Counted' /\ blocked' \subseteq {d \in Clients : hand'[d] > 0}
    <3> HIDE DEF c
    <3> QED  BY <1>2, <1>3, <2>1, <2>3, <2>5, ReceivingCounts
  <2>7. TypeOK'
    BY <1>2, <1>3, <2>1, <2>6 DEF IInv, TypeOK, Balanced
  <2> QED  BY <2>4, <2>6, <2>7 DEF IInv, Tables
<1>5. CASE RecvEnd(fd) \/ RecvCloses(fd) \/ ThreadEnds(fd)
  <2>1. /\ inbox[c] = <<>> /\ watched' = watched \ {fd}
        /\ conn' = [conn EXCEPT ![fd] = None] \/ (kind = "select" /\ conn' = conn)
        /\ UNCHANGED <<process, inbox, hand, failed>>
    BY <1>5 DEF RecvEnd, RecvCloses, ThreadEnds
  <2>2. Tables'
    BY <1>1, <1>3, <2>1, EndingKeeps
  <2>3. TypeOK' /\ Counted'
    BY <1>2, <1>3, <2>1 DEF IInv, TypeOK, Counted
  <2> QED  BY <2>2, <2>3 DEF IInv, Tables
<1>6. CASE RecvError(fd) \/ InetExits(fd) \/ HttpSpins(fd)
  <2>1. UNCHANGED <<watched, conn, inbox, hand>> /\ process' \in {"up", "exited"}
    BY <1>2, <1>6 DEF RecvError, InetExits, HttpSpins
  <2>2. Tables'
    BY <1>1, <1>3, <2>1, IgnoringKeeps
  <2>3. failed' \in [Clients -> BOOLEAN]
    BY <1>2, <1>6 DEF RecvError, InetExits, HttpSpins, IInv, TypeOK
  <2>4. TypeOK' /\ Counted'
    BY <1>2, <1>3, <2>1, <2>3 DEF IInv, TypeOK, Counted
  <2> QED  BY <2>2, <2>4 DEF IInv, Tables
<1> QED  BY <1>4, <1>5, <1>6

(* A send() waits, returns or kills; it is to a client that has not been   *)
(* forgotten.                                                              *)
LEMMA SendingStep ==
  ASSUME IInv, NEW fd \in Fds, SendReturns(fd) \/ SendBlocks(fd)
  PROVE  IInv'
<1> DEFINE c == conn[fd]
<1> USE DEF SendReturns, clientVars, serverVars, sendVars
<1>1. c \in Clients /\ hand[c] > 0 /\ process = "up"
  BY DEF Sent, SendFails, SendKills, SendBlocks, Sending, IInv, TypeOK
<1>2. UNCHANGED <<kind, todo, watched, conn, sent, backlog, inbox>>
  BY DEF Sent, SendFails, SendKills, SendBlocks
<1>3. /\ Tables' /\ client' \in [Clients -> {"new", "open", "closed", "reset"}]
      /\ failed' \in [Clients -> BOOLEAN]
  <2>1. client' = client \/ client' = [client EXCEPT ![c] = IF @ = "closed" THEN "reset" ELSE @]
    BY DEF Sent, SendFails, SendKills, SendBlocks
  <2>2. failed' \in [Clients -> BOOLEAN]
    BY <1>1 DEF Sent, SendFails, SendKills, SendBlocks, IInv, TypeOK
  <2> QED  BY <1>1, <1>2, <2>1, <2>2, SendingKeeps
<1>4. CASE Sent(fd) \/ SendFails(fd)
  <2>1. /\ hand' = [hand EXCEPT ![c] = 0] /\ echoed' = [echoed EXCEPT ![c] = @ + hand[c]]
        /\ process' = process /\ blocked' \subseteq blocked \ {c}
    BY <1>4 DEF Sent, SendFails
  <2>2. Balanced' /\ Counted'
    <3> HIDE DEF c
    <3> QED  BY <1>1, <1>2, <2>1, SendingCounts
  <2>3. blocked' \subseteq {d \in Clients : hand'[d] > 0}
    BY <2>1 DEF IInv, TypeOK, Counted
  <2>4. TypeOK'
    BY <1>2, <1>3, <2>2, <2>3 DEF IInv, TypeOK, Balanced
  <2> QED  BY <1>3, <2>2, <2>4 DEF IInv, Tables
<1>5. CASE SendKills(fd) \/ SendBlocks(fd)
  <2>1. /\ UNCHANGED <<hand, echoed>> /\ process' \in {"up", "dead"}
        /\ blocked' \subseteq blocked \cup {c}
    BY <1>1, <1>5 DEF SendKills, SendBlocks
  <2>2. TypeOK' /\ Counted'
    BY <1>1, <1>2, <1>3, <2>1 DEF IInv, TypeOK, Counted
  <2> QED  BY <1>3, <2>2 DEF IInv, Tables
<1> QED  BY <1>4, <1>5
-----------------------------------------------------------------------------
(* A client that connects is new to the backlog and to every descriptor.   *)
LEMMA ConnectStep ==
  ASSUME IInv, NEW c \in Clients, Connect(c)
  PROVE  IInv'
<1>1. /\ client[c] = "new" /\ client' = [client EXCEPT ![c] = "open"]
      /\ backlog' = Append(backlog, c)
      /\ UNCHANGED <<kind, todo, watched, conn, process, sent, failed, inbox, hand, echoed, blocked>>
  BY DEF Connect, serverVars, sendVars
<1>2. client'[c] = "open" /\ \A d \in Clients \ {c} : client'[d] = client[d]
  BY <1>1 DEF IInv, TypeOK
<1>3. /\ Len(backlog) \in Nat /\ backlog' \in Seq(Clients)
      /\ DOMAIN backlog = 1 .. Len(backlog) /\ DOMAIN backlog' = 1 .. Len(backlog) + 1
      /\ backlog'[Len(backlog) + 1] = c
      /\ \A i \in DOMAIN backlog : backlog'[i] = backlog[i] /\ backlog[i] \in Clients
  <2>1. backlog \in Seq(Clients)
    BY DEF IInv, TypeOK
  <2>2. /\ Len(backlog) \in Nat /\ DOMAIN backlog = 1 .. Len(backlog)
        /\ \A i \in 1 .. Len(backlog) : backlog[i] \in Clients
    BY <2>1, LenProperties, ElementOfSeq
  <2>3. /\ backlog' \in Seq(Clients) /\ Len(backlog') = Len(backlog) + 1
        /\ \A i \in 1 .. Len(backlog) : backlog'[i] = backlog[i]
        /\ backlog'[Len(backlog) + 1] = c
    BY <1>1, <2>1, AppendProperties
  <2>4. DOMAIN backlog' = 1 .. Len(backlog')
    BY <2>3, LenProperties
  <2> QED  BY <2>2, <2>3, <2>4
<1>4. \A fd \in Fds : conn[fd] \in Clients \cup {None} /\ conn[fd] # c
  BY <1>1, ServerAssumption DEF IInv, TypeOK, OnePlace
<1>5. TypeOK' /\ Counted'
  BY <1>1, <1>2, <1>3 DEF IInv, TypeOK, Counted
<1>6. ConnectionsWatched'
  BY <1>1, <1>2, <1>4 DEF IInv, ConnectionsWatched
<1>7. StillReadable'
  <2>1. backlog' # <<>>
    BY <1>1, AppendProperties DEF IInv, TypeOK
  <2> QED  BY <1>1, <1>2, <1>4, <2>1 DEF IInv, TypeOK, StillReadable, Readable
<1>8. NoTurns'
  BY <1>1 DEF IInv, NoTurns
<1>9. OnePlace'
  <2>1. \A fd \in Fds : conn[fd] # None => client'[conn[fd]] # "new"
    BY <1>2, <1>4 DEF IInv, OnePlace
  <2>2. \A i \in DOMAIN backlog : /\ backlog[i] # c /\ client'[backlog[i]] # "new"
                                 /\ \A fd \in Fds : conn[fd] # backlog[i]
    BY <1>1, <1>2, <1>3 DEF IInv, OnePlace
  <2>3. \A i \in DOMAIN backlog' : i \in DOMAIN backlog \/ i = Len(backlog) + 1
    BY <1>3
  <2>4. \A i \in DOMAIN backlog' : /\ client'[backlog'[i]] # "new"
                                  /\ \A fd \in Fds : conn[fd] # backlog'[i]
    BY <1>2, <1>3, <1>4, <2>2, <2>3
  <2>5. \A i, j \in DOMAIN backlog' : backlog'[i] = backlog'[j] => i = j
    BY <1>3, <2>2, <2>3 DEF IInv, OnePlace
  <2> QED  BY <1>1, <2>1, <2>4, <2>5 DEF OnePlace
<1> QED  BY <1>5, <1>6, <1>7, <1>8, <1>9 DEF IInv

(* A message makes nothing unreadable, and none comes after the end.       *)
LEMMA SendStep ==
  ASSUME IInv, NEW c \in Clients, ClientSends(c)
  PROVE  IInv'
<1>1. PICK message \in {"text", "icon"} : inbox' = [inbox EXCEPT ![c] = Append(@, message)]
  BY DEF ClientSends
<1>2. /\ process = "up" /\ client[c] = "open" /\ sent' = [sent EXCEPT ![c] = @ + 1]
      /\ UNCHANGED <<kind, todo, watched, conn, process, client, backlog, failed, hand, echoed, blocked>>
  BY DEF ClientSends, serverVars, sendVars
<1>3. /\ Append(inbox[c], message) \in Seq({"text", "icon"}) /\ Append(inbox[c], message) # <<>>
      /\ Len(Append(inbox[c], message)) = Len(inbox[c]) + 1
  <2>1. inbox[c] \in Seq({"text", "icon"})
    BY DEF IInv, Counted
  <2> QED  BY <2>1, AppendProperties
<1>4. /\ inbox' \in [Clients -> Seq({"text", "icon"})] /\ inbox'[c] # <<>>
      /\ Len(inbox'[c]) = Len(inbox[c]) + 1 /\ \A d \in Clients \ {c} : inbox'[d] = inbox[d]
  BY <1>1, <1>3 DEF IInv, Counted
<1>5. Counted'
  <2>1. sent' \in [Clients -> Nat]
    BY <1>2 DEF IInv, Counted
  <2> QED  BY <1>2, <1>4, <2>1 DEF IInv, Counted
<1>6. Balanced'
  <2>1. SUFFICES ASSUME NEW d \in Clients
                 PROVE  LET n == echoed[d] + hand[d] + Len(inbox'[d])
                        IN  IF kind = "http" THEN n <= sent'[d] ELSE n = sent'[d]
    BY <1>2 DEF Balanced
  <2> DEFINE e == echoed[d] + hand[d]  l == Len(inbox[d])  l1 == Len(inbox'[d])  z == sent[d]  z1 == sent'[d]
  <2>2. e \in Nat /\ l \in Nat /\ z \in Nat
    BY LenProperties DEF IInv, Counted
  <2>3. IF kind = "http" THEN e + l <= z ELSE e + l = z
    BY <1>2 DEF IInv, TypeOK
  <2>4. (l1 = l /\ z1 = z) \/ (l1 = l + 1 /\ z1 = z + 1)
    BY <1>2, <1>4 DEF IInv, Counted
  <2> HIDE DEF e, l, l1, z, z1
  <2>5. IF kind = "http" THEN e + l1 <= z1 ELSE e + l1 = z1
    BY <2>2, <2>3, <2>4
  <2> QED  BY <2>5 DEF e, l1, z1
<1>7. TypeOK'
  BY <1>2, <1>6 DEF IInv, TypeOK, Balanced
<1>8. ConnectionsWatched'
  <2>1. ConnectionsWatched
    BY DEF IInv
  <2>2. ASSUME NEW fd \in Fds \ watched, conn[fd] # None
        PROVE  /\ kind = "select"
               /\ client[conn[fd]] \in {"closed", "reset"} /\ inbox'[conn[fd]] = <<>>
    <3>1. /\ kind = "select"
          /\ client[conn[fd]] \in {"closed", "reset"} /\ inbox[conn[fd]] = <<>>
      BY <2>1, <2>2 DEF ConnectionsWatched
    <3>2. conn[fd] \in Clients
      BY <2>2 DEF IInv, TypeOK
    <3>3. conn[fd] # c
      BY <1>2, <3>1
    <3> QED  BY <1>4, <3>1, <3>2, <3>3
  <2> QED  BY <1>2, <2>1, <2>2 DEF ConnectionsWatched
<1>9. StillReadable'
  BY <1>2, <1>4 DEF IInv, TypeOK, StillReadable, Readable
<1>10. NoTurns' /\ OnePlace'
  BY <1>2 DEF IInv, NoTurns, OnePlace
<1> QED  BY <1>5, <1>7, <1>8, <1>9, <1>10 DEF IInv

(* The end of a connection is as readable as a message; and a client may   *)
(* read its answers.                                                       *)
LEMMA LeaveStep ==
  ASSUME IInv, NEW c \in Clients, ClientCloses(c) \/ ClientResets(c) \/ ClientReads(c)
  PROVE  IInv'
<1> USE DEF serverVars, clientVars, sendVars
<1>1. /\ UNCHANGED <<kind, todo, watched, conn, process, sent, backlog, inbox, hand, echoed>>
      /\ blocked' \subseteq blocked
  BY DEF ClientCloses, ClientResets, ClientReads
<1>2. \/ client' = client /\ failed' = failed
      \/ /\ client[c] \in {"open", "closed"}
         /\ client'[c] \in {"closed", "reset"} /\ \A d \in Clients \ {c} : client'[d] = client[d]
         /\ client' \in [Clients -> {"new", "open", "closed", "reset"}]
         /\ failed' \in [Clients -> BOOLEAN]
  BY DEF ClientCloses, ClientResets, ClientReads, IInv, TypeOK
<1>3. TypeOK' /\ Counted'
  BY <1>1, <1>2 DEF IInv, TypeOK, Counted
<1>4. \A fd \in Fds : conn[fd] \in Clients \cup {None}
  BY DEF IInv, TypeOK
<1>5. ConnectionsWatched'
  BY <1>1, <1>2, <1>4 DEF IInv, ConnectionsWatched
<1>6. StillReadable'
  BY <1>1, <1>2, <1>4 DEF IInv, TypeOK, StillReadable, Readable
<1>7. NoTurns' /\ OnePlace'
  <2>1. \A i \in DOMAIN backlog : backlog[i] \in Clients
    BY LenProperties, ElementOfSeq DEF IInv, TypeOK
  <2> QED  BY <1>1, <1>2, <1>4, <2>1 DEF IInv, NoTurns, OnePlace
<1> QED  BY <1>3, <1>5, <1>6, <1>7 DEF IInv

(* A server that starts has nothing yet; nor does a stutter change a thing.*)
LEMMA StutterOrStartup ==
  ASSUME IInv, UNCHANGED vars \/ Startup
  PROVE  IInv'
<1>1. /\ UNCHANGED <<kind, todo, watched, conn, client, sent, backlog, failed, inbox, hand, echoed, blocked>>
      /\ process' = process \/ (process = "starting" /\ process' \in {"up", "exited"})
  BY DEF Startup, vars, serverVars, clientVars, sendVars
<1>2. TypeOK' /\ Counted'
  BY <1>1 DEF IInv, TypeOK, Counted
<1>3. ConnectionsWatched' /\ StillReadable' /\ NoTurns' /\ OnePlace'
  BY <1>1 DEF IInv, ConnectionsWatched, StillReadable, Readable, NoTurns, OnePlace
<1> QED  BY <1>2, <1>3 DEF IInv

(* The inductive invariant holds in every reachable state.                 *)
LEMMA Invariance == Spec => []IInv
<1>1. ASSUME IInv, Accept PROVE IInv'
  <2>1. Counted'
    BY <1>1 DEF Accept, Dispose, clientVars, sendVars, IInv, Counted
  <2> QED  BY <1>1, <2>1, AcceptKeeps DEF IInv, Tables
<1>2. ASSUME IInv, Wait \/ AcceptFails PROVE IInv'
  BY <1>2, TurnKeeps DEF IInv, Tables
<1>3. IInv /\ [Next]_vars => IInv'
  BY <1>1, <1>2, HandlingStep, SendingStep, ConnectStep, SendStep, LeaveStep, StutterOrStartup DEF Next
<1> QED  BY InitIInv, <1>3, PTL DEF Spec
-----------------------------------------------------------------------------
(* Every message is answered, is being answered or waits to be received,   *)
(* but for those that http_server answers together or not at all; and a    *)
(* send() that waits for its client has something left for it.             *)
THEOREM AnswersBalance == Spec => []TypeOK
<1>1. IInv => TypeOK
  BY DEF IInv
<1> QED  BY Invariance, <1>1, PTL

(* disposs of all five servers: what is watched is open, no end of a       *)
(* connection is missed, an event is for the connection it was reported    *)
(* of, and no client has two descriptors.                                  *)
THEOREM WatchesConnections == Spec => []ConnectionsWatched
<1>1. IInv => ConnectionsWatched
  BY DEF IInv
<1> QED  BY Invariance, <1>1, PTL
=============================================================================
