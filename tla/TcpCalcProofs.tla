---------------------------- MODULE TcpCalcProofs ----------------------------
(***************************************************************************)
(* Proofs about TcpCalc, for any number of clients and of requests.  While *)
(* a client has only ever received whole answers, its last request is in   *)
(* one place at a time: part in Recv's restr and part on its way, or being *)
(* worked on, or answered.  So Recv never collects more than one request,  *)
(* and the text it looks at always begins where a request begins.          *)
(***************************************************************************)
EXTENDS TcpCalc, SequenceTheorems, TLAPS

(* Only what has been asked comes to the server, and on a connection.      *)
Piece == (1 .. MaxRequests) \X (1 .. 3)
OnlyRequests == \A c \in Clients : /\ toServer[c] \in Seq(Piece) /\ restr[c] \in Seq(Piece)
                                   /\ client[c] = "new" => thread[c] = "none"

(* Between two requests; and where the last one is: on its way to Decode,  *)
(* with the thread that works on it, or answered.                          *)
Idle(c)   == restr[c] = <<>> /\ toServer[c] = <<>> /\ thread[c] # "replying"
Asking(c) == /\ restr[c] \o toServer[c] = Request(sent[c]) /\ toServer[c] # <<>>
             /\ thread[c] \in {"backlog", "receiving"}
             /\ toClient[c] = <<>> /\ ~refused[c]
Working(c) == /\ restr[c] = <<>> /\ toServer[c] = <<>>
              /\ thread[c] = "replying" /\ job[c] = sent[c]
              /\ toClient[c] = <<>> /\ ~refused[c]
Answered(c) == Idle(c) /\ thread[c] = "receiving" /\ toClient[c] = Answer(sent[c])

(* Where the last request of a client can be.                              *)
OneAtATime(c) ==
  /\ lost[c] = {}
  /\ client[c] = "new" => thread[c] = "none" /\ Idle(c) /\ toClient[c] = <<>> /\ sent[c] = 0
  /\ client[c] = "sending" => /\ thread[c] \in {"backlog", "receiving"} /\ Idle(c)
                              /\ toClient[c] = <<>> /\ (sent[c] > 0 => got[c] = Answer(sent[c]))
  /\ client[c] = "waiting" => sent[c] > 0 /\ (Asking(c) \/ Working(c) \/ Answered(c))
  /\ client[c] = "left"    => (sent[c] > 0 /\ (Asking(c) \/ Working(c))) \/ Idle(c)
  /\ client[c] # "left"    => ~refused[c]

(* The inductive invariant.                                                *)
IInv == /\ TypeOK /\ OnlyRequests
        /\ \A c \in Clients : short[c] \/ OneAtATime(c)
        /\ process = "dead" => \E c \in Clients : short[c]
-----------------------------------------------------------------------------
(* The lengths and the pieces of requests and answers.                     *)
LEMMA Framing ==
  ASSUME NEW r \in 1 .. MaxRequests
  PROVE  /\ Request(r) \in Seq(Piece) /\ Len(Request(r)) = 3
         /\ \A i \in 1 .. 3 : Request(r)[i] = <<r, i>>
<1>1. \A i \in 1 .. 3 : <<r, i>> \in Piece
  BY DEF Piece
<1>2. Request(r) = [i \in 1 .. 3 |-> <<r, i>>]
  BY DEF Request, Pieces
<1>3. Request(r) \in Seq(Piece) /\ DOMAIN Request(r) = 1 .. 3
  BY <1>1, <1>2
<1> QED  BY <1>2, <1>3

(* An answer, too, is a sequence of its pieces.                            *)
LEMMA Answering ==
  ASSUME NEW r \in 0 .. MaxRequests
  PROVE  /\ Answer(r) \in Stream(2) /\ Len(Answer(r)) = 2
         /\ \A i \in 1 .. 2 : Answer(r)[i] = <<r, i>>
<1>1. \A i \in 1 .. 2 : <<r, i>> \in (0 .. MaxRequests) \X (1 .. 2)
  OBVIOUS
<1>2. Answer(r) = [i \in 1 .. 2 |-> <<r, i>>]
  BY DEF Answer, Pieces
<1>3. Answer(r) \in Stream(2) /\ DOMAIN Answer(r) = 1 .. 2
  BY <1>1, <1>2 DEF Stream
<1> QED  BY <1>2, <1>3

(* A stream is cut in two: what recv returns and what is left.             *)
LEMMA Cut ==
  ASSUME NEW S, NEW s \in Seq(S), NEW n \in 1 .. Len(s)
  PROVE  /\ SubSeq(s, 1, n) \in Seq(S) /\ Len(SubSeq(s, 1, n)) = n
         /\ \A i \in 1 .. n : SubSeq(s, 1, n)[i] = s[i]
         /\ SubSeq(s, n + 1, Len(s)) \in Seq(S) /\ Len(SubSeq(s, n + 1, Len(s))) = Len(s) - n
         /\ SubSeq(s, 1, n) \o SubSeq(s, n + 1, Len(s)) = s
<1>1. Len(s) \in Nat /\ \A i \in 1 .. Len(s) : s[i] \in S
  BY LenProperties, ElementOfSeq
<1>2. \A i \in 1 .. n : s[i] \in S
  BY <1>1
<1>3. \A i \in n + 1 .. Len(s) : s[i] \in S
  BY <1>1
<1>4. /\ SubSeq(s, 1, n) \in Seq(S) /\ Len(SubSeq(s, 1, n)) = n
      /\ \A i \in 1 .. n : SubSeq(s, 1, n)[i] = s[i]
  BY <1>1, <1>2, SubSeqProperties
<1>5. SubSeq(s, n + 1, Len(s)) \in Seq(S) /\ Len(SubSeq(s, n + 1, Len(s))) = Len(s) - n
  BY <1>1, <1>3, SubSeqProperties
<1>6. SubSeq(s, 1, n) \o SubSeq(s, n + 1, Len(s)) = s
  BY <1>1, ConcatAdjacentSubSeq, SubSeqFull
<1> QED  BY <1>4, <1>5, <1>6

(* Concatenation is associative.                                           *)
Regroups(s, t, u) == (s \o t) \o u = s \o (t \o u)
LEMMA Regrouping ==
  ASSUME NEW S, NEW s \in Seq(S), NEW t \in Seq(S), NEW u \in Seq(S)
  PROVE  Regroups(s, t, u)
BY ConcatAssociative DEF Regroups

(* The text that Recv has after a further recv, and what is left to come.  *)
LEMMA Collected ==
  ASSUME NEW S, NEW a \in Seq(S), NEW b \in Seq(S), NEW n \in 1 .. Len(b)
  PROVE  /\ a \o SubSeq(b, 1, n) \in Seq(S)
         /\ Len(a \o SubSeq(b, 1, n)) = Len(a) + n
         /\ (a \o SubSeq(b, 1, n)) \o SubSeq(b, n + 1, Len(b)) = a \o b
<1> DEFINE come == SubSeq(b, 1, n)  rest == SubSeq(b, n + 1, Len(b))
<1>1. come \in Seq(S) /\ rest \in Seq(S)
  BY Cut
<1>2. Len(come) = n /\ come \o rest = b
  BY Cut
<1> HIDE DEF come, rest
<1>3. a \o come \in Seq(S) /\ Len(a \o come) = Len(a) + n
  BY <1>1, <1>2, ConcatProperties
<1>4. (a \o come) \o rest = a \o (come \o rest)
  <2>1. Regroups(a, come, rest)
    BY <1>1, Regrouping
  <2> QED  BY <2>1 DEF Regroups
<1> QED  BY <1>2, <1>3, <1>4 DEF come, rest

(* While nothing has gone wrong, all that Recv can have is the beginning   *)
(* of the client's last request, and Decode finds it when it is complete.  *)
LEMMA RecvInStep ==
  ASSUME IInv, NEW c \in Clients, ~short[c], NEW n \in 1 .. Len(toServer[c]),
         NEW text, Reads(c, n, text)
  PROVE  /\ Asking(c) /\ sent[c] \in 1 .. MaxRequests /\ client[c] \in {"waiting", "left"}
         /\ ~Garbled(text)
         /\ text \in Seq(Piece) /\ text \o toServer'[c] = Request(sent[c])
         /\ ~Whole(text) => toServer'[c] # <<>>
         /\ Whole(text)  => /\ toServer'[c] = <<>> /\ text[1][1] = sent[c]
                            /\ SubSeq(text, 4, Len(text)) = <<>>
<1> DEFINE rest == SubSeq(toServer[c], n + 1, Len(toServer[c]))  r == sent[c]
<1>1. toServer[c] # <<>> /\ thread[c] = "receiving" /\ text = restr[c] \o SubSeq(toServer[c], 1, n)
  BY EmptySeq DEF Reads, IInv, OnlyRequests
<1>2. Asking(c) /\ r > 0 /\ client[c] \in {"waiting", "left"}
  BY <1>1 DEF IInv, TypeOK, OneAtATime, Idle, Working, Answered
<1>3. r \in 1 .. MaxRequests
  BY <1>2, MaxRequestsAssumption DEF IInv, TypeOK
<1>4. toServer'[c] = rest
  BY DEF Reads, IInv, TypeOK
<1>5. restr[c] \in Seq(Piece) /\ toServer[c] \in Seq(Piece)
  BY DEF IInv, OnlyRequests
<1>6. text \in Seq(Piece) /\ rest \in Seq(Piece) /\ Len(text) = Len(restr[c]) + n
      /\ text \o rest = Request(r)
  <2>1. rest \in Seq(Piece)
    BY <1>5, Cut
  <2>2. /\ text \in Seq(Piece) /\ Len(text) = Len(restr[c]) + n
        /\ text \o rest = restr[c] \o toServer[c]
    BY <1>1, <1>5, Collected
  <2> QED  BY <1>2, <2>1, <2>2 DEF Asking
<1>7. Len(text) \in Nat \ {0} /\ Len(rest) \in Nat
  BY <1>5, <1>6, LenProperties
<1> HIDE DEF rest, r
<1>8. Len(text) + Len(rest) = 3 /\ \A i \in 1 .. Len(text) : text[i] = <<r, i>>
  <2>1. Len(text \o rest) = 3 /\ \A i \in 1 .. 3 : (text \o rest)[i] = <<r, i>>
    BY <1>3, <1>6, Framing
  <2>2. /\ Len(text \o rest) = Len(text) + Len(rest)
        /\ \A i \in 1 .. Len(text) + Len(rest) :
             (text \o rest)[i] = IF i <= Len(text) THEN text[i] ELSE rest[i - Len(text)]
    BY <1>6, ConcatProperties
  <2> QED  BY <1>7, <2>1, <2>2
<1>9. text[1] = <<r, 1>>
  BY <1>7, <1>8
<1>10. rest = <<>> <=> Len(rest) = 0
  BY <1>6, EmptySeq
<1>11. Whole(text) => Len(text) = 3 /\ rest = <<>> /\ SubSeq(text, 4, Len(text)) = <<>>
  <2>1. Whole(text) => Len(text) = 3 /\ Len(rest) = 0
    <3>1. Whole(text) => Len(text) >= 3
      BY DEF Whole
    <3> DEFINE come == Len(text)  left == Len(rest)
    <3>2. come + left = 3 /\ come \in Nat /\ left \in Nat
      BY <1>7, <1>8
    <3>3. Whole(text) => come >= 3
      BY <3>1
    <3> HIDE DEF come, left
    <3>4. Whole(text) => come = 3 /\ left = 0
      BY <3>2, <3>3
    <3> QED  BY <3>4 DEF come, left
  <2>2. Len(text) = 3 => SubSeq(text, 4, Len(text)) = <<>>
    BY SubSeqEmpty
  <2> QED  BY <1>10, <2>1, <2>2
<1>12. ~Whole(text) => rest # <<>>
  BY <1>7, <1>8, <1>9, <1>10 DEF Whole
<1>13. ~Garbled(text)
  BY <1>9 DEF Garbled
<1> QED  BY <1>2, <1>3, <1>4, <1>6, <1>9, <1>11, <1>12, <1>13 DEF r
-----------------------------------------------------------------------------
(* One client's connection is none of the others' business.                *)
LEMMA OthersUntouched ==
  ASSUME NEW d \in Clients, short[d] \/ OneAtATime(d),
         client'[d] = client[d], sent'[d] = sent[d], got'[d] = got[d], short'[d] = short[d],
         toServer'[d] = toServer[d], toClient'[d] = toClient[d], refused'[d] = refused[d],
         thread'[d] = thread[d], restr'[d] = restr[d], job'[d] = job[d], lost'[d] = lost[d]
  PROVE  short'[d] \/ OneAtATime(d)'
BY DEF OneAtATime, Asking, Working, Answered, Idle

(* No client is there at first.                                            *)
LEMMA InitIInv == Init => IInv
<1> SUFFICES ASSUME Init PROVE IInv
  OBVIOUS
<1>1. <<>> \in Stream(2) /\ <<>> \in Stream(3) /\ <<>> \in Seq(Piece)
  BY EmptySeq DEF Stream
<1>2. TypeOK /\ OnlyRequests
  BY <1>1, MaxRequestsAssumption, MaxDescriptorsAssumption DEF Init, TypeOK, OnlyRequests
<1> QED  BY <1>2 DEF Init, IInv, OneAtATime, Idle

(* The clients' steps.                                                     *)
LEMMA ClientTypes ==
  ASSUME IInv, NEW c \in Clients, Client(c)
  PROVE  TypeOK' /\ OnlyRequests'
<1> USE MaxRequestsAssumption, MaxDescriptorsAssumption DEF IInv
<1>1. CASE Connect(c) \/ ConnectFails(c)
  BY <1>1, ZenonT(30) DEF Connect, ConnectFails, streamVars, threadVars, TypeOK, OnlyRequests
<1>2. CASE ClientSend(c)
  <2> DEFINE r == sent[c] + 1  s == toServer[c] \o Request(r)
  <2>1. r \in 1 .. MaxRequests
    BY <1>2 DEF ClientSend, TypeOK
  <2>2. s \in Seq(Piece)
    BY <2>1, Framing, ConcatProperties DEF OnlyRequests
  <2>3. s \in Stream(3)
    <3>1. Piece \subseteq (0 .. MaxRequests) \X (1 .. 3)
      BY DEF Piece
    <3> QED  BY <2>2, <3>1, SeqMonotonic DEF Stream
  <2>4. sent' = [sent EXCEPT ![c] = r] /\ toServer' = [toServer EXCEPT ![c] = s]
    BY <1>2 DEF ClientSend, TypeOK
  <2> HIDE DEF r, s
  <2>5. OnlyRequests'
    BY <1>2, <2>2, <2>4 DEF ClientSend, threadVars, TypeOK, OnlyRequests
  <2>6. sent' \in [Clients -> 0 .. MaxRequests] /\ toServer' \in [Clients -> Stream(3)]
    BY <2>1, <2>3, <2>4 DEF TypeOK
  <2>7. TypeOK'
    BY <1>2, <2>6 DEF ClientSend, threadVars, TypeOK
  <2> QED  BY <2>5, <2>7
<1>3. CASE ClientRecv(c)
  <2>1. PICK n \in 1 .. Len(toClient[c]) :
          /\ got' = [got EXCEPT ![c] = SubSeq(toClient[c], 1, n)]
          /\ toClient' = [toClient EXCEPT ![c] = SubSeq(@, n + 1, Len(@))]
          /\ short' = [short EXCEPT ![c] = @ \/ got'[c][n][2] # 2]
    BY <1>3 DEF ClientRecv
  <2>2. toClient[c] \in Stream(2)
    BY DEF TypeOK
  <2>3. SubSeq(toClient[c], 1, n) \in Stream(2)
        /\ SubSeq(toClient[c], n + 1, Len(toClient[c])) \in Stream(2)
    BY <2>2, Cut DEF Stream
  <2>4. short' \in [Clients -> BOOLEAN]
    BY <2>1 DEF TypeOK
  <2> QED  BY <1>3, <2>1, <2>3, <2>4 DEF ClientRecv, threadVars, TypeOK, OnlyRequests
<1>4. CASE ClientLeaves(c)
  <2>1. <<>> \in Stream(2)
    BY EmptySeq DEF Stream
  <2>2. refused' \in [Clients -> BOOLEAN]
    BY <1>4 DEF ClientLeaves, TypeOK
  <2> QED  BY <1>4, <2>1, <2>2 DEF ClientLeaves, threadVars, TypeOK, OnlyRequests
<1> QED  BY <1>1, <1>2, <1>3, <1>4 DEF Client

(* A client's own step keeps it in step, unless its recv was short.        *)
LEMMA ClientKeepsInStep ==
  ASSUME IInv, NEW c \in Clients, Client(c), ~short[c]
  PROVE  short'[c] \/ OneAtATime(c)'
<1>1. OneAtATime(c) /\ TypeOK
  BY DEF IInv
<1>2. CASE Connect(c) \/ ConnectFails(c)
  BY <1>1, <1>2 DEF Connect, ConnectFails, streamVars, threadVars, TypeOK, OneAtATime, Idle
<1>3. CASE ClientSend(c)
  <2> DEFINE r == sent[c] + 1
  <2>1. r \in 1 .. MaxRequests /\ sent'[c] = r
    BY <1>1, <1>3, MaxRequestsAssumption DEF ClientSend, TypeOK
  <2>2. toServer'[c] = Request(r) /\ restr'[c] = <<>> /\ Request(r) # <<>>
    <3>1. toServer'[c] = <<>> \o Request(r) /\ restr'[c] = <<>>
      BY <1>1, <1>3, <2>1 DEF ClientSend, threadVars, TypeOK, OneAtATime, Idle
    <3>2. Request(r) \in Seq(Piece) /\ Request(r) # <<>>
      BY <2>1, Framing, EmptySeq
    <3> QED  BY <3>1, <3>2, ConcatEmptySeq
  <2>3. restr'[c] \o toServer'[c] = Request(r)
    BY <2>1, <2>2, Framing, ConcatEmptySeq
  <2>4. Asking(c)'
    BY <1>1, <1>3, <2>1, <2>2, <2>3 DEF ClientSend, threadVars, OneAtATime, Asking
  <2>5. client'[c] = "waiting" /\ ~refused'[c] /\ lost'[c] = {} /\ sent'[c] > 0
    BY <1>1, <1>3, <2>1 DEF ClientSend, threadVars, TypeOK, OneAtATime
  <2> QED  BY <2>4, <2>5 DEF OneAtATime
<1>4. CASE ClientRecv(c)
  <2>1. PICK n \in 1 .. Len(toClient[c]) :
          /\ got' = [got EXCEPT ![c] = SubSeq(toClient[c], 1, n)]
          /\ toClient' = [toClient EXCEPT ![c] = SubSeq(@, n + 1, Len(@))]
          /\ short' = [short EXCEPT ![c] = @ \/ got'[c][n][2] # 2]
    BY <1>4 DEF ClientRecv
  <2> DEFINE r == sent[c]
  <2>2. toClient[c] # <<>>
    BY <2>1, EmptySeq
  <2>3. r \in 1 .. MaxRequests /\ Answered(c)
    BY <1>1, <1>4, <2>2, MaxRequestsAssumption DEF ClientRecv, TypeOK, OneAtATime, Asking, Working
  <2>4. toClient[c] = Answer(r) /\ Answer(r) \in Stream(2) /\ Len(Answer(r)) = 2
        /\ Answer(r)[1] = <<r, 1>>
    BY <2>3, Answering DEF Answered
  <2> HIDE DEF r
  <2>5. n \in {1, 2}
    BY <2>1, <2>4
  <2>6. CASE n = 1
    <3>1. SubSeq(toClient[c], 1, n)[1] = <<r, 1>>
      BY <2>1, <2>4, Cut DEF Stream
    <3>2. got'[c][n] = <<r, 1>>
      BY <1>1, <2>1, <2>6, <3>1 DEF TypeOK
    <3>3. got'[c][n][2] # 2
      BY <3>2
    <3>4. short'[c]
      BY <1>1, <2>1, <3>3 DEF TypeOK
    <3> QED  BY <3>4
  <2>7. CASE n = 2
    <3>1. SubSeq(toClient[c], 1, n) = Answer(r) /\ SubSeq(toClient[c], n + 1, Len(toClient[c])) = <<>>
      BY <2>4, <2>7, SubSeqFull, SubSeqEmpty DEF Stream
    <3>2. got'[c] = Answer(r) /\ toClient'[c] = <<>>
      BY <1>1, <2>1, <3>1 DEF TypeOK
    <3>3. /\ client'[c] = "sending" /\ Idle(c)' /\ thread'[c] = "receiving"
          /\ ~refused'[c] /\ lost'[c] = {} /\ sent'[c] = r
      BY <1>1, <1>4, <2>3 DEF ClientRecv, threadVars, TypeOK, OneAtATime, Answered, Idle, r
    <3> QED  BY <3>2, <3>3 DEF OneAtATime
  <2> QED  BY <2>5, <2>6, <2>7
<1>5. CASE ClientLeaves(c)
  BY <1>1, <1>5 DEF ClientLeaves, threadVars, TypeOK, OneAtATime, Asking, Working, Answered, Idle
<1> QED  BY <1>2, <1>3, <1>4, <1>5 DEF Client

(* Types and step together: a client's step keeps the invariant.           *)
LEMMA ClientStep ==
  ASSUME IInv, NEW c \in Clients, Client(c)
  PROVE  IInv'
<1>1. TypeOK' /\ OnlyRequests'
  BY ClientTypes
<1>2. ASSUME NEW d \in Clients, d # c
      PROVE  /\ client'[d] = client[d] /\ sent'[d] = sent[d] /\ got'[d] = got[d]
             /\ short'[d] = short[d] /\ toServer'[d] = toServer[d] /\ toClient'[d] = toClient[d]
             /\ refused'[d] = refused[d] /\ thread'[d] = thread[d] /\ restr'[d] = restr[d]
             /\ job'[d] = job[d] /\ lost'[d] = lost[d]
  BY <1>2 DEF IInv, TypeOK, Client, Connect, ConnectFails, ClientSend, ClientRecv, ClientLeaves,
              streamVars, threadVars
<1>3. \A d \in Clients : short[d] => short'[d]
  BY DEF IInv, TypeOK, Client, Connect, ConnectFails, ClientSend, ClientRecv, ClientLeaves
<1>4. \A d \in Clients : short'[d] \/ OneAtATime(d)'
  BY <1>2, <1>3, ClientKeepsInStep, OthersUntouched DEF IInv
<1>5. process' = process
  BY DEF Client, Connect, ConnectFails, ClientSend, ClientRecv, ClientLeaves
<1> QED  BY <1>1, <1>3, <1>4, <1>5 DEF IInv
-----------------------------------------------------------------------------
(* What a further recv makes of the two ends of the stream has its types.  *)
LEMMA RecvTypes ==
  ASSUME IInv, NEW c \in Clients, NEW n \in 1 .. Len(toServer[c]), NEW text, Reads(c, n, text)
  PROVE  /\ toServer' \in [Clients -> Stream(3)]
         /\ \A d \in Clients : toServer'[d] \in Seq(Piece)
         /\ text \in Seq(Piece) /\ text \in Stream(3)
         /\ RequestsIn(text) \subseteq 1 .. MaxRequests
         /\ RequestsIn(SubSeq(text, 4, Len(text))) \subseteq 1 .. MaxRequests
         /\ Whole(text) => text[1][1] \in 1 .. MaxRequests
<1> DEFINE rest == SubSeq(toServer[c], n + 1, Len(toServer[c]))
<1>1. restr[c] \in Seq(Piece) /\ toServer[c] \in Seq(Piece)
  BY DEF IInv, OnlyRequests
<1>2. text \in Seq(Piece)
  BY <1>1, Collected DEF Reads
<1>3. rest \in Seq(Piece)
  BY <1>1, Cut
<1>4. Piece \subseteq (0 .. MaxRequests) \X (1 .. 3)
  BY MaxRequestsAssumption DEF Piece
<1>5. text \in Stream(3) /\ rest \in Stream(3)
  BY <1>2, <1>3, <1>4, SeqMonotonic DEF Stream
<1>6. toServer' = [toServer EXCEPT ![c] = rest]
  BY DEF Reads
<1> HIDE DEF rest
<1>7. toServer' \in [Clients -> Stream(3)] /\ \A d \in Clients : toServer'[d] \in Seq(Piece)
  BY <1>3, <1>5, <1>6 DEF IInv, TypeOK, OnlyRequests
<1>8. ASSUME NEW s \in Seq(Piece) PROVE RequestsIn(s) \subseteq 1 .. MaxRequests
  <2>1. \A i \in DOMAIN s : s[i] \in Piece
    BY LenProperties, ElementOfSeq
  <2> QED  BY <2>1 DEF RequestsIn, Piece
<1>9. SubSeq(text, 4, Len(text)) \in Seq(Piece)
  <2>1. Len(text) \in Nat /\ \A i \in 1 .. Len(text) : text[i] \in Piece
    BY <1>2, LenProperties, ElementOfSeq
  <2>2. \A i \in 4 .. Len(text) : text[i] \in Piece
    BY <2>1
  <2> QED  BY <2>1, <2>2, SubSeqProperties
<1>10. Whole(text) => text[1] \in Piece
  <2>1. Len(text) \in Nat /\ \A i \in 1 .. Len(text) : text[i] \in Piece
    BY <1>2, LenProperties, ElementOfSeq
  <2> QED  BY <2>1 DEF Whole
<1> QED  BY <1>2, <1>5, <1>7, <1>8, <1>9, <1>10 DEF Piece

(* The server's steps.                                                     *)
LEMMA ServerTypes ==
  ASSUME IInv, NEW c \in Clients, Serve(c)
  PROVE  TypeOK' /\ OnlyRequests'
<1> USE MaxRequestsAssumption, MaxDescriptorsAssumption DEF IInv
<1>1. CASE Accept(c)
  BY <1>1 DEF Accept, clientVars, streamVars, TypeOK, OnlyRequests
<1>2. CASE RecvPart(c)
  <2>1. PICK n \in 1 .. Len(toServer[c]) :
          /\ Reads(c, n, restr[c] \o SubSeq(toServer[c], 1, n))
          /\ restr' = [restr EXCEPT ![c] = restr[c] \o SubSeq(toServer[c], 1, n)]
    BY <1>2 DEF RecvPart
  <2> DEFINE text == restr[c] \o SubSeq(toServer[c], 1, n)
  <2>2. /\ toServer' \in [Clients -> Stream(3)] /\ \A d \in Clients : toServer'[d] \in Seq(Piece)
        /\ text \in Seq(Piece) /\ text \in Stream(3)
    BY <2>1, RecvTypes
  <2>3. restr' = [restr EXCEPT ![c] = text] /\ thread[c] = "receiving"
    BY <2>1 DEF Reads
  <2>4. UNCHANGED <<clientVars, toClient, refused, thread, job, lost, process, free>>
    BY <1>2 DEF RecvPart
  <2> HIDE DEF text
  <2> QED  BY <2>2, <2>3, <2>4 DEF clientVars, TypeOK, OnlyRequests
<1>3. CASE RecvMessage(c)
  <2>1. PICK n \in 1 .. Len(toServer[c]) :
          LET text == restr[c] \o SubSeq(toServer[c], 1, n)
          IN  /\ Reads(c, n, text) /\ Whole(text)
              /\ job' = [job EXCEPT ![c] = text[1][1]]
              /\ lost' = [lost EXCEPT ![c] = @ \cup RequestsIn(SubSeq(text, 4, Len(text)))]
    BY <1>3 DEF RecvMessage
  <2> DEFINE text == restr[c] \o SubSeq(toServer[c], 1, n)
             more == RequestsIn(SubSeq(text, 4, Len(text)))
             head == text[1][1]
  <2>2. /\ toServer' \in [Clients -> Stream(3)] /\ \A d \in Clients : toServer'[d] \in Seq(Piece)
        /\ head \in 1 .. MaxRequests /\ more \subseteq 1 .. MaxRequests
    BY <2>1, RecvTypes
  <2>3. job' = [job EXCEPT ![c] = head] /\ lost' = [lost EXCEPT ![c] = @ \cup more]
    BY <2>1
  <2>4. /\ thread' = [thread EXCEPT ![c] = "replying"] /\ restr' = [restr EXCEPT ![c] = <<>>]
        /\ UNCHANGED <<clientVars, toClient, refused, process, free>>
    BY <1>3 DEF RecvMessage
  <2> HIDE DEF text, more, head
  <2>5. <<>> \in Seq(Piece) /\ <<>> \in Stream(3)
    BY EmptySeq DEF Stream
  <2>6. job' \in [Clients -> 0 .. MaxRequests] /\ lost' \in [Clients -> SUBSET (1 .. MaxRequests)]
    <3>1. lost[c] \cup more \in SUBSET (1 .. MaxRequests)
      BY <2>2 DEF TypeOK
    <3>2. lost' \in [Clients -> SUBSET (1 .. MaxRequests)]
      BY <2>3, <3>1 DEF TypeOK
    <3>3. job' \in [Clients -> 0 .. MaxRequests]
      BY <2>2, <2>3 DEF TypeOK
    <3> QED  BY <3>2, <3>3
  <2>7. /\ restr' \in [Clients -> Stream(3)] /\ \A d \in Clients : restr'[d] \in Seq(Piece)
        /\ \A d \in Clients : restr'[d] # <<>> => thread'[d] = "receiving"
        /\ \A d \in Clients : client[d] = "new" => thread'[d] = "none"
    BY <2>1, <2>4, <2>5 DEF TypeOK, OnlyRequests, Reads
  <2> QED  BY <2>2, <2>4, <2>6, <2>7 DEF clientVars, TypeOK, OnlyRequests
<1>4. CASE RecvGarbled(c)
  <2>1. PICK n \in 1 .. Len(toServer[c]) :
          LET text == restr[c] \o SubSeq(toServer[c], 1, n)
          IN  /\ Reads(c, n, text)
              /\ \/ process' = "dead" /\ UNCHANGED threadVars
                 \/ /\ thread' = [thread EXCEPT ![c] = "replying"]
                    /\ job' = [job EXCEPT ![c] = 0]
                    /\ restr' = [restr EXCEPT ![c] = <<>>]
                    /\ lost' = [lost EXCEPT ![c] = @ \cup RequestsIn(text)]
                    /\ UNCHANGED process
    BY <1>4 DEF RecvGarbled
  <2> DEFINE text == restr[c] \o SubSeq(toServer[c], 1, n)
             more == RequestsIn(text)
  <2>2. /\ toServer' \in [Clients -> Stream(3)] /\ \A d \in Clients : toServer'[d] \in Seq(Piece)
        /\ more \subseteq 1 .. MaxRequests
    BY <2>1, RecvTypes
  <2>3. UNCHANGED <<clientVars, toClient, refused, free>>
    BY <1>4 DEF RecvGarbled
  <2>4. <<>> \in Seq(Piece) /\ <<>> \in Stream(3)
    BY EmptySeq DEF Stream
  <2>5. CASE process' = "dead" /\ UNCHANGED threadVars
    BY <2>2, <2>3, <2>5 DEF clientVars, threadVars, TypeOK, OnlyRequests
  <2>6. CASE /\ thread' = [thread EXCEPT ![c] = "replying"]
             /\ job' = [job EXCEPT ![c] = 0]
             /\ restr' = [restr EXCEPT ![c] = <<>>]
             /\ lost' = [lost EXCEPT ![c] = @ \cup more]
             /\ UNCHANGED process
    <3> HIDE DEF more
    <3>1. /\ job' \in [Clients -> 0 .. MaxRequests]
          /\ lost' \in [Clients -> SUBSET (1 .. MaxRequests)]
      <4>1. lost[c] \cup more \in SUBSET (1 .. MaxRequests)
        BY <2>2 DEF TypeOK
      <4>2. lost' \in [Clients -> SUBSET (1 .. MaxRequests)]
        BY <2>6, <4>1 DEF TypeOK
      <4>3. job' \in [Clients -> 0 .. MaxRequests]
        BY <2>6 DEF TypeOK
      <4> QED  BY <4>2, <4>3
    <3>2. /\ restr' \in [Clients -> Stream(3)] /\ \A d \in Clients : restr'[d] \in Seq(Piece)
          /\ \A d \in Clients : restr'[d] # <<>> => thread'[d] = "receiving"
          /\ \A d \in Clients : client[d] = "new" => thread'[d] = "none"
      BY <2>1, <2>4, <2>6 DEF TypeOK, OnlyRequests, Reads
    <3> QED  BY <2>2, <2>3, <2>6, <3>1, <3>2 DEF clientVars, TypeOK, OnlyRequests
  <2> QED  BY <2>1, <2>5, <2>6
<1>5. CASE RecvEnd(c)
  <2>1. <<>> \in Seq(Piece) /\ <<>> \in Stream(3)
    BY EmptySeq DEF Stream
  <2> QED  BY <1>5, <2>1 DEF RecvEnd, clientVars, streamVars, TypeOK, OnlyRequests
<1>6. CASE Reply(c)
  <2> DEFINE s == toClient[c] \o Answer(job[c])
  <2>1. s \in Stream(2)
    BY Answering, ConcatProperties, SMTT(30) DEF TypeOK, Stream
  <2> HIDE DEF s
  <2>2. \/ refused' = [refused EXCEPT ![c] = TRUE] /\ UNCHANGED toClient
        \/ toClient' = [toClient EXCEPT ![c] = s] /\ UNCHANGED refused
    BY <1>6 DEF Reply, s
  <2>3. toClient' \in [Clients -> Stream(2)] /\ refused' \in [Clients -> BOOLEAN]
    BY <2>1, <2>2 DEF TypeOK
  <2> QED  BY <1>6, <2>3 DEF Reply, clientVars, TypeOK, OnlyRequests
<1>7. CASE ReplyKills(c)
  BY <1>7 DEF ReplyKills, clientVars, streamVars, threadVars, TypeOK, OnlyRequests
<1> QED  BY <1>1, <1>2, <1>3, <1>4, <1>5, <1>6, <1>7 DEF Serve

(* With a client in step a connection stays in step and kills nobody.      *)
LEMMA ServerKeepsInStep ==
  ASSUME IInv, NEW c \in Clients, Serve(c), ~short[c]
  PROVE  OneAtATime(c)' /\ process' = process
<1>1. OneAtATime(c) /\ TypeOK
  BY DEF IInv
<1>2. CASE Accept(c)
  BY <1>1, <1>2 DEF Accept, clientVars, streamVars, TypeOK, OneAtATime, Asking, Working, Answered,
                    Idle
<1>3. CASE RecvPart(c)
  <2>1. PICK n \in 1 .. Len(toServer[c]) :
          LET text == restr[c] \o SubSeq(toServer[c], 1, n)
          IN  Reads(c, n, text) /\ ~Whole(text) /\ restr' = [restr EXCEPT ![c] = text]
    BY <1>3 DEF RecvPart
  <2> DEFINE text == restr[c] \o SubSeq(toServer[c], 1, n)
  <2>2. /\ Asking(c) /\ sent[c] > 0 /\ client[c] \in {"waiting", "left"}
        /\ text \o toServer'[c] = Request(sent[c]) /\ toServer'[c] # <<>>
    <3>1. Reads(c, n, text) /\ ~Whole(text)
      BY <2>1
    <3> HIDE DEF text
    <3> QED  BY <3>1, RecvInStep
  <2>3. restr'[c] = text
    BY <1>1, <2>1 DEF TypeOK
  <2> HIDE DEF text
  <2>4. UNCHANGED <<client, sent, got, toClient, refused, thread, job, lost, process, free>>
    BY <1>3 DEF RecvPart, clientVars
  <2>5. Asking(c)'
    BY <2>2, <2>3, <2>4 DEF Asking
  <2> QED  BY <1>1, <2>2, <2>4, <2>5 DEF OneAtATime
<1>4. CASE RecvMessage(c)
  <2>1. PICK n \in 1 .. Len(toServer[c]) :
          LET text == restr[c] \o SubSeq(toServer[c], 1, n)
          IN  /\ Reads(c, n, text) /\ Whole(text)
              /\ job' = [job EXCEPT ![c] = text[1][1]]
              /\ lost' = [lost EXCEPT ![c] = @ \cup RequestsIn(SubSeq(text, 4, Len(text)))]
    BY <1>4 DEF RecvMessage
  <2> DEFINE text == restr[c] \o SubSeq(toServer[c], 1, n)
  <2>2. /\ Asking(c) /\ sent[c] > 0 /\ client[c] \in {"waiting", "left"}
        /\ toServer'[c] = <<>> /\ text[1][1] = sent[c]
        /\ SubSeq(text, 4, Len(text)) = <<>>
    <3>1. Reads(c, n, text) /\ Whole(text)
      BY <2>1
    <3> HIDE DEF text
    <3> QED  BY <3>1, RecvInStep
  <2>3. RequestsIn(<<>>) = {}
    BY DEF RequestsIn
  <2>4. job'[c] = sent[c] /\ lost'[c] = {}
    BY <1>1, <2>1, <2>2, <2>3 DEF TypeOK, OneAtATime
  <2>5. /\ UNCHANGED <<client, sent, got, toClient, refused, process, free>>
        /\ thread'[c] = "replying" /\ restr'[c] = <<>>
    BY <1>1, <1>4 DEF RecvMessage, clientVars, TypeOK
  <2>6. Working(c)'
    BY <2>2, <2>4, <2>5 DEF Asking, Working
  <2> QED  BY <1>1, <2>2, <2>4, <2>5, <2>6 DEF OneAtATime
<1>5. CASE RecvGarbled(c)
  <2>1. PICK n \in 1 .. Len(toServer[c]) :
          LET text == restr[c] \o SubSeq(toServer[c], 1, n)
          IN  Reads(c, n, text) /\ Garbled(text)
    BY <1>5 DEF RecvGarbled
  <2> QED  BY <2>1, RecvInStep
<1>6. CASE RecvEnd(c)
  BY <1>1, <1>6 DEF RecvEnd, clientVars, streamVars, TypeOK, OneAtATime, Asking, Working, Answered,
                    Idle
<1>7. CASE Reply(c)
  <2>1. Working(c) /\ sent[c] > 0 /\ client[c] \in {"waiting", "left"}
    BY <1>1, <1>7 DEF Reply, TypeOK, OneAtATime, Asking, Answered, Idle
  <2>2. /\ Idle(c)' /\ thread'[c] = "receiving"
        /\ UNCHANGED <<client, sent, got, lost, process>>
    BY <1>1, <1>7, <2>1 DEF Reply, clientVars, TypeOK, Working, Idle
  <2>3. CASE client[c] = "left"
    BY <1>1, <2>2, <2>3 DEF OneAtATime
  <2>4. CASE client[c] = "waiting"
    <3>1. toClient'[c] = <<>> \o Answer(sent[c]) /\ ~refused'[c]
      BY <1>1, <1>7, <2>1, <2>4 DEF Reply, TypeOK, Working
    <3>2. Answer(sent[c]) \in Stream(2)
      BY <1>1, Answering DEF TypeOK
    <3>3. toClient'[c] = Answer(sent[c])
      BY <3>1, <3>2, ConcatEmptySeq DEF Stream
    <3> QED  BY <1>1, <2>1, <2>2, <2>4, <3>1, <3>3 DEF OneAtATime, Answered
  <2> QED  BY <2>1, <2>3, <2>4
<1>8. CASE ReplyKills(c)
  BY <1>1, <1>8 DEF ReplyKills, TypeOK, OneAtATime, Asking, Working, Answered, Idle
<1> QED  BY <1>2, <1>3, <1>4, <1>5, <1>6, <1>7, <1>8 DEF Serve

(* Types and step together: a server's step keeps the invariant.           *)
LEMMA ServerStep ==
  ASSUME IInv, NEW c \in Clients, Serve(c)
  PROVE  IInv'
<1>1. TypeOK' /\ OnlyRequests'
  BY ServerTypes
<1>2. ASSUME NEW d \in Clients, d # c
      PROVE  /\ client'[d] = client[d] /\ sent'[d] = sent[d] /\ got'[d] = got[d]
             /\ short'[d] = short[d] /\ toServer'[d] = toServer[d] /\ toClient'[d] = toClient[d]
             /\ refused'[d] = refused[d] /\ thread'[d] = thread[d] /\ restr'[d] = restr[d]
             /\ job'[d] = job[d] /\ lost'[d] = lost[d]
  BY <1>2 DEF IInv, TypeOK, Serve, Accept, RecvPart, RecvMessage, RecvGarbled, RecvEnd, Reply,
              ReplyKills, Reads, clientVars, streamVars, threadVars
<1>3. short' = short
  BY DEF Serve, Accept, RecvPart, RecvMessage, RecvGarbled, RecvEnd, Reply, ReplyKills, clientVars
<1>4. \A d \in Clients : short'[d] \/ OneAtATime(d)'
  BY <1>2, <1>3, ServerKeepsInStep, OthersUntouched DEF IInv
<1>5. process' = "dead" => \E d \in Clients : short'[d]
  BY <1>3, ServerKeepsInStep DEF IInv
<1> QED  BY <1>1, <1>4, <1>5 DEF IInv

(* A step that changes nothing breaks nothing, nor does the start.         *)
LEMMA StutterOrStartup ==
  ASSUME IInv, UNCHANGED vars \/ Startup
  PROVE  IInv'
<1>1. UNCHANGED <<clientVars, streamVars, threadVars>>
  BY DEF Startup, vars
<1>2. TypeOK' /\ OnlyRequests'
  BY <1>1 DEF Startup, vars, clientVars, streamVars, threadVars, IInv, TypeOK, OnlyRequests
<1>3. \A d \in Clients : short'[d] \/ OneAtATime(d)'
  BY <1>1, OthersUntouched DEF clientVars, streamVars, threadVars, IInv
<1>4. process' = "dead" => \E d \in Clients : short'[d]
  BY <1>1 DEF Startup, vars, clientVars, IInv
<1> QED  BY <1>2, <1>3, <1>4 DEF IInv

(* The inductive invariant holds in every reachable state.                 *)
LEMMA Invariance == Spec => []IInv
<1>1. IInv /\ [Next]_vars => IInv'
  BY ClientStep, ServerStep, StutterOrStartup DEF Next
<1> QED  BY InitIInv, <1>1, PTL DEF Spec
-----------------------------------------------------------------------------
(* Recv's restr exists only inside Recv, job is a request that was sent or *)
(* none, and the streams consist of the pieces of requests and of answers. *)
THEOREM TypesCorrect == Spec => []TypeOK
<1>1. IInv => TypeOK
  BY DEF IInv
<1> QED  BY Invariance, <1>1, PTL

(* Encode, Decode and Recv: as long as a client receives whole answers, no *)
(* request of its is discarded and it shows the answer to its last one;    *)
(* and as long as all do, the server neither throws nor gets a SIGPIPE.    *)
THEOREM FramingIsEnough == Spec => []FramingHolds
<1>1. IInv => FramingHolds
  BY DEF IInv, OneAtATime, FramingHolds, InStep
<1> QED  BY Invariance, <1>1, PTL
=============================================================================
