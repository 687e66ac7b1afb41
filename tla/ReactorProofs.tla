---------------------------- MODULE ReactorProofs ----------------------------
(***************************************************************************)
(* Proofs about Reactor, for any descriptors, any set of requests and any  *)
(* bounds.                                                                 *)
(*                                                                         *)
(* The service of an input buffer is a recursive function of it.  That it  *)
(* is what its definition says (ServiceUnfolds) is shown by induction over *)
(* the length of the input: functions that serve all shorter inputs exist  *)
(* and agree, for the length after the least that fails has one too.       *)
(*                                                                         *)
(* That no edge is lost between two turns of the loop follows from where   *)
(* an edge is while the loop turns: on the ready list, in the batch that   *)
(* epoll_wait has returned, or with the thread, which keeps it until recv  *)
(* or send has said that there is no more.                                 *)
(*                                                                         *)
(* That requests and answers keep step follows from what is in the buffer  *)
(* of a connection, in the kernel and with the client together: the        *)
(* requests from some j-th on, without the method of that one if it stood  *)
(* in for a missing line break.  A service takes whole requests off the    *)
(* front (again by induction over the length of the input), and what has   *)
(* been answered or waits to be is for those before the j-th.              *)
(***************************************************************************)
EXTENDS Reactor, FiniteSetTheorems, SequenceTheorems, WellFoundedInduction, TLAPS

(* Multiplication and addition of numbers.                                 *)
LEMMA Distributes ==
  ASSUME NEW a \in Nat, NEW c \in Nat, NEW d \in Nat
  PROVE  a * (c + d) = a * c + a * d /\ a * c \in Nat /\ a * d \in Nat
OBVIOUS

(* Every non-empty set of numbers has a least one.  Proofs by induction    *)
(* below look at the least number for which a statement fails.             *)
LEMMA LeastNumber ==
  ASSUME NEW T \in SUBSET Nat, T # {}
  PROVE  \E n \in T : \A m \in T : n <= m
<1> DEFINE R == OpToRel(<, Nat)
<1>1. IsWellFoundedOn(R, Nat)
  BY NatLessThanWellFounded
<1> HIDE DEF R
<1>2. PICK n \in T : \A m \in T : ~ (<<m, n>> \in R)
  BY <1>1, WFMin
<1>3. ASSUME NEW m \in T PROVE n <= m
  <2>1. <<m, n>> \in Nat \X Nat /\ m \in Nat /\ n \in Nat
    OBVIOUS
  <2>2. ~ (m < n)
    BY <1>2, <2>1 DEF R, OpToRel
  <2> QED  BY <2>1, <2>2
<1> QED  BY <1>3

(* The least element of a set of numbers.                                  *)
LEMMA MinOfNumbers ==
  ASSUME NEW T \in SUBSET Nat, T # {}
  PROVE  Min(T) \in T /\ \A m \in T : Min(T) <= m
<1>1. PICK n \in T : \A m \in T : n <= m
  BY LeastNumber
<1> QED  BY <1>1 DEF Min
-----------------------------------------------------------------------------
(* What a service of the input returns.                                    *)
Results == [in : Seq(Pieces), answers : Nat,
            end : {"fine", "throws", "overflow", "undefined", "spins"}]

(* The pieces.                                                             *)
LEMMA PieceTypes ==
  ASSUME NEW p \in Pieces
  PROVE  /\ p.length \in Int \cup {NaN}
         /\ p.kind \in {"method", "rest", "blank", "body", "zero", "sep"}
<1> USE DEF Piece, MethodOf, RestOf
<1>1. CASE \E r \in Requests : p = MethodOf(r)
  BY <1>1
<1>2. CASE \E r \in Requests : p = RestOf(r)
  <2>1. PICK r \in Requests : p = RestOf(r)
    BY <1>2
  <2>2. r.length \in Int \cup {NaN}
    BY RequestsAssumption
  <2> QED  BY <2>1, <2>2
<1>3. CASE \E k \in {"blank", "body", "zero", "sep"} : p = Piece(k)
  BY <1>3
<1> QED  BY <1>1, <1>2, <1>3 DEF Pieces

(* The end of the first head.                                              *)
LEMMA HeadEndFound ==
  ASSUME NEW in \in Seq(Pieces)
  PROVE  /\ HeadEnd(in) \in 0 .. Len(in)
         /\ HeadEnd(in) > 0 => in[HeadEnd(in)].kind = "blank"
         /\ \A i \in 1 .. Len(in) : in[i].kind = "blank" => HeadEnd(in) > 0 /\ HeadEnd(in) <= i
<1> DEFINE I == {i \in 1 .. Len(in) : in[i].kind = "blank"}
<1>1. HeadEnd(in) = IF I # {} THEN Min(I) ELSE 0
  BY DEF HeadEnd, SelectInSeq
<1>2. I \in SUBSET Nat /\ I \subseteq 1 .. Len(in) /\ \A i \in I : in[i].kind = "blank"
  OBVIOUS
<1>3. \A i \in 1 .. Len(in) : in[i].kind = "blank" => i \in I
  OBVIOUS
<1> HIDE DEF I
<1>4. CASE I = {}
  BY <1>1, <1>3, <1>4
<1>5. CASE I # {}
  <2>1. Min(I) \in I /\ \A m \in I : Min(I) <= m
    BY <1>2, <1>5, MinOfNumbers
  <2>2. HeadEnd(in) = Min(I)
    BY <1>1, <1>5
  <2> DEFINE e == HeadEnd(in)
  <2>3. e \in I /\ \A m \in I : e <= m
    BY <2>1, <2>2
  <2> HIDE DEF e
  <2>4. e \in 1 .. Len(in) /\ in[e].kind = "blank" /\ e > 0
    BY <1>2, <2>3
  <2>5. \A i \in 1 .. Len(in) : in[i].kind = "blank" => e <= i
    BY <1>3, <2>3
  <2>6. Len(in) \in Nat
    OBVIOUS
  <2> QED  BY <2>4, <2>5, <2>6 DEF e
<1> QED  BY <1>4, <1>5

(* A complete request is in the input.                                     *)
LEMMA SizeOfComplete ==
  ASSUME NEW in \in Seq(Pieces), Complete(in), HeadRead(in).length # NaN
  PROVE  RequestSize(in) \in 0 .. Len(in)
<1>1. HeadEnd(in) \in 1 .. Len(in)
  BY HeadEndFound DEF Complete
<1>2. HeadRead(in) \in Pieces
  BY <1>1 DEF HeadRead
<1>3. HeadRead(in).length \in Int
  BY <1>2, PieceTypes
<1>4. RequestSize(in) \in Int
  BY <1>1, <1>3 DEF RequestSize
<1> QED  BY <1>4 DEF Complete

(* Taking a request off leaves pieces, and fewer of them unless its size   *)
(* is 0.                                                                   *)
LEMMA EraseShortens ==
  ASSUME NEW in \in Seq(Pieces), Complete(in), HeadRead(in).length # NaN, RequestSize(in) # 0
  PROVE  Erase(in) \in Seq(Pieces) /\ Len(Erase(in)) < Len(in)
<1> DEFINE size == RequestSize(in)
<1>1. size \in 1 .. Len(in)
  BY SizeOfComplete
<1>2. Erase(in) = SubSeq(in, size + 1, Len(in))
  BY DEF Erase
<1> HIDE DEF size
<1> QED  BY <1>1, <1>2
-----------------------------------------------------------------------------
(* One call of service with g for the calls that follow it.                *)
Body(g, in) ==
  IF ~Complete(in) THEN [in |-> in, answers |-> 0, end |-> "fine"]
  ELSE IF HeadRead(in).length = NaN THEN [in |-> in, answers |-> 0, end |-> "throws"]
  ELSE IF _service(in) \notin {"none", "answer"}
       THEN [in |-> in, answers |-> 0, end |-> _service(in)]
  ELSE IF RequestSize(in) = 0 THEN [in |-> in, answers |-> 0, end |-> "spins"]
  ELSE IF _service(in) = "answer" THEN [g[Erase(in)] EXCEPT !.answers = @ + 1] ELSE g[Erase(in)]

(* The inputs of fewer than n pieces, and a function that is a service of  *)
(* them.                                                                   *)
Shorter(n) == {in \in Seq(Pieces) : Len(in) < n}
Serves(g, n) == g \in [Shorter(n) -> Results] /\ \A in \in Shorter(n) : g[in] = Body(g, in)

(* Only shorter inputs matter to a call.                                   *)
LEMMA BodyOfShorter ==
  ASSUME NEW in \in Seq(Pieces), NEW g, NEW h,
         \A s \in Seq(Pieces) : Len(s) < Len(in) => g[s] = h[s]
  PROVE  Body(g, in) = Body(h, in)
BY EraseShortens DEF Body

(* One answer more.                                                        *)
LEMMA OneMore ==
  ASSUME NEW r \in Results
  PROVE  /\ [r EXCEPT !.answers = @ + 1] \in Results
         /\ [r EXCEPT !.answers = @ + 1].in = r.in /\ [r EXCEPT !.answers = @ + 1].end = r.end
         /\ [r EXCEPT !.answers = @ + 1].answers = r.answers + 1
<1>1. r = [in |-> r.in, answers |-> r.answers, end |-> r.end] /\ r.answers \in Nat
  BY DEF Results
<1>2. [r EXCEPT !.answers = @ + 1] = [in |-> r.in, answers |-> r.answers + 1, end |-> r.end]
  BY <1>1
<1> QED  BY <1>1, <1>2 DEF Results

(* A call returns a result if the calls that follow it do.                 *)
LEMMA BodyType ==
  ASSUME NEW in \in Seq(Pieces), NEW g,
         \A s \in Seq(Pieces) : Len(s) < Len(in) => g[s] \in Results
  PROVE  Body(g, in) \in Results
<1>1. _service(in) \in {"none", "overflow", "undefined", "answer"}
  BY DEF _service
<1>2. \A e \in {"fine", "throws", "overflow", "undefined", "spins"} :
        [in |-> in, answers |-> 0, end |-> e] \in Results
  BY DEF Results
<1>3. CASE \/ ~Complete(in) \/ HeadRead(in).length = NaN
           \/ _service(in) \notin {"none", "answer"} \/ RequestSize(in) = 0
  BY <1>1, <1>2, <1>3 DEF Body
<1>4. CASE /\ Complete(in) /\ HeadRead(in).length # NaN
           /\ _service(in) \in {"none", "answer"} /\ RequestSize(in) # 0
  <2> DEFINE r == g[Erase(in)]
  <2>1. r \in Results
    BY <1>4, EraseShortens
  <2>2. [r EXCEPT !.answers = @ + 1] \in Results
    BY <2>1, OneMore
  <2> QED  BY <1>4, <2>1, <2>2 DEF Body
<1> QED  BY <1>3, <1>4

(* Two services agree where both are defined.                              *)
LEMMA ServicesAgree ==
  ASSUME NEW n \in Nat, NEW m \in Nat, NEW g, NEW h, Serves(g, n), Serves(h, m),
         NEW in \in Seq(Pieces), Len(in) < n, Len(in) < m
  PROVE  g[in] = h[in]
<1> DEFINE Both == {s \in Shorter(n) : Len(s) < m}
           Bad  == {s \in Both : g[s] # h[s]}
           Lens == {Len(s) : s \in Bad}
<1> SUFFICES ASSUME Bad # {} PROVE FALSE
  BY DEF Shorter
<1>1. Lens \in SUBSET Nat /\ Lens # {}
  <2>1. Bad \subseteq Seq(Pieces)
    BY DEF Shorter
  <2>2. \A s \in Bad : Len(s) \in Nat
    BY <2>1
  <2> HIDE DEF Bad
  <2> QED  BY <2>2
<1>2. PICK k \in Lens : \A l \in Lens : k <= l
  BY <1>1, LeastNumber
<1>3. PICK s \in Bad : Len(s) = k
  BY <1>2
<1>4. \A r \in Seq(Pieces) : Len(r) < Len(s) => g[r] = h[r]
  <2> SUFFICES ASSUME NEW r \in Seq(Pieces), Len(r) < Len(s), g[r] # h[r] PROVE FALSE
    OBVIOUS
  <2>1. Len(r) \in Nat /\ Len(s) \in Nat /\ Len(s) < n /\ Len(s) < m
    BY <1>3 DEF Shorter
  <2>2. r \in Bad
    BY <2>1 DEF Shorter
  <2>3. k <= Len(r)
    BY <1>2, <2>2
  <2> QED  BY <1>3, <2>1, <2>3
<1>5. s \in Shorter(n) /\ s \in Shorter(m) /\ s \in Seq(Pieces) /\ g[s] # h[s]
  BY <1>3 DEF Shorter
<1> HIDE DEF Both, Bad, Lens
<1>6. Body(g, s) = Body(h, s)
  BY <1>4, <1>5, BodyOfShorter
<1> QED  BY <1>5, <1>6 DEF Serves

(* There is a service of inputs of any length.                             *)
LEMMA ServiceOfLength ==
  ASSUME NEW n \in Nat
  PROVE  \E g : Serves(g, n)
<1> DEFINE Bad == {m \in Nat : ~ \E g : Serves(g, m)}
<1> SUFFICES ASSUME Bad # {} PROVE FALSE
  OBVIOUS
<1>1. PICK m \in Bad : \A k \in Bad : m <= k
  BY LeastNumber
<1>2. m \in Nat /\ ~ \E g : Serves(g, m)
  BY <1>1
<1>3. CASE m = 0
  <2> DEFINE none == [in \in {} |-> {}]
  <2>1. Shorter(m) = {}
    BY <1>3 DEF Shorter
  <2>2. Serves(none, m)
    BY <2>1 DEF Serves
  <2> QED  BY <1>2, <2>2
<1>4. CASE m # 0
  <2>1. m - 1 \in Nat /\ m - 1 \notin Bad
    BY <1>1, <1>2, <1>4
  <2>2. PICK g : Serves(g, m - 1)
    BY <2>1
  <2> DEFINE h == [in \in Shorter(m) |-> Body(g, in)]
  <2>3. ASSUME NEW in \in Shorter(m) PROVE h[in] \in Results /\ h[in] = Body(h, in)
    <3>1. in \in Seq(Pieces) /\ Len(in) \in Nat /\ Len(in) < m
      BY DEF Shorter
    <3>2. ASSUME NEW s \in Seq(Pieces), Len(s) < Len(in) PROVE g[s] = h[s] /\ g[s] \in Results
      <4>1. s \in Shorter(m - 1) /\ s \in Shorter(m)
        BY <1>2, <3>1, <3>2 DEF Shorter
      <4> QED  BY <2>2, <4>1 DEF Serves
    <3> HIDE DEF h
    <3>3. Body(g, in) = Body(h, in) /\ Body(g, in) \in Results
      BY <3>1, <3>2, BodyOfShorter, BodyType
    <3> QED  BY <3>3 DEF h
  <2>4. Serves(h, m)
    BY <2>3 DEF Serves
  <2> QED  BY <1>2, <2>4
<1> QED  BY <1>3, <1>4

(* So service is what its definition says, for every input.                *)
LEMMA ServiceUnfolds == service = [in \in Seq(Pieces) |-> Body(service, in)]
<1> DEFINE sol(n) == CHOOSE g : Serves(g, n)
           G == [in \in Seq(Pieces) |-> sol(Len(in) + 1)[in]]
<1>1. ASSUME NEW n \in Nat PROVE Serves(sol(n), n)
  BY ServiceOfLength
<1> HIDE DEF sol
<1>2. ASSUME NEW in \in Seq(Pieces) PROVE G[in] = Body(G, in)
  <2> DEFINE g == sol(Len(in) + 1)
  <2>1. Len(in) \in Nat /\ Len(in) + 1 \in Nat /\ Len(in) < Len(in) + 1
    OBVIOUS
  <2>2. Serves(g, Len(in) + 1)
    BY <1>1, <2>1
  <2>3. G[in] = g[in] /\ g[in] = Body(g, in)
    BY <2>1, <2>2 DEF Serves, Shorter
  <2>4. ASSUME NEW s \in Seq(Pieces), Len(s) < Len(in) PROVE g[s] = G[s]
    <3>1. Len(s) \in Nat /\ Len(s) + 1 \in Nat /\ Len(s) < Len(s) + 1 /\ Len(s) < Len(in) + 1
      BY <2>1, <2>4
    <3>2. Serves(sol(Len(s) + 1), Len(s) + 1)
      BY <1>1, <3>1
    <3>3. g[s] = sol(Len(s) + 1)[s]
      BY <2>1, <2>2, <3>1, <3>2, ServicesAgree
    <3> QED  BY <3>3
  <2> HIDE DEF g, G
  <2>5. Body(g, in) = Body(G, in)
    BY <2>4, BodyOfShorter
  <2> QED  BY <2>3, <2>5
<1>3. G = [in \in Seq(Pieces) |-> Body(G, in)]
  BY <1>2
<1> HIDE DEF G
<1>4. \E g : g = [in \in Seq(Pieces) |-> Body(g, in)]
  BY <1>3
<1> QED  BY <1>4 DEF service, Body

(* What service returns is a result.                                       *)
LEMMA ServiceType ==
  ASSUME NEW in \in Seq(Pieces)
  PROVE  service[in] \in Results
<1> DEFINE Bad  == {s \in Seq(Pieces) : service[s] \notin Results}
           Lens == {Len(s) : s \in Bad}
<1> SUFFICES ASSUME Bad # {} PROVE FALSE
  OBVIOUS
<1>1. Lens \in SUBSET Nat /\ Lens # {}
  <2>1. \A s \in Bad : Len(s) \in Nat
    OBVIOUS
  <2> HIDE DEF Bad
  <2> QED  BY <2>1
<1>2. PICK k \in Lens : \A l \in Lens : k <= l
  BY <1>1, LeastNumber
<1>3. PICK s \in Bad : Len(s) = k
  BY <1>2
<1>4. ASSUME NEW r \in Seq(Pieces), Len(r) < Len(s) PROVE service[r] \in Results
  <2> SUFFICES ASSUME service[r] \notin Results PROVE FALSE
    OBVIOUS
  <2>1. r \in Bad /\ Len(r) \in Nat /\ Len(s) \in Nat
    BY <1>3
  <2>2. k <= Len(r)
    BY <1>2, <2>1
  <2> QED  BY <1>3, <1>4, <2>1, <2>2
<1>5. s \in Seq(Pieces) /\ service[s] \notin Results
  BY <1>3
<1> HIDE DEF Bad, Lens
<1>6. service[s] = Body(service, s)
  BY <1>5, ServiceUnfolds
<1> QED  BY <1>4, <1>5, <1>6, BodyType
-----------------------------------------------------------------------------
Steps  == {"wait", "in", "out", "accept", "recv", "send", "answer", "full", "answerfull"}
Events == [fd : Fds \cup {Listener}, in : BOOLEAN, out : BOOLEAN]

(* The types of what TypeOK says nothing of.                               *)
Types == /\ at \in [step : Steps, event : Events] /\ batch \subseteq Events
         /\ peer \in [Fds -> {"none", "open", "fin", "rst"}]
         /\ refused \in [Fds -> BOOLEAN] /\ backlog \in Nat
         /\ {inbuff, arrived, unsent} \subseteq [Fds -> Seq(Pieces)]

(* The thread, the batch and the ready list know open descriptors only,    *)
(* and an event is in one place; nothing waits for a closed descriptor.    *)
OpenOnly ==
  /\ at.step = "accept" => at.event.fd = Listener
  /\ at.step \in {"recv", "send", "answer", "full", "answerfull"} => at.event.fd \in connects
  /\ \A e \in batch : e.fd \in connects \cup {Listener}
  /\ at.step # "wait" => \A e \in batch : e.fd # at.event.fd
  /\ ready \subseteq connects \cup {Listener}
  /\ \A f \in Fds : peer[f] = "none" => arrived[f] = <<>>

(* Whoever is reported writable has been reset, or had its buffer full.    *)
LeftOrFull(f) == peer[f] = "rst" \/ mask[f] = "rw"
WritableForAReason ==
  /\ \A e \in batch : e.out /\ e.fd \in connects => LeftOrFull(e.fd)
  /\ at.step # "wait" /\ at.event.out /\ at.event.fd \in connects => LeftOrFull(at.event.fd)
  /\ at.step = "send" => at.event.out
  /\ at.step = "answer" => outbuff[at.event.fd] > 0

(* Where the edges of a connection are: listed, or with the thread.        *)
InEdge(f) == \/ Listed(f, "in")
             \/ Serving(f) /\ \/ at.step = "in" /\ at.event.in
                              \/ at.step \in {"recv", "answer", "answerfull"}
OutEdge(f) == Listed(f, "out") \/ (Serving(f) /\ at.event.out)
Sending(f) == Serving(f) /\ \/ at.step \in {"send", "answer"}
                            \/ at.step \in {"full", "answerfull"} /\ (refused[f] \/ room[f] > 0)
EdgesKept ==
  \A f \in connects :
    /\ Readable(f) => InEdge(f)
    /\ outbuff[f] > 0 /\ peer[f] # "rst" =>
         Sending(f) \/ (mask[f] = "rw" /\ (refused[f] \/ (room[f] > 0 /\ OutEdge(f))))

(* The inductive invariant.                                                *)
IInv == TypeOK /\ Types /\ OpenOnly /\ WritableForAReason /\ EdgesKept
-----------------------------------------------------------------------------
(* What a client writes are pieces, without a zero byte if it is plain.    *)
Bytes == {p \in Pieces : p.kind # "zero"}
LEMMA WireType ==
  ASSUME NEW r \in Requests, NEW S, MethodOf(r) \in S, RestOf(r) \in S,
         \A k \in {"blank", "body", "sep"} : Piece(k) \in S,
         Piece("zero") \in S \/ Plain(r)
  PROVE  Wire(r) \in Seq(S)
<1> DEFINE n == BodyLength(r)
           body == [i \in 1 .. n |-> Piece(IF i = r.zero THEN "zero" ELSE "body")]
           sep  == IF n > 0 /\ r.closed THEN <<Piece("sep")>> ELSE <<>>
           head == <<MethodOf(r), RestOf(r), Piece("blank")>>
<1>1. n \in Nat
  BY DEF BodyLength
<1>2. Plain(r) => r.zero \notin 1 .. n
  BY DEF Plain
<1>3. Wire(r) = head \o body \o sep
  BY DEF Wire
<1>4. head \in Seq(S)
  OBVIOUS
<1>5. sep \in Seq(S)
  OBVIOUS
<1> HIDE DEF n
<1>6. body \in Seq(S)
  <2>1. \A i \in 1 .. n : Piece(IF i = r.zero THEN "zero" ELSE "body") \in S
    BY <1>2
  <2> QED  BY <1>1, <2>1
<1> HIDE DEF body, sep, head
<1> QED  BY <1>3, <1>4, <1>5, <1>6

LEMMA WirePieces ==
  ASSUME NEW r \in Requests
  PROVE  Wire(r) \in Seq(Pieces) /\ (Plain(r) => Wire(r) \in Seq(Bytes))
<1>1. /\ MethodOf(r) \in Pieces /\ RestOf(r) \in Pieces
      /\ \A k \in {"blank", "body", "zero", "sep"} : Piece(k) \in Pieces
  BY DEF Pieces
<1>2. /\ MethodOf(r).kind = "method" /\ RestOf(r).kind = "rest"
      /\ \A k \in {"blank", "body", "sep"} : Piece(k).kind = k
  BY DEF MethodOf, RestOf, Piece
<1>3. /\ MethodOf(r) \in Bytes /\ RestOf(r) \in Bytes
      /\ \A k \in {"blank", "body", "sep"} : Piece(k) \in Bytes
  BY <1>1, <1>2 DEF Bytes
<1>4. Wire(r) \in Seq(Pieces)
  BY <1>1, WireType
<1>5. Plain(r) => Wire(r) \in Seq(Bytes)
  BY <1>3, WireType
<1> QED  BY <1>4, <1>5

(* What the thread can be doing.                                           *)
LEMMA LoopStates ==
  /\ Idle \in [step : Steps, event : Events]
  /\ \A s \in Steps, e \in Events : [step |-> s, event |-> e] \in [step : Steps, event : Events]
<1>1. NoEvent \in Events
  BY DEF NoEvent, Events
<1> QED  BY <1>1 DEF Idle, Steps

(* At first nobody is connected.                                           *)
LEMMA InitIInv == Init => IInv
<1> SUFFICES ASSUME Init PROVE IInv
  OBVIOUS
<1> USE SetsAssumption, SizesAssumption DEF Init, Idle, NoEvent
<1>1. TypeOK
  BY DEF TypeOK
<1>2. Types
  BY DEF Types, Steps, Events
<1>3. OpenOnly /\ WritableForAReason /\ EdgesKept
  BY DEF OpenOnly, WritableForAReason, EdgesKept
<1> QED  BY <1>1, <1>2, <1>3 DEF IInv

(* What is readable or writable.                                           *)
LEMMA EventTypes ==
  ASSUME IInv, NEW f \in Fds \cup {Listener}
  PROVE  Readable(f) \in BOOLEAN /\ Writable(f) \in BOOLEAN
<1> DEFINE some == backlog > 0
           more == arrived[f] # <<>> \/ peer[f] \in {"fin", "rst"}
<1>1. some \in BOOLEAN /\ more \in BOOLEAN
  <2>1. some \in BOOLEAN
    OBVIOUS
  <2>2. more \in BOOLEAN
    BY Zenon
  <2> QED  BY <2>1, <2>2
<1>2. Readable(f) = IF f = Listener THEN some ELSE more
  BY Zenon DEF Readable
<1>3. Writable(f) \in BOOLEAN
  BY DEF Writable
<1> HIDE DEF some, more
<1> QED  BY <1>1, <1>2, <1>3

(* epoll_wait: the ready list becomes the batch.                           *)
LEMMA EpollWaitStep ==
  ASSUME IInv, EpollWait
  PROVE  IInv'
<1> USE DEF EpollWait, connVars, peerVars, sendVars, listenVars
<1>1. \A e \in batch' : e.fd \in ready /\ e = EventOf(e.fd)
  BY DEF EventOf
<1>2. \A f \in ready : Readable(f) \/ Writable(f) => EventOf(f) \in batch'
  OBVIOUS
<1>3. TypeOK'
  BY <1>1 DEF IInv, TypeOK
<1>4. \A f \in ready : EventOf(f) \in Events
  BY EventTypes DEF IInv, TypeOK, EventOf, Events
<1>5. Types'
  BY <1>1, <1>4 DEF IInv, Types
<1>6. OpenOnly'
  BY <1>1 DEF IInv, OpenOnly
<1>7. WritableForAReason'
  <2>1. ASSUME NEW e \in batch', e.out PROVE LeftOrFull(e.fd)'
    <3>1. e.out = Writable(e.fd)
      BY <1>1 DEF EventOf
    <3>2. Writable(e.fd)
      BY <2>1, <3>1
    <3> QED  BY <3>2 DEF Writable, LeftOrFull
  <2> QED  BY <2>1 DEF IInv, WritableForAReason
<1>8. ASSUME NEW f \in connects
      PROVE  /\ Readable(f) => Listed(f, "in")'
             /\ outbuff[f] > 0 /\ peer[f] # "rst" =>
                  mask[f] = "rw" /\ (refused[f] \/ (room[f] > 0 /\ Listed(f, "out")'))
  <2>1. f \in Fds /\ f # Listener
    BY SetsAssumption DEF IInv, TypeOK
  <2>2. ~ Serving(f) /\ batch = {}
    BY DEF Serving
  <2>3. ASSUME Readable(f) PROVE Listed(f, "in")'
    <3>1. f \in ready
      BY <2>2, <2>3 DEF IInv, EdgesKept, InEdge, Listed
    <3>2. EventOf(f) \in batch' /\ EventOf(f).fd = f /\ EventOf(f)["in"]
      BY <1>2, <2>3, <3>1 DEF EventOf
    <3> QED  BY <3>2 DEF Listed
  <2>4. ASSUME outbuff[f] > 0, peer[f] # "rst"
        PROVE  mask[f] = "rw" /\ (refused[f] \/ (room[f] > 0 /\ Listed(f, "out")'))
    <3>1. mask[f] = "rw" /\ (refused[f] \/ (room[f] > 0 /\ f \in ready))
      BY <2>2, <2>4 DEF IInv, EdgesKept, OutEdge, Sending, Listed
    <3>2. ASSUME room[f] > 0, f \in ready PROVE Listed(f, "out")'
      <4>1. Writable(f)
        BY <2>1, <3>1, <3>2 DEF Writable
      <4>2. EventOf(f) \in batch' /\ EventOf(f).fd = f /\ EventOf(f)["out"]
        BY <1>2, <3>2, <4>1 DEF EventOf
      <4> QED  BY <4>2 DEF Listed
    <3> QED  BY <3>1, <3>2
  <2> QED  BY <2>3, <2>4
<1>9. EdgesKept'
  BY <1>8 DEF EdgesKept, Readable, InEdge, OutEdge, Sending, Serving
<1> QED  BY <1>3, <1>5, <1>6, <1>7, <1>9 DEF IInv

(* The next event goes from the batch to the thread.                       *)
LEMMA NextEventStep ==
  ASSUME IInv, NEW e \in batch, NextEvent(e)
  PROVE  IInv'
<1> USE DEF NextEvent, At, connVars, peerVars, sendVars, listenVars
<1>1. TypeOK'
  BY DEF IInv, TypeOK
<1>2. Types'
  BY DEF IInv, Types, Steps
<1>3. OpenOnly'
  BY DEF IInv, TypeOK, OpenOnly
<1>4. WritableForAReason'
  BY DEF IInv, WritableForAReason, LeftOrFull
<1>5. ASSUME NEW f \in connects
      PROVE  (InEdge(f) => InEdge(f)') /\ (OutEdge(f) => OutEdge(f)')
  BY DEF InEdge, OutEdge, Listed, Serving
<1>6. EdgesKept'
  BY <1>5 DEF IInv, EdgesKept, Readable, Sending, Serving
<1> QED  BY <1>1, <1>2, <1>3, <1>4, <1>6 DEF IInv

(* The two tests of looponce, and the start of the program.                *)
LEMMA TestStep ==
  ASSUME IInv, TestIn \/ TestOut \/ Startup
  PROVE  IInv'
<1> USE DEF TestIn, TestOut, Startup, At, Idle, NoEvent, connVars, peerVars, sendVars, listenVars
<1>0. \/ UNCHANGED at
      \/ at.step \in {"in", "out"} /\
           \/ at' = [step |-> "accept", event |-> at.event] /\ at.event.fd = Listener
           \/ at' = [step |-> "recv", event |-> at.event] /\ at.event.in /\ at.event.fd \in connects
           \/ at' = [step |-> "out", event |-> at.event]
              /\ ~ (at.event.in /\ at.event.fd \in connects)
              /\ at.step = "in"
           \/ at' = [step |-> "send", event |-> at.event] /\ at.event.out
              /\ at.event.fd \in connects /\ at.step = "out"
           \/ at' = Idle /\ ~ (at.event.out /\ at.event.fd \in connects) /\ at.step = "out"
  <2>1. CASE TestIn
    <3>1. CASE at.event.in /\ at.event.fd = Listener
      BY <2>1, <3>1
    <3>2. CASE at.event.in /\ at.event.fd \in connects /\ at.event.fd # Listener
      BY <2>1, <3>2
    <3>3. CASE ~ (at.event.in /\ at.event.fd = Listener) /\ ~ (at.event.in /\ at.event.fd \in connects)
      BY <2>1, <3>3
    <3> QED  BY <3>1, <3>2, <3>3
  <2>2. CASE TestOut
    BY <2>2
  <2>3. CASE Startup
    BY <2>3
  <2> QED  BY <2>1, <2>2, <2>3
<1>1. UNCHANGED <<connVars, batch, ready, listenVars, peerVars, sendVars>>
  OBVIOUS
<1> USE <1>0, <1>1
<1>2. TypeOK' /\ Types'
  <2>1. TypeOK'
    BY DEF IInv, TypeOK
  <2>2. at' \in [step : Steps, event : Events]
    <3>1. at \in [step : Steps, event : Events] /\ at.event \in Events
          /\ {"accept", "recv", "out", "send"} \subseteq Steps
      BY DEF IInv, Types, Steps
    <3> HIDE DEF Idle
    <3> QED  BY <3>1, LoopStates
  <2> QED  BY <2>1, <2>2 DEF IInv, Types
<1>3. OpenOnly'
  BY DEF IInv, OpenOnly
<1>4. WritableForAReason'
  BY DEF IInv, WritableForAReason, LeftOrFull
<1>5. EdgesKept'
  <2> SUFFICES ASSUME NEW f \in connects
               PROVE  /\ Readable(f) => InEdge(f)'
                      /\ outbuff[f] > 0 /\ peer[f] # "rst" =>
                           \/ Sending(f)'
                           \/ mask[f] = "rw" /\ (refused[f] \/ (room[f] > 0 /\ OutEdge(f)'))
    BY DEF EdgesKept, Readable
  <2>1. f # Listener
    BY SetsAssumption DEF IInv, TypeOK
  <2>2. Listed(f, "in")' = Listed(f, "in") /\ Listed(f, "out")' = Listed(f, "out")
    BY DEF Listed
  <2> QED  BY <2>1, <2>2 DEF IInv, EdgesKept, InEdge, OutEdge, Sending, Serving
<1> QED  BY <1>2, <1>3, <1>4, <1>5 DEF IInv

(* A new connection has no edges yet.                                      *)
LEMMA AcceptStep ==
  ASSUME IInv, \/ \E f \in Fds : Accept(f)
               \/ AcceptEnds
  PROVE  IInv'
<1>1. ASSUME NEW f \in Fds, Accept(f) PROVE IInv'
  <2> USE <1>1, SetsAssumption, SizesAssumption DEF Accept, Insert, loopVars
  <2>1. TypeOK'
    BY DEF IInv, TypeOK, Types
  <2>2. Types'
    <3>1. peer' \in [Fds -> {"none", "open", "fin", "rst"}] /\ refused' \in [Fds -> BOOLEAN]
          /\ backlog' \in Nat
      BY DEF IInv, Types
    <3>2. {inbuff', arrived', unsent'} \subseteq [Fds -> Seq(Pieces)]
      <4>1. <<>> \in Seq(Pieces)
        OBVIOUS
      <4> QED  BY <4>1 DEF IInv, Types
    <3> QED  BY <3>1, <3>2 DEF IInv, Types
  <2>3. OpenOnly'
    <3>1. \A g \in Fds : peer'[g] = "none" => peer[g] = "none"
      BY DEF IInv, Types
    <3>2. connects \subseteq connects' /\ arrived' = arrived
      OBVIOUS
    <3> QED  BY <3>1, <3>2 DEF IInv, OpenOnly
  <2>4. WritableForAReason'
    BY DEF IInv, TypeOK, WritableForAReason, LeftOrFull, OpenOnly, Types
  <2>5. ASSUME NEW g \in connects', g # f
        PROVE  /\ Readable(g)' = Readable(g) /\ InEdge(g)' = InEdge(g)
               /\ OutEdge(g)' = OutEdge(g) /\ Sending(g)' = Sending(g)
    BY <2>5 DEF IInv, TypeOK, Types, Readable, InEdge, OutEdge, Sending, Serving, Listed
  <2>6. ~ Readable(f)' /\ outbuff'[f] = 0
    BY DEF IInv, TypeOK, Types, OpenOnly, Readable
  <2>7. EdgesKept'
    BY <2>5, <2>6 DEF IInv, TypeOK, Types, EdgesKept
  <2> QED  BY <2>1, <2>2, <2>3, <2>4, <2>7 DEF IInv
<1>2. CASE AcceptEnds
  <2> USE <1>2, SetsAssumption DEF AcceptEnds, At, connVars, peerVars, sendVars, listenVars
  <2>1. TypeOK' /\ Types' /\ OpenOnly'
    BY DEF IInv, TypeOK, Types, Steps, OpenOnly
  <2>2. WritableForAReason'
    BY DEF IInv, WritableForAReason, LeftOrFull
  <2>3. ASSUME NEW f \in connects
        PROVE  /\ Readable(f)' = Readable(f) /\ InEdge(f)' = InEdge(f)
               /\ OutEdge(f)' = OutEdge(f) /\ Sending(f)' = Sending(f)
    BY DEF IInv, TypeOK, OpenOnly, Readable, InEdge, OutEdge, Sending, Serving, Listed
  <2>4. EdgesKept'
    BY <2>3 DEF IInv, EdgesKept
  <2> QED  BY <2>1, <2>2, <2>4 DEF IInv
<1> QED  BY <1>1, <1>2
-----------------------------------------------------------------------------
(* The rest of a stream of pieces, and what a recv() of n of them gives.   *)
LEMMA ServedType ==
  ASSUME IInv, NEW f \in Fds, NEW n \in 1 .. Len(arrived[f])
  PROVE  /\ Served(f, n) \in Results
         /\ SubSeq(arrived[f], n + 1, Len(arrived[f])) \in Seq(Pieces)
<1>1. arrived[f] \in Seq(Pieces) /\ inbuff[f] \in Seq(Pieces)
  BY DEF IInv, Types
<1>2. n \in Nat /\ n <= Len(arrived[f])
  BY <1>1
<1>3. SubSeq(arrived[f], 1, n) \in Seq(Pieces) /\ SubSeq(arrived[f], n + 1, Len(arrived[f])) \in Seq(Pieces)
  BY <1>1, <1>2
<1>4. Appended(f, n) \in Seq(Pieces)
  <2> DEFINE buff == SubSeq(arrived[f], 1, n)
             I    == {i \in 1 .. Len(buff) : buff[i].kind = "zero"}
             zero == SelectInSeq(buff, LAMBDA p : p.kind = "zero")
  <2>1. zero = IF I # {} THEN Min(I) ELSE 0
    BY DEF SelectInSeq
  <2>2. I \in SUBSET Nat /\ I \subseteq 1 .. Len(buff)
    OBVIOUS
  <2>3. Appended(f, n) = IF zero = 0 THEN buff ELSE SubSeq(buff, 1, zero - 1)
    BY DEF Appended
  <2>4. buff \in Seq(Pieces)
    BY <1>3
  <2> HIDE DEF buff, zero, I
  <2>5. zero \in 0 .. Len(buff)
    <3>1. Len(buff) \in Nat
      BY <2>4
    <3>2. CASE I = {}
      BY <2>1, <3>1, <3>2
    <3>3. CASE I # {}
      <4>1. Min(I) \in I
        BY <2>2, <3>3, MinOfNumbers
      <4>2. zero = Min(I)
        BY <2>1, <3>3
      <4>3. zero \in I
        BY <4>1, <4>2, Zenon
      <4>4. zero \in 1 .. Len(buff)
        BY <2>2, <4>3, Zenon
      <4> QED  BY <3>1, <4>4
    <3> QED  BY <3>2, <3>3
  <2> QED  BY <2>3, <2>4, <2>5
<1>5. inbuff[f] \o Appended(f, n) \in Seq(Pieces)
  BY <1>1, <1>4
<1> QED  BY <1>3, <1>5, ServiceType DEF Served

(* recv(): the connection stays with the thread until it has been asked    *)
(* for more and has none; what there is to send is sent before that.       *)
LEMMA RecvStep ==
  ASSUME IInv, NEW f \in Fds, NEW n \in 1 .. Len(arrived[f]), Recv(f, n)
  PROVE  IInv'
<1> USE DEF Recv, At, sendVars, listenVars
<1>1. Served(f, n) \in Results /\ SubSeq(arrived[f], n + 1, Len(arrived[f])) \in Seq(Pieces)
  BY ServedType
<1>2. at.step = "recv" /\ at.event.fd = f /\ f \in connects
  BY DEF IInv, OpenOnly
<1>3. at' = [step |-> IF outbuff'[f] > 0 THEN "answer" ELSE "recv", event |-> at.event]
  OBVIOUS
<1>4. Types'
  <2>1. at' \in [step : Steps, event : Events]
    BY <1>3 DEF IInv, Types, Steps
  <2>2. {inbuff', arrived', unsent'} \subseteq [Fds -> Seq(Pieces)]
    BY <1>1 DEF IInv, Types, Results
  <2> QED  BY <2>1, <2>2 DEF IInv, Types
<1>5. TypeOK'
  <2>1. outbuff' \in [Fds -> Nat]
    <3>1. outbuff[f] + AnswerSize * Served(f, n).answers \in Nat
      <4>1. Served(f, n).answers \in Nat /\ AnswerSize \in Nat /\ outbuff[f] \in Nat
        BY <1>1, SizesAssumption DEF IInv, TypeOK, Results
      <4>2. AnswerSize * Served(f, n).answers \in Nat
        BY <4>1
      <4> QED  BY <4>1, <4>2
    <3> QED  BY <3>1 DEF IInv, TypeOK
  <2>2. \A g \in Fds : {inbuff'[g], arrived'[g], unsent'[g]} \subseteq Seq(Pieces)
    BY <1>4 DEF Types
  <2> QED  BY <2>1, <2>2 DEF IInv, TypeOK
<1>6. OpenOnly'
  BY <1>2, <1>3 DEF IInv, OpenOnly, Types
<1>7. WritableForAReason'
  BY <1>2, <1>3 DEF IInv, WritableForAReason, LeftOrFull
<1>8. ASSUME NEW g \in connects, g # f
      PROVE  /\ Readable(g)' = Readable(g) /\ outbuff'[g] = outbuff[g] /\ InEdge(g)' = InEdge(g)
             /\ OutEdge(g)' = OutEdge(g) /\ Sending(g)' = Sending(g)
  <2>1. arrived'[g] = arrived[g] /\ outbuff'[g] = outbuff[g]
    BY <1>8 DEF IInv, TypeOK, Types
  <2> QED  BY <1>2, <1>3, <1>8, <2>1 DEF Readable, InEdge, OutEdge, Sending, Serving, Listed
<1>9. InEdge(f)' /\ (outbuff'[f] > 0 => Sending(f)')
  BY <1>2, <1>3 DEF InEdge, Sending, Serving
<1>10. EdgesKept'
  BY <1>8, <1>9 DEF IInv, EdgesKept
<1> QED  BY <1>4, <1>5, <1>6, <1>7, <1>10 DEF IInv

(* Del leaves no trace of the connection, whatever the thread goes on with.*)
LEMMA DelStep ==
  ASSUME IInv, NEW f \in Fds, Del(f), at.step # "wait", at.event.fd = f,
         \/ at' = [step |-> "out", event |-> at.event]
         \/ at' = Idle,
         UNCHANGED <<batch, backlog, room, refused>>
  PROVE  IInv'
<1> USE SetsAssumption DEF Del, Idle, NoEvent
<1>1. Types'
  <2>1. at' \in [step : Steps, event : Events]
    <3>1. at.event \in Events /\ "out" \in Steps
      BY DEF IInv, Types, Steps
    <3> HIDE DEF Idle
    <3> QED  BY <3>1, LoopStates
  <2>2. {inbuff', arrived', unsent'} \subseteq [Fds -> Seq(Pieces)]
    <3>1. <<>> \in Seq(Pieces)
      OBVIOUS
    <3> QED  BY <3>1 DEF IInv, Types
  <2> QED  BY <2>1, <2>2 DEF IInv, Types
<1>2. TypeOK'
  <2>1. \A g \in Fds : {inbuff'[g], arrived'[g], unsent'[g]} \subseteq Seq(Pieces)
    BY <1>1 DEF Types
  <2>2. connects' = {g \in Fds : peer'[g] # "none"}
    BY DEF IInv, TypeOK, Types
  <2> QED  BY <2>1, <2>2 DEF IInv, TypeOK
<1>3. OpenOnly'
  <2>1. \A g \in Fds : peer'[g] = "none" => arrived'[g] = <<>>
    BY DEF IInv, OpenOnly, Types
  <2> QED  BY <2>1 DEF IInv, OpenOnly
<1>4. WritableForAReason'
  BY DEF IInv, TypeOK, Types, OpenOnly, WritableForAReason, LeftOrFull
<1>5. ASSUME NEW g \in connects'
      PROVE  /\ g \in connects /\ Readable(g)' = Readable(g) /\ InEdge(g)' = InEdge(g)
             /\ OutEdge(g)' = OutEdge(g) /\ Sending(g)' = Sending(g) /\ peer'[g] = peer[g]
  <2>1. g \in connects /\ g # f /\ g \in Fds
    BY DEF IInv, TypeOK
  <2>2. arrived'[g] = arrived[g] /\ peer'[g] = peer[g]
    BY <2>1 DEF IInv, Types
  <2> QED  BY <2>1, <2>2 DEF Readable, InEdge, OutEdge, Sending, Serving, Listed
<1>6. EdgesKept'
  BY <1>5 DEF IInv, EdgesKept
<1> QED  BY <1>1, <1>2, <1>3, <1>4, <1>6 DEF IInv

(* recv() that returns no data, and what ends the process.                 *)
LEMMA NoDataStep ==
  ASSUME IInv, NEW f \in Fds,
         \/ RecvAgain(f) \/ RecvError(f) \/ SendError(f) \/ SigPipe(f)
         \/ \E n \in 1 .. Len(arrived[f]) : RecvFatal(f, n)
  PROVE  IInv'
<1>1. CASE RecvAgain(f)
  <2> USE <1>1 DEF RecvAgain, At, connVars, peerVars, sendVars, listenVars
  <2>1. TypeOK' /\ OpenOnly'
    BY DEF IInv, TypeOK, OpenOnly
  <2>2. Types'
    BY DEF IInv, Types, Steps
  <2>3. WritableForAReason'
    BY DEF IInv, WritableForAReason, LeftOrFull
  <2>4. ASSUME NEW g \in connects
        PROVE  /\ Readable(g)' = Readable(g) /\ (g # f => InEdge(g)' = InEdge(g))
               /\ OutEdge(g)' = OutEdge(g) /\ Sending(g)' = Sending(g)
    BY DEF Readable, InEdge, OutEdge, Sending, Serving, Listed
  <2>5. ~ Readable(f)
    BY SetsAssumption DEF Readable
  <2>6. EdgesKept'
    BY <2>4, <2>5 DEF IInv, EdgesKept
  <2> QED  BY <2>1, <2>2, <2>3, <2>6 DEF IInv
<1>2. CASE RecvError(f)
  BY <1>2, DelStep DEF RecvError, At, sendVars, listenVars
<1>3. CASE SendError(f)
  BY <1>3, DelStep DEF SendError, sendVars, listenVars
<1>4. CASE SigPipe(f) \/ \E n \in 1 .. Len(arrived[f]) : RecvFatal(f, n)
  <2>1. UNCHANGED <<connVars, batch, at, ready, listenVars, peerVars, sendVars>>
    BY <1>4 DEF SigPipe, RecvFatal
  <2> USE <2>1 DEF connVars, peerVars, sendVars, listenVars
  <2>2. TypeOK' /\ Types' /\ OpenOnly'
    BY DEF IInv, TypeOK, Types, OpenOnly
  <2>3. WritableForAReason'
    BY DEF IInv, WritableForAReason, LeftOrFull
  <2>4. EdgesKept'
    BY DEF IInv, EdgesKept, Readable, InEdge, OutEdge, Sending, Serving, Listed
  <2> QED  BY <2>2, <2>3, <2>4 DEF IInv
<1> QED  BY <1>1, <1>2, <1>3, <1>4

(* send(): the thread leaves the connection when nothing is left to send,  *)
(* or when the buffer is full and an edge will come.                       *)
LEMMA SendStep ==
  ASSUME IInv, NEW f \in Fds,
         \/ \E n \in 1 .. SendBuffer : Send(f, n)
         \/ SendAgain(f)
  PROVE  IInv'
<1>0. /\ at.step \in {"send", "answer"} /\ at.event.fd = f /\ f \in connects /\ f # Listener
      /\ (at.step = "answer" => outbuff[f] > 0)
  BY SetsAssumption DEF Send, SendAgain, IInv, OpenOnly, WritableForAReason
<1>1. ASSUME NEW n \in 1 .. SendBuffer, Send(f, n) PROVE IInv'
  <2> USE <1>0, <1>1, SizesAssumption DEF Send, At, Idle, NoEvent, Return, peerVars, listenVars
  <2>0. /\ outbuff'[f] \in Nat /\ outbuff' \in [Fds -> Nat] /\ room' \in [Fds -> 0 .. SendBuffer]
        /\ \A g \in Fds : g # f => outbuff'[g] = outbuff[g] /\ room'[g] = room[g]
    <3>1. n \in Nat /\ room[f] \in 0 .. SendBuffer /\ outbuff[f] \in Nat
      BY DEF IInv, TypeOK
    <3>2. outbuff[f] - n \in Nat /\ room[f] - n \in 0 .. SendBuffer
      BY <3>1
    <3> QED  BY <3>1, <3>2 DEF IInv, TypeOK
  <2>1. \/ outbuff'[f] = 0 /\ at.step = "answer" /\ at' = [step |-> "recv", event |-> at.event]
        \/ outbuff'[f] = 0 /\ at.step = "send" /\ at' = Idle
        \/ outbuff'[f] > 0 /\ at' = at
    BY <2>0
  <2>2. TypeOK'
    BY <2>0 DEF IInv, TypeOK
  <2>3. Types'
    <3>1. at' \in [step : Steps, event : Events]
      <4>1. at \in [step : Steps, event : Events] /\ at.event \in Events /\ "recv" \in Steps
        BY DEF IInv, Types, Steps
      <4> HIDE DEF Idle
      <4> QED  BY <2>1, <4>1, LoopStates
    <3> QED  BY <3>1 DEF IInv, Types
  <2>4. OpenOnly'
    BY <2>1 DEF IInv, OpenOnly
  <2>5. WritableForAReason'
    BY <2>1 DEF IInv, WritableForAReason, LeftOrFull
  <2>6. ASSUME NEW g \in connects, g # f
        PROVE  /\ Readable(g)' = Readable(g) /\ InEdge(g)' = InEdge(g)
               /\ OutEdge(g)' = OutEdge(g) /\ Sending(g)' = Sending(g)
               /\ outbuff'[g] = outbuff[g] /\ room'[g] = room[g]
    <3>1. outbuff'[g] = outbuff[g] /\ room'[g] = room[g]
      BY <2>0, <2>6 DEF IInv, TypeOK
    <3> QED  BY <2>1, <2>6, <3>1 DEF Readable, InEdge, OutEdge, Sending, Serving, Listed
  <2>7. Readable(f)' = Readable(f) /\ (Readable(f) => InEdge(f)') /\ (outbuff'[f] > 0 => Sending(f)')
    <3>1. Readable(f)' = Readable(f)
      BY DEF Readable
    <3>2. Listed(f, "in")' = Listed(f, "in")
      BY DEF Listed
    <3>3. Readable(f) => InEdge(f)
      BY DEF IInv, EdgesKept
    <3> QED  BY <2>0, <2>1, <3>1, <3>2, <3>3 DEF InEdge, Sending, Serving
  <2>8. EdgesKept'
    BY <2>6, <2>7 DEF IInv, EdgesKept
  <2> QED  BY <2>2, <2>3, <2>4, <2>5, <2>8 DEF IInv
<1>2. CASE SendAgain(f)
  <2> USE <1>0, <1>2 DEF SendAgain, At, connVars, peerVars, listenVars
  <2>1. at' = [step |-> IF at.step = "answer" THEN "answerfull" ELSE "full", event |-> at.event]
    OBVIOUS
  <2>2. TypeOK'
    BY DEF IInv, TypeOK
  <2>3. Types'
    <3>1. at' \in [step : Steps, event : Events]
      BY <2>1 DEF IInv, Types, Steps
    <3> QED  BY <3>1 DEF IInv, Types
  <2>4. OpenOnly'
    BY <2>1 DEF IInv, OpenOnly
  <2>5. WritableForAReason'
    BY <2>1 DEF IInv, WritableForAReason, LeftOrFull
  <2>6. ASSUME NEW g \in connects, g # f
        PROVE  /\ Readable(g)' = Readable(g) /\ InEdge(g)' = InEdge(g)
               /\ OutEdge(g)' = OutEdge(g) /\ Sending(g)' = Sending(g) /\ refused'[g] = refused[g]
    <3>1. refused'[g] = refused[g]
      BY <2>6 DEF IInv, TypeOK, Types
    <3> QED  BY <2>1, <2>6, <3>1 DEF Readable, InEdge, OutEdge, Sending, Serving, Listed
  <2>7. Readable(f)' = Readable(f) /\ (InEdge(f) => InEdge(f)') /\ Sending(f)'
    <3>1. refused'[f]
      BY DEF IInv, Types
    <3> QED  BY <2>1, <3>1 DEF Readable, InEdge, Sending, Serving, Listed
  <2>8. EdgesKept'
    BY <2>6, <2>7 DEF IInv, EdgesKept
  <2> QED  BY <2>2, <2>3, <2>4, <2>5, <2>8 DEF IInv
<1> QED  BY <1>1, <1>2

(* updata_rw: what became pending since the send was refused is listed.    *)
LEMMA UpdataRwStep ==
  ASSUME IInv, NEW f \in Fds, UpdataRw(f)
  PROVE  IInv'
<1>0. /\ at.step \in {"full", "answerfull"} /\ at.event.fd = f /\ f \in connects /\ f # Listener
  BY SetsAssumption DEF UpdataRw, IInv, OpenOnly
<1> USE <1>0 DEF UpdataRw, At, Idle, NoEvent, Return, peerVars, sendVars, listenVars
<1>1. \/ at.step = "answerfull" /\ at' = [step |-> "recv", event |-> at.event]
      \/ at.step = "full" /\ at' = Idle
  OBVIOUS
<1>2. ready \subseteq ready' /\ ready' \subseteq ready \cup {f}
      /\ (Readable(f) \/ room[f] > 0 => f \in ready')
  OBVIOUS
<1>3. TypeOK'
  BY <1>2 DEF IInv, TypeOK
<1>4. Types'
  <2>1. at' \in [step : Steps, event : Events]
    <3>1. at \in [step : Steps, event : Events] /\ at.event \in Events /\ "recv" \in Steps
      BY DEF IInv, Types, Steps
    <3> HIDE DEF Idle
    <3> QED  BY <1>1, <3>1, LoopStates
  <2> QED  BY <2>1 DEF IInv, Types
<1>5. OpenOnly'
  BY <1>1, <1>2 DEF IInv, OpenOnly
<1>6. WritableForAReason'
  BY <1>1 DEF IInv, TypeOK, WritableForAReason, LeftOrFull
<1>7. ASSUME NEW g \in connects, g # f
      PROVE  /\ Readable(g)' = Readable(g) /\ InEdge(g)' = InEdge(g)
             /\ OutEdge(g)' = OutEdge(g) /\ Sending(g)' = Sending(g)
             /\ mask'[g] = mask[g]
  <2>1. mask'[g] = mask[g]
    BY <1>7 DEF IInv, TypeOK, Types
  <2> QED  BY <1>1, <1>2, <1>7, <2>1 DEF Readable, InEdge, OutEdge, Sending, Serving, Listed
<1>8. /\ Readable(f)' = Readable(f) /\ (Readable(f) => InEdge(f)')
      /\ mask'[f] = "rw" /\ (room[f] > 0 => OutEdge(f)')
  BY <1>2 DEF IInv, TypeOK, Types, Readable, InEdge, OutEdge, Listed
<1>9. outbuff[f] > 0 /\ peer[f] # "rst" => refused[f] \/ room[f] > 0
  BY DEF IInv, EdgesKept, Sending, Serving
<1>10. EdgesKept'
  BY <1>7, <1>8, <1>9 DEF IInv, EdgesKept
<1> QED  BY <1>3, <1>4, <1>5, <1>6, <1>10 DEF IInv
-----------------------------------------------------------------------------
(* The environment only adds to the ready list, and makes a connection     *)
(* readable or takes its full buffer away only together with that.         *)
LEMMA ConnectStep ==
  ASSUME IInv, Connect
  PROVE  IInv'
<1> USE SetsAssumption DEF Connect, connVars, loopVars, peerVars, sendVars
<1>1. TypeOK' /\ Types' /\ OpenOnly'
  BY DEF IInv, TypeOK, Types, OpenOnly
<1>2. WritableForAReason'
  BY DEF IInv, WritableForAReason, LeftOrFull
<1>3. ASSUME NEW g \in connects
      PROVE  /\ Readable(g)' = Readable(g) /\ InEdge(g)' = InEdge(g)
             /\ OutEdge(g)' = OutEdge(g) /\ Sending(g)' = Sending(g)
  <2>1. g # Listener
    BY DEF IInv, TypeOK
  <2> QED  BY <2>1 DEF Readable, InEdge, OutEdge, Sending, Serving, Listed
<1>4. EdgesKept'
  BY <1>3 DEF IInv, EdgesKept
<1> QED  BY <1>1, <1>2, <1>4 DEF IInv

(* What a client does to its own connection f.                             *)
LEMMA ClientStep ==
  ASSUME IInv, NEW f \in Fds,
         \/ ClientSends(f) \/ ClientReads(f)
         \/ \E r \in Requests : ClientAsks(f, r)
         \/ \E how \in {"fin", "rst"} : ClientLeaves(f, how)
  PROVE  IInv'
<1> USE SetsAssumption DEF connVars, loopVars, peerVars, sendVars, listenVars
<1>0. f \in connects /\ f # Listener /\ peer[f] \in {"open", "fin"}
      /\ ready \subseteq ready' /\ ready' \subseteq ready \cup {f}
      /\ UNCHANGED <<connects, mask, inbuff, outbuff, batch, at, backlog>>
  BY DEF IInv, TypeOK, ClientSends, ClientReads, ClientAsks, ClientLeaves
<1>1. /\ peer' \in [Fds -> {"none", "open", "fin", "rst"}] /\ peer'[f] \in {"open", "fin", "rst"}
      /\ \A g \in Fds \ {f} : peer'[g] = peer[g]
      /\ {inbuff', arrived', unsent'} \subseteq [Fds -> Seq(Pieces)]
      /\ \A g \in Fds \ {f} : arrived'[g] = arrived[g]
      /\ room' \in [Fds -> 0 .. SendBuffer] /\ refused' \in [Fds -> BOOLEAN]
      /\ \A g \in Fds \ {f} : room'[g] = room[g] /\ refused'[g] = refused[g]
      /\ Readable(f)' = Readable(f) \/ f \in ready'
      /\ peer[f] = "rst" => peer'[f] = "rst"
      /\ \/ refused'[f] = refused[f] /\ room'[f] = room[f]
         \/ refused'[f] = refused[f] /\ room'[f] > 0
         \/ refused[f] /\ room'[f] > 0 /\ (mask[f] = "rw" => f \in ready')
  <2>1. CASE ClientSends(f)
    <3>1. unsent[f] \in Seq(Pieces) /\ unsent[f] # <<>> /\ arrived[f] \in Seq(Pieces)
      BY <2>1 DEF ClientSends, IInv, Types
    <3>2. Tail(unsent[f]) \in Seq(Pieces) /\ Append(arrived[f], Head(unsent[f])) \in Seq(Pieces)
      BY <3>1
    <3> QED  BY <2>1, <3>2 DEF ClientSends, IInv, Types, TypeOK
  <2>2. CASE ClientReads(f)
    <3>1. room[f] + 1 \in 1 .. SendBuffer
      BY <2>2, SizesAssumption DEF ClientReads, IInv, TypeOK
    <3>2. Readable(f)' = Readable(f)
      BY <2>2 DEF ClientReads, Readable
    <3>3. room' \in [Fds -> 0 .. SendBuffer] /\ room'[f] > 0 /\ refused' \in [Fds -> BOOLEAN]
          /\ \A g \in Fds \ {f} : room'[g] = room[g] /\ refused'[g] = refused[g]
      BY <2>2, <3>1 DEF ClientReads, IInv, Types, TypeOK
    <3>4. \/ refused'[f] = refused[f]
          \/ refused[f] /\ (mask[f] = "rw" => f \in ready')
      BY <2>2 DEF ClientReads, IInv, Types
    <3>5. UNCHANGED <<peer, arrived, unsent, inbuff>>
      BY <2>2 DEF ClientReads
    <3> QED  BY <1>0, <3>2, <3>3, <3>4, <3>5 DEF IInv, Types
  <2>3. ASSUME NEW r \in Requests, ClientAsks(f, r) PROVE <1>1!:
    <3>1. Readable(f)' = Readable(f)
      BY <2>3 DEF ClientAsks, Readable
    <3> QED  BY <2>3, <3>1, WirePieces DEF ClientAsks, IInv, Types, TypeOK
  <2>4. ASSUME NEW how \in {"fin", "rst"}, ClientLeaves(f, how) PROVE <1>1!:
    BY <2>4 DEF ClientLeaves, IInv, Types, TypeOK
  <2> QED  BY <2>1, <2>2, <2>3, <2>4
<1> USE <1>0, <1>1
<1>2. Types'
  BY DEF IInv, Types
<1>3. TypeOK'
  <2>1. \A g \in Fds : {inbuff'[g], arrived'[g], unsent'[g]} \subseteq Seq(Pieces)
    BY <1>2 DEF Types
  <2>2. connects' = {g \in Fds : peer'[g] # "none"}
    BY DEF IInv, TypeOK
  <2> QED  BY <2>1, <2>2 DEF IInv, TypeOK
<1>4. OpenOnly'
  <2>1. \A g \in Fds : peer'[g] = "none" => arrived'[g] = <<>>
    BY DEF IInv, OpenOnly
  <2> QED  BY <2>1 DEF IInv, OpenOnly
<1>5. WritableForAReason'
  BY DEF IInv, TypeOK, WritableForAReason, LeftOrFull
<1>6. ASSUME NEW g \in connects
      PROVE  /\ g # f => Readable(g)' = Readable(g) /\ peer'[g] = peer[g]
                         /\ room'[g] = room[g] /\ refused'[g] = refused[g]
             /\ (InEdge(g) => InEdge(g)') /\ (OutEdge(g) => OutEdge(g)')
             /\ Sending(g) => Sending(g)'
             /\ g \in ready' => InEdge(g)' /\ OutEdge(g)'
  BY DEF IInv, TypeOK, Readable, InEdge, OutEdge, Sending, Serving, Listed
<1>7. EdgesKept'
  <2>1. ASSUME NEW g \in connects, g # f
        PROVE  /\ Readable(g)' => InEdge(g)'
               /\ outbuff'[g] > 0 /\ peer'[g] # "rst" =>
                    \/ Sending(g)'
                    \/ mask'[g] = "rw" /\ (refused'[g] \/ (room'[g] > 0 /\ OutEdge(g)'))
    BY <1>6, <2>1 DEF IInv, EdgesKept
  <2>2. Readable(f)' => InEdge(f)'
    BY <1>6 DEF IInv, EdgesKept
  <2>3. ASSUME outbuff[f] > 0, peer'[f] # "rst"
        PROVE  \/ Sending(f)'
               \/ mask[f] = "rw" /\ (refused'[f] \/ (room'[f] > 0 /\ OutEdge(f)'))
    <3>1. Sending(f) \/ (mask[f] = "rw" /\ (refused[f] \/ (room[f] > 0 /\ OutEdge(f))))
      BY <2>3 DEF IInv, EdgesKept
    <3> QED  BY <1>6, <3>1
  <2> QED  BY <2>1, <2>2, <2>3 DEF EdgesKept
<1> QED  BY <1>2, <1>3, <1>4, <1>5, <1>7 DEF IInv

(* A step that changes nothing breaks nothing.                             *)
LEMMA Stutter == IInv /\ UNCHANGED vars => IInv'
<1> SUFFICES ASSUME IInv, UNCHANGED vars PROVE IInv'
  OBVIOUS
<1> USE DEF vars, connVars, loopVars, listenVars, peerVars, sendVars
<1>1. TypeOK' /\ Types' /\ OpenOnly'
  BY DEF IInv, TypeOK, Types, OpenOnly
<1>2. WritableForAReason'
  BY DEF IInv, WritableForAReason, LeftOrFull
<1>3. EdgesKept'
  BY DEF IInv, EdgesKept, Readable, InEdge, OutEdge, Sending, Serving, Listed
<1> QED  BY <1>1, <1>2, <1>3 DEF IInv

(* Every step keeps the inductive invariant.                               *)
LEMMA Preserved == IInv /\ [Next]_vars => IInv'
<1> SUFFICES ASSUME IInv, Server \/ Environment PROVE IInv'
  BY TestStep, Stutter DEF Next
<1>1. CASE Server
  BY <1>1, EpollWaitStep, NextEventStep, TestStep, AcceptStep, RecvStep, NoDataStep, SendStep,
     UpdataRwStep DEF Server
<1>2. CASE Environment
  BY <1>2, ConnectStep, ClientStep DEF Environment
<1> QED  BY <1>1, <1>2

(* The inductive invariant holds in every reachable state.                 *)
LEMMA Invariance == Spec => []IInv
BY InitIInv, Preserved, PTL DEF Spec
-----------------------------------------------------------------------------
(* What is registered is what is open, and the buffers keep their types,   *)
(* whatever the service makes of what they hold.                           *)
THEOREM TypesCorrect == Spec => []TypeOK
<1>1. IInv => TypeOK
  BY DEF IInv
<1> QED  BY Invariance, <1>1, PTL

(* Between two turns of the loop no edge is lost: an edge-triggered event  *)
(* is listed as long as anything waits in the kernel, and output waits in  *)
(* outbuff only for an edge that will come.                                *)
THEOREM EdgesAreKept == Spec => []NoEdgeLost
<1>1. IInv => NoEdgeLost
  BY DEF IInv, EdgesKept, InEdge, OutEdge, Sending, NoEdgeLost
<1> QED  BY Invariance, <1>1, PTL

(* The server closes only who has left, or whose send buffer was full.     *)
THEOREM ClosesForAReason == Spec => ClosedForAReason
<1> DEFINE Reason == \A f \in connects \ connects' : peer[f] \in {"fin", "rst"} \/ mask[f] = "rw"
<1>1. ASSUME IInv, [Next]_vars, NEW f \in connects \ connects'
      PROVE  peer[f] \in {"fin", "rst"} \/ mask[f] = "rw"
  <2>1. f \in Fds
    BY <1>1 DEF IInv, TypeOK
  <2>2. RecvError(f) \/ SendError(f)
    BY <1>1, <2>1 DEF Next, Server, Environment, vars, connVars, Startup, EpollWait, NextEvent, TestIn,
       TestOut, Accept, AcceptEnds, Insert, Recv, RecvFatal, RecvAgain, RecvError, Send, SendAgain,
       UpdataRw, SendError, SigPipe, Del, Connect, ClientAsks, ClientSends, ClientLeaves, ClientReads, loopVars
  <2>3. CASE RecvError(f)
    BY <2>3 DEF RecvError
  <2>4. CASE SendError(f)
    <3>1. at.step \in {"send", "answer"} /\ at.event.fd = f /\ (outbuff[f] = 0 \/ peer[f] = "rst")
      BY <2>4 DEF SendError
    <3>2. LeftOrFull(f)
      BY <1>1, <3>1 DEF IInv, TypeOK, WritableForAReason, LeftOrFull
    <3> QED  BY <3>2 DEF LeftOrFull
  <2> QED  BY <2>2, <2>3, <2>4
<1>2. IInv /\ [Next]_vars => [Reason]_vars
  BY <1>1
<1>3. Spec => [][Reason]_vars
  BY Invariance, <1>2, PTL DEF Spec
<1> QED  BY <1>3 DEF ClosedForAReason
-----------------------------------------------------------------------------
(* How much of the i-th request has gone with the one before it: the       *)
(* method, which stood in for a missing line break.                        *)
Damaged(reqs, i) == i > 1 /\ Unclosed(reqs[i - 1])
Taken(reqs, i) == IF Damaged(reqs, i) THEN 1 ELSE 0

(* Where in the stream of a connection its requests start, counted in      *)
(* pieces before them.                                                     *)
Starts(reqs, q) ==
  /\ q \in [1 .. Len(reqs) + 1 -> Nat]
  /\ \A i \in 1 .. Len(reqs) : q[i + 1] = q[i] + Len(Wire(reqs[i]))
  /\ \A i, m \in 1 .. Len(reqs) + 1 : i <= m => q[i] <= q[m]

(* s is the stream without its first d pieces.                             *)
Stream(s, reqs, d, q) ==
  /\ d \in 0 .. q[Len(reqs) + 1]
  /\ Len(s) = q[Len(reqs) + 1] - d
  /\ \A i \in 1 .. Len(reqs) : \A p \in 1 .. Len(Wire(reqs[i])) :
       q[i] + p > d => s[q[i] + p - d] = Wire(reqs[i])[p]

(* What is in the buffer and the rest on its way are the stream from the   *)
(* j-th request on.                                                        *)
Layout(in, rest, reqs, j) ==
  /\ j \in 1 .. Len(reqs) + 1
  /\ Damaged(reqs, j) => j <= Len(reqs)
  /\ \E q : Starts(reqs, q) /\ Stream(in \o rest, reqs, q[j] + Taken(reqs, j), q)
-----------------------------------------------------------------------------
(* The form of what a client writes.                                       *)
LEMMA WireShape ==
  ASSUME NEW r \in Requests
  PROVE  /\ Len(Wire(r)) \in Nat /\ Len(Wire(r)) >= 3 /\ BodyLength(r) \in Nat
         /\ Len(Wire(r)) = 3 + BodyLength(r) + (IF BodyLength(r) > 0 /\ r.closed THEN 1 ELSE 0)
         /\ Wire(r)[1] = MethodOf(r) /\ Wire(r)[2] = RestOf(r) /\ Wire(r)[3] = Piece("blank")
<1> DEFINE n    == BodyLength(r)
           body == [i \in 1 .. n |-> Piece(IF i = r.zero THEN "zero" ELSE "body")]
           sep  == IF n > 0 /\ r.closed THEN <<Piece("sep")>> ELSE <<>>
           head == <<MethodOf(r), RestOf(r), Piece("blank")>>
           e    == IF n > 0 /\ r.closed THEN 1 ELSE 0
<1>1. n \in Nat
  BY DEF BodyLength
<1>2. MethodOf(r) \in Pieces /\ RestOf(r) \in Pieces
      /\ \A k \in {"blank", "body", "zero", "sep"} : Piece(k) \in Pieces
  BY DEF Pieces
<1>3. Wire(r) = head \o body \o sep
  BY DEF Wire
<1>4. head \in Seq(Pieces) /\ Len(head) = 3
      /\ head[1] = MethodOf(r) /\ head[2] = RestOf(r) /\ head[3] = Piece("blank")
  BY <1>2
<1>5. sep \in Seq(Pieces) /\ Len(sep) = e
  BY <1>2
<1> HIDE DEF n
<1>6. body \in Seq(Pieces) /\ Len(body) = n
  BY <1>1, <1>2
<1> HIDE DEF body, sep, head
<1>7. /\ head \o body \in Seq(Pieces) /\ Len(head \o body) = 3 + n
      /\ \A i \in 1 .. 3 : (head \o body)[i] = head[i]
  <2>1. /\ head \o body \in Seq(Pieces) /\ Len(head \o body) = Len(head) + Len(body)
        /\ \A i \in 1 .. Len(head) + Len(body) :
             (head \o body)[i] = IF i <= Len(head) THEN head[i] ELSE body[i - Len(head)]
    BY <1>4, <1>6, ConcatProperties
  <2> QED  BY <1>1, <1>4, <1>6, <2>1
<1> DEFINE h == head \o body
<1>8. h \in Seq(Pieces) /\ Len(h) = 3 + n /\ (\A i \in 1 .. 3 : h[i] = head[i]) /\ Wire(r) = h \o sep
  BY <1>3, <1>7
<1> HIDE DEF h, e
<1>9. Len(h \o sep) = 3 + n + e /\ \A i \in 1 .. 3 : (h \o sep)[i] = head[i]
  <2>1. /\ Len(h \o sep) = Len(h) + Len(sep)
        /\ \A i \in 1 .. Len(h) + Len(sep) : (h \o sep)[i] = IF i <= Len(h) THEN h[i] ELSE sep[i - Len(h)]
    BY <1>5, <1>8, ConcatProperties
  <2>2. Len(sep) \in Nat
    BY <1>5
  <2> QED  BY <1>1, <1>5, <1>8, <2>1, <2>2
<1>10. Len(Wire(r)) = 3 + n + e /\ \A i \in 1 .. 3 : Wire(r)[i] = head[i]
  BY <1>8, <1>9
<1>11. e \in {0, 1}
  BY DEF e
<1> QED  BY <1>1, <1>4, <1>10, <1>11 DEF e, n

(* What is first in the buffer, and when it is complete.                   *)
LEMMA FirstRequest ==
  ASSUME NEW reqs \in Seq(Requests), NEW in \in Seq(Pieces), NEW rest \in Seq(Pieces), NEW q,
         NEW j \in 1 .. Len(reqs) + 1, Damaged(reqs, j) => j <= Len(reqs),
         Starts(reqs, q), Stream(in \o rest, reqs, q[j] + Taken(reqs, j), q), in # <<>>,
         PlainTo(reqs, Len(reqs))
  PROVE  LET size == Len(Wire(reqs[j])) - Taken(reqs, j) + (IF Unclosed(reqs[j]) THEN 1 ELSE 0)
         IN  /\ j \in 1 .. Len(reqs) /\ reqs[j] \in Requests
             /\ in[1].method = IF Damaged(reqs, j) THEN "none" ELSE reqs[j].method
             /\ Complete(in) <=> /\ Len(in) >= 3 - Taken(reqs, j)
                                 /\ reqs[j].length = NaN \/ Len(in) >= size
             /\ Complete(in) => /\ HeadRead(in).length = reqs[j].length
                                /\ reqs[j].length # NaN => RequestSize(in) = size
<1> DEFINE s == in \o rest
           N == Len(reqs)
           r == reqs[j]
           w == Wire(r)
           k == Taken(reqs, j)
           u == IF Unclosed(r) THEN 1 ELSE 0
<1>1. /\ Len(in) \in Nat \ {0} /\ Len(rest) \in Nat /\ Len(s) = Len(in) + Len(rest)
      /\ \A x \in 1 .. Len(in) : s[x] = in[x]
  BY ConcatProperties
<1>2. k \in {0, 1} /\ (k = 1 <=> Damaged(reqs, j)) /\ u \in {0, 1} /\ (u = 1 <=> Unclosed(r))
  BY DEF Taken
<1> HIDE DEF s, k
<1>3. N \in Nat /\ q[j] \in Nat /\ q[N + 1] \in Nat /\ Len(s) = q[N + 1] - (q[j] + k)
  <2>1. N \in Nat /\ N + 1 \in 1 .. N + 1 /\ q \in [1 .. N + 1 -> Nat]
    BY DEF Starts
  <2>2. Len(s) = q[N + 1] - (q[j] + k)
    BY DEF Stream, s, k
  <2> QED  BY <2>1, <2>2
<1>4. j \in 1 .. N
  <2>1. j # N + 1
    BY <1>1, <1>2, <1>3, SMTT(30)
  <2> QED  BY <1>3, <2>1
<1>5. r \in Requests
  BY <1>4
<1>6. /\ Len(w) \in Nat /\ Len(w) >= 3 /\ BodyLength(r) \in Nat
      /\ Len(w) = 3 + BodyLength(r) + (IF BodyLength(r) > 0 /\ r.closed THEN 1 ELSE 0)
      /\ w[1] = MethodOf(r) /\ w[2] = RestOf(r) /\ w[3] = Piece("blank")
  BY <1>5, WireShape
<1>7. r.length \in Nat \cup {NaN}
  BY <1>3, <1>4 DEF PlainTo, Plain
<1>8. Unclosed(r) <=> BodyLength(r) > 0 /\ ~r.closed
  BY DEF Unclosed
<1>9. r.length # NaN => BodyLength(r) = r.length
  BY <1>7 DEF BodyLength
<1>10. ASSUME NEW p \in 1 .. Len(w), p > k PROVE s[p - k] = w[p]
  <2>1. q[j] + p > q[j] + k
    BY <1>2, <1>3, <1>6, <1>10
  <2>2. s[q[j] + p - (q[j] + k)] = w[p]
    BY <1>4, <1>10, <2>1 DEF Stream, s, k
  <2>3. q[j] \in Nat /\ p \in Nat /\ k \in Nat
    BY <1>2, <1>3, <1>6, <1>10
  <2>4. q[j] + p - (q[j] + k) = p - k
    <3> DEFINE a == q[j]
    <3> HIDE DEF a, k
    <3> QED  BY <2>3 DEF a
  <2> QED  BY <2>2, <2>4
<1>11. /\ k = 0 => s[1] = MethodOf(r) /\ s[2] = RestOf(r) /\ s[3] = Piece("blank")
       /\ k = 1 => s[1] = RestOf(r) /\ s[2] = Piece("blank")
  <2>1. k = 0 => s[1 - k] = w[1]
    BY <1>6, <1>10
  <2>2. s[2 - k] = w[2] /\ s[3 - k] = w[3]
    BY <1>2, <1>6, <1>10
  <2> QED  BY <1>6, <2>1, <2>2
<1>12. /\ MethodOf(r).kind # "blank" /\ RestOf(r).kind # "blank" /\ Piece("blank").kind = "blank"
       /\ MethodOf(r).method = r.method /\ RestOf(r).method = "none" /\ RestOf(r).length = r.length
  <2>1. ASSUME NEW x
        PROVE  /\ MethodOf(x).kind = "method" /\ RestOf(x).kind = "rest" /\ Piece("blank").kind = "blank"
               /\ MethodOf(x).method = x.method /\ RestOf(x).method = "none"
               /\ RestOf(x).length = x.length
    BY DEF MethodOf, RestOf, Piece
  <2> HIDE DEF r
  <2> QED  BY <2>1
<1> HIDE DEF w, u, r, N
<1>13. in[1].method = IF Damaged(reqs, j) THEN "none" ELSE r.method
  BY <1>1, <1>2, <1>11, <1>12
<1>14. HeadEnd(in) = IF Len(in) >= 3 - k THEN 3 - k ELSE 0
  <2>1. /\ HeadEnd(in) \in 0 .. Len(in) /\ (HeadEnd(in) > 0 => in[HeadEnd(in)].kind = "blank")
        /\ \A i \in 1 .. Len(in) : in[i].kind = "blank" => HeadEnd(in) > 0 /\ HeadEnd(in) <= i
    BY HeadEndFound
  <2>2. HeadEnd(in) # 1
    BY <1>1, <1>2, <1>11, <1>12, <2>1
  <2>3. k = 0 => HeadEnd(in) # 2
    BY <1>1, <1>11, <1>12, <2>1
  <2>4. Len(in) >= 3 - k => in[3 - k].kind = "blank"
    BY <1>1, <1>2, <1>11, <1>12
  <2>5. CASE k = 0
    <3>1. Len(in) >= 3 => HeadEnd(in) > 0 /\ HeadEnd(in) <= 3
      BY <1>1, <2>1, <2>4, <2>5
    <3> QED  BY <1>1, <2>1, <2>2, <2>3, <2>5, <3>1
  <2>6. CASE k = 1
    <3>1. Len(in) >= 2 => HeadEnd(in) > 0 /\ HeadEnd(in) <= 2
      BY <1>1, <2>1, <2>4, <2>6
    <3> QED  BY <1>1, <2>1, <2>2, <2>6, <3>1
  <2> QED  BY <1>2, <2>5, <2>6
<1>15. Len(in) >= 3 - k => HeadRead(in).length = r.length
  <2> SUFFICES ASSUME Len(in) >= 3 - k PROVE HeadRead(in).length = r.length
    OBVIOUS
  <2>1. HeadRead(in) = in[2 - k]
    BY <1>2, <1>14 DEF HeadRead
  <2>2. in[2 - k] = RestOf(r)
    BY <1>1, <1>2, <1>11
  <2> QED  BY <1>12, <2>1, <2>2
<1> DEFINE z == Len(w) - k + u
<1>16. Len(in) >= 3 - k /\ r.length # NaN => RequestSize(in) = z /\ z >= 0
  <2> SUFFICES ASSUME Len(in) >= 3 - k, r.length # NaN PROVE RequestSize(in) = z /\ z >= 0
    OBVIOUS
  <2>1. HeadEnd(in) = 3 - k /\ HeadRead(in).length = BodyLength(r)
    BY <1>9, <1>14, <1>15
  <2>2. RequestSize(in) = 3 - k + BodyLength(r) + (IF BodyLength(r) > 0 THEN 1 ELSE 0)
    BY <2>1 DEF RequestSize
  <2>3. CASE BodyLength(r) = 0
    BY <1>2, <1>6, <1>8, <2>2, <2>3
  <2>4. CASE BodyLength(r) > 0 /\ r.closed
    BY <1>2, <1>6, <1>8, <2>2, <2>4
  <2>5. CASE BodyLength(r) > 0 /\ ~r.closed
    BY <1>2, <1>6, <1>8, <2>2, <2>5
  <2> QED  BY <1>6, <2>3, <2>4, <2>5
<1>17. Complete(in) <=> Len(in) >= 3 - k /\ (r.length = NaN \/ Len(in) >= z)
  <2>1. CASE Len(in) >= 3 - k
    <3>1. HeadEnd(in) > 0 /\ HeadRead(in).length = r.length
      BY <1>2, <1>14, <1>15, <2>1
    <3> HIDE DEF z
    <3> QED  BY <1>16, <2>1, <3>1 DEF Complete
  <2>2. CASE ~ (Len(in) >= 3 - k)
    BY <1>14, <2>2 DEF Complete
  <2> QED  BY <2>1, <2>2
<1> QED  BY <1>4, <1>5, <1>13, <1>15, <1>16, <1>17 DEF N, r, w, u, k

(* A stream without its first size pieces.                                 *)
LEMMA CutAndRest ==
  ASSUME NEW in \in Seq(Pieces), NEW rest \in Seq(Pieces), NEW size \in 0 .. Len(in)
  PROVE  LET t == SubSeq(in, size + 1, Len(in)) \o rest
         IN  /\ Len(t) = Len(in \o rest) - size
             /\ \A x \in 1 .. Len(t) : t[x] = (in \o rest)[x + size]
<1> DEFINE tail == SubSeq(in, size + 1, Len(in))
           t == tail \o rest
           s == in \o rest
<1>0. Len(in) \in Nat /\ size \in Nat /\ size <= Len(in) /\ Len(rest) \in Nat
  OBVIOUS
<1>1. /\ tail \in Seq(Pieces) /\ Len(tail) = Len(in) - size
      /\ \A x \in 1 .. Len(tail) : tail[x] = in[x + size]
  BY <1>0
<1> HIDE DEF tail
<1>2. /\ Len(t) = Len(tail) + Len(rest)
      /\ \A x \in 1 .. Len(tail) + Len(rest) : t[x] = IF x <= Len(tail) THEN tail[x] ELSE rest[x - Len(tail)]
  BY <1>1, ConcatProperties
<1>3. /\ Len(s) = Len(in) + Len(rest)
      /\ \A x \in 1 .. Len(in) + Len(rest) : s[x] = IF x <= Len(in) THEN in[x] ELSE rest[x - Len(in)]
  BY ConcatProperties
<1> HIDE DEF t, s
<1>4. Len(t) = Len(s) - size
  BY <1>0, <1>1, <1>2, <1>3
<1>5. ASSUME NEW x \in 1 .. Len(t) PROVE t[x] = s[x + size]
  <2>1. CASE x <= Len(tail)
    <3>1. x \in 1 .. Len(tail) /\ x + size \in 1 .. Len(in) + Len(rest) /\ x + size <= Len(in)
          /\ x \in 1 .. Len(tail) + Len(rest)
      BY <1>0, <1>1, <1>2, <2>1
    <3>2. t[x] = tail[x] /\ tail[x] = in[x + size]
      BY <1>1, <1>2, <2>1, <3>1
    <3> DEFINE y == x + size
    <3>3. y \in 1 .. Len(in) + Len(rest) /\ y <= Len(in) /\ t[x] = in[y]
      BY <3>1, <3>2
    <3> HIDE DEF y
    <3>4. s[y] = in[y]
      BY <1>3, <3>3
    <3> QED  BY <3>3, <3>4 DEF y
  <2>2. CASE ~ (x <= Len(tail))
    <3> DEFINE y == x + size
    <3>1. x \in 1 .. Len(tail) + Len(rest) /\ y \in 1 .. Len(in) + Len(rest) /\ ~ (y <= Len(in))
          /\ y - Len(in) = x - Len(tail)
      BY <1>0, <1>1, <1>2, <2>2
    <3>2. t[x] = rest[x - Len(tail)]
      BY <1>2, <2>2, <3>1
    <3> HIDE DEF y
    <3>3. s[y] = rest[x - Len(tail)]
      BY <1>3, <3>1
    <3> QED  BY <3>2, <3>3 DEF y
  <2> QED  BY <2>1, <2>2
<1> QED  BY <1>4, <1>5 DEF t, s, tail

(* Taking the j-th request off leaves the stream from the next one on.     *)
LEMMA EraseMoves ==
  ASSUME NEW reqs \in Seq(Requests), NEW in \in Seq(Pieces), NEW rest \in Seq(Pieces), NEW j,
         Layout(in, rest, reqs, j), PlainTo(reqs, Len(reqs)),
         Complete(in), HeadRead(in).length # NaN
  PROVE  /\ j \in 1 .. Len(reqs) /\ RequestSize(in) # 0
         /\ in[1].method = IF Damaged(reqs, j) THEN "none" ELSE reqs[j].method
         /\ Layout(Erase(in), rest, reqs, j + 1)
<1>0. in # <<>>
  <2>1. HeadEnd(in) \in 0 .. Len(in) /\ HeadEnd(in) > 0
    BY HeadEndFound DEF Complete
  <2> QED  BY <2>1
<1>1. PICK q : Starts(reqs, q) /\ Stream(in \o rest, reqs, q[j] + Taken(reqs, j), q)
  BY DEF Layout
<1> DEFINE N == Len(reqs)
           r == reqs[j]
           w == Wire(r)
           k == Taken(reqs, j)
           u == IF Unclosed(r) THEN 1 ELSE 0
           size == RequestSize(in)
           s == in \o rest
           t == SubSeq(in, size + 1, Len(in)) \o rest
           d == q[j] + k
<1>2. /\ j \in 1 .. N /\ r \in Requests
      /\ in[1].method = IF Damaged(reqs, j) THEN "none" ELSE reqs[j].method
      /\ size = Len(w) - k + u
  <2>1. j \in 1 .. N + 1 /\ (Damaged(reqs, j) => j <= N)
    BY DEF Layout
  <2> QED  BY <1>0, <1>1, <2>1, FirstRequest
<1>3. Len(w) \in Nat /\ Len(w) >= 3
  BY <1>2, WireShape
<1>4. k \in {0, 1} /\ u \in {0, 1} /\ (u = 1 <=> Unclosed(r))
  BY DEF Taken
<1>5. size \in 0 .. Len(in)
  BY SizeOfComplete
<1>6. Erase(in) \o rest = t
  BY DEF Erase
<1> HIDE DEF size, k
<1>7. Len(t) = Len(s) - size /\ \A x \in 1 .. Len(t) : t[x] = s[x + size]
  BY <1>5, CutAndRest
<1>8. Len(s) = Len(in) + Len(rest) /\ Len(in) \in Nat /\ Len(rest) \in Nat
  BY ConcatProperties
<1> HIDE DEF s, t, u, w
<1>9. /\ N \in Nat /\ q[j] \in Nat /\ q[j + 1] \in Nat /\ q[N + 1] \in Nat
      /\ q[j + 1] = q[j] + Len(w)
      /\ \A i \in 1 .. N : q[i] \in Nat
  <2>1. /\ N \in Nat /\ q \in [1 .. N + 1 -> Nat]
        /\ \A i \in 1 .. N : q[i + 1] = q[i] + Len(Wire(reqs[i]))
    BY <1>1 DEF Starts
  <2>2. j \in 1 .. N + 1 /\ j + 1 \in 1 .. N + 1 /\ N + 1 \in 1 .. N + 1
    BY <1>2, <2>1
  <2>3. \A i \in 1 .. N : i \in 1 .. N + 1
    BY <2>1
  <2> QED  BY <1>2, <2>1, <2>2, <2>3 DEF w
<1>10. /\ d \in 0 .. q[N + 1] /\ Len(s) = q[N + 1] - d
       /\ \A i \in 1 .. N : \A p \in 1 .. Len(Wire(reqs[i])) :
            q[i] + p > d => s[q[i] + p - d] = Wire(reqs[i])[p]
  BY <1>1 DEF Stream, s, k
<1>11. /\ Taken(reqs, j + 1) = u /\ (Damaged(reqs, j + 1) <=> u = 1)
  <2>1. j + 1 > 1 /\ (j + 1) - 1 = j
    BY <1>2, <1>9
  <2> QED  BY <1>4, <2>1 DEF Taken, Damaged
<1> DEFINE e == q[j + 1] + u
<1>12. e = d + size /\ d \in Nat /\ e \in Nat /\ e <= q[N + 1] /\ size \in Nat
  <2>1. e = d + size /\ d \in Nat /\ size \in Nat
    <3> DEFINE a == q[j]  b == q[j + 1]  l == Len(w)
    <3>1. a \in Nat /\ l \in Nat /\ l >= 3 /\ b = a + l /\ size = l - k + u
      BY <1>2, <1>3, <1>9 DEF w, u
    <3> HIDE DEF a, b, l
    <3>2. b + u = (a + k) + size /\ a + k \in Nat /\ size \in Nat
      BY <1>4, <3>1
    <3> QED  BY <3>2 DEF a, b
  <2>2. size <= Len(s)
    BY <1>5, <1>8
  <2> HIDE DEF d, e
  <2> QED  BY <1>9, <1>10, <2>1, <2>2
<1> HIDE DEF d
<1>13. j + 1 \in 1 .. N + 1 /\ (Damaged(reqs, j + 1) => j + 1 <= N)
  <2>1. u = 1 => j + 1 # N + 1
    BY <1>9, <1>12
  <2> QED  BY <1>2, <1>9, <1>11, <2>1
<1>14. Stream(t, reqs, e, q)
  <2> HIDE DEF e
  <2>1. e \in 0 .. q[N + 1]
    BY <1>9, <1>12
  <2>2. Len(t) = q[N + 1] - e
    BY <1>7, <1>9, <1>10, <1>12
  <2>3. ASSUME NEW i \in 1 .. N, NEW p \in 1 .. Len(Wire(reqs[i])), q[i] + p > e
        PROVE  t[q[i] + p - e] = Wire(reqs[i])[p]
    <3> DEFINE x == q[i] + p - e
    <3>1. q[i] \in Nat /\ Len(Wire(reqs[i])) \in Nat /\ q[i] + Len(Wire(reqs[i])) <= q[N + 1]
      <4>1. reqs[i] \in Requests
        OBVIOUS
      <4>2. i + 1 \in 1 .. N + 1 /\ N + 1 \in 1 .. N + 1 /\ i + 1 <= N + 1
        BY <1>9
      <4>3. q[i + 1] <= q[N + 1] /\ q[i + 1] = q[i] + Len(Wire(reqs[i]))
        BY <1>1, <4>2 DEF Starts
      <4> QED  BY <1>9, <4>1, <4>3, WireShape
    <3>2. x \in 1 .. Len(t) /\ x + size = q[i] + p - d /\ q[i] + p > d
      <4> DEFINE a == q[i]  b == q[N + 1]  l == Len(Wire(reqs[i]))
      <4>1. /\ a \in Nat /\ b \in Nat /\ l \in Nat /\ a + l <= b /\ a + p > e /\ Len(t) = b - e
            /\ p \in 1 .. l
        BY <1>9, <2>2, <2>3, <3>1
      <4> HIDE DEF a, b, l
      <4>2. a + p - e \in 1 .. Len(t) /\ a + p - e + size = a + p - d /\ a + p > d
        BY <1>12, <4>1
      <4> QED  BY <4>2 DEF a
    <3>3. s[q[i] + p - d] = Wire(reqs[i])[p]
      BY <1>10, <3>2
    <3>4. t[x] = s[x + size]
      BY <1>7, <3>2
    <3> QED  BY <3>2, <3>3, <3>4
  <2> QED  BY <2>1, <2>2, <2>3 DEF Stream
<1>15. size # 0
  BY <1>2, <1>3, <1>4
<1> QED  BY <1>1, <1>2, <1>6, <1>11, <1>13, <1>14, <1>15 DEF Layout, size
-----------------------------------------------------------------------------
(* The requests before the k-th that are answered.                         *)
Answered(reqs, k) == {i \in 1 .. k - 1 : Answerable(reqs, i)}

(* They are finitely many.                                                 *)
LEMMA AnsweredFinite ==
  ASSUME NEW reqs, NEW k \in Int
  PROVE  IsFiniteSet(Answered(reqs, k)) /\ Cardinality(Answered(reqs, k)) \in Nat
<1>1. IsFiniteSet(1 .. k - 1)
  <2>1. 1 \in Int /\ k - 1 \in Int
    OBVIOUS
  <2> QED  BY <2>1, FS_Interval
<1>2. Answered(reqs, k) \subseteq 1 .. k - 1
  BY DEF Answered
<1> QED  BY <1>1, <1>2, FS_Subset, FS_CardinalityType

(* With the k-th there is one more of them, if that is answerable.         *)
LEMMA AnsweredCount ==
  ASSUME NEW reqs \in Seq(Requests), NEW k \in 1 .. Len(reqs)
  PROVE  /\ Cardinality(Answered(reqs, k)) \in Nat
         /\ Cardinality(Answered(reqs, k + 1)) =
              Cardinality(Answered(reqs, k)) + (IF Answerable(reqs, k) THEN 1 ELSE 0)
<1> DEFINE A == Answered(reqs, k)
<1>1. IsFiniteSet(A) /\ k \notin A
  <2>1. k \notin 1 .. k - 1
    OBVIOUS
  <2>2. k \notin A
    BY <2>1 DEF Answered
  <2> QED  BY <2>2, AnsweredFinite
<1>2. Answered(reqs, k + 1) = IF Answerable(reqs, k) THEN A \cup {k} ELSE A
  <2>1. 1 .. (k + 1) - 1 = (1 .. k - 1) \cup {k}
    OBVIOUS
  <2> HIDE DEF A
  <2>2. A = {i \in 1 .. k - 1 : Answerable(reqs, i)}
        /\ Answered(reqs, k + 1) = {i \in (1 .. k - 1) \cup {k} : Answerable(reqs, i)}
    BY <2>1 DEF A, Answered
  <2> QED  BY <2>2
<1> HIDE DEF A
<1>3. Cardinality(A) \in Nat
  BY <1>1, FS_CardinalityType
<1>4. Cardinality(A \cup {k}) = Cardinality(A) + 1
  BY <1>1, FS_AddElement
<1>5. CASE Answerable(reqs, k)
  BY <1>2, <1>3, <1>4, <1>5 DEF A
<1>6. CASE ~Answerable(reqs, k)
  BY <1>2, <1>3, <1>6 DEF A
<1> QED  BY <1>5, <1>6

(* A request whose head is whole is answered if it is a GET, and no other. *)
LEMMA OneService ==
  ASSUME NEW reqs \in Seq(Requests), NEW j \in 1 .. Len(reqs), PlainTo(reqs, Len(reqs)),
         NEW in, in[1].method = IF Damaged(reqs, j) THEN "none" ELSE reqs[j].method
  PROVE  /\ (_service(in) = "none") <=> ~Answerable(reqs, j)
         /\ _service(in) \in {"none", "overflow", "undefined", "answer"}
<1>1. (_service(in) = "none") <=> in[1].method # "GET"
  BY DEF _service
<1>2. PlainTo(reqs, j)
  BY DEF PlainTo
<1>3. _service(in) \in {"none", "overflow", "undefined", "answer"}
  BY DEF _service
<1> QED  BY <1>1, <1>2, <1>3 DEF Answerable, Damaged

(* What a service leaves, and how many it has answered: as many as are     *)
(* answerable among the requests that it has taken off.                    *)
Kept(in, rest, reqs, j) ==
  \E k \in 1 .. Len(reqs) + 1 :
    /\ Layout(service[in].in, rest, reqs, k)
    /\ Cardinality(Answered(reqs, k)) = Cardinality(Answered(reqs, j)) + service[in].answers
    /\ ~Complete(service[in].in)

LEMMA ServiceKeeps ==
  ASSUME NEW reqs \in Seq(Requests), NEW rest \in Seq(Pieces), NEW in \in Seq(Pieces), NEW j,
         Layout(in, rest, reqs, j), PlainTo(reqs, Len(reqs)), service[in].end = "fine"
  PROVE  Kept(in, rest, reqs, j)
<1> DEFINE Bad  == {s \in Seq(Pieces) : /\ service[s].end = "fine"
                                        /\ \E i : Layout(s, rest, reqs, i) /\ ~Kept(s, rest, reqs, i)}
           Lens == {Len(s) : s \in Bad}
<1> SUFFICES ASSUME Bad # {} PROVE FALSE
  OBVIOUS
<1>1. Lens \in SUBSET Nat /\ Lens # {}
  <2>1. \A s \in Bad : Len(s) \in Nat
    OBVIOUS
  <2> HIDE DEF Bad
  <2> QED  BY <2>1
<1>2. PICK n \in Lens : \A l \in Lens : n <= l
  BY <1>1, LeastNumber
<1>3. PICK s \in Bad : Len(s) = n
  BY <1>2
<1>4. PICK i : Layout(s, rest, reqs, i) /\ ~Kept(s, rest, reqs, i)
  BY <1>3
<1>5. s \in Seq(Pieces) /\ service[s].end = "fine"
  BY <1>3
<1>6. ASSUME NEW r \in Seq(Pieces), Len(r) < Len(s), service[r].end = "fine",
             NEW k, Layout(r, rest, reqs, k)
      PROVE  Kept(r, rest, reqs, k)
  <2> SUFFICES ASSUME ~Kept(r, rest, reqs, k) PROVE FALSE
    OBVIOUS
  <2>1. r \in Bad
    BY <1>6
  <2>2. Len(r) \in Lens /\ Len(r) \in Nat /\ Len(s) \in Nat
    BY <1>5, <2>1
  <2>3. n <= Len(r)
    BY <1>2, <2>2
  <2>4. Len(s) = n
    BY <1>3
  <2> HIDE DEF Bad, Lens
  <2> QED  BY <1>6, <2>2, <2>3, <2>4
<1> HIDE DEF Bad, Lens
<1>7. service[s] = Body(service, s)
  BY <1>5, ServiceUnfolds
<1>8. i \in 1 .. Len(reqs) + 1
  BY <1>4 DEF Layout
<1>9. CASE ~Complete(s)
  <2>1. service[s] = [in |-> s, answers |-> 0, end |-> "fine"]
    BY <1>7, <1>9 DEF Body
  <2>2. service[s].in = s /\ service[s].answers = 0
    BY <2>1
  <2>3. Cardinality(Answered(reqs, i)) \in Nat
    <3>1. i \in Int
      BY <1>8
    <3> QED  BY <3>1, AnsweredFinite
  <2> QED  BY <1>4, <1>8, <1>9, <2>2, <2>3 DEF Kept
<1>10. CASE Complete(s)
  <2>1. HeadRead(s).length # NaN
    <3> SUFFICES ASSUME HeadRead(s).length = NaN PROVE FALSE
      OBVIOUS
    <3>1. service[s] = [in |-> s, answers |-> 0, end |-> "throws"]
      BY <1>7, <1>10 DEF Body
    <3> QED  BY <1>5, <3>1
  <2>2. /\ i \in 1 .. Len(reqs) /\ RequestSize(s) # 0
        /\ s[1].method = IF Damaged(reqs, i) THEN "none" ELSE reqs[i].method
        /\ Layout(Erase(s), rest, reqs, i + 1)
    BY <1>4, <1>5, <1>10, <2>1, EraseMoves
  <2>3. Erase(s) \in Seq(Pieces) /\ Len(Erase(s)) < Len(s)
    BY <1>5, <1>10, <2>1, <2>2, EraseShortens
  <2> DEFINE z == service[Erase(s)]
             o == _service(s)
             a == IF Answerable(reqs, i) THEN 1 ELSE 0
  <2>4. z \in Results
    BY <2>3, ServiceType
  <2>5. o \in {"none", "overflow", "undefined", "answer"} /\ ((o = "none") <=> ~Answerable(reqs, i))
    BY <2>2, OneService
  <2>6. service[s] = IF o \notin {"none", "answer"} THEN [in |-> s, answers |-> 0, end |-> o]
                     ELSE IF o = "answer" THEN [z EXCEPT !.answers = @ + 1] ELSE z
    BY <1>7, <1>10, <2>1, <2>2 DEF Body
  <2> HIDE DEF o, z
  <2>7. o \in {"none", "answer"}
    <3> SUFFICES ASSUME o \notin {"none", "answer"} PROVE FALSE
      OBVIOUS
    <3>1. service[s] = [in |-> s, answers |-> 0, end |-> o]
      BY <2>6
    <3>2. service[s].end = o
      BY <3>1
    <3> QED  BY <1>5, <2>5, <3>2
  <2>8. service[s].in = z.in /\ service[s].end = z.end /\ service[s].answers = z.answers + a
        /\ z.answers \in Nat
    <3>1. z.answers \in Nat
      BY <2>4 DEF Results
    <3>2. CASE o = "none"
      <4>1. service[s] = z
        BY <2>6, <3>2
      <4> QED  BY <2>5, <3>1, <3>2, <4>1
    <3>3. CASE o = "answer"
      <4>1. service[s] = [z EXCEPT !.answers = @ + 1]
        BY <2>6, <3>3
      <4>2. service[s].in = z.in /\ service[s].end = z.end /\ service[s].answers = z.answers + 1
        BY <2>4, <4>1, OneMore
      <4> QED  BY <2>5, <3>1, <3>3, <4>2
    <3> QED  BY <2>7, <3>2, <3>3
  <2>9. Kept(Erase(s), rest, reqs, i + 1)
    BY <1>5, <1>6, <2>2, <2>3, <2>8 DEF z
  <2>10. PICK k \in 1 .. Len(reqs) + 1 :
           /\ Layout(z.in, rest, reqs, k)
           /\ Cardinality(Answered(reqs, k)) = Cardinality(Answered(reqs, i + 1)) + z.answers
           /\ ~Complete(z.in)
    BY <2>9 DEF Kept, z
  <2>11. /\ Cardinality(Answered(reqs, i)) \in Nat
         /\ Cardinality(Answered(reqs, i + 1)) = Cardinality(Answered(reqs, i)) + a
    BY <2>2, AnsweredCount
  <2>12. Cardinality(Answered(reqs, k)) = Cardinality(Answered(reqs, i)) + service[s].answers
    <3>1. a \in Nat
      OBVIOUS
    <3> HIDE DEF a
    <3> QED  BY <2>8, <2>10, <2>11, <3>1
  <2> QED  BY <1>4, <2>8, <2>10, <2>12 DEF Kept
<1> QED  BY <1>9, <1>10
-----------------------------------------------------------------------------
(* The layout is of what is in the buffer and on its way together: as it   *)
(* moves from one to the other, the layout stays.                          *)
LEMMA LayoutMoves ==
  ASSUME NEW reqs, NEW in, NEW rest, NEW in2, NEW rest2, NEW j,
         Layout(in, rest, reqs, j), in2 \o rest2 = in \o rest
  PROVE  Layout(in2, rest2, reqs, j)
BY DEF Layout
-----------------------------------------------------------------------------
(* Without a zero byte the whole portion is appended to the buffer, and a  *)
(* recv() of n of the pieces a takes none off the stream.                  *)
LEMMA WholePortion ==
  ASSUME NEW f \in Fds, arrived[f] \in Seq(Bytes), NEW n \in 1 .. Len(arrived[f])
  PROVE  /\ Appended(f, n) = SubSeq(arrived[f], 1, n)
         /\ SubSeq(arrived[f], n + 1, Len(arrived[f])) \in Seq(Bytes)
<1>1. n \in Nat /\ n <= Len(arrived[f]) /\ Len(arrived[f]) \in Nat
  OBVIOUS
<1>2. SubSeq(arrived[f], 1, n) \in Seq(Bytes) /\ SubSeq(arrived[f], n + 1, Len(arrived[f])) \in Seq(Bytes)
  BY <1>1
<1> DEFINE buff == SubSeq(arrived[f], 1, n)
           zero == SelectInSeq(buff, LAMBDA p : p.kind = "zero")
<1>3. Appended(f, n) = IF zero = 0 THEN buff ELSE SubSeq(buff, 1, zero - 1)
  BY DEF Appended
<1>4. {i \in 1 .. Len(buff) : buff[i].kind = "zero"} = {}
  <2>1. buff \in Seq(Bytes)
    BY <1>2
  <2> HIDE DEF buff
  <2>2. \A i \in 1 .. Len(buff) : buff[i] \in Bytes
    BY <2>1
  <2> QED  BY <2>2 DEF Bytes
<1>5. zero = 0
  BY <1>4 DEF SelectInSeq
<1> QED  BY <1>2, <1>3, <1>5

TakenOver(in, a, u, n) ==
  /\ in \o SubSeq(a, 1, n) \in Seq(Pieces)
  /\ in \o SubSeq(a, 1, n) # <<>>
  /\ SubSeq(a, n + 1, Len(a)) \in Seq(Pieces)
  /\ (in \o SubSeq(a, 1, n)) \o (SubSeq(a, n + 1, Len(a)) \o u) = in \o (a \o u)

LEMMA Received ==
  \A in, a, u \in Seq(Pieces) : \A n \in 1 .. Len(a) : TakenOver(in, a, u, n)
<1> SUFFICES ASSUME NEW in, NEW a, NEW u, NEW n \in 1 .. Len(a),
                    in \in Seq(Pieces), a \in Seq(Pieces), u \in Seq(Pieces)
             PROVE  TakenOver(in, a, u, n)
  OBVIOUS
<1> DEFINE S == Pieces
<1>0. in \in Seq(S) /\ a \in Seq(S) /\ u \in Seq(S)
  OBVIOUS
<1> HIDE DEF S
<1>5. in \in Seq(S)
  BY <1>0
<1>6. u \in Seq(S)
  BY <1>0
<1>1. Len(a) \in Nat /\ n \in Nat /\ n >= 1 /\ n <= Len(a)
  BY <1>0
<1>2. /\ SubSeq(a, 1, n) \in Seq(S) /\ SubSeq(a, n + 1, Len(a)) \in Seq(S)
      /\ Len(SubSeq(a, 1, n)) = n
  BY <1>0, <1>1
<1>3. SubSeq(a, 1, n) \o SubSeq(a, n + 1, Len(a)) = a
  <2>1. 1 \in 1 .. Len(a) + 1 /\ n \in 1 - 1 .. Len(a) /\ Len(a) \in n .. Len(a)
    BY <1>1
  <2>2. SubSeq(a, 1, n) \o SubSeq(a, n + 1, Len(a)) = SubSeq(a, 1, Len(a))
    BY <1>0, <2>1, ConcatAdjacentSubSeq
  <2> QED  BY <1>0, <2>2, SubSeqFull
<1>4. ASSUME NEW b, NEW c, b \in Seq(S), c \in Seq(S), Len(b) = n, b \o c = a
      PROVE  in \o b \in Seq(S) /\ in \o b # <<>> /\ (in \o b) \o (c \o u) = in \o (a \o u)
  <2>0. c \o u \in Seq(S)
    BY <1>0, <1>4, ConcatProperties
  <2>1. in \o b \in Seq(S) /\ Len(in \o b) = Len(in) + Len(b)
    BY <1>0, <1>4, ConcatProperties
  <2>2. Len(in \o b) > 0
    BY <1>0, <1>1, <1>4, <2>1
  <2>3. (in \o b) \o (c \o u) = in \o (b \o (c \o u))
    <3>1. ASSUME NEW d, d \in Seq(S) PROVE (in \o b) \o d = in \o (b \o d)
      BY ONLY <1>5, b \in Seq(S), d \in Seq(S), ConcatAssociative, SMTT(30)
    <3> QED  BY <2>0, <3>1
  <2>4. (b \o c) \o u = b \o (c \o u)
    BY ONLY b \in Seq(S), c \in Seq(S), <1>6, ConcatAssociative
  <2> QED  BY <1>4, <2>1, <2>2, <2>3, <2>4
<1> QED  BY <1>0, <1>2, <1>3, <1>4 DEF TakenOver, S

(* A piece that is sent.                                                   *)
LEMMA Sent ==
  ASSUME NEW S, NEW a \in Seq(S), NEW u \in Seq(S), u # <<>>
  PROVE  /\ Append(a, Head(u)) \in Seq(S) /\ Tail(u) \in Seq(S) /\ Len(Tail(u)) = Len(u) - 1
         /\ Append(a, Head(u)) \o Tail(u) = a \o u
<1>1. Head(u) \in S /\ Tail(u) \in Seq(S) /\ Len(Tail(u)) = Len(u) - 1
  BY HeadTailProperties
<1>2. Append(a, Head(u)) = a \o <<Head(u)>> /\ Append(a, Head(u)) \in Seq(S)
  BY <1>1, AppendProperties, AppendIsConcat
<1>3. u = <<Head(u)>> \o Tail(u)
  <2>1. u = SubSeq(u, 1, Len(u)) /\ Tail(u) = SubSeq(u, 2, Len(u)) /\ Head(u) = u[1]
    BY SubSeqFull, TailIsSubSeq
  <2>2. 1 \in 1 .. Len(u) /\ Len(u) \in 1 .. Len(u) /\ 1 + 1 = 2
    <3>1. Len(u) \in Nat /\ Len(u) # 0
      OBVIOUS
    <3> QED  BY <3>1
  <2>3. SubSeq(u, 1, Len(u)) = <<u[1]>> \o SubSeq(u, 1 + 1, Len(u))
    BY <2>2, SubSeqRecursiveFirst
  <2> QED  BY <2>1, <2>2, <2>3
<1>4. <<Head(u)>> \in Seq(S)
  BY <1>1
<1>5. (a \o <<Head(u)>>) \o Tail(u) = a \o (<<Head(u)>> \o Tail(u))
  BY <1>1, <1>4, ConcatAssociative
<1> QED  BY <1>1, <1>2, <1>3, <1>5

(* Another request is put behind the stream.                               *)
LEMMA LayoutGrows ==
  ASSUME NEW reqs \in Seq(Requests), NEW in \in Seq(Pieces), NEW rest \in Seq(Pieces), NEW j,
         NEW r \in Requests, Layout(in, rest, reqs, j)
  PROVE  Layout(in, rest \o Wire(r), Append(reqs, r), j)
<1>1. PICK q : Starts(reqs, q) /\ Stream(in \o rest, reqs, q[j] + Taken(reqs, j), q)
  BY DEF Layout
<1> DEFINE N  == Len(reqs)
           w  == Wire(r)
           more == Append(reqs, r)
           p2 == [i \in 1 .. N + 2 |-> IF i <= N + 1 THEN q[i] ELSE q[N + 1] + Len(w)]
           s  == in \o rest
           t  == in \o (rest \o w)
           d  == q[j] + Taken(reqs, j)
<1>2. /\ w \in Seq(Pieces) /\ Len(w) \in Nat /\ Len(w) >= 3
  BY WirePieces, WireShape
<1>3. /\ more \in Seq(Requests) /\ Len(more) = N + 1 /\ N \in Nat /\ more[N + 1] = r
      /\ \A i \in 1 .. N : more[i] = reqs[i]
  BY AppendProperties
<1>4. /\ j \in 1 .. N + 1 /\ (Damaged(reqs, j) => j <= N)
      /\ q \in [1 .. N + 1 -> Nat]
      /\ \A i \in 1 .. N : q[i + 1] = q[i] + Len(Wire(reqs[i]))
      /\ \A i, m \in 1 .. N + 1 : i <= m => q[i] <= q[m]
  BY <1>1 DEF Starts, Layout
<1>5. /\ d \in 0 .. q[N + 1] /\ Len(s) = q[N + 1] - d
      /\ \A i \in 1 .. N : \A p \in 1 .. Len(Wire(reqs[i])) :
           q[i] + p > d => s[q[i] + p - d] = Wire(reqs[i])[p]
  BY <1>1 DEF Stream
<1>6. /\ s \in Seq(Pieces) /\ t = s \o w /\ Len(t) = Len(s) + Len(w) /\ Len(s) \in Nat
      /\ \A x \in 1 .. Len(s) + Len(w) : t[x] = IF x <= Len(s) THEN s[x] ELSE w[x - Len(s)]
  <2>1. s \in Seq(Pieces)
    BY ConcatProperties
  <2>2. t = s \o w
    <3>1. w \in Seq(Pieces)
      BY <1>2
    <3> HIDE DEF w, more, p2, s, t
    <3>2. (in \o rest) \o w = in \o (rest \o w)
      BY ONLY in \in Seq(Pieces), rest \in Seq(Pieces), <3>1, ConcatAssociative, SMTT(30)
    <3> QED  BY <3>2 DEF s, t
  <2> HIDE DEF s, t, w
  <2> QED  BY <1>2, <2>1, <2>2, ConcatProperties
<1>7. (Damaged(more, j) <=> Damaged(reqs, j)) /\ Taken(more, j) = Taken(reqs, j)
  <2>1. j > 1 => j - 1 \in 1 .. N
    BY <1>3, <1>4
  <2> QED  BY <1>3, <2>1 DEF Damaged, Taken
<1> HIDE DEF s, t, w, more, N, d
<1>8. /\ p2 \in [1 .. N + 2 -> Nat] /\ p2[N + 2] = q[N + 1] + Len(w) /\ q[N + 1] \in Nat
      /\ \A i \in 1 .. N + 1 : p2[i] = q[i] /\ q[i] \in Nat
  <2>1. N + 1 \in 1 .. N + 1
    BY <1>3
  <2>2. q[N + 1] \in Nat /\ q[N + 1] + Len(w) \in Nat
    BY <1>2, <1>4, <2>1
  <2>3. N + 2 \in 1 .. N + 2 /\ ~ (N + 2 <= N + 1)
    BY <1>3
  <2>4. \A i \in 1 .. N + 1 : i \in 1 .. N + 2 /\ i <= N + 1
    BY <1>3
  <2> DEFINE e == q[N + 1] + Len(w)
  <2>5. \A i \in 1 .. N + 1 : q[i] \in Nat
    BY <1>4
  <2>6. p2 = [i \in 1 .. N + 2 |-> IF i <= N + 1 THEN q[i] ELSE e]
    OBVIOUS
  <2>7. e \in Nat /\ e = q[N + 1] + Len(w)
    BY <2>2
  <2> HIDE DEF e, p2
  <2>8. \A i \in 1 .. N + 2 : i <= N + 1 => i \in 1 .. N + 1
    BY <1>3
  <2> QED  BY <2>2, <2>3, <2>4, <2>5, <2>6, <2>7, <2>8
<1> HIDE DEF p2
<1>9. Starts(more, p2)
  <2>1. N + 1 + 1 = N + 2
    BY <1>3
  <2>2. ASSUME NEW i \in 1 .. N + 1 PROVE p2[i + 1] = p2[i] + Len(Wire(more[i]))
    <3>1. CASE i = N + 1
      BY <1>3, <1>8, <2>1, <3>1 DEF w
    <3>2. CASE i # N + 1
      <4>1. i \in 1 .. N /\ i + 1 \in 1 .. N + 1
        BY <1>3, <3>2
      <4> QED  BY <1>3, <1>4, <1>8, <4>1
    <3> QED  BY <3>1, <3>2
  <2>3. ASSUME NEW i \in 1 .. N + 2, NEW m \in 1 .. N + 2, i <= m PROVE p2[i] <= p2[m]
    <3>1. CASE m # N + 2
      <4>1. i \in 1 .. N + 1 /\ m \in 1 .. N + 1
        BY <1>3, <2>3, <3>1
      <4> QED  BY <1>4, <1>8, <2>3, <4>1
    <3>2. CASE m = N + 2 /\ i # N + 2
      <4>1. i \in 1 .. N + 1 /\ N + 1 \in 1 .. N + 1 /\ i <= N + 1
        BY <1>3, <3>2
      <4>2. q[i] <= q[N + 1] /\ q[i] \in Nat
        BY <1>4, <1>8, <4>1
      <4>3. p2[i] = q[i] /\ p2[m] = q[N + 1] + Len(w) /\ Len(w) \in Nat /\ q[N + 1] \in Nat
        BY <1>2, <1>8, <3>2, <4>1
      <4> QED  BY <4>2, <4>3
    <3>3. CASE m = N + 2 /\ i = N + 2
      <4>1. p2[N + 2] \in Nat
        BY <1>2, <1>8
      <4> QED  BY <3>3, <4>1
    <3> QED  BY <3>1, <3>2, <3>3
  <2> QED  BY <1>3, <1>8, <2>1, <2>2, <2>3 DEF Starts
<1>10. Stream(t, more, d, p2)
  <2>1. N + 1 + 1 = N + 2 /\ d \in Nat /\ d <= q[N + 1]
    BY <1>3, <1>5, <1>8
  <2>2. d \in 0 .. p2[Len(more) + 1] /\ Len(t) = p2[Len(more) + 1] - d
    <3> DEFINE a == q[N + 1]  l == Len(w)
    <3>1. a \in Nat /\ l \in Nat /\ p2[Len(more) + 1] = a + l /\ Len(t) = a - d + l /\ d <= a
      BY <1>2, <1>3, <1>5, <1>6, <1>8, <2>1
    <3> HIDE DEF a, l
    <3> QED  BY <2>1, <3>1
  <2>3. ASSUME NEW i \in 1 .. Len(more), NEW p \in 1 .. Len(Wire(more[i])), p2[i] + p > d
        PROVE  t[p2[i] + p - d] = Wire(more[i])[p]
    <3>1. i \in 1 .. N + 1 /\ p2[i] = q[i] /\ q[i] \in Nat
      BY <1>3, <1>8
    <3>2. CASE i = N + 1
      <4>1. Wire(more[i]) = w /\ p \in Nat /\ p >= 1 /\ p <= Len(w)
        BY <1>2, <1>3, <3>2 DEF w
      <4>2. /\ p2[i] + p - d = Len(s) + p /\ Len(s) + p \in 1 .. Len(s) + Len(w)
            /\ ~ (Len(s) + p <= Len(s)) /\ Len(s) + p - Len(s) = p
        <5> DEFINE a == q[N + 1]  l == Len(w)  z == Len(s)
        <5>1. a \in Nat /\ l \in Nat /\ z \in Nat /\ z = a - d /\ p2[i] = a
          BY <1>2, <1>5, <1>6, <3>1, <3>2
        <5>2. p <= l
          BY <4>1
        <5> HIDE DEF a, l, z
        <5>3. /\ p2[i] + p - d = z + p /\ z + p \in 1 .. z + l
              /\ ~ (z + p <= z) /\ z + p - z = p
          BY <2>1, <4>1, <5>1, <5>2
        <5> QED  BY <5>3 DEF z, l
      <4> DEFINE x == Len(s) + p
      <4>3. x \in 1 .. Len(s) + Len(w) /\ ~ (x <= Len(s)) /\ x - Len(s) = p
        BY <4>2
      <4> HIDE DEF x
      <4>4. t[x] = w[p]
        BY <1>6, <4>3
      <4> QED  BY <4>1, <4>2, <4>4 DEF x
    <3>3. CASE i # N + 1
      <4>1. i \in 1 .. N /\ more[i] = reqs[i] /\ reqs[i] \in Requests
        BY <1>3, <3>1, <3>3 DEF N
      <4> DEFINE l == Len(Wire(reqs[i]))
      <4>2. l \in Nat /\ p \in 1 .. l
        BY <4>1, WireShape
      <4>3. q[i + 1] = q[i] + l /\ q[i + 1] <= q[N + 1]
        <5>1. i + 1 \in 1 .. N + 1 /\ N + 1 \in 1 .. N + 1 /\ i + 1 <= N + 1
          BY <1>3, <4>1
        <5> QED  BY <1>4, <4>1, <5>1
      <4> DEFINE x == q[i] + p - d
      <4>4. x \in 1 .. Len(s) + Len(w) /\ x <= Len(s) /\ q[i] + p > d
        <5> DEFINE a == q[i]  b == q[N + 1]  z == Len(s)  y == Len(w)
        <5>1. a \in Nat /\ b \in Nat /\ z \in Nat /\ y \in Nat /\ a + l <= b /\ z = b - d /\ a + p > d
          BY <1>2, <1>5, <1>6, <1>8, <2>3, <3>1, <4>3
        <5> HIDE DEF a, b, z, y, l, x
        <5>2. a + p - d \in 1 .. z + y /\ a + p - d <= z /\ a + p > d
          BY <2>1, <4>2, <5>1
        <5> QED  BY <5>2 DEF a, z, y, x
      <4>5. s[x] = Wire(reqs[i])[p]
        BY <1>5, <4>1, <4>2, <4>4
      <4>6. p2[i] + p - d = x
        BY <3>1
      <4> HIDE DEF x
      <4>7. t[x] = s[x]
        BY <1>6, <4>4
      <4> QED  BY <4>1, <4>5, <4>6, <4>7
    <3> QED  BY <3>2, <3>3
  <2> QED  BY <2>2, <2>3 DEF Stream
<1>11. p2[j] + Taken(more, j) = d
  BY <1>4, <1>7, <1>8 DEF d
<1>12. j \in 1 .. Len(more) + 1 /\ (Damaged(more, j) => j <= Len(more))
  BY <1>3, <1>4, <1>7
<1> QED  BY <1>9, <1>10, <1>11, <1>12 DEF Layout, t, w, more
-----------------------------------------------------------------------------
(* What the history of a connection says of its buffers: everything that   *)
(* its client has been answered, or will be without another recv(), is for *)
(* the requests before the first that is still in the buffer or on its     *)
(* way, and that one is not complete in the buffer.  It does so as long as *)
(* every request of the client is plain.                                   *)
AllPlain(f) == PlainTo(asked[f], Len(asked[f]))
Story(f) ==
  /\ \E j \in 1 .. Len(asked[f]) + 1 :
       /\ Layout(inbuff[f], arrived[f] \o unsent[f], asked[f], j)
       /\ answered[f] + outbuff[f] = AnswerSize * Cardinality(Answered(asked[f], j))
  /\ ~Complete(inbuff[f])
  /\ {arrived[f], unsent[f]} \subseteq Seq(Bytes)
  /\ unsent[f] # <<>> => /\ asked[f] # <<>>
                         /\ Len(unsent[f]) <= Len(Wire(asked[f][Len(asked[f])]))
Told(f) == AllPlain(f) => Story(f)

History == asked \in [Fds -> Seq(Requests)] /\ answered \in [Fds -> Nat]
SInv == IInv /\ History /\ \A f \in connects : Told(f)

(* Only these variables matter to it.                                      *)
Buffers(f) == <<inbuff[f], outbuff[f], arrived[f], unsent[f], asked[f], answered[f]>>
LEMMA ToldStays ==
  ASSUME NEW f, Told(f), Buffers(f)' = Buffers(f)
  PROVE  Told(f)'
BY DEF Told, Story, AllPlain, Buffers

(* At first, or on a new connection, nothing has been asked.               *)
LEMMA NothingAsked ==
  /\ Layout(<<>>, <<>>, <<>>, 1)
  /\ ~Complete(<<>>)
  /\ Cardinality(Answered(<<>>, 1)) = 0
<1>1. Starts(<<>>, [i \in 1 .. 1 |-> 0])
  BY DEF Starts
<1>2. Stream(<<>>, <<>>, 0, [i \in 1 .. 1 |-> 0])
  BY DEF Stream
<1>3. <<>> \o <<>> = <<>>
  OBVIOUS
<1>4. ~Damaged(<<>>, 1) /\ Taken(<<>>, 1) = 0
  BY DEF Damaged, Taken
<1>5. HeadEnd(<<>>) = 0
  <2>1. <<>> \in Seq(Pieces) /\ Len(<<>>) = 0
    OBVIOUS
  <2>2. HeadEnd(<<>>) \in 0 .. Len(<<>>)
    BY <2>1, HeadEndFound
  <2> QED  BY <2>1, <2>2
<1>6. Answered(<<>>, 1) = {}
  BY DEF Answered
<1> QED  BY <1>1, <1>2, <1>3, <1>4, <1>5, <1>6, FS_EmptySet DEF Layout, Complete

(* The steps that leave the buffers of connections alone; Reactor::del     *)
(* drops a connection.                                                     *)
LEMMA OtherSteps ==
  ASSUME SInv, UNCHANGED <<inbuff, outbuff, unsent, asked, answered>>, connects' \subseteq connects,
         \A f \in connects' : arrived'[f] = arrived[f]
  PROVE  History' /\ \A f \in connects' : Told(f)'
<1>1. ASSUME NEW f \in connects' PROVE Told(f)'
  <2>1. Buffers(f)' = Buffers(f)
    BY DEF Buffers
  <2>2. Told(f)
    BY DEF SInv
  <2> QED  BY <2>1, <2>2, ToldStays
<1> QED  BY <1>1 DEF SInv, History

(* One of the loop's own steps.                                            *)
LEMMA TurnKeeps ==
  ASSUME SInv, \/ Startup \/ EpollWait \/ (\E e \in batch : NextEvent(e)) \/ TestIn \/ TestOut
               \/ AcceptEnds \/ Connect \/ UNCHANGED vars
               \/ \E f \in Fds : \/ \E n \in 1 .. Len(arrived[f]) : RecvFatal(f, n)
                                 \/ RecvAgain(f) \/ SendAgain(f) \/ UpdataRw(f) \/ SigPipe(f) \/ ClientReads(f)
                                 \/ \E how \in {"fin", "rst"} : ClientLeaves(f, how)
  PROVE  History' /\ \A f \in connects' : Told(f)'
<1>1. UNCHANGED <<inbuff, outbuff, unsent, asked, answered, connects, arrived>>
  BY DEF Startup, EpollWait, NextEvent, TestIn, TestOut, AcceptEnds, Connect, RecvFatal, RecvAgain,
     SendAgain, SigPipe, ClientReads, ClientLeaves, UpdataRw, vars, connVars, loopVars, listenVars,
     peerVars, sendVars
<1> QED  BY <1>1, OtherSteps

(* Reactor::del.                                                           *)
LEMMA DelKeeps ==
  ASSUME SInv, NEW f \in Fds, RecvError(f) \/ SendError(f)
  PROVE  History' /\ \A g \in connects' : Told(g)'
<1>1. Del(f) /\ UNCHANGED sendVars
  BY DEF RecvError, SendError
<1>2. UNCHANGED <<inbuff, outbuff, unsent, asked, answered>> /\ connects' \subseteq connects \ {f}
  BY <1>1 DEF Del, sendVars
<1>3. \A g \in connects' : g # f /\ g \in Fds
  BY <1>2 DEF SInv, IInv, TypeOK
<1>4. \A g \in connects' : arrived'[g] = arrived[g]
  BY <1>1, <1>3 DEF Del, SInv, IInv, Types
<1> QED  BY <1>2, <1>4, OtherSteps

(* A new connection.                                                       *)
LEMMA AcceptKeeps ==
  ASSUME SInv, NEW f \in Fds, Accept(f)
  PROVE  History' /\ \A g \in connects' : Told(g)'
<1> USE DEF Accept, Insert
<1>1. peer[f] = "none" /\ arrived[f] = <<>>
  BY DEF SInv, IInv, OpenOnly
<1>2. /\ inbuff'[f] = <<>> /\ outbuff'[f] = 0 /\ arrived'[f] = <<>> /\ unsent'[f] = <<>>
      /\ asked'[f] = <<>> /\ answered'[f] = 0
  BY <1>1 DEF SInv, IInv, TypeOK, Types, History
<1>3. Told(f)'
  <2>1. <<>> \o <<>> = <<>> /\ Len(<<>>) = 0 /\ 1 \in 1 .. 0 + 1
    OBVIOUS
  <2>2. AnswerSize * 0 = 0 /\ 0 + 0 = 0
    BY SizesAssumption
  <2>3. <<>> \in Seq(Bytes)
    OBVIOUS
  <2> QED  BY <1>2, <2>1, <2>2, <2>3, NothingAsked DEF Told, Story
<1>4. ASSUME NEW g \in connects', g # f PROVE Told(g)'
  <2>1. g \in connects /\ g \in Fds
    BY <1>4 DEF SInv, IInv, TypeOK
  <2>2. Buffers(g)' = Buffers(g)
    BY <1>4, <2>1 DEF Buffers, SInv, IInv, TypeOK, Types, History
  <2> QED  BY <2>1, <2>2, ToldStays DEF SInv
<1>5. History'
  <2>1. <<>> \in Seq(Requests)
    OBVIOUS
  <2> QED  BY <2>1 DEF SInv, History
<1> QED  BY <1>3, <1>4, <1>5

(* send() of n units: what was waiting is answered.                        *)
LEMMA SendKeeps ==
  ASSUME SInv, NEW f \in Fds, NEW n \in 1 .. SendBuffer, Send(f, n)
  PROVE  History' /\ \A g \in connects' : Told(g)'
<1> USE DEF Send, peerVars
<1>1. /\ n \in Nat /\ outbuff[f] \in Nat /\ answered[f] \in Nat
      /\ outbuff'[f] = outbuff[f] - n /\ answered'[f] = answered[f] + n
      /\ UNCHANGED <<connects, inbuff, arrived, unsent, asked>>
  BY SizesAssumption DEF SInv, IInv, TypeOK, History
<1>2. answered'[f] + outbuff'[f] = answered[f] + outbuff[f]
  BY <1>1
<1>3. ASSUME NEW g \in connects' PROVE Told(g)'
  <2>1. Told(g) /\ g \in Fds
    BY <1>1 DEF SInv, IInv, TypeOK
  <2>2. CASE g = f
    BY <1>1, <1>2, <2>1, <2>2 DEF Told, Story, AllPlain
  <2>3. CASE g # f
    <3>1. Buffers(g)' = Buffers(g)
      BY <1>1, <2>1, <2>3 DEF Buffers, SInv, IInv, TypeOK, History
    <3> QED  BY <2>1, <3>1, ToldStays
  <2> QED  BY <2>2, <2>3
<1>4. History'
  BY <1>1 DEF SInv, History
<1> QED  BY <1>3, <1>4
(* recv(): the requests that are served leave the stream together with     *)
(* their answers, which wait in outbuff.                                   *)
LEMMA RecvKeeps ==
  ASSUME SInv, NEW f \in Fds, NEW n \in 1 .. Len(arrived[f]), Recv(f, n)
  PROVE  History' /\ \A g \in connects' : Told(g)'
<1> USE DEF Recv, sendVars
<1> DEFINE tail == SubSeq(arrived[f], n + 1, Len(arrived[f]))
           in2  == inbuff[f] \o SubSeq(arrived[f], 1, n)
           rest == tail \o unsent[f]
           reqs == asked[f]
<1>1. /\ inbuff[f] \in Seq(Pieces) /\ arrived[f] \in Seq(Pieces) /\ unsent[f] \in Seq(Pieces)
      /\ reqs \in Seq(Requests) /\ answered[f] \in Nat /\ outbuff[f] \in Nat
      /\ f \in connects
  BY DEF SInv, IInv, TypeOK, Types, History, OpenOnly
<1>2. UNCHANGED <<connects, unsent, asked, answered>> /\ arrived'[f] = tail
  BY <1>1 DEF SInv, IInv, Types
<1>3. ASSUME AllPlain(f) PROVE Story(f)'
  <2>1. PICK j \in 1 .. Len(reqs) + 1 :
          /\ Layout(inbuff[f], arrived[f] \o unsent[f], reqs, j)
          /\ answered[f] + outbuff[f] = AnswerSize * Cardinality(Answered(reqs, j))
    BY <1>1, <1>3 DEF SInv, Told, Story
  <2>2. /\ arrived[f] \in Seq(Bytes) /\ unsent[f] \in Seq(Bytes) /\ tail \in Seq(Bytes)
        /\ Served(f, n) = service[in2] /\ service[in2].end = "fine"
    <3>1. arrived[f] \in Seq(Bytes) /\ unsent[f] \in Seq(Bytes)
      BY <1>1, <1>3 DEF SInv, Told, Story
    <3> QED  BY <3>1, WholePortion DEF Served
  <2>3. in2 \in Seq(Pieces) /\ tail \in Seq(Pieces) /\ in2 \o rest = inbuff[f] \o (arrived[f] \o unsent[f])
    <3>1. TakenOver(inbuff[f], arrived[f], unsent[f], n)
      BY <1>1, Received
    <3> QED  BY <3>1 DEF TakenOver
  <2> HIDE DEF tail
  <2>4. rest \in Seq(Pieces)
    BY <1>1, <2>3, ConcatProperties
  <2>5. /\ arrived'[f] \o unsent'[f] = rest /\ inbuff'[f] = service[in2].in
        /\ outbuff'[f] = outbuff[f] + AnswerSize * service[in2].answers
    BY <1>1, <1>2, <2>2 DEF SInv, IInv, TypeOK, Types
  <2> HIDE DEF in2, rest
  <2>6. Layout(in2, rest, reqs, j)
    BY <2>1, <2>3, LayoutMoves
  <2>7. Kept(in2, rest, reqs, j)
    BY <1>1, <1>3, <2>2, <2>3, <2>4, <2>6, ServiceKeeps DEF AllPlain
  <2>8. PICK k \in 1 .. Len(reqs) + 1 :
          /\ Layout(service[in2].in, rest, reqs, k)
          /\ Cardinality(Answered(reqs, k)) = Cardinality(Answered(reqs, j)) + service[in2].answers
          /\ ~Complete(service[in2].in)
    BY <2>7 DEF Kept
  <2>9. answered'[f] + outbuff'[f] = AnswerSize * Cardinality(Answered(reqs, k))
    <3> DEFINE c == Cardinality(Answered(reqs, j))
               d == service[in2].answers
    <3>1. c \in Nat
      <4>1. j \in Int
        BY <1>1
      <4> QED  BY <4>1, AnsweredFinite
    <3>2. d \in Nat
      BY <2>3, ServiceType DEF Results
    <3>3. answered[f] + outbuff[f] = AnswerSize * c /\ Cardinality(Answered(reqs, k)) = c + d
      BY <2>1, <2>8
    <3>4. outbuff'[f] = outbuff[f] + AnswerSize * d /\ answered'[f] = answered[f]
      BY <1>2, <2>5
    <3> HIDE DEF c, d
    <3>5. AnswerSize * (c + d) = AnswerSize * c + AnswerSize * d
          /\ AnswerSize * c \in Nat /\ AnswerSize * d \in Nat
      <4>1. AnswerSize \in Nat
        BY SizesAssumption
      <4> QED  BY ONLY <3>1, <3>2, <4>1, Distributes, Zenon
    <3> QED  BY <1>1, <3>3, <3>4, <3>5
  <2>10. \E i \in 1 .. Len(asked'[f]) + 1 :
           /\ Layout(inbuff'[f], arrived'[f] \o unsent'[f], asked'[f], i)
           /\ answered'[f] + outbuff'[f] = AnswerSize * Cardinality(Answered(asked'[f], i))
    BY <1>2, <2>5, <2>8, <2>9
  <2>11. ~Complete(inbuff'[f])
    BY <2>5, <2>8
  <2>12. unsent'[f] # <<>> => /\ asked'[f] # <<>>
                              /\ Len(unsent'[f]) <= Len(Wire(asked'[f][Len(asked'[f])]))
    BY <1>1, <1>2, <1>3 DEF SInv, Told, Story
  <2>13. {arrived'[f], unsent'[f]} \subseteq Seq(Bytes)
    BY <1>2, <2>2
  <2> QED  BY <2>10, <2>11, <2>12, <2>13 DEF Story
<1>4. Told(f)'
  <2>1. AllPlain(f)' <=> AllPlain(f)
    BY <1>2 DEF AllPlain
  <2> QED  BY <1>3, <2>1 DEF Told
<1>5. ASSUME NEW g \in connects', g # f PROVE Told(g)'
  <2>1. Told(g) /\ g \in Fds
    BY <1>2 DEF SInv, IInv, TypeOK
  <2>2. Buffers(g)' = Buffers(g)
    BY <1>5, <2>1 DEF Buffers, SInv, IInv, TypeOK, Types
  <2> QED  BY <2>1, <2>2, ToldStays
<1>6. History'
  BY <1>2 DEF SInv, History
<1> QED  BY <1>4, <1>5, <1>6

(* A client asks: its request is put behind the stream.                    *)
LEMMA AskKeeps ==
  ASSUME SInv, NEW f \in Fds, NEW r \in Requests, ClientAsks(f, r)
  PROVE  History' /\ \A g \in connects' : Told(g)'
<1> USE DEF ClientAsks, connVars, sendVars
<1> DEFINE reqs == asked[f]
<1>1. /\ inbuff[f] \in Seq(Pieces) /\ arrived[f] \in Seq(Pieces) /\ unsent[f] = <<>>
      /\ reqs \in Seq(Requests) /\ f \in connects
  BY DEF SInv, IInv, TypeOK, Types, History
<1>2. /\ unsent'[f] = Wire(r) /\ asked'[f] = Append(reqs, r)
      /\ UNCHANGED <<connects, inbuff, outbuff, arrived, answered>>
  BY DEF SInv, IInv, Types, History
<1>5. /\ Append(reqs, r) \in Seq(Requests) /\ Len(Append(reqs, r)) = Len(reqs) + 1
      /\ Append(reqs, r)[Len(reqs) + 1] = r /\ \A i \in 1 .. Len(reqs) : Append(reqs, r)[i] = reqs[i]
  BY <1>1, AppendProperties
<1>6. ASSUME AllPlain(f)' PROVE Story(f)'
  <2>1. AllPlain(f) /\ Plain(r)
    <3>1. Len(reqs) \in Nat /\ \A i \in 1 .. Len(reqs) + 1 : Plain(Append(reqs, r)[i])
      BY <1>1, <1>2, <1>5, <1>6 DEF AllPlain, PlainTo
    <3>2. \A i \in 1 .. Len(reqs) : Plain(reqs[i])
      BY <1>5, <3>1
    <3>3. Len(reqs) + 1 \in 1 .. Len(reqs) + 1
      BY <3>1
    <3> QED  BY <1>5, <3>1, <3>2, <3>3 DEF AllPlain, PlainTo
  <2>2. PICK j \in 1 .. Len(reqs) + 1 :
          /\ Layout(inbuff[f], arrived[f], reqs, j)
          /\ answered[f] + outbuff[f] = AnswerSize * Cardinality(Answered(reqs, j))
    <3>1. arrived[f] \o <<>> = arrived[f]
      BY <1>1
    <3> QED  BY <1>1, <2>1, <3>1 DEF SInv, Told, Story
  <2>3. Layout(inbuff[f], arrived[f] \o Wire(r), Append(reqs, r), j)
    BY <1>1, <2>2, LayoutGrows
  <2>4. Answered(Append(reqs, r), j) = Answered(reqs, j)
    <3>1. ASSUME NEW i \in 1 .. j - 1 PROVE Answerable(Append(reqs, r), i) <=> Answerable(reqs, i)
      <4>1. i \in 1 .. Len(reqs) /\ (i > 1 => i - 1 \in 1 .. Len(reqs))
        BY <1>1
      <4>2. \A m \in 1 .. i : m \in 1 .. Len(reqs)
        BY <4>1
      <4> QED  BY <1>5, <4>1, <4>2 DEF Answerable, PlainTo
    <3> QED  BY <3>1 DEF Answered
  <2>5. j \in 1 .. Len(Append(reqs, r)) + 1
    BY <1>1, <1>5
  <2>6. \E i \in 1 .. Len(asked'[f]) + 1 :
          /\ Layout(inbuff'[f], arrived'[f] \o unsent'[f], asked'[f], i)
          /\ answered'[f] + outbuff'[f] = AnswerSize * Cardinality(Answered(asked'[f], i))
    BY <1>2, <2>2, <2>3, <2>4, <2>5
  <2>7. ~Complete(inbuff'[f])
    BY <1>1, <1>2, <2>1 DEF SInv, Told, Story
  <2>8. asked'[f] # <<>> /\ Len(unsent'[f]) <= Len(Wire(asked'[f][Len(asked'[f])]))
    <3>1. Len(Wire(r)) \in Nat
      BY WireShape
    <3>2. asked'[f][Len(asked'[f])] = r /\ Len(asked'[f]) > 0
      BY <1>1, <1>2, <1>5
    <3> QED  BY <1>2, <3>1, <3>2
  <2>9. {arrived'[f], unsent'[f]} \subseteq Seq(Bytes)
    BY <1>1, <1>2, <2>1, WirePieces DEF SInv, Told, Story
  <2> QED  BY <2>6, <2>7, <2>8, <2>9 DEF Story
<1>7. Told(f)'
  BY <1>6 DEF Told
<1>8. ASSUME NEW g \in connects', g # f PROVE Told(g)'
  <2>1. Told(g) /\ g \in Fds
    BY <1>2 DEF SInv, IInv, TypeOK
  <2>2. Buffers(g)' = Buffers(g)
    BY <1>8, <2>1 DEF Buffers, SInv, IInv, Types, History
  <2> QED  BY <2>1, <2>2, ToldStays
<1>9. History'
  BY <1>5 DEF SInv, History
<1> QED  BY <1>7, <1>8, <1>9

(* A client sends: a piece moves from its side to the kernel of the server.*)
LEMMA ClientSendKeeps ==
  ASSUME SInv, NEW f \in Fds, ClientSends(f)
  PROVE  History' /\ \A g \in connects' : Told(g)'
<1> USE DEF ClientSends, connVars, sendVars
<1>1. /\ arrived[f] \in Seq(Pieces) /\ unsent[f] \in Seq(Pieces) /\ unsent[f] # <<>> /\ f \in connects
  BY DEF SInv, IInv, TypeOK, Types
<1>2. /\ unsent'[f] = Tail(unsent[f]) /\ arrived'[f] = Append(arrived[f], Head(unsent[f]))
      /\ UNCHANGED <<connects, inbuff, outbuff, asked, answered>>
  BY DEF SInv, IInv, Types
<1>3. /\ arrived'[f] \o unsent'[f] = arrived[f] \o unsent[f] /\ Len(unsent'[f]) = Len(unsent[f]) - 1
      /\ Len(unsent[f]) \in Nat
  <2>1. \A a, u \in Seq(Pieces) : u # <<>> =>
          Append(a, Head(u)) \o Tail(u) = a \o u /\ Len(Tail(u)) = Len(u) - 1
    BY Sent
  <2>2. /\ Append(arrived[f], Head(unsent[f])) \o Tail(unsent[f]) = arrived[f] \o unsent[f]
        /\ Len(Tail(unsent[f])) = Len(unsent[f]) - 1
    BY <1>1, <2>1, Zenon
  <2>3. Len(unsent[f]) \in Nat
    BY <1>1
  <2> QED  BY <1>2, <2>2, <2>3
<1>4. ASSUME AllPlain(f) PROVE Story(f)'
  <2>0. Story(f)
    BY <1>1, <1>4 DEF SInv, Told
  <2>1. asked[f] # <<>> /\ Len(unsent[f]) <= Len(Wire(asked[f][Len(asked[f])]))
    BY <1>1, <2>0 DEF Story
  <2>2. Len(unsent'[f]) <= Len(Wire(asked[f][Len(asked[f])]))
    <3>1. Len(asked[f]) \in 1 .. Len(asked[f]) /\ asked[f] \in Seq(Requests)
      BY <2>1 DEF SInv, History
    <3>2. Len(Wire(asked[f][Len(asked[f])])) \in Nat
      BY <3>1, WireShape
    <3> QED  BY <1>3, <2>1, <3>2
  <2>3. {arrived'[f], unsent'[f]} \subseteq Seq(Bytes)
    <3>1. arrived[f] \in Seq(Bytes) /\ unsent[f] \in Seq(Bytes)
      BY <2>0 DEF Story
    <3>2. \A a, u \in Seq(Bytes) : u # <<>> => Append(a, Head(u)) \in Seq(Bytes) /\ Tail(u) \in Seq(Bytes)
      BY Sent
    <3>3. Append(arrived[f], Head(unsent[f])) \in Seq(Bytes) /\ Tail(unsent[f]) \in Seq(Bytes)
      BY <1>1, <3>1, <3>2, Zenon
    <3> QED  BY <1>2, <3>3
  <2> QED  BY <1>2, <1>3, <2>0, <2>1, <2>2, <2>3 DEF Story
<1>7. Told(f)'
  BY <1>2, <1>4 DEF Told, AllPlain
<1>5. ASSUME NEW g \in connects', g # f PROVE Told(g)'
  <2>1. Told(g) /\ g \in Fds
    BY <1>2 DEF SInv, IInv, TypeOK
  <2>2. Buffers(g)' = Buffers(g)
    BY <1>5, <2>1 DEF Buffers, SInv, IInv, Types
  <2> QED  BY <2>1, <2>2, ToldStays
<1>6. History'
  BY <1>2 DEF SInv, History
<1> QED  BY <1>5, <1>6, <1>7

(* Every step keeps the invariant.                                         *)
LEMMA StepKept == SInv /\ [Next]_vars => SInv'
<1> SUFFICES ASSUME SInv, [Next]_vars PROVE SInv'
  OBVIOUS
<1>1. IInv'
  BY Preserved DEF SInv
<1>2. History' /\ \A f \in connects' : Told(f)'
  <2>1. CASE Startup \/ UNCHANGED vars
    BY <2>1, TurnKeeps
  <2>2. CASE Server
    BY <2>2, TurnKeeps, AcceptKeeps, RecvKeeps, SendKeeps, DelKeeps DEF Server
  <2>3. CASE Environment
    BY <2>3, TurnKeeps, AskKeeps, ClientSendKeeps DEF Environment
  <2> QED  BY <2>1, <2>2, <2>3 DEF Next
<1> QED  BY <1>1, <1>2 DEF SInv

LEMMA HistoryKept == Spec => []SInv
<1>1. Init => SInv
  BY InitIInv DEF Init, SInv, History
<1> QED  BY <1>1, StepKept, PTL DEF Spec
-----------------------------------------------------------------------------
(* Where a request stands in the stream of a connection.                   *)
LEMMA Places ==
  ASSUME NEW reqs \in Seq(Requests), NEW q, Starts(reqs, q), NEW j \in 1 .. Len(reqs)
  PROVE  /\ q[j] \in Nat /\ q[j + 1] \in Nat /\ q[Len(reqs)] \in Nat /\ q[Len(reqs) + 1] \in Nat
         /\ Len(Wire(reqs[j])) \in Nat /\ Len(Wire(reqs[j])) >= 3
         /\ Len(Wire(reqs[Len(reqs)])) \in Nat /\ Len(Wire(reqs[Len(reqs)])) >= 3
         /\ q[j + 1] = q[j] + Len(Wire(reqs[j]))
         /\ q[Len(reqs) + 1] = q[Len(reqs)] + Len(Wire(reqs[Len(reqs)]))
         /\ j < Len(reqs) => q[j + 1] <= q[Len(reqs)] /\ q[j] + 2 <= q[Len(reqs)]
         /\ j + 1 < Len(reqs) => q[j + 1] + 2 <= q[Len(reqs)]
<1> DEFINE N == Len(reqs)
<1>1. /\ N \in Nat /\ N >= 1 /\ q \in [1 .. N + 1 -> Nat]
      /\ \A i \in 1 .. N : q[i + 1] = q[i] + Len(Wire(reqs[i]))
      /\ \A i, m \in 1 .. N + 1 : i <= m => q[i] <= q[m]
      /\ \A i \in 1 .. N : reqs[i] \in Requests
  BY DEF Starts
<1>2. ASSUME NEW i \in 1 .. N PROVE Len(Wire(reqs[i])) \in Nat /\ Len(Wire(reqs[i])) >= 3
  BY <1>1, WireShape
<1> HIDE DEF N
<1>3. \A i \in 1 .. N + 1 : q[i] \in Nat
  BY <1>1
<1>4. j \in 1 .. N /\ N \in 1 .. N /\ j + 1 \in 1 .. N + 1 /\ N + 1 \in 1 .. N + 1 /\ j \in 1 .. N + 1
      /\ N \in 1 .. N + 1
  BY <1>1 DEF N
<1>5. /\ q[j] \in Nat /\ q[j + 1] \in Nat /\ q[N] \in Nat /\ q[N + 1] \in Nat
      /\ Len(Wire(reqs[j])) \in Nat /\ Len(Wire(reqs[j])) >= 3
      /\ Len(Wire(reqs[N])) \in Nat /\ Len(Wire(reqs[N])) >= 3
      /\ q[j + 1] = q[j] + Len(Wire(reqs[j]))
      /\ q[N + 1] = q[N] + Len(Wire(reqs[N]))
  BY <1>1, <1>2, <1>3, <1>4
<1>6. ASSUME j < N PROVE q[j + 1] <= q[N] /\ q[j] + 2 <= q[N]
  <2>1. j + 1 <= N
    BY <1>1, <1>4, <1>6
  <2>2. q[j + 1] <= q[N]
    BY <1>1, <1>4, <2>1
  <2> QED  BY <1>5, <2>2, SMTT(30)
<1>7. ASSUME j + 1 < N PROVE q[j + 1] + 2 <= q[N]
  <2>1. j + 1 \in 1 .. N /\ (j + 1) + 1 \in 1 .. N + 1 /\ (j + 1) + 1 <= N
    BY <1>1, <1>4, <1>7
  <2>2. q[(j + 1) + 1] = q[j + 1] + Len(Wire(reqs[j + 1])) /\ q[(j + 1) + 1] <= q[N]
    BY <1>1, <1>4, <2>1
  <2>3. Len(Wire(reqs[j + 1])) \in Nat /\ Len(Wire(reqs[j + 1])) >= 2
    BY <1>2, <2>1
  <2> DEFINE x == q[(j + 1) + 1]  y == q[j + 1]  z == q[N]  l == Len(Wire(reqs[j + 1]))
  <2>4. x = y + l /\ x <= z /\ l \in Nat /\ l >= 2 /\ y \in Nat /\ z \in Nat
    BY <1>5, <2>2, <2>3
  <2> HIDE DEF x, y, z, l
  <2>5. y + 2 <= z
    BY <2>4
  <2> QED  BY <2>5 DEF y, z
<1> QED  BY <1>5, <1>6, <1>7 DEF N

(* The requests that have been answered have been sent whole.              *)
LEMMA AnsweredWhole ==
  ASSUME SInv, NEW f \in connects, NEW j \in 1 .. Len(asked[f]) + 1,
         Layout(inbuff[f], arrived[f] \o unsent[f], asked[f], j), NEW i \in 1 .. j - 1
  PROVE  i \in 1 .. Len(asked[f]) /\ Whole(f, i)
<1> DEFINE reqs == asked[f]
           N == Len(reqs)
           u == unsent[f]
           rest == arrived[f] \o u
           s == inbuff[f] \o rest
           k == Taken(reqs, j)
<1>1. /\ inbuff[f] \in Seq(Pieces) /\ arrived[f] \in Seq(Pieces) /\ u \in Seq(Pieces)
      /\ reqs \in Seq(Requests)
  BY DEF SInv, IInv, TypeOK, Types, History
<1>2. PICK q : Starts(reqs, q) /\ Stream(s, reqs, q[j] + k, q)
  BY DEF Layout
<1>3. /\ rest \in Seq(Pieces) /\ Len(rest) = Len(arrived[f]) + Len(u)
      /\ Len(u) \in Nat /\ Len(arrived[f]) \in Nat
  BY <1>1, ConcatProperties
<1> HIDE DEF rest
<1>4. Len(s) = Len(inbuff[f]) + Len(rest) /\ Len(inbuff[f]) \in Nat
  <2>1. inbuff[f] \in Seq(Pieces) /\ rest \in Seq(Pieces)
    BY <1>1, <1>3
  <2> QED  BY <2>1, ConcatProperties
<1>5. k \in {0, 1} /\ (k = 1 <=> Damaged(reqs, j)) /\ (Damaged(reqs, j) => j <= N)
  BY DEF Taken, Layout
<1> HIDE DEF k
<1>6. /\ Len(s) = q[N + 1] - (q[j] + k) /\ N \in Nat
      /\ q[N + 1] \in Nat /\ q[j] \in Nat
  <2>1. Len(s) = q[N + 1] - (q[j] + k) /\ N \in Nat /\ q \in [1 .. N + 1 -> Nat]
    BY <1>1, <1>2 DEF Stream, Starts
  <2>2. N + 1 \in 1 .. N + 1 /\ j \in 1 .. N + 1
    BY <2>1
  <2> QED  BY <2>1, <2>2
<1>7. i \in 1 .. N /\ i < j /\ j <= N + 1
  BY <1>6
<1>8. Len(u) <= q[N + 1] - (q[j] + k)
  <2> DEFINE a == Len(arrived[f])  b == Len(inbuff[f])  c == Len(u)  t == Len(s)
             d == q[N + 1]  e == q[j] + k
  <2>0. k \in Nat /\ q[j] \in Nat
    BY <1>5, <1>6
  <2>1. /\ a \in Nat /\ b \in Nat /\ c \in Nat /\ t = b + (a + c)
        /\ t = d - e /\ d \in Nat /\ e \in Nat
    <3>1. a \in Nat /\ b \in Nat /\ c \in Nat
      BY <1>3, <1>4
    <3>2. t = b + (a + c)
      BY <1>3, <1>4
    <3>3. t = d - e /\ d \in Nat
      BY <1>6
    <3>4. e \in Nat
      BY <2>0
    <3> QED  BY <3>1, <3>2, <3>3, <3>4
  <2> HIDE DEF a, b, c, d, e, t
  <2>2. c <= d - e
    BY <2>1
  <2> QED  BY <2>2 DEF c, d, e
<1>9. j = N + 1 => u = <<>>
  <2> SUFFICES ASSUME j = N + 1 PROVE u = <<>>
    OBVIOUS
  <2> DEFINE c == Len(u)  d == q[N + 1]
  <2>1. d \in Nat /\ c \in Nat /\ c <= d - (d + k)
    BY <1>3, <1>6, <1>8
  <2> HIDE DEF c, d
  <2>2. c = 0
    BY <1>5, <2>1
  <2> QED  BY <1>1, <2>2 DEF c
<1> HIDE DEF s, u, N, reqs
<1>10. reqs \in Seq(Requests) /\ N = Len(reqs) /\ N \in 1 .. Len(reqs)
  BY <1>1, <1>6, <1>7 DEF N
<1>11. /\ q[N] \in Nat /\ q[N + 1] = q[N] + Len(Wire(reqs[N]))
       /\ Len(Wire(reqs[N])) \in Nat /\ Len(Wire(reqs[N])) >= 3
  BY <1>2, <1>10, Places
<1>12. CASE Unclosed(reqs[i])
  <2>1. j = i + 1 => k = 1 /\ j <= N
    <3> SUFFICES ASSUME j = i + 1 PROVE k = 1 /\ j <= N
      OBVIOUS
    <3>1. Damaged(reqs, j)
      BY <1>7, <1>12 DEF Damaged
    <3> QED  BY <1>5, <3>1
  <2>2. CASE i + 1 < N
    BY <1>12, <2>2 DEF Whole, N, reqs
  <2>3. CASE i + 1 >= N
    <3>1. i + 1 = N
      BY <1>6, <1>7, <2>1, <2>3
    <3>2. CASE j = N + 1
      <4>1. Len(u) < Len(Wire(reqs[N]))
        BY <1>9, <1>11, <3>2
      <4> QED  BY <1>12, <3>1, <4>1 DEF Whole, N, reqs, u
    <3>3. CASE j # N + 1
      <4>1. j = N /\ k = 1
        BY <1>6, <1>7, <2>1, <3>1, <3>3
      <4>2. Len(u) < Len(Wire(reqs[N]))
        <5> DEFINE a == q[N]  b == q[N + 1]  l == Len(Wire(reqs[N]))  c == Len(u)
        <5>1. a \in Nat /\ l \in Nat /\ c \in Nat /\ b = a + l /\ c <= b - (a + 1)
          BY <1>3, <1>8, <1>11, <4>1
        <5> HIDE DEF a, b, l, c
        <5>2. c < l
          BY <5>1
        <5> QED  BY <5>2 DEF c, l
      <4> QED  BY <1>12, <3>1, <4>2 DEF Whole, N, reqs, u
    <3> QED  BY <3>2, <3>3
  <2> QED  BY <1>6, <1>7, <2>2, <2>3
<1>13. CASE ~Unclosed(reqs[i])
  <2>1. i < N \/ u = <<>>
    BY <1>6, <1>7, <1>9
  <2> QED  BY <1>13, <2>1 DEF Whole, N, reqs, u
<1> QED  BY <1>7, <1>12, <1>13 DEF N, reqs

(* When all that arrived has been received, the others have not.           *)
LEMMA WholeAnswered ==
  ASSUME SInv, NEW f \in connects, AllPlain(f), NEW j \in 1 .. Len(asked[f]) + 1,
         Layout(inbuff[f], arrived[f] \o unsent[f], asked[f], j),
         arrived[f] = <<>>, NEW i \in 1 .. Len(asked[f]), Whole(f, i)
  PROVE  i < j
<1> SUFFICES ASSUME j <= i PROVE FALSE
  OBVIOUS
<1> DEFINE reqs == asked[f]
           N == Len(reqs)
           u == unsent[f]
           in == inbuff[f]
           z == IF Unclosed(reqs[j]) THEN 1 ELSE 0
           k == Taken(reqs, j)
<1>1. /\ in \in Seq(Pieces) /\ u \in Seq(Pieces) /\ reqs \in Seq(Requests) /\ arrived[f] \o u = u
      /\ PlainTo(reqs, N)
  BY DEF SInv, IInv, TypeOK, Types, History, AllPlain
<1>2. PICK q : Starts(reqs, q) /\ Stream(in \o u, reqs, q[j] + k, q)
  BY <1>1 DEF Layout
<1>3. Len(in \o u) = Len(in) + Len(u) /\ Len(in) \in Nat /\ Len(u) \in Nat
  BY <1>1, ConcatProperties
<1>4. Len(in) + Len(u) = q[N + 1] - (q[j] + k)
  BY <1>2, <1>3 DEF Stream
<1>5. N \in Nat /\ i \in 1 .. N /\ j \in 1 .. N
  BY <1>1
<1>6. ~Complete(in) /\ (u # <<>> => Len(u) <= Len(Wire(reqs[N])))
  BY DEF SInv, Told, Story
<1>7. z \in {0, 1} /\ (z = 1 <=> Unclosed(reqs[j])) /\ k \in {0, 1}
  BY DEF Taken
<1>8. /\ Unclosed(reqs[i]) => \/ i + 1 < N
                              \/ i + 1 = N /\ Len(u) < Len(Wire(reqs[N]))
      /\ ~Unclosed(reqs[i]) => i < N \/ u = <<>>
  BY DEF Whole
<1> HIDE DEF reqs, u, in, z, k
<1> DEFINE a == q[j]  b == q[j + 1]  c == q[N]  d == q[N + 1]
           l == Len(Wire(reqs[j]))
           m == Len(Wire(reqs[N]))
<1>9. /\ a \in Nat /\ b \in Nat /\ c \in Nat /\ d \in Nat /\ l \in Nat /\ l >= 3 /\ m \in Nat /\ m >= 3
      /\ b = a + l /\ d = c + m
      /\ j < N => b <= c /\ a + 2 <= c
      /\ j + 1 < N => b + 2 <= c
      /\ j = N => a = c /\ b = d /\ l = m
  BY <1>1, <1>2, <1>5, Places
<1>10. u # <<>> \/ Len(u) = 0
  BY <1>1
<1>11. Len(in) + Len(u) = d - (a + k) /\ (u # <<>> => Len(u) <= m)
  BY <1>4, <1>6
<1> HIDE DEF a, b, c, d, l, m
<1>12. Len(in) >= l - k + z
  <2>0. Len(in) \in Nat /\ l \in Nat /\ k \in Nat /\ z \in Nat /\ z <= 1
    BY <1>3, <1>7, <1>9
  <2> HIDE DEF N
  <2>1. CASE j = N
    <3>1. i = N /\ i = j
      BY <1>5, <2>1
    <3>2. ~Unclosed(reqs[i])
      BY <1>5, <1>8, <3>1
    <3>3. Len(u) = 0
      BY <1>5, <1>8, <1>10, <3>1, <3>2
    <3> QED  BY <1>3, <1>7, <1>9, <1>11, <2>1, <3>1, <3>2, <3>3
  <2>2. CASE j < N /\ u = <<>>
    <3>1. Len(u) = 0
      BY <2>2
    <3>2. a + l <= c /\ d = c + m
      BY <1>9, <2>2
    <3>3. Len(in) = d - (a + k)
      BY <1>3, <1>11, <3>1
    <3>4. Len(in) >= l + 3 - k
      BY <1>7, <1>9, <3>2, <3>3
    <3> QED  BY <2>0, <3>4
  <2>3. CASE j + 1 < N /\ u # <<>>
    <3>1. a + l + 2 <= c /\ d = c + m
      BY <1>5, <1>9, <2>3
    <3>2. Len(in) + Len(u) = d - (a + k) /\ Len(u) <= m
      BY <1>11, <2>3
    <3>3. Len(in) >= l + 2 - k
      BY <1>3, <1>7, <1>9, <3>1, <3>2
    <3> QED  BY <2>0, <3>3
  <2>4. CASE j + 1 = N /\ u # <<>>
    <3>1. j < N
      BY <1>5, <2>4
    <3>2. CASE Unclosed(reqs[i])
      <4>1. Len(u) < m
        BY <1>5, <1>8, <2>4, <3>2 DEF m
      <4>2. a + l <= c /\ d = c + m
        BY <1>9, <3>1
      <4>3. Len(in) + Len(u) = d - (a + k)
        BY <1>11
      <4>4. Len(in) >= l + 1 - k
        BY <1>3, <1>7, <1>9, <4>1, <4>2, <4>3
      <4> QED  BY <2>0, <4>4
    <3>3. CASE ~Unclosed(reqs[i])
      <4>1. i = j
        BY <1>5, <1>8, <2>4, <3>3
      <4>2. z = 0
        BY <1>7, <3>3, <4>1
      <4>3. Len(u) <= m /\ a + l <= c /\ d = c + m
        BY <1>9, <1>11, <2>4, <3>1
      <4>4. Len(in) + Len(u) = d - (a + k)
        BY <1>11
      <4>5. Len(in) >= l - k
        BY <1>3, <1>7, <1>9, <4>3, <4>4
      <4> QED  BY <2>0, <4>2, <4>5
    <3> QED  BY <3>2, <3>3
  <2>5. j = N \/ j + 1 = N \/ j + 1 < N
    BY <1>5
  <2>6. j + 1 = N \/ j + 1 < N => j < N
    BY <1>5
  <2> QED  BY <2>1, <2>2, <2>3, <2>4, <2>5, <2>6
<1>13. in # <<>> /\ Len(in) >= 3 - k
  <2>1. l \in Nat /\ l >= 3 /\ Len(in) \in Nat
    BY <1>3, <1>9
  <2>2. Len(in) >= 3 - k /\ Len(in) # 0
    BY <1>7, <1>12, <2>1
  <2> QED  BY <2>2
<1>14. Damaged(reqs, j) => j <= N
  BY DEF Layout, reqs
<1>15. Complete(in)
  BY <1>1, <1>2, <1>5, <1>12, <1>13, <1>14, FirstRequest DEF l, z, k
<1> QED  BY <1>6, <1>15

(* Requests and answers keep step on every connection whose requests are   *)
(* plain, in any number and however their pieces are cut: the server has   *)
(* never more to give than what is due, and when nothing more has arrived  *)
(* it has all that is due.                                                 *)
THEOREM AnswersKeepStep == Spec => []AnswersInStep
<1>1. ASSUME SInv, NEW f \in connects, AllPlain(f)
      PROVE  LET given == answered[f] + outbuff[f]
             IN  given <= Due(f) /\ (arrived[f] = <<>> => given = Due(f))
  <2>1. PICK j \in 1 .. Len(asked[f]) + 1 :
          /\ Layout(inbuff[f], arrived[f] \o unsent[f], asked[f], j)
          /\ answered[f] + outbuff[f] = AnswerSize * Cardinality(Answered(asked[f], j))
    BY <1>1 DEF SInv, Told, Story
  <2> DEFINE A == Answered(asked[f], j)
             W == {i \in DOMAIN asked[f] : Answerable(asked[f], i) /\ Whole(f, i)}
  <2>2. asked[f] \in Seq(Requests) /\ DOMAIN asked[f] = 1 .. Len(asked[f]) /\ Len(asked[f]) \in Nat
    BY <1>1 DEF SInv, IInv, TypeOK, History
  <2>3. A \subseteq W
    <3>1. ASSUME NEW i \in 1 .. j - 1 PROVE i \in 1 .. Len(asked[f]) /\ Whole(f, i)
      BY <1>1, <2>1, AnsweredWhole
    <3> QED  BY <2>2, <3>1 DEF Answered
  <2>4. ASSUME arrived[f] = <<>> PROVE W \subseteq A
    <3>1. ASSUME NEW i \in 1 .. Len(asked[f]), Whole(f, i) PROVE i \in 1 .. j - 1
      <4>1. i < j
        BY <1>1, <2>1, <2>4, <3>1, WholeAnswered
      <4> QED  BY <2>2, <4>1
    <3> QED  BY <2>2, <3>1 DEF Answered
  <2>5. IsFiniteSet(W)
    <3>1. IsFiniteSet(1 .. Len(asked[f]))
      BY <2>2, FS_Interval
    <3>2. W \subseteq 1 .. Len(asked[f])
      BY <2>2
    <3> QED  BY <3>1, <3>2, FS_Subset
  <2>6. Due(f) = AnswerSize * Cardinality(W)
    BY DEF Due
  <2> HIDE DEF A, W
  <2>7. /\ Cardinality(A) \in Nat /\ Cardinality(W) \in Nat /\ Cardinality(A) <= Cardinality(W)
        /\ arrived[f] = <<>> => Cardinality(A) = Cardinality(W)
    <3>1. IsFiniteSet(A) /\ Cardinality(A) <= Cardinality(W)
      BY <2>3, <2>5, FS_Subset
    <3>2. arrived[f] = <<>> => A = W
      BY <2>3, <2>4
    <3> QED  BY <2>5, <3>1, <3>2, FS_CardinalityType
  <2>8. AnswerSize * Cardinality(A) <= AnswerSize * Cardinality(W)
    <3>1. \A x, y, n \in Nat : x <= y => n * x <= n * y
      OBVIOUS
    <3>2. AnswerSize \in Nat
      BY SizesAssumption
    <3> HIDE DEF A, W
    <3> QED  BY <2>7, <3>1, <3>2
  <2> QED  BY <2>1, <2>6, <2>7, <2>8 DEF A
<1>2. SInv => AnswersInStep
  BY <1>1 DEF AnswersInStep, AllPlain
<1> QED  BY HistoryKept, <1>2, PTL
=============================================================================
