---------------------------- MODULE HttpService ----------------------------
(***************************************************************************)
(* Reactor/http_service.hpp: how requests are taken off the input of a     *)
(* connection and answered.  The input is a sequence of pieces: the method *)
(* of a request, the rest of its head (its line and headers, as parsed),   *)
(* the empty line that ends the head, the units of a body, one of which    *)
(* may be a zero byte, and the line break the code wants behind a body.    *)
(* A piece arrives whole, pieces arrive in any portions.  Lengths count    *)
(* pieces: a negative Content-Length that would cut the input inside an    *)
(* empty line is not represented.                                          *)
(***************************************************************************)
EXTENDS Integers, Sequences, SequencesExt

CONSTANTS Files,     \* paths that can be opened under ../wwwroot
          Typed,     \* paths with a suffix that s_hash knows
          NotFound,  \* f404
          NaN,       \* a Content-Length on which stoi throws
          Requests   \* what clients ask: [method, path, length, zero, closed]

(* length is the Content-Length, which stoi reads with its sign; zero is   *)
(* the place of a zero byte in the body, 0 for none; closed says whether   *)
(* the client ends the body with a line break.                             *)
ASSUME RequestsAssumption ==
  /\ NaN \notin Int
  /\ \A r \in Requests : /\ r.method \in {"GET", "POST"}
                         /\ r.length \in Int \cup {NaN} /\ r.zero \in Nat
                         /\ r.closed \in BOOLEAN

Piece(kind) == [kind |-> kind, method |-> "none", path |-> NotFound, length |-> 0]
MethodOf(r) == [Piece("method") EXCEPT !.method = r.method]
RestOf(r) == [Piece("rest") EXCEPT !.path = r.path, !.length = r.length]
Pieces == {MethodOf(r) : r \in Requests} \cup {RestOf(r) : r \in Requests}
          \cup {Piece(k) : k \in {"blank", "body", "zero", "sep"}}

(* What a client writes to ask r.                                          *)
BodyLength(r) == IF r.length \in Nat THEN r.length ELSE 0
Unclosed(r) == BodyLength(r) > 0 /\ ~r.closed
Wire(r) == <<MethodOf(r), RestOf(r), Piece("blank")>>
           \o [i \in 1 .. BodyLength(r) |-> Piece(IF i = r.zero THEN "zero" ELSE "body")]
           \o (IF BodyLength(r) > 0 /\ r.closed THEN <<Piece("sep")>> ELSE <<>>)
-----------------------------------------------------------------------------
(* inbuff.find(head_sep)                                                   *)
HeadEnd(in) == SelectInSeq(in, LAMBDA p : p.kind = "blank")

(* What the head says besides its method: the piece before the empty line, *)
(* which names no path and no length when the rest of the head is gone.    *)
HeadRead(in) == in[IF HeadEnd(in) > 1 THEN HeadEnd(in) - 1 ELSE 1]

(* Mutant of RequestSize: the line break behind a body is left.            *)
RequestSizeNoBreak(in) == HeadEnd(in) + HeadRead(in).length

(* request_size: head, empty line, body and the line break behind a body.  *)
RequestSize(in) == LET data_size == HeadRead(in).length
                   IN  HeadEnd(in) + data_size + (IF data_size > 0 THEN 1 ELSE 0)

(* get_full_message() finds a request, or throws when it reads its length. *)
(* A negative int is compared with a size_t: no input is as long.          *)
Complete(in) == /\ HeadEnd(in) > 0
                /\ \/ HeadRead(in).length = NaN
                   \/ RequestSize(in) >= 0 /\ Len(in) >= RequestSize(in)

(* inbuff.erase(0, request_size).  Where the line break behind a body is   *)
(* missing, the method of the next request goes in its place; a negative   *)
(* length leaves an end of the head.                                       *)
Erase(in) == SubSeq(in, RequestSize(in) + 1, Len(in))

(* _service, get_mathod, get_file, get_mime: "overflow" when get_file asks *)
(* itself for a 404.html that is missing too; "undefined" when get_mime    *)
(* falls off its end (it does for a path without suffix as well, since it  *)
(* finds a dot in "../wwwroot").  Only GET has an answer.                  *)
_service(in) == IF in[1].method # "GET" THEN "none"
                ELSE IF HeadRead(in).path \notin Files /\ NotFound \notin Files THEN "overflow"
                ELSE IF HeadRead(in).path \notin Typed THEN "undefined" ELSE "answer"

(* service(): every complete request is taken off and answered in turn;    *)
(* one of size 0 is found again for ever.  The result: what is left, the   *)
(* number of answers, how it ended.                                        *)
service[in \in Seq(Pieces)] ==
  IF ~Complete(in) THEN [in |-> in, answers |-> 0, end |-> "fine"]
  ELSE IF HeadRead(in).length = NaN THEN [in |-> in, answers |-> 0, end |-> "throws"]
  ELSE IF _service(in) \notin {"none", "answer"}
       THEN [in |-> in, answers |-> 0, end |-> _service(in)]
  ELSE IF RequestSize(in) = 0 THEN [in |-> in, answers |-> 0, end |-> "spins"]
  ELSE LET rest == service[Erase(in)]
       IN  IF _service(in) = "answer" THEN [rest EXCEPT !.answers = @ + 1] ELSE rest
=============================================================================
