----------------------------- MODULE LogFormat -----------------------------
(***************************************************************************)
(* log/log.hpp: LogFormatter, which reads a pattern once (init) and writes *)
(* an event by it (format).  A pattern is a sequence of characters, what   *)
(* is written a sequence of characters and of fields of the event.         *)
(***************************************************************************)
EXTENDS Integers, Sequences, SequencesExt

CONSTANTS Letters  \* the characters isalpha() knows, of those patterns have

(* s_format_items without "d", and what a "%d{...}" may ask of the time.   *)
Fields == [m |-> "message", p |-> "level", c |-> "logger", t |-> "thread", n |-> "newline",
           f |-> "file", l |-> "line", T |-> "tab", F |-> "fiber"]
DateFields == [Y |-> "year", m |-> "month", d |-> "day", H |-> "hour", M |-> "minute", S |-> "second"]

(* What is written: characters, and fields of an event.                    *)
Written(chars) == [i \in 1 .. Len(chars) |-> <<chars[i], <<>>>>]
Field(name, ev) == << <<name, ev>> >>
-----------------------------------------------------------------------------
(* The tuples of vec: (text, fmt, 0) and (name, fmt, 1).                   *)
Text(str) == [kind |-> "text", name |-> str, fmt |-> <<>>]
Directive(name, fmt) == [kind |-> "directive", name |-> name, fmt |-> fmt]
PatternError == [kind |-> "error", name |-> <<>>, fmt |-> <<>>]

(* The first place from i on that has a character of chars, or the end.    *)
Find(p, i, chars) == CHOOSE k \in i .. Len(p) + 1 :
                       /\ k = Len(p) + 1 \/ p[k] \in chars
                       /\ \A j \in i .. k - 1 : p[j] \notin chars
NameEnd(p, i) == Find(p, i, {p[k] : k \in i .. Len(p)} \ (Letters \cup {"}"}))

(* Mutant of DirectiveAt: the scan goes on behind the character at n.      *)
DirectiveAtSkips(p, i) ==
  LET n == NameEnd(p, i + 1)
      name == SubSeq(p, i + 1, n - 1)
      close == Find(p, n, {"}"})
  IN  IF n > Len(p) \/ p[n] # "{" THEN [entry |-> Directive(name, <<>>), next |-> n + 1]
      ELSE IF close <= Len(p)
           THEN [entry |-> Directive(name, SubSeq(p, n + 1, close - 1)), next |-> close + 1]
           ELSE [entry |-> PatternError, next |-> i + 1]

(* A directive that begins at i: its tuple, and where the scan goes on.    *)
DirectiveAt(p, i) ==
  LET n == NameEnd(p, i + 1)
      name == SubSeq(p, i + 1, n - 1)
      close == Find(p, n, {"}"})
  IN  IF n > Len(p) \/ p[n] # "{" THEN [entry |-> Directive(name, <<>>), next |-> n]
      ELSE IF close <= Len(p)
           THEN [entry |-> Directive(name, SubSeq(p, n + 1, close - 1)), next |-> close + 1]
           ELSE [entry |-> PatternError, next |-> i + 1]

(* One turn of init's loop: "%%" is a percent sign and the second one is   *)
(* read again, a single one at the end is dropped.                         *)
Turn(p, i) == CASE p[i] # "%" -> [entry |-> Text(<<p[i]>>), next |-> i + 1]
                [] p[i] = "%" /\ i = Len(p) -> [entry |-> Text(<<>>), next |-> i + 1]
                [] p[i] = "%" /\ i < Len(p) /\ p[i + 1] = "%" ->
                     [entry |-> Text(<<"%">>), next |-> i + 1]
                [] OTHER -> DirectiveAt(p, i)

(* What becomes of the turns up to a directive: nstr collects the texts    *)
(* and is put before the directive, or at the end; an error goes before it.*)
Segment(entries) ==
  LET texts == SelectSeq(entries, LAMBDA e : e.kind = "text")
      nstr  == FlattenSeq([k \in 1 .. Len(texts) |-> texts[k].name])
  IN  SelectSeq(entries, LAMBDA e : e.kind = "error") \o (IF nstr = <<>> THEN <<>> ELSE <<Text(nstr)>>)

(* LogFormatter::init: the items of the pattern p.                         *)
init(p) ==
  LET turns[i \in 1 .. Len(p) + 2] ==
        IF i > Len(p) THEN <<>> ELSE LET turn == Turn(p, i) IN <<turn.entry>> \o turns[turn.next]
      entries == turns[1]
      items[i \in 1 .. Len(entries) + 1] ==
        LET kinds == [k \in 1 .. Len(entries) |-> entries[k].kind]
            d == Find(kinds, i, {"directive"})
        IN  Segment(SubSeq(entries, i, d - 1))
            \o (IF d > Len(entries) THEN <<>> ELSE <<entries[d]>> \o items[d + 1])
  IN  items[1]
-----------------------------------------------------------------------------
(* DateFormatItem::format: the fields of the time, by a format of its own. *)
Date(fmt, ev) ==
  LET said[i \in 1 .. Len(fmt) + 2] ==
        CASE i > Len(fmt) -> <<>>
          [] i <= Len(fmt) /\ fmt[i] # "%" -> Written(<<fmt[i]>>) \o said[i + 1]
          [] i = Len(fmt) /\ fmt[i] = "%" -> <<>>
          [] OTHER -> (IF fmt[i + 1] \in DOMAIN DateFields
                       THEN Field(DateFields[fmt[i + 1]], ev)
                       ELSE Written(<<"%", fmt[i + 1]>>)) \o said[i + 2]
  IN  said[1]

(* FormatItem::format.  "%d" by itself has an empty format of its own, as  *)
(* the default of DateFormatItem is never used: nothing is written.        *)
Say(item, ev) ==
  CASE item.kind = "text"  -> Written(item.name)
    [] item.kind = "error" -> Written(<<"pattern_error">>)
    [] item.kind = "directive" /\ item.name = <<"d">> -> Date(item.fmt, ev)
    [] item.kind = "directive" /\ Len(item.name) = 1 /\ item.name[1] \in DOMAIN Fields ->
         Field(Fields[item.name[1]], ev)
    [] OTHER -> Written(<<"error_format">> \o item.name)

(* LogFormatter::format.                                                   *)
format(items, ev) == FlattenSeq([i \in 1 .. Len(items) |-> Say(items[i], ev)])
-----------------------------------------------------------------------------
(* What a pattern means, by the comments above LogFormatter and init,      *)
(* whatever the code makes of it: a text stands for itself, the letters for*)
(* fields of the event, "d" by itself for its time, in whatever form, and  *)
(* with a format of characters <<c>> and strftime's conversions <<"%", c>> *)
(* for its time in that form.                                              *)
Documented == [m |-> "message", p |-> "level", c |-> "logger", t |-> "thread", n |-> "newline",
               f |-> "file", l |-> "line", T |-> "tab", F |-> "fiber"]
Calendar == [Y |-> "year", m |-> "month", d |-> "day", H |-> "hour", M |-> "minute", S |-> "second"]

Chars(str)   == [kind |-> "chars", is |-> str]
Item(letter) == [kind |-> "item", is |-> <<letter>>]
Time(parts)  == [kind |-> "time", is |-> parts]

Spelled(piece) ==
  CASE piece.kind = "chars" -> piece.is
    [] piece.kind = "item"  -> <<"%">> \o piece.is
    [] piece.kind = "time" /\ piece.is = <<>> -> <<"%", "d">>
    [] OTHER -> <<"%", "d", "{">> \o FlattenSeq(piece.is) \o <<"}">>
Pattern(pieces) == FlattenSeq([i \in 1 .. Len(pieces) |-> Spelled(pieces[i])])

MeantTime(part, ev) == IF Len(part) = 1 THEN Written(part) ELSE Field(Calendar[part[2]], ev)
MeantPiece(piece, ev) ==
  CASE piece.kind = "chars" -> Written(piece.is)
    [] piece.kind = "item"  -> Field(Documented[piece.is[1]], ev)
    [] piece.kind = "time" /\ piece.is = <<>> -> Field("time", ev)
    [] OTHER -> FlattenSeq([k \in 1 .. Len(piece.is) |-> MeantTime(piece.is[k], ev)])
Meant(pieces, ev) == FlattenSeq([i \in 1 .. Len(pieces) |-> MeantPiece(pieces[i], ev)])

(* The patterns that are read as they are meant: with documented letters   *)
(* and conversions; without "%d" by itself, which writes nothing although  *)
(* log.hpp:85 and :527 call it the time, and percent signs in texts; and   *)
(* without a text behind a letter that begins like the rest of a name or a *)
(* format.                                                                 *)
GoodPiece(piece) ==
  CASE piece.kind = "chars" -> piece.is # <<>> /\ \A k \in 1 .. Len(piece.is) : piece.is[k] # "%"
    [] piece.kind = "item"  -> piece.is[1] \in DOMAIN Documented
    [] OTHER -> piece.is # <<>> /\ \A k \in 1 .. Len(piece.is) :
                  \/ Len(piece.is[k]) = 1 /\ piece.is[k][1] \notin {"%", "}"}
                  \/ Len(piece.is[k]) = 2 /\ piece.is[k][1] = "%" /\ piece.is[k][2] \in DOMAIN Calendar
WellSpelled(pieces) ==
  /\ \A i \in 1 .. Len(pieces) : GoodPiece(pieces[i])
  /\ \A i \in 1 .. Len(pieces) - 1 :
       pieces[i].kind = "item" /\ pieces[i + 1].kind = "chars"
         => pieces[i + 1].is[1] \notin Letters \cup {"{", "}"}
=============================================================================
