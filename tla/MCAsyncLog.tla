----------------------------- MODULE MCAsyncLog -----------------------------
(* Two logging threads, two workers, a queue of one line, and a logger with*)
(* an asynchronous appender behind a synchronous one with a higher level:  *)
(* loggers and workers sleep on the one condition variable together.       *)
(* Patterns of up to four pieces, the default one and the one that the     *)
(* comment above LogFormatter gives.                                       *)
EXTENDS AsyncLog, TLC
CONSTANTS l1, l2
MCLevelOf == l1 :> <<2, 0>> @@ l2 :> <<1, 2>>
MCAppends ==
  << [level |-> 2, asyn |-> FALSE, pieces |-> <<Item("m"), Item("n")>>],
     [level |-> 1, asyn |-> TRUE,  pieces |-> <<Chars(<<"[">>), Item("p"), Chars(<<"]">>), Item("m")>>] >>
DateAndTime == Time(<< <<"%", "Y">>, <<"-">>, <<"%", "m">>, <<"-">>, <<"%", "d">>, <<" ">>,
                       <<"%", "H">>, <<":">>, <<"%", "M">>, <<":">>, <<"%", "S">> >>)
DEFAULT_FORMAT ==
  <<Chars(<<"[">>), Item("p"), Chars(<<"]", "[">>), DateAndTime, Chars(<<"]", "[">>), Item("f"),
    Chars(<<" ", ":", " ">>), Item("l"), Chars(<<"]">>), Item("m"), Item("n")>>
DocumentedFormat ==
  <<DateAndTime, Item("T"), Item("t"), Item("T"), Item("F"), Item("T"), Chars(<<"[">>), Item("p"),
    Chars(<<"]">>), Item("T"), Chars(<<"[">>), Item("c"), Chars(<<"]">>), Item("T"), Item("f"),
    Chars(<<":">>), Item("l"), Item("T"), Item("m"), Item("n")>>
MCPatterns ==
  {DEFAULT_FORMAT, DocumentedFormat} \cup
  SeqOf({Chars(<<"[">>), Chars(<<" ", "m">>), Chars(<<"d", "}">>), Item("m"), Item("T"),
         Time(<< <<"%", "H">>, <<":">>, <<"%", "M">> >>), Time(<< <<"d">> >>)}, 4)
=============================================================================
