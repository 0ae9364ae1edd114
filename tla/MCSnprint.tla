------------------------------ MODULE MCSnprint ------------------------------
(***************************************************************************)
(* TLC instances of Snprint: the calls.                                    *)
(***************************************************************************)
EXTENDS Snprint

MCRegWrap == 1024

MCChar == {Digit[i] : i \in 1 .. 16}
          \cup {NUL, " ", "+", "-", "o", "x", "{", "}", ":", ".", "*", "<", ">", "=",
                "^", "#", "n", "q", "s", "y", "z"}

\* The arguments
Num(n) == [num |-> n, str |-> <<>>]
Str(s) == [num |-> MCRegWrap \div 2, str |-> s]
NoStr  == Num(0)

Text(s, ph) == [lit |-> s, ph |-> ph]
LastText(s)     == Text(s, NoInfo)

\* The format that some literals and placeholders make
AFormat(texts) ==
  LET upto[i \in 0 .. Len(texts)] ==
        IF i = 0 THEN <<>> ELSE upto[i - 1] \o Written(texts, i)
  IN [format |-> upto[Len(texts)],
      pieces |-> [i \in 1 .. Len(texts) |->
                    [at |-> Len(upto[i - 1]), lit |-> texts[i].lit,
                     ph |-> texts[i].ph]]]

Request(formats, args, sizes) ==
  [formats |-> formats, args |-> args, sizes |-> sizes]

Marks(alignment) == IF alignment = "DEFAULT" THEN {NUL} ELSE {NUL, "*", "0", "<"}

\* Placeholders of the given types, with every combination of the rest
Placeholders(types, alignments, widths, precisions) ==
  {[NoInfo EXCEPT !.type = t, !.alignment = a[1], !.fill_char = a[2], !.sign = s,
                  !.alternate_form = alt, !.zero_padding = zero,
                  !.min_width = w, !.precise = p] :
     t \in types, s \in {"NEG", "BOTH", "POS_LEADING"},
     a \in UNION {{b} \X Marks(b) : b \in alignments},
     alt \in BOOLEAN, zero \in BOOLEAN, w \in widths, p \in precisions}

AllAlignments == {"DEFAULT", "LEFT", "RIGHT", "AFTER_SIGN", "CENTER"}

\* One placeholder, between two literals, and its argument
Around(phs) == {AFormat(<<Text(<<"n">>, ph), LastText(<<"}", ".">>)>>) : ph \in phs}
One(args)   == {<<a, Num(0)>> : a \in args}
Nums(ns)    == {Num(n) : n \in ns}

\* Numbers of one digit and more, and one that is negative in decimal
NumberRequest ==
  Request(Around(Placeholders({"DEC", "LOW_HEX"}, AllAlignments, {0, 4, 10}, {0})),
          One(Nums({0, 300, 1023})), {2, 5, 8, 16})

\* The other bases, the smallest number, and precisions, which numbers ignore
BaseRequest ==
  Request(Around(Placeholders({"BIN", "OCTAL", "DEC"}, {"DEFAULT", "AFTER_SIGN"},
                              {0, 8}, {0, 12})),
          One(Nums({1, 512})), {1, 13})

StringRequest ==
  Request(Around({ph \in Placeholders({"STRING"}, AllAlignments, {0, 3, 11}, {0, 2, 10}) :
                    ph.sign = "NEG" /\ ~ph.alternate_form}),
          One({NoStr, Str(<<>>), Str(<<"a", "{", "c">>)}), {1, 2, 4, 7, 16})

\* A time stamp (tty.c:59)
Plain(t) == [NoInfo EXCEPT !.type = t]
Micros   == [NoInfo EXCEPT !.type = "DEC", !.zero_padding = TRUE, !.min_width = 3]

StampRequest ==
  Request({AFormat(<<Text(<<>>, Plain("DEC")), Text(<<".">>, Micros),
                     LastText(<<":", " ">>)>>)},
          Nums({0, 42, 300}) \X Nums({7, 511}), 1 .. 12)

\* More placeholders than arguments
ThirdRequest ==
  Request({AFormat(<<Text(<<"a">>, Plain("DEC")), Text(<<>>, Plain("STRING")),
                     Text(<<"b">>, Plain("LOW_HEX")), LastText(<<>>)>>)},
          {Num(5)} \X {NoStr, Str(<<"x", "y">>)}, 1 .. 8)

\* Formats that are malformed or end early, and formats without placeholders
Malformed ==
  {<<"{">>, <<"a", "{", "}">>, <<"{", ":">>, <<"{", ":", "}">>, <<"{", ":", "d">>,
   <<"{", ":", "4">>, <<"{", ":", ".", "d", "}">>, <<"{", ":", "q", "}">>,
   <<"{", ":", "d", "d", "}">>, <<"{", ":", "*">>, <<"{", ":", "<">>,
   <<"{", " ", ":", "d", " ", "}", "z">>, <<"{", "}", ":", "+", "d", "}", "z">>}

MalformedRequest ==
  Request({[format |-> f, pieces |-> <<>>] : f \in Malformed}, One({Num(9)}), {1, 3, 9})

LiteralRequest ==
  Request({AFormat(<<LastText(s)>>) : s \in {<<>>, <<"a">>, <<"a", "b", "c">>}},
          One({Num(0)}), 1 .. 5)

\* A register of a dump (panic.c:26), with any value, and, wider, in buffers
\* of every size
Register(width) == [NoInfo EXCEPT !.type = "LOW_HEX", !.alternate_form = TRUE,
                                  !.min_width = width]
WideRequest == Request(Around({Register(6)}), One(Nums({0, 300})), 2 .. 12)

MCRequests ==
  {NumberRequest, BaseRequest, StringRequest, StampRequest, ThirdRequest,
   MalformedRequest, LiteralRequest, WideRequest}

-----------------------------------------------------------------------------
(* A request of its own for what the documentation promises.               *)

\* {:<4s}{:#4x}. with a string of two characters and a number of three digits, in
\* a buffer that has room for all that is asked for: two characters and two of
\* padding, five with the prefix, and the full stop.
MCDocumented ==
  {Request({AFormat(<<Text(<<>>, [Plain("STRING") EXCEPT !.alignment = "LEFT",
                                                         !.min_width = 4]),
                      Text(<<>>, Register(4)), LastText(<<".">>)>>)},
           {<<Str(<<"a", "c">>), Num(300)>>}, {16})}
=============================================================================
