------------------------------- MODULE Snprint -------------------------------
(***************************************************************************)
(* One call of snprint (src/src/string_util.c), which formats every log    *)
(* message and every time stamp: it reads the format a character at a      *)
(* time, copies the text between the placeholders, and puts the arguments  *)
(* in their places, until the format or the buffer ends.                   *)
(*                                                                         *)
(* What has been written to the buffer is the sequence text; the pointer   *)
(* buf is str + Len(text).  wrote is the highest byte written so far,      *)
(* which text does not reach when a piece is abandoned half way.           *)
(***************************************************************************)
EXTENDS Format

CONSTANTS
  MAX_ARG_CNT,   \* 5
  Requests       \* the calls made: in each, any of its formats, args and sizes

Registers == [num : 0 .. (RegWrap - 1), str : Seq(Char)]

\* An argument is a register: the number in it, and the string at the address
\* it is, which matters if the format has it printed as one.  A buffer is less
\* than half of what there are addresses for.  Beside the format are the pieces
\* the caller means by it (PiecesAssumption), which play no part in the steps.
ASSUME SnprintAssumption ==
  /\ {Digit[i] : i \in 1 .. 16} \subseteq Char
  /\ {NUL, " ", "+", "-", "#", ".", ":", OPEN, CLOSE, "<", ">", "=", "^", "o", "x", "s"}
       \subseteq Char
  /\ MAX_ARG_CNT \in Nat
  /\ \A q \in Requests :
       /\ \A f \in q.formats : f.format \in Seq(Char)
       /\ \A a \in q.args : /\ a \in Seq(Registers)
                            /\ Len(a) = MAX_ARG_CNT
       /\ q.sizes \subseteq 1 .. (RegWrap \div 2)

VARIABLES
  call,         \* the call being made
  fmt,          \* how much of the format has been consumed
  idx, stage,   \* get_next_fmt: where it is
  info,         \* get_next_fmt: the placeholder read
  literal_len,  \* get_next_fmt: the characters before it
  end,          \* get_next_fmt: the format has ended
  text,         \* what lies before buf in the buffer
  remaining,    \* bytes left after it, but for the terminator's
  wrote,        \* how many bytes, from the first, have been written to
  arg_idx,      \* the next argument
  ret, r,       \* the result
  asserts,      \* no assertion has failed
  pc            \* "scan", "copy", "argument", "terminate", "done"

vars == <<call, fmt, idx, stage, info, literal_len, end, text, remaining,
          wrote, arg_idx, ret, r, asserts, pc>>

TRUNCATED == "STRING_TRUNCATED"

Repeat(c, n) == [i \in 1 .. n |-> c]
Most(a, b)   == IF a > b THEN a ELSE b
Least(a, b)  == IF a < b THEN a ELSE b

\* What a piece of output leaves behind: the bytes, how many are left after
\* them, and the highest byte written
Piece(e, bytes, left, high) ==
  [ret |-> e, text |-> bytes, remaining |-> left, wrote |-> high]

-----------------------------------------------------------------------------
(* Numbers.                                                                *)

\* How many bytes padding() writes: it looks at the room only after a byte
padding(room, len) == IF room = 0 THEN len ELSE Least(room, len)

\* The digits, the least significant first
Digits(val, base) ==
  LET digits[v \in 0 .. val] ==
        <<Digit[(v % base) + 1]>>
        \o (IF v < base THEN <<>> ELSE digits[v \div base])
  IN digits[val]

HasSign(inf, positive) == inf.sign \in {"BOTH", "POS_LEADING"} \/ ~positive

Sign(inf, positive) ==
  CASE ~positive -> <<"-">>
    [] positive /\ inf.sign = "BOTH" -> <<"+">>
    [] positive /\ inf.sign = "POS_LEADING" -> <<" ">>
    [] OTHER -> <<>>

\* The prefix, back to front as the digits are
BasePrefix(base) == CASE base = 2 -> <<"b", "0">> [] base = 8 -> <<"o", "0">>
                      [] base = 16 -> <<"x", "0">> [] OTHER -> <<>>

\* Two for the prefix and one for the sign are taken from a positive count
PaddingCount(len, base, inf, positive) ==
  LET blank  == Most(inf.min_width, len) - len
      prefix == IF blank > 0 /\ inf.alternate_form /\ base # 10
                  THEN (blank - 2) % RegWrap ELSE blank
  IN IF prefix > 0 /\ HasSign(inf, positive) THEN prefix - 1 ELSE prefix

\* Mutant: zeros go between the sign and the prefix.
PaddingPlace_ZerosAfterSign(inf, count) ==
  LET none == [left |-> 0, right |-> 0, after_sign |-> 0, after_prefix |-> 0]
  IN CASE inf.alignment = "LEFT"   -> [none EXCEPT !.right = count]
       [] inf.alignment = "CENTER" ->
            [none EXCEPT !.left = count \div 2, !.right = count - count \div 2]
       [] \/ inf.alignment = "AFTER_SIGN"
          \/ inf.alignment = "DEFAULT" /\ inf.zero_padding ->
            [none EXCEPT !.after_sign = count]
       [] OTHER -> [none EXCEPT !.left = count]

\* Where the padding goes
PaddingPlace(inf, count) ==
  LET none == [left |-> 0, right |-> 0, after_sign |-> 0, after_prefix |-> 0]
  IN CASE inf.alignment = "AFTER_SIGN" -> [none EXCEPT !.after_sign = count]
       [] inf.alignment = "LEFT"       -> [none EXCEPT !.right = count]
       [] inf.alignment = "RIGHT"      -> [none EXCEPT !.left = count]
       [] inf.alignment = "CENTER"     ->
            [none EXCEPT !.left = count \div 2, !.right = count - count \div 2]
       [] inf.alignment = "DEFAULT" /\ inf.zero_padding ->
            [none EXCEPT !.after_prefix = count]
       [] OTHER -> [none EXCEPT !.left = count]

PaddingChar(inf, dflt) ==
  IF inf.alignment # "DEFAULT" /\ inf.fill_char # NUL THEN inf.fill_char
                                                       ELSE dflt

\* The number is put in the buffer back to front, its digits first, and turned
\* round where that ends or the room does; what is put on its right follows.
\* Once the room is used up nothing more is put before the turn, but what is
\* due on the right still is.
itoa(room, val, base, inf, positive) ==
  LET digits == Digits(val, base)
      short  == Len(digits) >= room
      place  == PaddingPlace(inf, PaddingCount(Len(digits), base, inf, positive))
      fill   == PaddingChar(inf, IF inf.zero_padding THEN "0" ELSE " ")
      body   == digits \o Repeat(fill, Least(place.after_prefix, room))
                \o (IF inf.alternate_form THEN BasePrefix(base) ELSE <<>>)
                \o Repeat(fill, Least(place.after_sign, room))
                \o Sign(inf, positive)
      full   == Len(body) >= room
      front  == IF full THEN SubSeq(body, 1, room)
                        ELSE body \o Repeat(fill, Least(place.left,
                                                        room - Len(body)))
      rest   == room - Len(front)
      right  == padding(rest, IF short THEN 0 ELSE place.right)
  IN IF room = 0
       THEN Piece(TRUNCATED, <<>>, 0, 0)
       ELSE Piece(IF full THEN TRUNCATED ELSE "OK",
                  Reverse(front) \o Repeat(fill, Least(right, rest)),
                  (rest - right) % RegWrap,
                  Len(front) + right)

\* A register's upper half is negative
sitoa(room, val, base, inf) ==
  LET positive == val < RegWrap \div 2
  IN itoa(room, IF positive THEN val ELSE RegWrap - val, base, inf, positive)

-----------------------------------------------------------------------------
(* Strings.                                                                *)

StringPaddingPlace(inf, count) ==
  CASE inf.alignment = "RIGHT"  -> [left |-> 0, right |-> count]
    [] inf.alignment = "CENTER" ->
         [left |-> count \div 2, right |-> count - count \div 2]
    [] OTHER -> [left |-> count, right |-> 0]

Precise(inf, str) ==
  IF inf.precise # 0 THEN SubSeq(str, 1, Least(Len(str), inf.precise)) ELSE str

\* Mutant: a byte is kept for the terminator, which snprint has done.
stringtoa_TwoTerminators(room, str, inf) ==
  LET shown == Precise(inf, str)
      place == StringPaddingPlace(inf, Most(inf.min_width, Len(shown))
                                         - Len(shown))
      fill  == PaddingChar(inf, " ")
      whole == Repeat(fill, place.left) \o shown \o Repeat(fill, place.right)
      bytes == SubSeq(whole, 1, Least(Len(whole), room))
  IN Piece(IF Len(whole) >= room - 1 THEN TRUNCATED ELSE "OK",
           bytes, room - Len(bytes), Len(bytes))

\* Mutant: the padding on the right is not limited to the room.
stringtoa_Unlimited(room, str, inf) ==
  LET shown == Precise(inf, str)
      place == StringPaddingPlace(inf, Most(inf.min_width, Len(shown))
                                         - Len(shown))
      fill  == PaddingChar(inf, " ")
      whole == Repeat(fill, place.left) \o shown \o Repeat(fill, place.right)
      bytes == SubSeq(whole, 1, Least(Len(whole), room))
               \o (IF inf.alignment = "RIGHT" THEN Repeat(fill, place.right)
                                              ELSE <<>>)
  IN Piece(IF Len(whole) >= room THEN TRUNCATED ELSE "OK",
           bytes, room - Len(bytes), Len(bytes))

\* Room that is used up exactly counts as exceeded
stringtoa(room, str, inf) ==
  LET shown == Precise(inf, str)
      place == StringPaddingPlace(inf, Most(inf.min_width, Len(shown))
                                         - Len(shown))
      fill  == PaddingChar(inf, " ")
      whole == Repeat(fill, place.left) \o shown \o Repeat(fill, place.right)
      bytes == SubSeq(whole, 1, Least(Len(whole), room))
  IN Piece(IF Len(whole) >= room THEN TRUNCATED ELSE "OK",
           bytes, room - Len(bytes), Len(bytes))

\* An argument is read as what its placeholder takes it for
gen_str(room, inf, arg) ==
  CASE inf.type = "BIN"     -> itoa(room, arg.num, 2, inf, TRUE)
    [] inf.type = "DEC"     -> sitoa(room, arg.num, 10, inf)
    [] inf.type = "OCTAL"   -> itoa(room, arg.num, 8, inf, TRUE)
    [] inf.type = "LOW_HEX" -> itoa(room, arg.num, 16, inf, TRUE)
    [] inf.type = "STRING" /\ arg.num = 0 ->
         Piece("STRING_MISSING_ARGUMENT", <<>>, room, 0)
    [] inf.type = "STRING" /\ arg.num # 0 -> stringtoa(room, arg.str, inf)

-----------------------------------------------------------------------------
(* The call.                                                               *)

\* get_next_fmt starts over on what follows the format consumed
ScanAnew == /\ idx' = 0 /\ stage' = STAGE_START /\ info' = NoInfo
            /\ literal_len' = 0

scanner == <<idx, stage, info, literal_len, end>>
output  == <<text, remaining, wrote>>

\* The loop goes on while there is room and the format lasts
Again(room) == pc' = IF end \/ room = 0 THEN "terminate" ELSE "scan"

Init ==
  /\ \E q \in Requests : \E f \in q.formats, a \in q.args, n \in q.sizes :
       call = [format |-> f.format, pieces |-> f.pieces, args |-> a, size |-> n]
  /\ fmt = 0 /\ idx = 0 /\ stage = STAGE_START /\ info = NoInfo
  /\ literal_len = 0 /\ end = FALSE
  /\ text = <<>> /\ remaining = call.size - 1 /\ wrote = 0
  /\ arg_idx = 0 /\ ret = "OK" /\ r = call.size /\ asserts = TRUE
  /\ pc = IF remaining = 0 THEN "terminate" ELSE "scan"

Fail(e) == ret' = e /\ pc' = "terminate"

Here  == check_token(stage, call.format, fmt + idx, info)
AtEnd == At(call.format, fmt + idx) = NUL

\* get_next_fmt: the next character of the format, or the same one again in
\* the next stage
PassCharacter ==
  /\ pc = "scan" /\ ~AtEnd
  /\ Here.ret = "NEXT_CHAR"
  /\ idx' = idx + 1 /\ info' = Here.info
  /\ UNCHANGED <<call, fmt, stage, literal_len, end, output, arg_idx, ret, r,
                 asserts, pc>>

PassStage ==
  /\ pc = "scan" /\ ~AtEnd
  /\ Here.ret = "NEXT_STAGE"
  /\ stage' = stage + 1
  /\ UNCHANGED <<call, fmt, idx, info, literal_len, end, output, arg_idx, ret,
                 r, asserts, pc>>

FindToken ==
  /\ pc = "scan" /\ ~AtEnd
  /\ Here.ret = "FOUND"
  /\ idx' = idx + 1 /\ stage' = stage + 1 /\ info' = Here.info
  /\ literal_len' = IF stage = STAGE_START THEN idx ELSE literal_len
  /\ UNCHANGED <<call, fmt, end, output, arg_idx, ret, r, asserts, pc>>

FindStop ==
  /\ pc = "scan" /\ ~AtEnd
  /\ Here.ret = "STOP"
  /\ idx' = idx + 1 /\ pc' = "copy"
  /\ UNCHANGED <<call, fmt, stage, info, literal_len, end, output, arg_idx,
                 ret, r, asserts>>

FindError ==
  /\ pc = "scan" /\ ~AtEnd
  /\ Here.ret = "ERROR"
  /\ Fail("STRING_INVALID_FORMAT")
  /\ UNCHANGED <<call, fmt, scanner, output, arg_idx, r, asserts>>

\* The format ends, in a placeholder or before one
FindEnd ==
  /\ pc = "scan" /\ AtEnd
  /\ end' = TRUE
  /\ literal_len' = IF stage = STAGE_START THEN idx ELSE literal_len
  /\ pc' = "copy"
  /\ UNCHANGED <<call, fmt, idx, stage, info, output, arg_idx, ret, r, asserts>>

\* The characters before the placeholder do not fit: what does is copied, and
\* ends up behind the terminator
CutLiteral ==
  /\ pc = "copy" /\ literal_len > remaining
  /\ wrote' = Most(wrote, Len(text) + remaining)
  /\ Fail(TRUNCATED)
  /\ UNCHANGED <<call, fmt, scanner, text, remaining, arg_idx, r, asserts>>

\* Mutant: the brace after the literal is counted with it.
CopyLiteral_WithBrace ==
  /\ pc = "copy" /\ literal_len <= remaining
  /\ fmt' = fmt + idx
  /\ text' = text \o SubSeq(call.format, fmt + 1, fmt + literal_len)
  /\ wrote' = Most(wrote, Len(text'))
  /\ remaining' = remaining - literal_len - 1
  /\ \/ /\ info.type # "NONE"
        /\ pc' = "argument"
        /\ UNCHANGED <<idx, stage, info, literal_len>>
     \/ /\ info.type = "NONE"
        /\ ScanAnew
        /\ Again(remaining')
  /\ UNCHANGED <<call, end, arg_idx, ret, r, asserts>>

\* They fit.  Without a placeholder that is all.
CopyLiteral ==
  /\ pc = "copy" /\ literal_len <= remaining
  /\ fmt' = fmt + idx
  /\ text' = text \o SubSeq(call.format, fmt + 1, fmt + literal_len)
  /\ wrote' = Most(wrote, Len(text'))
  /\ remaining' = remaining - literal_len
  /\ \/ /\ info.type # "NONE"
        /\ pc' = "argument"
        /\ UNCHANGED <<idx, stage, info, literal_len>>
     \/ /\ info.type = "NONE"
        /\ ScanAnew
        /\ Again(remaining')
  /\ UNCHANGED <<call, end, arg_idx, ret, r, asserts>>

\* There are more placeholders than arguments
MissArgument ==
  /\ pc = "argument" /\ arg_idx = MAX_ARG_CNT
  /\ Fail("STRING_MISSING_PLACEHOLDER")
  /\ UNCHANGED <<call, fmt, scanner, output, arg_idx, r, asserts>>

Output == gen_str(remaining, info, call.args[arg_idx + 1])

\* consumed_len
Consumed == (remaining - Output.remaining) % RegWrap

FailArgument ==
  /\ pc = "argument" /\ arg_idx < MAX_ARG_CNT
  /\ Output.ret # "OK"
  /\ wrote' = Most(wrote, Len(text) + Output.wrote)
  /\ Fail(Output.ret)
  /\ UNCHANGED <<call, fmt, scanner, text, remaining, arg_idx, r, asserts>>

PutArgument ==
  /\ pc = "argument" /\ arg_idx < MAX_ARG_CNT
  /\ Output.ret = "OK"
  /\ Consumed <= remaining
  /\ text' = text \o Output.text
  /\ wrote' = Most(wrote, Len(text) + Output.wrote)
  /\ remaining' = remaining - Consumed
  /\ arg_idx' = arg_idx + 1
  /\ ScanAnew
  /\ Again(remaining')
  /\ UNCHANGED <<call, fmt, end, ret, r, asserts>>

\* assert(consumed_len <= remaining)
FailAssertion ==
  /\ pc = "argument" /\ arg_idx < MAX_ARG_CNT
  /\ Output.ret = "OK"
  /\ Consumed > remaining
  /\ wrote' = Most(wrote, Len(text) + Output.wrote)
  /\ asserts' = FALSE
  /\ pc' = "done"
  /\ UNCHANGED <<call, fmt, scanner, text, remaining, arg_idx, ret, r>>

\* The terminator is put at buf
Terminate ==
  /\ pc = "terminate"
  /\ wrote' = Most(wrote, Len(text) + 1)
  /\ r' = IF ret # TRUNCATED THEN call.size - 1 - remaining ELSE call.size
  /\ pc' = "done"
  /\ UNCHANGED <<call, fmt, scanner, text, remaining, arg_idx, ret, asserts>>

Next ==
  \/ PassCharacter \/ PassStage \/ FindToken \/ FindStop \/ FindError \/ FindEnd
  \/ CutLiteral \/ CopyLiteral
  \/ MissArgument \/ FailArgument \/ PutArgument \/ FailAssertion
  \/ Terminate

Spec == Init /\ [][Next]_vars

-----------------------------------------------------------------------------
(* What a caller means by the format: the pieces it is written from, each   *)
(* literal text and then, but for the last, a placeholder.  A malformed     *)
(* format has none.                                                         *)

Option(present, c) == IF present THEN <<c>> ELSE <<>>

Numeral(n) == IF n = 0 THEN <<>> ELSE Reverse(Digits(n, 10))

\* What is written in a placeholder, for each of its stages
Alignment(ph) ==
  Option(ph.fill_char # NUL, ph.fill_char)
  \o (CASE ph.alignment = "LEFT"       -> <<"<">>
        [] ph.alignment = "RIGHT"      -> <<">">>
        [] ph.alignment = "AFTER_SIGN" -> <<"=">>
        [] ph.alignment = "CENTER"     -> <<"^">>
        [] OTHER                       -> <<>>)

SignMark(ph) == CASE ph.sign = "BOTH" -> <<"+">> [] ph.sign = "POS_LEADING" -> <<" ">>
                  [] OTHER -> <<>>

Precision(ph) == Option(ph.precise # 0, ".") \o Numeral(ph.precise)

TypeMark(ph) == CASE ph.type = "BIN"   -> <<"b">> [] ph.type = "DEC"     -> <<"d">>
                  [] ph.type = "OCTAL" -> <<"o">> [] ph.type = "LOW_HEX" -> <<"x">>
                  [] ph.type = "STRING" -> <<"s">> [] OTHER -> <<>>

Part(ph, st) ==
  CASE st = STAGE_START           -> <<OPEN>>
    [] st = STAGE_SPECIFIER_START -> <<":">>
    [] st = STAGE_ALIGN           -> Alignment(ph)
    [] st = STAGE_SIGN            -> SignMark(ph)
    [] st = STAGE_ALTERNATIVE     -> Option(ph.alternate_form, "#")
    [] st = STAGE_ZERO_PADDING    -> Option(ph.zero_padding, "0")
    [] st = STAGE_MINWIDTH        -> Numeral(ph.min_width)
    [] st = STAGE_PRECISE         -> Precision(ph)
    [] st = STAGE_TYPE            -> TypeMark(ph)
    [] st = STAGE_END             -> <<CLOSE>>

Placeholder(ph) ==
  Part(ph, 0) \o Part(ph, 1) \o Part(ph, 2) \o Part(ph, 3) \o Part(ph, 4)
  \o Part(ph, 5) \o Part(ph, 6) \o Part(ph, 7) \o Part(ph, 8) \o Part(ph, 9)

\* A placeholder can ask for this: a fill character needs an alignment, and
\* ":" is taken for none
Askable(ph) ==
  /\ ph \in Infos /\ ph.type # "NONE"
  /\ ph.minwidth_start = NULL /\ ph.precise_start = NULL
  /\ ph.fill_char # ":"
  /\ ph.alignment = "DEFAULT" => ph.fill_char = NUL

Written(pieces, i) ==
  pieces[i].lit \o (IF i = Len(pieces) THEN <<>> ELSE Placeholder(pieces[i].ph))

\* The pieces begin where they say, one after another
WrittenFrom(format, pieces) ==
  /\ pieces \in Seq([at : 0 .. Len(format), lit : Seq(Char \ {OPEN, NUL}), ph : Infos])
  /\ \A i \in 1 .. Len(pieces) :
       LET next == IF i = Len(pieces) THEN Len(format) ELSE pieces[i + 1].at
       IN /\ i = 1 => pieces[i].at = 0
          /\ next = pieces[i].at + Len(Written(pieces, i))
          /\ SubSeq(format, pieces[i].at + 1, next) = Written(pieces, i)
          /\ IF i = Len(pieces) THEN pieces[i].ph = NoInfo
                                ELSE Askable(pieces[i].ph)

ASSUME PiecesAssumption ==
  \A q \in Requests : \A f \in q.formats : WrittenFrom(f.format, f.pieces)

-----------------------------------------------------------------------------
(* What each placeholder asks for, laid out front to back, the bytes that    *)
(* gives, and the bytes of the whole.                                        *)

Laid(bytes, left, right, c) == Repeat(c, left) \o bytes \o Repeat(c, right)

AskedNumber(ph, base, val, positive) ==
  LET sign   == Sign(ph, positive)
      prefix == IF ph.alternate_form THEN Reverse(BasePrefix(base)) ELSE <<>>
      digits == Reverse(Digits(val, base))
      whole  == sign \o prefix \o digits
      blank  == Most(ph.min_width - Len(whole), 0)
      c      == PaddingChar(ph, IF ph.zero_padding THEN "0" ELSE " ")
  IN CASE ph.alignment = "LEFT"   -> Laid(whole, 0, blank, c)
       [] ph.alignment = "CENTER" -> Laid(whole, blank \div 2, blank - blank \div 2, c)
       [] ph.alignment = "AFTER_SIGN" -> sign \o Laid(prefix \o digits, blank, 0, c)
       [] ph.alignment = "DEFAULT" /\ ph.zero_padding ->
            sign \o prefix \o Laid(digits, blank, 0, c)
       [] OTHER -> Laid(whole, blank, 0, c)

\* Aligned left a string is padded on the left, aligned right on the right, as
\* the code has it; Unmirrored has what is documented
AskedString(ph, str) ==
  LET shown == Precise(ph, str)
      blank == Most(ph.min_width - Len(shown), 0)
      right == CASE ph.alignment = "RIGHT"  -> blank
                 [] ph.alignment = "CENTER" -> blank - blank \div 2
                 [] OTHER -> 0
  IN Laid(shown, blank - right, right, PaddingChar(ph, " "))

Asked(ph, arg) ==
  CASE ph.type = "DEC" ->
         AskedNumber(ph, 10, IF arg.num < RegWrap \div 2 THEN arg.num
                                                         ELSE RegWrap - arg.num,
                     arg.num < RegWrap \div 2)
    [] ph.type = "BIN"     -> AskedNumber(ph, 2, arg.num, TRUE)
    [] ph.type = "OCTAL"   -> AskedNumber(ph, 8, arg.num, TRUE)
    [] ph.type = "LOW_HEX" -> AskedNumber(ph, 16, arg.num, TRUE)
    [] ph.type = "STRING" /\ arg.num # 0 -> AskedString(ph, arg.str)
    [] OTHER -> <<>>

\* The literal text of each piece and the output of its placeholder, in turn,
\* and the first k of them put together
Count(c) == 2 * Len(c.pieces)

Element(c, k) ==
  LET i == (k + 1) \div 2
  IN CASE k % 2 = 1 -> c.pieces[i].lit
       [] k % 2 = 0 /\ i <= MAX_ARG_CNT -> Asked(c.pieces[i].ph, c.args[i])
       [] OTHER -> <<>>

Intended(c, k) ==
  LET put[n \in 0 .. k] == IF n = 0 THEN <<>> ELSE put[n - 1] \o Element(c, n)
  IN put[k]

Whole(c) == Intended(c, Count(c))

\* The kth element without some of its padding follows those before it
Blank(ph) == PaddingChar(ph, IF ph.zero_padding THEN "0" ELSE " ")

Shortened(c, k) ==
  LET e == Element(c, k)
      blank == Blank(c.pieces[k \div 2].ph)
  IN \E i \in 1 .. Len(e) : \E j \in i .. Len(e) :
       /\ \A n \in 1 .. Len(e) : n \in i .. j \/ e[n] = blank
       /\ text = Intended(c, k - 1) \o SubSeq(e, i, j)

WellFormed(c) == c.pieces # <<>>

\* A number one short of its width, and its prefix not counted yet
PrefixTooMany(ph, arg) ==
  /\ ph.alternate_form
  /\ \/ ph.type = "BIN" /\ ph.min_width - Len(Digits(arg.num, 2)) = 1
     \/ ph.type = "OCTAL" /\ ph.min_width - Len(Digits(arg.num, 8)) = 1
     \/ ph.type = "LOW_HEX" /\ ph.min_width - Len(Digits(arg.num, 16)) = 1

Ordinary(c) ==
  /\ WellFormed(c)
  /\ \A i \in 1 .. Len(c.args) :
       i <= Len(c.pieces) => ~PrefixTooMany(c.pieces[i].ph, c.args[i])

Returned == pc = "done" /\ asserts

(* ReadAsWritten: what get_next_fmt hands over for a placeholder is what    *)
(* the placeholder asks for, each part of it, whichever others are there:   *)
(* the stages share the characters -, 0, space and the digits, and look     *)
(* ahead and back.                                                          *)
ReadAsWritten ==
  pc = "argument" /\ WellFormed(call) =>
    /\ arg_idx < Len(call.pieces)
    /\ info = call.pieces[arg_idx + 1].ph

(* WritesWhatIsAsked: a call that returns leaves the text of its pieces, in *)
(* order, each whole or not at all; if it reports success all of them,      *)
(* unless the buffer is full, and then the last may lack some of its        *)
(* padding.  A number is built back to front and turned round, so this is   *)
(* about where the sign, the prefix and the padding land.  It says what the *)
(* code writes, where that differs from what is documented: a string's      *)
(* padding is on the side AskedString gives, not the marked one, and a text *)
(* cut by a full buffer may be reported as written (OutputIsDocumented).  A *)
(* number whose prefix is more than its padding has room for                *)
(* (PrefixTooMany) is left out; OutputIsDocumented is about those as well.  *)
(* The result counts the bytes before the terminator, which is in the       *)
(* buffer, or is the size if cut.                                           *)
WritesWhatIsAsked ==
  Returned /\ Ordinary(call) =>
    LET full == Len(text) = call.size - 1
    IN /\ Len(text) < call.size
       /\ r = IF ret = TRUNCATED THEN call.size ELSE Len(text)
       /\ \/ \E k \in 0 .. Count(call) :
               /\ text = Intended(call, k)
               /\ ret = "OK" => k = Count(call) \/ full
          \/ /\ ret = "OK" /\ full
             /\ \E i \in 1 .. Least(Len(call.pieces), MAX_ARG_CNT) :
                  Shortened(call, 2 * i)

(* CutsOnlyWhenFull: a call that reports truncation had no byte to spare    *)
(* for the literal or the output it stopped at; what fits with a byte to    *)
(* spare is never left out.                                                 *)
CutsOnlyWhenFull ==
  Returned /\ Ordinary(call) /\ ret = TRUNCATED =>
    \E k \in 1 .. Count(call) :
      text = Intended(call, k - 1) /\ Len(Intended(call, k)) >= call.size - 1

(* OnlyNumbersOverrun: the room left is counted down to 0 and not below,    *)
(* where it would wrap, and a byte past the buffer, or a failed assertion,  *)
(* comes only from a number that is padded on its right.                    *)
OnlyNumbersOverrun ==
  /\ remaining \in 0 .. (call.size - 1) /\ r \in 0 .. call.size
  /\ wrote > call.size \/ ~asserts =>
       info.type # "STRING" /\ info.alignment \in {"LEFT", "CENTER"}

-----------------------------------------------------------------------------
(* What the comments and the header promise beyond that.                   *)

\* A string as its mark is documented, by the comments on a number's
\* (string_util.c:341, 348): left is left
Unmirrored(ph) ==
  IF ph.type # "STRING" THEN ph
  ELSE [ph EXCEPT !.alignment = CASE @ = "LEFT"  -> "RIGHT"
                                  [] @ = "RIGHT" -> "LEFT"
                                  [] OTHER       -> @]

Documented(c) ==
  Whole([c EXCEPT !.pieces =
           [i \in DOMAIN @ |-> [@[i] EXCEPT !.ph = Unmirrored(@)]]])

(* OutputIsDocumented: a text that the buffer has room for is written as a  *)
(* python format is (string_util.h:8-16), and whatever is missing is        *)
(* reported: "a return value of size or larger indicates that the output    *)
(* was truncated" (string_util.h:18-19).  A string marked < is at the left  *)
(* of its width, one marked > at the right, as numbers are, and a prefix    *)
(* that takes more of the width than is left makes the padding none at all. *)
OutputIsDocumented ==
  Returned /\ WellFormed(call) =>
    LET whole == Documented(call)
    IN /\ Len(whole) < call.size => text = whole
       /\ text # whole => r >= call.size
=============================================================================
