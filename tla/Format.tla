-------------------------------- MODULE Format --------------------------------
(***************************************************************************)
(* The placeholders of a format string, as src/src/string_util.c reads     *)
(* them: the stages a placeholder goes through, and what each stage makes  *)
(* of the next character.                                                  *)
(*                                                                         *)
(* A string is a sequence of characters, each a string of length one; it   *)
(* ends at NUL.  Indices are the code's, from 0.                           *)
(***************************************************************************)
EXTENDS Integers, Sequences, SequencesExt

CONSTANTS
  RegWrap,   \* 2^64: register_t, size_t and uint64_t
  Char       \* the characters

ASSUME FormatAssumption == RegWrap \in Nat /\ RegWrap > 16 /\ RegWrap % 2 = 0

NUL  == "NUL"
NULL == -1

\* The ends of a placeholder
OPEN  == "{"
CLOSE == "}"

\* The characters of the digits up to 15
Digit == <<"0", "1", "2", "3", "4", "5", "6", "7", "8", "9",
           "a", "b", "c", "d", "e", "f">>
Decimal == {Digit[n] : n \in 1 .. 10}

At(s, i) == IF i < Len(s) THEN s[i + 1] ELSE NUL

\* fmt_info_t
Infos ==
  [type : {"NONE", "BIN", "DEC", "OCTAL", "LOW_HEX", "STRING"},
   fill_char : Char, alternate_form : BOOLEAN, zero_padding : BOOLEAN,
   alignment : {"DEFAULT", "LEFT", "RIGHT", "AFTER_SIGN", "CENTER"},
   sign : {"NEG", "BOTH", "POS_LEADING"},
   min_width : 0 .. (RegWrap - 1), precise : 0 .. (RegWrap - 1),
   minwidth_start : Nat \cup {NULL}, precise_start : Nat \cup {NULL}]

\* fmt_info_t, cleared
NoInfo ==
  [type |-> "NONE", fill_char |-> NUL, alternate_form |-> FALSE,
   zero_padding |-> FALSE, alignment |-> "DEFAULT", sign |-> "NEG",
   min_width |-> 0, precise |-> 0,
   minwidth_start |-> NULL, precise_start |-> NULL]

\* What the characters of each stage stand for
Alignments ==
  [c \in {"<", ">", "=", "^"} |->
     CASE c = "<" -> "LEFT"       [] c = ">" -> "RIGHT"
       [] c = "=" -> "AFTER_SIGN" [] c = "^" -> "CENTER"]

Signs ==
  [c \in {"+", "-", " "} |->
     CASE c = "+" -> "BOTH" [] c = "-" -> "NEG" [] c = " " -> "POS_LEADING"]

Types ==
  [c \in {"b", "d", "o", "x", "s"} |->
     CASE c = "b" -> "BIN"     [] c = "d" -> "DEC" [] c = "o" -> "OCTAL"
       [] c = "x" -> "LOW_HEX" [] c = "s" -> "STRING"]

\* The stages, in the order of their numbers
STAGE_START           == 0
STAGE_SPECIFIER_START == 1
STAGE_ALIGN           == 2
STAGE_SIGN            == 3
STAGE_ALTERNATIVE     == 4
STAGE_ZERO_PADDING    == 5
STAGE_MINWIDTH        == 6
STAGE_PRECISE         == 7
STAGE_TYPE            == 8
STAGE_END             == 9

\* The number written from index "from" to index "to"
DigitValue == [d \in Decimal |-> CHOOSE n \in 0 .. 9 : Digit[n + 1] = d]

atodec(s, from, to) ==
  LET v[i \in (from - 1) .. to] ==
        IF i < from THEN 0 ELSE (v[i - 1] * 10 + DigitValue[At(s, i)]) % RegWrap
  IN v[to]

-----------------------------------------------------------------------------
(* Each check returns what to do, and the information it has added to.     *)

Token(ret, info) == [ret |-> ret, info |-> info]
Found(info)      == Token("FOUND", info)
NextChar(info)   == Token("NEXT_CHAR", info)
NextStage(info)  == Token("NEXT_STAGE", info)

check_start(c, info) == IF c = OPEN THEN Found(info) ELSE NextChar(info)

check_specifier_start(c, info) ==
  IF c = ":" THEN Found(info) ELSE NextChar(info)

\* A fill character is the one before an alignment: it is passed over here
\* and fetched back from there
check_align(s, i, info) ==
  CASE At(s, i + 1) \in DOMAIN Alignments -> NextChar(info)
    [] /\ At(s, i + 1) \notin DOMAIN Alignments
       /\ At(s, i) \in DOMAIN Alignments ->
         Found([info EXCEPT
                  !.alignment = Alignments[At(s, i)],
                  !.fill_char = IF At(s, i - 1) # ":" THEN At(s, i - 1) ELSE @])
    [] OTHER -> NextStage(info)

check_sign(c, info) ==
  IF c \in DOMAIN Signs THEN Found([info EXCEPT !.sign = Signs[c]])
                        ELSE NextStage(info)

check_alternative(c, info) ==
  IF c = "#" THEN Found([info EXCEPT !.alternate_form = TRUE])
             ELSE NextStage(info)

check_zeropadding(c, info) ==
  IF c = "0" THEN Found([info EXCEPT !.zero_padding = TRUE])
             ELSE NextStage(info)

\* The first of a run of digits is remembered until the last is reached
Start(start, i) == IF start = NULL THEN i ELSE start

\* Mutant: the start of the number is forgotten.
check_minwidth_LastDigit(s, i, info) ==
  CASE At(s, i) \notin Decimal -> NextStage(info)
    [] At(s, i) \in Decimal /\ At(s, i + 1) \in Decimal -> NextChar(info)
    [] OTHER -> Found([info EXCEPT !.min_width = atodec(s, i, i)])

check_minwidth(s, i, info) ==
  LET start == Start(info.minwidth_start, i) IN
  CASE At(s, i) \notin Decimal -> NextStage(info)
    [] At(s, i) \in Decimal /\ At(s, i + 1) \in Decimal ->
         NextChar([info EXCEPT !.minwidth_start = start])
    [] OTHER -> Found([info EXCEPT !.min_width = atodec(s, start, i),
                                   !.minwidth_start = NULL])

check_precise(s, i, info) ==
  LET start == Start(info.precise_start, i) IN
  CASE At(s, i) = "." /\ At(s, i + 1) \in Decimal ->
         NextChar([info EXCEPT !.precise_start = NULL])
    [] At(s, i) \in Decimal /\ At(s, i + 1) \in Decimal ->
         NextChar([info EXCEPT !.precise_start = start])
    [] At(s, i) \in Decimal /\ At(s, i + 1) \notin Decimal ->
         Found([info EXCEPT !.precise = atodec(s, start, i),
                            !.precise_start = NULL])
    [] OTHER -> NextStage(info)

check_type(c, info) ==
  IF c \in DOMAIN Types THEN Found([info EXCEPT !.type = Types[c]])
                        ELSE Token("ERROR", info)

check_end(c, info) ==
  Token(CASE c = " " -> "NEXT_CHAR" [] c = CLOSE -> "STOP" [] OTHER -> "ERROR",
        info)

check_token(stage, s, i, info) ==
  CASE stage = STAGE_START           -> check_start(At(s, i), info)
    [] stage = STAGE_SPECIFIER_START -> check_specifier_start(At(s, i), info)
    [] stage = STAGE_ALIGN           -> check_align(s, i, info)
    [] stage = STAGE_SIGN            -> check_sign(At(s, i), info)
    [] stage = STAGE_ALTERNATIVE     -> check_alternative(At(s, i), info)
    [] stage = STAGE_ZERO_PADDING    -> check_zeropadding(At(s, i), info)
    [] stage = STAGE_MINWIDTH        -> check_minwidth(s, i, info)
    [] stage = STAGE_PRECISE         -> check_precise(s, i, info)
    [] stage = STAGE_TYPE            -> check_type(At(s, i), info)
    [] stage = STAGE_END             -> check_end(At(s, i), info)
    [] OTHER                         -> Token("ERROR", info)
=============================================================================
