----------------------------- MODULE SnprintProofs -----------------------------
(***************************************************************************)
(* Proofs about snprint, for all formats, arguments and sizes of buffer.    *)
(***************************************************************************)
EXTENDS Snprint, SequenceTheorems, WellFoundedInduction, TLAPS

-----------------------------------------------------------------------------
(* Least numbers. *)

Less == {pair \in Nat \X Nat : pair[1] < pair[2]}

LEMMA LeastExists ==
  ASSUME NEW S \in SUBSET Nat, S # {}
  PROVE  \E x \in S : \A y \in S : x <= y
<1>1. IsWellFoundedOn(Less, Nat)
  BY NatLessThanWellFounded DEF OpToRel, Less
<1>2. PICK x \in S : \A y \in S : ~ (<<y, x>> \in Less)
  BY <1>1, WFMin
<1>3. \A y \in S : ~(y < x)
  BY <1>2 DEF Less
<1> QED
  BY <1>3

\* A set of numbers with each number whose predecessors it has, has them all.
LEMMA AllNumbers ==
  ASSUME NEW S, \A n \in Nat : (\A m \in 0 .. (n - 1) : m \in S) => n \in S
  PROVE  Nat \subseteq S
<1> DEFINE bad == Nat \ S
<1> SUFFICES ASSUME bad # {} PROVE FALSE
  OBVIOUS
<1>1. PICK n \in bad : \A m \in bad : n <= m
  BY LeastExists
<1>2. \A m \in 0 .. (n - 1) : m \in Nat /\ m < n /\ ~(n <= m)
  BY <1>1
<1>3. \A m \in 0 .. (n - 1) : m \in S
  BY <1>1, <1>2
<1> QED
  BY <1>1, <1>3

-----------------------------------------------------------------------------
(* Registers wrap. *)

LEMMA ModType ==
  ASSUME NEW n \in Nat \ {0}, NEW a \in Int
  PROVE  a % n \in 0 .. (n - 1)
  OBVIOUS

LEMMA ModCases ==
  ASSUME NEW n \in Nat \ {0}, NEW a \in Int
  PROVE  /\ a \in 0 .. (n - 1) => a % n = a
         /\ a \in n .. (2 * n - 1) => a % n = a - n
         /\ -a \in 1 .. n => a % n = a + n
<1>1. a \in 0 .. (n - 1) => a % n = a
  OBVIOUS
<1>2. a \in n .. (2 * n - 1) => a % n = a - n
  OBVIOUS
<1>3. -a \in 1 .. n => a % n = a + n
  OBVIOUS
<1> QED
  BY <1>1, <1>2, <1>3

LEMMA WrapFacts ==
  /\ RegWrap \in Nat \ {0} /\ RegWrap > 16
  /\ RegWrap \div 2 \in Nat /\ 2 * (RegWrap \div 2) = RegWrap
  BY FormatAssumption

LEMMA DivLess ==
  ASSUME NEW base \in {2, 8, 10, 16}, NEW v \in Nat
  PROVE  /\ v % base \in 0 .. 15
         /\ v >= base => v \div base \in 0 .. (v - 1)
  OBVIOUS

-----------------------------------------------------------------------------
(* The digits of a number: their recursion has a solution, and each one is   *)
(* at least a digit.                                                         *)

LEMMA CharFacts ==
  /\ NUL \in Char /\ " " \in Char /\ "+" \in Char /\ "-" \in Char
  /\ "#" \in Char /\ "." \in Char /\ ":" \in Char /\ OPEN \in Char /\ CLOSE \in Char
  /\ "<" \in Char /\ ">" \in Char /\ "=" \in Char /\ "^" \in Char
  /\ "o" \in Char /\ "x" \in Char /\ "s" \in Char
  /\ "0" \in Char /\ "b" \in Char /\ "d" \in Char
  /\ \A i \in 1 .. 16 : Digit[i] \in Char
<1>1. \A c \in {NUL, " ", "+", "-", "#", ".", ":", OPEN, CLOSE, "<", ">", "=", "^",
                "o", "x", "s"} : c \in Char
  BY SnprintAssumption
<1>2. NUL \in Char
  BY <1>1
<1>3. " " \in Char /\ "+" \in Char /\ "-" \in Char
  BY <1>1
<1>4. "#" \in Char /\ "." \in Char /\ ":" \in Char /\ OPEN \in Char /\ CLOSE \in Char
  BY <1>1
<1>5. "<" \in Char /\ ">" \in Char /\ "=" \in Char /\ "^" \in Char
  BY <1>1
<1>6. "o" \in Char /\ "x" \in Char /\ "s" \in Char
  BY <1>1
<1>7. \A i \in 1 .. 16 : Digit[i] \in Char
  BY SnprintAssumption
<1>8. 1 \in 1 .. 16 /\ 12 \in 1 .. 16 /\ 14 \in 1 .. 16
  OBVIOUS
<1>9. Digit[1] \in Char /\ Digit[12] \in Char /\ Digit[14] \in Char
  BY <1>7, <1>8
<1>10. Digit[1] = "0" /\ Digit[12] = "b" /\ Digit[14] = "d"
  BY DEF Digit
<1> QED
  BY <1>2, <1>3, <1>4, <1>5, <1>6, <1>7, <1>9, <1>10

LEMMA DigitType == \A i \in 0 .. 15 : Digit[i + 1] \in Char
<1>1. \A i \in 0 .. 15 : i + 1 \in 1 .. 16
  OBVIOUS
<1> QED
  BY <1>1, CharFacts

\* The digits of v, if f has those of smaller numbers.
DigitsStep(base, f, v) ==
  <<Digit[(v % base) + 1]>> \o (IF v < base THEN <<>> ELSE f[v \div base])

SolvesDigits(val, base, f) == f = [v \in 0 .. val |-> DigitsStep(base, f, v)]

LEMMA DigitsUnfolds ==
  ASSUME NEW val, NEW base
  PROVE  Digits(val, base) = (CHOOSE f : SolvesDigits(val, base, f))[val]
  BY DEF Digits, SolvesDigits, DigitsStep

LEMMA DigitsExist ==
  ASSUME NEW base \in {2, 8, 10, 16}, NEW val \in Nat
  PROVE  \E f : SolvesDigits(val, base, f)
<1> DEFINE P(n) == \E f : SolvesDigits(n, base, f)
           S == {n \in Nat : P(n)}
<1>1. ASSUME NEW n \in Nat, \A m \in 0 .. (n - 1) : m \in S
      PROVE  P(n)
  <2>1. CASE n = 0
    <3> DEFINE f == [v \in 0 .. 0 |-> <<Digit[(v % base) + 1]>> \o <<>>]
    <3>1. \A v \in 0 .. 0 : v < base
      OBVIOUS
    <3>2. f = [v \in 0 .. 0 |-> DigitsStep(base, f, v)]
      BY <3>1 DEF DigitsStep
    <3> QED
      BY <2>1, <3>2 DEF SolvesDigits
  <2>2. CASE n # 0
    <3>1. n - 1 \in S
      BY <1>1, <2>2
    <3>2. PICK f : SolvesDigits(n - 1, base, f)
      BY <3>1
    <3> DEFINE g == [v \in 0 .. n |-> DigitsStep(base, f, v)]
    <3>3. \A v \in 0 .. (n - 1) : f[v] = DigitsStep(base, f, v)
      BY <3>2 DEF SolvesDigits
    <3>4. \A v \in 0 .. (n - 1) : g[v] = f[v]
      BY <3>3
    <3>5. ASSUME NEW v \in 0 .. n
          PROVE  DigitsStep(base, g, v) = DigitsStep(base, f, v)
      <4>1. CASE v < base
        BY <4>1 DEF DigitsStep
      <4>2. CASE ~(v < base)
        <5>1. v \div base \in 0 .. (v - 1)
          BY <4>2, DivLess
        <5>2. v \div base \in 0 .. (n - 1)
          BY <5>1
        <5> HIDE DEF g
        <5>3. g[v \div base] = f[v \div base]
          BY <5>2, <3>4
        <5> QED
          BY <5>3, <4>2 DEF DigitsStep
      <4> QED
        BY <4>1, <4>2
    <3>6. g = [v \in 0 .. n |-> DigitsStep(base, g, v)]
      BY <3>5
    <3> QED
      BY <3>6 DEF SolvesDigits
  <2> QED
    BY <2>1, <2>2
<1>2. \A n \in Nat : (\A m \in 0 .. (n - 1) : m \in S) => n \in S
  BY <1>1
<1> HIDE DEF S
<1>3. Nat \subseteq S
  BY <1>2, AllNumbers
<1> QED
  BY <1>3 DEF S

LEMMA OneMore ==
  ASSUME NEW c \in Char, NEW s \in Seq(Char)
  PROVE  /\ <<c>> \o s \in Seq(Char)
         /\ Len(<<c>> \o s) \in Nat \ {0}
<1>1. <<c>> \in Seq(Char) /\ Len(<<c>>) = 1
  OBVIOUS
<1> QED
  BY <1>1, ConcatProperties, LenProperties

LEMMA DigitsSolved ==
  ASSUME NEW base \in {2, 8, 10, 16}, NEW val \in Nat, NEW f,
         SolvesDigits(val, base, f)
  PROVE  \A n \in 0 .. val : /\ f[n] = DigitsStep(base, f, n)
                             /\ f[n] \in Seq(Char) /\ Len(f[n]) \in Nat \ {0}
<1> DEFINE Good(s) == s \in Seq(Char) /\ Len(s) \in Nat \ {0}
           S == {n \in Nat : n <= val => Good(f[n])}
<1>1. \A n \in 0 .. val : f[n] = DigitsStep(base, f, n)
  BY DEF SolvesDigits
<1>2. ASSUME NEW n \in Nat, \A m \in 0 .. (n - 1) : m \in S, n <= val
      PROVE  Good(f[n])
  <2>1. f[n] = DigitsStep(base, f, n)
    BY <1>1, <1>2
  <2>2. Digit[(n % base) + 1] \in Char
    BY DivLess, DigitType
  <2>3. CASE n < base
    <3>1. <<>> \in Seq(Char)
      OBVIOUS
    <3>2. f[n] = <<Digit[(n % base) + 1]>> \o <<>>
      BY <2>1, <2>3 DEF DigitsStep
    <3> QED
      BY <2>2, <3>1, <3>2, OneMore
  <2>4. CASE ~(n < base)
    <3>1. n \div base \in 0 .. (n - 1)
      BY <2>4, DivLess
    <3>2. f[n \div base] \in Seq(Char)
      BY <3>1, <1>2
    <3>3. f[n] = <<Digit[(n % base) + 1]>> \o f[n \div base]
      BY <2>1, <2>4 DEF DigitsStep
    <3> QED
      BY <2>2, <3>2, <3>3, OneMore
  <2> QED
    BY <2>3, <2>4
<1> HIDE DEF Good
<1>3. \A n \in Nat : (\A m \in 0 .. (n - 1) : m \in S) => n \in S
  BY <1>2
<1> HIDE DEF S
<1>4. Nat \subseteq S
  BY <1>3, AllNumbers
<1>5. \A n \in 0 .. val : Good(f[n])
  BY <1>4 DEF S
<1> QED
  BY <1>1, <1>5 DEF Good

LEMMA DigitsFacts ==
  ASSUME NEW base \in {2, 8, 10, 16}, NEW val \in Nat
  PROVE  Digits(val, base) \in Seq(Char) /\ Len(Digits(val, base)) \in Nat \ {0}
<1> DEFINE f == CHOOSE g : SolvesDigits(val, base, g)
<1>1. SolvesDigits(val, base, f)
  BY DigitsExist
<1>2. Digits(val, base) = f[val]
  BY DigitsUnfolds
<1> HIDE DEF f
<1>3. f[val] \in Seq(Char) /\ Len(f[val]) \in Nat \ {0}
  BY <1>1, DigitsSolved
<1> QED
  BY <1>2, <1>3

-----------------------------------------------------------------------------
(* The value of a number: its recursion has a solution, a register's value.  *)

LEMMA DigitValueType == \A d \in Decimal : DigitValue[d] \in 0 .. 9
<1> SUFFICES ASSUME NEW d \in Decimal
             PROVE  DigitValue[d] \in 0 .. 9
  OBVIOUS
<1>1. PICK n \in 1 .. 10 : Digit[n] = d
  BY DEF Decimal
<1>2. n - 1 \in 0 .. 9 /\ Digit[(n - 1) + 1] = d
  BY <1>1
<1>3. \E m \in 0 .. 9 : Digit[m + 1] = d
  BY <1>2
<1>4. (CHOOSE m \in 0 .. 9 : Digit[m + 1] = d) \in 0 .. 9
  BY <1>3
<1> QED
  BY <1>4 DEF DigitValue

\* The value up to the digit at i, if v has those up to the digits before.
ValueStep(s, from, v, i) ==
  IF i < from THEN 0 ELSE (v[i - 1] * 10 + DigitValue[At(s, i)]) % RegWrap

SolvesValue(s, from, to, v) ==
  v = [i \in (from - 1) .. to |-> ValueStep(s, from, v, i)]

LEMMA ValueUnfolds ==
  ASSUME NEW s, NEW from, NEW to
  PROVE  atodec(s, from, to) = (CHOOSE v : SolvesValue(s, from, to, v))[to]
  BY DEF atodec, SolvesValue, ValueStep

LEMMA ValueExists ==
  ASSUME NEW s, NEW from \in Nat, NEW len \in Nat
  PROVE  \E v : SolvesValue(s, from, (from - 1) + len, v)
<1> DEFINE P(n) == \E v : SolvesValue(s, from, (from - 1) + n, v)
           S == {n \in Nat : P(n)}
<1>1. ASSUME NEW n \in Nat, \A m \in 0 .. (n - 1) : m \in S
      PROVE  P(n)
  <2>1. CASE n = 0
    <3> DEFINE v == [i \in (from - 1) .. ((from - 1) + 0) |-> 0]
    <3>1. \A i \in (from - 1) .. ((from - 1) + 0) : i < from
      OBVIOUS
    <3>2. v = [i \in (from - 1) .. ((from - 1) + 0) |-> ValueStep(s, from, v, i)]
      BY <3>1 DEF ValueStep
    <3> QED
      BY <2>1, <3>2 DEF SolvesValue
  <2>2. CASE n # 0
    <3> DEFINE last == (from - 1) + n
    <3>1. n - 1 \in S /\ (from - 1) + (n - 1) = last - 1
      BY <1>1, <2>2
    <3>2. PICK v : SolvesValue(s, from, last - 1, v)
      BY <3>1
    <3> DEFINE g == [i \in (from - 1) .. last |-> ValueStep(s, from, v, i)]
    <3>3. last \in Int /\ last >= from
      BY <2>2
    <3> HIDE DEF last
    <3>4. \A i \in (from - 1) .. (last - 1) : g[i] = v[i]
      BY <3>2, <3>3 DEF SolvesValue
    <3>5. ASSUME NEW i \in (from - 1) .. last
          PROVE  ValueStep(s, from, g, i) = ValueStep(s, from, v, i)
      <4>1. CASE i < from
        BY <4>1 DEF ValueStep
      <4>2. CASE ~(i < from)
        <5>1. i - 1 \in (from - 1) .. (last - 1)
          BY <4>2, <3>3
        <5> HIDE DEF g
        <5>2. g[i - 1] = v[i - 1]
          BY <5>1, <3>4
        <5> QED
          BY <5>2, <4>2 DEF ValueStep
      <4> QED
        BY <4>1, <4>2
    <3>6. g = [i \in (from - 1) .. last |-> ValueStep(s, from, g, i)]
      BY <3>5
    <3> QED
      BY <3>6 DEF SolvesValue, last
  <2> QED
    BY <2>1, <2>2
<1>2. \A n \in Nat : (\A m \in 0 .. (n - 1) : m \in S) => n \in S
  BY <1>1
<1> HIDE DEF S
<1>3. Nat \subseteq S
  BY <1>2, AllNumbers
<1> QED
  BY <1>3 DEF S

LEMMA NextValue ==
  ASSUME NEW a \in 0 .. (RegWrap - 1), NEW d \in 0 .. 9
  PROVE  (a * 10 + d) % RegWrap \in 0 .. (RegWrap - 1)
<1>1. a * 10 + d \in Int
  BY WrapFacts
<1> QED
  BY <1>1, ModType, WrapFacts

LEMMA ValueFacts ==
  ASSUME NEW s, NEW from \in Nat, NEW to \in Nat, from <= to,
         \A k \in from .. to : At(s, k) \in Decimal
  PROVE  atodec(s, from, to) \in 0 .. (RegWrap - 1)
<1> DEFINE len == to - (from - 1)
           v == CHOOSE g : SolvesValue(s, from, to, g)
           S == {n \in Nat : n <= len => v[(from - 1) + n] \in 0 .. (RegWrap - 1)}
<1>1. len \in Nat /\ (from - 1) + len = to
  OBVIOUS
<1>2. SolvesValue(s, from, to, v)
  BY <1>1, ValueExists
<1> HIDE DEF v
<1>3. ASSUME NEW n \in Nat, \A m \in 0 .. (n - 1) : m \in S, n <= len
      PROVE  v[(from - 1) + n] \in 0 .. (RegWrap - 1)
  <2> DEFINE i == (from - 1) + n
  <2>1. i \in (from - 1) .. to
    BY <1>3
  <2>2. v[i] = ValueStep(s, from, v, i)
    BY <1>2, <2>1 DEF SolvesValue
  <2>3. CASE n = 0
    <3>1. i < from
      BY <2>3
    <3> QED
      BY <2>2, <3>1, WrapFacts DEF ValueStep
  <2>4. CASE n # 0
    <3>1. n - 1 \in S /\ n - 1 <= len
      BY <2>4, <1>3
    <3>2. (from - 1) + (n - 1) = i - 1 /\ i \in from .. to /\ ~(i < from)
      BY <2>1, <2>4
    <3> HIDE DEF i, len
    <3>3. v[i - 1] \in 0 .. (RegWrap - 1)
      BY <3>1, <3>2
    <3>4. DigitValue[At(s, i)] \in 0 .. 9
      BY <3>2, DigitValueType
    <3>5. v[i] \in 0 .. (RegWrap - 1)
      BY <2>2, <3>2, <3>3, <3>4, NextValue DEF ValueStep
    <3> QED
      BY <3>5 DEF i
  <2> QED
    BY <2>3, <2>4
<1>4. \A n \in Nat : (\A m \in 0 .. (n - 1) : m \in S) => n \in S
  BY <1>3
<1> HIDE DEF S
<1>5. Nat \subseteq S
  BY <1>4, AllNumbers
<1>6. v[to] \in 0 .. (RegWrap - 1)
  BY <1>1, <1>5 DEF S
<1> QED
  BY <1>6, ValueUnfolds DEF v

-----------------------------------------------------------------------------
(* The parser keeps the information it gathers, and a number it has begun    *)
(* is digits all the way to where it is.                                     *)

Begun(s, i, start) ==
  start # NULL => start <= i /\ \A k \in start .. i : At(s, k) \in Decimal

Reading(s, i, st, inf) ==
  /\ inf.minwidth_start # NULL => st = STAGE_MINWIDTH
  /\ inf.precise_start # NULL => st = STAGE_PRECISE
  /\ Begun(s, i, inf.minwidth_start)
  /\ Begun(s, i, inf.precise_start)

NoNumber(inf) == inf.minwidth_start = NULL /\ inf.precise_start = NULL

\* What a check says of the character at i is sound: the next character goes on
\* with the number being read, and the next stage starts without one.
Sound(s, i, st, inf, token) ==
  /\ token.info \in Infos
  /\ token.ret = "NEXT_CHAR" => Reading(s, i + 1, st, token.info)
  /\ token.ret = "FOUND" => NoNumber(token.info)
  /\ token.ret = "NEXT_STAGE" => NoNumber(inf) /\ st # STAGE_START

LEMMA NoInfoFacts == NoInfo \in Infos /\ NoNumber(NoInfo)
<1>1. NUL \in Char
  BY CharFacts
<1>2. 0 \in 0 .. (RegWrap - 1)
  BY WrapFacts
<1>3. NoInfo \in Infos
  BY <1>1, <1>2 DEF NoInfo, Infos
<1>4. NoNumber(NoInfo)
  BY DEF NoInfo, NoNumber
<1> QED
  BY <1>3, <1>4

LEMMA NoNumberReads ==
  ASSUME NEW s, NEW i, NEW st, NEW inf, NoNumber(inf)
  PROVE  Reading(s, i, st, inf)
  BY DEF NoNumber, Reading, Begun

LEMMA NotReading ==
  ASSUME NEW s, NEW i, NEW st, NEW inf, Reading(s, i, st, inf),
         st # STAGE_MINWIDTH, st # STAGE_PRECISE
  PROVE  NoNumber(inf)
  BY DEF Reading, NoNumber

LEMMA AtType ==
  ASSUME NEW s \in Seq(Char), NEW i \in Nat
  PROVE  At(s, i) \in Char
<1>1. CASE i < Len(s)
  <2>1. i + 1 \in 1 .. Len(s)
    BY <1>1
  <2> QED
    BY <1>1, <2>1, ElementOfSeq DEF At
<1>2. CASE ~(i < Len(s))
  BY <1>2, CharFacts DEF At
<1> QED
  BY <1>1, <1>2

LEMMA StartSound ==
  ASSUME NEW s, NEW i \in Nat, NEW inf \in Infos, NEW c, NoNumber(inf)
  PROVE  Sound(s, i, STAGE_START, inf, check_start(c, inf))
  BY NoNumberReads
  DEF Sound, check_start, Found, NextChar, Token

LEMMA SpecifierSound ==
  ASSUME NEW s, NEW i \in Nat, NEW inf \in Infos, NEW c, NoNumber(inf)
  PROVE  Sound(s, i, STAGE_SPECIFIER_START, inf, check_specifier_start(c, inf))
  BY NoNumberReads
  DEF Sound, check_specifier_start, Found, NextChar, Token

LEMMA AlignSound ==
  ASSUME NEW s \in Seq(Char), NEW i \in Nat \ {0}, NEW inf \in Infos, NoNumber(inf)
  PROVE  Sound(s, i, STAGE_ALIGN, inf, check_align(s, i, inf))
<1> DEFINE a == Alignments[At(s, i)]
           c == IF At(s, i - 1) # ":" THEN At(s, i - 1) ELSE inf.fill_char
           found == [inf EXCEPT !.alignment = a, !.fill_char = c]
<1>1. CASE At(s, i + 1) \in DOMAIN Alignments
  BY <1>1, NoNumberReads DEF Sound, check_align, NextChar, Token
<1>2. CASE At(s, i + 1) \notin DOMAIN Alignments /\ At(s, i) \in DOMAIN Alignments
  <2>1. check_align(s, i, inf) = Found(found)
    BY <1>2 DEF check_align
  <2>2. a \in {"DEFAULT", "LEFT", "RIGHT", "AFTER_SIGN", "CENTER"}
    BY <1>2 DEF Alignments
  <2>3. At(s, i - 1) \in Char
    BY AtType
  <2>4. c \in Char
    BY <2>3 DEF Infos
  <2> HIDE DEF a, c
  <2>5. found \in Infos /\ NoNumber(found)
    BY <2>2, <2>4 DEF Infos, NoNumber
  <2> QED
    BY <2>1, <2>5 DEF Sound, Found, Token
<1>3. CASE At(s, i + 1) \notin DOMAIN Alignments /\ At(s, i) \notin DOMAIN Alignments
  BY <1>3 DEF Sound, check_align, NextStage, Token, STAGE_ALIGN, STAGE_START
<1> QED
  BY <1>1, <1>2, <1>3

LEMMA SignSound ==
  ASSUME NEW s, NEW i \in Nat, NEW inf \in Infos, NEW c, NoNumber(inf)
  PROVE  Sound(s, i, STAGE_SIGN, inf, check_sign(c, inf))
<1>1. CASE c \in DOMAIN Signs
  <2>1. Signs[c] \in {"NEG", "BOTH", "POS_LEADING"}
    BY <1>1 DEF Signs
  <2>2. [inf EXCEPT !.sign = Signs[c]] \in Infos
    BY <2>1 DEF Infos
  <2>3. NoNumber([inf EXCEPT !.sign = Signs[c]])
    BY DEF Infos, NoNumber
  <2> QED
    BY <1>1, <2>2, <2>3 DEF Sound, check_sign, Found, Token
<1>2. CASE c \notin DOMAIN Signs
  BY <1>2 DEF Sound, check_sign, NextStage, Token, STAGE_SIGN, STAGE_START
<1> QED
  BY <1>1, <1>2

LEMMA AlternativeSound ==
  ASSUME NEW s, NEW i \in Nat, NEW inf \in Infos, NEW c, NoNumber(inf)
  PROVE  Sound(s, i, STAGE_ALTERNATIVE, inf, check_alternative(c, inf))
<1>1. [inf EXCEPT !.alternate_form = TRUE] \in Infos
  BY DEF Infos
<1>2. NoNumber([inf EXCEPT !.alternate_form = TRUE])
  BY DEF Infos, NoNumber
<1> QED
  BY <1>1, <1>2 DEF Sound, check_alternative, Found, NextStage, Token,
                    STAGE_ALTERNATIVE, STAGE_START

LEMMA ZeroSound ==
  ASSUME NEW s, NEW i \in Nat, NEW inf \in Infos, NEW c, NoNumber(inf)
  PROVE  Sound(s, i, STAGE_ZERO_PADDING, inf, check_zeropadding(c, inf))
<1>1. [inf EXCEPT !.zero_padding = TRUE] \in Infos
  BY DEF Infos
<1>2. NoNumber([inf EXCEPT !.zero_padding = TRUE])
  BY DEF Infos, NoNumber
<1> QED
  BY <1>1, <1>2 DEF Sound, check_zeropadding, Found, NextStage, Token,
                    STAGE_ZERO_PADDING, STAGE_START

\* A number begun, or beginning at i, reaches i, and goes on if a digit follows.
LEMMA StartFacts ==
  ASSUME NEW s, NEW i \in Nat, NEW start \in Nat \cup {NULL},
         Begun(s, i, start), At(s, i) \in Decimal
  PROVE  /\ Start(start, i) \in Nat
         /\ \A k \in Start(start, i) .. i : At(s, k) \in Decimal
         /\ At(s, i + 1) \in Decimal => Begun(s, i + 1, Start(start, i))
         /\ atodec(s, Start(start, i), i) \in 0 .. (RegWrap - 1)
<1> DEFINE from == Start(start, i)
<1>1. from \in Nat /\ from <= i
  BY DEF Start, Begun, NULL
<1>2. \A k \in from .. i : At(s, k) \in Decimal
  BY DEF Start, Begun, NULL
<1>3. At(s, i + 1) \in Decimal => Begun(s, i + 1, from)
  <2>1. \A k \in from .. (i + 1) : k = i + 1 \/ k \in from .. i
    BY <1>1
  <2> QED
    BY <1>1, <1>2, <2>1 DEF Begun
<1>4. atodec(s, from, i) \in 0 .. (RegWrap - 1)
  BY <1>1, <1>2, ValueFacts
<1> QED
  BY <1>1, <1>2, <1>3, <1>4

LEMMA MinwidthSound ==
  ASSUME NEW s, NEW i \in Nat, NEW inf \in Infos,
         Reading(s, i, STAGE_MINWIDTH, inf)
  PROVE  Sound(s, i, STAGE_MINWIDTH, inf, check_minwidth(s, i, inf))
<1> DEFINE start == Start(inf.minwidth_start, i)
           width == atodec(s, start, i)
           token == check_minwidth(s, i, inf)
<1>1. /\ Begun(s, i, inf.minwidth_start) /\ inf.precise_start = NULL
      /\ inf.minwidth_start \in Nat \cup {NULL}
  BY DEF Reading, Infos, STAGE_MINWIDTH, STAGE_PRECISE
<1>2. CASE At(s, i) \notin Decimal
  <2>1. token = NextStage(inf)
    BY <1>2 DEF check_minwidth
  <2>2. inf.minwidth_start = NULL
    BY <1>1, <1>2 DEF Begun, NULL
  <2> QED
    BY <1>1, <2>1, <2>2 DEF Sound, NoNumber, NextStage, Token, STAGE_MINWIDTH,
                            STAGE_START
<1>3. CASE At(s, i) \in Decimal
  <2>1. /\ start \in Nat /\ width \in 0 .. (RegWrap - 1)
        /\ At(s, i + 1) \in Decimal => Begun(s, i + 1, start)
    BY <1>1, <1>3, StartFacts
  <2> HIDE DEF start, width
  <2>2. CASE At(s, i + 1) \in Decimal
    <3> DEFINE next == [inf EXCEPT !.minwidth_start = start]
    <3>1. token = NextChar(next)
      BY <1>3, <2>2 DEF check_minwidth, start
    <3>2. /\ next \in Infos /\ next.minwidth_start = start
          /\ next.precise_start = NULL
      BY <1>1, <2>1 DEF Infos
    <3> HIDE DEF next
    <3>3. Reading(s, i + 1, STAGE_MINWIDTH, next)
      BY <2>1, <2>2, <3>2 DEF Reading, Begun
    <3> QED
      BY <3>1, <3>2, <3>3 DEF Sound, NextChar, Token
  <2>3. CASE At(s, i + 1) \notin Decimal
    <3> DEFINE found == [inf EXCEPT !.min_width = width, !.minwidth_start = NULL]
    <3>1. token = Found(found)
      BY <1>3, <2>3 DEF check_minwidth, start, width
    <3>2. found \in Infos /\ NoNumber(found)
      BY <1>1, <2>1 DEF Infos, NoNumber
    <3> QED
      BY <3>1, <3>2 DEF Sound, Found, Token
  <2> QED
    BY <2>2, <2>3
<1> QED
  BY <1>2, <1>3

LEMMA PreciseSound ==
  ASSUME NEW s, NEW i \in Nat, NEW inf \in Infos,
         Reading(s, i, STAGE_PRECISE, inf)
  PROVE  Sound(s, i, STAGE_PRECISE, inf, check_precise(s, i, inf))
<1> DEFINE start == Start(inf.precise_start, i)
           number == atodec(s, start, i)
           token == check_precise(s, i, inf)
           next == [inf EXCEPT !.precise_start = start]
           found == [inf EXCEPT !.precise = number, !.precise_start = NULL]
           point == [inf EXCEPT !.precise_start = NULL]
<1>1. /\ Begun(s, i, inf.precise_start) /\ inf.minwidth_start = NULL
      /\ inf.precise_start \in Nat \cup {NULL}
  BY DEF Reading, Infos, STAGE_MINWIDTH, STAGE_PRECISE
<1>2. "." \notin Decimal
  BY DEF Decimal, Digit
<1>3. CASE At(s, i) = "." /\ At(s, i + 1) \in Decimal
  <2>1. token = NextChar(point)
    BY <1>2, <1>3 DEF check_precise
  <2>2. point \in Infos /\ NoNumber(point)
    BY <1>1 DEF Infos, NoNumber
  <2> QED
    BY <2>1, <2>2, NoNumberReads DEF Sound, NextChar, Token
<1>4. CASE At(s, i) \notin Decimal /\ ~(At(s, i) = "." /\ At(s, i + 1) \in Decimal)
  <2>1. token = NextStage(inf)
    BY <1>4 DEF check_precise
  <2>2. inf.precise_start = NULL
    BY <1>1, <1>4 DEF Begun, NULL
  <2> QED
    BY <1>1, <2>1, <2>2 DEF Sound, NoNumber, NextStage, Token, STAGE_PRECISE,
                            STAGE_START
<1>5. CASE At(s, i) \in Decimal /\ At(s, i) # "."
  <2>1. /\ start \in Nat /\ number \in 0 .. (RegWrap - 1)
        /\ At(s, i + 1) \in Decimal => Begun(s, i + 1, start)
    BY <1>1, <1>5, StartFacts
  <2>2. CASE At(s, i + 1) \in Decimal
    <3>1. token = NextChar(next)
      BY <1>5, <2>2 DEF check_precise
    <3> HIDE DEF start
    <3>2. /\ next \in Infos /\ next.precise_start = start
          /\ next.minwidth_start = NULL
      BY <1>1, <2>1 DEF Infos
    <3> HIDE DEF next
    <3>3. Reading(s, i + 1, STAGE_PRECISE, next)
      BY <2>1, <2>2, <3>2 DEF Reading, Begun
    <3> QED
      BY <3>1, <3>2, <3>3 DEF Sound, NextChar, Token
  <2>3. CASE At(s, i + 1) \notin Decimal
    <3>1. token = Found(found)
      BY <1>5, <2>3 DEF check_precise
    <3> HIDE DEF number
    <3>2. found \in Infos /\ NoNumber(found)
      BY <1>1, <2>1 DEF Infos, NoNumber
    <3> QED
      BY <3>1, <3>2 DEF Sound, Found, Token
  <2> QED
    BY <2>2, <2>3
<1> QED
  BY <1>2, <1>3, <1>4, <1>5

LEMMA TypeSound ==
  ASSUME NEW s, NEW i \in Nat, NEW inf \in Infos, NEW c, NoNumber(inf)
  PROVE  Sound(s, i, STAGE_TYPE, inf, check_type(c, inf))
<1>1. CASE c \in DOMAIN Types
  <2>1. Types[c] \in {"BIN", "DEC", "OCTAL", "LOW_HEX", "STRING"}
    BY <1>1 DEF Types
  <2>2. [inf EXCEPT !.type = Types[c]] \in Infos
    BY <2>1 DEF Infos
  <2>3. NoNumber([inf EXCEPT !.type = Types[c]])
    BY DEF Infos, NoNumber
  <2> QED
    BY <1>1, <2>2, <2>3 DEF Sound, check_type, Found, Token
<1>2. CASE c \notin DOMAIN Types
  BY <1>2 DEF Sound, check_type, Token
<1> QED
  BY <1>1, <1>2

LEMMA EndSound ==
  ASSUME NEW s, NEW i \in Nat, NEW inf \in Infos, NEW c, NoNumber(inf)
  PROVE  Sound(s, i, STAGE_END, inf, check_end(c, inf))
<1>1. check_end(c, inf).info = inf
  BY DEF check_end, Token
<1>2. check_end(c, inf).ret \in {"NEXT_CHAR", "STOP", "ERROR"}
  BY DEF check_end, Token
<1> QED
  BY <1>1, <1>2, NoNumberReads DEF Sound

LEMMA TokenSound ==
  ASSUME NEW s \in Seq(Char), NEW i \in Nat, NEW st \in Nat, NEW inf \in Infos,
         st # STAGE_START => i # 0, Reading(s, i, st, inf)
  PROVE  Sound(s, i, st, inf, check_token(st, s, i, inf))
<1> DEFINE Goal == Sound(s, i, st, inf, check_token(st, s, i, inf))
<1> USE DEF check_token, STAGE_START, STAGE_SPECIFIER_START, STAGE_ALIGN,
            STAGE_SIGN, STAGE_ALTERNATIVE, STAGE_ZERO_PADDING, STAGE_MINWIDTH,
            STAGE_PRECISE, STAGE_TYPE, STAGE_END
<1>1. CASE st = 6
  BY <1>1, MinwidthSound
<1>2. CASE st = 7
  BY <1>2, PreciseSound
<1>3. CASE st \notin {6, 7}
  <2>1. NoNumber(inf)
    BY <1>3, NotReading
  <2>2. CASE st = 0
    BY <2>1, <2>2, StartSound
  <2>3. CASE st = 1
    BY <2>1, <2>3, SpecifierSound
  <2>4. CASE st = 2
    BY <2>1, <2>4, AlignSound
  <2>5. CASE st = 3
    BY <2>1, <2>5, SignSound
  <2>6. CASE st = 4
    BY <2>1, <2>6, AlternativeSound
  <2>7. CASE st = 5
    BY <2>1, <2>7, ZeroSound
  <2>8. CASE st = 8
    BY <2>1, <2>8, TypeSound
  <2>9. CASE st = 9
    BY <2>1, <2>9, EndSound
  <2>10. CASE st \notin 0 .. 9
    <3>1. check_token(st, s, i, inf) = Token("ERROR", inf)
      BY <2>10
    <3> QED
      BY <3>1 DEF Sound, Token
  <2>11. st \in 0 .. 9 => st \in {0, 1, 2, 3, 4, 5, 6, 7, 8, 9}
    OBVIOUS
  <2> QED
    BY <1>3, <2>2, <2>3, <2>4, <2>5, <2>6, <2>7, <2>8, <2>9, <2>10, <2>11
<1> QED
  BY <1>1, <1>2, <1>3

-----------------------------------------------------------------------------
(* What the operators on texts return. *)

LEMMA MostLeast ==
  ASSUME NEW a \in Int, NEW b \in Int
  PROVE  /\ Most(a, b) \in {a, b} /\ Most(a, b) >= a /\ Most(a, b) >= b
         /\ Least(a, b) \in {a, b} /\ Least(a, b) <= a /\ Least(a, b) <= b
  BY DEF Most, Least

LEMMA RepeatFacts ==
  ASSUME NEW c \in Char, NEW n \in Nat
  PROVE  Repeat(c, n) \in Seq(Char) /\ Len(Repeat(c, n)) = n
<1>1. Repeat(c, n) \in Seq(Char)
  BY IsASeq DEF Repeat
<1>2. DOMAIN Repeat(c, n) = 1 .. n
  BY DEF Repeat
<1> QED
  BY <1>1, <1>2, LenProperties

LEMMA ConcatFacts ==
  ASSUME NEW s \in Seq(Char), NEW t \in Seq(Char)
  PROVE  s \o t \in Seq(Char) /\ Len(s \o t) = Len(s) + Len(t)
  BY ConcatProperties

LEMMA PrefixFacts ==
  ASSUME NEW s \in Seq(Char), NEW n \in 0 .. Len(s)
  PROVE  SubSeq(s, 1, n) \in Seq(Char) /\ Len(SubSeq(s, 1, n)) = n
<1>1. \A i \in 1 .. n : i \in 1 .. Len(s)
  BY LenProperties
<1>2. /\ SubSeq(s, 1, n) \in Seq(Char)
      /\ Len(SubSeq(s, 1, n)) = IF 1 <= n THEN n - 1 + 1 ELSE 0
  BY <1>1, SubSeqProperties, ElementOfSeq
<1> QED
  BY <1>2, LenProperties

LEMMA ReverseFacts ==
  ASSUME NEW s \in Seq(Char)
  PROVE  Reverse(s) \in Seq(Char) /\ Len(Reverse(s)) = Len(s)
<1>1. Len(s) \in Nat
  BY LenProperties
<1>2. \A i \in 1 .. Len(s) : s[(Len(s) - i) + 1] \in Char
  <2>1. \A i \in 1 .. Len(s) : (Len(s) - i) + 1 \in 1 .. Len(s)
    BY <1>1
  <2> QED
    BY <2>1, ElementOfSeq
<1>3. Reverse(s) \in Seq(Char)
  BY <1>1, <1>2, IsASeq DEF Reverse
<1>4. DOMAIN Reverse(s) = 1 .. Len(s)
  BY DEF Reverse
<1> QED
  BY <1>1, <1>3, <1>4, LenProperties

LEMMA ShortTexts ==
  /\ <<>> \in Seq(Char)
  /\ \A c \in Char : <<c>> \in Seq(Char)
  /\ \A c, d \in Char : <<c, d>> \in Seq(Char)
  OBVIOUS

LEMMA SignType ==
  ASSUME NEW inf, NEW positive
  PROVE  Sign(inf, positive) \in Seq(Char)
<1>1. Sign(inf, positive) \in {<<"-">>, <<"+">>, <<" ">>, <<>>}
  BY DEF Sign
<1>2. <<"-">> \in Seq(Char) /\ <<"+">> \in Seq(Char) /\ <<" ">> \in Seq(Char)
      /\ <<>> \in Seq(Char)
  BY CharFacts, ShortTexts
<1> QED
  BY <1>1, <1>2

LEMMA BasePrefixType ==
  ASSUME NEW base
  PROVE  BasePrefix(base) \in Seq(Char)
<1>1. BasePrefix(base) \in {<<"b", "0">>, <<"o", "0">>, <<"x", "0">>, <<>>}
  BY DEF BasePrefix
<1>2. <<"b", "0">> \in Seq(Char) /\ <<"o", "0">> \in Seq(Char)
      /\ <<"x", "0">> \in Seq(Char) /\ <<>> \in Seq(Char)
  BY CharFacts, ShortTexts
<1> QED
  BY <1>1, <1>2

-----------------------------------------------------------------------------
(* Padding: how much there is, and where; on the right it is little enough   *)
(* for a register unless the number is aligned left.                         *)

LEMMA PaddingCountType ==
  ASSUME NEW len \in Nat, NEW base, NEW inf \in Infos, NEW positive
  PROVE  PaddingCount(len, base, inf, positive) \in 0 .. (RegWrap - 1)
<1> DEFINE blank == Most(inf.min_width, len) - len
           prefix == IF blank > 0 /\ inf.alternate_form /\ base # 10
                       THEN (blank - 2) % RegWrap ELSE blank
<1>1. inf.min_width \in 0 .. (RegWrap - 1)
  BY DEF Infos
<1>2. blank \in 0 .. (RegWrap - 1)
  BY <1>1, WrapFacts DEF Most
<1> HIDE DEF blank
<1>3. (blank - 2) % RegWrap \in 0 .. (RegWrap - 1)
  BY <1>2, ModType, WrapFacts
<1>4. prefix \in 0 .. (RegWrap - 1)
  BY <1>2, <1>3
<1>5. PaddingCount(len, base, inf, positive) =
        IF prefix > 0 /\ HasSign(inf, positive) THEN prefix - 1 ELSE prefix
  BY DEF PaddingCount, blank
<1> HIDE DEF prefix
<1>6. prefix > 0 => prefix - 1 \in 0 .. (RegWrap - 1)
  BY <1>4, WrapFacts
<1> QED
  BY <1>4, <1>5, <1>6

LEMMA PaddingPlaceFacts ==
  ASSUME NEW inf \in Infos, NEW count \in 0 .. (RegWrap - 1)
  PROVE  LET place == PaddingPlace(inf, count)
         IN /\ place.left \in Nat /\ place.right \in Nat
            /\ place.after_sign \in Nat /\ place.after_prefix \in Nat
            /\ place.right > 0 => inf.alignment \in {"LEFT", "CENTER"}
            /\ inf.alignment = "LEFT" => place.left = 0
            /\ inf.alignment = "CENTER" => place.right <= RegWrap \div 2
<1>1. count \div 2 \in Nat /\ count - count \div 2 \in Nat
      /\ count - count \div 2 <= RegWrap \div 2
  BY WrapFacts
<1>2. CASE inf.alignment = "AFTER_SIGN"
  BY <1>1, <1>2 DEF PaddingPlace
<1>3. CASE inf.alignment = "LEFT"
  BY <1>1, <1>3 DEF PaddingPlace
<1>4. CASE inf.alignment = "RIGHT"
  BY <1>1, <1>4 DEF PaddingPlace
<1>5. CASE inf.alignment = "CENTER"
  BY <1>1, <1>5 DEF PaddingPlace
<1>6. CASE inf.alignment = "DEFAULT"
  BY <1>1, <1>6 DEF PaddingPlace
<1> QED
  BY <1>2, <1>3, <1>4, <1>5, <1>6 DEF Infos

LEMMA FillType ==
  ASSUME NEW inf \in Infos, NEW dflt \in Char
  PROVE  PaddingChar(inf, dflt) \in Char
  BY DEF PaddingChar, Infos

-----------------------------------------------------------------------------
(* A piece of output fits: it writes past the room, or counts more bytes     *)
(* than there is room for, only if it may overrun; otherwise what it counts  *)
(* is what it leaves.                                                        *)

Counted(room, piece) == (room - piece.remaining) % RegWrap

Fits(room, piece, mayoverrun) ==
  /\ piece.text \in Seq(Char) /\ piece.wrote \in Nat
  /\ piece.wrote > room => mayoverrun
  /\ piece.ret = "OK" =>
       /\ Counted(room, piece) \in Nat
       /\ Counted(room, piece) > room => mayoverrun
       /\ Counted(room, piece) <= room =>
            Len(piece.text) = Counted(room, piece) /\ piece.wrote <= room

Rooms == 0 .. ((RegWrap \div 2) - 1)

\* What is counted when nothing went beyond the room.
LEMMA CountedInside ==
  ASSUME NEW room \in Rooms, NEW left \in 0 .. room
  PROVE  (room - (left % RegWrap)) % RegWrap = room - left
<1>1. left \in 0 .. (RegWrap - 1) /\ room - left \in 0 .. (RegWrap - 1)
      /\ left \in Int /\ room - left \in Int
  BY WrapFacts DEF Rooms
<1>2. left % RegWrap = left
  BY <1>1, ModCases, WrapFacts
<1> QED
  BY <1>1, <1>2, ModCases, WrapFacts

\* What is counted when over bytes went beyond.
LEMMA CountedOutside ==
  ASSUME NEW room \in Rooms, NEW over \in 1 .. (RegWrap \div 2)
  PROVE  (room - ((0 - over) % RegWrap)) % RegWrap = room + over
<1>1. 0 - over \in Int /\ -(0 - over) \in 1 .. RegWrap
  BY WrapFacts
<1>2. (0 - over) % RegWrap = (0 - over) + RegWrap
  BY <1>1, ModCases, WrapFacts
<1> DEFINE rest == room - ((0 - over) + RegWrap)
<1>3. rest \in Int /\ -rest \in 1 .. RegWrap /\ rest + RegWrap = room + over
  BY WrapFacts DEF Rooms
<1> HIDE DEF rest
<1>4. rest % RegWrap = rest + RegWrap
  BY <1>3, ModCases, WrapFacts
<1> QED
  BY <1>2, <1>3, <1>4 DEF rest

\* A number put in the room back to front, and turned round, and what is put on
\* its right.
LEMMA TurnedFits ==
  ASSUME NEW room \in Rooms, room # 0, NEW e,
         NEW front \in Seq(Char), Len(front) <= room, NEW fill \in Char,
         NEW due \in Nat, NEW mayoverrun \in BOOLEAN, due > 0 => mayoverrun,
         e = "OK" /\ Len(front) = room => due <= RegWrap \div 2
  PROVE  LET rest  == room - Len(front)
             right == padding(rest, due)
         IN Fits(room,
                 Piece(e, Reverse(front) \o Repeat(fill, Least(right, rest)),
                       (rest - right) % RegWrap, Len(front) + right),
                 mayoverrun)
<1> DEFINE rest  == room - Len(front)
           right == padding(rest, due)
           put   == Least(right, rest)
           bytes == Reverse(front) \o Repeat(fill, put)
           piece == Piece(e, bytes, (rest - right) % RegWrap, Len(front) + right)
<1> SUFFICES Fits(room, piece, mayoverrun)
  OBVIOUS
<1>1. room \in Nat /\ Len(front) \in Nat /\ rest \in 0 .. room
  BY LenProperties, WrapFacts DEF Rooms
<1> HIDE DEF rest
<1>2. /\ right \in Nat /\ right <= due
      /\ rest # 0 => right <= rest
      /\ rest = 0 => right = due
  BY <1>1 DEF padding, Least
<1> HIDE DEF right
<1>3. put \in Nat /\ (right <= rest => put = right)
  BY <1>1, <1>2 DEF Least
<1> HIDE DEF put
<1>4. bytes \in Seq(Char) /\ Len(bytes) = Len(front) + put
  <2>1. Reverse(front) \in Seq(Char) /\ Len(Reverse(front)) = Len(front)
    BY ReverseFacts
  <2>2. Repeat(fill, put) \in Seq(Char) /\ Len(Repeat(fill, put)) = put
    BY <1>3, RepeatFacts
  <2> QED
    BY <2>1, <2>2, ConcatFacts
<1> HIDE DEF bytes
<1>5. /\ piece.text = bytes /\ piece.wrote = Len(front) + right /\ piece.ret = e
      /\ piece.remaining = (rest - right) % RegWrap
  BY DEF Piece
<1> HIDE DEF piece
<1>6. CASE right <= rest
  <2>1. rest - right \in 0 .. room
    BY <1>1, <1>2, <1>6
  <2>2. Counted(room, piece) = room - (rest - right)
    BY <1>5, <2>1, CountedInside DEF Counted
  <2>3. room - (rest - right) = Len(front) + right
    BY <1>1, <1>2 DEF rest
  <2>4. Len(front) + right \in Nat /\ Len(front) + right <= room
    BY <1>1, <1>2, <1>6 DEF rest
  <2>5. /\ Counted(room, piece) = Len(front) + right
        /\ Len(bytes) = Len(front) + right
    BY <1>1, <1>2, <1>3, <1>4, <1>6, <2>2, <2>3
  <2>6. Counted(room, piece) \in Nat /\ ~(Counted(room, piece) > room)
        /\ ~(Len(front) + right > room)
    BY <1>1, <2>4, <2>5
  <2> QED
    BY <1>4, <1>5, <2>4, <2>5, <2>6 DEF Fits
<1>7. CASE ~(right <= rest)
  <2>1. rest = 0 /\ right = due /\ due > 0 /\ Len(front) = room
    BY <1>1, <1>2, <1>7 DEF rest
  <2>2. Len(front) + right \in Nat
    BY <1>1, <1>2
  <2>3. ASSUME e = "OK"
        PROVE  Counted(room, piece) \in Nat /\ Counted(room, piece) > room
    <3>1. right \in 1 .. (RegWrap \div 2) /\ rest - right = 0 - right
      BY <1>2, <2>1, <2>3
    <3>2. Counted(room, piece) = room + right
      BY <1>5, <3>1, CountedOutside DEF Counted
    <3> QED
      BY <1>1, <3>1, <3>2, WrapFacts
  <2>4. e = "OK" => ~(Counted(room, piece) <= room)
    BY <1>1, <2>3
  <2>5. mayoverrun
    BY <2>1
  <2> QED
    BY <1>4, <1>5, <2>2, <2>3, <2>4, <2>5 DEF Fits
<1> QED
  BY <1>6, <1>7

LEMMA FrontFacts ==
  ASSUME NEW room \in Nat, NEW body \in Seq(Char), NEW fill \in Char,
         NEW left \in Nat
  PROVE  LET full  == Len(body) >= room
             front == IF full THEN SubSeq(body, 1, room)
                              ELSE body \o Repeat(fill, Least(left, room - Len(body)))
         IN /\ front \in Seq(Char) /\ Len(front) <= room
            /\ ~full /\ left = 0 => Len(front) < room
<1>1. Len(body) \in Nat
  BY LenProperties
<1>2. CASE Len(body) >= room
  <2>1. room \in 0 .. Len(body)
    BY <1>1, <1>2
  <2>2. SubSeq(body, 1, room) \in Seq(Char) /\ Len(SubSeq(body, 1, room)) = room
    BY <2>1, PrefixFacts
  <2> QED
    BY <1>2, <2>2
<1>3. CASE ~(Len(body) >= room)
  <2> DEFINE put == Least(left, room - Len(body))
             front == body \o Repeat(fill, put)
  <2>1. put \in Nat /\ Len(body) + put <= room
        /\ (left = 0 => Len(body) + put < room)
    BY <1>1, <1>3 DEF Least
  <2> HIDE DEF put
  <2>2. Repeat(fill, put) \in Seq(Char) /\ Len(Repeat(fill, put)) = put
    BY <2>1, RepeatFacts
  <2>3. front \in Seq(Char) /\ Len(front) = Len(body) + put
    BY <2>2, ConcatFacts
  <2> HIDE DEF front
  <2>4. front \in Seq(Char) /\ Len(front) <= room /\ (left = 0 => Len(front) < room)
    BY <2>1, <2>3
  <2> QED
    BY <1>3, <2>4 DEF front, put
<1> QED
  BY <1>2, <1>3

LEMMA BodyType ==
  ASSUME NEW digits \in Seq(Char), NEW fill \in Char, NEW inf, NEW positive,
         NEW base, NEW a \in Nat, NEW b \in Nat
  PROVE  digits \o Repeat(fill, a)
           \o (IF inf.alternate_form THEN BasePrefix(base) ELSE <<>>)
           \o Repeat(fill, b) \o Sign(inf, positive) \in Seq(Char)
<1> DEFINE prefix == IF inf.alternate_form THEN BasePrefix(base) ELSE <<>>
<1>1. prefix \in Seq(Char)
  BY BasePrefixType, ShortTexts
<1> HIDE DEF prefix
<1>2. Repeat(fill, a) \in Seq(Char) /\ Repeat(fill, b) \in Seq(Char)
  BY RepeatFacts
<1>3. digits \o Repeat(fill, a) \in Seq(Char)
  BY <1>2, ConcatFacts
<1>4. digits \o Repeat(fill, a) \o prefix \in Seq(Char)
  BY <1>1, <1>3, ConcatFacts
<1>5. digits \o Repeat(fill, a) \o prefix \o Repeat(fill, b) \in Seq(Char)
  BY <1>2, <1>4, ConcatFacts
<1>6. digits \o Repeat(fill, a) \o prefix \o Repeat(fill, b) \o Sign(inf, positive)
        \in Seq(Char)
  BY <1>5, SignType, ConcatFacts
<1> QED
  BY <1>6 DEF prefix

Padded(inf) == inf.alignment \in {"LEFT", "CENTER"}

LEMMA ItoaFits ==
  ASSUME NEW room \in Rooms, NEW val \in Nat, NEW base \in {2, 8, 10, 16},
         NEW inf \in Infos, NEW positive \in BOOLEAN
  PROVE  Fits(room, itoa(room, val, base, inf, positive), Padded(inf))
<1> DEFINE
      digits == Digits(val, base)
      short  == Len(digits) >= room
      count  == PaddingCount(Len(digits), base, inf, positive)
      place  == PaddingPlace(inf, count)
      fill   == PaddingChar(inf, IF inf.zero_padding THEN "0" ELSE " ")
      body   == digits \o Repeat(fill, Least(place.after_prefix, room))
                \o (IF inf.alternate_form THEN BasePrefix(base) ELSE <<>>)
                \o Repeat(fill, Least(place.after_sign, room))
                \o Sign(inf, positive)
      full   == Len(body) >= room
      front  == IF full THEN SubSeq(body, 1, room)
                        ELSE body \o Repeat(fill, Least(place.left,
                                                        room - Len(body)))
      rest   == room - Len(front)
      due    == IF short THEN 0 ELSE place.right
      right  == padding(rest, due)
      e      == IF full THEN TRUNCATED ELSE "OK"
      piece  == Piece(e, Reverse(front) \o Repeat(fill, Least(right, rest)),
                      (rest - right) % RegWrap, Len(front) + right)
      number == itoa(room, val, base, inf, positive)
<1> SUFFICES Fits(room, number, Padded(inf))
  OBVIOUS
<1>1. room \in Nat
  BY WrapFacts DEF Rooms
<1>2. number = IF room = 0 THEN Piece(TRUNCATED, <<>>, 0, 0) ELSE piece
  BY DEF itoa
<1> HIDE DEF number
<1>3. CASE room = 0
  <2>1. /\ number.text = <<>> /\ number.wrote = 0 /\ number.ret = TRUNCATED
    BY <1>2, <1>3 DEF Piece
  <2> QED
    BY <1>3, <2>1, ShortTexts DEF Fits, TRUNCATED
<1>4. CASE room # 0
  <2>1. digits \in Seq(Char) /\ Len(digits) \in Nat
    BY DigitsFacts
  <2> HIDE DEF digits
  <2>2. count \in 0 .. (RegWrap - 1)
    BY <2>1, PaddingCountType
  <2> HIDE DEF count
  <2>3. /\ place.left \in Nat /\ place.right \in Nat
        /\ place.after_sign \in Nat /\ place.after_prefix \in Nat
        /\ place.right > 0 => inf.alignment \in {"LEFT", "CENTER"}
        /\ inf.alignment = "LEFT" => place.left = 0
        /\ inf.alignment = "CENTER" => place.right <= RegWrap \div 2
    BY <2>2, PaddingPlaceFacts
  <2> HIDE DEF place
  <2>4. (IF inf.zero_padding THEN "0" ELSE " ") \in Char
    BY CharFacts
  <2>5. fill \in Char
    BY <2>4, FillType
  <2> HIDE DEF fill
  <2>6. Least(place.after_prefix, room) \in Nat /\ Least(place.after_sign, room) \in Nat
    BY <1>1, <2>3 DEF Least
  <2>7. body \in Seq(Char)
    BY <2>1, <2>5, <2>6, BodyType
  <2> HIDE DEF body
  <2>8. /\ front \in Seq(Char) /\ Len(front) <= room
        /\ ~full /\ place.left = 0 => Len(front) < room
    BY <1>1, <2>3, <2>5, <2>7, FrontFacts
  <2>9. Len(front) \in Nat
    BY <2>8, LenProperties
  <2>10. due \in Nat /\ (due > 0 => Padded(inf))
    BY <2>3 DEF Padded
  <2>11. e = "OK" => ~full
    BY DEF TRUNCATED
  <2> HIDE DEF full, front
  <2>12. ASSUME e = "OK", Len(front) = room
         PROVE  due <= RegWrap \div 2
    <3>1. place.left # 0
      BY <1>1, <2>8, <2>11, <2>12
    <3>2. place.right = 0 \/ inf.alignment = "CENTER"
      BY <2>3, <3>1
    <3>3. 0 <= RegWrap \div 2
      BY WrapFacts
    <3> QED
      BY <2>3, <3>2, <3>3
  <2> HIDE DEF e, due
  <2>13. Padded(inf) \in BOOLEAN
    BY DEF Padded
  <2>14. Fits(room, piece, Padded(inf))
    BY <1>4, <2>5, <2>8, <2>10, <2>12, <2>13, TurnedFits
  <2> QED
    BY <1>2, <1>4, <2>14
<1> QED
  BY <1>3, <1>4

LEMMA SitoaFits ==
  ASSUME NEW room \in Rooms, NEW val \in 0 .. (RegWrap - 1), NEW inf \in Infos
  PROVE  Fits(room, sitoa(room, val, 10, inf), Padded(inf))
<1> DEFINE positive == val < RegWrap \div 2
           size == IF positive THEN val ELSE RegWrap - val
<1>1. size \in Nat
  BY WrapFacts
<1>2. positive \in BOOLEAN
  OBVIOUS
<1>3. sitoa(room, val, 10, inf) = itoa(room, size, 10, inf, positive)
  BY DEF sitoa
<1> HIDE DEF size, positive
<1> QED
  BY <1>1, <1>2, <1>3, ItoaFits

-----------------------------------------------------------------------------
(* Strings never leave the room.                                             *)

LEMMA PreciseType ==
  ASSUME NEW inf \in Infos, NEW str \in Seq(Char)
  PROVE  Precise(inf, str) \in Seq(Char) /\ Len(Precise(inf, str)) \in Nat
<1>1. Len(str) \in Nat /\ inf.precise \in Nat
  BY LenProperties DEF Infos
<1>2. Least(Len(str), inf.precise) \in 0 .. Len(str)
  BY <1>1 DEF Least
<1>3. Precise(inf, str) \in Seq(Char)
  BY <1>2, PrefixFacts DEF Precise
<1> QED
  BY <1>3, LenProperties

LEMMA StringPlaceFacts ==
  ASSUME NEW inf, NEW count \in Nat
  PROVE  /\ StringPaddingPlace(inf, count).left \in Nat
         /\ StringPaddingPlace(inf, count).right \in Nat
<1>1. count \div 2 \in Nat /\ count - count \div 2 \in Nat
  OBVIOUS
<1> QED
  BY <1>1 DEF StringPaddingPlace

\* The first bytes of a text, as many as there is room for.
LEMMA CutFits ==
  ASSUME NEW room \in Rooms, NEW whole \in Seq(Char), NEW e
  PROVE  LET bytes == SubSeq(whole, 1, Least(Len(whole), room))
         IN Fits(room, Piece(e, bytes, room - Len(bytes), Len(bytes)), FALSE)
<1> DEFINE bytes == SubSeq(whole, 1, Least(Len(whole), room))
           piece == Piece(e, bytes, room - Len(bytes), Len(bytes))
<1> SUFFICES Fits(room, piece, FALSE)
  OBVIOUS
<1>1. room \in Nat /\ Len(whole) \in Nat
  BY WrapFacts, LenProperties DEF Rooms
<1>2. Least(Len(whole), room) \in 0 .. Len(whole) /\ Least(Len(whole), room) <= room
  BY <1>1 DEF Least
<1>3. bytes \in Seq(Char) /\ Len(bytes) \in Nat /\ Len(bytes) <= room
  BY <1>2, PrefixFacts
<1> HIDE DEF bytes
<1>4. /\ piece.text = bytes /\ piece.wrote = Len(bytes)
      /\ piece.remaining = room - Len(bytes)
  BY DEF Piece
<1> HIDE DEF piece
<1>5. Len(bytes) \in 0 .. (RegWrap - 1) /\ room - (room - Len(bytes)) = Len(bytes)
  BY <1>1, <1>3, WrapFacts DEF Rooms
<1>6. Len(bytes) % RegWrap = Len(bytes)
  BY <1>5, ModCases, WrapFacts
<1>7. Counted(room, piece) = Len(bytes)
  BY <1>4, <1>5, <1>6 DEF Counted
<1>8. ~(Len(bytes) > room)
  BY <1>1, <1>3
<1> QED
  BY <1>3, <1>4, <1>7, <1>8 DEF Fits

LEMMA StringFits ==
  ASSUME NEW room \in Rooms, NEW str \in Seq(Char), NEW inf \in Infos
  PROVE  Fits(room, stringtoa(room, str, inf), FALSE)
<1> DEFINE shown == Precise(inf, str)
           count == Most(inf.min_width, Len(shown)) - Len(shown)
           place == StringPaddingPlace(inf, count)
           fill  == PaddingChar(inf, " ")
           whole == Repeat(fill, place.left) \o shown \o Repeat(fill, place.right)
           e == IF Len(whole) >= room THEN TRUNCATED ELSE "OK"
           bytes == SubSeq(whole, 1, Least(Len(whole), room))
<1>1. stringtoa(room, str, inf) = Piece(e, bytes, room - Len(bytes), Len(bytes))
  BY DEF stringtoa
<1>2. shown \in Seq(Char) /\ Len(shown) \in Nat
  BY PreciseType
<1> HIDE DEF shown
<1>3. count \in Nat
  <2>1. inf.min_width \in Nat
    BY DEF Infos
  <2> QED
    BY <1>2, <2>1 DEF Most
<1> HIDE DEF count
<1>4. place.left \in Nat /\ place.right \in Nat
  BY <1>3, StringPlaceFacts
<1> HIDE DEF place
<1>5. fill \in Char
  BY CharFacts, FillType
<1> HIDE DEF fill
<1>6. Repeat(fill, place.left) \in Seq(Char) /\ Repeat(fill, place.right) \in Seq(Char)
  BY <1>4, <1>5, RepeatFacts
<1>7. Repeat(fill, place.left) \o shown \in Seq(Char)
  BY <1>2, <1>6, ConcatFacts
<1>8. whole \in Seq(Char)
  BY <1>6, <1>7, ConcatFacts
<1> HIDE DEF whole, e
<1>9. Fits(room, Piece(e, bytes, room - Len(bytes), Len(bytes)), FALSE)
  BY <1>8, CutFits
<1> QED
  BY <1>1, <1>9

\* An argument fits, but for a number that is padded on its right.
LEMMA ArgumentFits ==
  ASSUME NEW room \in Rooms, NEW inf \in Infos, NEW arg \in Registers,
         inf.type # "NONE"
  PROVE  Fits(room, gen_str(room, inf, arg), inf.type # "STRING" /\ Padded(inf))
<1> DEFINE number == gen_str(room, inf, arg)
           over == inf.type # "STRING" /\ Padded(inf)
<1>1. /\ arg.num \in Nat /\ arg.num \in 0 .. (RegWrap - 1) /\ arg.str \in Seq(Char)
      /\ TRUE \in BOOLEAN
  BY DEF Registers
<1>2. CASE inf.type = "BIN"
  <2>1. number = itoa(room, arg.num, 2, inf, TRUE)
    BY <1>2 DEF gen_str
  <2>2. over = Padded(inf)
    BY <1>2 DEF Padded
  <2> QED
    BY <1>1, <2>1, <2>2, ItoaFits
<1>3. CASE inf.type = "DEC"
  <2>1. number = sitoa(room, arg.num, 10, inf)
    BY <1>3 DEF gen_str
  <2>2. over = Padded(inf)
    BY <1>3 DEF Padded
  <2> QED
    BY <1>1, <2>1, <2>2, SitoaFits
<1>4. CASE inf.type = "OCTAL"
  <2>1. number = itoa(room, arg.num, 8, inf, TRUE)
    BY <1>4 DEF gen_str
  <2>2. over = Padded(inf)
    BY <1>4 DEF Padded
  <2> QED
    BY <1>1, <2>1, <2>2, ItoaFits
<1>5. CASE inf.type = "LOW_HEX"
  <2>1. number = itoa(room, arg.num, 16, inf, TRUE)
    BY <1>5 DEF gen_str
  <2>2. over = Padded(inf)
    BY <1>5 DEF Padded
  <2> QED
    BY <1>1, <2>1, <2>2, ItoaFits
<1>6. CASE inf.type = "STRING"
  <2>1. over = FALSE
    BY <1>6
  <2>2. CASE arg.num = 0
    <3>1. number = Piece("STRING_MISSING_ARGUMENT", <<>>, room, 0)
      BY <1>6, <2>2 DEF gen_str
    <3>2. /\ number.text = <<>> /\ number.wrote = 0
          /\ number.ret = "STRING_MISSING_ARGUMENT"
      BY <3>1 DEF Piece
    <3>3. ~(0 > room)
      BY WrapFacts DEF Rooms
    <3> HIDE DEF number
    <3>4. Fits(room, number, FALSE)
      BY <3>2, <3>3, ShortTexts DEF Fits
    <3> QED
      BY <2>1, <3>4 DEF number
  <2>3. CASE arg.num # 0
    <3>1. number = stringtoa(room, arg.str, inf)
      BY <1>6, <2>3 DEF gen_str
    <3> QED
      BY <1>1, <2>1, <3>1, StringFits
  <2> QED
    BY <2>2, <2>3
<1> QED
  BY <1>2, <1>3, <1>4, <1>5, <1>6 DEF Infos

-----------------------------------------------------------------------------
(* The inductive invariant.                                                  *)

CallInv ==
  /\ call.format \in Seq(Char)
  /\ call.args \in Seq(Registers) /\ Len(call.args) = MAX_ARG_CNT
  /\ call.size \in 1 .. (RegWrap \div 2)

\* The parser is in the format, and behind the start of a placeholder it reads.
ParserInv ==
  /\ info \in Infos
  /\ fmt \in Nat /\ idx \in Nat /\ stage \in Nat /\ literal_len \in Nat
  /\ pc \in {"scan", "copy"} =>
       fmt + idx <= Len(call.format) /\ literal_len <= idx
  /\ pc = "scan" =>
       /\ stage # STAGE_START => idx # 0
       /\ Reading(call.format, fmt + idx, stage, info)
  /\ pc = "argument" => fmt <= Len(call.format) /\ info.type # "NONE"

\* The text and the room after it are the buffer, but for the terminator's byte;
\* once more was written the call is over.
OutputInv ==
  /\ text \in Seq(Char) /\ remaining \in Nat
  /\ Len(text) + remaining = call.size - 1
  /\ wrote \in Nat /\ asserts \in BOOLEAN
  /\ arg_idx \in 0 .. MAX_ARG_CNT /\ r \in 0 .. call.size
  /\ wrote > call.size \/ ~asserts =>
       /\ pc \in {"terminate", "done"}
       /\ info.type # "STRING" /\ Padded(info)

IInv == CallInv /\ ParserInv /\ OutputInv

LEMMA RequestType ==
  ASSUME NEW q \in Requests, NEW f \in q.formats, NEW a \in q.args, NEW n \in q.sizes
  PROVE  /\ f.format \in Seq(Char)
         /\ a \in Seq(Registers) /\ Len(a) = MAX_ARG_CNT
         /\ n \in 1 .. (RegWrap \div 2)
  BY SnprintAssumption

LEMMA InitIInv == Init => IInv
<1> SUFFICES ASSUME Init PROVE IInv
  OBVIOUS
<1>1. PICK q \in Requests : \E f \in q.formats, a \in q.args, n \in q.sizes :
        call = [format |-> f.format, pieces |-> f.pieces, args |-> a, size |-> n]
  BY DEF Init
<1>2. PICK f \in q.formats, a \in q.args, n \in q.sizes :
        call = [format |-> f.format, pieces |-> f.pieces, args |-> a, size |-> n]
  BY <1>1
<1>3. call.format = f.format /\ call.args = a /\ call.size = n
  BY <1>2
<1>4. CallInv
  BY <1>3, RequestType DEF CallInv
<1>5. /\ fmt = 0 /\ idx = 0 /\ stage = STAGE_START /\ info = NoInfo
      /\ literal_len = 0 /\ pc \in {"scan", "terminate"}
  BY DEF Init
<1>6. Reading(call.format, fmt + idx, stage, info)
  BY <1>5, NoInfoFacts, NoNumberReads
<1>7. Len(call.format) \in Nat
  BY <1>4, LenProperties DEF CallInv
<1>8. ParserInv
  BY <1>5, <1>6, <1>7, NoInfoFacts DEF ParserInv, STAGE_START
<1>9. /\ text = <<>> /\ remaining = call.size - 1 /\ wrote = 0 /\ arg_idx = 0
      /\ r = call.size /\ asserts = TRUE
  BY DEF Init
<1>10. call.size \in Nat \ {0} /\ MAX_ARG_CNT \in Nat
  <2>1. MAX_ARG_CNT \in Nat
    BY SnprintAssumption
  <2>2. call.size \in Nat \ {0}
    BY <1>4, WrapFacts DEF CallInv
  <2> QED
    BY <2>1, <2>2
<1>11. text \in Seq(Char) /\ Len(text) = 0
  BY <1>9, ShortTexts, EmptySeq
<1>12. OutputInv
  BY <1>9, <1>10, <1>11 DEF OutputInv
<1> QED
  BY <1>4, <1>8, <1>12 DEF IInv

-----------------------------------------------------------------------------
(* The steps of the parser.                                                  *)

\* What the parser is at: a character of the format, which its stage checks.
LEMMA HereFacts ==
  ASSUME IInv, pc = "scan"
  PROVE  /\ ~AtEnd => fmt + idx < Len(call.format)
         /\ Sound(call.format, fmt + idx, stage, info, Here)
         /\ Len(call.format) \in Nat
<1>1. /\ call.format \in Seq(Char) /\ Len(call.format) \in Nat
      /\ fmt + idx \in Nat /\ stage \in Nat /\ info \in Infos
      /\ stage # STAGE_START => fmt + idx # 0
      /\ Reading(call.format, fmt + idx, stage, info)
  BY LenProperties DEF IInv, CallInv, ParserInv
<1>2. ~AtEnd => fmt + idx < Len(call.format)
  BY <1>1 DEF AtEnd, At
<1>3. Sound(call.format, fmt + idx, stage, info, Here)
  BY <1>1, TokenSound DEF Here
<1> QED
  BY <1>1, <1>2, <1>3

\* A step that leaves the output alone, and does not end the call if there is
\* no overrun.
LEMMA OutputStays ==
  ASSUME IInv, UNCHANGED <<call, text, remaining, wrote, arg_idx, r, asserts>>,
         pc \in {"scan", "copy", "argument"}
  PROVE  CallInv' /\ OutputInv'
<1>1. CallInv'
  BY DEF IInv, CallInv
<1>2. ~(wrote > call.size \/ ~asserts)
  BY DEF IInv, OutputInv
<1>3. OutputInv'
  BY <1>2 DEF IInv, OutputInv
<1> QED
  BY <1>1, <1>3

LEMMA PassCharacterIInv == IInv /\ PassCharacter => IInv'
<1> SUFFICES ASSUME IInv, PassCharacter PROVE IInv'
  OBVIOUS
<1>1. /\ pc = "scan" /\ ~AtEnd /\ Here.ret = "NEXT_CHAR"
      /\ idx' = idx + 1 /\ info' = Here.info
      /\ UNCHANGED <<call, fmt, stage, literal_len, text, remaining, wrote,
                     arg_idx, r, asserts, pc>>
  BY DEF PassCharacter, output
<1>2. CallInv' /\ OutputInv'
  BY <1>1, OutputStays
<1>3. /\ fmt + idx < Len(call.format) /\ Len(call.format) \in Nat
      /\ info' \in Infos
      /\ Reading(call.format, (fmt + idx) + 1, stage, info')
  BY <1>1, HereFacts DEF Sound
<1>4. /\ fmt \in Nat /\ idx \in Nat /\ stage \in Nat /\ literal_len \in Nat
      /\ literal_len <= idx
  BY <1>1 DEF IInv, ParserInv
<1>5. fmt' + idx' = (fmt + idx) + 1 /\ idx' \in Nat \ {0} /\ literal_len <= idx'
      /\ fmt' + idx' <= Len(call.format)
  BY <1>1, <1>3, <1>4
<1>6. Reading(call'.format, fmt' + idx', stage', info')
  BY <1>1, <1>3, <1>5
<1>7. ParserInv'
  BY <1>1, <1>3, <1>4, <1>5, <1>6 DEF ParserInv
<1> QED
  BY <1>2, <1>7 DEF IInv

LEMMA PassStageIInv == IInv /\ PassStage => IInv'
<1> SUFFICES ASSUME IInv, PassStage PROVE IInv'
  OBVIOUS
<1>1. /\ pc = "scan" /\ ~AtEnd /\ Here.ret = "NEXT_STAGE"
      /\ stage' = stage + 1
      /\ UNCHANGED <<call, fmt, idx, info, literal_len, text, remaining, wrote,
                     arg_idx, r, asserts, pc>>
  BY DEF PassStage, output
<1>2. CallInv' /\ OutputInv'
  BY <1>1, OutputStays
<1>3. NoNumber(info) /\ stage # STAGE_START
  BY <1>1, HereFacts DEF Sound
<1>4. Reading(call'.format, fmt' + idx', stage', info')
  BY <1>1, <1>3, NoNumberReads
<1>5. stage' \in Nat /\ idx # 0
  BY <1>1, <1>3 DEF IInv, ParserInv
<1>6. ParserInv'
  BY <1>1, <1>4, <1>5 DEF IInv, ParserInv
<1> QED
  BY <1>2, <1>6 DEF IInv

LEMMA FindTokenIInv == IInv /\ FindToken => IInv'
<1> SUFFICES ASSUME IInv, FindToken PROVE IInv'
  OBVIOUS
<1>1. /\ pc = "scan" /\ ~AtEnd /\ Here.ret = "FOUND"
      /\ idx' = idx + 1 /\ stage' = stage + 1 /\ info' = Here.info
      /\ literal_len' = IF stage = STAGE_START THEN idx ELSE literal_len
      /\ UNCHANGED <<call, fmt, text, remaining, wrote, arg_idx, r, asserts, pc>>
  BY DEF FindToken, output
<1>2. CallInv' /\ OutputInv'
  BY <1>1, OutputStays
<1>3. /\ fmt + idx < Len(call.format) /\ Len(call.format) \in Nat
      /\ info' \in Infos /\ NoNumber(info')
  BY <1>1, HereFacts DEF Sound
<1>4. Reading(call'.format, fmt' + idx', stage', info')
  BY <1>3, NoNumberReads
<1>5. /\ fmt \in Nat /\ idx \in Nat /\ stage \in Nat /\ literal_len \in Nat
      /\ literal_len <= idx
  BY <1>1 DEF IInv, ParserInv
<1>6. /\ idx' \in Nat \ {0} /\ stage' \in Nat /\ literal_len' \in Nat
      /\ literal_len' <= idx' /\ fmt' + idx' <= Len(call.format)
  BY <1>1, <1>3, <1>5
<1>7. ParserInv'
  BY <1>1, <1>3, <1>4, <1>5, <1>6 DEF ParserInv
<1> QED
  BY <1>2, <1>7 DEF IInv

LEMMA FindStopIInv == IInv /\ FindStop => IInv'
<1> SUFFICES ASSUME IInv, FindStop PROVE IInv'
  OBVIOUS
<1>1. /\ pc = "scan" /\ ~AtEnd /\ idx' = idx + 1 /\ pc' = "copy"
      /\ UNCHANGED <<call, fmt, stage, info, literal_len, text, remaining, wrote,
                     arg_idx, r, asserts>>
  BY DEF FindStop, output
<1>2. CallInv' /\ OutputInv'
  BY <1>1, OutputStays
<1>3. fmt + idx < Len(call.format) /\ Len(call.format) \in Nat
  BY <1>1, HereFacts
<1>4. /\ fmt \in Nat /\ idx \in Nat /\ literal_len \in Nat /\ literal_len <= idx
  BY <1>1 DEF IInv, ParserInv
<1>5. idx' \in Nat /\ literal_len' <= idx' /\ fmt' + idx' <= Len(call'.format)
  BY <1>1, <1>3, <1>4
<1>6. ParserInv'
  BY <1>1, <1>5 DEF IInv, ParserInv
<1> QED
  BY <1>2, <1>6 DEF IInv

LEMMA FindErrorIInv == IInv /\ FindError => IInv'
<1> SUFFICES ASSUME IInv, FindError PROVE IInv'
  OBVIOUS
<1>1. /\ pc = "scan" /\ pc' = "terminate"
      /\ UNCHANGED <<call, fmt, idx, stage, info, literal_len, text, remaining,
                     wrote, arg_idx, r, asserts>>
  BY DEF FindError, Fail, output, scanner
<1>2. CallInv' /\ OutputInv'
  BY <1>1, OutputStays
<1>3. ParserInv'
  BY <1>1 DEF IInv, ParserInv
<1> QED
  BY <1>2, <1>3 DEF IInv

LEMMA FindEndIInv == IInv /\ FindEnd => IInv'
<1> SUFFICES ASSUME IInv, FindEnd PROVE IInv'
  OBVIOUS
<1>1. /\ pc = "scan" /\ pc' = "copy"
      /\ literal_len' = IF stage = STAGE_START THEN idx ELSE literal_len
      /\ UNCHANGED <<call, fmt, idx, stage, info, text, remaining, wrote,
                     arg_idx, r, asserts>>
  BY DEF FindEnd, output
<1>2. CallInv' /\ OutputInv'
  BY <1>1, OutputStays
<1>3. idx \in Nat /\ literal_len \in Nat /\ literal_len <= idx
  BY <1>1 DEF IInv, ParserInv
<1>4. literal_len' \in Nat /\ literal_len' <= idx
  BY <1>1, <1>3
<1>5. ParserInv'
  BY <1>1, <1>4 DEF IInv, ParserInv
<1> QED
  BY <1>2, <1>5 DEF IInv

-----------------------------------------------------------------------------
(* The steps that write.                                                     *)

\* What the buffer has room for, before a step of a call that is going on.
LEMMA BufferFacts ==
  ASSUME IInv
  PROVE  /\ call.size \in Nat \ {0} /\ Len(text) \in Nat /\ remaining \in Rooms
         /\ remaining \in Nat /\ Len(text) + remaining = call.size - 1
         /\ wrote \in Nat
         /\ pc \notin {"terminate", "done"} => wrote <= call.size /\ asserts
<1>1. call.size \in 1 .. (RegWrap \div 2) /\ text \in Seq(Char) /\ remaining \in Nat
      /\ Len(text) + remaining = call.size - 1 /\ wrote \in Nat
  BY DEF IInv, CallInv, OutputInv
<1>2. Len(text) \in Nat
  BY <1>1, LenProperties
<1>3. remaining \in Rooms /\ call.size \in Nat \ {0}
  BY <1>1, <1>2, WrapFacts DEF Rooms
<1>4. pc \notin {"terminate", "done"} => wrote <= call.size /\ asserts
  BY <1>1, <1>3 DEF IInv, OutputInv
<1> QED
  BY <1>1, <1>2, <1>3, <1>4

LEMMA MostFits ==
  ASSUME NEW a \in Nat, NEW b \in Nat, NEW c \in Nat
  PROVE  /\ Most(a, b) \in Nat
         /\ Most(a, b) > c => a > c \/ b > c
  BY DEF Most

LEMMA CutLiteralIInv == IInv /\ CutLiteral => IInv'
<1> SUFFICES ASSUME IInv, CutLiteral PROVE IInv'
  OBVIOUS
<1>1. /\ pc = "copy" /\ pc' = "terminate"
      /\ wrote' = Most(wrote, Len(text) + remaining)
      /\ UNCHANGED <<call, fmt, idx, stage, info, literal_len, text, remaining,
                     arg_idx, r, asserts>>
  BY DEF CutLiteral, Fail, scanner
<1>2. CallInv' /\ ParserInv'
  BY <1>1 DEF IInv, CallInv, ParserInv
<1>3. wrote' \in Nat /\ ~(wrote' > call.size) /\ asserts
  <2>1. Len(text) + remaining \in Nat /\ ~(Len(text) + remaining > call.size)
        /\ ~(wrote > call.size) /\ asserts
    BY <1>1, BufferFacts
  <2> QED
    BY <1>1, <2>1, MostFits, BufferFacts
<1>4. OutputInv'
  BY <1>1, <1>3 DEF IInv, OutputInv
<1> QED
  BY <1>2, <1>4 DEF IInv

\* The scanner is put back to where it starts.
LEMMA AnewFacts ==
  ASSUME IInv, ScanAnew, call' = call, fmt' \in Nat, fmt' <= Len(call.format),
         pc' \in {"scan", "terminate"}
  PROVE  ParserInv'
<1>1. /\ idx' = 0 /\ stage' = STAGE_START /\ info' = NoInfo /\ literal_len' = 0
  BY DEF ScanAnew
<1>2. Reading(call'.format, fmt' + idx', stage', info')
  BY <1>1, NoInfoFacts, NoNumberReads
<1>3. fmt' + idx' <= Len(call'.format)
  <2>1. \A n, m \in Nat : m = 0 => n + m = n
    OBVIOUS
  <2> QED
    BY <1>1, <2>1
<1> QED
  BY <1>1, <1>2, <1>3, NoInfoFacts DEF ParserInv, STAGE_START

\* The literal, and the room that leaves.
LEMMA LiteralFacts ==
  ASSUME IInv, pc = "copy", literal_len <= remaining
  PROVE  LET next == text \o SubSeq(call.format, fmt + 1, fmt + literal_len)
         IN /\ next \in Seq(Char) /\ Len(next) = Len(text) + literal_len
            /\ Len(next) \in Nat /\ Len(next) <= call.size
            /\ remaining - literal_len \in Nat
            /\ Len(next) + (remaining - literal_len) = call.size - 1
            /\ fmt + idx \in Nat /\ fmt + idx <= Len(call.format)
<1> DEFINE lit == SubSeq(call.format, fmt + 1, fmt + literal_len)
<1>1. /\ call.format \in Seq(Char) /\ text \in Seq(Char)
      /\ fmt \in Nat /\ idx \in Nat /\ literal_len \in Nat /\ literal_len <= idx
      /\ fmt + idx <= Len(call.format)
  BY DEF IInv, CallInv, ParserInv, OutputInv
<1>2. Len(call.format) \in Nat
  BY <1>1, LenProperties
<1>3. \A i \in fmt + 1 .. fmt + literal_len : i \in 1 .. Len(call.format)
  BY <1>1, <1>2
<1>4. \A i \in fmt + 1 .. fmt + literal_len : call.format[i] \in Char
  BY <1>1, <1>3, ElementOfSeq
<1>5. /\ lit \in Seq(Char)
      /\ Len(lit) = IF fmt + 1 <= fmt + literal_len
                      THEN (fmt + literal_len) - (fmt + 1) + 1 ELSE 0
  <2>1. fmt + 1 \in Int /\ fmt + literal_len \in Int
    BY <1>1
  <2> QED
    BY <1>1, <1>3, <1>4, <2>1, SubSeqProperties
<1> HIDE DEF lit
<1>6. Len(lit) = literal_len
  BY <1>1, <1>5
<1>7. text \o lit \in Seq(Char) /\ Len(text \o lit) = Len(text) + literal_len
  BY <1>1, <1>5, <1>6, ConcatFacts
<1>8. /\ Len(text) + literal_len \in Nat /\ Len(text) + literal_len <= call.size
      /\ remaining - literal_len \in Nat
      /\ (Len(text) + literal_len) + (remaining - literal_len) = call.size - 1
  BY <1>1, BufferFacts
<1> QED
  BY <1>1, <1>7, <1>8 DEF lit

LEMMA CopyLiteralIInv == IInv /\ CopyLiteral => IInv'
<1> SUFFICES ASSUME IInv, CopyLiteral PROVE IInv'
  OBVIOUS
<1>1. /\ pc = "copy" /\ literal_len <= remaining /\ fmt' = fmt + idx
      /\ text' = text \o SubSeq(call.format, fmt + 1, fmt + literal_len)
      /\ wrote' = Most(wrote, Len(text')) /\ remaining' = remaining - literal_len
      /\ UNCHANGED <<call, arg_idx, r, asserts>>
  BY DEF CopyLiteral
<1>2. \/ /\ info.type # "NONE" /\ pc' = "argument"
         /\ UNCHANGED <<idx, stage, info, literal_len>>
      \/ ScanAnew /\ pc' \in {"scan", "terminate"}
  BY DEF CopyLiteral, Again
<1>3. /\ text' \in Seq(Char) /\ Len(text') \in Nat /\ Len(text') <= call.size
      /\ remaining' \in Nat /\ Len(text') + remaining' = call.size - 1
      /\ fmt' \in Nat /\ fmt' <= Len(call.format)
  BY <1>1, LiteralFacts
<1>4. CallInv'
  BY <1>1 DEF IInv, CallInv
<1>5. ParserInv'
  <2>1. CASE info.type # "NONE" /\ pc' = "argument"
             /\ UNCHANGED <<idx, stage, info, literal_len>>
    BY <1>1, <1>3, <2>1 DEF IInv, ParserInv
  <2>2. CASE ScanAnew /\ pc' \in {"scan", "terminate"}
    BY <1>1, <1>3, <2>2, AnewFacts
  <2> QED
    BY <1>2, <2>1, <2>2
<1>6. wrote' \in Nat /\ ~(wrote' > call.size) /\ asserts
  <2>1. ~(Len(text') > call.size) /\ ~(wrote > call.size) /\ asserts
        /\ wrote \in Nat /\ call.size \in Nat
    BY <1>1, <1>3, BufferFacts
  <2> QED
    BY <1>1, <1>3, <2>1, MostFits
<1>7. OutputInv'
  BY <1>1, <1>3, <1>6 DEF IInv, OutputInv
<1> QED
  BY <1>4, <1>5, <1>7 DEF IInv

LEMMA MissArgumentIInv == IInv /\ MissArgument => IInv'
<1> SUFFICES ASSUME IInv, MissArgument PROVE IInv'
  OBVIOUS
<1>1. /\ pc = "argument" /\ pc' = "terminate"
      /\ UNCHANGED <<call, fmt, idx, stage, info, literal_len, text, remaining,
                     wrote, arg_idx, r, asserts>>
  BY DEF MissArgument, Fail, output, scanner
<1>2. CallInv' /\ OutputInv'
  BY <1>1, OutputStays
<1>3. ParserInv'
  BY <1>1 DEF IInv, ParserInv
<1> QED
  BY <1>2, <1>3 DEF IInv

\* The output for the argument fits the room, but for some numbers.
LEMMA OutputFits ==
  ASSUME IInv, pc = "argument", arg_idx < MAX_ARG_CNT
  PROVE  /\ Fits(remaining, Output, info.type # "STRING" /\ Padded(info))
         /\ Counted(remaining, Output) = Consumed
<1>1. /\ call.args \in Seq(Registers) /\ Len(call.args) = MAX_ARG_CNT
      /\ arg_idx \in 0 .. MAX_ARG_CNT /\ MAX_ARG_CNT \in Nat
  BY SnprintAssumption DEF IInv, CallInv, OutputInv
<1>2. arg_idx + 1 \in 1 .. Len(call.args)
  BY <1>1
<1>3. call.args[arg_idx + 1] \in Registers
  BY <1>1, <1>2, ElementOfSeq
<1>4. info \in Infos /\ info.type # "NONE" /\ remaining \in Rooms
  BY BufferFacts DEF IInv, ParserInv
<1>5. Fits(remaining, Output, info.type # "STRING" /\ Padded(info))
  BY <1>3, <1>4, ArgumentFits DEF Output
<1> QED
  BY <1>5 DEF Counted, Consumed

\* The highest byte written, with a piece of output.
LEMMA WroteFacts ==
  ASSUME IInv, pc = "argument", arg_idx < MAX_ARG_CNT
  PROVE  LET high == Most(wrote, Len(text) + Output.wrote)
         IN /\ high \in Nat
            /\ high > call.size => info.type # "STRING" /\ Padded(info)
            /\ Output.wrote <= remaining => high <= call.size
<1> DEFINE bytes == Output.wrote
<1>1. /\ bytes \in Nat
      /\ bytes > remaining => info.type # "STRING" /\ Padded(info)
  BY OutputFits DEF Fits
<1> HIDE DEF bytes
<1>2. Len(text) + bytes \in Nat
  BY <1>1, BufferFacts
<1>3. bytes <= remaining => Len(text) + bytes <= call.size
  BY <1>1, BufferFacts
<1>4. wrote \in Nat /\ wrote <= call.size /\ call.size \in Nat
  BY BufferFacts
<1>5. /\ Most(wrote, Len(text) + bytes) \in Nat
      /\ bytes <= remaining => Most(wrote, Len(text) + bytes) <= call.size
  BY <1>2, <1>3, <1>4 DEF Most
<1>6. Most(wrote, Len(text) + bytes) > call.size => bytes > remaining
  BY <1>1, <1>4, <1>5, BufferFacts
<1> QED
  BY <1>1, <1>5, <1>6 DEF bytes

LEMMA FailArgumentIInv == IInv /\ FailArgument => IInv'
<1> SUFFICES ASSUME IInv, FailArgument PROVE IInv'
  OBVIOUS
<1>1. /\ pc = "argument" /\ arg_idx < MAX_ARG_CNT /\ pc' = "terminate"
      /\ wrote' = Most(wrote, Len(text) + Output.wrote)
      /\ UNCHANGED <<call, fmt, idx, stage, info, literal_len, text, remaining,
                     arg_idx, r, asserts>>
  BY DEF FailArgument, Fail, scanner
<1>2. CallInv' /\ ParserInv'
  BY <1>1 DEF IInv, CallInv, ParserInv
<1>3. /\ wrote' \in Nat /\ asserts
      /\ wrote' > call.size => info.type # "STRING" /\ Padded(info)
  BY <1>1, WroteFacts, BufferFacts
<1>4. Padded(info)' = Padded(info)
  BY <1>1 DEF Padded
<1>5. OutputInv'
  BY <1>1, <1>3, <1>4 DEF IInv, OutputInv
<1> QED
  BY <1>2, <1>5 DEF IInv

LEMMA PutArgumentIInv == IInv /\ PutArgument => IInv'
<1> SUFFICES ASSUME IInv, PutArgument PROVE IInv'
  OBVIOUS
<1>1. /\ pc = "argument" /\ arg_idx < MAX_ARG_CNT /\ Output.ret = "OK"
      /\ Consumed <= remaining
      /\ text' = text \o Output.text
      /\ wrote' = Most(wrote, Len(text) + Output.wrote)
      /\ remaining' = remaining - Consumed
      /\ arg_idx' = arg_idx + 1 /\ ScanAnew
      /\ pc' \in {"scan", "terminate"}
      /\ UNCHANGED <<call, fmt, r, asserts>>
  BY DEF PutArgument, Again
<1>2. CallInv'
  BY <1>1 DEF IInv, CallInv
<1>3. fmt \in Nat /\ fmt <= Len(call.format)
  BY <1>1 DEF IInv, ParserInv
<1>4. ParserInv'
  BY <1>1, <1>3, AnewFacts
<1>5. /\ Output.text \in Seq(Char) /\ Len(Output.text) = Consumed
      /\ Consumed \in Nat /\ Output.wrote <= remaining
  BY <1>1, OutputFits DEF Fits
<1>6. text \in Seq(Char) /\ arg_idx \in 0 .. MAX_ARG_CNT /\ r \in 0 .. call.size
      /\ asserts \in BOOLEAN
  BY DEF IInv, OutputInv
<1>7. text' \in Seq(Char) /\ Len(text') = Len(text) + Consumed
  BY <1>1, <1>5, <1>6, ConcatFacts
<1>8. remaining' \in Nat /\ Len(text') + remaining' = call.size - 1
  BY <1>1, <1>5, <1>7, BufferFacts
<1>9. wrote' \in Nat /\ wrote' <= call.size /\ asserts /\ call.size \in Nat
  BY <1>1, <1>5, WroteFacts, BufferFacts
<1>10. arg_idx' \in 0 .. MAX_ARG_CNT
  <2>1. MAX_ARG_CNT \in Nat
    BY SnprintAssumption
  <2> QED
    BY <1>1, <1>6, <2>1
<1>11. ~(wrote' > call.size \/ ~asserts)
  BY <1>9
<1>12. OutputInv'
  BY <1>1, <1>6, <1>7, <1>8, <1>9, <1>10, <1>11 DEF OutputInv
<1> QED
  BY <1>2, <1>4, <1>12 DEF IInv

LEMMA FailAssertionIInv == IInv /\ FailAssertion => IInv'
<1> SUFFICES ASSUME IInv, FailAssertion PROVE IInv'
  OBVIOUS
<1>1. /\ pc = "argument" /\ arg_idx < MAX_ARG_CNT /\ pc' = "done"
      /\ Output.ret = "OK" /\ Consumed > remaining
      /\ wrote' = Most(wrote, Len(text) + Output.wrote) /\ asserts' = FALSE
      /\ UNCHANGED <<call, fmt, idx, stage, info, literal_len, text, remaining,
                     arg_idx, r>>
  BY DEF FailAssertion, scanner
<1>2. CallInv' /\ ParserInv'
  BY <1>1 DEF IInv, CallInv, ParserInv
<1>3. wrote' \in Nat /\ info.type # "STRING" /\ Padded(info)
  BY <1>1, WroteFacts, OutputFits DEF Fits
<1>4. Padded(info)' = Padded(info)
  BY <1>1 DEF Padded
<1>5. OutputInv'
  BY <1>1, <1>3, <1>4 DEF IInv, OutputInv
<1> QED
  BY <1>2, <1>5 DEF IInv

LEMMA TerminateIInv == IInv /\ Terminate => IInv'
<1> SUFFICES ASSUME IInv, Terminate PROVE IInv'
  OBVIOUS
<1>1. /\ pc = "terminate" /\ pc' = "done"
      /\ wrote' = Most(wrote, Len(text) + 1)
      /\ r' = IF ret # TRUNCATED THEN call.size - 1 - remaining ELSE call.size
      /\ UNCHANGED <<call, fmt, idx, stage, info, literal_len, text, remaining,
                     arg_idx, asserts>>
  BY DEF Terminate, scanner
<1>2. CallInv' /\ ParserInv'
  BY <1>1 DEF IInv, CallInv, ParserInv
<1>3. /\ Len(text) + 1 \in Nat /\ ~(Len(text) + 1 > call.size)
      /\ call.size - 1 - remaining \in 0 .. call.size /\ call.size \in 0 .. call.size
  BY BufferFacts
<1>4. r' \in 0 .. call.size
  BY <1>1, <1>3
<1>5. wrote' \in Nat /\ (wrote' > call.size => wrote > call.size)
  BY <1>1, <1>3, MostFits, BufferFacts
<1>6. Padded(info)' = Padded(info)
  BY <1>1 DEF Padded
<1>7. OutputInv'
  BY <1>1, <1>4, <1>5, <1>6 DEF IInv, OutputInv
<1> QED
  BY <1>2, <1>7 DEF IInv

LEMMA NextIInv == IInv /\ [Next]_vars => IInv'
<1> SUFFICES ASSUME IInv, [Next]_vars PROVE IInv'
  OBVIOUS
<1>1. CASE UNCHANGED vars
  <2>1. UNCHANGED <<call, fmt, idx, stage, info, literal_len, text, remaining,
                   wrote, arg_idx, r, asserts, pc>>
    BY <1>1 DEF vars
  <2>2. Padded(info)' = Padded(info)
    BY <2>1 DEF Padded
  <2> QED
    BY <2>1, <2>2 DEF IInv, CallInv, ParserInv, OutputInv
<1> QED
  BY <1>1, PassCharacterIInv, PassStageIInv, FindTokenIInv, FindStopIInv,
     FindErrorIInv, FindEndIInv, CutLiteralIInv, CopyLiteralIInv, MissArgumentIInv,
     FailArgumentIInv, PutArgumentIInv, FailAssertionIInv, TerminateIInv DEF Next

LEMMA SpecIInv == Spec => []IInv
  BY InitIInv, NextIInv, PTL DEF Spec

(* The room left is counted down to 0 and never below, whatever the format,  *)
(* the arguments and the size: only a number padded on its right is written  *)
(* past the buffer, or fails the assertion of snprint.                       *)
THEOREM SnprintStaysInside == Spec => []OnlyNumbersOverrun
<1>1. IInv => OnlyNumbersOverrun
  <2> SUFFICES ASSUME IInv PROVE OnlyNumbersOverrun
    OBVIOUS
  <2>1. remaining \in 0 .. (call.size - 1)
    BY BufferFacts
  <2>2. r \in 0 .. call.size
    BY DEF IInv, OutputInv
  <2>3. wrote > call.size \/ ~asserts =>
          info.type # "STRING" /\ info.alignment \in {"LEFT", "CENTER"}
    BY DEF IInv, OutputInv, Padded
  <2> QED
    BY <2>1, <2>2, <2>3 DEF OnlyNumbersOverrun
<1> QED
  BY <1>1, SpecIInv, PTL

-----------------------------------------------------------------------------
(* What is written in the format ahead of the parser.                        *)

\* The characters of t are those of s from i on.
Ahead(s, i, t) ==
  /\ i + Len(t) <= Len(s)
  /\ \A j \in 1 .. Len(t) : At(s, i + j - 1) = t[j]

LEMMA AheadConcat ==
  ASSUME NEW s \in Seq(Char), NEW i \in Nat, NEW a \in Seq(Char), NEW b \in Seq(Char)
  PROVE  Ahead(s, i, a \o b) <=> Ahead(s, i, a) /\ Ahead(s, i + Len(a), b)
<1>1. Len(s) \in Nat /\ Len(a) \in Nat /\ Len(b) \in Nat
  BY LenProperties
<1>2. /\ Len(a \o b) = Len(a) + Len(b)
      /\ \A j \in 1 .. Len(a) + Len(b) :
           (a \o b)[j] = IF j <= Len(a) THEN a[j] ELSE b[j - Len(a)]
  BY ConcatProperties
<1>3. ASSUME Ahead(s, i, a \o b)
      PROVE  Ahead(s, i, a) /\ Ahead(s, i + Len(a), b)
  <2>1. /\ i + (Len(a) + Len(b)) <= Len(s)
        /\ \A j \in 1 .. Len(a) + Len(b) : At(s, i + j - 1) = (a \o b)[j]
    BY <1>2, <1>3 DEF Ahead
  <2>2. \A j \in 1 .. Len(a) : j \in 1 .. Len(a) + Len(b) /\ j <= Len(a)
    BY <1>1
  <2>3. \A j \in 1 .. Len(a) : At(s, i + j - 1) = a[j]
    BY <1>2, <2>1, <2>2
  <2>4. ASSUME NEW j \in 1 .. Len(b)
        PROVE  At(s, (i + Len(a)) + j - 1) = b[j]
    <3>1. /\ Len(a) + j \in 1 .. Len(a) + Len(b) /\ ~(Len(a) + j <= Len(a))
          /\ (Len(a) + j) - Len(a) = j
          /\ i + (Len(a) + j) - 1 = (i + Len(a)) + j - 1
      BY <1>1
    <3>2. (a \o b)[Len(a) + j] = b[j]
      BY <1>2, <3>1
    <3>3. At(s, i + (Len(a) + j) - 1) = (a \o b)[Len(a) + j]
      BY <2>1, <3>1
    <3> QED
      BY <3>1, <3>2, <3>3
  <2>5. i + Len(a) <= Len(s) /\ (i + Len(a)) + Len(b) <= Len(s)
    BY <1>1, <2>1
  <2> QED
    BY <2>3, <2>4, <2>5 DEF Ahead
<1>4. ASSUME Ahead(s, i, a), Ahead(s, i + Len(a), b)
      PROVE  Ahead(s, i, a \o b)
  <2>1. /\ (i + Len(a)) + Len(b) <= Len(s)
        /\ \A j \in 1 .. Len(a) : At(s, i + j - 1) = a[j]
        /\ \A j \in 1 .. Len(b) : At(s, (i + Len(a)) + j - 1) = b[j]
    BY <1>4 DEF Ahead
  <2>2. ASSUME NEW j \in 1 .. Len(a) + Len(b)
        PROVE  At(s, i + j - 1) = (a \o b)[j]
    <3>1. CASE j <= Len(a)
      <4>1. j \in 1 .. Len(a)
        BY <1>1, <3>1
      <4> QED
        BY <1>2, <2>1, <3>1, <4>1
    <3>2. CASE ~(j <= Len(a))
      <4>1. j - Len(a) \in 1 .. Len(b) /\ (i + Len(a)) + (j - Len(a)) - 1 = i + j - 1
        BY <1>1, <3>2
      <4>2. At(s, (i + Len(a)) + (j - Len(a)) - 1) = b[j - Len(a)]
        BY <2>1, <4>1
      <4> QED
        BY <1>2, <3>2, <4>1, <4>2
    <3> QED
      BY <3>1, <3>2
  <2>3. i + (Len(a) + Len(b)) <= Len(s)
    BY <1>1, <2>1
  <2> QED
    BY <1>2, <2>2, <2>3 DEF Ahead
<1> QED
  BY <1>3, <1>4

LEMMA AheadOne ==
  ASSUME NEW s \in Seq(Char), NEW i \in Nat, NEW t, Ahead(s, i, t),
         Len(t) \in Nat, NEW j \in 1 .. Len(t)
  PROVE  /\ At(s, i + j - 1) = t[j] /\ i + j <= Len(s)
         /\ i + Len(t) <= Len(s)
<1>1. Len(s) \in Nat
  BY LenProperties
<1> QED
  BY <1>1 DEF Ahead

\* t has none of the characters of X.
Avoids(t, X) == \A j \in 1 .. Len(t) : t[j] \notin X

LEMMA AvoidsConcat ==
  ASSUME NEW a \in Seq(Char), NEW b \in Seq(Char), NEW X, Avoids(a, X), Avoids(b, X)
  PROVE  Avoids(a \o b, X)
<1>1. Len(a) \in Nat /\ Len(b) \in Nat
  BY LenProperties
<1>2. /\ Len(a \o b) = Len(a) + Len(b)
      /\ \A j \in 1 .. Len(a) + Len(b) :
           (a \o b)[j] = IF j <= Len(a) THEN a[j] ELSE b[j - Len(a)]
  BY ConcatProperties
<1>3. ASSUME NEW j \in 1 .. Len(a) + Len(b)
      PROVE  (a \o b)[j] \notin X
  <2>1. CASE j <= Len(a)
    <3>1. j \in 1 .. Len(a)
      BY <1>1, <2>1
    <3> QED
      BY <1>2, <2>1, <3>1 DEF Avoids
  <2>2. CASE ~(j <= Len(a))
    <3>1. j - Len(a) \in 1 .. Len(b)
      BY <1>1, <2>2
    <3> QED
      BY <1>2, <2>2, <3>1 DEF Avoids
  <2> QED
    BY <2>1, <2>2
<1> QED
  BY <1>2, <1>3 DEF Avoids

-----------------------------------------------------------------------------
(* Numerals: digits, the first no zero, that are read as the number.         *)

LEMMA ReverseOneMore ==
  ASSUME NEW c \in Char, NEW s \in Seq(Char)
  PROVE  Reverse(<<c>> \o s) = Reverse(s) \o <<c>>
<1> DEFINE t == <<c>> \o s
<1>1. Len(s) \in Nat /\ <<c>> \in Seq(Char) /\ Len(<<c>>) = 1 /\ <<c>>[1] = c
  BY LenProperties
<1>2. /\ t \in Seq(Char) /\ Len(t) = 1 + Len(s)
      /\ \A i \in 1 .. 1 + Len(s) : t[i] = IF i <= 1 THEN <<c>>[i] ELSE s[i - 1]
  BY <1>1, ConcatProperties
<1> HIDE DEF t
<1>3. /\ Reverse(t) \in Seq(Char) /\ Len(Reverse(t)) = 1 + Len(s)
      /\ Reverse(s) \in Seq(Char) /\ Len(Reverse(s)) = Len(s)
  BY <1>2, ReverseFacts
<1>4. /\ Reverse(s) \o <<c>> \in Seq(Char)
      /\ Len(Reverse(s) \o <<c>>) = Len(s) + 1
      /\ \A i \in 1 .. Len(s) + 1 :
           (Reverse(s) \o <<c>>)[i] =
             IF i <= Len(s) THEN Reverse(s)[i] ELSE <<c>>[i - Len(s)]
  BY <1>1, <1>3, ConcatProperties
<1>5. ASSUME NEW i \in 1 .. 1 + Len(s)
      PROVE  Reverse(t)[i] = (Reverse(s) \o <<c>>)[i]
  <2>1. Reverse(t)[i] = t[((1 + Len(s)) - i) + 1]
    BY <1>2 DEF Reverse
  <2>2. CASE i <= Len(s)
    <3>1. /\ ((1 + Len(s)) - i) + 1 \in 1 .. 1 + Len(s)
          /\ ~(((1 + Len(s)) - i) + 1 <= 1)
          /\ (((1 + Len(s)) - i) + 1) - 1 = (Len(s) - i) + 1
          /\ i \in 1 .. Len(s)
      BY <1>1, <2>2
    <3>2. t[((1 + Len(s)) - i) + 1] = s[(((1 + Len(s)) - i) + 1) - 1]
      BY <1>2, <3>1
    <3>3. Reverse(s)[i] = s[(Len(s) - i) + 1]
      BY <3>1 DEF Reverse
    <3> QED
      BY <1>1, <1>4, <2>1, <2>2, <3>1, <3>2, <3>3
  <2>3. CASE ~(i <= Len(s))
    <3>1. i = 1 + Len(s) /\ ((1 + Len(s)) - i) + 1 = 1 /\ i - Len(s) = 1
      BY <1>1, <2>3
    <3> QED
      BY <1>1, <1>2, <1>4, <2>1, <2>3, <3>1
  <2> QED
    BY <2>2, <2>3
<1> DEFINE u == Reverse(s) \o <<c>>
           v == Reverse(t)
<1>6. /\ u \in Seq(Char) /\ v \in Seq(Char) /\ Len(v) = Len(u)
      /\ \A i \in 1 .. Len(v) : v[i] = u[i]
  BY <1>1, <1>3, <1>4, <1>5
<1> HIDE DEF u, v
<1>7. v = u
  BY <1>6, SeqEqual
<1> QED
  BY <1>7 DEF t, u, v

LEMMA ReverseNone == Reverse(<<>>) = <<>>
  BY DEF Reverse

LEMMA DecimalDigit ==
  ASSUME NEW n \in 0 .. 9
  PROVE  /\ Digit[n + 1] \in Decimal /\ DigitValue[Digit[n + 1]] = n
         /\ n # 0 => Digit[n + 1] # "0"
<1>1. n + 1 \in 1 .. 10
  OBVIOUS
<1>2. Digit[n + 1] \in Decimal
  BY <1>1 DEF Decimal
<1>3. \A m \in 0 .. 9 : Digit[m + 1] = Digit[n + 1] => m = n
  BY DEF Digit
<1>4. (CHOOSE m \in 0 .. 9 : Digit[m + 1] = Digit[n + 1]) = n
  BY <1>3
<1>5. DigitValue[Digit[n + 1]] = n
  BY <1>2, <1>4 DEF DigitValue
<1>6. n # 0 => Digit[n + 1] # "0"
  BY DEF Digit
<1> QED
  BY <1>2, <1>5, <1>6

LEMMA TenTimes ==
  ASSUME NEW n \in Nat, n >= 10
  PROVE  /\ n \div 10 \in 1 .. (n - 1) /\ n % 10 \in 0 .. 9
         /\ (n \div 10) * 10 + (n % 10) = n
<1>1. n \div 10 \in 1 .. (n - 1)
  OBVIOUS
<1>2. n % 10 \in 0 .. 9
  OBVIOUS
<1>3. n % 10 = n - 10 * (n \div 10)
  OBVIOUS
<1> QED
  BY <1>1, <1>2, <1>3

LEMMA AheadChar ==
  ASSUME NEW s \in Seq(Char), NEW i \in Nat, NEW c, Ahead(s, i, <<c>>)
  PROVE  At(s, i) = c /\ i + 1 <= Len(s)
<1> DEFINE t == <<c>>
<1>1. Len(t) = 1 /\ t[1] = c /\ 1 \in 1 .. Len(t)
  OBVIOUS
<1> HIDE DEF t
<1>2. At(s, i + 1 - 1) = t[1] /\ i + 1 <= Len(s)
  BY <1>1 DEF t, Ahead
<1>3. i + 1 - 1 = i
  OBVIOUS
<1> QED
  BY <1>1, <1>2, <1>3

\* What a caller writes for a number is read as that number.
LEMMA NumeralAhead ==
  ASSUME NEW n \in 1 .. (RegWrap - 1), NEW s \in Seq(Char), NEW b \in Nat,
         Ahead(s, b, Numeral(n))
  PROVE  LET len == Len(Numeral(n))
         IN /\ len \in Nat \ {0}
            /\ \A k \in b .. (b + len - 1) : At(s, k) \in Decimal
            /\ At(s, b) # "0"
            /\ atodec(s, b, b + len - 1) = n
<1> DEFINE f == CHOOSE g : SolvesDigits(n, 10, g)
           to == b + Len(f[n]) - 1
           v == CHOOSE g : SolvesValue(s, b, to, g)
           last(m) == b + Len(f[m]) - 1
           Good(m) == /\ \A k \in b .. last(m) : At(s, k) \in Decimal
                      /\ At(s, b) # "0"
                      /\ last(m) <= to => v[last(m)] = m
           S == {m \in Nat : m \in 1 .. n /\ Ahead(s, b, Reverse(f[m])) => Good(m)}
<1>1. n \in Nat /\ n <= RegWrap - 1 /\ n # 0 /\ n \in 0 .. n /\ n \in 1 .. n
      /\ RegWrap \in Nat \ {0}
  BY WrapFacts
<1>2. SolvesDigits(n, 10, f)
  BY <1>1, DigitsExist
<1>3. Numeral(n) = Reverse(f[n])
  BY <1>1, DigitsUnfolds DEF Numeral
<1> HIDE DEF f
<1>4. \A m \in 0 .. n : /\ f[m] = DigitsStep(10, f, m)
                        /\ f[m] \in Seq(Char) /\ Len(f[m]) \in Nat \ {0}
  BY <1>1, <1>2, DigitsSolved
<1>5. Len(f[n]) \in Nat \ {0} /\ to \in Nat /\ b <= to
  BY <1>1, <1>4
<1>6. SolvesValue(s, b, to, v)
  <2> DEFINE len == Len(f[n])
  <2>1. (b - 1) + len = to /\ len \in Nat
    BY <1>5
  <2>2. \E g : SolvesValue(s, b, (b - 1) + len, g)
    BY <2>1, ValueExists
  <2> QED
    BY <2>1, <2>2
<1> HIDE DEF v
<1>7. \A i \in (b - 1) .. to : v[i] = ValueStep(s, b, v, i)
  BY <1>6 DEF SolvesValue
<1> HIDE DEF to
<1>8. ASSUME NEW m \in Nat, \A k \in 0 .. (m - 1) : k \in S, m \in 1 .. n,
             Ahead(s, b, Reverse(f[m]))
      PROVE  Good(m)
  <2>1. /\ f[m] = DigitsStep(10, f, m) /\ f[m] \in Seq(Char)
        /\ Len(f[m]) \in Nat \ {0}
    BY <1>4, <1>8
  <2>2. CASE m < 10
    <3>1. m \in 0 .. 9 /\ m # 0 /\ m % 10 = m
      BY <1>8, <2>2
    <3> DEFINE d == Digit[m + 1]
    <3>2. f[m] = <<d>> \o <<>>
      BY <2>1, <2>2, <3>1 DEF DigitsStep
    <3>3. /\ d \in Decimal /\ DigitValue[d] = m /\ d # "0" /\ d \in Char
      <4>1. m \in 0 .. 15
        BY <3>1
      <4> QED
        BY <3>1, <4>1, DecimalDigit, DigitType
    <3> HIDE DEF d
    <3>4. f[m] = <<d>> /\ <<d>> \in Seq(Char)
      BY <3>2, <3>3, ConcatEmptySeq
    <3>5. Reverse(f[m]) = <<d>>
      BY <3>4 DEF Reverse
    <3>6. Len(<<d>>) = 1 /\ <<d>>[1] = d
      OBVIOUS
    <3>7. At(s, b) = d
      BY <1>8, <3>5, AheadChar
    <3>8. At(s, b) = d /\ last(m) = b
      BY <3>4, <3>6, <3>7
    <3>9. \A k \in b .. last(m) : k = b
      BY <3>8
    <3>10. ASSUME last(m) <= to PROVE v[last(m)] = m
      <4>1. b \in (b - 1) .. to /\ ~(b < b)
            /\ b - 1 \in (b - 1) .. to /\ b - 1 < b
        BY <1>5
      <4>2. v[b] = (v[b - 1] * 10 + DigitValue[At(s, b)]) % RegWrap /\ v[b - 1] = 0
        BY <1>7, <4>1 DEF ValueStep
      <4>3. v[b] = m % RegWrap
        BY <3>1, <3>3, <3>8, <4>2
      <4>4. m % RegWrap = m
        <5>1. m \in 0 .. (RegWrap - 1)
          BY <1>1, <1>8
        <5> QED
          BY <1>1, <5>1, ModCases
      <4> QED
        BY <3>8, <4>3, <4>4
    <3> QED
      BY <3>3, <3>8, <3>9, <3>10
  <2>3. CASE ~(m < 10)
    <3> DEFINE w == m \div 10
               d == Digit[(m % 10) + 1]
    <3>1. w \in 1 .. (m - 1) /\ m % 10 \in 0 .. 9 /\ w * 10 + (m % 10) = m
      BY <2>3, TenTimes
    <3>2. f[m] = <<d>> \o f[w]
      BY <2>1, <2>3 DEF DigitsStep
    <3>3. /\ d \in Decimal /\ DigitValue[d] = m % 10 /\ d \in Char
      <4>1. m % 10 \in 0 .. 15
        BY <3>1
      <4> QED
        BY <3>1, <4>1, DecimalDigit, DigitType
    <3> HIDE DEF d, w
    <3>4. w \in 0 .. n /\ w \in 1 .. n /\ w \in 0 .. (m - 1)
      BY <1>8, <3>1
    <3>5. f[w] \in Seq(Char) /\ Len(f[w]) \in Nat \ {0}
      BY <1>4, <3>4
    <3>6. Reverse(f[m]) = Reverse(f[w]) \o <<d>>
      BY <3>2, <3>3, <3>5, ReverseOneMore
    <3>7. /\ Reverse(f[w]) \in Seq(Char) /\ Len(Reverse(f[w])) = Len(f[w])
          /\ <<d>> \in Seq(Char) /\ Len(<<d>>) = 1 /\ <<d>>[1] = d
      BY <3>3, <3>5, ReverseFacts
    <3>8. Ahead(s, b, Reverse(f[w])) /\ Ahead(s, b + Len(f[w]), <<d>>)
      <4> DEFINE g == Reverse(f[w])
                 one == <<d>>
      <4>1. g \in Seq(Char) /\ Len(g) = Len(f[w]) /\ one \in Seq(Char)
        BY <3>7
      <4>2. Ahead(s, b, g \o one)
        BY <1>8, <3>6
      <4> HIDE DEF g, one
      <4>3. Ahead(s, b, g) /\ Ahead(s, b + Len(g), one)
        BY <4>1, <4>2, AheadConcat
      <4>4. Ahead(s, b, g) /\ Ahead(s, b + Len(f[w]), one)
        BY <4>1, <4>3
      <4> QED
        BY <4>4 DEF g, one
    <3>9. Good(w)
      <4>1. w \in S
        BY <1>8, <3>4
      <4> QED
        BY <3>4, <3>8, <4>1
    <3>10. Len(f[m]) = 1 + Len(f[w])
      BY <3>2, <3>5, <3>7, ConcatFacts
    <3>11. last(m) = b + Len(f[w]) /\ last(w) = last(m) - 1 /\ last(m) \in Nat
           /\ last(m) > b
      BY <3>5, <3>10
    <3>12. At(s, last(m)) = d
      <4>1. b + Len(f[w]) \in Nat
        BY <3>5
      <4>2. At(s, b + Len(f[w])) = d
        BY <3>8, <4>1, AheadChar
      <4> QED
        BY <3>11, <4>2
    <3> HIDE DEF last
    <3>13. \A k \in b .. last(m) : k = last(m) \/ k \in b .. last(w)
      BY <3>11
    <3>14. ASSUME last(m) <= to PROVE v[last(m)] = m
      <4>1. last(m) \in (b - 1) .. to /\ ~(last(m) < b) /\ last(w) <= to
        BY <1>5, <3>11, <3>14
      <4>2. v[last(m)] = (v[last(m) - 1] * 10 + DigitValue[At(s, last(m))]) % RegWrap
        BY <1>7, <4>1 DEF ValueStep
      <4>3. v[last(m) - 1] = w
        BY <3>9, <3>11, <4>1
      <4>4. v[last(m)] = (w * 10 + (m % 10)) % RegWrap
        <5>1. DigitValue[At(s, last(m))] = m % 10
          BY <3>3, <3>12
        <5> QED
          BY <4>2, <4>3, <5>1
      <4>5. m % RegWrap = m
        <5>1. m \in 0 .. (RegWrap - 1)
          BY <1>1, <1>8
        <5> QED
          BY <1>1, <5>1, ModCases
      <4> QED
        BY <3>1, <4>4, <4>5
    <3> QED
      BY <3>3, <3>9, <3>12, <3>13, <3>14
  <2> QED
    BY <2>2, <2>3
<1> HIDE DEF Good
<1>9. \A m \in Nat : (\A k \in 0 .. (m - 1) : k \in S) => m \in S
  BY <1>8
<1> HIDE DEF S
<1>10. Nat \subseteq S
  BY <1>9, AllNumbers
<1>11. Good(n)
  BY <1>1, <1>3, <1>10 DEF S
<1>12. Len(Numeral(n)) = Len(f[n])
  BY <1>1, <1>3, <1>4, ReverseFacts
<1>13. last(n) = to /\ to <= to
  BY <1>5 DEF to
<1>14. atodec(s, b, to) = v[to]
  BY ValueUnfolds DEF v
<1>15. atodec(s, b, to) = n
  BY <1>11, <1>13, <1>14 DEF Good
<1>16. /\ \A k \in b .. to : At(s, k) \in Decimal
       /\ At(s, b) # "0"
  BY <1>11, <1>13 DEF Good
<1> QED
  BY <1>5, <1>12, <1>15, <1>16 DEF to

-----------------------------------------------------------------------------
(* What a caller writes in a placeholder.                                    *)

LEMMA NumeralType ==
  ASSUME NEW n \in 0 .. (RegWrap - 1)
  PROVE  /\ Numeral(n) \in Seq(Char)
         /\ \A j \in 1 .. Len(Numeral(n)) : Numeral(n)[j] \in Decimal
         /\ n # 0 => Len(Numeral(n)) \in Nat \ {0}
<1>1. CASE n = 0
  BY <1>1, ShortTexts, EmptySeq DEF Numeral
<1>2. CASE n # 0
  <2> DEFINE t == Numeral(n)
  <2>1. t \in Seq(Char)
    <3>1. n \in Nat
      BY WrapFacts
    <3>2. Digits(n, 10) \in Seq(Char)
      BY <3>1, DigitsFacts
    <3> QED
      BY <1>2, <3>2, ReverseFacts DEF Numeral
  <2>2. Len(t) \in Nat
    BY <2>1, LenProperties
  <2>3. ASSUME NEW j \in 1 .. Len(t)
        PROVE  At(t, 0 + j - 1) = t[j] /\ 0 + j - 1 \in 0 .. (0 + Len(t) - 1)
    <3>1. 0 + j - 1 < Len(t) /\ (0 + j - 1) + 1 = j
      BY <2>2
    <3> QED
      BY <2>2, <3>1 DEF At
  <2>4. Ahead(t, 0, t)
    BY <2>2, <2>3 DEF Ahead
  <2>5. n \in 1 .. (RegWrap - 1) /\ 0 \in Nat
    BY <1>2, WrapFacts
  <2>6. Len(t) \in Nat \ {0} /\ \A k \in 0 .. (0 + Len(t) - 1) : At(t, k) \in Decimal
    BY <2>1, <2>4, <2>5, NumeralAhead
  <2> HIDE DEF t
  <2>7. \A j \in 1 .. Len(t) : t[j] \in Decimal
    BY <2>3, <2>6
  <2> QED
    BY <2>1, <2>6, <2>7 DEF t
<1> QED
  BY <1>1, <1>2

\* The characters that the parts from this one on do not have.
Foreign(st) ==
  {NUL, "<", ">", "=", "^"} \cup (IF st > 3 THEN {"+", "-", " "} ELSE {})
                            \cup (IF st > 4 THEN {"#"} ELSE {})

LEMMA ForeignFacts ==
  ASSUME NEW st \in 3 .. 9
  PROVE  /\ NUL \in Foreign(st)
         /\ \A c \in DOMAIN Alignments : c \in Foreign(st)
         /\ st > 3 => \A c \in DOMAIN Signs : c \in Foreign(st)
         /\ st > 4 => "#" \in Foreign(st)
         /\ \A c \in Foreign(st) : c \in Foreign(st + 1)
         /\ \A c \in Foreign(st) : c \in {NUL, "<", ">", "=", "^", "+", "-", " ", "#"}
         /\ \A c \in Foreign(st) : c \in {"+", "-", " "} => st > 3
         /\ \A c \in Foreign(st) : c = "#" => st > 4
<1>1. NUL \in Foreign(st)
  BY DEF Foreign
<1>2. \A c \in DOMAIN Alignments : c \in Foreign(st)
  BY DEF Foreign, Alignments
<1>3. st > 3 => \A c \in DOMAIN Signs : c \in Foreign(st)
  BY DEF Foreign, Signs
<1>4. st > 4 => "#" \in Foreign(st)
  BY DEF Foreign
<1>5. \A c \in Foreign(st) : c \in Foreign(st + 1)
  <2>1. (st > 3 => st + 1 > 3) /\ (st > 4 => st + 1 > 4)
    OBVIOUS
  <2> QED
    BY <2>1 DEF Foreign
<1>6. \A c \in Foreign(st) : c \in {NUL, "<", ">", "=", "^", "+", "-", " ", "#"}
  BY DEF Foreign
<1>7. \A c \in Foreign(st) : c \in {"+", "-", " "} => st > 3
  BY DEF Foreign, NUL
<1>8. \A c \in Foreign(st) : c = "#" => st > 4
  BY DEF Foreign, NUL
<1> QED
  BY <1>1, <1>2, <1>3, <1>4, <1>5, <1>6, <1>7, <1>8

LEMMA DecimalNotForeign ==
  ASSUME NEW st \in 3 .. 9
  PROVE  \A c \in Decimal : c \notin Foreign(st)
<1>1. \A c \in Decimal : c \in {"0", "1", "2", "3", "4", "5", "6", "7", "8", "9"}
  BY DEF Decimal, Digit
<1>2. \A c \in {"0", "1", "2", "3", "4", "5", "6", "7", "8", "9"} :
        c \notin {NUL, "<", ">", "=", "^", "+", "-", " ", "#"}
  BY DEF NUL
<1> QED
  BY <1>1, <1>2, ForeignFacts

USE DEF STAGE_START, STAGE_SPECIFIER_START, STAGE_ALIGN, STAGE_SIGN,
        STAGE_ALTERNATIVE, STAGE_ZERO_PADDING, STAGE_MINWIDTH, STAGE_PRECISE,
        STAGE_TYPE, STAGE_END

\* A text of one character, or none.
LEMMA OneOrNone ==
  ASSUME NEW t, NEW c \in Char, t \in {<<>>, <<c>>}
  PROVE  /\ t \in Seq(Char)
         /\ \A X : c \notin X => Avoids(t, X)
<1>1. t \in Seq(Char)
  BY ShortTexts
<1>2. \A X : c \notin X => Avoids(t, X)
  BY DEF Avoids
<1> QED
  BY <1>1, <1>2

LEMMA PartFacts ==
  ASSUME NEW ph, Askable(ph), NEW st \in 3 .. 9
  PROVE  Part(ph, st) \in Seq(Char) /\ Avoids(Part(ph, st), Foreign(st))
<1> DEFINE Goal == Part(ph, st) \in Seq(Char) /\ Avoids(Part(ph, st), Foreign(st))
<1>1. /\ ph.min_width \in 0 .. (RegWrap - 1) /\ ph.precise \in 0 .. (RegWrap - 1)
      /\ ph.type \in {"BIN", "DEC", "OCTAL", "LOW_HEX", "STRING"}
  BY DEF Askable, Infos
<1>2. \A c \in {"0", ".", CLOSE, "b", "d", "o", "x", "s"} :
        c \notin {NUL, "<", ">", "=", "^", "+", "-", " ", "#"}
  BY Zenon DEF NUL, CLOSE
<1>3. \A c \in {"0", ".", CLOSE, "b", "d", "o", "x", "s"} : c \notin Foreign(st)
  BY <1>2, ForeignFacts
<1>4. CASE st = 3
  <2>1. Part(ph, st) \in {<<>>, <<"+">>} \/ Part(ph, st) \in {<<>>, <<" ">>}
    BY <1>4 DEF Part, SignMark
  <2>2. "+" \notin Foreign(st) /\ " " \notin Foreign(st)
    BY <1>4 DEF Foreign, NUL
  <2> QED
    BY <2>1, <2>2, CharFacts, OneOrNone
<1>5. CASE st = 4
  <2>1. Part(ph, st) \in {<<>>, <<"#">>}
    BY <1>5 DEF Part, Option
  <2>2. "#" \notin Foreign(st)
    BY <1>5 DEF Foreign, NUL
  <2> QED
    BY <2>1, <2>2, CharFacts, OneOrNone
<1>6. CASE st = 5
  <2>1. Part(ph, st) \in {<<>>, <<"0">>}
    BY <1>6 DEF Part, Option
  <2> QED
    BY <1>3, <2>1, CharFacts, OneOrNone
<1>7. CASE st = 6
  <2>1. Part(ph, st) = Numeral(ph.min_width)
    BY <1>7 DEF Part
  <2> QED
    BY <1>1, <2>1, NumeralType, DecimalNotForeign DEF Avoids
<1>8. CASE st = 7
  <2> DEFINE point == Option(ph.precise # 0, ".")
  <2>1. Part(ph, st) = point \o Numeral(ph.precise)
    BY <1>8 DEF Part, Precision
  <2>2. point \in {<<>>, <<".">>}
    BY DEF Option
  <2> HIDE DEF point
  <2>3. point \in Seq(Char) /\ Avoids(point, Foreign(st))
    BY <1>3, <2>2, CharFacts, OneOrNone
  <2>4. /\ Numeral(ph.precise) \in Seq(Char)
        /\ Avoids(Numeral(ph.precise), Foreign(st))
    BY <1>1, NumeralType, DecimalNotForeign DEF Avoids
  <2> QED
    BY <2>1, <2>3, <2>4, ConcatFacts, AvoidsConcat
<1>9. CASE st = 8
  <2>1. \E c \in {"b", "d", "o", "x", "s"} : Part(ph, st) = <<c>>
    BY <1>1, <1>9 DEF Part, TypeMark
  <2>2. \A c \in {"b", "d", "o", "x", "s"} : c \in Char
    BY CharFacts
  <2>3. PICK c \in {"b", "d", "o", "x", "s"} : Part(ph, st) = <<c>>
    BY <2>1
  <2>4. c \in Char /\ c \notin Foreign(st) /\ Part(ph, st) \in {<<>>, <<c>>}
    BY <1>3, <2>2, <2>3
  <2> QED
    BY <2>4, OneOrNone
<1>10. CASE st = 9
  <2>1. Part(ph, st) \in {<<>>, <<CLOSE>>}
    BY <1>10 DEF Part
  <2> QED
    BY <1>3, <2>1, CharFacts, OneOrNone
<1>11. st \in {3, 4, 5, 6, 7, 8, 9}
  OBVIOUS
<1> QED
  BY <1>4, <1>5, <1>6, <1>7, <1>8, <1>9, <1>10, <1>11

\* What is written in a placeholder from a stage on.
Rest9(ph) == Part(ph, 9)
Rest8(ph) == Part(ph, 8) \o Rest9(ph)
Rest7(ph) == Part(ph, 7) \o Rest8(ph)
Rest6(ph) == Part(ph, 6) \o Rest7(ph)
Rest5(ph) == Part(ph, 5) \o Rest6(ph)
Rest4(ph) == Part(ph, 4) \o Rest5(ph)
Rest3(ph) == Part(ph, 3) \o Rest4(ph)
Rest2(ph) == Part(ph, 2) \o Rest3(ph)
Rest1(ph) == Part(ph, 1) \o Rest2(ph)

Rest(ph, st) ==
  CASE st = 1 -> Rest1(ph) [] st = 2 -> Rest2(ph) [] st = 3 -> Rest3(ph)
    [] st = 4 -> Rest4(ph) [] st = 5 -> Rest5(ph) [] st = 6 -> Rest6(ph)
    [] st = 7 -> Rest7(ph) [] st = 8 -> Rest8(ph) [] st = 9 -> Rest9(ph)

LEMMA RestUnfolds ==
  ASSUME NEW ph
  PROVE  /\ Rest(ph, 9) = Part(ph, 9)
         /\ \A st \in 1 .. 8 : Rest(ph, st) = Part(ph, st) \o Rest(ph, st + 1)
<1>1. /\ Rest(ph, 1) = Rest1(ph) /\ Rest(ph, 2) = Rest2(ph) /\ Rest(ph, 3) = Rest3(ph)
      /\ Rest(ph, 4) = Rest4(ph) /\ Rest(ph, 5) = Rest5(ph) /\ Rest(ph, 6) = Rest6(ph)
      /\ Rest(ph, 7) = Rest7(ph) /\ Rest(ph, 8) = Rest8(ph) /\ Rest(ph, 9) = Rest9(ph)
  BY DEF Rest
<1>2. ASSUME NEW st \in 1 .. 8
      PROVE  Rest(ph, st) = Part(ph, st) \o Rest(ph, st + 1)
  <2>1. CASE st = 1
    BY <1>1, <2>1 DEF Rest1
  <2>2. CASE st = 2
    BY <1>1, <2>2 DEF Rest2
  <2>3. CASE st = 3
    BY <1>1, <2>3 DEF Rest3
  <2>4. CASE st = 4
    BY <1>1, <2>4 DEF Rest4
  <2>5. CASE st = 5
    BY <1>1, <2>5 DEF Rest5
  <2>6. CASE st = 6
    BY <1>1, <2>6 DEF Rest6
  <2>7. CASE st = 7
    BY <1>1, <2>7 DEF Rest7
  <2>8. CASE st = 8
    BY <1>1, <2>8 DEF Rest8
  <2>9. st \in {1, 2, 3, 4, 5, 6, 7, 8}
    OBVIOUS
  <2> QED
    BY <2>1, <2>2, <2>3, <2>4, <2>5, <2>6, <2>7, <2>8, <2>9
<1> QED
  BY <1>1, <1>2 DEF Rest9

LEMMA TwoTexts ==
  ASSUME NEW c \in Char, NEW d \in Char
  PROVE  <<c>> \o <<d>> = <<c, d>>
<1> DEFINE t == <<c>> \o <<d>>
           u == <<c, d>>
<1>1. /\ <<c>> \in Seq(Char) /\ Len(<<c>>) = 1 /\ <<c>>[1] = c
      /\ <<d>> \in Seq(Char) /\ Len(<<d>>) = 1 /\ <<d>>[1] = d
  BY ShortTexts
<1>2. /\ t \in Seq(Char) /\ Len(t) = 1 + 1
      /\ \A i \in 1 .. 1 + 1 : t[i] = IF i <= 1 THEN <<c>>[i] ELSE <<d>>[i - 1]
  BY <1>1, ConcatProperties
<1>3. u \in Seq(Char) /\ Len(u) = 2 /\ u[1] = c /\ u[2] = d
  BY ShortTexts
<1> HIDE DEF t, u
<1>4. t[1] = c /\ t[2] = d /\ Len(t) = 2
  BY <1>1, <1>2
<1>5. \A i \in 1 .. Len(t) : t[i] = u[i]
  BY <1>3, <1>4
<1>6. t = u
  BY <1>2, <1>3, <1>4, <1>5, SeqEqual
<1> QED
  BY <1>6 DEF t, u

LEMMA FirstParts ==
  ASSUME NEW ph, Askable(ph)
  PROVE  /\ Part(ph, 0) = <<OPEN>> /\ Part(ph, 1) = <<":">>
         /\ Part(ph, 2) \in Seq(Char)
         /\ Part(ph, 0) \in Seq(Char) /\ Part(ph, 1) \in Seq(Char)
         /\ \/ /\ ph.alignment = "DEFAULT" /\ ph.fill_char = NUL
               /\ Part(ph, 2) = <<>>
            \/ \E a \in DOMAIN Alignments :
                 /\ ph.alignment = Alignments[a]
                 /\ \/ ph.fill_char = NUL /\ Part(ph, 2) = <<a>>
                    \/ /\ ph.fill_char \notin {NUL, ":"}
                       /\ ph.fill_char \in Char
                       /\ Part(ph, 2) = <<ph.fill_char, a>>
<1>1. Part(ph, 0) = <<OPEN>> /\ Part(ph, 1) = <<":">> /\ Part(ph, 2) = Alignment(ph)
  <2>1. \A st : st = 0 => Part(ph, st) = <<OPEN>>
    BY DEF Part
  <2>2. Part(ph, 1) = <<":">>
    BY DEF Part
  <2>3. Part(ph, 2) = Alignment(ph)
    BY DEF Part
  <2> QED
    BY <2>1, <2>2, <2>3
<1>2. /\ ph.fill_char \in Char /\ ph.fill_char # ":"
      /\ ph.alignment \in {"DEFAULT", "LEFT", "RIGHT", "AFTER_SIGN", "CENTER"}
      /\ ph.alignment = "DEFAULT" => ph.fill_char = NUL
  BY DEF Askable, Infos
<1> DEFINE fill == Option(ph.fill_char # NUL, ph.fill_char)
           mark == CASE ph.alignment = "LEFT"       -> <<"<">>
                     [] ph.alignment = "RIGHT"      -> <<">">>
                     [] ph.alignment = "AFTER_SIGN" -> <<"=">>
                     [] ph.alignment = "CENTER"     -> <<"^">>
                     [] OTHER                       -> <<>>
<1>3. Alignment(ph) = fill \o mark
  BY DEF Alignment
<1>4. /\ ph.fill_char = NUL => fill = <<>>
      /\ ph.fill_char # NUL => fill = <<ph.fill_char>>
  BY DEF Option
<1>5. \/ ph.alignment = "DEFAULT" /\ mark = <<>>
      \/ \E a \in DOMAIN Alignments : ph.alignment = Alignments[a] /\ mark = <<a>>
  <2>1. /\ "<" \in DOMAIN Alignments /\ Alignments["<"] = "LEFT"
        /\ ">" \in DOMAIN Alignments /\ Alignments[">"] = "RIGHT"
        /\ "=" \in DOMAIN Alignments /\ Alignments["="] = "AFTER_SIGN"
        /\ "^" \in DOMAIN Alignments /\ Alignments["^"] = "CENTER"
    BY DEF Alignments
  <2>2. CASE ph.alignment = "LEFT"
    BY <2>1, <2>2
  <2>3. CASE ph.alignment = "RIGHT"
    BY <2>1, <2>3
  <2>4. CASE ph.alignment = "AFTER_SIGN"
    BY <2>1, <2>4
  <2>5. CASE ph.alignment = "CENTER"
    BY <2>1, <2>5
  <2>6. CASE ph.alignment = "DEFAULT"
    BY <2>6
  <2> QED
    BY <1>2, <2>2, <2>3, <2>4, <2>5, <2>6
<1> HIDE DEF fill, mark
<1>6. \A a \in DOMAIN Alignments : a \in Char /\ Alignments[a] # "DEFAULT"
  <2>1. \A a \in DOMAIN Alignments : a \in {"<", ">", "=", "^"} /\ Alignments[a] # "DEFAULT"
    BY DEF Alignments
  <2> QED
    BY <2>1, CharFacts
<1>7. CASE ph.alignment = "DEFAULT"
  <2>1. fill = <<>> /\ mark = <<>>
    BY <1>2, <1>4, <1>5, <1>6, <1>7
  <2>2. fill \o mark = <<>>
    BY <2>1, ShortTexts, ConcatEmptySeq
  <2> QED
    BY <1>1, <1>2, <1>3, <1>7, <2>2, CharFacts, ShortTexts
<1>8. CASE ph.alignment # "DEFAULT"
  <2>1. PICK a \in DOMAIN Alignments : ph.alignment = Alignments[a] /\ mark = <<a>>
    BY <1>5, <1>8
  <2>2. a \in Char
    BY <1>6
  <2>3. CASE ph.fill_char = NUL
    <3>1. fill \o mark = <<a>>
      BY <1>4, <2>1, <2>2, <2>3, ShortTexts, ConcatEmptySeq
    <3> QED
      BY <1>1, <1>3, <2>1, <2>2, <2>3, <3>1, CharFacts, ShortTexts
  <2>4. CASE ph.fill_char # NUL
    <3>1. <<ph.fill_char>> \o <<a>> = <<ph.fill_char, a>>
      BY <1>2, <2>2, TwoTexts
    <3>2. fill \o mark = <<ph.fill_char, a>>
      BY <1>4, <2>1, <2>4, <3>1
    <3> QED
      BY <1>1, <1>2, <1>3, <2>1, <2>2, <2>4, <3>2, CharFacts, ShortTexts
  <2> QED
    BY <2>3, <2>4
<1> QED
  BY <1>7, <1>8

LEMMA RestType ==
  ASSUME NEW ph, Askable(ph)
  PROVE  /\ \A st \in 1 .. 9 : Part(ph, st) \in Seq(Char) /\ Rest(ph, st) \in Seq(Char)
         /\ \A st \in 3 .. 9 : Avoids(Rest(ph, st), Foreign(st))
<1>1. \A st \in 1 .. 9 : Part(ph, st) \in Seq(Char)
  <2>1. \A st \in 3 .. 9 : Part(ph, st) \in Seq(Char)
    BY PartFacts
  <2>2. \A st \in 1 .. 9 : st \in 3 .. 9 \/ st = 1 \/ st = 2
    OBVIOUS
  <2> QED
    BY <2>1, <2>2, FirstParts
<1>2. ASSUME NEW st \in 1 .. 8, Rest(ph, st + 1) \in Seq(Char)
      PROVE  Rest(ph, st) \in Seq(Char)
  <2>1. Part(ph, st) \in Seq(Char)
    BY <1>1
  <2> QED
    BY <1>2, <2>1, ConcatFacts, RestUnfolds
<1>3. Rest(ph, 9) \in Seq(Char)
  BY <1>1, RestUnfolds
<1>4. Rest(ph, 8) \in Seq(Char)
  <2>1. 8 \in 1 .. 8 /\ 8 + 1 = 9
    OBVIOUS
  <2> QED
    BY <1>2, <1>3, <2>1
<1>5. Rest(ph, 7) \in Seq(Char)
  BY <1>2, <1>4
<1>6. Rest(ph, 6) \in Seq(Char)
  BY <1>2, <1>5
<1>7. Rest(ph, 5) \in Seq(Char)
  BY <1>2, <1>6
<1>8. Rest(ph, 4) \in Seq(Char)
  BY <1>2, <1>7
<1>9. Rest(ph, 3) \in Seq(Char)
  BY <1>2, <1>8
<1>10. Rest(ph, 2) \in Seq(Char)
  BY <1>2, <1>9
<1>11. Rest(ph, 1) \in Seq(Char)
  BY <1>2, <1>10
<1>12. \A st \in 1 .. 9 : Rest(ph, st) \in Seq(Char)
  <2>1. \A st \in 1 .. 9 : st \in {1, 2, 3, 4, 5, 6, 7, 8, 9}
    OBVIOUS
  <2> QED
    BY <1>3, <1>4, <1>5, <1>6, <1>7, <1>8, <1>9, <1>10, <1>11, <2>1
<1>13. ASSUME NEW st \in 3 .. 8, Avoids(Rest(ph, st + 1), Foreign(st + 1))
       PROVE  Avoids(Rest(ph, st), Foreign(st))
  <2> DEFINE a == Part(ph, st)
             b == Rest(ph, st + 1)
             X == Foreign(st)
  <2>1. a \in Seq(Char) /\ b \in Seq(Char)
    <3>1. st \in 1 .. 9 /\ st + 1 \in 1 .. 9
      OBVIOUS
    <3> QED
      BY <1>1, <1>12, <3>1
  <2>2. Avoids(a, X)
    BY PartFacts
  <2>3. Avoids(b, X)
    <3>1. \A c \in X : c \in Foreign(st + 1)
      <4>1. st \in 3 .. 9
        OBVIOUS
      <4> QED
        BY <4>1, ForeignFacts
    <3> QED
      BY <1>13, <3>1 DEF Avoids
  <2>4. Rest(ph, st) = a \o b
    <3>1. st \in 1 .. 8
      OBVIOUS
    <3> QED
      BY <3>1, RestUnfolds
  <2> HIDE DEF a, b, X
  <2>5. Avoids(a \o b, X)
    BY <2>1, <2>2, <2>3, AvoidsConcat
  <2> QED
    BY <2>4, <2>5 DEF X
<1>14. Avoids(Rest(ph, 9), Foreign(9))
  BY PartFacts, RestUnfolds
<1>15. Avoids(Rest(ph, 8), Foreign(8))
  BY <1>13, <1>14
<1>16. Avoids(Rest(ph, 7), Foreign(7))
  BY <1>13, <1>15
<1>17. Avoids(Rest(ph, 6), Foreign(6))
  BY <1>13, <1>16
<1>18. Avoids(Rest(ph, 5), Foreign(5))
  BY <1>13, <1>17
<1>19. Avoids(Rest(ph, 4), Foreign(4))
  BY <1>13, <1>18
<1>20. Avoids(Rest(ph, 3), Foreign(3))
  BY <1>13, <1>19
<1>21. \A st \in 3 .. 9 : Avoids(Rest(ph, st), Foreign(st))
  <2>1. \A st \in 3 .. 9 : st \in {3, 4, 5, 6, 7, 8, 9}
    OBVIOUS
  <2> QED
    BY <1>14, <1>15, <1>16, <1>17, <1>18, <1>19, <1>20, <2>1
<1> QED
  BY <1>1, <1>12, <1>21

-----------------------------------------------------------------------------
(* What is ahead of the parser at each stage.                                *)

\* The parser at b, and the rest of the placeholder, from st on, ahead of it.
Comes(s, b, ph, st) ==
  /\ s \in Seq(Char) /\ b \in Nat /\ Askable(ph) /\ Ahead(s, b, Rest(ph, st))

LEMMA ComesNext ==
  ASSUME NEW s, NEW b, NEW ph, NEW st \in 1 .. 8, Comes(s, b, ph, st)
  PROVE  /\ Len(Part(ph, st)) \in Nat
         /\ Ahead(s, b, Part(ph, st))
         /\ Comes(s, b + Len(Part(ph, st)), ph, st + 1)
         /\ b + Len(Rest(ph, st)) = (b + Len(Part(ph, st))) + Len(Rest(ph, st + 1))
<1> DEFINE a == Part(ph, st)
           after == Rest(ph, st + 1)
<1>1. a \in Seq(Char) /\ after \in Seq(Char) /\ Rest(ph, st) = a \o after
  <2>1. st \in 1 .. 9 /\ st + 1 \in 1 .. 9
    OBVIOUS
  <2>2. Askable(ph)
    BY DEF Comes
  <2> QED
    BY <2>1, <2>2, RestType, RestUnfolds
<1> HIDE DEF a, after
<1>2. s \in Seq(Char) /\ b \in Nat /\ Ahead(s, b, a \o after)
  BY <1>1 DEF Comes
<1>3. Ahead(s, b, a) /\ Ahead(s, b + Len(a), after)
  BY <1>1, <1>2, AheadConcat
<1>4. Len(a) \in Nat /\ Len(after) \in Nat /\ Len(a \o after) = Len(a) + Len(after)
  BY <1>1, LenProperties, ConcatFacts
<1>5. b + Len(Rest(ph, st)) = (b + Len(a)) + Len(after)
  BY <1>1, <1>2, <1>4
<1>6. b + Len(a) \in Nat
  BY <1>2, <1>4
<1> QED
  BY <1>2, <1>3, <1>4, <1>5, <1>6 DEF Comes, a, after

LEMMA ComesUp ==
  ASSUME NEW s, NEW b, NEW ph, NEW st \in 1 .. 8, NEW up, up = st + 1,
         NEW next, next = b + Len(Part(ph, st)), Comes(s, b, ph, st)
  PROVE  /\ next \in Nat /\ Comes(s, next, ph, up)
         /\ b + Len(Rest(ph, st)) = next + Len(Rest(ph, up))
<1>1. /\ Comes(s, next, ph, up)
      /\ b + Len(Rest(ph, st)) = next + Len(Rest(ph, up))
  BY ComesNext
<1> QED
  BY <1>1 DEF Comes

\* None of the characters ahead is foreign.
LEMMA ComesOwn ==
  ASSUME NEW s, NEW b, NEW ph, NEW st \in 3 .. 9, Comes(s, b, ph, st),
         NEW j \in 0 .. (Len(Rest(ph, st)) - 1)
  PROVE  At(s, b + j) \notin Foreign(st)
<1> DEFINE t == Rest(ph, st)
<1>1. t \in Seq(Char) /\ Avoids(t, Foreign(st)) /\ Len(t) \in Nat
  <2>1. st \in 1 .. 9 /\ Askable(ph)
    BY DEF Comes
  <2> QED
    BY <2>1, RestType, LenProperties
<1>2. j + 1 \in 1 .. Len(t) /\ b \in Nat
  BY <1>1 DEF Comes
<1>3. \A n \in 1 .. Len(t) : At(s, b + n - 1) = t[n]
  BY DEF Comes, Ahead
<1> HIDE DEF t
<1>4. At(s, b + (j + 1) - 1) = t[j + 1] /\ t[j + 1] \notin Foreign(st)
  BY <1>1, <1>2, <1>3 DEF Avoids
<1>5. b + (j + 1) - 1 = b + j
  BY <1>2
<1> QED
  BY <1>4, <1>5

LEMMA AheadTwo ==
  ASSUME NEW s \in Seq(Char), NEW i \in Nat, NEW c, NEW d, Ahead(s, i, <<c, d>>)
  PROVE  At(s, i) = c /\ At(s, i + 1) = d
<1> DEFINE t == <<c, d>>
<1>1. Len(t) = 2 /\ t[1] = c /\ t[2] = d /\ 1 \in 1 .. 2 /\ 2 \in 1 .. 2
  OBVIOUS
<1> HIDE DEF t
<1>2. At(s, i + 1 - 1) = t[1] /\ At(s, i + 2 - 1) = t[2]
  BY <1>1 DEF t, Ahead
<1>3. i + 1 - 1 = i /\ i + 2 - 1 = i + 1
  OBVIOUS
<1> QED
  BY <1>1, <1>2, <1>3

LEMMA MarkFacts ==
  /\ \A c \in DOMAIN Types : c \notin Decimal /\ c \notin {".", "0", NUL}
  /\ "." \notin Decimal /\ "." # "0" /\ "." # NUL
  /\ NUL \notin Decimal
<1>1. \A c \in Decimal : c \in {"0", "1", "2", "3", "4", "5", "6", "7", "8", "9"}
  BY DEF Decimal, Digit
<1>2. \A c \in DOMAIN Types : c \in {"b", "d", "o", "x", "s"}
  BY DEF Types
<1>3. \A c \in {"b", "d", "o", "x", "s"} : c \notin Decimal /\ c \notin {".", "0"}
  BY <1>1
<1>4. \A c \in {"b", "d", "o", "x", "s"} : c # NUL
  BY DEF NUL
<1>5. "." \notin Decimal /\ "." # "0"
  BY <1>1
<1>6. "." # NUL
  BY DEF NUL
<1>7. NUL \notin Decimal
  BY <1>1 DEF NUL
<1> QED
  BY <1>2, <1>3, <1>4, <1>5, <1>6, <1>7

LEMMA TypePart ==
  ASSUME NEW ph, Askable(ph)
  PROVE  /\ \E c \in DOMAIN Types : Types[c] = ph.type /\ Part(ph, 8) = <<c>>
         /\ Len(Part(ph, 8)) = 1 /\ Part(ph, 9) = <<CLOSE>>
<1>1. ph.type \in {"BIN", "DEC", "OCTAL", "LOW_HEX", "STRING"}
  BY DEF Askable, Infos
<1>2. Part(ph, 8) = TypeMark(ph)
  BY DEF Part
<1>3. \E c \in DOMAIN Types : Types[c] = ph.type /\ TypeMark(ph) = <<c>>
  <2>1. /\ "b" \in DOMAIN Types /\ Types["b"] = "BIN"
        /\ "d" \in DOMAIN Types /\ Types["d"] = "DEC"
        /\ "o" \in DOMAIN Types /\ Types["o"] = "OCTAL"
        /\ "x" \in DOMAIN Types /\ Types["x"] = "LOW_HEX"
        /\ "s" \in DOMAIN Types /\ Types["s"] = "STRING"
    BY DEF Types
  <2>2. CASE ph.type = "BIN"
    BY <2>1, <2>2 DEF TypeMark
  <2>3. CASE ph.type = "DEC"
    BY <2>1, <2>3 DEF TypeMark
  <2>4. CASE ph.type = "OCTAL"
    BY <2>1, <2>4 DEF TypeMark
  <2>5. CASE ph.type = "LOW_HEX"
    BY <2>1, <2>5 DEF TypeMark
  <2>6. CASE ph.type = "STRING"
    BY <2>1, <2>6 DEF TypeMark
  <2> QED
    BY <1>1, <2>2, <2>3, <2>4, <2>5, <2>6
<1>4. Part(ph, 9) = <<CLOSE>>
  BY DEF Part
<1>5. \A c : Len(<<c>>) = 1
  OBVIOUS
<1> QED
  BY <1>2, <1>3, <1>4, <1>5

LEMMA LongerRest ==
  ASSUME NEW ph, Askable(ph), NEW x \in 1 .. 8, NEW y \in 1 .. 9, x + 1 = y
  PROVE  /\ Len(Part(ph, x)) \in Nat /\ Len(Rest(ph, y)) \in Nat
         /\ Len(Rest(ph, x)) = Len(Part(ph, x)) + Len(Rest(ph, y))
<1>1. x \in 1 .. 9
  OBVIOUS
<1>2. Part(ph, x) \in Seq(Char) /\ Rest(ph, y) \in Seq(Char)
  BY <1>1, RestType
<1>3. Rest(ph, x) = Part(ph, x) \o Rest(ph, y)
  BY RestUnfolds
<1> QED
  BY <1>2, <1>3, LenProperties, ConcatFacts

\* Two characters come at least, until the last.
LEMMA RestLength ==
  ASSUME NEW ph, Askable(ph), NEW st \in 3 .. 8
  PROVE  Len(Rest(ph, st)) \in Nat /\ Len(Rest(ph, st)) >= 2
<1> DEFINE Two(x) == Len(Rest(ph, x)) \in Nat /\ Len(Rest(ph, x)) >= 2
<1>1. ASSUME NEW x \in 1 .. 8, NEW y \in 1 .. 9, x + 1 = y, Two(y)
      PROVE  Two(x)
  <2> DEFINE a == Len(Part(ph, x))
             l == Len(Rest(ph, x))
             m == Len(Rest(ph, y))
  <2>1. a \in Nat /\ m \in Nat /\ m >= 2 /\ l = a + m
    BY <1>1, LongerRest
  <2> HIDE DEF a, l, m
  <2>2. l \in Nat /\ l >= 2
    BY <2>1
  <2> QED
    BY <2>2 DEF l
<1>2. Len(Rest(ph, 9)) = 1 /\ Len(Part(ph, 8)) = 1
  <2>1. \A c : Len(<<c>>) = 1
    OBVIOUS
  <2> QED
    BY <2>1, TypePart, RestUnfolds
<1>3. Two(8)
  <2>1. 8 \in 1 .. 8 /\ 9 \in 1 .. 9 /\ 8 + 1 = 9
    OBVIOUS
  <2>2. Len(Rest(ph, 8)) = Len(Part(ph, 8)) + Len(Rest(ph, 9))
    BY <2>1, LongerRest
  <2>3. Len(Rest(ph, 8)) = 1 + 1
    BY <1>2, <2>2
  <2> QED
    BY <2>3
<1> HIDE DEF Two
<1>4. Two(7)
  <2>1. 7 \in 1 .. 8 /\ 8 \in 1 .. 9 /\ 7 + 1 = 8
    OBVIOUS
  <2> QED
    BY <1>1, <1>3, <2>1
<1>5. Two(6)
  <2>1. 6 \in 1 .. 8 /\ 7 \in 1 .. 9 /\ 6 + 1 = 7
    OBVIOUS
  <2> QED
    BY <1>1, <1>4, <2>1
<1>6. Two(5)
  <2>1. 5 \in 1 .. 8 /\ 6 \in 1 .. 9 /\ 5 + 1 = 6
    OBVIOUS
  <2> QED
    BY <1>1, <1>5, <2>1
<1>7. Two(4)
  <2>1. 4 \in 1 .. 8 /\ 5 \in 1 .. 9 /\ 4 + 1 = 5
    OBVIOUS
  <2> QED
    BY <1>1, <1>6, <2>1
<1>8. Two(3)
  <2>1. 3 \in 1 .. 8 /\ 4 \in 1 .. 9 /\ 3 + 1 = 4
    OBVIOUS
  <2> QED
    BY <1>1, <1>7, <2>1
<1>9. st \in {3, 4, 5, 6, 7, 8}
  OBVIOUS
<1>10. Two(st)
  BY <1>3, <1>4, <1>5, <1>6, <1>7, <1>8, <1>9
<1> QED
  BY <1>10 DEF Two

LEMMA TypeComes ==
  ASSUME NEW s, NEW b, NEW ph, Comes(s, b, ph, 8)
  PROVE  At(s, b) \in DOMAIN Types /\ Types[At(s, b)] = ph.type
<1>1. s \in Seq(Char) /\ b \in Nat /\ Askable(ph) /\ Ahead(s, b, Part(ph, 8))
  BY ComesNext DEF Comes
<1>2. PICK c \in DOMAIN Types : Types[c] = ph.type /\ Part(ph, 8) = <<c>>
  BY <1>1, TypePart
<1>3. At(s, b) = c
  BY <1>1, <1>2, AheadChar
<1> QED
  BY <1>2, <1>3

\* What is written for the precision: a point, if there is one, and its digits.
LEMMA PrecisePart ==
  ASSUME NEW s, NEW b, NEW ph, Comes(s, b, ph, 7), ph.precise # 0
  PROVE  LET len == Len(Numeral(ph.precise))
         IN /\ At(s, b) = "." /\ len \in Nat \ {0}
            /\ Len(Part(ph, 7)) = 1 + len
            /\ Ahead(s, b + 1, Numeral(ph.precise))
<1>1. s \in Seq(Char) /\ b \in Nat /\ Askable(ph) /\ Ahead(s, b, Part(ph, 7))
  BY ComesNext DEF Comes
<1>2. ph.precise \in 0 .. (RegWrap - 1)
  BY <1>1 DEF Askable, Infos
<1> DEFINE t == Numeral(ph.precise)
<1>3. t \in Seq(Char) /\ Len(t) \in Nat \ {0}
  BY <1>2, NumeralType
<1>4. Part(ph, 7) = <<".">> \o t
  <2>1. Part(ph, 7) = Precision(ph)
    BY DEF Part
  <2> QED
    BY <2>1 DEF Precision, Option
<1>5. <<".">> \in Seq(Char) /\ Len(<<".">>) = 1
  BY CharFacts, ShortTexts
<1> HIDE DEF t
<1>6. Ahead(s, b, <<".">>) /\ Ahead(s, b + Len(<<".">>), t)
  <2> DEFINE dot == <<".">>
  <2>1. dot \in Seq(Char)
    BY <1>5
  <2>2. Ahead(s, b, dot \o t)
    BY <1>1, <1>4
  <2> HIDE DEF dot
  <2>3. Ahead(s, b, dot) /\ Ahead(s, b + Len(dot), t)
    BY <1>1, <1>3, <2>1, <2>2, AheadConcat
  <2> QED
    BY <2>3 DEF dot
<1>7. At(s, b) = "."
  BY <1>1, <1>6, AheadChar
<1>8. Len(Part(ph, 7)) = 1 + Len(t)
  BY <1>3, <1>4, <1>5, ConcatFacts
<1> QED
  BY <1>3, <1>5, <1>6, <1>7, <1>8 DEF t

LEMMA NoPrecisePart ==
  ASSUME NEW ph, ph.precise = 0
  PROVE  Part(ph, 7) = <<>>
<1>1. Part(ph, 7) = Precision(ph)
  BY DEF Part
<1>2. Precision(ph) = <<>> \o <<>>
  BY DEF Precision, Option, Numeral
<1> QED
  BY <1>1, <1>2, ShortTexts, ConcatEmptySeq

LEMMA PreciseComes ==
  ASSUME NEW s, NEW b, NEW ph, Comes(s, b, ph, 7)
  PROVE  /\ At(s, b) \notin Decimal /\ At(s, b) # "0" /\ At(s, b) # NUL
         /\ ph.precise = 0 => At(s, b) # "."
<1>1. CASE ph.precise # 0
  BY <1>1, PrecisePart, MarkFacts
<1>2. CASE ph.precise = 0
  <2>1. Part(ph, 7) = <<>>
    BY <1>2, NoPrecisePart
  <2>2. Len(Part(ph, 7)) = 0 /\ b \in Nat
    BY <2>1 DEF Comes
  <2>3. Comes(s, b + Len(Part(ph, 7)), ph, 7 + 1)
    BY ComesNext
  <2>4. b + Len(Part(ph, 7)) = b /\ 7 + 1 = 8
    BY <2>2
  <2>5. Comes(s, b, ph, 8)
    BY <2>3, <2>4
  <2> QED
    BY <2>5, TypeComes, MarkFacts
<1> QED
  BY <1>1, <1>2

LEMMA WidthPart ==
  ASSUME NEW s, NEW b, NEW ph, Comes(s, b, ph, 6)
  PROVE  /\ ph.min_width \in 0 .. (RegWrap - 1)
         /\ Part(ph, 6) = Numeral(ph.min_width)
         /\ Ahead(s, b, Numeral(ph.min_width))
         /\ ph.min_width = 0 => Comes(s, b, ph, 7)
         /\ ph.min_width # 0 => ph.min_width \in 1 .. (RegWrap - 1)
<1>1. ph.min_width \in 0 .. (RegWrap - 1) /\ b \in Nat
  BY DEF Comes, Askable, Infos
<1>2. Part(ph, 6) = Numeral(ph.min_width)
  BY DEF Part
<1>3. Ahead(s, b, Numeral(ph.min_width))
  BY <1>2, ComesNext
<1>4. ASSUME ph.min_width = 0 PROVE Comes(s, b, ph, 7)
  <2>1. Part(ph, 6) = <<>>
    BY <1>2, <1>4 DEF Numeral
  <2>2. b + Len(Part(ph, 6)) = b /\ 6 + 1 = 7
    BY <1>1, <2>1
  <2>3. Comes(s, b + Len(Part(ph, 6)), ph, 6 + 1)
    BY ComesNext
  <2> QED
    BY <2>2, <2>3
<1>5. ph.min_width # 0 => ph.min_width \in 1 .. (RegWrap - 1)
  BY <1>1, WrapFacts
<1> QED
  BY <1>1, <1>2, <1>3, <1>4, <1>5

LEMMA WidthComes ==
  ASSUME NEW s, NEW b, NEW ph, Comes(s, b, ph, 6)
  PROVE  At(s, b) # "0" /\ At(s, b) # NUL
<1>1. s \in Seq(Char) /\ b \in Nat
  BY DEF Comes
<1>2. CASE ph.min_width = 0
  BY <1>2, WidthPart, PreciseComes
<1>3. CASE ph.min_width # 0
  <2> DEFINE len == Len(Numeral(ph.min_width))
  <2>1. /\ len \in Nat \ {0} /\ At(s, b) # "0"
        /\ \A k \in b .. (b + len - 1) : At(s, k) \in Decimal
    BY <1>1, <1>3, WidthPart, NumeralAhead
  <2> HIDE DEF len
  <2>2. At(s, b) \in Decimal
    BY <1>1, <2>1
  <2> QED
    BY <2>1, <2>2, MarkFacts
<1> QED
  BY <1>2, <1>3

-----------------------------------------------------------------------------
(* The stages of a placeholder.                                              *)

\* The information when the parts before a stage's have been read.
Partial(ph, st) ==
  [type           |-> IF st > 8 THEN ph.type ELSE "NONE",
   fill_char      |-> IF st > 2 THEN ph.fill_char ELSE NUL,
   alternate_form |-> IF st > 4 THEN ph.alternate_form ELSE FALSE,
   zero_padding   |-> IF st > 5 THEN ph.zero_padding ELSE FALSE,
   alignment      |-> IF st > 2 THEN ph.alignment ELSE "DEFAULT",
   sign           |-> IF st > 3 THEN ph.sign ELSE "NEG",
   min_width      |-> IF st > 6 THEN ph.min_width ELSE 0,
   precise        |-> IF st > 7 THEN ph.precise ELSE 0,
   minwidth_start |-> NULL, precise_start |-> NULL]

LEMMA SameInfo ==
  ASSUME NEW a \in Infos, NEW b \in Infos,
         a.type = b.type, a.fill_char = b.fill_char,
         a.alternate_form = b.alternate_form, a.zero_padding = b.zero_padding,
         a.alignment = b.alignment, a.sign = b.sign, a.min_width = b.min_width,
         a.precise = b.precise, a.minwidth_start = b.minwidth_start,
         a.precise_start = b.precise_start
  PROVE  a = b
BY DEF Infos
\* The information read so far.
LEMMA PartialFields ==
  ASSUME NEW ph, Askable(ph), NEW st \in 1 .. 9
  PROVE  Partial(ph, st) \in Infos
<1> DEFINE P == Partial(ph, st)
           width == IF st > 6 THEN ph.min_width ELSE 0
           prec == IF st > 7 THEN ph.precise ELSE 0
           fill == IF st > 2 THEN ph.fill_char ELSE NUL
           alt == IF st > 4 THEN ph.alternate_form ELSE FALSE
           zero == IF st > 5 THEN ph.zero_padding ELSE FALSE
           type == IF st > 8 THEN ph.type ELSE "NONE"
           sg == IF st > 3 THEN ph.sign ELSE "NEG"
           al == IF st > 2 THEN ph.alignment ELSE "DEFAULT"
<1>1. P = [type |-> type, fill_char |-> fill, alternate_form |-> alt,
           zero_padding |-> zero, alignment |-> al, sign |-> sg, min_width |-> width,
           precise |-> prec, minwidth_start |-> NULL, precise_start |-> NULL]
  BY DEF Partial
<1>2. 0 \in 0 .. (RegWrap - 1)
  BY WrapFacts
<1>3. width \in 0 .. (RegWrap - 1) /\ prec \in 0 .. (RegWrap - 1)
  BY <1>2 DEF Askable, Infos
<1>4. /\ fill \in Char /\ alt \in BOOLEAN /\ zero \in BOOLEAN
      /\ type \in {"NONE", "BIN", "DEC", "OCTAL", "LOW_HEX", "STRING"}
      /\ sg \in {"NEG", "BOTH", "POS_LEADING"}
      /\ al \in {"DEFAULT", "LEFT", "RIGHT", "AFTER_SIGN", "CENTER"}
  BY CharFacts DEF Askable, Infos
<1> HIDE DEF P, width, prec, fill, alt, zero, type, sg, al
<1>5. P \in Infos
  BY <1>1, <1>3, <1>4 DEF Infos
<1> QED
  BY <1>5 DEF P

LEMMA PartialNext ==
  ASSUME NEW ph, Askable(ph)
  PROVE  /\ Partial(ph, 1) = NoInfo /\ Partial(ph, 2) = NoInfo
         /\ Partial(ph, 3) = [Partial(ph, 2) EXCEPT !.alignment = ph.alignment,
                                                    !.fill_char = ph.fill_char]
         /\ Partial(ph, 4) = [Partial(ph, 3) EXCEPT !.sign = ph.sign]
         /\ Partial(ph, 5) = [Partial(ph, 4) EXCEPT !.alternate_form = ph.alternate_form]
         /\ Partial(ph, 6) = [Partial(ph, 5) EXCEPT !.zero_padding = ph.zero_padding]
         /\ Partial(ph, 7) = [Partial(ph, 6) EXCEPT !.min_width = ph.min_width]
         /\ Partial(ph, 8) = [Partial(ph, 7) EXCEPT !.precise = ph.precise]
         /\ Partial(ph, 9) = [Partial(ph, 8) EXCEPT !.type = ph.type]
<1>9. ph.alternate_form \in BOOLEAN /\ ph.zero_padding \in BOOLEAN
  BY DEF Askable, Infos
<1>10. /\ ph.fill_char \in Char
      /\ ph.alignment \in {"DEFAULT", "LEFT", "RIGHT", "AFTER_SIGN", "CENTER"}
      /\ ph.sign \in {"NEG", "BOTH", "POS_LEADING"}
  BY DEF Askable, Infos
<1>1. Partial(ph, 1) = NoInfo /\ Partial(ph, 2) = NoInfo
  BY DEF Partial, NoInfo
<1>2. Partial(ph, 3) = [Partial(ph, 2) EXCEPT !.alignment = ph.alignment,
                                                    !.fill_char = ph.fill_char]
  <2> DEFINE p == Partial(ph, 2)
             q == Partial(ph, 3)
             f == [p EXCEPT !.alignment = ph.alignment, !.fill_char = ph.fill_char]
  <2>1. 2 \in 1 .. 9 /\ 3 \in 1 .. 9
    OBVIOUS
  <2>2. p \in Infos /\ q \in Infos
    BY <2>1, PartialFields
  <2>3. /\ p.type = "NONE" /\ p.fill_char = NUL
        /\ p.alternate_form = FALSE /\ p.zero_padding = FALSE /\ p.alignment = "DEFAULT"
        /\ p.sign = "NEG" /\ p.min_width = 0 /\ p.precise = 0
        /\ p.minwidth_start = NULL /\ p.precise_start = NULL
    BY DEF Partial
  <2>4. /\ q.type = "NONE" /\ q.fill_char = ph.fill_char
        /\ q.alternate_form = FALSE /\ q.zero_padding = FALSE /\ q.alignment = ph.alignment
        /\ q.sign = "NEG" /\ q.min_width = 0 /\ q.precise = 0
        /\ q.minwidth_start = NULL /\ q.precise_start = NULL
    BY DEF Partial
  <2> HIDE DEF p, q
  <2>5. /\ f \in Infos /\ f.alignment = ph.alignment
        /\ f.fill_char = ph.fill_char
        /\ f.type = p.type
        /\ f.alternate_form = p.alternate_form
        /\ f.zero_padding = p.zero_padding
        /\ f.sign = p.sign /\ f.min_width = p.min_width
        /\ f.precise = p.precise /\ f.minwidth_start = p.minwidth_start
        /\ f.precise_start = p.precise_start
    BY <1>10, <2>2 DEF Infos
  <2> HIDE DEF f
  <2>6. q = f
    BY <2>2, <2>3, <2>4, <2>5, SameInfo
  <2> QED
    BY <2>6 DEF p, q, f
<1>3. Partial(ph, 4) = [Partial(ph, 3) EXCEPT !.sign = ph.sign]
  <2> DEFINE p == Partial(ph, 3)
             q == Partial(ph, 4)
             f == [p EXCEPT !.sign = ph.sign]
  <2>1. 3 \in 1 .. 9 /\ 4 \in 1 .. 9
    OBVIOUS
  <2>2. p \in Infos /\ q \in Infos
    BY <2>1, PartialFields
  <2>3. /\ p.type = "NONE" /\ p.fill_char = ph.fill_char
        /\ p.alternate_form = FALSE /\ p.zero_padding = FALSE /\ p.alignment = ph.alignment
        /\ p.sign = "NEG" /\ p.min_width = 0 /\ p.precise = 0
        /\ p.minwidth_start = NULL /\ p.precise_start = NULL
    BY DEF Partial
  <2>4. /\ q.type = "NONE" /\ q.fill_char = ph.fill_char
        /\ q.alternate_form = FALSE /\ q.zero_padding = FALSE /\ q.alignment = ph.alignment
        /\ q.sign = ph.sign /\ q.min_width = 0 /\ q.precise = 0
        /\ q.minwidth_start = NULL /\ q.precise_start = NULL
    BY DEF Partial
  <2> HIDE DEF p, q
  <2>5. /\ f \in Infos /\ f.alignment = p.alignment
        /\ f.fill_char = p.fill_char
        /\ f.type = p.type
        /\ f.alternate_form = p.alternate_form
        /\ f.zero_padding = p.zero_padding
        /\ f.sign = ph.sign /\ f.min_width = p.min_width
        /\ f.precise = p.precise /\ f.minwidth_start = p.minwidth_start
        /\ f.precise_start = p.precise_start
    BY <1>10, <2>2 DEF Infos
  <2> HIDE DEF f
  <2>6. q = f
    BY <2>2, <2>3, <2>4, <2>5, SameInfo
  <2> QED
    BY <2>6 DEF p, q, f
<1>4. Partial(ph, 5) = [Partial(ph, 4) EXCEPT !.alternate_form = ph.alternate_form]
  <2> DEFINE p == Partial(ph, 4)
             q == Partial(ph, 5)
             f == [p EXCEPT !.alternate_form = ph.alternate_form]
  <2>1. 4 \in 1 .. 9 /\ 5 \in 1 .. 9
    OBVIOUS
  <2>2. p \in Infos /\ q \in Infos
    BY <2>1, PartialFields
  <2>3. /\ p.type = "NONE" /\ p.fill_char = ph.fill_char
        /\ p.alternate_form = FALSE /\ p.zero_padding = FALSE /\ p.alignment = ph.alignment
        /\ p.sign = ph.sign /\ p.min_width = 0 /\ p.precise = 0
        /\ p.minwidth_start = NULL /\ p.precise_start = NULL
    BY DEF Partial
  <2>4. /\ q.type = "NONE" /\ q.fill_char = ph.fill_char
        /\ q.alternate_form = ph.alternate_form /\ q.zero_padding = FALSE /\ q.alignment = ph.alignment
        /\ q.sign = ph.sign /\ q.min_width = 0 /\ q.precise = 0
        /\ q.minwidth_start = NULL /\ q.precise_start = NULL
    BY DEF Partial
  <2> HIDE DEF p, q
  <2>5. /\ f \in Infos /\ f.alignment = p.alignment
        /\ f.fill_char = p.fill_char
        /\ f.type = p.type
        /\ f.alternate_form = ph.alternate_form
        /\ f.zero_padding = p.zero_padding
        /\ f.sign = p.sign /\ f.min_width = p.min_width
        /\ f.precise = p.precise /\ f.minwidth_start = p.minwidth_start
        /\ f.precise_start = p.precise_start
    BY <1>9, <2>2 DEF Infos
  <2> HIDE DEF f
  <2>6. q = f
    BY <2>2, <2>3, <2>4, <2>5, SameInfo
  <2> QED
    BY <2>6 DEF p, q, f
<1>5. Partial(ph, 6) = [Partial(ph, 5) EXCEPT !.zero_padding = ph.zero_padding]
  BY DEF Partial
<1>6. Partial(ph, 7) = [Partial(ph, 6) EXCEPT !.min_width = ph.min_width]
  BY DEF Partial
<1>7. Partial(ph, 8) = [Partial(ph, 7) EXCEPT !.precise = ph.precise]
  BY DEF Partial
<1>8. Partial(ph, 9) = [Partial(ph, 8) EXCEPT !.type = ph.type]
  BY DEF Partial
<1> QED
  BY <1>1, <1>2, <1>3, <1>4, <1>5, <1>6, <1>7, <1>8

LEMMA PartialSame ==
  ASSUME NEW ph, Askable(ph)
  PROVE  /\ ph.alignment = "DEFAULT" => Partial(ph, 3) = Partial(ph, 2)
         /\ ph.sign = "NEG" => Partial(ph, 4) = Partial(ph, 3)
         /\ ph.alternate_form = FALSE => Partial(ph, 5) = Partial(ph, 4)
         /\ ph.zero_padding = FALSE => Partial(ph, 6) = Partial(ph, 5)
         /\ ph.min_width = 0 => Partial(ph, 7) = Partial(ph, 6)
         /\ ph.precise = 0 => Partial(ph, 8) = Partial(ph, 7)
         /\ Partial(ph, 9) = ph
<1>8. ph.alternate_form \in BOOLEAN /\ ph.zero_padding \in BOOLEAN
  BY DEF Askable, Infos
<1>9. /\ ~(2 > 2) /\ ~(2 > 3) /\ ~(2 > 4) /\ ~(2 > 5) /\ ~(2 > 6) /\ ~(2 > 7) /\ ~(2 > 8)
      /\ 3 > 2 /\ ~(3 > 3) /\ ~(3 > 4) /\ ~(3 > 5) /\ ~(3 > 6) /\ ~(3 > 7) /\ ~(3 > 8)
      /\ 4 > 2 /\ 4 > 3 /\ ~(4 > 4) /\ ~(4 > 5) /\ ~(4 > 6) /\ ~(4 > 7) /\ ~(4 > 8)
      /\ 5 > 2 /\ 5 > 3 /\ 5 > 4 /\ ~(5 > 5) /\ ~(5 > 6) /\ ~(5 > 7) /\ ~(5 > 8)
      /\ 6 > 2 /\ 6 > 3 /\ 6 > 4 /\ 6 > 5 /\ ~(6 > 6) /\ ~(6 > 7) /\ ~(6 > 8)
  OBVIOUS
<1>10. ph.alignment = "DEFAULT" => ph.fill_char = NUL
  BY DEF Askable
<1>1. ph.alignment = "DEFAULT" => Partial(ph, 3) = Partial(ph, 2)
  BY Zenon, <1>10, <1>9 DEF Partial
<1>2. ph.sign = "NEG" => Partial(ph, 4) = Partial(ph, 3)
  BY DEF Partial
<1>3. ph.alternate_form = FALSE => Partial(ph, 5) = Partial(ph, 4)
  BY Zenon, <1>8, <1>9 DEF Partial
<1>4. ph.zero_padding = FALSE => Partial(ph, 6) = Partial(ph, 5)
  BY Zenon, <1>8, <1>9 DEF Partial
<1>5. ph.min_width = 0 => Partial(ph, 7) = Partial(ph, 6)
  BY DEF Partial
<1>6. ph.precise = 0 => Partial(ph, 8) = Partial(ph, 7)
  BY DEF Partial
<1>7. Partial(ph, 9) = ph
  BY DEF Partial, Askable, Infos
<1> QED
  BY <1>1, <1>2, <1>3, <1>4, <1>5, <1>6, <1>7
\* The parser is at i in the part of the stage, which begins at b.
Within(ph, s, st, inf, b, i) ==
  \/ i = b /\ inf = Partial(ph, st) /\ (st = 2 => At(s, b - 1) = ":")
  \/ st = 2 /\ i = b + 1 /\ Len(Part(ph, 2)) = 2 /\ inf = Partial(ph, 2)
  \/ /\ st = 6 /\ i \in (b + 1) .. (b + Len(Part(ph, 6)) - 1)
     /\ inf = [Partial(ph, 6) EXCEPT !.minwidth_start = b]
  \/ st = 7 /\ i = b + 1 /\ ph.precise # 0 /\ inf = Partial(ph, 7)
  \/ /\ st = 7 /\ i \in (b + 2) .. (b + Len(Part(ph, 7)) - 1) /\ ph.precise # 0
     /\ inf = [Partial(ph, 7) EXCEPT !.precise_start = b + 1]

\* What the check makes of the character at i leads on through the placeholder.
Moves(s, b, ph, st, i, inf, token) ==
  /\ At(s, i) # NUL
  /\ \/ /\ token.ret = "NEXT_CHAR" /\ st < 9
        /\ Within(ph, s, st, token.info, b, i + 1)
     \/ /\ token.ret = "NEXT_STAGE" /\ st < 9
        /\ Within(ph, s, st + 1, inf, b + Len(Part(ph, st)), i)
     \/ /\ token.ret = "FOUND" /\ st < 9
        /\ Within(ph, s, st + 1, token.info, b + Len(Part(ph, st)), i + 1)
     \/ token.ret = "STOP" /\ st = 9 /\ i = b /\ inf = ph

LEMMA ColonFacts == ":" # NUL /\ OPEN # NUL /\ CLOSE # NUL /\ CLOSE # " "
<1>1. ":" # NUL
  BY DEF NUL
<1>2. OPEN # NUL /\ CLOSE # NUL /\ CLOSE # " "
  BY Zenon DEF NUL, OPEN, CLOSE
<1> QED
  BY <1>1, <1>2

LEMMA WithinStart ==
  ASSUME NEW ph, NEW s, NEW st, NEW inf, NEW b, NEW i,
         i = b, inf = Partial(ph, st), st = 2 => At(s, b - 1) = ":"
  PROVE  Within(ph, s, st, inf, b, i)
  BY DEF Within

LEMMA MovesFound ==
  ASSUME NEW s, NEW b \in Nat, NEW ph, NEW st \in 1 .. 8, NEW up, up = st + 1,
         NEW i \in Nat, NEW inf, NEW token, NEW found,
         token = Found(found), found = Partial(ph, up),
         At(s, i) # NUL, i + 1 = b + Len(Part(ph, st)), st = 1 => At(s, i) = ":"
  PROVE  Moves(s, b, ph, st, i, inf, token)
<1> DEFINE next == b + Len(Part(ph, st))
<1>1. (i + 1) - 1 = i /\ (st + 1 = 2 => st = 1) /\ st < 9
  OBVIOUS
<1>2. st + 1 = 2 => At(s, next - 1) = ":"
  BY <1>1
<1>3. i + 1 = next
  OBVIOUS
<1> HIDE DEF next
<1>4. Within(ph, s, st + 1, found, next, i + 1)
  BY <1>2, <1>3, WithinStart
<1> QED
  BY <1>1, <1>4 DEF Moves, Found, Token, next

LEMMA MovesStage ==
  ASSUME NEW s, NEW b \in Nat, NEW ph, NEW st \in 2 .. 8, NEW up, up = st + 1,
         NEW i, NEW inf, NEW token, token = NextStage(inf), inf = Partial(ph, up),
         At(s, i) # NUL, i = b, Part(ph, st) = <<>>
  PROVE  Moves(s, b, ph, st, i, inf, token)
<1> DEFINE next == b + Len(Part(ph, st))
<1>1. next = b /\ st + 1 # 2 /\ st < 9
  OBVIOUS
<1> HIDE DEF next
<1>2. Within(ph, s, st + 1, inf, next, i)
  BY <1>1, WithinStart
<1> QED
  BY <1>1, <1>2 DEF Moves, NextStage, Token, next

LEMMA SpecifierMoves ==
  ASSUME NEW s, NEW b, NEW ph, NEW i, NEW inf, Comes(s, b, ph, 1),
         Within(ph, s, 1, inf, b, i)
  PROVE  Moves(s, b, ph, 1, i, inf, check_token(1, s, i, inf))
<1>1. i = b /\ inf = Partial(ph, 1)
  BY DEF Within
<1>2. /\ s \in Seq(Char) /\ b \in Nat /\ Askable(ph) /\ Ahead(s, b, Part(ph, 1))
  BY ComesNext DEF Comes
<1>3. Part(ph, 1) = <<":">> /\ Len(Part(ph, 1)) = 1
  <2>1. Len(<<":">>) = 1
    OBVIOUS
  <2> QED
    BY <1>2, <2>1, FirstParts
<1>4. At(s, i) = ":"
  BY <1>1, <1>2, <1>3, AheadChar
<1>5. check_token(1, s, i, inf) = Found(inf)
  BY <1>4 DEF check_token, check_specifier_start
<1>6. Partial(ph, 2) = Partial(ph, 1)
  BY <1>2, PartialNext
<1>7. i \in Nat /\ i + 1 = b + Len(Part(ph, 1))
  BY <1>1, <1>2, <1>3
<1>8. 1 \in 1 .. 8 /\ 2 = 1 + 1
  OBVIOUS
<1> QED
  BY <1>1, <1>2, <1>4, <1>5, <1>6, <1>7, <1>8, ColonFacts, MovesFound

\* The characters from the alignment on.
LEMMA AfterAlignment ==
  ASSUME NEW s, NEW b, NEW ph, Comes(s, b, ph, 3)
  PROVE  /\ At(s, b) \notin DOMAIN Alignments /\ At(s, b + 1) \notin DOMAIN Alignments
         /\ At(s, b) # NUL
<1>1. b \in Nat /\ Askable(ph)
  BY DEF Comes
<1>2. Len(Rest(ph, 3)) \in Nat /\ Len(Rest(ph, 3)) >= 2
  BY <1>1, RestLength
<1> DEFINE last == Len(Rest(ph, 3)) - 1
<1>3. 0 \in 0 .. last /\ 1 \in 0 .. last /\ b + 0 = b
  BY <1>1, <1>2
<1>4. \A j \in 0 .. last : At(s, b + j) \notin Foreign(3)
  BY ComesOwn
<1> HIDE DEF last
<1>5. At(s, b) \notin Foreign(3) /\ At(s, b + 1) \notin Foreign(3)
  BY <1>3, <1>4
<1>6. 3 \in 3 .. 9
  OBVIOUS
<1> QED
  BY <1>5, <1>6, ForeignFacts

LEMMA AlignMoves ==
  ASSUME NEW s, NEW b, NEW ph, NEW i, NEW inf, NEW st, st = 2, NEW up, up = 3,
         Comes(s, b, ph, st),
         Within(ph, s, st, inf, b, i)
  PROVE  Moves(s, b, ph, st, i, inf, check_token(st, s, i, inf))
<1> DEFINE token == check_token(st, s, i, inf)
<1>1. /\ s \in Seq(Char) /\ b \in Nat /\ Askable(ph) /\ Ahead(s, b, Part(ph, st))
      /\ Comes(s, b + Len(Part(ph, st)), ph, up)
    <2>1. st \in 1 .. 8 /\ st + 1 = up
    OBVIOUS
  <2> QED
    BY <2>1, ComesNext DEF Comes
<1>2. /\ inf = Partial(ph, st)
      /\ \/ i = b /\ At(s, b - 1) = ":"
         \/ i = b + 1 /\ Len(Part(ph, st)) = 2
  BY DEF Within
<1>3. inf.fill_char = NUL
  <2>1. inf = NoInfo
    BY <1>1, <1>2, PartialNext
  <2> QED
    BY <2>1 DEF NoInfo
<1>4. token = check_align(s, i, inf)
  BY DEF check_token
<1>5. CASE ph.alignment = "DEFAULT" /\ ph.fill_char = NUL /\ Part(ph, st) = <<>>
  <2>1. Len(Part(ph, st)) = 0
    BY <1>5
  <2>2. i = b
    BY <1>2, <2>1
  <2>7. Comes(s, b, ph, up)
    <3>1. b + 0 = b
      BY <1>1
    <3> QED
      BY <1>1, <2>1, <3>1
  <2>3. /\ At(s, i) \notin DOMAIN Alignments /\ At(s, i + 1) \notin DOMAIN Alignments
        /\ At(s, i) # NUL
    BY <2>2, <2>7, AfterAlignment
  <2>4. token = NextStage(inf)
    BY <1>4, <2>3 DEF check_align
  <2>5. inf = Partial(ph, up)
    BY <1>1, <1>2, <1>5, PartialSame
  <2>6. st \in 2 .. 8 /\ up = st + 1
    OBVIOUS

  <2> QED
    BY <1>1, <1>5, <2>2, <2>3, <2>4, <2>5, <2>6, MovesStage
<1>6. ASSUME NEW a \in DOMAIN Alignments, ph.alignment = Alignments[a],
             ph.fill_char = NUL, Part(ph, st) = <<a>>
      PROVE  Moves(s, b, ph, st, i, inf, token)
  <2>1. Len(Part(ph, st)) = 1
    BY <1>6
  <2>2. i = b /\ At(s, i - 1) = ":" /\ At(s, i) = a
    <3>1. At(s, b) = a
      BY <1>1, <1>6, AheadChar
    <3> QED
      BY <1>2, <2>1, <3>1
  <2>3. Comes(s, i + 1, ph, up)
    BY <1>1, <2>1, <2>2
  <2>4. At(s, i + 1) \notin DOMAIN Alignments
    BY <2>3, AfterAlignment
  <2> DEFINE found == [inf EXCEPT !.alignment = ph.alignment, !.fill_char = NUL]
  <2>5. token = Found(found)
    <3>1. inf.fill_char = NUL
      BY <1>3
    <3>2. token = Found([inf EXCEPT !.alignment = Alignments[a],
                                    !.fill_char = inf.fill_char])
      BY <1>4, <2>2, <2>4 DEF check_align
    <3> QED
      BY <1>6, <3>1, <3>2
  <2>6. found = Partial(ph, up)
    BY <1>1, <1>2, <1>6, PartialNext
  <2>7. At(s, i) # NUL
    BY <1>6, <2>2 DEF Alignments, NUL
  <2> HIDE DEF found, token
  <2>8. st \in 1 .. 8 /\ up = st + 1 /\ st # 1
    OBVIOUS
  <2>9. i \in Nat /\ i + 1 = b + Len(Part(ph, st))
    BY <1>1, <2>1, <2>2
  <2> QED
    BY <1>1, <2>5, <2>6, <2>7, <2>8, <2>9, MovesFound
<1>7. ASSUME NEW a \in DOMAIN Alignments, ph.alignment = Alignments[a],
             ph.fill_char \notin {NUL, ":"}, Part(ph, st) = <<ph.fill_char, a>>
      PROVE  Moves(s, b, ph, st, i, inf, token)
  <2>1. Len(Part(ph, st)) = 2
    BY <1>7
  <2>2. At(s, b) = ph.fill_char /\ At(s, b + 1) = a
    BY <1>1, <1>7, AheadTwo
  <2>3. CASE i = b
    <3>1. token = NextChar(inf)
      BY <1>4, <1>7, <2>2, <2>3 DEF check_align
    <3>2. Within(ph, s, st, inf, b, i + 1)
      BY <1>2, <2>1, <2>3 DEF Within
    <3> QED
      BY <1>7, <2>2, <2>3, <3>1, <3>2 DEF Moves, NextChar, Token
  <2>4. CASE i = b + 1
    <3>1. i + 1 = b + Len(Part(ph, st)) /\ i - 1 = b
      <4>1. (b + 1) + 1 = b + 2 /\ (b + 1) - 1 = b
        BY <1>1
      <4> QED
        BY <2>1, <2>4, <4>1
    <3>2. At(s, i + 1) \notin DOMAIN Alignments
      BY <1>1, <3>1, AfterAlignment
    <3> DEFINE found == [inf EXCEPT !.alignment = ph.alignment,
                                    !.fill_char = ph.fill_char]
    <3>3. token = Found(found)
      BY <1>4, <1>7, <2>2, <2>4, <3>1, <3>2 DEF check_align
    <3>4. found = Partial(ph, up)
      BY <1>1, <1>2, PartialNext
    <3>5. At(s, i) # NUL
      BY <1>7, <2>2, <2>4 DEF Alignments, NUL
    <3> HIDE DEF found, token
    <3>6. st \in 1 .. 8 /\ up = st + 1 /\ st # 1
      OBVIOUS
    <3>7. i \in Nat
      BY <1>1, <2>4
    <3> QED
      BY <1>1, <3>1, <3>3, <3>4, <3>5, <3>6, <3>7, MovesFound
  <2> QED
    BY <1>2, <2>3, <2>4
<1> QED
  BY <1>1, <1>5, <1>6, <1>7, FirstParts

\* The character ahead after the alignment, and what comes after an empty part.
LEMMA ComesChar ==
  ASSUME NEW s, NEW b, NEW ph, NEW st \in 3 .. 9, Comes(s, b, ph, st)
  PROVE  At(s, b) \notin Foreign(st) /\ At(s, b) # NUL
<1>1. b \in Nat /\ Askable(ph)
  BY DEF Comes
<1>2. Len(Rest(ph, st)) \in Nat /\ Len(Rest(ph, st)) >= 1
  <2>1. CASE st \in 3 .. 8
    BY <1>1, <2>1, RestLength
  <2>2. CASE st = 9
    <3>1. Rest(ph, st) = <<CLOSE>>
      BY <1>1, <2>2, TypePart, RestUnfolds
    <3>2. Len(Rest(ph, st)) = 1
      BY <3>1
    <3> QED
      BY <3>2
  <2>3. st \in 3 .. 8 \/ st = 9
    OBVIOUS
  <2> QED
    BY <2>1, <2>2, <2>3
<1> DEFINE last == Len(Rest(ph, st)) - 1
<1>3. 0 \in 0 .. last /\ b + 0 = b
  BY <1>1, <1>2
<1>4. \A j \in 0 .. last : At(s, b + j) \notin Foreign(st)
  BY ComesOwn
<1> HIDE DEF last
<1>5. At(s, b) \notin Foreign(st)
  BY <1>3, <1>4
<1> QED
  BY <1>5, ForeignFacts

LEMMA ComesAfterNone ==
  ASSUME NEW s, NEW b, NEW ph, NEW st \in 1 .. 8, NEW up, up = st + 1,
         Comes(s, b, ph, st), Part(ph, st) = <<>>
  PROVE  Comes(s, b, ph, up)
<1>1. b + Len(Part(ph, st)) = b
  <2>1. Len(<<>>) = 0 /\ b \in Nat
    BY DEF Comes
  <2> QED
    BY <2>1
<1>2. Comes(s, b + Len(Part(ph, st)), ph, st + 1)
  BY ComesNext
<1> QED
  BY <1>1, <1>2

\* A stage whose part is one character, or none.
LEMMA OneMoves ==
  ASSUME NEW s, NEW b, NEW ph, NEW i, NEW inf, NEW st \in 3 .. 8, NEW up, up = st + 1,
         NEW c, NEW token, NEW found,
         Comes(s, b, ph, st), i = b, Part(ph, st) = <<c>>,
         At(s, b) = c => token = Found(found), found = Partial(ph, up)
  PROVE  Moves(s, b, ph, st, i, inf, token)
<1>1. s \in Seq(Char) /\ b \in Nat /\ Ahead(s, b, Part(ph, st))
  <2>1. s \in Seq(Char) /\ b \in Nat
    BY DEF Comes
  <2>2. st \in 1 .. 8
    OBVIOUS
  <2>3. Ahead(s, b, Part(ph, st))
    BY <2>2, ComesNext
  <2> QED
    BY <2>1, <2>3
<1>2. At(s, b) = c
  BY <1>1, AheadChar
<1>3. At(s, i) # NUL
  BY ComesChar
<1>4. i + 1 = b + Len(Part(ph, st))
  <2>1. Len(<<c>>) = 1
    OBVIOUS
  <2> QED
    BY <2>1
<1>5. i \in Nat /\ st \in 1 .. 8 /\ st # 1
  BY <1>1
<1> QED
  BY <1>1, <1>2, <1>3, <1>4, <1>5, MovesFound

LEMMA NoneMoves ==
  ASSUME NEW s, NEW b, NEW ph, NEW i, NEW inf, NEW st \in 3 .. 8, NEW up, up = st + 1,
         NEW token, Comes(s, b, ph, st), i = b, Part(ph, st) = <<>>,
         token = NextStage(inf), inf = Partial(ph, up)
  PROVE  Moves(s, b, ph, st, i, inf, token)
<1>1. b \in Nat
  BY DEF Comes
<1>2. At(s, i) # NUL
  BY ComesChar
<1>3. st \in 2 .. 8
  OBVIOUS
<1> QED
  BY <1>1, <1>2, <1>3, MovesStage

LEMMA SignMoves ==
  ASSUME NEW s, NEW b, NEW ph, NEW i, NEW inf, NEW st, st = 3, NEW up, up = 4,
         Comes(s, b, ph, st), Within(ph, s, st, inf, b, i)
  PROVE  Moves(s, b, ph, st, i, inf, check_token(st, s, i, inf))
<1> DEFINE token == check_token(st, s, i, inf)
<1>1. st \in 3 .. 8 /\ st \in 1 .. 8 /\ up = st + 1 /\ up \in 3 .. 9 /\ up > 3
  OBVIOUS
<1>2. Askable(ph) /\ i = b /\ inf = Partial(ph, st)
  BY DEF Within, Comes
<1>3. Part(ph, st) = SignMark(ph) /\ token = check_sign(At(s, i), inf)
  BY DEF Part, check_token
<1>4. ph.sign \in {"NEG", "BOTH", "POS_LEADING"}
  BY <1>2 DEF Askable, Infos
<1> HIDE DEF token
<1>5. CASE ph.sign = "NEG"
  <2>1. Part(ph, st) = <<>>
    BY <1>3, <1>5 DEF SignMark
  <2>2. Comes(s, b, ph, up)
    BY <1>1, <2>1, ComesAfterNone
  <2>3. At(s, i) \notin DOMAIN Signs
    BY <1>1, <1>2, <2>2, ComesChar, ForeignFacts
  <2>4. token = NextStage(inf)
    BY <1>3, <2>3 DEF check_sign
  <2>5. inf = Partial(ph, up)
    BY <1>2, <1>5, PartialSame
  <2>6. Moves(s, b, ph, st, i, inf, token)
    BY <1>1, <1>2, <2>1, <2>4, <2>5, NoneMoves
  <2> QED
    BY <2>6 DEF token
<1>6. ASSUME NEW c \in DOMAIN Signs, Signs[c] = ph.sign, Part(ph, st) = <<c>>
      PROVE  Moves(s, b, ph, st, i, inf, token)
  <2> DEFINE found == [inf EXCEPT !.sign = ph.sign]
  <2>1. found = Partial(ph, up)
    BY <1>2, PartialNext
  <2>2. At(s, b) = c => token = Found(found)
    BY <1>2, <1>3, <1>6 DEF check_sign
  <2> HIDE DEF found
  <2> QED
    BY <1>1, <1>2, <1>6, <2>1, <2>2, OneMoves
<1>7. CASE ph.sign # "NEG"
  <2>1. \E c \in DOMAIN Signs : Signs[c] = ph.sign /\ SignMark(ph) = <<c>>
    <3>1. /\ "+" \in DOMAIN Signs /\ Signs["+"] = "BOTH"
          /\ " " \in DOMAIN Signs /\ Signs[" "] = "POS_LEADING"
      BY DEF Signs
    <3> QED
      BY <1>4, <1>7, <3>1 DEF SignMark
  <2>2. PICK c \in DOMAIN Signs : Signs[c] = ph.sign /\ Part(ph, st) = <<c>>
    BY <1>3, <2>1
  <2>3. Moves(s, b, ph, st, i, inf, token)
    BY <1>6, <2>2
  <2> QED
    BY <2>3 DEF token
<1> QED
  BY <1>5, <1>7

LEMMA AlternativeMoves ==
  ASSUME NEW s, NEW b, NEW ph, NEW i, NEW inf, NEW st, st = 4, NEW up, up = 5,
         Comes(s, b, ph, st), Within(ph, s, st, inf, b, i)
  PROVE  Moves(s, b, ph, st, i, inf, check_token(st, s, i, inf))
<1> DEFINE token == check_token(st, s, i, inf)
<1>1. st \in 3 .. 8 /\ st \in 1 .. 8 /\ up = st + 1 /\ up \in 3 .. 9 /\ up > 4
  OBVIOUS
<1>2. Askable(ph) /\ i = b /\ inf = Partial(ph, st)
  BY DEF Within, Comes
<1>3. /\ Part(ph, st) = Option(ph.alternate_form, "#")
      /\ token = check_alternative(At(s, i), inf)
  BY DEF Part, check_token
<1>4. ph.alternate_form \in BOOLEAN
  BY <1>2 DEF Askable, Infos
<1> HIDE DEF token
<1>5. CASE ph.alternate_form = FALSE
  <2>1. Part(ph, st) = <<>>
    BY <1>3, <1>5 DEF Option
  <2>2. Comes(s, b, ph, up)
    BY <1>1, <2>1, ComesAfterNone
  <2>3. At(s, i) # "#"
    <3>1. At(s, i) \notin Foreign(up)
      BY <1>1, <1>2, <2>2, ComesChar
    <3>2. "#" \in Foreign(up)
      BY <1>1, ForeignFacts
    <3> QED
      BY <3>1, <3>2
  <2>4. token = NextStage(inf)
    BY <1>3, <2>3 DEF check_alternative
  <2>5. inf = Partial(ph, up)
    BY <1>2, <1>5, PartialSame
  <2>6. Moves(s, b, ph, st, i, inf, token)
    BY <1>1, <1>2, <2>1, <2>4, <2>5, NoneMoves
  <2> QED
    BY <2>6 DEF token
<1>6. CASE ph.alternate_form = TRUE
  <2> DEFINE found == [inf EXCEPT !.alternate_form = TRUE]
             c == "#"
  <2>1. found = Partial(ph, up)
    BY <1>2, <1>6, PartialNext
  <2>2. At(s, b) = c => token = Found(found)
    BY <1>2, <1>3 DEF check_alternative
  <2>3. Part(ph, st) = <<c>>
    BY <1>3, <1>6 DEF Option
  <2> HIDE DEF found, c
  <2>4. Moves(s, b, ph, st, i, inf, token)
    BY <1>1, <1>2, <2>1, <2>2, <2>3, OneMoves
  <2> QED
    BY <2>4 DEF token
<1> QED
  BY <1>4, <1>5, <1>6

LEMMA ZeroMoves ==
  ASSUME NEW s, NEW b, NEW ph, NEW i, NEW inf, NEW st, st = 5, NEW up, up = 6,
         Comes(s, b, ph, st), Within(ph, s, st, inf, b, i)
  PROVE  Moves(s, b, ph, st, i, inf, check_token(st, s, i, inf))
<1> DEFINE token == check_token(st, s, i, inf)
<1>1. st \in 3 .. 8 /\ st \in 1 .. 8 /\ up = st + 1
  OBVIOUS
<1>2. Askable(ph) /\ i = b /\ inf = Partial(ph, st)
  BY DEF Within, Comes
<1>3. /\ Part(ph, st) = Option(ph.zero_padding, "0")
      /\ token = check_zeropadding(At(s, i), inf)
  BY DEF Part, check_token
<1>4. ph.zero_padding \in BOOLEAN
  BY <1>2 DEF Askable, Infos
<1> HIDE DEF token
<1>5. CASE ph.zero_padding = FALSE
  <2>1. Part(ph, st) = <<>>
    BY <1>3, <1>5 DEF Option
  <2>2. Comes(s, b, ph, up)
    BY <1>1, <2>1, ComesAfterNone
  <2>3. At(s, i) # "0"
    BY <1>2, <2>2, WidthComes
  <2>4. token = NextStage(inf)
    BY <1>3, <2>3 DEF check_zeropadding
  <2>5. inf = Partial(ph, up)
    BY <1>2, <1>5, PartialSame
  <2>6. Moves(s, b, ph, st, i, inf, token)
    BY <1>1, <1>2, <2>1, <2>4, <2>5, NoneMoves
  <2> QED
    BY <2>6 DEF token
<1>6. CASE ph.zero_padding = TRUE
  <2> DEFINE found == [inf EXCEPT !.zero_padding = TRUE]
             c == "0"
  <2>1. found = Partial(ph, up)
    BY <1>2, <1>6, PartialNext
  <2>2. At(s, b) = c => token = Found(found)
    BY <1>2, <1>3 DEF check_zeropadding
  <2>3. Part(ph, st) = <<c>>
    BY <1>3, <1>6 DEF Option
  <2> HIDE DEF found, c
  <2>4. Moves(s, b, ph, st, i, inf, token)
    BY <1>1, <1>2, <2>1, <2>2, <2>3, OneMoves
  <2> QED
    BY <2>4 DEF token
<1> QED
  BY <1>4, <1>5, <1>6

LEMMA TypeMoves ==
  ASSUME NEW s, NEW b, NEW ph, NEW i, NEW inf, NEW st, st = 8, NEW up, up = 9,
         Comes(s, b, ph, st), Within(ph, s, st, inf, b, i)
  PROVE  Moves(s, b, ph, st, i, inf, check_token(st, s, i, inf))
<1> DEFINE token == check_token(st, s, i, inf)
           found == [inf EXCEPT !.type = ph.type]
<1>1. st \in 3 .. 8 /\ st \in 1 .. 8 /\ up = st + 1
  OBVIOUS
<1>2. Askable(ph) /\ i = b /\ inf = Partial(ph, st)
  BY DEF Within, Comes
<1>3. token = check_type(At(s, i), inf)
  BY DEF check_token
<1> HIDE DEF token
<1>4. PICK c \in DOMAIN Types : Types[c] = ph.type /\ Part(ph, st) = <<c>>
  BY <1>2, TypePart
<1>5. found = Partial(ph, up)
  BY <1>2, PartialNext
<1>6. At(s, b) = c => token = Found(found)
  BY <1>2, <1>3, <1>4 DEF check_type
<1> HIDE DEF found
<1>7. Moves(s, b, ph, st, i, inf, token)
  BY <1>1, <1>2, <1>4, <1>5, <1>6, OneMoves
<1> QED
  BY <1>7 DEF token

LEMMA EndMoves ==
  ASSUME NEW s, NEW b, NEW ph, NEW i, NEW inf, NEW st, st = 9,
         Comes(s, b, ph, st), Within(ph, s, st, inf, b, i)
  PROVE  Moves(s, b, ph, st, i, inf, check_token(st, s, i, inf))
<1> DEFINE token == check_token(st, s, i, inf)
<1>1. st \in 3 .. 9
  OBVIOUS
<1>2. s \in Seq(Char) /\ b \in Nat /\ Askable(ph) /\ i = b /\ inf = Partial(ph, st)
  BY DEF Within, Comes
<1>3. Ahead(s, b, <<CLOSE>>)
  BY <1>2, TypePart, RestUnfolds DEF Comes
<1>4. At(s, i) = CLOSE
  BY <1>2, <1>3, AheadChar
<1>5. token = check_end(CLOSE, inf)
  BY <1>4 DEF check_token
<1>6. token.ret = "STOP"
  <2>1. check_end(CLOSE, inf) = Token("STOP", inf)
    BY ColonFacts DEF check_end
  <2> QED
    BY <1>5, <2>1 DEF Token
<1>7. inf = ph
  BY <1>2, PartialSame
<1>8. At(s, i) # NUL
  BY <1>4, ColonFacts
<1> QED
  BY <1>2, <1>6, <1>7, <1>8 DEF Moves

LEMMA WidthMoves ==
  ASSUME NEW s, NEW b, NEW ph, NEW i, NEW inf, NEW st, st = 6, NEW up, up = 7,
         Comes(s, b, ph, st), Within(ph, s, st, inf, b, i)
  PROVE  Moves(s, b, ph, st, i, inf, check_token(st, s, i, inf))
<1> DEFINE token == check_token(st, s, i, inf)
           p == Partial(ph, st)
           n == ph.min_width
           len == Len(Numeral(n))
           last == b + len - 1
<1>1. /\ st \in 3 .. 8 /\ st \in 1 .. 8 /\ up = st + 1 /\ st \in 1 .. 9
      /\ st # 1 /\ st # 2 /\ st # 7 /\ st < 9
  OBVIOUS
<1>2. s \in Seq(Char) /\ b \in Nat /\ Askable(ph) /\ Comes(s, b + Len(Part(ph, st)), ph, up)
  BY <1>1, ComesNext DEF Comes
<1>3. token = check_minwidth(s, i, inf)
  BY DEF check_token
<1>4. /\ Part(ph, st) = Numeral(n) /\ Ahead(s, b, Numeral(n))
      /\ n \in 0 .. (RegWrap - 1)
      /\ n # 0 => n \in 1 .. (RegWrap - 1)
  BY WidthPart
<1>5. \/ i = b /\ inf = p
      \/ i \in (b + 1) .. (b + Len(Part(ph, st)) - 1) /\ inf = [p EXCEPT !.minwidth_start = b]
  BY <1>1 DEF Within
<1>6. CASE n = 0
  <2>1. Part(ph, st) = <<>>
    BY <1>4, <1>6 DEF Numeral
  <2>2. i = b /\ inf = p
    <3>1. Len(Part(ph, st)) = 0
      BY <2>1
    <3> HIDE DEF p
    <3> QED
      BY <1>2, <1>5, <3>1
  <2>3. Comes(s, b, ph, up)
    BY <1>1, <2>1, ComesAfterNone
  <2>4. At(s, i) \notin Decimal
    BY <2>2, <2>3, PreciseComes
  <2>5. inf = Partial(ph, up)
    BY <1>2, <1>6, <2>2, PartialSame
  <2> HIDE DEF token
  <2>6. token = NextStage(inf)
    BY <1>3, <2>4 DEF check_minwidth
  <2>7. Moves(s, b, ph, st, i, inf, token)
    BY <1>1, <2>1, <2>2, <2>5, <2>6, NoneMoves
  <2> QED
    BY <2>7 DEF token
<1>7. CASE n # 0
  <2>1. /\ len \in Nat \ {0} /\ \A k \in b .. last : At(s, k) \in Decimal
        /\ atodec(s, b, last) = n
    <3>1. n \in 1 .. (RegWrap - 1)
      BY <1>4, <1>7
    <3> HIDE DEF n
    <3>2. /\ len \in Nat \ {0}
          /\ \A k \in b .. (b + len - 1) : At(s, k) \in Decimal
          /\ atodec(s, b, b + len - 1) = n
      BY <1>2, <1>4, <3>1, NumeralAhead
    <3> QED
      BY <3>2
  <2>2. Len(Part(ph, st)) = len
    BY <1>4
  <2>3. At(s, b + len) \notin Decimal
    BY <1>2, <2>2, PreciseComes
  <2>4. p \in Infos /\ p.minwidth_start = NULL /\ p.precise_start = NULL
    <3>1. p \in Infos
      BY <1>1, <1>2, PartialFields
    <3>2. p.minwidth_start = NULL /\ p.precise_start = NULL
      BY DEF Partial
    <3> QED
      BY <3>1, <3>2
  <2> HIDE DEF token, p, n, len
  <2>5. last \in Int /\ b <= last /\ last + 1 = b + len
    BY <1>2, <2>1
  <2>6. \/ i = b /\ inf = p
        \/ i \in (b + 1) .. last /\ inf = [p EXCEPT !.minwidth_start = b]
    BY <1>5, <2>2
  <2> HIDE DEF last
  <2>7. i \in b .. last /\ i \in Nat
    BY <1>2, <2>5, <2>6
  <2>8. At(s, i) \in Decimal
    BY <2>1, <2>7
  <2>9. At(s, i) # NUL
    BY <2>8, MarkFacts
  <2>10. Start(inf.minwidth_start, i) = b
    <3>1. CASE i = b /\ inf = p
      BY <2>4, <3>1 DEF Start
    <3>2. CASE inf = [p EXCEPT !.minwidth_start = b]
      <4>1. inf.minwidth_start = b
        BY <2>4, <3>2 DEF Infos
      <4>2. b # NULL
        BY <1>2 DEF NULL
      <4> QED
        BY <4>1, <4>2 DEF Start
    <3> QED
      BY <2>6, <3>1, <3>2
  <2>11. /\ [inf EXCEPT !.minwidth_start = b] = [p EXCEPT !.minwidth_start = b]
         /\ [inf EXCEPT !.min_width = n, !.minwidth_start = NULL] = [p EXCEPT !.min_width = n]
    <3>1. CASE inf = p
      <4>1. [p EXCEPT !.min_width = n, !.minwidth_start = NULL] = [p EXCEPT !.min_width = n]
        BY <2>4 DEF Infos
      <4> QED
        BY <3>1, <4>1
    <3>2. CASE inf = [p EXCEPT !.minwidth_start = b]
      <4>1. [[p EXCEPT !.minwidth_start = b] EXCEPT !.min_width = n, !.minwidth_start = NULL]
              = [p EXCEPT !.min_width = n]
        BY <2>4 DEF Infos
      <4>2. [[p EXCEPT !.minwidth_start = b] EXCEPT !.minwidth_start = b]
              = [p EXCEPT !.minwidth_start = b]
        BY <2>4 DEF Infos
      <4> QED
        BY <3>2, <4>1, <4>2
    <3> QED
      BY <2>6, <3>1, <3>2
  <2>12. CASE i < last
    <3>1. i + 1 \in b .. last /\ i + 1 \in (b + 1) .. last
      BY <1>2, <2>5, <2>7, <2>12
    <3>2. At(s, i + 1) \in Decimal
      BY <2>1, <3>1
    <3>3. token = NextChar([p EXCEPT !.minwidth_start = b])
      BY <1>3, <2>8, <2>10, <2>11, <3>2 DEF check_minwidth
    <3>4. i + 1 \in (b + 1) .. (b + Len(Part(ph, st)) - 1)
      BY <2>2, <3>1 DEF last
    <3>5. Within(ph, s, st, [p EXCEPT !.minwidth_start = b], b, i + 1)
      BY <3>4 DEF Within, p
    <3>6. token.ret = "NEXT_CHAR" /\ token.info = [p EXCEPT !.minwidth_start = b]
      BY <3>3 DEF NextChar, Token
    <3>7. Moves(s, b, ph, st, i, inf, token)
      BY <1>1, <2>9, <3>5, <3>6 DEF Moves
    <3> QED
      BY <3>7 DEF token
  <2>13. CASE i = last
    <3>1. At(s, i + 1) \notin Decimal
      BY <2>3, <2>5, <2>13
    <3> DEFINE found == [p EXCEPT !.min_width = n]
    <3>2. token = Found([inf EXCEPT !.min_width = atodec(s, b, i), !.minwidth_start = NULL])
      BY <1>3, <2>8, <2>10, <3>1 DEF check_minwidth
    <3>3. token = Found(found)
      BY <2>1, <2>11, <2>13, <3>2
    <3>4. found = Partial(ph, up)
      BY <1>2, PartialNext DEF p, n
    <3> HIDE DEF found
    <3>5. i + 1 = b + Len(Part(ph, st))
      BY <2>2, <2>5, <2>13
    <3>6. Moves(s, b, ph, st, i, inf, token)
      BY <1>1, <1>2, <2>7, <2>9, <3>3, <3>4, <3>5, MovesFound
    <3> QED
      BY <3>6 DEF token
  <2> QED
    BY <2>5, <2>7, <2>12, <2>13
<1> QED
  BY <1>6, <1>7

LEMMA PreciseMoves ==
  ASSUME NEW s, NEW b, NEW ph, NEW i, NEW inf, NEW st, st = 7, NEW up, up = 8,
         Comes(s, b, ph, st), Within(ph, s, st, inf, b, i)
  PROVE  Moves(s, b, ph, st, i, inf, check_token(st, s, i, inf))
<1> DEFINE token == check_token(st, s, i, inf)
           p == Partial(ph, st)
           n == ph.precise
           len == Len(Numeral(n))
           from == b + 1
           last == b + len
<1>1. /\ st \in 3 .. 8 /\ st \in 1 .. 8 /\ up = st + 1 /\ st \in 1 .. 9
      /\ st # 1 /\ st # 2 /\ st # 6 /\ st < 9
  OBVIOUS
<1>2. s \in Seq(Char) /\ b \in Nat /\ Askable(ph) /\ Comes(s, b + Len(Part(ph, st)), ph, up)
  BY <1>1, ComesNext DEF Comes
<1>3. token = check_precise(s, i, inf)
  BY DEF check_token
<1>4. n \in 0 .. (RegWrap - 1)
  BY <1>2 DEF Askable, Infos
<1>5. \/ i = b /\ inf = p
      \/ i = from /\ n # 0 /\ inf = p
      \/ /\ i \in (b + 2) .. (b + Len(Part(ph, st)) - 1) /\ n # 0
         /\ inf = [p EXCEPT !.precise_start = from]
  BY <1>1 DEF Within
<1>6. CASE n = 0
  <2>1. Part(ph, st) = <<>>
    BY <1>6, NoPrecisePart
  <2>2. i = b /\ inf = p
    BY <1>5, <1>6
  <2>3. Comes(s, b, ph, up)
    BY <1>1, <2>1, ComesAfterNone
  <2>4. At(s, i) \notin Decimal /\ At(s, i) # "."
    BY <1>6, <2>2, PreciseComes
  <2>5. inf = Partial(ph, up)
    BY <1>2, <1>6, <2>2, PartialSame
  <2> HIDE DEF token
  <2>6. token = NextStage(inf)
    BY <1>3, <2>4 DEF check_precise
  <2>7. Moves(s, b, ph, st, i, inf, token)
    BY <1>1, <2>1, <2>2, <2>5, <2>6, NoneMoves
  <2> QED
    BY <2>7 DEF token
<1>7. CASE n # 0
  <2>1. /\ At(s, b) = "." /\ len \in Nat \ {0} /\ Len(Part(ph, st)) = 1 + len
        /\ Ahead(s, from, Numeral(n))
    BY <1>7, PrecisePart
  <2>2. n \in 1 .. (RegWrap - 1) /\ from \in Nat
    <3>1. RegWrap \in Nat
      BY WrapFacts
    <3> QED
      BY <1>2, <1>4, <1>7, <3>1
  <2>3. At(s, b + Len(Part(ph, st))) \notin Decimal
    BY <1>2, TypeComes, MarkFacts
  <2>4. p \in Infos /\ p.precise_start = NULL
    <3>1. p \in Infos
      BY <1>1, <1>2, PartialFields
    <3>2. p.precise_start = NULL
      BY DEF Partial
    <3> QED
      BY <3>1, <3>2
  <2> HIDE DEF token, p, n, from
  <2>5. /\ \A k \in from .. (from + len - 1) : At(s, k) \in Decimal
        /\ atodec(s, from, from + len - 1) = n
    BY <1>2, <2>1, <2>2, NumeralAhead
  <2> HIDE DEF len
  <2>6. last \in Int /\ from <= last /\ from + len - 1 = last
    BY <1>2, <2>1 DEF from
  <2>7. /\ \A k \in from .. last : At(s, k) \in Decimal
        /\ atodec(s, from, last) = n
    BY <2>5, <2>6
  <2>8. b + Len(Part(ph, st)) = last + 1 /\ b + Len(Part(ph, st)) - 1 = last
    BY <1>2, <2>1
  <2>9. At(s, last + 1) \notin Decimal
    BY <2>3, <2>8
  <2> HIDE DEF last
  <2>10. CASE i = b /\ inf = p
    <3>1. i + 1 = from /\ from \in from .. last
      BY <2>2, <2>6, <2>10 DEF from
    <3>2. At(s, i + 1) \in Decimal /\ At(s, i) = "."
      BY <2>1, <2>7, <2>10, <3>1
    <3>3. [inf EXCEPT !.precise_start = NULL] = p
      BY <2>4, <2>10 DEF Infos
    <3>4. token = NextChar(p)
      BY <1>3, <3>2, <3>3, MarkFacts DEF check_precise
    <3>5. token.ret = "NEXT_CHAR" /\ token.info = p
      BY <3>4 DEF NextChar, Token
    <3>6. Within(ph, s, st, p, b, i + 1)
      BY <1>1, <1>7, <3>1 DEF Within, p, n, from
    <3>7. Moves(s, b, ph, st, i, inf, token)
      BY <1>1, <3>2, <3>5, <3>6, MarkFacts DEF Moves
    <3> QED
      BY <3>7 DEF token
  <2>11. CASE \/ i = from /\ inf = p
              \/ i \in (b + 2) .. last /\ inf = [p EXCEPT !.precise_start = from]
    <3>1. i \in from .. last /\ i \in Nat
      BY <1>2, <2>2, <2>6, <2>11 DEF from
    <3>2. At(s, i) \in Decimal
      BY <2>7, <3>1
    <3>3. At(s, i) # NUL /\ At(s, i) # "."
      BY <3>2, MarkFacts
    <3>4. Start(inf.precise_start, i) = from
      <4>1. CASE i = from /\ inf = p
        BY <2>4, <4>1 DEF Start
      <4>2. CASE inf = [p EXCEPT !.precise_start = from]
        <5>1. inf.precise_start = from
          BY <2>4, <4>2 DEF Infos
        <5>2. from # NULL
          BY <2>2 DEF NULL
        <5> QED
          BY <5>1, <5>2 DEF Start
      <4> QED
        BY <2>11, <4>1, <4>2
    <3>5. /\ [inf EXCEPT !.precise_start = from] = [p EXCEPT !.precise_start = from]
          /\ [inf EXCEPT !.precise = n, !.precise_start = NULL] = [p EXCEPT !.precise = n]
      <4>1. CASE inf = p
        <5>1. [p EXCEPT !.precise = n, !.precise_start = NULL] = [p EXCEPT !.precise = n]
          BY <2>4 DEF Infos
        <5> QED
          BY <4>1, <5>1
      <4>2. CASE inf = [p EXCEPT !.precise_start = from]
        <5>1. [[p EXCEPT !.precise_start = from] EXCEPT !.precise = n, !.precise_start = NULL]
                = [p EXCEPT !.precise = n]
          BY <2>4 DEF Infos
        <5>2. [[p EXCEPT !.precise_start = from] EXCEPT !.precise_start = from]
                = [p EXCEPT !.precise_start = from]
          BY <2>4 DEF Infos
        <5> QED
          BY <4>2, <5>1, <5>2
      <4> QED
        BY <2>11, <4>1, <4>2
    <3>6. CASE i < last
      <4>1. i + 1 \in from .. last /\ i + 1 \in (b + 2) .. last
        BY <1>2, <2>6, <3>1, <3>6 DEF from
      <4>2. At(s, i + 1) \in Decimal
        BY <2>7, <4>1
      <4>3. token = NextChar([p EXCEPT !.precise_start = from])
        BY <1>3, <3>2, <3>3, <3>4, <3>5, <4>2 DEF check_precise
      <4>4. Within(ph, s, st, [p EXCEPT !.precise_start = from], b, i + 1)
        BY <1>1, <1>7, <2>8, <4>1 DEF Within, p, n, from
      <4>5. token.ret = "NEXT_CHAR" /\ token.info = [p EXCEPT !.precise_start = from]
        BY <4>3 DEF NextChar, Token
      <4>6. Moves(s, b, ph, st, i, inf, token)
        BY <1>1, <3>3, <4>4, <4>5 DEF Moves
      <4> QED
        BY <4>6 DEF token
    <3>7. CASE i = last
      <4> DEFINE found == [p EXCEPT !.precise = n]
      <4>1. At(s, i + 1) \notin Decimal
        BY <2>9, <3>7
      <4>2. token = Found([inf EXCEPT !.precise = atodec(s, from, i), !.precise_start = NULL])
        BY <1>3, <3>2, <3>3, <3>4, <4>1 DEF check_precise
      <4>3. token = Found(found)
        BY <2>7, <3>5, <3>7, <4>2
      <4>4. found = Partial(ph, up)
        BY <1>2, PartialNext DEF p, n
      <4> HIDE DEF found
      <4>5. i + 1 = b + Len(Part(ph, st))
        BY <2>8, <3>7
      <4>6. Moves(s, b, ph, st, i, inf, token)
        BY <1>1, <1>2, <3>1, <3>3, <4>3, <4>4, <4>5, MovesFound
      <4> QED
        BY <4>6 DEF token
    <3> QED
      BY <2>6, <3>1, <3>6, <3>7
  <2> QED
    BY <1>5, <2>8, <2>10, <2>11
<1> QED
  BY <1>6, <1>7

\* At every stage.
LEMMA TokenMoves ==
  ASSUME NEW s, NEW b, NEW ph, NEW i, NEW inf, NEW st \in 1 .. 9,
         Comes(s, b, ph, st), Within(ph, s, st, inf, b, i)
  PROVE  Moves(s, b, ph, st, i, inf, check_token(st, s, i, inf))
<1>1. CASE st = 1
  BY <1>1, SpecifierMoves
<1>2. CASE st = 2
  BY <1>2, AlignMoves
<1>3. CASE st = 3
  BY <1>3, SignMoves
<1>4. CASE st = 4
  BY <1>4, AlternativeMoves
<1>5. CASE st = 5
  BY <1>5, ZeroMoves
<1>6. CASE st = 6
  BY <1>6, WidthMoves
<1>7. CASE st = 7
  BY <1>7, PreciseMoves
<1>8. CASE st = 8
  BY <1>8, TypeMoves
<1>9. CASE st = 9
  BY <1>9, EndMoves
<1>10. st \in {1, 2, 3, 4, 5, 6, 7, 8, 9}
  OBVIOUS
<1> QED
  BY <1>1, <1>2, <1>3, <1>4, <1>5, <1>6, <1>7, <1>8, <1>9, <1>10

-----------------------------------------------------------------------------
(* The pieces of the format.                                                 *)

\* A text of the format from its index "at" on is ahead there.
LEMMA AheadFromSub ==
  ASSUME NEW s \in Seq(Char), NEW at \in 0 .. Len(s), NEW t \in Seq(Char),
         at + Len(t) <= Len(s), SubSeq(s, at + 1, at + Len(t)) = t
  PROVE  Ahead(s, at, t)
<1>1. Len(t) \in Nat /\ Len(s) \in Nat /\ at \in Nat
  BY LenProperties
<1>2. ASSUME NEW j \in 1 .. Len(t)
      PROVE  At(s, at + j - 1) = t[j]
  <2>1. t[j] = s[(at + 1) + j - 1]
    <3> DEFINE m == at + 1
               n == at + Len(t)
    <3>1. m \in Int /\ n \in Int /\ n - m + 1 = Len(t)
      BY <1>1
    <3>2. \A i \in m .. n : i \in 1 .. Len(s)
      BY <1>1
    <3>3. SubSeq(s, m, n) = t
      OBVIOUS
    <3> HIDE DEF m, n
    <3>4. \A i \in m .. n : s[i] \in Char
      BY <3>2, ElementOfSeq
    <3>5. \A i \in 1 .. n - m + 1 : SubSeq(s, m, n)[i] = s[m + i - 1]
      BY <3>1, <3>4, SubSeqProperties
    <3> QED
      BY <3>1, <3>3, <3>5 DEF m
  <2>2. at + j - 1 < Len(s) /\ (at + 1) + j - 1 = (at + j - 1) + 1
    BY <1>1
  <2> QED
    BY <2>1, <2>2 DEF At
<1> QED
  BY <1>2 DEF Ahead

LEMMA Associative ==
  ASSUME NEW a \in Seq(Char), NEW b \in Seq(Char), NEW c \in Seq(Char)
  PROVE  (a \o b) \o c = a \o (b \o c)
  BY ConcatAssociative

LEMMA Shift ==
  ASSUME NEW a \in Seq(Char), NEW b \in Seq(Char), NEW c \in Seq(Char),
         NEW ab, ab = a \o b, NEW bc, bc = b \o c
  PROVE  ab \o c = a \o bc
  BY Associative

\* A placeholder is its parts, an opening brace and the rest.
LEMMA PlaceholderFacts ==
  ASSUME NEW ph, Askable(ph)
  PROVE  /\ Placeholder(ph) = <<OPEN>> \o Rest(ph, 1)
         /\ Rest(ph, 1) \in Seq(Char)
<1> DEFINE p0 == Part(ph, 0)
           p1 == Part(ph, 1)
           p2 == Part(ph, 2)
           p3 == Part(ph, 3)
           p4 == Part(ph, 4)
           p5 == Part(ph, 5)
           p6 == Part(ph, 6)
           p7 == Part(ph, 7)
           p8 == Part(ph, 8)
           p9 == Part(ph, 9)
<1>1. /\ p1 \in Seq(Char) /\ p2 \in Seq(Char) /\ p3 \in Seq(Char) /\ p4 \in Seq(Char)
      /\ p5 \in Seq(Char) /\ p6 \in Seq(Char) /\ p7 \in Seq(Char) /\ p8 \in Seq(Char)
      /\ p9 \in Seq(Char) /\ Rest(ph, 1) \in Seq(Char)
  <2>1. /\ 1 \in 1 .. 9 /\ 2 \in 1 .. 9 /\ 3 \in 1 .. 9 /\ 4 \in 1 .. 9 /\ 5 \in 1 .. 9
        /\ 6 \in 1 .. 9 /\ 7 \in 1 .. 9 /\ 8 \in 1 .. 9 /\ 9 \in 1 .. 9
    OBVIOUS
  <2> QED
    BY <2>1, RestType
<1>2. p0 = <<OPEN>> /\ p0 \in Seq(Char)
  BY FirstParts
<1>3. Placeholder(ph) = p0 \o p1 \o p2 \o p3 \o p4 \o p5 \o p6 \o p7 \o p8 \o p9
  BY DEF Placeholder
<1>4. Rest(ph, 1) = p1 \o (p2 \o (p3 \o (p4 \o (p5 \o (p6 \o (p7 \o (p8 \o p9)))))))
  <2>1. Rest(ph, 1) = Rest1(ph)
    BY DEF Rest
  <2> QED
    BY <2>1 DEF Rest1, Rest2, Rest3, Rest4, Rest5, Rest6, Rest7, Rest8, Rest9
<1> HIDE DEF p0, p1, p2, p3, p4, p5, p6, p7, p8, p9
<1> DEFINE r8 == p8 \o p9
           r7 == p7 \o r8
           r6 == p6 \o r7
           r5 == p5 \o r6
           r4 == p4 \o r5
           r3 == p3 \o r4
           r2 == p2 \o r3
           q1 == p0 \o p1
           q2 == q1 \o p2
           q3 == q2 \o p3
           q4 == q3 \o p4
           q5 == q4 \o p5
           q6 == q5 \o p6
           q7 == q6 \o p7
<1>5. Placeholder(ph) = (q7 \o p8) \o p9 /\ Rest(ph, 1) = p1 \o r2
  BY <1>3, <1>4
<1>6. r8 \in Seq(Char)
  BY <1>1, ConcatFacts
<1>7. r7 \in Seq(Char)
  BY <1>1, <1>6, ConcatFacts
<1>8. r6 \in Seq(Char)
  BY <1>1, <1>7, ConcatFacts
<1>9. r5 \in Seq(Char)
  BY <1>1, <1>8, ConcatFacts
<1>10. r4 \in Seq(Char)
  BY <1>1, <1>9, ConcatFacts
<1>11. r3 \in Seq(Char)
  BY <1>1, <1>10, ConcatFacts
<1>12. r2 \in Seq(Char)
  BY <1>1, <1>11, ConcatFacts
<1>13. q1 \in Seq(Char)
  BY <1>1, <1>2, ConcatFacts
<1>14. q2 \in Seq(Char)
  BY <1>1, <1>13, ConcatFacts
<1>15. q3 \in Seq(Char)
  BY <1>1, <1>14, ConcatFacts
<1>16. q4 \in Seq(Char)
  BY <1>1, <1>15, ConcatFacts
<1>17. q5 \in Seq(Char)
  BY <1>1, <1>16, ConcatFacts
<1>18. q6 \in Seq(Char)
  BY <1>1, <1>17, ConcatFacts
<1>19. q7 \in Seq(Char)
  BY <1>1, <1>18, ConcatFacts
<1>20. r8 = p8 \o p9
  OBVIOUS
<1>21. q7 = q6 \o p7 /\ r7 = p7 \o r8
  OBVIOUS
<1>22. q6 = q5 \o p6 /\ r6 = p6 \o r7
  OBVIOUS
<1>23. q5 = q4 \o p5 /\ r5 = p5 \o r6
  OBVIOUS
<1>24. q4 = q3 \o p4 /\ r4 = p4 \o r5
  OBVIOUS
<1>25. q3 = q2 \o p3 /\ r3 = p3 \o r4
  OBVIOUS
<1>26. q2 = q1 \o p2 /\ r2 = p2 \o r3
  OBVIOUS
<1>27. q1 = p0 \o p1
  OBVIOUS
<1> HIDE DEF r2, r3, r4, r5, r6, r7, r8, q1, q2, q3, q4, q5, q6, q7
<1>28. (q7 \o p8) \o p9 = q7 \o r8
  <2>1. q7 \in Seq(Char) /\ p8 \in Seq(Char) /\ p9 \in Seq(Char)
    BY <1>1, <1>19
  <2> QED
    BY <1>20, <2>1, Shift
<1>29. q7 \o r8 = q6 \o r7
  <2>1. q6 \in Seq(Char) /\ p7 \in Seq(Char) /\ r8 \in Seq(Char)
    BY <1>1, <1>6, <1>18
  <2> QED
    BY <1>21, <2>1, Shift
<1>30. q6 \o r7 = q5 \o r6
  <2>1. q5 \in Seq(Char) /\ p6 \in Seq(Char) /\ r7 \in Seq(Char)
    BY <1>1, <1>7, <1>17
  <2> QED
    BY <1>22, <2>1, Shift
<1>31. q5 \o r6 = q4 \o r5
  <2>1. q4 \in Seq(Char) /\ p5 \in Seq(Char) /\ r6 \in Seq(Char)
    BY <1>1, <1>8, <1>16
  <2> QED
    BY <1>23, <2>1, Shift
<1>32. q4 \o r5 = q3 \o r4
  <2>1. q3 \in Seq(Char) /\ p4 \in Seq(Char) /\ r5 \in Seq(Char)
    BY <1>1, <1>9, <1>15
  <2> QED
    BY <1>24, <2>1, Shift
<1>33. q3 \o r4 = q2 \o r3
  <2>1. q2 \in Seq(Char) /\ p3 \in Seq(Char) /\ r4 \in Seq(Char)
    BY <1>1, <1>10, <1>14
  <2> QED
    BY <1>25, <2>1, Shift
<1>34. q2 \o r3 = q1 \o r2
  <2>1. q1 \in Seq(Char) /\ p2 \in Seq(Char) /\ r3 \in Seq(Char)
    BY <1>1, <1>11, <1>13
  <2> QED
    BY <1>26, <2>1, Shift
<1>35. q1 \o r2 = p0 \o (p1 \o r2)
  <2>1. p0 \in Seq(Char) /\ p1 \in Seq(Char) /\ r2 \in Seq(Char)
    BY <1>1, <1>2, <1>12
  <2> QED
    BY <1>27, <2>1, Shift
<1> QED
  BY <1>1, <1>2, <1>5, <1>28, <1>29, <1>30, <1>31, <1>32, <1>33, <1>34, <1>35

\* Where a piece begins, its characters come before a placeholder or the end.
PieceAt(s, pieces, i, p) ==
  /\ Len(pieces) \in Nat /\ p.at \in Nat /\ Len(p.lit) \in Nat
  /\ i = 1 => p.at = 0
  /\ p.lit \in Seq(Char) /\ Ahead(s, p.at, p.lit)
  /\ \A j \in 0 .. (Len(p.lit) - 1) : At(s, p.at + j) \notin {OPEN, NUL}
  /\ i = Len(pieces) => p.ph = NoInfo /\ p.at + Len(p.lit) = Len(s)
  /\ i < Len(pieces) =>
       /\ Askable(p.ph)
       /\ At(s, p.at + Len(p.lit)) = OPEN
       /\ Comes(s, p.at + Len(p.lit) + 1, p.ph, 1)
       /\ p.at + Len(p.lit) + 1 + Len(Rest(p.ph, 1)) = pieces[i + 1].at

LEMMA PieceFacts ==
  ASSUME NEW s \in Seq(Char), NEW pieces, WrittenFrom(s, pieces),
         NEW i \in 1 .. Len(pieces), NEW p, p = pieces[i]
  PROVE  PieceAt(s, pieces, i, p)
<1> DEFINE S == [at : 0 .. Len(s), lit : Seq(Char \ {OPEN, NUL}), ph : Infos]
           next == IF i = Len(pieces) THEN Len(s) ELSE pieces[i + 1].at
           lit == p.lit
           at == p.at
           t == Written(pieces, i)
<1>1. /\ pieces \in Seq(S)
      /\ i = 1 => at = 0
      /\ next = at + Len(t)
      /\ SubSeq(s, at + 1, next) = t
      /\ IF i = Len(pieces) THEN p.ph = NoInfo ELSE Askable(p.ph)
  BY DEF WrittenFrom
<1>2. Len(pieces) \in Nat /\ p \in S /\ Len(s) \in Nat
  BY <1>1, LenProperties, ElementOfSeq
<1>3. \A j \in 1 .. Len(pieces) : pieces[j].at \in 0 .. Len(s)
  <2> SUFFICES ASSUME NEW j \in 1 .. Len(pieces) PROVE pieces[j].at \in 0 .. Len(s)
    OBVIOUS
  <2>1. pieces[j] \in S
    BY <1>1, ElementOfSeq
  <2> QED
    BY <2>1
<1>4. at \in 0 .. Len(s) /\ lit \in Seq(Char \ {OPEN, NUL}) /\ p.ph \in Infos
  BY <1>2
<1>5. lit \in Seq(Char) /\ Len(lit) \in Nat
      /\ \A j \in 1 .. Len(lit) : lit[j] \notin {OPEN, NUL}
  <2>1. Len(lit) \in Nat
    BY <1>4, LenProperties
  <2>2. \A j \in 1 .. Len(lit) : lit[j] \in Char \ {OPEN, NUL}
    BY <1>4, ElementOfSeq
  <2>3. lit \in [1 .. Len(lit) -> Char]
    <3>1. lit \in [1 .. Len(lit) -> Char \ {OPEN, NUL}]
      BY <1>4, LenProperties
    <3> QED
      BY <3>1
  <2>4. lit \in Seq(Char)
    BY <2>1, <2>3, SeqDef
  <2> QED
    BY <2>1, <2>2, <2>4
<1>6. next \in 0 .. Len(s)
  <2>1. CASE i = Len(pieces)
    BY <1>2, <2>1
  <2>2. CASE i # Len(pieces)
    <3>1. i + 1 \in 1 .. Len(pieces)
      BY <1>2, <2>2
    <3> QED
      BY <1>3, <2>2, <3>1
  <2> QED
    BY <2>1, <2>2
<1>7. t = lit \o (IF i = Len(pieces) THEN <<>> ELSE Placeholder(p.ph))
  BY DEF Written
<1> HIDE DEF S, t
<1>8. ASSUME NEW u \in Seq(Char), t = lit \o u
      PROVE  Ahead(s, at, lit) /\ Ahead(s, at + Len(lit), u) /\ Len(t) = Len(lit) + Len(u)
  <2>1. t \in Seq(Char) /\ Len(t) = Len(lit) + Len(u)
    BY <1>5, <1>8, ConcatFacts
  <2>2. at + Len(t) <= Len(s) /\ SubSeq(s, at + 1, at + Len(t)) = t
    BY <1>1, <1>2, <1>6
  <2> HIDE DEF lit, at
  <2>3. Ahead(s, at, t)
    BY <1>4, <2>1, <2>2, AheadFromSub
  <2>4. at \in Nat
    BY <1>4
  <2> QED
    BY <1>5, <1>8, <2>1, <2>3, <2>4, AheadConcat
<1>9. ASSUME Ahead(s, at, lit), NEW j \in 0 .. (Len(lit) - 1)
      PROVE  At(s, at + j) \notin {OPEN, NUL}
  <2> HIDE DEF lit, at
  <2>1. j + 1 \in 1 .. Len(lit) /\ at + (j + 1) - 1 = at + j
    BY <1>4, <1>5
  <2>2. At(s, at + (j + 1) - 1) = lit[j + 1]
    BY <1>9, <2>1 DEF Ahead
  <2> QED
    BY <1>5, <2>1, <2>2
<1>10. at \in Nat
  BY <1>4
<1>11. CASE i = Len(pieces)
  <2> DEFINE u == <<>>
  <2>1. u \in Seq(Char) /\ Len(u) = 0
    BY ShortTexts, EmptySeq
  <2>2. t = lit \o u
    BY <1>7, <1>11
  <2> HIDE DEF u
  <2>3. Ahead(s, at, lit) /\ Len(t) = Len(lit)
    <3>1. Ahead(s, at, lit) /\ Len(t) = Len(lit) + Len(u)
      BY <1>8, <2>1, <2>2
    <3> QED
      BY <1>5, <2>1, <3>1
  <2>4. at + Len(lit) = Len(s)
    BY <1>1, <1>11, <2>3
  <2> QED
    BY <1>1, <1>2, <1>5, <1>9, <1>10, <1>11, <2>3, <2>4 DEF PieceAt
<1>12. CASE i # Len(pieces)
  <2> DEFINE rest == Rest(p.ph, 1)
             b == at + Len(lit)
  <2>1. Askable(p.ph)
    BY <1>1, <1>12
  <2>2. Placeholder(p.ph) = <<OPEN>> \o rest /\ rest \in Seq(Char) /\ Len(rest) \in Nat
    BY <2>1, PlaceholderFacts, LenProperties
  <2>3. <<OPEN>> \in Seq(Char) /\ Len(<<OPEN>>) = 1
    BY CharFacts, ShortTexts
  <2>4. <<OPEN>> \o rest \in Seq(Char) /\ Len(<<OPEN>> \o rest) = 1 + Len(rest)
    BY <2>2, <2>3, ConcatFacts
  <2>5. t = lit \o (<<OPEN>> \o rest)
    BY <1>7, <1>12, <2>2
  <2>6. /\ Ahead(s, at, lit) /\ Ahead(s, b, <<OPEN>> \o rest)
        /\ Len(t) = Len(lit) + (1 + Len(rest))
    BY <1>8, <2>4, <2>5
  <2> HIDE DEF rest
  <2>7. b \in Nat
    BY <1>5, <1>10
  <2> HIDE DEF b
  <2>8. Ahead(s, b, <<OPEN>>) /\ Ahead(s, b + 1, rest)
    BY <2>2, <2>3, <2>6, <2>7, AheadConcat
  <2>9. At(s, b) = OPEN
    BY <2>7, <2>8, AheadChar
  <2>10. Comes(s, b + 1, p.ph, 1)
    BY <2>1, <2>7, <2>8 DEF Comes, rest
  <2>11. at + Len(lit) + 1 + Len(rest) = pieces[i + 1].at
    <3>1. pieces[i + 1].at = at + Len(t)
      BY <1>1, <1>12
    <3>2. Len(t) = Len(lit) + (1 + Len(rest))
      BY <2>6
    <3> HIDE DEF at, lit
    <3> QED
      BY <1>5, <1>10, <2>2, <3>1, <3>2
  <2> QED
    BY <1>1, <1>2, <1>5, <1>9, <1>10, <1>12, <2>1, <2>6, <2>9, <2>10, <2>11 DEF PieceAt, b, rest
<1> QED
  BY <1>11, <1>12

-----------------------------------------------------------------------------
(* The inductive invariant of a call whose format is well formed.            *)

\* The piece being read, and where the one after it begins.
Current     == call.pieces[arg_idx + 1]
FollowingAt == call.pieces[arg_idx + 2].at

\* The parser is in the literal text, or in a part of the placeholder after it.
Scanning ==
  \/ stage = STAGE_START /\ info = NoInfo /\ idx <= Len(Current.lit)
  \/ /\ arg_idx + 1 < Len(call.pieces) /\ literal_len = Len(Current.lit)
     /\ stage \in 1 .. 9
     /\ \E b \in Nat :
          /\ Comes(call.format, b, Current.ph, stage)
          /\ b + Len(Rest(Current.ph, stage)) = FollowingAt
          /\ Within(Current.ph, call.format, stage, info, b, fmt + idx)

\* The piece has been read, the last one to the format's end.
Copying ==
  /\ literal_len = Len(Current.lit) /\ info = Current.ph
  /\ IF end THEN arg_idx + 1 = Len(call.pieces)
            ELSE arg_idx + 1 < Len(call.pieces) /\ fmt + idx = FollowingAt

PieceInv ==
  /\ WrittenFrom(call.format, call.pieces)
  /\ WellFormed(call) =>
       /\ pc \in {"scan", "copy"} => arg_idx < Len(call.pieces) /\ fmt = Current.at
       /\ pc = "scan" => end = FALSE /\ Scanning
       /\ pc = "copy" => end \in BOOLEAN /\ Copying
       /\ pc = "argument" =>
            /\ arg_idx + 1 < Len(call.pieces) /\ end = FALSE
            /\ fmt = FollowingAt /\ info = Current.ph

LEMMA InitPieceInv == Init => PieceInv
<1> SUFFICES ASSUME Init PROVE PieceInv
  OBVIOUS
<1>1. IInv
  BY InitIInv
<1>2. PICK q \in Requests : \E f \in q.formats, a \in q.args, n \in q.sizes :
        call = [format |-> f.format, pieces |-> f.pieces, args |-> a, size |-> n]
  BY DEF Init
<1>3. PICK f \in q.formats, a \in q.args, n \in q.sizes :
        call = [format |-> f.format, pieces |-> f.pieces, args |-> a, size |-> n]
  BY <1>2
<1>4. call.format = f.format /\ call.pieces = f.pieces
  BY <1>3
<1>5. WrittenFrom(call.format, call.pieces)
  BY <1>4, PiecesAssumption
<1>6. /\ fmt = 0 /\ idx = 0 /\ stage = STAGE_START /\ info = NoInfo /\ end = FALSE
      /\ arg_idx = 0 /\ pc \in {"scan", "terminate"}
  BY DEF Init
<1>7. ASSUME WellFormed(call)
      PROVE  arg_idx < Len(call.pieces) /\ fmt = Current.at /\ idx <= Len(Current.lit)
  <2> DEFINE pieces == call.pieces
             p == pieces[1]
  <2>1. Len(pieces) \in Nat /\ 1 \in 1 .. Len(pieces)
    <3>1. pieces \in Seq([at : 0 .. Len(call.format), lit : Seq(Char \ {OPEN, NUL}),
                          ph : Infos])
      BY <1>5 DEF WrittenFrom
    <3> HIDE DEF pieces
    <3>2. Len(pieces) \in Nat /\ (Len(pieces) = 0 => pieces = <<>>)
      BY <3>1, LenProperties, EmptySeq
    <3>3. pieces # <<>>
      BY <1>7 DEF WellFormed, pieces
    <3> QED
      BY <3>2, <3>3
  <2> HIDE DEF pieces
  <2>2. call.format \in Seq(Char) /\ WrittenFrom(call.format, pieces)
    BY <1>1, <1>5 DEF IInv, CallInv, pieces
  <2>3. Current = p
    <3>1. arg_idx + 1 = 1
      BY <1>6
    <3> QED
      BY <3>1 DEF Current, pieces
  <2>4. PieceAt(call.format, pieces, 1, p)
    BY <2>1, <2>2, PieceFacts DEF p
  <2> HIDE DEF p
  <2>5. p.at = 0 /\ Len(p.lit) \in Nat
    BY <2>4 DEF PieceAt
  <2> QED
    BY <1>6, <2>1, <2>3, <2>5 DEF pieces
<1> QED
  BY <1>5, <1>6, <1>7 DEF PieceInv, Scanning

LEMMA CurrentFacts ==
  ASSUME IInv, PieceInv, WellFormed(call), pc \in {"scan", "copy", "argument"}
  PROVE  /\ call.format \in Seq(Char) /\ Len(call.pieces) \in Nat
         /\ arg_idx \in Nat /\ fmt \in Nat /\ idx \in Nat /\ literal_len \in Nat
         /\ Current.at \in Nat /\ Len(Current.lit) \in Nat
         /\ arg_idx < Len(call.pieces)
         /\ \A j \in 0 .. (Len(Current.lit) - 1) :
              At(call.format, Current.at + j) \notin {OPEN, NUL}
         /\ arg_idx + 1 = Len(call.pieces) =>
              /\ Current.ph = NoInfo
              /\ Current.at + Len(Current.lit) = Len(call.format)
         /\ arg_idx + 1 < Len(call.pieces) =>
              /\ Askable(Current.ph)
              /\ At(call.format, Current.at + Len(Current.lit)) = OPEN
              /\ Comes(call.format, Current.at + Len(Current.lit) + 1, Current.ph, 1)
              /\ Current.at + Len(Current.lit) + 1 + Len(Rest(Current.ph, 1)) = FollowingAt
<1> DEFINE i == arg_idx + 1
           p == call.pieces[i]
<1>1. /\ call.format \in Seq(Char) /\ arg_idx \in Nat
      /\ fmt \in Nat /\ idx \in Nat /\ literal_len \in Nat
  <2>1. MAX_ARG_CNT \in Nat
    BY SnprintAssumption
  <2>2. arg_idx \in Nat
    BY <2>1 DEF IInv, OutputInv
  <2> QED
    BY <2>2 DEF IInv, CallInv, ParserInv
<1>2. Len(call.pieces) \in Nat
  BY LenProperties DEF PieceInv, WrittenFrom
<1>3. arg_idx < Len(call.pieces)
  BY <1>1, <1>2 DEF PieceInv
<1>4. i \in 1 .. Len(call.pieces) /\ i + 1 = arg_idx + 2
  BY <1>1, <1>2, <1>3
<1>5. WrittenFrom(call.format, call.pieces)
  BY DEF PieceInv
<1> HIDE DEF i, p
<1>6. /\ p.at \in Nat /\ Len(p.lit) \in Nat
      /\ \A j \in 0 .. (Len(p.lit) - 1) : At(call.format, p.at + j) \notin {OPEN, NUL}
      /\ i = Len(call.pieces) => p.ph = NoInfo /\ p.at + Len(p.lit) = Len(call.format)
      /\ i < Len(call.pieces) =>
           /\ Askable(p.ph)
           /\ At(call.format, p.at + Len(p.lit)) = OPEN
           /\ Comes(call.format, p.at + Len(p.lit) + 1, p.ph, 1)
           /\ p.at + Len(p.lit) + 1 + Len(Rest(p.ph, 1)) = call.pieces[i + 1].at
  <2> DEFINE s == call.format
             pieces == call.pieces
  <2>1. /\ s \in Seq(Char) /\ WrittenFrom(s, pieces) /\ i \in 1 .. Len(pieces)
        /\ p = pieces[i]
    BY <1>1, <1>4, <1>5 DEF p
  <2> HIDE DEF s, pieces
  <2>2. PieceAt(s, pieces, i, p)
    BY <2>1, PieceFacts
  <2> QED
    BY <2>2 DEF PieceAt, s, pieces
<1>7. p = Current /\ call.pieces[i + 1].at = FollowingAt
  BY <1>4 DEF p, i, Current, FollowingAt
<1>8. i = arg_idx + 1
  BY DEF i
<1> HIDE DEF p, i
<1> QED
  BY <1>1, <1>2, <1>3, <1>6, <1>7, <1>8

\* The character at the parser, in the literal text and at its end.
LEMMA LiteralCharacter ==
  ASSUME IInv, PieceInv, WellFormed(call), pc = "scan", stage = STAGE_START
  PROVE  LET c == At(call.format, fmt + idx)
         IN /\ idx <= Len(Current.lit) /\ info = NoInfo
            /\ idx < Len(Current.lit) => c # OPEN /\ c # NUL
            /\ idx = Len(Current.lit) =>
                 \/ arg_idx + 1 < Len(call.pieces) /\ c = OPEN
                 \/ arg_idx + 1 = Len(call.pieces) /\ c = NUL
<1> DEFINE len == Len(Current.lit)
           c == At(call.format, fmt + idx)
<1>1. /\ fmt = Current.at /\ idx <= len /\ info = NoInfo
  BY DEF PieceInv, Scanning
<1>2. /\ call.format \in Seq(Char) /\ Len(call.pieces) \in Nat /\ arg_idx \in Nat
      /\ fmt \in Nat /\ idx \in Nat /\ len \in Nat /\ arg_idx < Len(call.pieces)
      /\ \A j \in 0 .. (len - 1) : At(call.format, fmt + j) \notin {OPEN, NUL}
      /\ arg_idx + 1 = Len(call.pieces) => fmt + len = Len(call.format)
      /\ arg_idx + 1 < Len(call.pieces) => At(call.format, fmt + len) = OPEN
  BY <1>1, CurrentFacts
<1> HIDE DEF len
<1>3. ASSUME idx < len PROVE c # OPEN /\ c # NUL
  <2>1. idx \in 0 .. (len - 1)
    BY <1>2, <1>3
  <2> QED
    BY <1>2, <2>1
<1>4. ASSUME idx = len
      PROVE  \/ arg_idx + 1 < Len(call.pieces) /\ c = OPEN
             \/ arg_idx + 1 = Len(call.pieces) /\ c = NUL
  <2>1. CASE arg_idx + 1 < Len(call.pieces)
    BY <1>2, <1>4, <2>1
  <2>2. CASE arg_idx + 1 = Len(call.pieces)
    <3>1. fmt + idx = Len(call.format) /\ ~(fmt + idx < Len(call.format))
      BY <1>2, <1>4, <2>2
    <3>2. c = NUL
      BY <3>1 DEF At
    <3> QED
      BY <2>2, <3>2
  <2> QED
    BY <1>2, <2>1, <2>2
<1> QED
  BY <1>1, <1>3, <1>4 DEF len

\* The check of a stage of the placeholder leads on through it.
LEMMA PlaceholderStage ==
  ASSUME IInv, PieceInv, WellFormed(call), pc = "scan", stage # STAGE_START
  PROVE  /\ arg_idx + 1 < Len(call.pieces) /\ literal_len = Len(Current.lit)
         /\ stage \in 1 .. 9
         /\ \E b \in Nat :
              /\ Comes(call.format, b, Current.ph, stage)
              /\ b + Len(Rest(Current.ph, stage)) = FollowingAt
              /\ Moves(call.format, b, Current.ph, stage, fmt + idx, info, Here)
<1>1. /\ arg_idx + 1 < Len(call.pieces) /\ literal_len = Len(Current.lit)
      /\ stage \in 1 .. 9
      /\ \E b \in Nat :
          /\ Comes(call.format, b, Current.ph, stage)
          /\ b + Len(Rest(Current.ph, stage)) = FollowingAt
          /\ Within(Current.ph, call.format, stage, info, b, fmt + idx)
  BY DEF PieceInv, Scanning
<1>2. PICK b \in Nat :
          /\ Comes(call.format, b, Current.ph, stage)
          /\ b + Len(Rest(Current.ph, stage)) = FollowingAt
          /\ Within(Current.ph, call.format, stage, info, b, fmt + idx)
  BY <1>1
<1>3. Moves(call.format, b, Current.ph, stage, fmt + idx, info, Here)
  BY <1>1, <1>2, TokenMoves DEF Here
<1> QED
  BY <1>1, <1>2, <1>3

\* A step that ends the call, or a malformed format.
LEMMA PieceEnds ==
  ASSUME PieceInv, UNCHANGED call, ~WellFormed(call) \/ pc' \in {"terminate", "done"}
  PROVE  PieceInv'
<1>1. WrittenFrom(call.format, call.pieces)'
  BY DEF PieceInv
<1>2. CASE ~WellFormed(call)
  <2>1. ~WellFormed(call)'
    BY <1>2 DEF WellFormed
  <2> QED
    BY <1>1, <2>1 DEF PieceInv
<1>3. CASE pc' \in {"terminate", "done"}
  BY <1>1, <1>3 DEF PieceInv
<1> QED
  BY <1>2, <1>3

\* A step of the parser, which stays in the piece.
LEMMA PieceStays ==
  ASSUME PieceInv, UNCHANGED <<call, fmt, arg_idx>>, pc = "scan",
         \/ pc' = "scan" /\ end' = FALSE /\ Scanning'
         \/ pc' = "copy" /\ end' \in BOOLEAN /\ Copying'
  PROVE  PieceInv'
<1>1. /\ WrittenFrom(call.format, call.pieces)'
      /\ Current' = Current /\ FollowingAt' = FollowingAt
      /\ WellFormed(call)' = WellFormed(call)
  BY DEF PieceInv, Current, FollowingAt, WellFormed
<1>2. WellFormed(call)' => (arg_idx < Len(call.pieces))' /\ (fmt = Current.at)'
  BY <1>1 DEF PieceInv
<1> QED
  BY <1>1, <1>2 DEF PieceInv

\* Where the parser is in the placeholder after a step.
LEMMA ScanningStage ==
  ASSUME UNCHANGED <<call, arg_idx>>, arg_idx + 1 < Len(call.pieces),
         literal_len' = Len(Current.lit), stage' \in 1 .. 9,
         NEW b, NEW st, st = stage', NEW inf, inf = info', NEW i, i = fmt' + idx',
         Comes(call.format, b, Current.ph, st),
         b + Len(Rest(Current.ph, st)) = FollowingAt,
         Within(Current.ph, call.format, st, inf, b, i)
  PROVE  Scanning'
<1>1. Current' = Current /\ FollowingAt' = FollowingAt
  BY DEF Current, FollowingAt
<1>2. /\ Comes(call'.format, b, Current'.ph, stage')
      /\ b + Len(Rest(Current'.ph, stage')) = FollowingAt'
      /\ Within(Current'.ph, call'.format, stage', info', b, fmt' + idx')
  BY <1>1
<1>3. b \in Nat
  BY DEF Comes
<1> QED
  BY <1>1, <1>2, <1>3 DEF Scanning

LEMMA PassCharacterPieceInv == IInv /\ PieceInv /\ PassCharacter => PieceInv'
<1> SUFFICES ASSUME IInv, PieceInv, PassCharacter PROVE PieceInv'
  OBVIOUS
<1>1. /\ pc = "scan" /\ ~AtEnd /\ Here.ret = "NEXT_CHAR"
      /\ idx' = idx + 1 /\ info' = Here.info
      /\ UNCHANGED <<call, fmt, stage, literal_len, end, arg_idx, pc>>
  BY DEF PassCharacter
<1>2. CASE ~WellFormed(call)
  BY <1>1, <1>2, PieceEnds
<1>3. CASE WellFormed(call)
  <2>1. end' = FALSE /\ pc' = "scan"
    BY <1>1, <1>3 DEF PieceInv
  <2>2. CASE stage = STAGE_START
    <3> DEFINE c == At(call.format, fmt + idx)
               len == Len(Current.lit)
    <3>1. /\ idx <= len /\ info = NoInfo
          /\ idx = len => c = OPEN \/ c = NUL
      BY <1>1, <1>3, <2>2, LiteralCharacter
    <3>2. c # NUL
      BY <1>1 DEF AtEnd
    <3>3. Here = check_start(c, info)
      BY <2>2 DEF Here, check_token
    <3> HIDE DEF c, len
    <3>4. c # OPEN /\ info' = info
      BY <1>1, <3>3 DEF check_start, Found, NextChar, Token
    <3>5. idx \in Nat /\ len \in Nat
      BY <1>1, <1>3, CurrentFacts DEF len
    <3>6. idx' <= len
      BY <1>1, <3>1, <3>2, <3>4, <3>5
    <3>7. Current' = Current
      BY <1>1 DEF Current
    <3>8. Scanning'
      BY <1>1, <2>2, <3>1, <3>4, <3>6, <3>7 DEF Scanning, len
    <3> QED
      BY <1>1, <2>1, <3>8, PieceStays
  <2>3. CASE stage # STAGE_START
    <3>1. /\ arg_idx + 1 < Len(call.pieces) /\ literal_len = Len(Current.lit)
          /\ stage \in 1 .. 9
      BY <1>1, <1>3, <2>3, PlaceholderStage
    <3>2. PICK b \in Nat :
              /\ Comes(call.format, b, Current.ph, stage)
              /\ b + Len(Rest(Current.ph, stage)) = FollowingAt
              /\ Moves(call.format, b, Current.ph, stage, fmt + idx, info, Here)
      BY <1>1, <1>3, <2>3, PlaceholderStage
    <3>3. Within(Current.ph, call.format, stage, info', b, fmt + idx + 1)
      BY <1>1, <3>2 DEF Moves
    <3>4. fmt' + idx' = fmt + idx + 1 /\ stage' = stage /\ literal_len' = literal_len
      BY <1>1, <1>3, CurrentFacts
    <3>5. Scanning'
      BY <1>1, <3>1, <3>2, <3>3, <3>4, ScanningStage
    <3> QED
      BY <1>1, <2>1, <3>5, PieceStays
  <2> QED
    BY <2>2, <2>3
<1> QED
  BY <1>2, <1>3

LEMMA PassStagePieceInv == IInv /\ PieceInv /\ PassStage => PieceInv'
<1> SUFFICES ASSUME IInv, PieceInv, PassStage PROVE PieceInv'
  OBVIOUS
<1>1. /\ pc = "scan" /\ ~AtEnd /\ Here.ret = "NEXT_STAGE"
      /\ stage' = stage + 1
      /\ UNCHANGED <<call, fmt, idx, info, literal_len, end, arg_idx, pc>>
  BY DEF PassStage
<1>2. CASE ~WellFormed(call)
  BY <1>1, <1>2, PieceEnds
<1>3. CASE WellFormed(call)
  <2>1. end' = FALSE /\ pc' = "scan"
    BY <1>1, <1>3 DEF PieceInv
  <2>2. stage # STAGE_START
    <3> SUFFICES ASSUME stage = STAGE_START PROVE FALSE
      OBVIOUS
    <3>1. Here = check_start(At(call.format, fmt + idx), info)
      BY DEF Here, check_token
    <3> QED
      BY <1>1, <3>1 DEF check_start, Found, NextChar, Token
  <2>3. /\ arg_idx + 1 < Len(call.pieces) /\ literal_len = Len(Current.lit)
        /\ stage \in 1 .. 9
    BY <1>1, <1>3, <2>2, PlaceholderStage
  <2>4. PICK b :
            /\ Comes(call.format, b, Current.ph, stage)
            /\ b + Len(Rest(Current.ph, stage)) = FollowingAt
            /\ Moves(call.format, b, Current.ph, stage, fmt + idx, info, Here)
    BY <1>1, <1>3, <2>2, PlaceholderStage
  <2> DEFINE next == b + Len(Part(Current.ph, stage))
  <2>5. /\ stage < 9
        /\ Within(Current.ph, call.format, stage + 1, info, next, fmt + idx)
    BY <1>1, <2>4 DEF Moves
  <2>6. stage \in 1 .. 8 /\ stage + 1 \in 1 .. 9
    BY <2>3, <2>5
  <2>7. /\ next \in Nat /\ Comes(call.format, next, Current.ph, stage + 1)
        /\ b + Len(Rest(Current.ph, stage)) = next + Len(Rest(Current.ph, stage + 1))
    <3> DEFINE up == stage + 1
    <3>1. up = stage + 1 /\ next = b + Len(Part(Current.ph, stage))
      OBVIOUS
    <3> HIDE DEF next, up
    <3>2. stage \in 1 .. 8
      BY <2>6
    <3>3. Comes(call.format, b, Current.ph, stage)
      BY <2>4
    <3>4. /\ next \in Nat /\ Comes(call.format, next, Current.ph, up)
          /\ b + Len(Rest(Current.ph, stage)) = next + Len(Rest(Current.ph, up))
      BY <3>1, <3>2, <3>3, ComesUp
    <3> QED
      BY <3>4 DEF up
  <2> HIDE DEF next
  <2>8. next + Len(Rest(Current.ph, stage + 1)) = FollowingAt
    BY <2>4, <2>7
  <2>9. fmt' + idx' = fmt + idx /\ info' = info /\ literal_len' = literal_len
    BY <1>1
  <2>10. Scanning'
    BY <1>1, <2>3, <2>5, <2>6, <2>7, <2>8, <2>9, ScanningStage
  <2> QED
    BY <1>1, <2>1, <2>10, PieceStays
<1> QED
  BY <1>2, <1>3

LEMMA FindTokenPieceInv == IInv /\ PieceInv /\ FindToken => PieceInv'
<1> SUFFICES ASSUME IInv, PieceInv, FindToken PROVE PieceInv'
  OBVIOUS
<1>1. /\ pc = "scan" /\ ~AtEnd /\ Here.ret = "FOUND"
      /\ idx' = idx + 1 /\ stage' = stage + 1 /\ info' = Here.info
      /\ literal_len' = IF stage = STAGE_START THEN idx ELSE literal_len
      /\ UNCHANGED <<call, fmt, end, arg_idx, pc>>
  BY DEF FindToken
<1>2. CASE ~WellFormed(call)
  BY <1>1, <1>2, PieceEnds
<1>3. CASE WellFormed(call)
  <2>1. end' = FALSE /\ pc' = "scan"
    BY <1>1, <1>3 DEF PieceInv
  <2>2. fmt' + idx' = fmt + idx + 1
    BY <1>1, <1>3, CurrentFacts
  <2>3. CASE stage = STAGE_START
    <3> DEFINE c == At(call.format, fmt + idx)
               len == Len(Current.lit)
    <3>1. /\ idx <= len /\ info = NoInfo
          /\ idx < len => c # OPEN
          /\ idx = len =>
               \/ arg_idx + 1 < Len(call.pieces) /\ c = OPEN
               \/ arg_idx + 1 = Len(call.pieces) /\ c = NUL
      BY <1>1, <1>3, <2>3, LiteralCharacter
    <3>2. c # NUL
      BY <1>1 DEF AtEnd
    <3>3. Here = check_start(c, info)
      BY <2>3 DEF Here, check_token
    <3>4. idx \in Nat /\ len \in Nat /\ fmt \in Nat
      BY <1>1, <1>3, CurrentFacts
    <3>5. fmt = Current.at
      BY <1>1, <1>3 DEF PieceInv
    <3> HIDE DEF c
    <3>6. c = OPEN /\ info' = info
      BY <1>1, <3>3 DEF check_start, Found, NextChar, Token
    <3> HIDE DEF len
    <3>7. idx = len /\ arg_idx + 1 < Len(call.pieces)
      BY <3>1, <3>2, <3>4, <3>6
    <3> DEFINE b == fmt + len + 1
               st == 1
    <3>8. Comes(call.format, b, Current.ph, st) /\ b + Len(Rest(Current.ph, st)) = FollowingAt
      BY <1>1, <1>3, <3>5, <3>7, CurrentFacts DEF len
    <3>9. b \in Nat /\ stage' = st /\ stage' \in 1 .. 9
      BY <1>1, <2>3, <3>4
    <3>10. info' = Partial(Current.ph, st)
      <4>1. Askable(Current.ph)
        BY <1>1, <1>3, <3>7, CurrentFacts
      <4> QED
        BY <3>1, <3>6, <4>1, PartialNext
    <3>11. Within(Current.ph, call.format, st, info', b, b)
      BY <3>10 DEF Within
    <3>12. literal_len' = Len(Current.lit) /\ b = fmt' + idx'
      BY <1>1, <2>2, <2>3, <3>7 DEF len
    <3> HIDE DEF b, st
    <3>13. Scanning'
      BY <1>1, <3>7, <3>8, <3>9, <3>11, <3>12, ScanningStage
    <3> QED
      BY <1>1, <2>1, <3>13, PieceStays
  <2>4. CASE stage # STAGE_START
    <3>1. /\ arg_idx + 1 < Len(call.pieces) /\ literal_len = Len(Current.lit)
          /\ stage \in 1 .. 9
      BY <1>1, <1>3, <2>4, PlaceholderStage
    <3>2. PICK b :
              /\ Comes(call.format, b, Current.ph, stage)
              /\ b + Len(Rest(Current.ph, stage)) = FollowingAt
              /\ Moves(call.format, b, Current.ph, stage, fmt + idx, info, Here)
      BY <1>1, <1>3, <2>4, PlaceholderStage
    <3> DEFINE next == b + Len(Part(Current.ph, stage))
    <3>3. /\ stage < 9
          /\ Within(Current.ph, call.format, stage + 1, info', next, fmt + idx + 1)
      BY <1>1, <3>2 DEF Moves
    <3>4. stage \in 1 .. 8 /\ stage + 1 \in 1 .. 9
      BY <3>1, <3>3
    <3>5. /\ next \in Nat /\ Comes(call.format, next, Current.ph, stage + 1)
          /\ b + Len(Rest(Current.ph, stage)) = next + Len(Rest(Current.ph, stage + 1))
      <4> DEFINE up == stage + 1
      <4>1. up = stage + 1 /\ next = b + Len(Part(Current.ph, stage))
        OBVIOUS
      <4> HIDE DEF next, up
      <4>2. stage \in 1 .. 8
        BY <3>4
      <4>3. Comes(call.format, b, Current.ph, stage)
        BY <3>2
      <4>4. /\ next \in Nat /\ Comes(call.format, next, Current.ph, up)
            /\ b + Len(Rest(Current.ph, stage)) = next + Len(Rest(Current.ph, up))
        BY <4>1, <4>2, <4>3, ComesUp
      <4> QED
        BY <4>4 DEF up
    <3> HIDE DEF next
    <3>6. next + Len(Rest(Current.ph, stage + 1)) = FollowingAt
      BY <3>2, <3>5
    <3>7. literal_len' = literal_len
      BY <1>1, <2>4
    <3>8. Scanning'
      BY <1>1, <2>2, <3>1, <3>3, <3>4, <3>5, <3>6, <3>7, ScanningStage
    <3> QED
      BY <1>1, <2>1, <3>8, PieceStays
  <2> QED
    BY <2>3, <2>4
<1> QED
  BY <1>2, <1>3

LEMMA FindStopPieceInv == IInv /\ PieceInv /\ FindStop => PieceInv'
<1> SUFFICES ASSUME IInv, PieceInv, FindStop PROVE PieceInv'
  OBVIOUS
<1>1. /\ pc = "scan" /\ ~AtEnd /\ Here.ret = "STOP"
      /\ idx' = idx + 1 /\ pc' = "copy"
      /\ UNCHANGED <<call, fmt, info, literal_len, end, arg_idx>>
  BY DEF FindStop
<1>2. CASE ~WellFormed(call)
  BY <1>1, <1>2, PieceEnds
<1>3. CASE WellFormed(call)
  <2>1. end' = FALSE
    BY <1>1, <1>3 DEF PieceInv
  <2>2. stage # STAGE_START
    <3> SUFFICES ASSUME stage = STAGE_START PROVE FALSE
      OBVIOUS
    <3>1. Here = check_start(At(call.format, fmt + idx), info)
      BY DEF Here, check_token
    <3> QED
      BY <1>1, <3>1 DEF check_start, Found, NextChar, Token
  <2>3. /\ arg_idx + 1 < Len(call.pieces) /\ literal_len = Len(Current.lit)
        /\ stage \in 1 .. 9
    BY <1>1, <1>3, <2>2, PlaceholderStage
  <2>4. PICK b :
            /\ Comes(call.format, b, Current.ph, stage)
            /\ b + Len(Rest(Current.ph, stage)) = FollowingAt
            /\ Moves(call.format, b, Current.ph, stage, fmt + idx, info, Here)
    BY <1>1, <1>3, <2>2, PlaceholderStage
  <2>5. stage = 9 /\ fmt + idx = b /\ info = Current.ph
    BY <1>1, <2>4 DEF Moves
  <2>6. Len(Rest(Current.ph, stage)) = 1
    <3>1. Askable(Current.ph)
      BY <2>4 DEF Comes
    <3>2. Rest(Current.ph, stage) = <<CLOSE>>
      BY <2>5, <3>1, TypePart, RestUnfolds
    <3> QED
      BY <3>2
  <2>7. fmt' + idx' = FollowingAt
    <3>1. fmt' + idx' = (fmt + idx) + 1
      BY <1>1, <1>3, CurrentFacts
    <3> QED
      BY <2>4, <2>5, <2>6, <3>1
  <2>8. Current' = Current /\ FollowingAt' = FollowingAt
    BY <1>1 DEF Current, FollowingAt
  <2>9. Copying'
    BY <1>1, <2>1, <2>3, <2>5, <2>7, <2>8 DEF Copying
  <2> QED
    BY <1>1, <2>1, <2>9, PieceStays
<1> QED
  BY <1>2, <1>3

LEMMA FindEndPieceInv == IInv /\ PieceInv /\ FindEnd => PieceInv'
<1> SUFFICES ASSUME IInv, PieceInv, FindEnd PROVE PieceInv'
  OBVIOUS
<1>1. /\ pc = "scan" /\ AtEnd /\ end' = TRUE /\ pc' = "copy"
      /\ literal_len' = IF stage = STAGE_START THEN idx ELSE literal_len
      /\ UNCHANGED <<call, fmt, idx, info, arg_idx>>
  BY DEF FindEnd
<1>2. CASE ~WellFormed(call)
  BY <1>1, <1>2, PieceEnds
<1>3. CASE WellFormed(call)
  <2>1. At(call.format, fmt + idx) = NUL
    BY <1>1 DEF AtEnd
  <2>2. stage = STAGE_START
    <3> SUFFICES ASSUME stage # STAGE_START PROVE FALSE
      OBVIOUS
    <3>1. PICK b : Moves(call.format, b, Current.ph, stage, fmt + idx, info, Here)
      BY <1>1, <1>3, PlaceholderStage
    <3> QED
      BY <2>1, <3>1 DEF Moves
  <2>3. /\ idx <= Len(Current.lit) /\ info = NoInfo
        /\ ~(idx < Len(Current.lit))
        /\ idx = Len(Current.lit) => arg_idx + 1 = Len(call.pieces)
    <3>1. OPEN # NUL
      BY ColonFacts
    <3> QED
      BY <1>1, <1>3, <2>1, <2>2, <3>1, LiteralCharacter
  <2>4. idx \in Nat /\ Len(Current.lit) \in Nat
    BY <1>1, <1>3, CurrentFacts
  <2>5. idx = Len(Current.lit) /\ arg_idx + 1 = Len(call.pieces)
    BY <2>3, <2>4
  <2>6. info = Current.ph
    BY <1>1, <1>3, <2>3, <2>5, CurrentFacts
  <2>7. Current' = Current
    BY <1>1 DEF Current
  <2>8. Copying'
    BY <1>1, <2>2, <2>5, <2>6, <2>7 DEF Copying
  <2> QED
    BY <1>1, <2>8, PieceStays
<1> QED
  BY <1>2, <1>3

LEMMA CopyLiteralPieceInv == IInv /\ PieceInv /\ CopyLiteral => PieceInv'
<1> SUFFICES ASSUME IInv, PieceInv, CopyLiteral PROVE PieceInv'
  OBVIOUS
<1>1. /\ pc = "copy" /\ fmt' = fmt + idx
      /\ UNCHANGED <<call, end, arg_idx>>
      /\ \/ info.type # "NONE" /\ pc' = "argument" /\ info' = info
         \/ /\ info.type = "NONE"
            /\ pc' = IF end \/ remaining' = 0 THEN "terminate" ELSE "scan"
  BY DEF CopyLiteral, Again
<1>2. CASE ~WellFormed(call)
  BY <1>1, <1>2, PieceEnds
<1>3. CASE WellFormed(call)
  <2>1. Copying /\ end \in BOOLEAN
    BY <1>1, <1>3 DEF PieceInv
  <2>2. /\ arg_idx + 1 = Len(call.pieces) => Current.ph = NoInfo
        /\ arg_idx + 1 < Len(call.pieces) => Askable(Current.ph)
    BY <1>1, <1>3, CurrentFacts
  <2>3. CASE end
    <3>1. info = NoInfo
      BY <2>1, <2>2, <2>3 DEF Copying
    <3>2. info.type = "NONE"
      BY <3>1 DEF NoInfo
    <3>3. pc' = "terminate"
      BY <1>1, <2>3, <3>2
    <3> QED
      BY <1>1, <3>3, PieceEnds
  <2>4. CASE ~end
    <3>1. arg_idx + 1 < Len(call.pieces) /\ fmt' = FollowingAt /\ info = Current.ph
      BY <1>1, <2>1, <2>4 DEF Copying
    <3>2. info.type # "NONE"
      BY <2>2, <3>1 DEF Askable
    <3>3. pc' = "argument" /\ info' = info /\ end' = FALSE
      BY <1>1, <2>1, <2>4, <3>2
    <3>4. /\ Current' = Current /\ FollowingAt' = FollowingAt
          /\ WrittenFrom(call.format, call.pieces)'
      BY <1>1 DEF Current, FollowingAt, PieceInv
    <3> QED
      BY <1>1, <3>1, <3>3, <3>4 DEF PieceInv
  <2> QED
    BY <2>1, <2>3, <2>4
<1> QED
  BY <1>2, <1>3

LEMMA PutArgumentPieceInv == IInv /\ PieceInv /\ PutArgument => PieceInv'
<1> SUFFICES ASSUME IInv, PieceInv, PutArgument PROVE PieceInv'
  OBVIOUS
<1>1. /\ pc = "argument" /\ arg_idx' = arg_idx + 1
      /\ idx' = 0 /\ stage' = STAGE_START /\ info' = NoInfo
      /\ pc' \in {"scan", "terminate"}
      /\ UNCHANGED <<call, fmt, end>>
  BY DEF PutArgument, ScanAnew, Again
<1>2. CASE ~WellFormed(call) \/ pc' = "terminate"
  BY <1>1, <1>2, PieceEnds
<1>3. CASE WellFormed(call) /\ pc' = "scan"
  <2>1. arg_idx + 1 < Len(call.pieces) /\ end = FALSE /\ fmt = FollowingAt
    BY <1>1, <1>3 DEF PieceInv
  <2>2. arg_idx \in Nat /\ Len(call.pieces) \in Nat
    BY <1>1, <1>3, CurrentFacts
  <2> DEFINE i == arg_idx + 2
             p == call.pieces[i]
  <2>3. i \in 1 .. Len(call.pieces) /\ arg_idx' + 1 = i
    BY <1>1, <2>1, <2>2
  <2>4. Current' = p
    BY <1>1, <2>3 DEF Current
  <2>5. FollowingAt = p.at
    BY DEF FollowingAt
  <2> HIDE DEF i
  <2>6. Len(p.lit) \in Nat
    <3> DEFINE s == call.format
               pieces == call.pieces
    <3>1. /\ s \in Seq(Char) /\ WrittenFrom(s, pieces) /\ i \in 1 .. Len(pieces)
          /\ p = pieces[i]
      BY <2>3 DEF IInv, CallInv, PieceInv
    <3> HIDE DEF s, pieces, p
    <3>2. PieceAt(s, pieces, i, p)
      BY <3>1, PieceFacts
    <3> QED
      BY <3>2 DEF PieceAt
  <2> HIDE DEF p
  <2>7. Scanning'
    BY <1>1, <2>4, <2>6 DEF Scanning
  <2>8. WrittenFrom(call.format, call.pieces)'
    BY <1>1 DEF PieceInv
  <2>9. (arg_idx < Len(call.pieces))' /\ (fmt = Current.at)'
    BY <1>1, <2>1, <2>2, <2>4, <2>5
  <2> QED
    BY <1>1, <1>3, <2>1, <2>7, <2>8, <2>9 DEF PieceInv
<1> QED
  BY <1>1, <1>2, <1>3

LEMMA NextPieceInv == IInv /\ PieceInv /\ [Next]_vars => PieceInv'
<1> SUFFICES ASSUME IInv, PieceInv, [Next]_vars PROVE PieceInv'
  OBVIOUS
<1>1. CASE UNCHANGED vars
  <2>1. UNCHANGED <<call, fmt, idx, stage, info, literal_len, end, arg_idx, pc>>
    BY <1>1 DEF vars
  <2>2. Current' = Current /\ FollowingAt' = FollowingAt
    BY <2>1 DEF Current, FollowingAt
  <2>3. /\ Scanning => Scanning'
        /\ Copying => Copying'
        /\ WellFormed(call)' => WellFormed(call)
    BY <2>1, <2>2 DEF Scanning, Copying, WellFormed
  <2> QED
    BY <2>1, <2>2, <2>3 DEF PieceInv
<1>2. CASE FindError \/ CutLiteral \/ MissArgument \/ FailArgument \/ FailAssertion
           \/ Terminate
  <2>1. UNCHANGED call /\ pc' \in {"terminate", "done"}
    BY <1>2 DEF FindError, CutLiteral, MissArgument, FailArgument, FailAssertion,
       Terminate, Fail
  <2> QED
    BY <2>1, PieceEnds
<1> QED
  BY <1>1, <1>2, PassCharacterPieceInv, PassStagePieceInv, FindTokenPieceInv,
     FindStopPieceInv, FindEndPieceInv, CopyLiteralPieceInv, PutArgumentPieceInv DEF Next

LEMMA SpecPieceInv == Spec => []PieceInv
<1>1. Init => PieceInv
  BY InitPieceInv
<1>2. IInv /\ PieceInv /\ [Next]_vars => PieceInv'
  BY NextPieceInv
<1> QED
  BY <1>1, <1>2, SpecIInv, PTL DEF Spec

(* Every placeholder a format is written with is read as it is written, for  *)
(* every combination of its parts and every format the pieces of a caller    *)
(* make up: no stage of get_next_fmt takes a character for another's.        *)
THEOREM SnprintReadsAsWritten == Spec => []ReadAsWritten
<1>1. IInv /\ PieceInv => ReadAsWritten
  <2> SUFFICES ASSUME IInv, PieceInv, pc = "argument", WellFormed(call)
               PROVE  arg_idx < Len(call.pieces) /\ info = call.pieces[arg_idx + 1].ph
    BY DEF ReadAsWritten
  <2>1. arg_idx < Len(call.pieces)
    BY CurrentFacts
  <2>2. info = Current.ph
    BY DEF PieceInv
  <2> QED
    BY <2>1, <2>2 DEF Current
<1> QED
  BY <1>1, SpecIInv, SpecPieceInv, PTL

-----------------------------------------------------------------------------
(* Texts turned round, repeated and cut.                                     *)

LEMMA SameText ==
  ASSUME NEW s \in Seq(Char), NEW t \in Seq(Char), Len(s) = Len(t),
         \A n \in 1 .. Len(s) : s[n] = t[n]
  PROVE  s = t
  BY SeqEqual

LEMMA ReverseAt ==
  ASSUME NEW s \in Seq(Char)
  PROVE  \A n \in 1 .. Len(s) : Reverse(s)[n] = s[(Len(s) - n) + 1]
  BY DEF Reverse

LEMMA RepeatAt ==
  ASSUME NEW c \in Char, NEW n \in Nat
  PROVE  \A i \in 1 .. n : Repeat(c, n)[i] = c
  BY DEF Repeat

LEMMA RepeatNone ==
  ASSUME NEW c \in Char
  PROVE  Repeat(c, 0) = <<>>
<1>1. Repeat(c, 0) \in Seq(Char) /\ Len(Repeat(c, 0)) = 0
  BY RepeatFacts
<1> QED
  BY <1>1, EmptySeq

LEMMA ReverseConcat ==
  ASSUME NEW s \in Seq(Char), NEW t \in Seq(Char)
  PROVE  Reverse(s \o t) = Reverse(t) \o Reverse(s)
<1> DEFINE a == s \o t
           x == Reverse(a)
           y == Reverse(t)
           z == Reverse(s)
           w == y \o z
<1>1. Len(s) \in Nat /\ Len(t) \in Nat
  BY LenProperties
<1>2. /\ a \in Seq(Char) /\ Len(a) = Len(s) + Len(t)
      /\ \A n \in 1 .. Len(s) + Len(t) :
           a[n] = IF n <= Len(s) THEN s[n] ELSE t[n - Len(s)]
  BY ConcatProperties
<1> HIDE DEF a
<1>3. /\ y \in Seq(Char) /\ Len(y) = Len(t) /\ z \in Seq(Char) /\ Len(z) = Len(s)
      /\ x \in Seq(Char) /\ Len(x) = Len(s) + Len(t)
      /\ \A n \in 1 .. Len(t) : y[n] = t[(Len(t) - n) + 1]
      /\ \A n \in 1 .. Len(s) : z[n] = s[(Len(s) - n) + 1]
      /\ \A n \in 1 .. Len(s) + Len(t) : x[n] = a[((Len(s) + Len(t)) - n) + 1]
  <2>1. y \in Seq(Char) /\ Len(y) = Len(t)
    BY ReverseFacts
  <2>2. z \in Seq(Char) /\ Len(z) = Len(s)
    BY ReverseFacts
  <2>3. x \in Seq(Char) /\ Len(x) = Len(s) + Len(t)
    BY <1>2, ReverseFacts
  <2>4. /\ \A n \in 1 .. Len(t) : y[n] = t[(Len(t) - n) + 1]
        /\ \A n \in 1 .. Len(s) : z[n] = s[(Len(s) - n) + 1]
    BY ReverseAt
  <2>5. \A n \in 1 .. Len(s) + Len(t) : x[n] = a[((Len(s) + Len(t)) - n) + 1]
    <3>1. \A n \in 1 .. Len(a) : x[n] = a[(Len(a) - n) + 1]
      BY <1>2, ReverseAt
    <3> HIDE DEF x
    <3> QED
      BY <1>2, <3>1
  <2> QED
    BY <2>1, <2>2, <2>3, <2>4, <2>5
<1> HIDE DEF x, y, z
<1>4. /\ w \in Seq(Char) /\ Len(w) = Len(t) + Len(s)
      /\ \A n \in 1 .. Len(t) + Len(s) :
           w[n] = IF n <= Len(t) THEN y[n] ELSE z[n - Len(t)]
  <2>1. y \in Seq(Char) /\ z \in Seq(Char)
    BY <1>3
  <2>2. /\ w \in Seq(Char) /\ Len(w) = Len(y) + Len(z)
        /\ \A n \in 1 .. Len(y) + Len(z) :
             w[n] = IF n <= Len(y) THEN y[n] ELSE z[n - Len(y)]
    BY <2>1, ConcatProperties
  <2>3. Len(y) = Len(t) /\ Len(z) = Len(s)
    BY <1>3
  <2> HIDE DEF w
  <2> QED
    BY <2>2, <2>3
<1> HIDE DEF w
<1>5. ASSUME NEW n \in 1 .. Len(x) PROVE x[n] = w[n]
  <2> DEFINE m == ((Len(s) + Len(t)) - n) + 1
  <2>1. n \in 1 .. Len(s) + Len(t) /\ n \in 1 .. Len(t) + Len(s)
        /\ m \in 1 .. Len(s) + Len(t)
    BY <1>1, <1>3
  <2>2. x[n] = a[m]
    BY <1>3, <2>1
  <2>3. CASE n <= Len(t)
    <3>1. n \in 1 .. Len(t) /\ ~(m <= Len(s)) /\ m - Len(s) = (Len(t) - n) + 1
      BY <1>1, <2>1, <2>3
    <3> HIDE DEF m
    <3>2. a[m] = t[(Len(t) - n) + 1]
      BY <1>2, <2>1, <3>1
    <3>3. w[n] = t[(Len(t) - n) + 1]
      BY <1>3, <1>4, <2>1, <2>3, <3>1
    <3> QED
      BY <2>2, <3>2, <3>3
  <2>4. CASE ~(n <= Len(t))
    <3> DEFINE k == n - Len(t)
    <3>1. k \in 1 .. Len(s) /\ m <= Len(s) /\ m = (Len(s) - k) + 1
      BY <1>1, <2>1, <2>4
    <3> HIDE DEF m
    <3>2. a[m] = s[m]
      BY <1>2, <2>1, <3>1
    <3>3. w[n] = z[k]
      BY <1>4, <2>1, <2>4
    <3> HIDE DEF k
    <3>4. z[k] = s[m]
      BY <1>3, <3>1
    <3> QED
      BY <2>2, <3>2, <3>3, <3>4
  <2> QED
    BY <2>3, <2>4
<1>6. Len(x) = Len(w)
  BY <1>1, <1>3, <1>4
<1>7. x = w
  BY <1>3, <1>4, <1>5, <1>6, SameText
<1> QED
  BY <1>7 DEF x, w, y, z, a

LEMMA ReverseRepeat ==
  ASSUME NEW c \in Char, NEW n \in Nat
  PROVE  Reverse(Repeat(c, n)) = Repeat(c, n)
<1> DEFINE s == Repeat(c, n)
           t == Reverse(s)
<1>1. s \in Seq(Char) /\ Len(s) = n /\ \A i \in 1 .. n : s[i] = c
  BY RepeatFacts, RepeatAt
<1> HIDE DEF s
<1>2. t \in Seq(Char) /\ Len(t) = n /\ \A i \in 1 .. n : t[i] = s[(n - i) + 1]
  BY <1>1, ReverseFacts, ReverseAt
<1> HIDE DEF t
<1>3. \A i \in 1 .. n : (n - i) + 1 \in 1 .. n
  OBVIOUS
<1>4. \A i \in 1 .. n : t[i] = s[i]
  BY <1>1, <1>2, <1>3
<1>5. t = s
  BY <1>1, <1>2, <1>4, SameText
<1> QED
  BY <1>5 DEF s, t

LEMMA ReverseShort ==
  ASSUME NEW s \in Seq(Char), Len(s) <= 1
  PROVE  Reverse(s) = s
<1> DEFINE t == Reverse(s)
<1>1. Len(s) \in Nat
  BY LenProperties
<1>2. t \in Seq(Char) /\ Len(t) = Len(s)
      /\ \A i \in 1 .. Len(s) : t[i] = s[(Len(s) - i) + 1]
  BY ReverseFacts, ReverseAt
<1> HIDE DEF t
<1>3. \A i \in 1 .. Len(s) : (Len(s) - i) + 1 = i
  BY <1>1
<1>4. t = s
  BY <1>2, <1>3, SameText
<1> QED
  BY <1>4 DEF t

-----------------------------------------------------------------------------
(* A text with padding around it, and the same text with less of it.         *)

Surrounds(t, core, l, q, c) ==
  /\ t \in Seq(Char) /\ Len(t) = l + Len(core) + q
  /\ \A n \in 1 .. l : t[n] = c
  /\ \A n \in 1 .. Len(core) : t[l + n] = core[n]
  /\ \A n \in 1 .. q : t[l + Len(core) + n] = c

LEMMA LaidFacts ==
  ASSUME NEW c \in Char, NEW core \in Seq(Char), NEW l \in Nat, NEW q \in Nat,
         NEW t, t = Laid(core, l, q, c)
  PROVE  Surrounds(t, core, l, q, c)
<1> DEFINE a == Repeat(c, l)
           b == Repeat(c, q)
           h == a \o core
<1>1. /\ Len(core) \in Nat
      /\ a \in Seq(Char) /\ Len(a) = l /\ \A n \in 1 .. l : a[n] = c
      /\ b \in Seq(Char) /\ Len(b) = q /\ \A n \in 1 .. q : b[n] = c
  BY RepeatFacts, RepeatAt, LenProperties
<1>2. t = h \o b
  BY DEF Laid
<1> HIDE DEF a, b
<1>3. /\ h \in Seq(Char) /\ Len(h) = Len(a) + Len(core)
      /\ \A n \in 1 .. Len(a) + Len(core) :
           h[n] = IF n <= Len(a) THEN a[n] ELSE core[n - Len(a)]
  BY <1>1, ConcatProperties
<1> HIDE DEF h
<1>4. /\ t \in Seq(Char) /\ Len(t) = Len(h) + Len(b)
      /\ \A n \in 1 .. Len(h) + Len(b) :
           t[n] = IF n <= Len(h) THEN h[n] ELSE b[n - Len(h)]
  <2>1. h \in Seq(Char) /\ b \in Seq(Char)
    BY <1>1, <1>3
  <2> DEFINE u == h \o b
  <2>2. /\ u \in Seq(Char) /\ Len(u) = Len(h) + Len(b)
        /\ \A n \in 1 .. Len(h) + Len(b) :
             u[n] = IF n <= Len(h) THEN h[n] ELSE b[n - Len(h)]
    BY <2>1, ConcatProperties
  <2>3. t = u
    BY <1>2
  <2> HIDE DEF u
  <2> QED
    BY <2>2, <2>3
<1>5. Len(h) = l + Len(core) /\ Len(t) = l + Len(core) + q
  BY <1>1, <1>3, <1>4
<1>6. ASSUME NEW n \in 1 .. l PROVE t[n] = c
  <2>1. n \in 1 .. Len(h) + Len(b) /\ n <= Len(h) /\ n \in 1 .. Len(a) + Len(core)
        /\ n <= Len(a)
    BY <1>1, <1>5
  <2>2. t[n] = h[n] /\ h[n] = a[n]
    BY <1>3, <1>4, <2>1
  <2> QED
    BY <1>1, <2>2
<1>7. ASSUME NEW n \in 1 .. Len(core) PROVE t[l + n] = core[n]
  <2> DEFINE m == l + n
  <2>1. m \in 1 .. Len(h) + Len(b) /\ m <= Len(h) /\ m \in 1 .. Len(a) + Len(core)
        /\ ~(m <= Len(a)) /\ m - Len(a) = n
    BY <1>1, <1>5
  <2> HIDE DEF m
  <2>2. t[m] = h[m]
    BY <1>4, <2>1
  <2>3. h[m] = core[n]
    BY <1>3, <2>1
  <2> QED
    BY <2>2, <2>3 DEF m
<1>8. ASSUME NEW n \in 1 .. q PROVE t[l + Len(core) + n] = c
  <2> DEFINE m == l + Len(core) + n
  <2>1. m \in 1 .. Len(h) + Len(b) /\ ~(m <= Len(h)) /\ m - Len(h) = n
    BY <1>1, <1>5
  <2> HIDE DEF m
  <2>2. t[m] = b[n]
    BY <1>4, <2>1
  <2> QED
    BY <1>1, <2>2 DEF m
<1> QED
  BY <1>4, <1>5, <1>6, <1>7, <1>8 DEF Surrounds

\* t is s without some of the characters c it begins and ends with.
Narrower(s, t, c) ==
  \E i \in 1 .. Len(s) : \E j \in i .. Len(s) :
    /\ \A n \in 1 .. Len(s) : n \in i .. j \/ s[n] = c
    /\ t = SubSeq(s, i, j)

LEMMA LessLaid ==
  ASSUME NEW c \in Char, NEW core \in Seq(Char), core # <<>>,
         NEW l \in Nat, NEW q \in Nat, NEW x \in 0 .. l, NEW y \in 0 .. q,
         NEW s, s = Laid(core, l, q, c), NEW t, t = Laid(core, x, y, c)
  PROVE  Narrower(s, t, c)
<1> DEFINE len == Len(core)
           i == (l - x) + 1
           j == l + len + y
           u == SubSeq(s, i, j)
<1>1. len \in Nat \ {0} /\ x \in Nat /\ y \in Nat
  BY LenProperties, EmptySeq
<1>2. /\ s \in Seq(Char) /\ Len(s) = l + len + q
      /\ \A n \in 1 .. l : s[n] = c
      /\ \A n \in 1 .. len : s[l + n] = core[n]
      /\ \A n \in 1 .. q : s[l + len + n] = c
  <2>1. Surrounds(s, core, l, q, c)
    BY LaidFacts
  <2> QED
    BY <2>1 DEF Surrounds
<1>3. /\ t \in Seq(Char) /\ Len(t) = x + len + y
      /\ \A n \in 1 .. x : t[n] = c
      /\ \A n \in 1 .. len : t[x + n] = core[n]
      /\ \A n \in 1 .. y : t[x + len + n] = c
  <2>1. Surrounds(t, core, x, y, c)
    BY <1>1, LaidFacts
  <2> QED
    BY <2>1 DEF Surrounds
<1> HIDE DEF len
<1>4. i \in 1 .. Len(s) /\ j \in i .. Len(s) /\ i \in Int /\ j \in Int
      /\ (j - i) + 1 = x + len + y /\ i <= j
  BY <1>1, <1>2
<1>5. ASSUME NEW n \in 1 .. Len(s), n \notin i .. j PROVE s[n] = c
  <2>1. CASE n < i
    <3>1. n \in 1 .. l
      BY <1>1, <1>2, <1>5, <2>1
    <3> QED
      BY <1>2, <3>1
  <2>2. CASE ~(n < i)
    <3> DEFINE m == n - (l + len)
    <3>1. m \in 1 .. q /\ n = l + len + m
      BY <1>1, <1>2, <1>4, <1>5, <2>2
    <3> HIDE DEF m
    <3> QED
      BY <1>2, <3>1
  <2> QED
    BY <2>1, <2>2
<1> HIDE DEF i, j
<1>6. \A n \in i .. j : s[n] \in Char
  <2>1. \A n \in i .. j : n \in 1 .. Len(s)
    BY <1>2, <1>4, LenProperties
  <2> QED
    BY <1>2, <2>1, ElementOfSeq
<1>7. /\ u \in Seq(Char) /\ Len(u) = (j - i) + 1
      /\ \A n \in 1 .. (j - i) + 1 : u[n] = s[i + n - 1]
  BY <1>4, <1>6, SubSeqProperties
<1> HIDE DEF u
<1>8. ASSUME NEW n \in 1 .. Len(t) PROVE t[n] = u[n]
  <2> DEFINE k == i + n - 1
  <2>1. u[n] = s[k] /\ k = (l - x) + n
    BY <1>1, <1>3, <1>4, <1>7 DEF i
  <2>2. n \in 1 .. (x + len + y)
    BY <1>3
  <2> HIDE DEF k
  <2>3. CASE n <= x
    <3>1. n \in 1 .. x /\ k \in 1 .. l
      BY <2>1, <2>2, <2>3
    <3> QED
      BY <1>2, <1>3, <2>1, <3>1
  <2>4. CASE n > x /\ n <= x + len
    <3> DEFINE m == n - x
    <3>1. m \in 1 .. len /\ n = x + m /\ k = l + m
      BY <1>1, <2>1, <2>2, <2>4
    <3> HIDE DEF m
    <3>2. t[n] = core[m] /\ s[k] = core[m]
      BY <1>2, <1>3, <3>1
    <3> QED
      BY <2>1, <3>2
  <2>5. CASE n > x + len
    <3> DEFINE m == n - (x + len)
    <3>1. m \in 1 .. y /\ m \in 1 .. q /\ n = x + len + m /\ k = l + len + m
      BY <1>1, <2>1, <2>2, <2>5
    <3> HIDE DEF m
    <3>2. t[n] = c /\ s[k] = c
      BY <1>2, <1>3, <3>1
    <3> QED
      BY <2>1, <3>2
  <2> QED
    BY <1>1, <2>2, <2>3, <2>4, <2>5
<1>9. t = u
  <2>1. Len(t) = Len(u)
    BY <1>3, <1>4, <1>7
  <2> QED
    BY <1>3, <1>7, <1>8, <2>1, SameText
<1> QED
  BY <1>4, <1>5, <1>9 DEF Narrower, u

-----------------------------------------------------------------------------
(* A piece of output is what is asked.  If it takes all the room it may lack *)
(* some of the padding, and it is given up only if what is asked would take  *)
(* all the room.                                                             *)

Delivers(room, piece, asked, blank) ==
  /\ asked \in Seq(Char)
  /\ piece.ret = "OK" /\ Counted(room, piece) <= room =>
       \/ piece.text = asked
       \/ Counted(room, piece) = room /\ Narrower(asked, piece.text, blank)
  /\ piece.ret = TRUNCATED => Len(asked) >= room

LEMMA PaddingFacts ==
  ASSUME NEW room \in Nat, NEW len \in Nat, NEW put, put = padding(room, len)
  PROVE  /\ put \in Nat /\ put <= len
         /\ room = 0 => put = len
         /\ room # 0 => put <= room
         /\ room # 0 /\ put < len => put = room
  BY DEF padding, Least

\* A number that is put in the room back to front and turned round, whole being
\* all of it but for the padding at its ends.
Turned(room, body, c, left, due) ==
  LET front == IF Len(body) >= room
                 THEN SubSeq(body, 1, room)
                 ELSE body \o Repeat(c, Least(left, room - Len(body)))
      rest  == room - Len(front)
      put   == padding(rest, due)
  IN Piece(IF Len(body) >= room THEN TRUNCATED ELSE "OK",
           Reverse(front) \o Repeat(c, Least(put, rest)),
           (rest - put) % RegWrap, Len(front) + put)

\* There is room for it, with what there is room for of the padding.
LEMMA TurnedInside ==
  ASSUME NEW room \in Nat, NEW body \in Seq(Char), Len(body) < room,
         NEW c \in Char, NEW left \in Nat, NEW right \in Nat,
         NEW piece, piece = Turned(room, body, c, left, right),
         piece.wrote <= room
  PROVE  /\ piece.ret = "OK"
         /\ \E p \in 0 .. left : \E put \in 0 .. right :
              /\ piece.text = Laid(Reverse(body), p, put, c)
              /\ (p = left /\ put = right) \/ p + Len(body) + put = room
<1> DEFINE len == Len(body)
           p == Least(left, room - len)
           front == body \o Repeat(c, p)
           rest == room - Len(front)
           put == padding(rest, right)
<1>1. len \in Nat /\ len < room /\ ~(len >= room)
  BY LenProperties
<1>2. /\ piece.ret = "OK" /\ piece.wrote = Len(front) + put
      /\ piece.text = Reverse(front) \o Repeat(c, Least(put, rest))
  BY <1>1 DEF Turned, Piece
<1> HIDE DEF len
<1>3. p \in 0 .. left /\ p \in Nat /\ len + p <= room /\ (p < left => len + p = room)
  BY <1>1 DEF Least
<1> HIDE DEF p
<1>4. /\ Repeat(c, p) \in Seq(Char) /\ Len(Repeat(c, p)) = p
      /\ Reverse(Repeat(c, p)) = Repeat(c, p)
  BY <1>3, RepeatFacts, ReverseRepeat
<1>5. Len(front) = len + p /\ Reverse(front) = Repeat(c, p) \o Reverse(body)
  BY <1>4, ConcatFacts, ReverseConcat DEF len
<1> HIDE DEF front
<1>6. rest = room - (len + p) /\ rest \in Nat
  BY <1>1, <1>3, <1>5
<1> HIDE DEF rest
<1>7. /\ put \in Nat /\ put <= right
      /\ rest = 0 => put = right
      /\ rest # 0 /\ put < right => put = rest
  BY <1>6, PaddingFacts
<1> HIDE DEF put
<1>8. (len + p) + put <= room
  BY <1>2, <1>5
<1>9. put <= rest /\ put \in 0 .. right
  BY <1>1, <1>3, <1>6, <1>7, <1>8
<1>10. Least(put, rest) = put
  BY <1>6, <1>7, <1>9 DEF Least
<1>11. piece.text = Laid(Reverse(body), p, put, c)
  BY <1>2, <1>5, <1>10 DEF Laid
<1>12. (p = left /\ put = right) \/ p + len + put = room
  <2>1. CASE p < left
    <3>1. len + p = room
      BY <1>3, <2>1
    <3> QED
      BY <1>1, <1>3, <1>6, <1>7, <1>9, <3>1
  <2>2. CASE p = left /\ put < right
    <3>1. put = rest
      BY <1>7, <1>9, <2>2
    <3> QED
      BY <1>1, <1>3, <1>6, <3>1
  <2> QED
    BY <1>3, <1>7, <2>1, <2>2
<1> QED
  BY <1>2, <1>3, <1>9, <1>11, <1>12 DEF len

LEMMA TurnedDelivers ==
  ASSUME NEW room \in Rooms, NEW body \in Seq(Char),
         NEW whole \in Seq(Char), whole # <<>>,
         Len(body) < room => body = whole,
         Len(body) >= room => Len(whole) >= room,
         NEW c \in Char, NEW left \in Nat, NEW right \in Nat,
         NEW due, Len(body) < room => due = right,
         NEW piece, piece = Turned(room, body, c, left, due),
         NEW over, Fits(room, piece, over)
  PROVE  Delivers(room, piece, Laid(Reverse(whole), left, right, c), c)
<1> DEFINE core == Reverse(whole)
           asked == Laid(core, left, right, c)
<1>1. /\ room \in Nat /\ Len(body) \in Nat /\ Len(whole) \in Nat \ {0}
      /\ core \in Seq(Char) /\ Len(core) = Len(whole)
  BY LenProperties, EmptySeq, ReverseFacts, WrapFacts DEF Rooms
<1>2. core # <<>>
  BY <1>1, EmptySeq
<1>3. asked \in Seq(Char) /\ Len(asked) = left + Len(whole) + right
  <2>1. Surrounds(asked, core, left, right, c)
    BY <1>1, LaidFacts
  <2> QED
    BY <1>1, <2>1 DEF Surrounds
<1> HIDE DEF asked
<1>4. CASE Len(body) >= room
  <2>1. piece.ret = TRUNCATED
    BY <1>4 DEF Piece, Turned
  <2>2. Len(asked) >= room
    BY <1>1, <1>3, <1>4
  <2>3. piece.ret # "OK"
    BY <2>1 DEF TRUNCATED
  <2> QED
    BY <1>3, <2>2, <2>3 DEF Delivers, asked
<1>5. CASE Len(body) < room
  <2>1. body = whole /\ due = right
    BY <1>5
  <2>2. ASSUME piece.ret = "OK", Counted(room, piece) <= room
        PROVE  \/ piece.text = asked
               \/ Counted(room, piece) = room /\ Narrower(asked, piece.text, c)
    <3>1. piece.wrote <= room /\ Len(piece.text) = Counted(room, piece)
      BY <2>2 DEF Fits
    <3>2. PICK p \in 0 .. left, put \in 0 .. right :
            /\ piece.text = Laid(core, p, put, c)
            /\ (p = left /\ put = right) \/ p + Len(whole) + put = room
      BY <1>1, <1>5, <2>1, <3>1, TurnedInside
    <3>3. CASE p = left /\ put = right
      BY <3>2, <3>3 DEF asked
    <3>4. CASE p + Len(whole) + put = room
      <4>1. Len(piece.text) = p + Len(whole) + put
        <5>1. p \in Nat /\ put \in Nat
          OBVIOUS
        <5>2. Surrounds(piece.text, core, p, put, c)
          BY <1>1, <3>2, <5>1, LaidFacts
        <5> QED
          BY <1>1, <5>2 DEF Surrounds
      <4>2. Narrower(asked, piece.text, c)
        BY <1>1, <1>2, <3>2, LessLaid DEF asked
      <4> QED
        BY <3>1, <3>4, <4>1, <4>2
    <3> QED
      BY <3>2, <3>3, <3>4
  <2>3. piece.ret = "OK"
    <3>1. ~(Len(body) >= room)
      BY <1>1, <1>5
    <3> QED
      BY <3>1 DEF Turned, Piece
  <2> QED
    BY <1>3, <2>2, <2>3 DEF Delivers, TRUNCATED, asked
<1> QED
  BY <1>1, <1>4, <1>5

-----------------------------------------------------------------------------
(* A number is laid out back to front as it is asked for front to back.      *)

LEMMA SignFacts ==
  ASSUME NEW inf \in Infos, NEW positive \in BOOLEAN
  PROVE  /\ Len(Sign(inf, positive)) = IF HasSign(inf, positive) THEN 1 ELSE 0
         /\ Reverse(Sign(inf, positive)) = Sign(inf, positive)
<1> DEFINE s == Sign(inf, positive)
<1>1. inf.sign \in {"NEG", "BOTH", "POS_LEADING"}
  BY DEF Infos
<1>2. s \in IF HasSign(inf, positive) THEN {<<"-">>, <<"+">>, <<" ">>} ELSE {<<>>}
  BY <1>1 DEF Sign, HasSign
<1>3. /\ Len(<<"-">>) = 1 /\ Len(<<"+">>) = 1 /\ Len(<<" ">>) = 1 /\ Len(<<>>) = 0
  OBVIOUS
<1>4. s \in Seq(Char)
  BY SignType
<1> HIDE DEF s
<1>5. Len(s) = IF HasSign(inf, positive) THEN 1 ELSE 0
  BY <1>2, <1>3
<1>6. Len(s) <= 1
  BY <1>5
<1>7. Reverse(s) = s
  BY <1>4, <1>6, ReverseShort
<1> QED
  BY <1>5, <1>7 DEF s

LEMMA BasePrefixFacts ==
  ASSUME NEW base \in {2, 8, 10, 16}, NEW alternate \in BOOLEAN,
         NEW p, p = IF alternate THEN BasePrefix(base) ELSE <<>>
  PROVE  /\ p \in Seq(Char)
         /\ Len(p) = IF alternate /\ base # 10 THEN 2 ELSE 0
         /\ Reverse(p) = IF alternate THEN Reverse(BasePrefix(base)) ELSE <<>>
<1>1. p \in Seq(Char)
  BY BasePrefixType, ShortTexts
<1>2. /\ Len(<<"b", "0">>) = 2 /\ Len(<<"o", "0">>) = 2 /\ Len(<<"x", "0">>) = 2
      /\ Len(<<>>) = 0
  OBVIOUS
<1>3. /\ alternate /\ base # 10 => p = <<"b", "0">> \/ p = <<"o", "0">> \/ p = <<"x", "0">>
      /\ ~(alternate /\ base # 10) => p = <<>>
  BY DEF BasePrefix
<1>4. Len(p) = IF alternate /\ base # 10 THEN 2 ELSE 0
  <2>1. CASE alternate /\ base # 10
    <3>1. Len(p) = 2
      BY <1>2, <1>3, <2>1
    <3> QED
      BY <2>1, <3>1
  <2>2. CASE ~(alternate /\ base # 10)
    <3>1. Len(p) = 0
      BY <1>2, <1>3, <2>2
    <3> QED
      BY <2>2, <3>1
  <2> QED
    BY <2>1, <2>2
<1>5. Reverse(p) = IF alternate THEN Reverse(BasePrefix(base)) ELSE <<>>
  <2>1. CASE alternate
    BY <2>1
  <2>2. CASE ~alternate
    <3>1. p = <<>> /\ p \in Seq(Char) /\ Len(p) <= 1
      BY <1>1, <1>2, <2>2
    <3>2. Reverse(p) = p
      BY <3>1, ReverseShort
    <3> QED
      BY <2>2, <3>1, <3>2
  <2> QED
    BY <2>1, <2>2
<1> QED
  BY <1>1, <1>4, <1>5

\* What is counted for the padding is what the width leaves, unless the prefix
\* takes more.
Taken(inf, base, positive) == (IF HasSign(inf, positive) THEN 1 ELSE 0)
                              + (IF inf.alternate_form /\ base # 10 THEN 2 ELSE 0)

PrefixFits(inf, base, len) ==
  ~(inf.alternate_form /\ base # 10 /\ inf.min_width - len = 1)

LEMMA CountIsBlank ==
  ASSUME NEW inf \in Infos, NEW base, NEW positive,
         NEW len, len \in Nat, PrefixFits(inf, base, len),
         NEW l, l = Taken(inf, base, positive) + len
  PROVE  PaddingCount(len, base, inf, positive) = Most(inf.min_width - l, 0)
<1> DEFINE has == HasSign(inf, positive)
           pre == inf.alternate_form /\ base # 10
           width == inf.min_width
           blank == Most(width, len) - len
           prefix == IF blank > 0 /\ inf.alternate_form /\ base # 10
                       THEN (blank - 2) % RegWrap ELSE blank
           count == PaddingCount(len, base, inf, positive)
<1>1. count = IF prefix > 0 /\ has THEN prefix - 1 ELSE prefix
  BY DEF PaddingCount
<1>2. width \in 0 .. (RegWrap - 1) /\ RegWrap \in Nat
  BY WrapFacts DEF Infos
<1>3. ~(pre /\ width - len = 1)
  BY DEF PrefixFits
<1>4. l = (IF has THEN 1 ELSE 0) + (IF pre THEN 2 ELSE 0) + len
  BY DEF Taken
<1>5. prefix = IF blank > 0 /\ pre THEN (blank - 2) % RegWrap ELSE blank
  OBVIOUS
<1>6. blank \in Nat /\ blank = IF width > len THEN width - len ELSE 0
  BY <1>2 DEF Most
<1>7. blank < RegWrap
  BY <1>2, <1>6
<1>8. has \in BOOLEAN /\ pre \in BOOLEAN
  BY DEF HasSign
<1> HIDE DEF has, pre, width, blank, prefix, count
<1>9. prefix = IF blank > 0 /\ pre THEN blank - 2 ELSE blank
  <2>1. CASE blank > 0 /\ pre
    <3>1. blank - 2 \in 0 .. (RegWrap - 1) /\ blank - 2 \in Int
      BY <1>2, <1>3, <1>6, <1>7, <2>1
    <3>2. (blank - 2) % RegWrap = blank - 2
      BY <3>1, ModCases, WrapFacts
    <3> QED
      BY <1>5, <2>1, <3>2
  <2>2. CASE ~(blank > 0 /\ pre)
    BY <1>5, <2>2
  <2> QED
    BY <2>1, <2>2
<1>10. Most(width - l, 0) = IF width - l > 0 THEN width - l ELSE 0
  BY DEF Most
<1>11. width \in Nat /\ len \in Nat
  BY <1>2
<1>12. count = Most(width - l, 0)
  <2>1. CASE has /\ pre
    <3>1. l = 3 + len /\ prefix = (IF blank > 0 THEN blank - 2 ELSE blank)
          /\ count = (IF prefix > 0 THEN prefix - 1 ELSE prefix) /\ width - len # 1
      BY <1>1, <1>3, <1>4, <1>9, <2>1
    <3> QED
      BY <1>6, <1>10, <1>11, <3>1
  <2>2. CASE has /\ ~pre
    <3>1. l = 1 + len /\ prefix = blank
          /\ count = (IF prefix > 0 THEN prefix - 1 ELSE prefix)
      BY <1>1, <1>4, <1>9, <2>2
    <3> QED
      BY <1>6, <1>10, <1>11, <3>1
  <2>3. CASE ~has /\ pre
    <3>1. l = 2 + len /\ prefix = (IF blank > 0 THEN blank - 2 ELSE blank)
          /\ count = prefix /\ width - len # 1
      BY <1>1, <1>3, <1>4, <1>9, <2>3
    <3> QED
      BY <1>6, <1>10, <1>11, <3>1
  <2>4. CASE ~has /\ ~pre
    <3>1. l = len /\ prefix = blank /\ count = prefix
      BY <1>1, <1>4, <1>9, <2>4
    <3> QED
      BY <1>6, <1>10, <1>11, <3>1
  <2> QED
    BY <1>8, <2>1, <2>2, <2>3, <2>4
<1> QED
  BY <1>12 DEF count, width

\* A number back to front, turned round.
FrontFirst(t, d, b, x, a, s) ==
  /\ t \in Seq(Char)
  /\ Len(t) = Len(d) + Len(b) + Len(x) + Len(a) + Len(s)
  /\ Reverse(t) = s \o (a \o (Reverse(x) \o (b \o Reverse(d))))

LEMMA NumberTurned ==
  ASSUME NEW d \in Seq(Char), NEW b \in Seq(Char), NEW x \in Seq(Char),
         NEW a \in Seq(Char), NEW s \in Seq(Char),
         Reverse(b) = b, Reverse(a) = a, Reverse(s) = s
  PROVE  FrontFirst(d \o b \o x \o a \o s, d, b, x, a, s)
<1>1. /\ d \o b \in Seq(Char) /\ Len(d \o b) = Len(d) + Len(b)
      /\ Reverse(d \o b) = b \o Reverse(d)
  BY ConcatFacts, ReverseConcat
<1> DEFINE t == d \o b
<1> HIDE DEF t
<1>2. /\ t \o x \in Seq(Char) /\ Len(t \o x) = Len(t) + Len(x)
      /\ Reverse(t \o x) = Reverse(x) \o Reverse(t)
  BY <1>1, ConcatFacts, ReverseConcat DEF t
<1> DEFINE u == t \o x
<1> HIDE DEF u
<1>3. /\ u \o a \in Seq(Char) /\ Len(u \o a) = Len(u) + Len(a)
      /\ Reverse(u \o a) = a \o Reverse(u)
  BY <1>2, ConcatFacts, ReverseConcat DEF u
<1> DEFINE v == u \o a
<1> HIDE DEF v
<1>4. /\ v \o s \in Seq(Char) /\ Len(v \o s) = Len(v) + Len(s)
      /\ Reverse(v \o s) = s \o Reverse(v)
  BY <1>3, ConcatFacts, ReverseConcat DEF v
<1>5. v \o s = d \o b \o x \o a \o s
  BY DEF v, u, t
<1>6. Reverse(v) = a \o (Reverse(x) \o (b \o Reverse(d)))
  BY <1>1, <1>2, <1>3 DEF v, u, t
<1>7. Len(v) = Len(d) + Len(b) + Len(x) + Len(a)
  BY <1>1, <1>2, <1>3 DEF v, u, t
<1> QED
  BY <1>4, <1>5, <1>6, <1>7 DEF FrontFirst

\* Padding that is not there.
LEMMA NoPadding ==
  ASSUME NEW c \in Char, NEW t \in Seq(Char)
  PROVE  /\ Repeat(c, 0) \o t = t
         /\ Laid(t, 0, 0, c) = t
         /\ \A n \in Nat : Laid(t, n, 0, c) = Repeat(c, n) \o t
<1>1. Repeat(c, 0) = <<>>
  BY RepeatNone
<1>2. <<>> \o t = t
  BY ConcatEmptySeq
<1>3. ASSUME NEW n \in Nat PROVE Laid(t, n, 0, c) = Repeat(c, n) \o t
  <2>1. Repeat(c, n) \o t \in Seq(Char)
    BY RepeatFacts, ConcatFacts
  <2>2. (Repeat(c, n) \o t) \o <<>> = Repeat(c, n) \o t
    BY <2>1, ConcatEmptySeq
  <2> QED
    BY <1>1, <2>2 DEF Laid
<1>4. Laid(t, 0, 0, c) = t
  BY <1>1, <1>2, <1>3
<1> QED
  BY <1>1, <1>2, <1>3, <1>4

\* Where the padding goes, in a number laid out front to back.
Places(ph, c, s, x, d, blank, laid) ==
  LET total == s \o x \o d
  IN /\ ph.alignment = "LEFT" => laid = Laid(total, 0, blank, c)
     /\ ph.alignment = "CENTER" =>
          laid = Laid(total, blank \div 2, blank - blank \div 2, c)
     /\ ph.alignment = "AFTER_SIGN" => laid = s \o Laid(x \o d, blank, 0, c)
     /\ ph.alignment = "DEFAULT" /\ ph.zero_padding =>
          laid = s \o x \o Laid(d, blank, 0, c)
     /\ ph.alignment = "RIGHT" \/ (ph.alignment = "DEFAULT" /\ ~ph.zero_padding) =>
          laid = Laid(total, blank, 0, c)

LEMMA PlacesAsked ==
  ASSUME NEW ph \in Infos, NEW c \in Char, NEW s \in Seq(Char), NEW x \in Seq(Char),
         NEW d \in Seq(Char), NEW blank \in Nat
  PROVE  LET place == PaddingPlace(ph, blank)
             core == s \o (Repeat(c, place.after_sign)
                           \o (x \o (Repeat(c, place.after_prefix) \o d)))
         IN Places(ph, c, s, x, d, blank, Laid(core, place.left, place.right, c))
<1> DEFINE place == PaddingPlace(ph, blank)
           core == s \o (Repeat(c, place.after_sign)
                         \o (x \o (Repeat(c, place.after_prefix) \o d)))
           total == s \o x \o d
           laid == Laid(core, place.left, place.right, c)
<1> SUFFICES Places(ph, c, s, x, d, blank, laid)
  OBVIOUS
<1>1. x \o d \in Seq(Char) /\ s \o x \in Seq(Char)
  BY ConcatFacts
<1>2. total = s \o (x \o d) /\ total \in Seq(Char)
  BY <1>1, Associative, ConcatFacts
<1>3. ASSUME place.after_sign = 0, place.after_prefix = 0
      PROVE  core = total
  <2>1. Repeat(c, 0) \o d = d /\ Repeat(c, 0) \o (x \o d) = x \o d
    BY <1>1, NoPadding
  <2> QED
    BY <1>2, <1>3, <2>1
<1>4. ASSUME ph.alignment = "LEFT"
      PROVE  laid = Laid(total, 0, blank, c)
  <2>1. place.left = 0 /\ place.right = blank
        /\ place.after_sign = 0 /\ place.after_prefix = 0
    BY <1>4 DEF PaddingPlace
  <2> QED
    BY <1>3, <2>1
<1>5. ASSUME ph.alignment = "CENTER"
      PROVE  laid = Laid(total, blank \div 2, blank - blank \div 2, c)
  <2>1. place.left = blank \div 2 /\ place.right = blank - blank \div 2
        /\ place.after_sign = 0 /\ place.after_prefix = 0
    BY <1>5 DEF PaddingPlace
  <2> QED
    BY <1>3, <2>1
<1>6. ASSUME ph.alignment = "AFTER_SIGN"
      PROVE  laid = s \o Laid(x \o d, blank, 0, c)
  <2>1. place.left = 0 /\ place.right = 0
        /\ place.after_sign = blank /\ place.after_prefix = 0
    BY <1>6 DEF PaddingPlace
  <2>2. Repeat(c, 0) \o d = d
    BY NoPadding
  <2>3. core = s \o (Repeat(c, blank) \o (x \o d))
    BY <2>1, <2>2
  <2>4. Laid(x \o d, blank, 0, c) = Repeat(c, blank) \o (x \o d)
    BY <1>1, NoPadding
  <2>5. core \in Seq(Char)
    <3>1. Repeat(c, blank) \o (x \o d) \in Seq(Char)
      BY <1>1, RepeatFacts, ConcatFacts
    <3> QED
      BY <2>3, <3>1, ConcatFacts
  <2>6. laid = Laid(core, 0, 0, c)
    BY <2>1
  <2> HIDE DEF laid, core
  <2>7. laid = core
    BY <2>5, <2>6, NoPadding
  <2> QED
    BY <2>3, <2>4, <2>7
<1>7. ASSUME ph.alignment = "DEFAULT", ph.zero_padding
      PROVE  laid = s \o x \o Laid(d, blank, 0, c)
  <2>1. place.left = 0 /\ place.right = 0
        /\ place.after_sign = 0 /\ place.after_prefix = blank
    BY <1>7 DEF PaddingPlace
  <2> DEFINE p == Repeat(c, blank) \o d
  <2>2. p \in Seq(Char)
    BY RepeatFacts, ConcatFacts
  <2>3. Laid(d, blank, 0, c) = p
    BY NoPadding
  <2>4. core = s \o (Repeat(c, 0) \o (x \o p)) /\ laid = Laid(core, 0, 0, c)
    BY <2>1
  <2> HIDE DEF p, core, laid
  <2>5. x \o p \in Seq(Char)
    BY <2>2, ConcatFacts
  <2>6. Repeat(c, 0) \o (x \o p) = x \o p
    BY <2>5, NoPadding
  <2>7. core = s \o (x \o p)
    BY <2>4, <2>6
  <2>8. core = s \o x \o p
    BY <2>2, <2>7, Associative
  <2>9. core \in Seq(Char)
    BY <2>5, <2>7, ConcatFacts
  <2>10. laid = core
    BY <2>4, <2>9, NoPadding
  <2> QED
    BY <2>3, <2>8, <2>10
<1>8. ASSUME ph.alignment = "RIGHT" \/ (ph.alignment = "DEFAULT" /\ ~ph.zero_padding)
      PROVE  laid = Laid(total, blank, 0, c)
  <2>1. place.left = blank /\ place.right = 0
        /\ place.after_sign = 0 /\ place.after_prefix = 0
    BY <1>8 DEF PaddingPlace
  <2> QED
    BY <1>3, <2>1
<1> HIDE DEF laid
<1> QED
  BY <1>4, <1>5, <1>6, <1>7, <1>8 DEF Places

\* itoa's number from its last digit to its sign, before it is cut.
Backwards(ph, base, val, positive) ==
  LET digits == Digits(val, base)
      place  == PaddingPlace(ph, PaddingCount(Len(digits), base, ph, positive))
      fill   == PaddingChar(ph, IF ph.zero_padding THEN "0" ELSE " ")
  IN digits \o Repeat(fill, place.after_prefix)
     \o (IF ph.alternate_form THEN BasePrefix(base) ELSE <<>>)
     \o Repeat(fill, place.after_sign) \o Sign(ph, positive)

LEMMA NumberAsked ==
  ASSUME NEW ph \in Infos, NEW base \in {2, 8, 10, 16}, NEW val \in Nat,
         NEW positive \in BOOLEAN,
         ~(ph.alternate_form /\ base # 10 /\ ph.min_width - Len(Digits(val, base)) = 1)
  PROVE  LET place == PaddingPlace(ph, PaddingCount(Len(Digits(val, base)), base,
                                                    ph, positive))
             fill  == PaddingChar(ph, IF ph.zero_padding THEN "0" ELSE " ")
         IN AskedNumber(ph, base, val, positive) =
              Laid(Reverse(Backwards(ph, base, val, positive)),
                   place.left, place.right, fill)
<1> DEFINE d == Digits(val, base)
           count == PaddingCount(Len(d), base, ph, positive)
           place == PaddingPlace(ph, count)
           c == PaddingChar(ph, IF ph.zero_padding THEN "0" ELSE " ")
           x == IF ph.alternate_form THEN BasePrefix(base) ELSE <<>>
           whole == Backwards(ph, base, val, positive)
           s == Sign(ph, positive)
           px == Reverse(x)
           dg == Reverse(d)
           total == s \o px \o dg
           a == Repeat(c, place.after_sign)
           b == Repeat(c, place.after_prefix)
           core == s \o (a \o (px \o (b \o dg)))
           asked == AskedNumber(ph, base, val, positive)
<1> SUFFICES asked = Laid(Reverse(whole), place.left, place.right, c)
  OBVIOUS
<1>1. d \in Seq(Char) /\ Len(d) \in Nat \ {0}
  BY DigitsFacts
<1>2. /\ s \in Seq(Char) /\ Reverse(s) = s
      /\ Len(s) = IF HasSign(ph, positive) THEN 1 ELSE 0
  BY SignType, SignFacts
<1>3. /\ x \in Seq(Char)
      /\ Len(x) = IF ph.alternate_form /\ base # 10 THEN 2 ELSE 0
      /\ px = IF ph.alternate_form THEN Reverse(BasePrefix(base)) ELSE <<>>
  <2>1. ph.alternate_form \in BOOLEAN
    BY DEF Infos
  <2> QED
    BY <2>1, BasePrefixFacts
<1>4. c \in Char
  <2>1. (IF ph.zero_padding THEN "0" ELSE " ") \in Char
    BY CharFacts
  <2> QED
    BY <2>1, FillType
<1>5. whole = d \o b \o x \o a \o s
  BY DEF Backwards
<1>6. ~(ph.alternate_form /\ base # 10 /\ ph.min_width - Len(d) = 1)
  OBVIOUS
<1>7. asked = LET blank == Most(ph.min_width - Len(total), 0)
              IN CASE ph.alignment = "LEFT"   -> Laid(total, 0, blank, c)
                   [] ph.alignment = "CENTER" ->
                        Laid(total, blank \div 2, blank - blank \div 2, c)
                   [] ph.alignment = "AFTER_SIGN" -> s \o Laid(px \o dg, blank, 0, c)
                   [] ph.alignment = "DEFAULT" /\ ph.zero_padding ->
                        s \o px \o Laid(dg, blank, 0, c)
                   [] OTHER -> Laid(total, blank, 0, c)
  BY <1>3 DEF AskedNumber
<1> HIDE DEF asked, c, whole
<1>8. /\ px \in Seq(Char) /\ Len(px) = Len(x)
      /\ dg \in Seq(Char) /\ Len(dg) = Len(d)
  BY <1>1, <1>3, ReverseFacts
<1>9. Reverse(x) = px /\ Reverse(d) = dg
  OBVIOUS
<1> HIDE DEF d, x, s, px, dg
<1>10. total \in Seq(Char) /\ Len(total) = Len(s) + Len(x) + Len(d)
  <2>1. s \o px \in Seq(Char) /\ Len(s \o px) = Len(s) + Len(px)
    BY <1>2, <1>8, ConcatFacts
  <2>2. total \in Seq(Char) /\ Len(total) = Len(s \o px) + Len(dg)
    BY <1>8, <2>1, ConcatFacts
  <2> QED
    BY <1>8, <2>1, <2>2
<1>11. count \in Nat /\ count \in 0 .. (RegWrap - 1)
  <2>1. Len(d) \in Nat
    BY <1>1
  <2>2. count \in 0 .. (RegWrap - 1)
    BY <2>1, PaddingCountType
  <2> QED
    BY <2>2
<1>12. count = Most(ph.min_width - Len(total), 0)
  <2> DEFINE len == Len(d)
             l == Taken(ph, base, positive) + len
  <2>1. len \in Nat /\ PrefixFits(ph, base, len)
    BY <1>1, <1>6 DEF PrefixFits
  <2>2. Len(total) = l
    BY <1>2, <1>3, <1>10 DEF Taken
  <2>3. count = PaddingCount(len, base, ph, positive)
    OBVIOUS
  <2> HIDE DEF len, total, count
  <2>4. l = Taken(ph, base, positive) + len
    OBVIOUS
  <2> HIDE DEF l
  <2>5. PaddingCount(len, base, ph, positive) = Most(ph.min_width - l, 0)
    BY <2>1, <2>4, CountIsBlank
  <2> QED
    BY <2>2, <2>3, <2>5
<1> HIDE DEF count
<1>13. asked = Laid(core, place.left, place.right, c)
  <2> DEFINE laid == Laid(core, place.left, place.right, c)
  <2>1. Places(ph, c, s, px, dg, count, laid)
    BY <1>2, <1>4, <1>8, <1>11, PlacesAsked
  <2> HIDE DEF laid
  <2>2. /\ ph.alignment = "LEFT" => laid = Laid(total, 0, count, c)
        /\ ph.alignment = "CENTER" =>
             laid = Laid(total, count \div 2, count - count \div 2, c)
        /\ ph.alignment = "AFTER_SIGN" => laid = s \o Laid(px \o dg, count, 0, c)
        /\ ph.alignment = "DEFAULT" /\ ph.zero_padding =>
             laid = s \o px \o Laid(dg, count, 0, c)
        /\ ph.alignment = "RIGHT" \/ (ph.alignment = "DEFAULT" /\ ~ph.zero_padding) =>
             laid = Laid(total, count, 0, c)
    BY <2>1 DEF Places
  <2>3. ph.alignment \in {"DEFAULT", "LEFT", "RIGHT", "AFTER_SIGN", "CENTER"}
    BY DEF Infos
  <2>4. asked = CASE ph.alignment = "LEFT"   -> Laid(total, 0, count, c)
                  [] ph.alignment = "CENTER" ->
                       Laid(total, count \div 2, count - count \div 2, c)
                  [] ph.alignment = "AFTER_SIGN" -> s \o Laid(px \o dg, count, 0, c)
                  [] ph.alignment = "DEFAULT" /\ ph.zero_padding ->
                       s \o px \o Laid(dg, count, 0, c)
                  [] OTHER -> Laid(total, count, 0, c)
    BY <1>7, <1>12
  <2> HIDE DEF total
  <2>5. CASE ph.alignment = "LEFT"
    BY <2>2, <2>4, <2>5 DEF laid
  <2>6. CASE ph.alignment = "CENTER"
    BY <2>2, <2>4, <2>6 DEF laid
  <2>7. CASE ph.alignment = "AFTER_SIGN"
    BY <2>2, <2>4, <2>7 DEF laid
  <2>8. CASE ph.alignment = "DEFAULT" /\ ph.zero_padding
    BY <2>2, <2>4, <2>8 DEF laid
  <2>9. CASE ph.alignment = "DEFAULT" /\ ~ph.zero_padding
    BY <2>2, <2>4, <2>9 DEF laid
  <2>10. CASE ph.alignment = "RIGHT"
    <3>1. laid = Laid(total, count, 0, c)
      BY <2>2, <2>10
    <3>2. asked = Laid(total, count, 0, c)
      BY <2>4, <2>10
    <3> QED
      BY <3>1, <3>2 DEF laid
  <2>11. CASE ph.alignment = "DEFAULT"
    BY <2>8, <2>9, <2>11
  <2> QED
    BY <2>3, <2>5, <2>6, <2>7, <2>10, <2>11
<1>14. /\ a \in Seq(Char) /\ Reverse(a) = a
       /\ b \in Seq(Char) /\ Reverse(b) = b
  <2>1. place.after_sign \in Nat /\ place.after_prefix \in Nat
    BY <1>11, PaddingPlaceFacts
  <2> HIDE DEF place
  <2> QED
    BY <1>4, <2>1, RepeatFacts, ReverseRepeat
<1> HIDE DEF a, b
<1>15. Reverse(whole) = core
  <2>1. Reverse(whole) = s \o (a \o (Reverse(x) \o (b \o Reverse(d))))
    <3>1. d \in Seq(Char) /\ x \in Seq(Char) /\ s \in Seq(Char)
          /\ a \in Seq(Char) /\ b \in Seq(Char)
      BY <1>1, <1>2, <1>3, <1>14
    <3>2. Reverse(s) = s /\ Reverse(a) = a /\ Reverse(b) = b
      BY <1>2, <1>14
    <3>3. FrontFirst(whole, d, b, x, a, s)
      BY <1>5, <3>1, <3>2, NumberTurned
    <3> QED
      BY <3>3 DEF FrontFirst
  <2> QED
    BY <1>5, <1>9, <2>1
<1> HIDE DEF core
<1> QED
  BY <1>13, <1>15

\* A number whose padding has room for its prefix is delivered.
LEMMA ItoaDelivers ==
  ASSUME NEW room \in Rooms, NEW val \in Nat, NEW base \in {2, 8, 10, 16},
         NEW inf \in Infos, NEW positive \in BOOLEAN,
         ~(inf.alternate_form /\ base # 10 /\ inf.min_width - Len(Digits(val, base)) = 1)
  PROVE  Delivers(room, itoa(room, val, base, inf, positive),
                  AskedNumber(inf, base, val, positive), Blank(inf))
<1> DEFINE
      d == Digits(val, base)
      count == PaddingCount(Len(d), base, inf, positive)
      place == PaddingPlace(inf, count)
      fill == PaddingChar(inf, IF inf.zero_padding THEN "0" ELSE " ")
      x == IF inf.alternate_form THEN BasePrefix(base) ELSE <<>>
      s == Sign(inf, positive)
      n == Least(place.after_prefix, room)
      m == Least(place.after_sign, room)
      body == d \o Repeat(fill, n) \o x \o Repeat(fill, m) \o s
      whole == d \o Repeat(fill, place.after_prefix) \o x
               \o Repeat(fill, place.after_sign) \o s
      due == IF Len(d) >= room THEN 0 ELSE place.right
      asked == AskedNumber(inf, base, val, positive)
      piece == itoa(room, val, base, inf, positive)
<1> SUFFICES Delivers(room, piece, asked, fill)
  BY DEF Blank
<1>1. asked = Laid(Reverse(whole), place.left, place.right, fill)
  BY NumberAsked DEF Backwards
<1>2. room \in Nat /\ Fits(room, piece, Padded(inf))
  BY ItoaFits, WrapFacts DEF Rooms
<1>3. room # 0 => piece = Turned(room, body, fill, place.left, due)
  BY DEF itoa, Turned
<1>4. room = 0 => piece = Piece(TRUNCATED, <<>>, 0, 0)
  BY DEF itoa
<1>5. d \in Seq(Char) /\ Len(d) \in Nat \ {0}
  BY DigitsFacts
<1>6. s \in Seq(Char) /\ Reverse(s) = s /\ Len(s) \in Nat
  BY SignType, SignFacts, LenProperties
<1>7. x \in Seq(Char) /\ Len(x) \in Nat
  <2>1. x \in Seq(Char)
    BY BasePrefixType, ShortTexts
  <2> QED
    BY <2>1, LenProperties
<1>8. fill \in Char
  <2>1. (IF inf.zero_padding THEN "0" ELSE " ") \in Char
    BY CharFacts
  <2> QED
    BY <2>1, FillType
<1>9. count \in 0 .. (RegWrap - 1)
  <2>1. Len(d) \in Nat
    BY <1>5
  <2> QED
    BY <2>1, PaddingCountType
<1> HIDE DEF asked, piece, d, x, s, fill, count
<1>10. /\ place.left \in Nat /\ place.right \in Nat
       /\ place.after_sign \in Nat /\ place.after_prefix \in Nat
  BY <1>9, PaddingPlaceFacts
<1> HIDE DEF place
<1>11. /\ n \in Nat /\ n <= place.after_prefix /\ (n < room => n = place.after_prefix)
       /\ m \in Nat /\ m <= place.after_sign /\ (m < room => m = place.after_sign)
  BY <1>2, <1>10 DEF Least
<1> HIDE DEF n, m
<1>12. /\ body \in Seq(Char)
       /\ Len(body) = Len(d) + n + Len(x) + m + Len(s)
  <2> DEFINE a == Repeat(fill, m)
             b == Repeat(fill, n)
  <2>1. /\ a \in Seq(Char) /\ Len(a) = m /\ Reverse(a) = a
        /\ b \in Seq(Char) /\ Len(b) = n /\ Reverse(b) = b
    BY <1>8, <1>11, RepeatFacts, ReverseRepeat
  <2> HIDE DEF a, b
  <2>2. FrontFirst(d \o b \o x \o a \o s, d, b, x, a, s)
    <3>1. d \in Seq(Char) /\ x \in Seq(Char) /\ s \in Seq(Char)
          /\ a \in Seq(Char) /\ b \in Seq(Char)
      BY <1>5, <1>6, <1>7, <2>1
    <3>2. Reverse(s) = s /\ Reverse(a) = a /\ Reverse(b) = b
      BY <1>6, <2>1
    <3> QED
      BY <3>1, <3>2, NumberTurned
  <2>3. body = d \o b \o x \o a \o s
    BY DEF a, b
  <2> HIDE DEF body
  <2> QED
    BY <2>1, <2>2, <2>3 DEF FrontFirst
<1>13. /\ whole \in Seq(Char)
       /\ Len(whole) = Len(d) + place.after_prefix + Len(x) + place.after_sign + Len(s)
  <2> DEFINE a == Repeat(fill, place.after_sign)
             b == Repeat(fill, place.after_prefix)
  <2>1. /\ a \in Seq(Char) /\ Len(a) = place.after_sign /\ Reverse(a) = a
        /\ b \in Seq(Char) /\ Len(b) = place.after_prefix /\ Reverse(b) = b
    BY <1>8, <1>10, RepeatFacts, ReverseRepeat
  <2> HIDE DEF a, b
  <2>2. FrontFirst(d \o b \o x \o a \o s, d, b, x, a, s)
    <3>1. d \in Seq(Char) /\ x \in Seq(Char) /\ s \in Seq(Char)
          /\ a \in Seq(Char) /\ b \in Seq(Char)
      BY <1>5, <1>6, <1>7, <2>1
    <3>2. Reverse(s) = s /\ Reverse(a) = a /\ Reverse(b) = b
      BY <1>6, <2>1
    <3> QED
      BY <3>1, <3>2, NumberTurned
  <2>3. whole = d \o b \o x \o a \o s
    BY DEF a, b
  <2> HIDE DEF whole
  <2> QED
    BY <2>1, <2>2, <2>3 DEF FrontFirst
<1>14. Len(body) < room => body = whole
  <2>1. Len(body) < room => n < room /\ m < room
    BY <1>2, <1>5, <1>6, <1>7, <1>11, <1>12
  <2>2. n = place.after_prefix /\ m = place.after_sign => body = whole
    OBVIOUS
  <2> HIDE DEF body, whole
  <2> QED
    BY <1>11, <2>1, <2>2
<1> HIDE DEF body, whole
<1>15. /\ Len(body) >= room => Len(whole) >= room
       /\ Len(body) < room => ~(Len(d) >= room)
       /\ Len(whole) > 0
  <2>1. /\ Len(whole) \in Nat /\ Len(body) \in Nat
        /\ Len(body) <= Len(whole) /\ Len(d) <= Len(body) /\ Len(whole) > 0
    <3>1. /\ Len(body) = Len(d) + n + Len(x) + m + Len(s)
          /\ Len(whole) = Len(d) + place.after_prefix + Len(x) + place.after_sign + Len(s)
      BY <1>12, <1>13
    <3>2. /\ Len(d) \in Nat /\ Len(d) > 0 /\ Len(x) \in Nat /\ Len(s) \in Nat
          /\ n \in Nat /\ m \in Nat
          /\ place.after_prefix \in Nat /\ place.after_sign \in Nat
          /\ n <= place.after_prefix /\ m <= place.after_sign
      BY <1>5, <1>6, <1>7, <1>10, <1>11
    <3> DEFINE p == place.after_prefix
               q == place.after_sign
               others == Len(d) + Len(x) + Len(s)
    <3>3. /\ others \in Nat /\ others > 0 /\ Len(d) <= others /\ Len(d) \in Nat
      BY <3>2
    <3>4. Len(body) = others + n + m /\ Len(whole) = others + p + q
      BY <3>1, <3>2
    <3>5. n \in Nat /\ m \in Nat /\ p \in Nat /\ q \in Nat /\ n <= p /\ m <= q
      BY <3>2
    <3> HIDE DEF others, n, m, p, q
    <3> QED
      BY <3>3, <3>4, <3>5
  <2>2. room \in Nat /\ Len(d) \in Nat
    BY <1>2, <1>5
  <2> QED
    BY <2>1, <2>2
<1>16. Len(body) < room => due = place.right
  BY <1>15
<1> HIDE DEF due
<1>17. whole # <<>>
  <2>1. Len(<<>>) = 0
    OBVIOUS
  <2> QED
    BY <1>15, <2>1
<1>18. CASE room # 0
  <2>1. Delivers(room, piece, Laid(Reverse(whole), place.left, place.right, fill), fill)
    BY <1>2, <1>3, <1>8, <1>10, <1>12, <1>13, <1>14, <1>15, <1>16, <1>17, <1>18,
       TurnedDelivers
  <2> QED
    BY <1>1, <2>1
<1>19. CASE room = 0
  <2>1. piece.ret = TRUNCATED /\ piece.ret # "OK"
    BY <1>4, <1>19 DEF Piece, TRUNCATED
  <2>2. asked \in Seq(Char) /\ Len(asked) \in Nat
    <3> DEFINE core == Reverse(whole)
    <3>1. core \in Seq(Char)
      BY <1>13, ReverseFacts
    <3> HIDE DEF core
    <3>2. Surrounds(asked, core, place.left, place.right, fill)
      BY <1>1, <1>8, <1>10, <3>1, LaidFacts DEF core
    <3>3. asked \in Seq(Char)
      BY <3>2 DEF Surrounds
    <3> QED
      BY <3>3, LenProperties
  <2> QED
    BY <1>19, <2>1, <2>2 DEF Delivers
<1> QED
  BY <1>18, <1>19

LEMMA StringDelivers ==
  ASSUME NEW room \in Rooms, NEW str \in Seq(Char), NEW inf \in Infos
  PROVE  Delivers(room, stringtoa(room, str, inf), AskedString(inf, str), Blank(inf))
<1> DEFINE shown == Precise(inf, str)
           len == Len(shown)
           count == Most(inf.min_width, len) - len
           place == StringPaddingPlace(inf, count)
           fill  == PaddingChar(inf, " ")
           whole == Repeat(fill, place.left) \o shown \o Repeat(fill, place.right)
           e == IF Len(whole) >= room THEN TRUNCATED ELSE "OK"
           bytes == SubSeq(whole, 1, Least(Len(whole), room))
           piece == stringtoa(room, str, inf)
           asked == AskedString(inf, str)
           blank == Most(inf.min_width - len, 0)
           right == CASE inf.alignment = "RIGHT"  -> blank
                      [] inf.alignment = "CENTER" -> blank - blank \div 2
                      [] OTHER -> 0
<1>1. piece = Piece(e, bytes, room - Len(bytes), Len(bytes))
  BY DEF stringtoa
<1>2. asked = Laid(shown, blank - right, right, fill)
  BY DEF AskedString
<1>3. shown \in Seq(Char) /\ len \in Nat
  BY PreciseType
<1>4. inf.min_width \in Nat
  BY DEF Infos
<1> HIDE DEF piece, asked, shown, len, fill
<1>5. count = blank /\ count \in Nat
  BY <1>3, <1>4 DEF Most
<1> HIDE DEF count, blank
<1>6. place.right = right /\ place.left = blank - right
  <2>1. blank \in Nat /\ blank \div 2 \in Nat
        /\ blank - (blank - blank \div 2) = blank \div 2
        /\ blank - blank = 0 /\ blank - 0 = blank
    BY <1>5
  <2>2. CASE inf.alignment = "RIGHT"
    BY <1>5, <2>1, <2>2 DEF StringPaddingPlace
  <2>3. CASE inf.alignment = "CENTER"
    BY <1>5, <2>1, <2>3 DEF StringPaddingPlace
  <2>4. CASE inf.alignment \notin {"RIGHT", "CENTER"}
    BY <1>5, <2>1, <2>4 DEF StringPaddingPlace
  <2> QED
    BY <2>2, <2>3, <2>4
<1>7. place.left \in Nat /\ place.right \in Nat
  BY <1>5, StringPlaceFacts
<1> HIDE DEF place, right
<1>8. fill \in Char
  BY CharFacts, FillType DEF fill
<1>9. whole = asked
  BY <1>2, <1>6 DEF Laid
<1>10. whole \in Seq(Char)
  <2>1. Surrounds(asked, shown, place.left, place.right, fill)
    BY <1>2, <1>3, <1>6, <1>7, <1>8, LaidFacts
  <2> QED
    BY <1>9, <2>1 DEF Surrounds
<1> HIDE DEF whole
<1>11. room \in Nat /\ Len(whole) \in Nat
  BY <1>10, WrapFacts, LenProperties DEF Rooms
<1>12. piece.ret = e /\ piece.text = bytes
  BY <1>1 DEF Piece
<1>13. ASSUME piece.ret = "OK" PROVE piece.text = asked
  <2>1. ~(Len(whole) >= room)
    BY <1>12, <1>13 DEF TRUNCATED
  <2>2. Least(Len(whole), room) = Len(whole)
    BY <1>11, <2>1 DEF Least
  <2>3. bytes = whole
    BY <1>10, <2>2, SubSeqFull
  <2> QED
    BY <1>9, <1>12, <2>3
<1>14. piece.ret = TRUNCATED => Len(asked) >= room
  BY <1>9, <1>12 DEF TRUNCATED
<1>15. Delivers(room, piece, asked, Blank(inf))
  BY <1>9, <1>10, <1>13, <1>14 DEF Delivers
<1> QED
  BY <1>15 DEF piece, asked

\* gen_str delivers what its placeholder asks for.
LEMMA ArgumentDelivers ==
  ASSUME NEW room \in Rooms, NEW inf \in Infos, NEW arg \in Registers,
         inf.type # "NONE", ~PrefixTooMany(inf, arg)
  PROVE  Delivers(room, gen_str(room, inf, arg), Asked(inf, arg), Blank(inf))
<1> DEFINE piece == gen_str(room, inf, arg)
           asked == Asked(inf, arg)
           num == arg.num
<1> SUFFICES Delivers(room, piece, asked, Blank(inf))
  OBVIOUS
<1>1. /\ num \in Nat /\ num \in 0 .. (RegWrap - 1) /\ arg.str \in Seq(Char)
      /\ TRUE \in BOOLEAN
  BY DEF Registers
<1>2. inf.type \in {"BIN", "DEC", "OCTAL", "LOW_HEX", "STRING"}
  BY DEF Infos
<1>3. CASE inf.type = "BIN"
  <2>1. piece = itoa(room, num, 2, inf, TRUE) /\ asked = AskedNumber(inf, 2, num, TRUE)
    BY <1>3 DEF gen_str, Asked
  <2>2. ~(inf.alternate_form /\ 2 # 10 /\ inf.min_width - Len(Digits(num, 2)) = 1)
    BY <1>3 DEF PrefixTooMany
  <2> QED
    BY <1>1, <2>1, <2>2, ItoaDelivers
<1>4. CASE inf.type = "OCTAL"
  <2>1. piece = itoa(room, num, 8, inf, TRUE) /\ asked = AskedNumber(inf, 8, num, TRUE)
    BY <1>4 DEF gen_str, Asked
  <2>2. ~(inf.alternate_form /\ 8 # 10 /\ inf.min_width - Len(Digits(num, 8)) = 1)
    BY <1>4 DEF PrefixTooMany
  <2> QED
    BY <1>1, <2>1, <2>2, ItoaDelivers
<1>5. CASE inf.type = "LOW_HEX"
  <2>1. piece = itoa(room, num, 16, inf, TRUE) /\ asked = AskedNumber(inf, 16, num, TRUE)
    BY <1>5 DEF gen_str, Asked
  <2>2. ~(inf.alternate_form /\ 16 # 10 /\ inf.min_width - Len(Digits(num, 16)) = 1)
    BY <1>5 DEF PrefixTooMany
  <2> QED
    BY <1>1, <2>1, <2>2, ItoaDelivers
<1>6. CASE inf.type = "DEC"
  <2> DEFINE positive == num < RegWrap \div 2
             size == IF positive THEN num ELSE RegWrap - num
  <2>1. piece = itoa(room, size, 10, inf, positive)
    BY <1>6 DEF gen_str, sitoa
  <2>2. asked = AskedNumber(inf, 10, size, positive)
    BY <1>6 DEF Asked
  <2>3. size \in Nat /\ positive \in BOOLEAN
    BY <1>1, WrapFacts
  <2>4. ~(inf.alternate_form /\ 10 # 10 /\ inf.min_width - Len(Digits(size, 10)) = 1)
    OBVIOUS
  <2> HIDE DEF size, positive, piece, asked
  <2> QED
    BY <2>1, <2>2, <2>3, <2>4, ItoaDelivers
<1>7. CASE inf.type = "STRING"
  <2>1. CASE num = 0
    <3>1. piece = Piece("STRING_MISSING_ARGUMENT", <<>>, room, 0)
      BY <1>7, <2>1 DEF gen_str
    <3>2. piece.ret # "OK" /\ piece.ret # TRUNCATED
      BY <3>1 DEF Piece, TRUNCATED
    <3>3. asked = <<>>
      BY <1>7, <2>1 DEF Asked
    <3> QED
      BY <3>2, <3>3, ShortTexts DEF Delivers
  <2>2. CASE num # 0
    <3>1. piece = stringtoa(room, arg.str, inf) /\ asked = AskedString(inf, arg.str)
      BY <1>7, <2>2 DEF gen_str, Asked
    <3> QED
      BY <1>1, <3>1, StringDelivers
  <2> QED
    BY <2>1, <2>2
<1> QED
  BY <1>2, <1>3, <1>4, <1>5, <1>6, <1>7

-----------------------------------------------------------------------------
(* The text of the first k elements is that of one fewer, and the last.      *)

IntendedStep(c, put, n) == IF n = 0 THEN <<>> ELSE put[n - 1] \o Element(c, n)

SolvesIntended(c, k, put) == put = [n \in 0 .. k |-> IntendedStep(c, put, n)]

LEMMA IntendedUnfolds ==
  ASSUME NEW c, NEW k
  PROVE  Intended(c, k) = (CHOOSE put : SolvesIntended(c, k, put))[k]
  BY DEF Intended, SolvesIntended, IntendedStep

LEMMA IntendedExists ==
  ASSUME NEW c, NEW k \in Nat
  PROVE  \E put : SolvesIntended(c, k, put)
<1> DEFINE S == {n \in Nat : \E put : SolvesIntended(c, n, put)}
<1>1. ASSUME NEW n \in Nat, \A m \in 0 .. (n - 1) : m \in S
      PROVE  \E put : SolvesIntended(c, n, put)
  <2>1. CASE n = 0
    <3> DEFINE put == [i \in 0 .. 0 |-> <<>>]
    <3>1. \A i \in 0 .. 0 : i = 0
      OBVIOUS
    <3>2. put = [i \in 0 .. 0 |-> IntendedStep(c, put, i)]
      BY <3>1 DEF IntendedStep
    <3> QED
      BY <2>1, <3>2 DEF SolvesIntended
  <2>2. CASE n # 0
    <3>1. n - 1 \in S
      BY <1>1, <2>2
    <3>2. PICK f : SolvesIntended(c, n - 1, f)
      BY <3>1
    <3> DEFINE g == [i \in 0 .. n |-> IntendedStep(c, f, i)]
    <3>3. \A i \in 0 .. (n - 1) : g[i] = f[i]
      BY <3>2 DEF SolvesIntended
    <3>4. ASSUME NEW i \in 0 .. n
          PROVE  IntendedStep(c, g, i) = IntendedStep(c, f, i)
      <4>1. CASE i = 0
        BY <4>1 DEF IntendedStep
      <4>2. CASE i # 0
        <5>1. i - 1 \in 0 .. (n - 1)
          BY <4>2
        <5> HIDE DEF g
        <5>2. g[i - 1] = f[i - 1]
          BY <3>3, <5>1
        <5> QED
          BY <4>2, <5>2 DEF IntendedStep
      <4> QED
        BY <4>1, <4>2
    <3>5. g = [i \in 0 .. n |-> IntendedStep(c, g, i)]
      BY <3>4
    <3> QED
      BY <3>5 DEF SolvesIntended
  <2> QED
    BY <2>1, <2>2
<1>2. \A n \in Nat : (\A m \in 0 .. (n - 1) : m \in S) => n \in S
  BY <1>1
<1> HIDE DEF S
<1>3. Nat \subseteq S
  BY <1>2, AllNumbers
<1> QED
  BY <1>3 DEF S

LEMMA IntendedAgree ==
  ASSUME NEW c, NEW k \in Nat, NEW f, SolvesIntended(c, k, f),
         NEW g, SolvesIntended(c, k + 1, g)
  PROVE  f[k] = g[k]
<1> DEFINE S == {n \in Nat : n <= k => f[n] = g[n]}
<1>1. ASSUME NEW n \in Nat, \A m \in 0 .. (n - 1) : m \in S, n <= k
      PROVE  f[n] = g[n]
  <2>1. n \in 0 .. k /\ n \in 0 .. (k + 1)
    BY <1>1
  <2>2. f[n] = IntendedStep(c, f, n) /\ g[n] = IntendedStep(c, g, n)
    BY <2>1 DEF SolvesIntended
  <2>3. CASE n = 0
    BY <2>2, <2>3 DEF IntendedStep
  <2>4. CASE n # 0
    <3>1. n - 1 \in S /\ n - 1 <= k
      BY <1>1, <2>4
    <3>2. f[n - 1] = g[n - 1]
      BY <3>1
    <3> QED
      BY <2>2, <2>4, <3>2 DEF IntendedStep
  <2> QED
    BY <2>3, <2>4
<1>2. \A n \in Nat : (\A m \in 0 .. (n - 1) : m \in S) => n \in S
  BY <1>1
<1> HIDE DEF S
<1>3. Nat \subseteq S
  BY <1>2, AllNumbers
<1> QED
  BY <1>3 DEF S

LEMMA IntendedFacts ==
  ASSUME NEW c
  PROVE  /\ Intended(c, 0) = <<>>
         /\ \A k \in Nat : Intended(c, k + 1) = Intended(c, k) \o Element(c, k + 1)
<1> DEFINE put(k) == CHOOSE f : SolvesIntended(c, k, f)
<1>1. \A k : Intended(c, k) = put(k)[k]
  BY IntendedUnfolds
<1>2. \A k \in Nat : SolvesIntended(c, k, put(k))
  BY IntendedExists
<1> HIDE DEF put
<1>3. Intended(c, 0) = <<>>
  <2>1. 0 \in 0 .. 0 /\ 0 \in Nat
    OBVIOUS
  <2>2. SolvesIntended(c, 0, put(0))
    BY <1>2, <2>1
  <2>3. put(0)[0] = IntendedStep(c, put(0), 0)
    BY <2>1, <2>2 DEF SolvesIntended
  <2> QED
    BY <1>1, <2>3 DEF IntendedStep
<1>4. ASSUME NEW k \in Nat
      PROVE  Intended(c, k + 1) = Intended(c, k) \o Element(c, k + 1)
  <2> DEFINE f == put(k)
             g == put(k + 1)
  <2>1. k + 1 \in Nat /\ k + 1 \in 0 .. (k + 1) /\ k + 1 # 0 /\ (k + 1) - 1 = k
    OBVIOUS
  <2>2. SolvesIntended(c, k, f) /\ SolvesIntended(c, k + 1, g)
    BY <1>2, <2>1
  <2>3. Intended(c, k) = f[k] /\ Intended(c, k + 1) = g[k + 1]
    BY <1>1
  <2> HIDE DEF f, g
  <2>4. g[k + 1] = IntendedStep(c, g, k + 1)
    BY <2>1, <2>2 DEF SolvesIntended
  <2>5. IntendedStep(c, g, k + 1) = g[k] \o Element(c, k + 1)
    BY <2>1 DEF IntendedStep
  <2>6. f[k] = g[k]
    BY <2>2, IntendedAgree
  <2> QED
    BY <2>3, <2>4, <2>5, <2>6
<1> QED
  BY <1>3, <1>4

-----------------------------------------------------------------------------
(* The elements of a call: literal texts and outputs in turn.                *)

LEMMA AheadIsSub ==
  ASSUME NEW s \in Seq(Char), NEW i \in Nat, NEW t \in Seq(Char), Ahead(s, i, t)
  PROVE  SubSeq(s, i + 1, i + Len(t)) = t
<1> DEFINE m == i + 1
           n == i + Len(t)
           u == SubSeq(s, m, n)
<1>1. Len(s) \in Nat /\ Len(t) \in Nat
  BY LenProperties
<1>2. i + Len(t) <= Len(s) /\ \A j \in 1 .. Len(t) : At(s, i + j - 1) = t[j]
  BY DEF Ahead
<1>3. m \in Int /\ n \in Int /\ n - m + 1 = Len(t)
  BY <1>1
<1>4. \A j \in m .. n : j \in 1 .. Len(s)
  BY <1>1, <1>2
<1> HIDE DEF m, n
<1>5. \A j \in m .. n : s[j] \in Char
  BY <1>4, ElementOfSeq
<1>6. /\ u \in Seq(Char)
      /\ Len(u) = IF m <= n THEN n - m + 1 ELSE 0
      /\ \A j \in 1 .. n - m + 1 : u[j] = s[m + j - 1]
  BY <1>3, <1>5, SubSeqProperties
<1> HIDE DEF u
<1>7. Len(u) = Len(t)
  BY <1>1, <1>3, <1>6
<1>8. ASSUME NEW j \in 1 .. Len(t)
      PROVE  u[j] = t[j]
  <2>1. u[j] = s[m + j - 1]
    BY <1>3, <1>6
  <2>2. m + j - 1 = (i + j - 1) + 1 /\ i + j - 1 < Len(s)
    BY <1>1, <1>2 DEF m
  <2>3. At(s, i + j - 1) = s[(i + j - 1) + 1]
    BY <2>2 DEF At
  <2> QED
    BY <1>2, <2>1, <2>2, <2>3
<1>9. u = t
  BY <1>6, <1>7, <1>8, SameText
<1> QED
  BY <1>9 DEF u, m, n

LEMMA LiteralElement ==
  ASSUME NEW c, NEW n \in Nat
  PROVE  Element(c, 2 * n + 1) = c.pieces[n + 1].lit
<1>1. (2 * n + 1) % 2 = 1 /\ ((2 * n + 1) + 1) \div 2 = n + 1
  OBVIOUS
<1> QED
  BY <1>1 DEF Element

LEMMA OutputElement ==
  ASSUME NEW c, NEW n \in Nat
  PROVE  /\ n + 1 <= MAX_ARG_CNT =>
              Element(c, 2 * n + 2) = Asked(c.pieces[n + 1].ph, c.args[n + 1])
         /\ c.pieces[n + 1].ph = NoInfo => Element(c, 2 * n + 2) = <<>>
<1>1. /\ (2 * n + 2) % 2 = 0 /\ (2 * n + 2) % 2 # 1 
      /\ ((2 * n + 2) + 1) \div 2 = n + 1
  OBVIOUS
<1>2. n + 1 <= MAX_ARG_CNT =>
        Element(c, 2 * n + 2) = Asked(c.pieces[n + 1].ph, c.args[n + 1])
  BY <1>1 DEF Element
<1>3. ~(n + 1 <= MAX_ARG_CNT) => Element(c, 2 * n + 2) = <<>>
  BY <1>1 DEF Element
<1>4. ASSUME NEW ph, ph = NoInfo, NEW arg
      PROVE  Asked(ph, arg) = <<>>
  BY <1>4 DEF Asked, NoInfo
<1> QED
  BY <1>2, <1>3, <1>4

LEMMA NextIntended ==
  ASSUME NEW c, NEW n \in Nat
  PROVE  /\ Intended(c, 2 * n + 1) = Intended(c, 2 * n) \o Element(c, 2 * n + 1)
         /\ Intended(c, 2 * n + 2) = Intended(c, 2 * n + 1) \o Element(c, 2 * n + 2)
<1>1. 2 * n \in Nat /\ 2 * n + 1 \in Nat /\ (2 * n + 1) + 1 = 2 * n + 2
  OBVIOUS
<1> QED
  BY <1>1, IntendedFacts

-----------------------------------------------------------------------------
(* The inductive invariant of what has been written.                         *)

Full == Len(text) = call.size - 1

\* What a call leaves that comes to an end without a failed assertion.
Settled ==
  \/ \E k \in 0 .. Count(call) :
       /\ text = Intended(call, k)
       /\ ret = "OK" => k = Count(call) \/ Full
       /\ ret = TRUNCATED =>
            k < Count(call) /\ Len(Intended(call, k + 1)) >= call.size - 1
  \/ /\ ret = "OK" /\ Full
     /\ \E i \in 1 .. Least(Len(call.pieces), MAX_ARG_CNT) : Shortened(call, 2 * i)

\* The elements before the parser have been written.
WrittenSoFar ==
  /\ pc \in {"scan", "copy"} => text = Intended(call, 2 * arg_idx)
  /\ pc = "argument" => text = Intended(call, 2 * arg_idx + 1)
  /\ pc \in {"terminate", "done"} /\ asserts => Settled

TextInv ==
  /\ pc \in {"scan", "copy", "argument"} => ret = "OK"
  /\ pc = "done" /\ asserts => r = IF ret = TRUNCATED THEN call.size ELSE Len(text)
  /\ Ordinary(call) => WrittenSoFar

LEMMA OrdinaryFacts ==
  ASSUME IInv, PieceInv, Ordinary(call)
  PROVE  /\ WellFormed(call) /\ Len(call.pieces) \in Nat \ {0}
         /\ Count(call) = 2 * Len(call.pieces) /\ MAX_ARG_CNT \in Nat
         /\ arg_idx \in Nat /\ arg_idx <= MAX_ARG_CNT
<1>1. MAX_ARG_CNT \in Nat
  BY SnprintAssumption
<1>2. arg_idx \in Nat /\ arg_idx <= MAX_ARG_CNT
  BY <1>1 DEF IInv, OutputInv
<1>3. WellFormed(call) /\ call.pieces # <<>>
  BY DEF Ordinary, WellFormed
<1>4. Len(call.pieces) \in Nat /\ (Len(call.pieces) = 0 => call.pieces = <<>>)
  BY LenProperties, EmptySeq DEF PieceInv, WrittenFrom
<1> QED
  BY <1>1, <1>2, <1>3, <1>4 DEF Count

\* A step of the parser, which writes nothing.
LEMMA TextStays ==
  ASSUME TextInv, UNCHANGED <<call, text, arg_idx, ret>>, pc = "scan",
         pc' \in {"scan", "copy"}
  PROVE  TextInv'
<1>1. Ordinary(call)' = Ordinary(call)
  BY DEF Ordinary, WellFormed
<1>2. ASSUME Ordinary(call)'
      PROVE  WrittenSoFar'
  <2>1. text' = Intended(call', 2 * arg_idx')
    BY <1>1, <1>2 DEF TextInv, WrittenSoFar
  <2> QED
    BY <2>1 DEF WrittenSoFar
<1> QED
  BY <1>2 DEF TextInv

\* A step that ends the call with the text being the first k elements.
LEMMA TextEnds ==
  ASSUME UNCHANGED call, pc' = "terminate",
         Ordinary(call) => Settled'
  PROVE  TextInv'
<1>1. Ordinary(call)' = Ordinary(call)
  BY DEF Ordinary, WellFormed
<1> QED
  BY <1>1 DEF TextInv, WrittenSoFar

LEMMA InitTextInv == Init => TextInv
<1> SUFFICES ASSUME Init PROVE TextInv
  OBVIOUS
<1>1. IInv /\ PieceInv
  BY InitIInv, InitPieceInv
<1>2. /\ text = <<>> /\ remaining = call.size - 1 /\ arg_idx = 0 /\ ret = "OK"
      /\ pc = IF remaining = 0 THEN "terminate" ELSE "scan"
  BY DEF Init
<1>3. text = Intended(call, 0)
  BY <1>2, IntendedFacts
<1>4. ASSUME Ordinary(call), pc = "terminate"
      PROVE  Settled
  <2>1. 0 \in 0 .. Count(call)
    BY <1>1, <1>4, OrdinaryFacts
  <2>2. Full
    <3>1. remaining = 0
      BY <1>2, <1>4
    <3> QED
      BY <1>1, <3>1, BufferFacts DEF Full
  <2>3. ret # TRUNCATED
    BY <1>2 DEF TRUNCATED
  <2> QED
    BY <1>3, <2>1, <2>2, <2>3 DEF Settled
<1>5. 2 * arg_idx = 0
  BY <1>2
<1> QED
  BY <1>2, <1>3, <1>4, <1>5 DEF TextInv, WrittenSoFar

LEMMA ParserText ==
  IInv /\ PieceInv /\ TextInv
  /\ (PassCharacter \/ PassStage \/ FindToken \/ FindStop \/ FindEnd) => TextInv'
<1> SUFFICES ASSUME TextInv,
                    PassCharacter \/ PassStage \/ FindToken \/ FindStop \/ FindEnd
             PROVE  TextInv'
  OBVIOUS
<1>1. UNCHANGED <<call, text, arg_idx, ret>> /\ pc = "scan" /\ pc' \in {"scan", "copy"}
  BY DEF PassCharacter, PassStage, FindToken, FindStop, FindEnd, output
<1> QED
  BY <1>1, TextStays

LEMMA FindErrorText == IInv /\ PieceInv /\ TextInv /\ FindError => TextInv'
<1> SUFFICES ASSUME IInv, PieceInv, TextInv, FindError PROVE TextInv'
  OBVIOUS
<1>1. /\ pc = "scan" /\ pc' = "terminate" /\ ret' = "STRING_INVALID_FORMAT"
      /\ UNCHANGED <<call, text, arg_idx>>
  BY DEF FindError, Fail, output
<1>2. ASSUME Ordinary(call)
      PROVE  Settled'
  <2> DEFINE k == 2 * arg_idx
  <2>1. text = Intended(call, k)
    BY <1>1, <1>2 DEF TextInv, WrittenSoFar
  <2>2. k \in Nat /\ k <= Count(call) /\ Count(call) \in Nat
    <3>1. arg_idx < Len(call.pieces)
      BY <1>1, <1>2, OrdinaryFacts, CurrentFacts
    <3> QED
      BY <1>2, <3>1, OrdinaryFacts
  <2>3. k \in 0 .. Count(call')
    BY <1>1, <2>2
  <2>4. text' = Intended(call', k)
    BY <1>1, <2>1
  <2>5. ret' # "OK" /\ ret' # TRUNCATED
    BY <1>1 DEF TRUNCATED
  <2> HIDE DEF k
  <2> QED
    BY <2>3, <2>4, <2>5 DEF Settled
<1> QED
  BY <1>1, <1>2, TextEnds

\* What the piece being copied adds to the text.
LEMMA LiteralText ==
  ASSUME IInv, PieceInv, TextInv, Ordinary(call), pc = "copy"
  PROVE  LET lit == SubSeq(call.format, fmt + 1, fmt + literal_len)
         IN /\ arg_idx < Len(call.pieces)
            /\ Intended(call, 2 * arg_idx + 1) = text \o lit
            /\ text \o lit \in Seq(Char) /\ Len(text \o lit) = Len(text) + literal_len
            /\ info = Current.ph /\ end \in BOOLEAN
            /\ end => arg_idx + 1 = Len(call.pieces)
            /\ ~end => arg_idx + 1 < Len(call.pieces)
<1> DEFINE lit == SubSeq(call.format, fmt + 1, fmt + literal_len)
           i == arg_idx + 1
           p == call.pieces[i]
<1> SUFFICES /\ arg_idx < Len(call.pieces)
             /\ Intended(call, 2 * arg_idx + 1) = text \o lit
             /\ text \o lit \in Seq(Char) /\ Len(text \o lit) = Len(text) + literal_len
             /\ info = Current.ph /\ end \in BOOLEAN
             /\ end => arg_idx + 1 = Len(call.pieces)
             /\ ~end => arg_idx + 1 < Len(call.pieces)
  OBVIOUS
<1>1. /\ WrittenFrom(call.format, call.pieces)
      /\ arg_idx < Len(call.pieces) /\ fmt = Current.at
      /\ end \in BOOLEAN /\ Copying
  BY OrdinaryFacts DEF PieceInv
<1>2. /\ literal_len = Len(Current.lit) /\ info = Current.ph
      /\ end => arg_idx + 1 = Len(call.pieces)
      /\ ~end => arg_idx + 1 < Len(call.pieces)
  BY <1>1 DEF Copying
<1>3. i \in 1 .. Len(call.pieces) /\ arg_idx \in Nat
  BY <1>1, OrdinaryFacts
<1>4. p = Current
  BY DEF Current
<1>5. call.format \in Seq(Char) /\ text \in Seq(Char)
  BY DEF IInv, CallInv, OutputInv
<1> HIDE DEF i, p
<1>6. p.lit \in Seq(Char) /\ Ahead(call.format, p.at, p.lit) /\ p.at \in Nat
  <2> DEFINE s == call.format
             pieces == call.pieces
  <2>1. s \in Seq(Char) /\ WrittenFrom(s, pieces) /\ i \in 1 .. Len(pieces) /\ p = pieces[i]
    BY <1>1, <1>3, <1>5 DEF p
  <2> HIDE DEF s, pieces
  <2>2. PieceAt(s, pieces, i, p)
    BY <2>1, PieceFacts
  <2> QED
    BY <2>2 DEF PieceAt, s
<1>7. lit = Current.lit /\ Current.lit \in Seq(Char)
  BY <1>1, <1>2, <1>4, <1>5, <1>6, AheadIsSub
<1> HIDE DEF lit
<1>8. Intended(call, 2 * arg_idx + 1) = text \o lit
  <2>1. text = Intended(call, 2 * arg_idx)
    BY DEF TextInv, WrittenSoFar
  <2>2. Element(call, 2 * arg_idx + 1) = Current.lit
    BY <1>3, LiteralElement DEF Current
  <2> QED
    BY <1>3, <1>7, <2>1, <2>2, NextIntended
<1>9. text \o lit \in Seq(Char) /\ Len(text \o lit) = Len(text) + literal_len
  BY <1>2, <1>5, <1>7, ConcatFacts
<1> QED
  BY <1>1, <1>2, <1>8, <1>9

LEMMA CutLiteralText == IInv /\ PieceInv /\ TextInv /\ CutLiteral => TextInv'
<1> SUFFICES ASSUME IInv, PieceInv, TextInv, CutLiteral PROVE TextInv'
  OBVIOUS
<1>1. /\ pc = "copy" /\ pc' = "terminate" /\ ret' = TRUNCATED
      /\ literal_len > remaining
      /\ UNCHANGED <<call, text, arg_idx>>
  BY DEF CutLiteral, Fail
<1>2. ASSUME Ordinary(call)
      PROVE  Settled'
  <2> DEFINE k == 2 * arg_idx
             next == Intended(call, k + 1)
  <2>1. text = Intended(call, k)
    BY <1>1, <1>2 DEF TextInv, WrittenSoFar
  <2>2. arg_idx < Len(call.pieces) /\ Len(next) = Len(text) + literal_len
    BY <1>1, <1>2, LiteralText
  <2>3. k \in Nat /\ k < Count(call) /\ Count(call) \in Nat
    BY <1>2, <2>2, OrdinaryFacts
  <2>4. Len(next) >= call.size - 1
    <3>1. literal_len \in Nat
      BY DEF IInv, ParserInv
    <3> HIDE DEF next
    <3> QED
      BY <1>1, <2>2, <3>1, BufferFacts
  <2>5. k \in 0 .. Count(call') /\ k < Count(call')
    BY <1>1, <2>3
  <2>6. text' = Intended(call', k) /\ Len(Intended(call', k + 1)) >= call'.size - 1
    BY <1>1, <2>1, <2>4
  <2>7. ret' # "OK"
    BY <1>1 DEF TRUNCATED
  <2> HIDE DEF k, next
  <2> QED
    BY <2>5, <2>6, <2>7 DEF Settled
<1> QED
  BY <1>1, <1>2, TextEnds

LEMMA MissArgumentText == IInv /\ PieceInv /\ TextInv /\ MissArgument => TextInv'
<1> SUFFICES ASSUME IInv, PieceInv, TextInv, MissArgument PROVE TextInv'
  OBVIOUS
<1>1. /\ pc = "argument" /\ pc' = "terminate" /\ ret' = "STRING_MISSING_PLACEHOLDER"
      /\ UNCHANGED <<call, text, arg_idx>>
  BY DEF MissArgument, Fail, output
<1>2. ASSUME Ordinary(call)
      PROVE  Settled'
  <2> DEFINE k == 2 * arg_idx + 1
  <2>1. text = Intended(call, k)
    BY <1>1, <1>2 DEF TextInv, WrittenSoFar
  <2>2. k \in Nat /\ k <= Count(call) /\ Count(call) \in Nat
    <3>1. arg_idx < Len(call.pieces)
      BY <1>1, <1>2, OrdinaryFacts, CurrentFacts
    <3> QED
      BY <1>2, <3>1, OrdinaryFacts
  <2>3. k \in 0 .. Count(call')
    BY <1>1, <2>2
  <2>4. text' = Intended(call', k)
    BY <1>1, <2>1
  <2>5. ret' # "OK" /\ ret' # TRUNCATED
    BY <1>1 DEF TRUNCATED
  <2> HIDE DEF k
  <2> QED
    BY <2>3, <2>4, <2>5 DEF Settled
<1> QED
  BY <1>1, <1>2, TextEnds

LEMMA TerminateText == IInv /\ PieceInv /\ TextInv /\ Terminate => TextInv'
<1> SUFFICES ASSUME IInv, TextInv, Terminate PROVE TextInv'
  OBVIOUS
<1>1. /\ pc = "terminate" /\ pc' = "done"
      /\ r' = IF ret # TRUNCATED THEN call.size - 1 - remaining ELSE call.size
      /\ UNCHANGED <<call, text, ret, asserts>>
  BY DEF Terminate
<1>2. r' = IF ret' = TRUNCATED THEN call'.size ELSE Len(text')
  <2>1. call.size - 1 - remaining = Len(text)
    BY BufferFacts
  <2> QED
    BY <1>1, <2>1
<1>3. Ordinary(call)' = Ordinary(call)
  BY <1>1 DEF Ordinary, WellFormed
<1>4. ASSUME Ordinary(call)', asserts'
      PROVE  Settled'
  <2>1. Settled
    BY <1>1, <1>3, <1>4 DEF TextInv, WrittenSoFar
  <2> QED
    BY <1>1, <2>1 DEF Settled, Full, Shortened
<1> QED
  BY <1>1, <1>2, <1>4 DEF TextInv, WrittenSoFar

LEMMA CopyLiteralText == IInv /\ PieceInv /\ TextInv /\ CopyLiteral => TextInv'
<1> SUFFICES ASSUME IInv, PieceInv, TextInv, CopyLiteral PROVE TextInv'
  OBVIOUS
<1> DEFINE n == arg_idx
           lit == SubSeq(call.format, fmt + 1, fmt + literal_len)
<1>1. /\ pc = "copy" /\ text' = text \o lit
      /\ UNCHANGED <<call, end, arg_idx, ret, r, asserts>>
      /\ \/ info.type # "NONE" /\ pc' = "argument"
         \/ info.type = "NONE" /\ Again(remaining')
  BY DEF CopyLiteral
<1>2. ret' = "OK" /\ ret' # TRUNCATED /\ pc' \in {"scan", "argument", "terminate"}
  BY <1>1 DEF TextInv, Again, TRUNCATED
<1>3. Ordinary(call)' = Ordinary(call)
  BY <1>1 DEF Ordinary, WellFormed
<1>4. ASSUME Ordinary(call)
      PROVE  WrittenSoFar'
  <2>1. /\ n < Len(call.pieces) /\ Intended(call, 2 * n + 1) = text'
        /\ text' \in Seq(Char) /\ info = Current.ph /\ end \in BOOLEAN
        /\ end => n + 1 = Len(call.pieces)
        /\ ~end => n + 1 < Len(call.pieces)
    BY <1>1, <1>4, LiteralText
  <2>2. /\ Len(call.pieces) \in Nat /\ Count(call) = 2 * Len(call.pieces)
        /\ WellFormed(call) /\ n \in Nat
    BY <1>4, OrdinaryFacts
  <2>3. /\ n + 1 = Len(call.pieces) => Current.ph = NoInfo
        /\ n + 1 < Len(call.pieces) => Askable(Current.ph)
    BY <1>1, <2>2, CurrentFacts
  <2> HIDE DEF lit
  <2>4. CASE pc' = "argument"
    BY <1>1, <2>1, <2>4 DEF WrittenSoFar
  <2>5. CASE info.type = "NONE" /\ Again(remaining')
    <3>1. end /\ n + 1 = Len(call.pieces)
      BY <2>1, <2>3, <2>5 DEF Askable
    <3>2. pc' = "terminate"
      BY <1>1, <2>5, <3>1 DEF Again
    <3>3. Element(call, 2 * n + 2) = <<>>
      BY <2>2, <2>3, <3>1, OutputElement DEF Current
    <3>4. Intended(call, 2 * n + 2) = text'
      BY <2>1, <2>2, <3>3, NextIntended, ConcatEmptySeq
    <3>5. Count(call) = 2 * n + 2 /\ Count(call) \in 0 .. Count(call)
      BY <2>2, <3>1
    <3>6. Count(call') \in 0 .. Count(call') /\ text' = Intended(call', Count(call'))
      BY <1>1, <3>4, <3>5
    <3>7. Settled'
      BY <1>2, <3>6 DEF Settled
    <3> QED
      BY <3>2, <3>7 DEF WrittenSoFar
  <2> QED
    BY <1>1, <2>4, <2>5
<1> QED
  BY <1>2, <1>3, <1>4 DEF TextInv

\* What the argument's output adds to the text.
LEMMA OutputText ==
  ASSUME IInv, PieceInv, TextInv, Ordinary(call), pc = "argument", arg_idx < MAX_ARG_CNT
  PROVE  LET e == Element(call, 2 * arg_idx + 2)
         IN /\ arg_idx + 1 < Len(call.pieces) /\ end = FALSE
            /\ text = Intended(call, 2 * arg_idx + 1) /\ text \in Seq(Char)
            /\ Intended(call, 2 * arg_idx + 2) = text \o e
            /\ Delivers(remaining, Output, e, Blank(Current.ph))
<1> DEFINE e == Element(call, 2 * arg_idx + 2)
           arg == call.args[arg_idx + 1]
<1>1. /\ arg_idx + 1 < Len(call.pieces) /\ end = FALSE /\ info = Current.ph
  BY OrdinaryFacts DEF PieceInv
<1>2. text = Intended(call, 2 * arg_idx + 1)
  BY DEF TextInv, WrittenSoFar
<1>3. MAX_ARG_CNT \in Nat /\ arg_idx \in Nat /\ Len(call.pieces) \in Nat
  BY OrdinaryFacts
<1>4. Intended(call, 2 * arg_idx + 2) = text \o e
  BY <1>2, <1>3, NextIntended
<1>5. e = Asked(info, arg)
  <2>1. arg_idx + 1 <= MAX_ARG_CNT
    BY <1>3
  <2> QED
    BY <1>1, <1>3, <2>1, OutputElement DEF Current
<1>6. arg \in Registers /\ ~PrefixTooMany(info, arg)
  <2>1. call.args \in Seq(Registers) /\ Len(call.args) = MAX_ARG_CNT
    BY DEF IInv, CallInv
  <2>2. arg_idx + 1 \in 1 .. Len(call.args) /\ arg_idx + 1 <= Len(call.pieces)
    BY <1>1, <1>3, <2>1
  <2>3. arg \in Registers
    BY <2>1, <2>2, ElementOfSeq
  <2>4. ~PrefixTooMany(call.pieces[arg_idx + 1].ph, arg)
    BY <2>2 DEF Ordinary
  <2> QED
    BY <1>1, <2>3, <2>4 DEF Current
<1>7. info \in Infos /\ info.type # "NONE" /\ remaining \in Rooms
  BY BufferFacts DEF IInv, ParserInv
<1> HIDE DEF arg
<1>8. Delivers(remaining, gen_str(remaining, info, arg), Asked(info, arg), Blank(info))
  BY <1>6, <1>7, ArgumentDelivers
<1>9. Output = gen_str(remaining, info, arg)
  BY DEF Output, arg
<1>10. Delivers(remaining, Output, e, Blank(Current.ph))
  BY <1>1, <1>5, <1>8, <1>9
<1>11. text \in Seq(Char)
  BY DEF IInv, OutputInv
<1> QED
  BY <1>1, <1>2, <1>4, <1>10, <1>11

LEMMA FailArgumentText == IInv /\ PieceInv /\ TextInv /\ FailArgument => TextInv'
<1> SUFFICES ASSUME IInv, PieceInv, TextInv, FailArgument PROVE TextInv'
  OBVIOUS
<1>1. /\ pc = "argument" /\ pc' = "terminate" /\ arg_idx < MAX_ARG_CNT
      /\ ret' = Output.ret /\ Output.ret # "OK"
      /\ UNCHANGED <<call, text, arg_idx>>
  BY DEF FailArgument, Fail
<1>2. ASSUME Ordinary(call)
      PROVE  Settled'
  <2> DEFINE k == 2 * arg_idx + 1
             e == Element(call, 2 * arg_idx + 2)
             next == Intended(call, k + 1)
  <2>1. /\ arg_idx + 1 < Len(call.pieces) /\ text = Intended(call, k)
        /\ text \in Seq(Char) /\ Intended(call, 2 * arg_idx + 2) = text \o e
        /\ Delivers(remaining, Output, e, Blank(Current.ph))
    BY <1>1, <1>2, OutputText
  <2>2. /\ k \in Nat /\ k < Count(call) /\ Count(call) \in Nat
        /\ k + 1 = 2 * arg_idx + 2
    BY <1>2, <2>1, OrdinaryFacts
  <2> HIDE DEF k, e
  <2>3. next = text \o e
    BY <2>1, <2>2
  <2> HIDE DEF next
  <2>4. e \in Seq(Char) /\ (ret' = TRUNCATED => Len(e) >= remaining)
    BY <1>1, <2>1 DEF Delivers
  <2>5. Len(next) = Len(text) + Len(e) /\ Len(e) \in Nat
    BY <2>1, <2>3, <2>4, ConcatFacts, LenProperties
  <2>6. ret' = TRUNCATED => Len(next) >= call.size - 1
    BY <2>4, <2>5, BufferFacts
  <2>7. k \in 0 .. Count(call') /\ k < Count(call')
    BY <1>1, <2>2
  <2>8. /\ text' = Intended(call', k)
        /\ ret' = TRUNCATED => Len(Intended(call', k + 1)) >= call'.size - 1
    BY <1>1, <2>1, <2>6 DEF next
  <2>9. ret' # "OK"
    BY <1>1
  <2> QED
    BY <2>7, <2>8, <2>9 DEF Settled
<1> QED
  BY <1>1, <1>2, TextEnds

LEMMA PutArgumentText == IInv /\ PieceInv /\ TextInv /\ PutArgument => TextInv'
<1> SUFFICES ASSUME IInv, PieceInv, TextInv, PutArgument PROVE TextInv'
  OBVIOUS
<1> DEFINE n == arg_idx
           m == arg_idx + 1
           e == Element(call, 2 * n + 2)
<1>1. /\ pc = "argument" /\ n < MAX_ARG_CNT /\ Output.ret = "OK"
      /\ Consumed <= remaining /\ text' = text \o Output.text
      /\ remaining' = remaining - Consumed /\ arg_idx' = m /\ Again(remaining')
      /\ UNCHANGED <<call, end, ret, r, asserts>>
  BY DEF PutArgument
<1>2. IInv'
  BY PutArgumentIInv
<1>3. ret' = "OK" /\ ret' # TRUNCATED /\ pc' \in {"scan", "terminate"}
  BY <1>1 DEF TextInv, Again, TRUNCATED
<1>4. Ordinary(call)' = Ordinary(call)
  BY <1>1 DEF Ordinary, WellFormed
<1>5. remaining' = 0 => Full'
  <2>1. text' \in Seq(Char) /\ Len(text') + remaining' = call'.size - 1
    BY <1>2 DEF IInv, OutputInv
  <2>2. Len(text') \in Nat
    BY <2>1, LenProperties
  <2> QED
    BY <2>1, <2>2 DEF Full
<1>6. ASSUME Ordinary(call)
      PROVE  WrittenSoFar'
  <2>1. /\ m < Len(call.pieces) /\ end = FALSE
        /\ text = Intended(call, 2 * n + 1)
        /\ Intended(call, 2 * n + 2) = text \o e
        /\ Delivers(remaining, Output, e, Blank(Current.ph))
    BY <1>1, <1>6, OutputText
  <2>2. /\ n \in Nat /\ Len(call.pieces) \in Nat /\ MAX_ARG_CNT \in Nat
        /\ Count(call) = 2 * Len(call.pieces)
    BY <1>6, OrdinaryFacts
  <2>3. 2 * m = 2 * n + 2 /\ 2 * m - 1 = 2 * n + 1 /\ 2 * m \in 0 .. Count(call)
    BY <2>1, <2>2
  <2>4. m \in 1 .. Least(Len(call.pieces), MAX_ARG_CNT)
    BY <1>1, <2>1, <2>2 DEF Least
  <2>5. pc' = "terminate" => remaining' = 0
    BY <1>1, <2>1 DEF Again
  <2> HIDE DEF e
  <2>6. Counted(remaining, Output) = Consumed
    BY <1>1, OutputFits
  <2>7. CASE Output.text = e
    <3>1. text' = Intended(call', 2 * m)
      BY <1>1, <2>1, <2>3, <2>7
    <3>2. 2 * m \in 0 .. Count(call')
      BY <1>1, <2>3
    <3>3. pc' = "terminate" => Settled'
      BY <1>3, <1>5, <2>5, <3>1, <3>2 DEF Settled
    <3>4. text' = Intended(call', 2 * arg_idx')
      BY <1>1, <3>1
    <3> QED
      BY <1>3, <3>3, <3>4 DEF WrittenSoFar
  <2>8. CASE Consumed = remaining /\ Narrower(e, Output.text, Blank(Current.ph))
    <3>1. remaining' = 0
      <4>1. remaining \in Nat
        BY BufferFacts
      <4> QED
        BY <1>1, <2>8, <4>1
    <3>2. pc' = "terminate" /\ Full'
      BY <1>1, <1>5, <3>1 DEF Again
    <3>3. PICK w : w = m
      OBVIOUS
    <3>4. Shortened(call, 2 * w)'
      <4> DEFINE blank == Blank(Current.ph)
      <4>1. PICK i \in 1 .. Len(e) : \E j \in i .. Len(e) :
              /\ \A x \in 1 .. Len(e) : x \in i .. j \/ e[x] = blank
              /\ Output.text = SubSeq(e, i, j)
        BY <2>8 DEF Narrower
      <4>2. PICK j \in i .. Len(e) :
              /\ \A x \in 1 .. Len(e) : x \in i .. j \/ e[x] = blank
              /\ Output.text = SubSeq(e, i, j)
        BY <4>1
      <4>3. (2 * w) \div 2 = m
        BY <2>2, <3>3
      <4>4. Blank(call.pieces[(2 * w) \div 2].ph) = blank
        BY <4>3 DEF Current
      <4>5. Element(call, 2 * w) = e
        BY <2>3, <3>3 DEF e
      <4>6. text' = Intended(call, 2 * w - 1) \o SubSeq(e, i, j)
        BY <1>1, <2>1, <2>3, <3>3, <4>2
      <4> HIDE DEF blank, m, n
      <4>7. /\ Blank(call'.pieces[(2 * w) \div 2].ph) = blank
            /\ Element(call', 2 * w) = e
            /\ text' = Intended(call', 2 * w - 1) \o SubSeq(e, i, j)
        BY <1>1, <4>4, <4>5, <4>6
      <4> QED
        BY <4>2, <4>7 DEF Shortened
    <3>5. w \in 1 .. Least(Len(call'.pieces), MAX_ARG_CNT)
      BY <1>1, <2>4, <3>3
    <3>6. Settled'
      BY <1>3, <3>2, <3>4, <3>5 DEF Settled
    <3> QED
      BY <3>2, <3>6 DEF WrittenSoFar
  <2> QED
    BY <1>1, <2>1, <2>6, <2>7, <2>8 DEF Delivers
<1> QED
  BY <1>3, <1>4, <1>6 DEF TextInv

LEMMA FailAssertionText == IInv /\ PieceInv /\ TextInv /\ FailAssertion => TextInv'
<1> SUFFICES ASSUME FailAssertion PROVE TextInv'
  OBVIOUS
<1>1. pc' = "done" /\ asserts' = FALSE
  BY DEF FailAssertion
<1> QED
  BY <1>1 DEF TextInv, WrittenSoFar

LEMMA NextTextInv == IInv /\ PieceInv /\ TextInv /\ [Next]_vars => TextInv'
<1> SUFFICES ASSUME IInv, PieceInv, TextInv, [Next]_vars PROVE TextInv'
  OBVIOUS
<1>1. CASE UNCHANGED vars
  <2>1. UNCHANGED <<call, text, arg_idx, ret, r, asserts, pc>>
    BY <1>1 DEF vars
  <2> QED
    BY <2>1 DEF TextInv, WrittenSoFar, Settled, Full, Shortened, Ordinary, WellFormed
<1>2. CASE PassCharacter \/ PassStage \/ FindToken \/ FindStop \/ FindEnd
  BY <1>2, ParserText
<1>3. CASE FindError
  BY <1>3, FindErrorText
<1>4. CASE CutLiteral
  BY <1>4, CutLiteralText
<1>5. CASE CopyLiteral
  BY <1>5, CopyLiteralText
<1>6. CASE MissArgument
  BY <1>6, MissArgumentText
<1>7. CASE FailArgument
  BY <1>7, FailArgumentText
<1>8. CASE PutArgument
  BY <1>8, PutArgumentText
<1>9. CASE FailAssertion
  BY <1>9, FailAssertionText
<1>10. CASE Terminate
  BY <1>10, TerminateText
<1> QED
  BY <1>1, <1>2, <1>3, <1>4, <1>5, <1>6, <1>7, <1>8, <1>9, <1>10 DEF Next

LEMMA SpecTextInv == Spec => []TextInv
  BY InitTextInv, NextTextInv, SpecIInv, SpecPieceInv, PTL DEF Spec

(* A call that returns leaves the elements of its pieces, literal texts and    *)
(* outputs, in order, each whole or not at all; if it reports success all of   *)
(* them, unless the buffer is full, and then the last may lack some of its     *)
(* padding: snprint, itoa and stringtoa, whatever the format and the size.     *)
THEOREM SnprintWritesWhatIsAsked == Spec => []WritesWhatIsAsked
<1>1. IInv /\ TextInv => WritesWhatIsAsked
  <2> SUFFICES ASSUME IInv, TextInv, Returned, Ordinary(call)
               PROVE  LET full == Len(text) = call.size - 1
                      IN /\ Len(text) < call.size
                         /\ r = IF ret = TRUNCATED THEN call.size ELSE Len(text)
                         /\ \/ \E k \in 0 .. Count(call) :
                                 /\ text = Intended(call, k)
                                 /\ ret = "OK" => k = Count(call) \/ full
                            \/ /\ ret = "OK" /\ full
                               /\ \E i \in 1 .. Least(Len(call.pieces), MAX_ARG_CNT) :
                                    Shortened(call, 2 * i)
    BY DEF WritesWhatIsAsked
  <2>1. Len(text) < call.size
    BY BufferFacts
  <2>2. r = IF ret = TRUNCATED THEN call.size ELSE Len(text)
    BY DEF TextInv, Returned
  <2>3. Settled
    BY DEF TextInv, WrittenSoFar, Returned
  <2> QED
    BY <2>1, <2>2, <2>3 DEF Settled, Full
<1> QED
  BY <1>1, SpecIInv, SpecTextInv, PTL

(* A call that reports truncation had no byte to spare for the literal or the  *)
(* output it stopped at: the comparisons of snprint, itoa and stringtoa with   *)
(* the bytes remaining, before and after each piece of output.                 *)
THEOREM SnprintCutsOnlyWhenFull == Spec => []CutsOnlyWhenFull
<1>1. IInv /\ PieceInv /\ TextInv => CutsOnlyWhenFull
  <2> SUFFICES ASSUME IInv, PieceInv, TextInv, Returned, Ordinary(call), ret = TRUNCATED
               PROVE  \E k \in 1 .. Count(call) :
                        /\ text = Intended(call, k - 1)
                        /\ Len(Intended(call, k)) >= call.size - 1
    BY DEF CutsOnlyWhenFull
  <2>1. Settled /\ ret # "OK"
    BY DEF TextInv, WrittenSoFar, Returned, TRUNCATED
  <2>2. PICK k \in 0 .. Count(call) :
          /\ text = Intended(call, k)
          /\ k < Count(call) /\ Len(Intended(call, k + 1)) >= call.size - 1
    BY <2>1 DEF Settled
  <2>3. k + 1 \in 1 .. Count(call) /\ (k + 1) - 1 = k
    BY <2>2, OrdinaryFacts
  <2> QED
    BY <2>2, <2>3
<1> QED
  BY <1>1, SpecIInv, SpecPieceInv, SpecTextInv, PTL
=============================================================================
