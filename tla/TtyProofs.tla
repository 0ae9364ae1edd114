------------------------------- MODULE TtyProofs -------------------------------
(***************************************************************************)
(* Proofs about terminal output, for all texts and messages, any room in    *)
(* the log and any depth of calls.                                          *)
(***************************************************************************)
EXTENDS Tty, SequenceTheorems, WellFoundedInduction, TLAPS

-----------------------------------------------------------------------------
(* Least numbers. *)

Less == {pair \in Nat \X Nat : pair[1] < pair[2]}

LEMMA LeastExists ==
  ASSUME NEW S \in SUBSET Nat, S # {}
  PROVE  \E x \in S : \A y \in S : x <= y
<1>1. IsWellFoundedOn(Less, Nat)
  BY NatLessThanWellFounded DEF OpToRel, Less
<1>2. PICK x \in S : \A y \in S : ~ (<<y, x>> \in Less)
  BY <1>1, WFMin
<1>3. \A y \in S : ~(y < x)
  BY <1>2 DEF Less
<1> QED
  BY <1>3

\* A set of numbers with 0, and with the next of each it has, has them all.
LEMMA AllNumbers ==
  ASSUME NEW S, 0 \in S, \A n \in Nat : n \in S => n + 1 \in S
  PROVE  Nat \subseteq S
<1> DEFINE bad == Nat \ S
<1> SUFFICES ASSUME bad # {} PROVE FALSE
  OBVIOUS
<1>1. PICK n \in bad : \A m \in bad : n <= m
  BY LeastExists
<1>2. n \in Nat \ {0}
  BY <1>1
<1>3. n - 1 \in Nat /\ n - 1 \notin bad /\ (n - 1) + 1 = n
  BY <1>1, <1>2
<1> QED
  BY <1>1, <1>3

-----------------------------------------------------------------------------
(* FlattenSeq: its recursion has a solution, which takes a text at a time.    *)

FlattenStep(seqs, f) ==
  [i \in 1 .. Len(seqs) |-> IF i = 1 THEN seqs[i] ELSE f[i - 1] \o seqs[i]]

Flattened(seqs) == CHOOSE f : f = FlattenStep(seqs, f)

LEMMA FlattenUnfolds ==
  /\ FlattenSeq(<<>>) = <<>>
  /\ \A seqs : Len(seqs) # 0 => FlattenSeq(seqs) = Flattened(seqs)[Len(seqs)]
  BY DEF FlattenSeq, Flattened, FlattenStep

\* A part of the solution, for the first n texts.
IsPart(seqs, n, f) ==
  /\ f = [i \in 1 .. n |-> f[i]]
  /\ \A i \in 1 .. n : f[i] = IF i = 1 THEN seqs[i] ELSE f[i - 1] \o seqs[i]

LEMMA PartGrows ==
  ASSUME NEW seqs, NEW n \in Nat, NEW f, IsPart(seqs, n, f)
  PROVE  \E g : IsPart(seqs, n + 1, g)
<1> DEFINE next == IF n + 1 = 1 THEN seqs[n + 1] ELSE f[n] \o seqs[n + 1]
           g == [i \in 1 .. (n + 1) |-> IF i = n + 1 THEN next ELSE f[i]]
<1> HIDE DEF next
<1>1. g[n + 1] = next /\ \A i \in 1 .. n : g[i] = f[i]
  OBVIOUS
<1>2. g = [i \in 1 .. (n + 1) |-> g[i]]
  OBVIOUS
<1> HIDE DEF g
<1>3. ASSUME NEW i \in 1 .. n
      PROVE  g[i] = IF i = 1 THEN seqs[i] ELSE g[i - 1] \o seqs[i]
  <2>1. f[i] = IF i = 1 THEN seqs[i] ELSE f[i - 1] \o seqs[i]
    BY DEF IsPart
  <2>2. i # 1 => i - 1 \in 1 .. n
    OBVIOUS
  <2>3. g[i] = f[i] /\ (i # 1 => g[i - 1] = f[i - 1])
    BY <1>1, <2>2
  <2> QED
    BY <2>1, <2>3
<1>4. g[n + 1] = IF n + 1 = 1 THEN seqs[n + 1] ELSE g[(n + 1) - 1] \o seqs[n + 1]
  <2>1. (n + 1) - 1 = n /\ (n + 1 # 1 => n \in 1 .. n)
    OBVIOUS
  <2>2. n + 1 # 1 => g[n] = f[n]
    BY <1>1, <2>1
  <2> QED
    BY <1>1, <2>1, <2>2 DEF next
<1>5. \A i \in 1 .. (n + 1) : i \in 1 .. n \/ i = n + 1
  OBVIOUS
<1>6. \A i \in 1 .. (n + 1) : g[i] = IF i = 1 THEN seqs[i] ELSE g[i - 1] \o seqs[i]
  BY <1>3, <1>4, <1>5
<1>7. IsPart(seqs, n + 1, g)
  BY <1>2, <1>6 DEF IsPart
<1> QED
  BY <1>7

LEMMA FlattenExists ==
  ASSUME NEW seqs, Len(seqs) \in Nat
  PROVE  \A i \in 1 .. Len(seqs) :
           Flattened(seqs)[i] =
             IF i = 1 THEN seqs[i] ELSE Flattened(seqs)[i - 1] \o seqs[i]
<1> DEFINE good == {n \in Nat : \E f : IsPart(seqs, n, f)}
<1>1. 0 \in good
  <2> DEFINE f == [i \in 1 .. 0 |-> 0]
  <2>1. f = [i \in 1 .. 0 |-> f[i]]
    OBVIOUS
  <2>2. \A i \in 1 .. 0 : FALSE
    OBVIOUS
  <2> HIDE DEF f
  <2>3. IsPart(seqs, 0, f)
    BY <2>1, <2>2 DEF IsPart
  <2> QED
    BY <2>3
<1>2. \A n \in Nat : n \in good => n + 1 \in good
  BY PartGrows
<1>3. Nat \subseteq good
  <2> HIDE DEF good
  <2> QED
    BY <1>1, <1>2, AllNumbers
<1>4. PICK f : IsPart(seqs, Len(seqs), f)
  BY <1>3
<1>5. f = FlattenStep(seqs, f)
  <2>1. \A i \in 1 .. Len(seqs) :
          f[i] = IF i = 1 THEN seqs[i] ELSE f[i - 1] \o seqs[i]
    BY <1>4 DEF IsPart
  <2>2. f = [i \in 1 .. Len(seqs) |-> f[i]]
    BY <1>4 DEF IsPart
  <2> QED
    BY <2>1, <2>2 DEF FlattenStep
<1>6. Flattened(seqs) = FlattenStep(seqs, Flattened(seqs))
  BY <1>5 DEF Flattened
<1> DEFINE h == Flattened(seqs)
<1> HIDE DEF h
<1>7. h = FlattenStep(seqs, h)
  BY <1>6 DEF h
<1>8. \A i \in 1 .. Len(seqs) : h[i] = IF i = 1 THEN seqs[i] ELSE h[i - 1] \o seqs[i]
  BY <1>7 DEF FlattenStep
<1> QED
  BY <1>8 DEF h

\* The first text, and then the others flattened.
LEMMA FlattenHead ==
  ASSUME NEW A, NEW seqs \in Seq(Seq(A)), seqs # <<>>
  PROVE  /\ FlattenSeq(Tail(seqs)) \in Seq(A)
         /\ FlattenSeq(seqs) = Head(seqs) \o FlattenSeq(Tail(seqs))
<1> DEFINE f == Flattened(seqs)
           rest == Tail(seqs)
           g == Flattened(rest)
           m == Len(rest)
<1>1. /\ rest \in Seq(Seq(A)) /\ m \in Nat /\ Len(seqs) = m + 1
      /\ \A i \in 1 .. m : rest[i] = seqs[i + 1]
      /\ Head(seqs) = seqs[1]
  BY HeadTailProperties, EmptySeq
<1>2. \A i \in 1 .. (m + 1) : seqs[i] \in Seq(A)
  BY <1>1, ElementOfSeq
<1>3. \A i \in 1 .. (m + 1) : f[i] = IF i = 1 THEN seqs[i] ELSE f[i - 1] \o seqs[i]
  BY <1>1, FlattenExists
<1>4. \A i \in 1 .. m : g[i] = IF i = 1 THEN seqs[2] ELSE g[i - 1] \o seqs[i + 1]
  <2>1. \A i \in 1 .. m : g[i] = IF i = 1 THEN rest[i] ELSE g[i - 1] \o rest[i]
    BY <1>1, FlattenExists
  <2> QED
    BY <1>1, <2>1
<1> HIDE DEF f, g, rest, m
<1> DEFINE Good(k) == g[k] \in Seq(A) /\ f[k + 1] = seqs[1] \o g[k]
           good == {n \in Nat : \A k \in 1 .. m : k = n + 1 => Good(k)}
<1> HIDE DEF Good
<1>5. 0 \in good
  <2> SUFFICES ASSUME 1 \in 1 .. m PROVE Good(1)
    OBVIOUS
  <2>1. 1 \in 1 .. (m + 1) /\ 2 \in 1 .. (m + 1) /\ 2 - 1 = 1 /\ 1 + 1 = 2 /\ 2 # 1
    BY <1>1
  <2>2. g[1] = seqs[2]
    BY <1>4
  <2>3. f[1] = seqs[1]
    BY <1>3, <2>1
  <2>4. f[2] = f[1] \o seqs[2]
    BY <1>3, <2>1
  <2> QED
    BY <1>2, <2>1, <2>2, <2>3, <2>4 DEF Good
<1>6. ASSUME NEW n \in Nat, n \in good PROVE n + 1 \in good
  <2> SUFFICES ASSUME NEW k \in 1 .. m, k = (n + 1) + 1 PROVE Good(k)
    OBVIOUS
  <2> DEFINE s == g[k - 1]
             t == seqs[k + 1]
             first == seqs[1]
  <2>1. /\ k # 1 /\ k - 1 \in 1 .. m /\ k - 1 = n + 1 /\ (k - 1) + 1 = k
        /\ k + 1 \in 1 .. (m + 1) /\ (k + 1) - 1 = k /\ k + 1 # 1 /\ 1 \in 1 .. (m + 1)
    BY <1>1
  <2>2. s \in Seq(A) /\ f[(k - 1) + 1] = first \o s
    BY <1>6, <2>1 DEF Good
  <2>3. g[k] = s \o t
    BY <1>4, <2>1
  <2>4. f[k + 1] = f[k] \o t
    BY <1>3, <2>1
  <2>5. t \in Seq(A) /\ first \in Seq(A)
    BY <1>2, <2>1
  <2>6. f[k] = first \o s
    BY <2>1, <2>2
  <2> HIDE DEF s, t, first
  <2>7. (first \o s) \o t = first \o (s \o t) /\ s \o t \in Seq(A)
    <3>1. s \in Seq(A)
      BY <2>2
    <3> QED
      BY ONLY <2>5, <3>1, ConcatAssociative, ConcatProperties
  <2>8. g[k] \in Seq(A) /\ f[k + 1] = first \o g[k]
    BY <2>3, <2>4, <2>6, <2>7
  <2> QED
    BY <2>8 DEF first, Good
<1>7. Nat \subseteq good
  <2> HIDE DEF good
  <2> QED
    BY <1>5, <1>6, AllNumbers
<1>8. CASE m = 0
  <2>1. rest = <<>> /\ FlattenSeq(rest) = <<>>
    BY <1>1, <1>8, EmptySeq, FlattenUnfolds DEF m
  <2>2. Len(seqs) = 1 /\ 1 \in 1 .. (m + 1)
    BY <1>1, <1>8
  <2>3. FlattenSeq(seqs) = f[1]
    <3>1. Len(seqs) # 0
      BY <2>2
    <3>2. FlattenSeq(seqs) = Flattened(seqs)[Len(seqs)]
      BY ONLY <3>1, FlattenUnfolds
    <3> QED
      BY <2>2, <3>2 DEF f
  <2>4. f[1] = seqs[1]
    BY <1>3, <2>2
  <2>5. seqs[1] \o <<>> = seqs[1]
    BY <1>1, <1>2, <2>2, ConcatEmptySeq
  <2> QED
    BY <1>1, <2>1, <2>3, <2>4, <2>5, EmptySeq DEF rest
<1>9. CASE m # 0
  <2>1. FlattenSeq(rest) = g[m] /\ FlattenSeq(seqs) = f[m + 1]
    BY <1>1, <1>9, FlattenUnfolds DEF f, g, m
  <2>2. m - 1 \in Nat /\ (m - 1) + 1 = m /\ m \in 1 .. m
    BY <1>1, <1>9
  <2>3. m - 1 \in good
    BY <1>7, <2>2
  <2>4. g[m] \in Seq(A) /\ f[m + 1] = seqs[1] \o g[m]
    BY <2>2, <2>3 DEF Good
  <2> QED
    BY <1>1, <2>1, <2>4 DEF rest
<1> QED
  BY <1>8, <1>9

\* Flattening nothing, or texts, gives a text.
LEMMA FlattenType ==
  ASSUME NEW A, NEW seqs \in Seq(Seq(A))
  PROVE  FlattenSeq(seqs) \in Seq(A)
<1>1. CASE seqs = <<>>
  BY <1>1, FlattenUnfolds, EmptySeq
<1>2. CASE seqs # <<>>
  <2>1. Head(seqs) \in Seq(A)
    BY <1>2, HeadTailProperties
  <2> QED
    BY <1>2, <2>1, FlattenHead, ConcatProperties
<1> QED
  BY <1>1, <1>2

LEMMA FlattenOne ==
  ASSUME NEW A, NEW text \in Seq(A)
  PROVE  FlattenSeq(<<text>>) = text
<1> DEFINE one == <<text>>
<1>1. one \in Seq(Seq(A)) /\ one # <<>> /\ Head(one) = text /\ Tail(one) = <<>>
  OBVIOUS
<1> HIDE DEF one
<1>2. FlattenSeq(one) = Head(one) \o FlattenSeq(Tail(one))
  BY <1>1, FlattenHead
<1>3. FlattenSeq(one) = text \o <<>>
  BY <1>1, <1>2, FlattenUnfolds
<1> QED
  BY <1>3, ConcatEmptySeq DEF one
-----------------------------------------------------------------------------
(* The inductive invariant. *)

Letters == Chars \cup Said \cup {Stamp}

Ats == {"line", "prefix", "begun", "put", "text", "log", "done",
        "say", "message", "log message"}

\* The steps of log_msg, and of a write between the start of a line and its piece.
Saying == {"say", "message", "log message"}
Begun == {"prefix", "begun"}
Shown == {"text", "log"}

CallSet ==
  [at : Ats, head : Seq(Letters), vec : Seq(Seq(Letters)), whole : Seq(Letters),
   logged : Seq(Letters), shown : Seq(Letters), seen : BOOLEAN]

TtyTypeOK ==
  /\ eol \in BOOLEAN /\ console \in BOOLEAN /\ prefix \in BOOLEAN /\ nested \in BOOLEAN
  /\ stack \in Seq(CallSet)
  /\ tail \in Seq(Letters)

\* What a call has still to do is of its own kind of text.
CallText(call) ==
  /\ call.at \in Saying =>
       call.head \in Seq(Said) /\ call.vec = <<>> /\ call.logged = <<>>
  /\ call.at \notin Saying => call.head \in Seq(Chars) /\ call.vec \in Seq(Seq(Chars))
  /\ call.at = "done" => call.head = <<>> /\ call.vec = <<>>

\* The call's text is what is logged of it and what is left to do.
CallKept(call) == call.logged \o call.head \o FlattenSeq(call.vec) = call.whole

\* What a call has shown that had a console all along.
ShownOf(call) ==
  CASE call.at \in Shown -> call.logged \o Piece(call.head)
    [] call.at \in {"message", "log message"} -> call.head
    [] OTHER -> call.logged

CallShown(call) == call.seen => console /\ call.shown = ShownOf(call)

StackInv ==
  \A i \in DOMAIN stack :
    CallText(stack[i]) /\ CallKept(stack[i]) /\ CallShown(stack[i])

\* The i-th character is the last that is not one of a message's.
IsLast(text, i) ==
  /\ text[i] \notin Said
  /\ \A k \in DOMAIN text : k > i => text[k] \in Said

\* The text ends its line, or (if ended is FALSE) is in the middle of one.
Ends(text, ended) == \A i \in DOMAIN text : IsLast(text, i) => (text[i] = NL <=> ended)

Stamped(text) ==
  \A i, j \in DOMAIN text : Follows(text, i, j) => (text[j] = Stamp <=> text[i] = NL)

\* Where the outermost call is, eol, and the end of the log agree.
OuterOK(call, e, text) ==
  /\ call.at \in Begun => e /\ Ends(text, FALSE)
  /\ call.at = "put" => ~e /\ Ends(text, FALSE)
  /\ call.at \in Shown => (e <=> NL \in ToSet(call.head)) /\ Ends(text, FALSE)
  /\ call.at \notin Begun \cup Shown \cup {"put"} => Ends(text, e)

\* Without nested writes only the outermost call is a write.
LineInv ==
  /\ \A i \in 1 .. (Len(stack) - 1) : stack[i].at \in Saying \cup {"done"}
  /\ Stamped(tail)
  /\ IF stack = <<>> THEN Ends(tail, eol) ELSE OuterOK(stack[Len(stack)], eol, tail)

IInv == TtyTypeOK /\ StackInv /\ (~nested => LineInv)
-----------------------------------------------------------------------------
(* Pieces of a text. *)

LEMMA PieceLenFacts ==
  ASSUME NEW A, NEW text \in Seq(A)
  PROVE  /\ PieceLen(text) \in 0 .. Len(text)
         /\ NL \in ToSet(text) => PieceLen(text) > 0 /\ text[PieceLen(text)] = NL
         /\ \A i \in 1 .. (PieceLen(text) - 1) : text[i] # NL
         /\ NL \notin ToSet(text) => PieceLen(text) = Len(text)
<1>1. DOMAIN text = 1 .. Len(text) /\ Len(text) \in Nat
  BY LenProperties
<1>2. CASE NL \in ToSet(text)
  <2> DEFINE found == {i \in DOMAIN text : text[i] = NL}
             First(i) == text[i] = NL /\ \A j \in 1 .. (i - 1) : text[j] # NL
  <2>1. found # {} /\ found \subseteq Nat
    BY <1>1, <1>2 DEF ToSet
  <2>2. PICK i \in found : \A j \in found : i <= j
    BY <2>1, LeastExists
  <2>3. \A j \in 1 .. (i - 1) : j \in DOMAIN text /\ ~(i <= j)
    BY <1>1, <2>2
  <2>4. i \in DOMAIN text /\ First(i)
    BY <2>2, <2>3
  <2>5. PieceLen(text) \in DOMAIN text /\ First(PieceLen(text))
    <3>1. PieceLen(text) = CHOOSE k \in DOMAIN text : First(k)
      BY <1>2 DEF PieceLen
    <3> HIDE DEF First
    <3> QED
      BY <2>4, <3>1
  <2> QED
    BY <1>1, <1>2, <2>5
<1>3. CASE NL \notin ToSet(text)
  <2>1. PieceLen(text) = Len(text)
    BY <1>3 DEF PieceLen
  <2>2. \A i \in 1 .. Len(text) : text[i] # NL
    BY <1>1, <1>3 DEF ToSet
  <2>3. \A i \in 1 .. (Len(text) - 1) : i \in 1 .. Len(text)
    BY <1>1
  <2> QED
    BY <1>1, <1>3, <2>1, <2>2, <2>3
<1> QED
  BY <1>2, <1>3

\* A piece and the rest are the text; a newline can only end the piece, and the
\* piece has one if the text has.
LEMMA PieceFacts ==
  ASSUME NEW A, NEW text \in Seq(A)
  PROVE  /\ Piece(text) \in Seq(A) /\ Rest(text) \in Seq(A)
         /\ Piece(text) \o Rest(text) = text
         /\ \A i \in 1 .. (Len(Piece(text)) - 1) : Piece(text)[i] # NL
         /\ Piece(text) # <<>> => (Piece(text)[Len(Piece(text))] = NL <=> NL \in ToSet(text))
         /\ Piece(text) = <<>> => NL \notin ToSet(text)
<1> DEFINE n == PieceLen(text)
           len == Len(text)
<1>1. /\ len \in Nat /\ n \in 0 .. len
      /\ NL \in ToSet(text) => n > 0 /\ text[n] = NL
      /\ \A i \in 1 .. (n - 1) : text[i] # NL
      /\ NL \notin ToSet(text) => n = len
  BY PieceLenFacts, LenProperties
<1>2. Piece(text) = SubSeq(text, 1, n) /\ Rest(text) = SubSeq(text, n + 1, len)
  BY DEF Piece, Rest
<1>3. \A i \in 1 .. len : text[i] \in A
  BY ElementOfSeq
<1>4. NL \notin ToSet(text) => \A i \in 1 .. len : text[i] # NL
  BY LenProperties DEF ToSet
<1> HIDE DEF n, len
<1>5. /\ Piece(text) \in Seq(A) /\ Len(Piece(text)) = n
      /\ \A i \in 1 .. n : Piece(text)[i] = text[i]
  <2>1. 1 \in Int /\ n \in Int /\ \A i \in 1 .. n : text[i] \in A
    BY <1>1, <1>3
  <2> DEFINE piece == SubSeq(text, 1, n)
  <2>2. /\ piece \in Seq(A)
        /\ Len(piece) = IF 1 <= n THEN n - 1 + 1 ELSE 0
        /\ \A i \in 1 .. (n - 1 + 1) : piece[i] = text[1 + i - 1]
    BY ONLY <2>1, SubSeqProperties
  <2> HIDE DEF piece
  <2>3. Len(piece) = n /\ n - 1 + 1 = n /\ \A i \in 1 .. n : 1 + i - 1 = i
    BY <1>1, <2>2
  <2>4. \A i \in 1 .. n : piece[i] = text[i]
    BY <2>2, <2>3
  <2> QED
    BY <1>2, <2>2, <2>3, <2>4 DEF piece
<1>6. Rest(text) \in Seq(A)
  <2>1. n + 1 \in Int /\ len \in Int /\ \A i \in (n + 1) .. len : text[i] \in A
    BY <1>1, <1>3
  <2>2. SubSeq(text, n + 1, len) \in Seq(A)
    BY ONLY <2>1, SubSeqProperties
  <2> QED
    BY <1>2, <2>2
<1>7. Piece(text) \o Rest(text) = text
  <2>1. 1 \in 1 .. (len + 1) /\ n \in (1 - 1) .. len /\ len \in n .. len
    BY <1>1
  <2>2. SubSeq(text, 1, n) \o SubSeq(text, n + 1, len) = SubSeq(text, 1, len)
    BY <2>1, ConcatAdjacentSubSeq DEF len
  <2> QED
    BY <1>2, <2>2, SubSeqFull DEF len
<1>8. \A i \in 1 .. (n - 1) : Piece(text)[i] # NL
  <2>1. \A i \in 1 .. (n - 1) : i \in 1 .. n
    BY <1>1
  <2> QED
    BY <1>1, <1>5, <2>1
<1>9. ASSUME n # 0 PROVE Piece(text)[n] = NL <=> NL \in ToSet(text)
  <2>1. n \in 1 .. n /\ n \in 1 .. len
    BY <1>1, <1>9
  <2> QED
    BY <1>1, <1>4, <1>5, <2>1
<1>10. Piece(text) = <<>> <=> n = 0
  BY <1>1, <1>5, EmptySeq
<1> QED
  BY <1>1, <1>5, <1>6, <1>7, <1>8, <1>9, <1>10

-----------------------------------------------------------------------------
(* The log: stamps and newlines in what is appended to it and in the last of it. *)

\* How many characters a log of len of them loses.
Dropped(len) == IF len > Room THEN len - Room ELSE 0

LEMMA LastOfDrops ==
  ASSUME NEW A, NEW text \in Seq(A)
  PROVE  /\ Kept!LastOf(Room, text) \in Seq(A)
         /\ Len(text) \in Nat /\ Dropped(Len(text)) \in 0 .. Len(text)
         /\ Len(Kept!LastOf(Room, text)) = Len(text) - Dropped(Len(text))
         /\ \A i \in 1 .. (Len(text) - Dropped(Len(text))) :
              Kept!LastOf(Room, text)[i] = text[i + Dropped(Len(text))]
<1> DEFINE len == Len(text)
           d == Dropped(len)
           last == SubSeq(text, d + 1, len)
<1>1. len \in Nat /\ Room \in Nat /\ \A i \in 1 .. len : text[i] \in A
  BY ElementOfSeq, LenProperties, TtyAssumption
<1>2. Kept!LastOf(Room, text) = last
  BY <1>1 DEF Kept!LastOf, Dropped
<1> HIDE DEF len
<1>3. d \in Nat /\ d <= len
  BY <1>1 DEF Dropped
<1> HIDE DEF d
<1>4. d + 1 \in Int /\ len \in Int /\ \A i \in (d + 1) .. len : text[i] \in A
  BY <1>1, <1>3
<1>5. /\ last \in Seq(A)
      /\ Len(last) = IF d + 1 <= len THEN len - (d + 1) + 1 ELSE 0
      /\ \A i \in 1 .. (len - (d + 1) + 1) : last[i] = text[(d + 1) + i - 1]
  BY ONLY <1>4, SubSeqProperties
<1> HIDE DEF last
<1>6. Len(last) = len - d /\ \A i \in 1 .. (len - d) : last[i] = text[i + d]
  <2>1. Len(last) = len - d /\ len - (d + 1) + 1 = len - d
    BY <1>1, <1>3, <1>5
  <2>2. \A i \in 1 .. (len - d) : (d + 1) + i - 1 = i + d
    BY <1>1, <1>3
  <2> QED
    BY <1>5, <2>1, <2>2
<1> QED
  BY <1>1, <1>2, <1>3, <1>5, <1>6 DEF len, d

LEMMA LastOfFacts ==
  ASSUME NEW A, NEW text \in Seq(A)
  PROVE  /\ Kept!LastOf(Room, text) \in Seq(A)
         /\ \E d \in Nat :
              /\ Len(Kept!LastOf(Room, text)) = Len(text) - d
              /\ \A i \in 1 .. (Len(text) - d) : Kept!LastOf(Room, text)[i] = text[i + d]
<1>1. Len(text) \in Nat /\ Dropped(Len(text)) \in 0 .. Len(text)
  BY LastOfDrops
<1>2. Dropped(Len(text)) \in Nat
  BY <1>1
<1> QED
  BY <1>2, LastOfDrops

\* The end of a text has the stamps and the newlines of the text.
LEMMA LastOfStamped ==
  ASSUME NEW A, NEW text \in Seq(A), Stamped(text), NEW ended, Ends(text, ended)
  PROVE  Stamped(Kept!LastOf(Room, text)) /\ Ends(Kept!LastOf(Room, text), ended)
<1> DEFINE last == Kept!LastOf(Room, text)
<1>1. PICK d \in Nat : /\ Len(last) = Len(text) - d
                       /\ \A i \in 1 .. (Len(text) - d) : last[i] = text[i + d]
  BY LastOfFacts
<1>2. /\ DOMAIN text = 1 .. Len(text) /\ Len(text) \in Nat
      /\ DOMAIN last = 1 .. (Len(text) - d)
  BY <1>1, LastOfFacts, LenProperties
<1> HIDE DEF last
<1>3. \A i \in DOMAIN last : i + d \in DOMAIN text /\ last[i] = text[i + d]
  BY <1>1, <1>2
<1>4. Stamped(last)
  <2> SUFFICES ASSUME NEW i \in DOMAIN last, NEW j \in DOMAIN last, Follows(last, i, j)
               PROVE  last[j] = Stamp <=> last[i] = NL
    BY DEF Stamped
  <2> DEFINE p == i + d
             q == j + d
  <2>1. /\ last[i] \notin Said /\ last[j] \notin Said /\ i < j
        /\ \A k \in (i + 1) .. (j - 1) : last[k] \in Said
    BY DEF Follows
  <2>2. /\ p \in DOMAIN text /\ q \in DOMAIN text /\ p < q
        /\ text[p] = last[i] /\ text[q] = last[j]
    BY <1>2, <1>3, <2>1
  <2>3. \A k \in (p + 1) .. (q - 1) :
          /\ k - d \in (i + 1) .. (j - 1) /\ k - d \in DOMAIN last
          /\ (k - d) + d = k
    BY <1>2
  <2> HIDE DEF p, q
  <2>4. \A k \in (p + 1) .. (q - 1) : text[k] \in Said
    BY <1>3, <2>1, <2>3
  <2>5. Follows(text, p, q)
    BY <2>1, <2>2, <2>4 DEF Follows
  <2> QED
    BY <2>2, <2>5 DEF Stamped
<1>5. Ends(last, ended)
  <2> SUFFICES ASSUME NEW i \in DOMAIN last, IsLast(last, i)
               PROVE  last[i] = NL <=> ended
    BY DEF Ends
  <2>1. \A k \in DOMAIN text : k > i + d => text[k] \in Said
    <3> SUFFICES ASSUME NEW k \in DOMAIN text, k > i + d PROVE text[k] \in Said
      OBVIOUS
    <3>1. k - d \in DOMAIN last /\ k - d > i /\ (k - d) + d = k
      BY <1>2
    <3> QED
      BY <1>3, <3>1 DEF IsLast
  <2>2. IsLast(text, i + d)
    BY <1>3, <2>1 DEF IsLast
  <2> QED
    BY <1>3, <2>2 DEF Ends
<1> QED
  BY <1>4, <1>5 DEF last

LEMMA ConcatAt ==
  ASSUME NEW A, NEW s \in Seq(A), NEW t \in Seq(A)
  PROVE  /\ s \o t \in Seq(A) /\ Len(s) \in Nat /\ Len(t) \in Nat
         /\ DOMAIN s = 1 .. Len(s) /\ DOMAIN t = 1 .. Len(t)
         /\ DOMAIN (s \o t) = 1 .. (Len(s) + Len(t))
         /\ \A i \in 1 .. Len(s) : (s \o t)[i] = s[i]
         /\ \A i \in (Len(s) + 1) .. (Len(s) + Len(t)) : (s \o t)[i] = t[i - Len(s)]
<1> DEFINE all == s \o t
<1>1. /\ all \in Seq(A) /\ Len(all) = Len(s) + Len(t)
      /\ \A i \in 1 .. (Len(s) + Len(t)) :
           all[i] = IF i <= Len(s) THEN s[i] ELSE t[i - Len(s)]
  BY ConcatProperties
<1>2. Len(s) \in Nat /\ Len(t) \in Nat /\ DOMAIN s = 1 .. Len(s) /\ DOMAIN t = 1 .. Len(t)
  BY LenProperties
<1> HIDE DEF all
<1>3. DOMAIN all = 1 .. (Len(s) + Len(t))
  BY <1>1, LenProperties
<1>4. \A i \in 1 .. Len(s) : i \in 1 .. (Len(s) + Len(t)) /\ i <= Len(s)
  BY <1>2
<1>5. \A i \in (Len(s) + 1) .. (Len(s) + Len(t)) :
        i \in 1 .. (Len(s) + Len(t)) /\ ~(i <= Len(s))
  BY <1>2
<1> QED
  BY <1>1, <1>2, <1>3, <1>4, <1>5 DEF all

\* A message changes neither the lines nor how the log ends.
LEMMA AppendSaid ==
  ASSUME NEW A, NEW text \in Seq(A), NEW msg \in Seq(A),
         \A i \in DOMAIN msg : msg[i] \in Said,
         Stamped(text), NEW ended, Ends(text, ended)
  PROVE  Stamped(text \o msg) /\ Ends(text \o msg, ended)
<1> DEFINE all == text \o msg
           n == Len(text)
<1>1. /\ n \in Nat /\ Len(msg) \in Nat
      /\ DOMAIN text = 1 .. n /\ DOMAIN msg = 1 .. Len(msg)
      /\ DOMAIN all = 1 .. (n + Len(msg))
      /\ \A i \in 1 .. n : all[i] = text[i]
      /\ \A i \in (n + 1) .. (n + Len(msg)) : all[i] = msg[i - n]
  BY ConcatAt
<1> HIDE DEF all, n
<1>2. \A i \in DOMAIN all :
        (i \in DOMAIN text /\ all[i] = text[i]) \/ all[i] \in Said
  <2> TAKE i \in DOMAIN all
  <2>1. CASE i \in 1 .. n
    BY <1>1, <2>1
  <2>2. CASE i \notin 1 .. n
    <3>1. i \in (n + 1) .. (n + Len(msg)) /\ i - n \in DOMAIN msg
      BY <1>1, <2>2
    <3> QED
      BY <1>1, <3>1
  <2> QED
    BY <2>1, <2>2
<1>3. \A i \in DOMAIN text : i \in DOMAIN all /\ all[i] = text[i]
  BY <1>1
<1>4. Stamped(all)
  <2> SUFFICES ASSUME NEW i \in DOMAIN all, NEW j \in DOMAIN all, Follows(all, i, j)
               PROVE  all[j] = Stamp <=> all[i] = NL
    BY DEF Stamped
  <2>1. /\ i \in DOMAIN text /\ all[i] = text[i]
        /\ j \in DOMAIN text /\ all[j] = text[j]
    BY <1>2 DEF Follows
  <2>2. \A k \in (i + 1) .. (j - 1) : all[k] = text[k]
    <3>1. \A k \in (i + 1) .. (j - 1) : k \in 1 .. n
      BY <1>1, <2>1
    <3> QED
      BY <1>1, <3>1
  <2>3. Follows(text, i, j)
    BY <2>1, <2>2 DEF Follows
  <2> QED
    BY <2>1, <2>3 DEF Stamped
<1>5. Ends(all, ended)
  <2> SUFFICES ASSUME NEW i \in DOMAIN all, IsLast(all, i)
               PROVE  all[i] = NL <=> ended
    BY DEF Ends
  <2>1. i \in DOMAIN text /\ all[i] = text[i]
    BY <1>2 DEF IsLast
  <2>2. IsLast(text, i)
    BY <1>3, <2>1 DEF IsLast
  <2> QED
    BY <2>1, <2>2 DEF Ends
<1> QED
  BY <1>4, <1>5 DEF all

\* A character after those of the log: a stamp exactly where a line ended, and
\* the log ends as the character does.
LEMMA AppendChar ==
  ASSUME NEW A, NEW text \in Seq(A), NEW c \in A, c \notin Said,
         Stamped(text), NEW ended \in BOOLEAN, Ends(text, ended), c = Stamp <=> ended
  PROVE  Stamped(text \o <<c>>) /\ Ends(text \o <<c>>, c = NL)
<1> DEFINE all == text \o <<c>>
           n == Len(text)
<1>1. /\ n \in Nat /\ DOMAIN text = 1 .. n
      /\ DOMAIN all = 1 .. (n + 1)
      /\ \A i \in 1 .. n : all[i] = text[i]
      /\ all[n + 1] = c
  <2> DEFINE one == <<c>>
  <2>1. one \in Seq(A) /\ Len(one) = 1 /\ one[1] = c
    OBVIOUS
  <2> HIDE DEF one
  <2>2. /\ n \in Nat /\ DOMAIN text = 1 .. n
        /\ DOMAIN (text \o one) = 1 .. (n + 1)
        /\ \A i \in 1 .. n : (text \o one)[i] = text[i]
        /\ \A i \in (n + 1) .. (n + 1) : (text \o one)[i] = one[i - n]
    BY <2>1, ConcatAt
  <2>3. n + 1 \in (n + 1) .. (n + 1) /\ (n + 1) - n = 1
    BY <2>2
  <2> QED
    BY <2>1, <2>2, <2>3 DEF one
<1> HIDE DEF all, n
<1>2. Stamped(all)
  <2> SUFFICES ASSUME NEW i \in DOMAIN all, NEW j \in DOMAIN all, Follows(all, i, j)
               PROVE  all[j] = Stamp <=> all[i] = NL
    BY DEF Stamped
  <2>1. /\ i \in 1 .. n /\ i < j /\ j \in 1 .. (n + 1) /\ all[i] = text[i]
        /\ \A k \in (i + 1) .. (j - 1) : k \in 1 .. n /\ all[k] = text[k]
        /\ all[i] \notin Said /\ all[j] \notin Said
        /\ \A k \in (i + 1) .. (j - 1) : all[k] \in Said
    BY <1>1 DEF Follows
  <2>2. CASE j \in 1 .. n
    <3>1. all[j] = text[j]
      BY <1>1, <2>2
    <3>2. Follows(text, i, j)
      BY <2>1, <3>1 DEF Follows
    <3> QED
      BY <1>1, <2>1, <2>2, <3>1, <3>2 DEF Stamped
  <2>3. CASE j = n + 1
    <3>1. \A k \in DOMAIN text : k > i => k \in (i + 1) .. (j - 1)
      BY <1>1, <2>1, <2>3
    <3>2. IsLast(text, i)
      BY <2>1, <3>1 DEF IsLast
    <3>3. text[i] = NL <=> ended
      BY <1>1, <2>1, <3>2 DEF Ends
    <3> QED
      BY <1>1, <2>1, <2>3, <3>3
  <2> QED
    BY <1>1, <2>1, <2>2, <2>3
<1>3. Ends(all, c = NL)
  <2> SUFFICES ASSUME NEW i \in DOMAIN all, IsLast(all, i)
               PROVE  all[i] = NL <=> c = NL
    BY DEF Ends
  <2>1. n + 1 \in DOMAIN all /\ ~(n + 1 > i)
    BY <1>1 DEF IsLast
  <2>2. i = n + 1
    BY <1>1, <2>1
  <2> QED
    BY <1>1, <2>2
<1> QED
  BY <1>2, <1>3 DEF all

\* A piece goes on with the line, and ends it if it ends in a newline.
LEMMA AppendPiece ==
  ASSUME NEW A, NEW text \in Seq(A), NEW piece \in Seq(A),
         \A i \in DOMAIN piece : piece[i] \notin Said /\ piece[i] # Stamp,
         \A i \in 1 .. (Len(piece) - 1) : piece[i] # NL,
         Stamped(text), Ends(text, FALSE), NEW ended,
         IF piece = <<>> THEN ~ended ELSE piece[Len(piece)] = NL <=> ended
  PROVE  Stamped(text \o piece) /\ Ends(text \o piece, ended)
<1> DEFINE all == text \o piece
           n == Len(text)
           m == Len(piece)
<1>1. /\ n \in Nat /\ m \in Nat
      /\ DOMAIN text = 1 .. n /\ DOMAIN piece = 1 .. m
      /\ DOMAIN all = 1 .. (n + m)
      /\ \A i \in 1 .. n : all[i] = text[i]
      /\ \A i \in (n + 1) .. (n + m) : all[i] = piece[i - n]
  BY ConcatAt
<1>2. piece = <<>> <=> m = 0
  BY <1>1, EmptySeq
<1>3. \A i \in 1 .. m : piece[i] \notin Said /\ piece[i] # Stamp
  BY <1>1
<1> HIDE DEF all, n, m
<1>4. \A i \in (n + 1) .. (n + m) : /\ all[i] \notin Said /\ all[i] # Stamp
                                    /\ i < n + m => all[i] # NL
  <2> TAKE i \in (n + 1) .. (n + m)
  <2>1. i - n \in 1 .. m /\ (i < n + m => i - n \in 1 .. (m - 1))
    BY <1>1
  <2> QED
    BY <1>1, <1>3, <2>1 DEF m
<1>5. Stamped(all)
  <2> SUFFICES ASSUME NEW i \in DOMAIN all, NEW j \in DOMAIN all, Follows(all, i, j)
               PROVE  all[j] = Stamp <=> all[i] = NL
    BY DEF Stamped
  <2>1. /\ i \in 1 .. (n + m) /\ j \in 1 .. (n + m) /\ i < j
        /\ all[i] \notin Said /\ all[j] \notin Said
        /\ \A k \in (i + 1) .. (j - 1) : all[k] \in Said
    BY <1>1 DEF Follows
  <2>2. CASE j \in 1 .. n
    <3>1. i \in 1 .. n /\ \A k \in (i + 1) .. (j - 1) : k \in 1 .. n
      BY <1>1, <2>1, <2>2
    <3>2. all[i] = text[i] /\ all[j] = text[j]
          /\ \A k \in (i + 1) .. (j - 1) : all[k] = text[k]
      BY <1>1, <2>2, <3>1
    <3>3. Follows(text, i, j)
      BY <2>1, <3>2 DEF Follows
    <3> QED
      BY <1>1, <2>2, <3>1, <3>2, <3>3 DEF Stamped
  <2>3. CASE j \in (n + 1) .. (n + m) /\ i \in 1 .. n
    <3>1. \A k \in 1 .. n : k > i => k \in (i + 1) .. (j - 1)
      BY <1>1, <2>1, <2>3
    <3>2. \A k \in 1 .. n : k > i => text[k] \in Said
      BY <1>1, <2>1, <3>1
    <3>3. all[i] = text[i]
      BY <1>1, <2>3
    <3>4. IsLast(text, i)
      BY <1>1, <2>1, <3>2, <3>3 DEF IsLast
    <3>5. text[i] # NL
      BY <1>1, <2>3, <3>4 DEF Ends
    <3> QED
      BY <1>4, <2>3, <3>3, <3>5
  <2>4. CASE j \in (n + 1) .. (n + m) /\ i \in (n + 1) .. (n + m)
    <3>1. i < n + m
      BY <1>1, <2>1, <2>4
    <3> QED
      BY <1>4, <2>4, <3>1
  <2> QED
    BY <1>1, <2>1, <2>2, <2>3, <2>4
<1>6. Ends(all, ended)
  <2> SUFFICES ASSUME NEW i \in DOMAIN all, IsLast(all, i)
               PROVE  all[i] = NL <=> ended
    BY DEF Ends
  <2>1. CASE m = 0
    <3>1. DOMAIN all = DOMAIN text /\ \A k \in DOMAIN text : all[k] = text[k]
      BY <1>1, <2>1
    <3>2. IsLast(text, i)
      BY <3>1 DEF IsLast
    <3>3. ~ended
      BY <1>2, <2>1
    <3> QED
      BY <3>1, <3>2, <3>3 DEF Ends
  <2>2. CASE m # 0
    <3>1. n + m \in DOMAIN all /\ n + m \in (n + 1) .. (n + m) /\ (n + m) - n = m
      BY <1>1, <2>2
    <3>2. all[n + m] \notin Said
      BY <1>4, <3>1
    <3>3. ~(n + m > i)
      BY <3>1, <3>2 DEF IsLast
    <3>4. i = n + m
      BY <1>1, <3>3
    <3>5. all[i] = piece[m]
      BY <1>1, <3>1, <3>4
    <3>6. piece[m] = NL <=> ended
      BY <1>2, <2>2 DEF m
    <3> QED
      BY <3>5, <3>6
  <2> QED
    BY <2>1, <2>2
<1> QED
  BY <1>5, <1>6 DEF all

-----------------------------------------------------------------------------
(* The stack of calls. *)

LEMMA PushFacts ==
  ASSUME NEW A, NEW s \in Seq(A), NEW c \in A
  PROVE  /\ <<c>> \o s \in Seq(A) /\ <<c>> \o s # <<>>
         /\ Len(s) \in Nat /\ Len(<<c>> \o s) = Len(s) + 1
         /\ (<<c>> \o s)[1] = c
         /\ \A i \in 2 .. (Len(s) + 1) : (<<c>> \o s)[i] = s[i - 1]
<1> DEFINE one == <<c>>
           all == one \o s
<1>1. one \in Seq(A) /\ Len(one) = 1 /\ one[1] = c
  OBVIOUS
<1> HIDE DEF one
<1>2. /\ all \in Seq(A) /\ Len(s) \in Nat /\ Len(all) = Len(s) + 1
      /\ \A i \in 1 .. 1 : all[i] = one[i]
      /\ \A i \in 2 .. (Len(s) + 1) : all[i] = s[i - 1]
  <2>1. /\ one \o s \in Seq(A) /\ Len(s) \in Nat /\ DOMAIN (one \o s) = 1 .. (1 + Len(s))
        /\ \A i \in 1 .. 1 : (one \o s)[i] = one[i]
        /\ \A i \in (1 + 1) .. (1 + Len(s)) : (one \o s)[i] = s[i - 1]
    <3>1. one \in Seq(A) /\ s \in Seq(A)
      BY <1>1
    <3>2. /\ one \o s \in Seq(A) /\ Len(s) \in Nat
          /\ DOMAIN (one \o s) = 1 .. (Len(one) + Len(s))
          /\ \A i \in 1 .. Len(one) : (one \o s)[i] = one[i]
          /\ \A i \in (Len(one) + 1) .. (Len(one) + Len(s)) :
               (one \o s)[i] = s[i - Len(one)]
      BY ONLY <3>1, ConcatAt
    <3> QED
      BY <1>1, <3>2
  <2>2. Len(one \o s) = Len(one) + Len(s)
    BY <1>1, ConcatProperties
  <2> QED
    BY <1>1, <2>1, <2>2
<1> HIDE DEF all
<1>3. all # <<>>
  BY <1>2, EmptySeq
<1> QED
  BY <1>1, <1>2, <1>3 DEF all, one

LEMMA ReplaceFacts ==
  ASSUME NEW A, NEW s \in Seq(A), s # <<>>, NEW c \in A
  PROVE  /\ <<c>> \o Tail(s) \in Seq(A) /\ <<c>> \o Tail(s) # <<>>
         /\ Len(s) \in Nat \ {0} /\ Len(<<c>> \o Tail(s)) = Len(s)
         /\ (<<c>> \o Tail(s))[1] = c
         /\ \A i \in 2 .. Len(s) : (<<c>> \o Tail(s))[i] = s[i]
<1> DEFINE rest == Tail(s)
           all == <<c>> \o rest
<1>1. /\ rest \in Seq(A) /\ Len(s) \in Nat \ {0} /\ Len(rest) = Len(s) - 1
      /\ \A i \in 1 .. Len(rest) : rest[i] = s[i + 1]
  BY HeadTailProperties, EmptySeq
<1> HIDE DEF rest
<1>2. /\ all \in Seq(A) /\ all # <<>> /\ Len(all) = Len(rest) + 1 /\ all[1] = c
      /\ \A i \in 2 .. (Len(rest) + 1) : all[i] = rest[i - 1]
  BY <1>1, PushFacts
<1> HIDE DEF all
<1>3. \A i \in 2 .. Len(s) : i - 1 \in 1 .. Len(rest) /\ (i - 1) + 1 = i /\ i \in 2 .. (Len(rest) + 1)
  BY <1>1
<1>4. \A i \in 2 .. Len(s) : all[i] = s[i]
  BY <1>1, <1>2, <1>3
<1> QED
  BY <1>1, <1>2, <1>4 DEF all, rest

\* The call at the top, which is the one that goes on.
LEMMA TopFacts ==
  ASSUME TtyTypeOK, stack # <<>>
  PROVE  /\ Top \in CallSet /\ Top = stack[1] /\ Len(stack) \in Nat \ {0}
         /\ DOMAIN stack = 1 .. Len(stack)
         /\ StackInv => CallText(Top) /\ CallKept(Top) /\ CallShown(Top)
<1>1. /\ Head(stack) \in CallSet /\ Head(stack) = stack[1]
      /\ Len(stack) \in Nat \ {0} /\ DOMAIN stack = 1 .. Len(stack)
  BY HeadTailProperties, EmptySeq, LenProperties DEF TtyTypeOK
<1>2. 1 \in DOMAIN stack
  BY <1>1
<1> QED
  BY <1>1, <1>2 DEF Top, StackInv

\* A call that goes on, if it is as it should be, leaves the others so.
LEMMA StackGoesOn ==
  ASSUME TtyTypeOK, StackInv, stack # <<>>, NEW c \in CallSet, Becomes(c),
         console' = console, CallText(c), CallKept(c), CallShown(c)
  PROVE  /\ stack' \in Seq(CallSet) /\ stack' # <<>> /\ Len(stack') = Len(stack)
         /\ stack'[1] = c /\ \A i \in 2 .. Len(stack) : stack'[i] = stack[i]
         /\ StackInv'
<1>1. /\ stack' \in Seq(CallSet) /\ stack' # <<>> /\ Len(stack') = Len(stack)
      /\ Len(stack) \in Nat \ {0}
      /\ stack'[1] = c /\ \A i \in 2 .. Len(stack) : stack'[i] = stack[i]
  BY ReplaceFacts DEF TtyTypeOK, Becomes
<1>2. DOMAIN stack' = 1 .. Len(stack) /\ DOMAIN stack = 1 .. Len(stack)
  BY <1>1, LenProperties DEF TtyTypeOK
<1>3. ASSUME NEW i \in DOMAIN stack'
      PROVE  CallText(stack'[i]) /\ CallKept(stack'[i]) /\ CallShown(stack'[i])
  <2>1. CASE i = 1
    BY <1>1, <2>1
  <2>2. CASE i \in 2 .. Len(stack)
    BY <1>1, <1>2, <2>2 DEF StackInv
  <2> QED
    BY <1>1, <1>2, <2>1, <2>2
<1>4. StackInv'
  BY <1>3 DEF StackInv, CallShown
<1> QED
  BY <1>1, <1>4

\* A call that starts, likewise.
LEMMA StackGrows ==
  ASSUME TtyTypeOK, StackInv, NEW c \in CallSet, stack' = <<c>> \o stack,
         console' = console, CallText(c), CallKept(c), CallShown(c)
  PROVE  /\ stack' \in Seq(CallSet) /\ stack' # <<>> /\ Len(stack') = Len(stack) + 1
         /\ stack'[1] = c /\ \A i \in 2 .. (Len(stack) + 1) : stack'[i] = stack[i - 1]
         /\ StackInv'
<1>1. /\ stack' \in Seq(CallSet) /\ stack' # <<>> /\ Len(stack') = Len(stack) + 1
      /\ Len(stack) \in Nat
      /\ stack'[1] = c /\ \A i \in 2 .. (Len(stack) + 1) : stack'[i] = stack[i - 1]
  BY PushFacts DEF TtyTypeOK
<1>2. DOMAIN stack' = 1 .. (Len(stack) + 1) /\ DOMAIN stack = 1 .. Len(stack)
  BY <1>1, LenProperties DEF TtyTypeOK
<1>3. ASSUME NEW i \in DOMAIN stack'
      PROVE  CallText(stack'[i]) /\ CallKept(stack'[i]) /\ CallShown(stack'[i])
  <2>1. CASE i = 1
    BY <1>1, <2>1
  <2>2. CASE i \in 2 .. (Len(stack) + 1)
    <3>1. i - 1 \in DOMAIN stack
      BY <1>1, <1>2, <2>2
    <3> QED
      BY <1>1, <2>2, <3>1 DEF StackInv
  <2> QED
    BY <1>1, <1>2, <2>1, <2>2
<1>4. StackInv'
  BY <1>3 DEF StackInv, CallShown
<1> QED
  BY <1>1, <1>4

\* Without nested writes, a write that goes on is the only call.
LEMMA WriteIsOuter ==
  ASSUME TtyTypeOK, LineInv, stack # <<>>, Top.at \notin Saying \cup {"done"}
  PROVE  Len(stack) = 1 /\ OuterOK(Top, eol, tail) /\ Stamped(tail)
<1>1. Top = stack[1] /\ Len(stack) \in Nat \ {0}
  BY TopFacts
<1>2. 1 \notin 1 .. (Len(stack) - 1)
  BY <1>1 DEF LineInv
<1>3. Len(stack) = 1
  <2> DEFINE n == Len(stack)
  <2>1. n \in Nat \ {0} /\ 1 \notin 1 .. (n - 1)
    BY <1>1, <1>2
  <2> HIDE DEF n
  <2>2. n = 1
    BY <2>1
  <2> QED
    BY <2>2 DEF n
<1> QED
  BY <1>1, <1>3 DEF LineInv

\* The line after a step of the only call.
LEMMA OuterGoesOn ==
  ASSUME NEW c, stack' # <<>>, Len(stack') = 1, stack'[1] = c,
         Stamped(tail'), OuterOK(c, eol', tail')
  PROVE  LineInv'
<1>1. \A i \in 1 .. (1 - 1) : FALSE
  OBVIOUS
<1> QED
  BY <1>1 DEF LineInv

\* The line after a step of a message's.
LEMMA SayingGoesOn ==
  ASSUME TtyTypeOK, LineInv, stack # <<>>, Top.at \in Saying,
         NEW c, c.at \in Saying \cup {"done"},
         stack' # <<>>, Len(stack') = Len(stack), stack'[1] = c,
         \A i \in 2 .. Len(stack) : stack'[i] = stack[i],
         eol' = eol, Stamped(tail'), \A ended : Ends(tail, ended) => Ends(tail', ended)
  PROVE  LineInv'
<1>1. Top = stack[1] /\ Len(stack) \in Nat \ {0}
  BY TopFacts
<1>2. ASSUME NEW i \in 1 .. (Len(stack) - 1)
      PROVE  stack'[i].at \in Saying \cup {"done"}
  <2>1. CASE i = 1
    BY <2>1
  <2>2. CASE i \in 2 .. Len(stack)
    BY <1>1, <2>2 DEF LineInv
  <2> QED
    BY <1>1, <2>1, <2>2
<1>3. \A call : OuterOK(call, eol, tail) => OuterOK(call, eol, tail')
  BY DEF OuterOK
<1>4. OuterOK(stack'[Len(stack)], eol, tail')
  <2>1. CASE Len(stack) = 1
    <3>1. Ends(tail, eol)
      BY <1>1, <2>1 DEF LineInv, OuterOK, Saying, Begun, Shown
    <3> QED
      BY <2>1, <3>1 DEF OuterOK, Saying, Begun, Shown
  <2>2. CASE Len(stack) # 1
    <3>1. Len(stack) \in 2 .. Len(stack)
      BY <1>1, <2>2
    <3> QED
      BY <1>3, <3>1 DEF LineInv
  <2> QED
    BY <2>1, <2>2
<1>5. /\ \A i \in 1 .. (Len(stack') - 1) : stack'[i].at \in Saying \cup {"done"}
      /\ OuterOK(stack'[Len(stack')], eol', tail')
  BY <1>2, <1>4
<1> QED
  BY <1>5 DEF LineInv

-----------------------------------------------------------------------------
(* The steps. *)

LEMMA LettersFacts ==
  /\ Seq(Chars) \subseteq Seq(Letters) /\ Seq(Said) \subseteq Seq(Letters)
  /\ Seq(Seq(Chars)) \subseteq Seq(Seq(Letters))
  /\ <<Stamp>> \in Seq(Letters) /\ Stamp \notin Said
  /\ \A c \in Chars : c \notin Said /\ c # Stamp
<1>1. Chars \subseteq Letters /\ Said \subseteq Letters /\ Stamp \in Letters
  BY DEF Letters
<1>2. Seq(Chars) \subseteq Seq(Letters) /\ Seq(Said) \subseteq Seq(Letters)
  BY <1>1, SeqMonotonic
<1>3. Seq(Seq(Chars)) \subseteq Seq(Seq(Letters))
  BY <1>2, SeqMonotonic
<1> QED
  BY <1>1, <1>2, <1>3, TtyAssumption

\* What is logged: the log keeps its type, its stamps and how it ends.
LEMMA AppendKeeps ==
  ASSUME TtyTypeOK, NEW text \in Seq(Letters), NEW from, log_append(text, from)
  PROVE  /\ tail' \in Seq(Letters)
         /\ \A ended : Stamped(tail \o text) /\ Ends(tail \o text, ended)
                         => Stamped(tail') /\ Ends(tail', ended)
<1>1. tail \o text \in Seq(Letters)
  BY ConcatProperties DEF TtyTypeOK
<1> QED
  BY <1>1, LastOfFacts, LastOfStamped DEF log_append

LEMMA InitIInv == Init => IInv
<1> SUFFICES ASSUME Init PROVE IInv
  OBVIOUS
<1>1. DOMAIN stack = {} /\ DOMAIN tail = {}
  BY DEF Init
<1>2. TtyTypeOK
  BY EmptySeq DEF Init, TtyTypeOK
<1>3. StackInv
  BY <1>1 DEF StackInv
<1>4. Stamped(tail) /\ Ends(tail, eol)
  BY <1>1 DEF Stamped, Ends
<1>5. \A i \in 1 .. (Len(stack) - 1) : FALSE
  BY DEF Init
<1>6. LineInv
  BY <1>4, <1>5 DEF LineInv, Init
<1> QED
  BY <1>2, <1>3, <1>6 DEF IInv

LEMMA WritevStep ==
  ASSUME IInv, NEW w \in Writes, writev(w)
  PROVE  IInv'
<1> DEFINE c == Call("line", w)
<1>1. /\ TtyTypeOK /\ StackInv /\ (~nested => LineInv)
      /\ stack' = <<c>> \o stack /\ nested' = (nested \/ stack # <<>>)
      /\ eol' = eol /\ console' = console /\ prefix' = prefix /\ tail' = tail
  BY DEF IInv, writev
<1>2. /\ w \in Seq(Seq(Chars)) /\ w # <<>> /\ Head(w) \in Seq(Chars)
      /\ Tail(w) \in Seq(Seq(Chars)) /\ FlattenSeq(Tail(w)) \in Seq(Chars)
      /\ FlattenSeq(w) = Head(w) \o FlattenSeq(Tail(w)) /\ FlattenSeq(w) \in Seq(Chars)
  BY TtyAssumption, HeadTailProperties, FlattenHead, FlattenType
<1>3. /\ c.at = "line" /\ c.head = Head(w) /\ c.vec = Tail(w)
      /\ c.whole = FlattenSeq(w) /\ c.logged = <<>> /\ c.shown = <<>>
      /\ c.seen = console
  BY DEF Call
<1>4. c \in CallSet
  BY <1>1, <1>2, LettersFacts, EmptySeq DEF Call, CallSet, Ats, TtyTypeOK
<1> HIDE DEF c
<1>5. CallText(c)
  BY <1>2, <1>3 DEF CallText, Saying
<1>6. CallKept(c)
  BY <1>2, <1>3, ConcatEmptySeq DEF CallKept
<1>7. CallShown(c)
  BY <1>3 DEF CallShown, ShownOf, Shown
<1>8. /\ stack' \in Seq(CallSet) /\ stack' # <<>> /\ Len(stack') = Len(stack) + 1
      /\ stack'[1] = c /\ StackInv'
  BY <1>1, <1>4, <1>5, <1>6, <1>7, StackGrows
<1>9. TtyTypeOK'
  BY <1>1, <1>8 DEF TtyTypeOK
<1>10. ASSUME ~nested' PROVE LineInv'
  <2>1. stack = <<>> /\ LineInv
    BY <1>1, <1>10
  <2>2. Len(stack') = 1
    BY <1>8, <2>1
  <2>3. Stamped(tail') /\ OuterOK(c, eol', tail')
    BY <1>1, <1>3, <2>1 DEF LineInv, OuterOK, Begun, Shown
  <2> QED
    BY <1>8, <2>2, <2>3, OuterGoesOn
<1> QED
  BY <1>8, <1>9, <1>10 DEF IInv

LEMMA LogMsgStep ==
  ASSUME IInv, NEW msg \in Messages, log_msg(msg)
  PROVE  IInv'
<1> DEFINE c == Call("say", <<msg>>)
<1>1. /\ TtyTypeOK /\ StackInv /\ (~nested => LineInv)
      /\ stack' = <<c>> \o stack /\ nested' = nested
      /\ eol' = eol /\ console' = console /\ prefix' = prefix /\ tail' = tail
  BY DEF IInv, log_msg
<1>2. msg \in Seq(Said) /\ FlattenSeq(<<msg>>) = msg
  BY TtyAssumption, FlattenOne
<1>3. /\ c.at = "say" /\ c.head = msg /\ c.vec = <<>>
      /\ c.whole = msg /\ c.logged = <<>> /\ c.shown = <<>>
      /\ c.seen = console
  BY <1>2 DEF Call
<1>4. c \in CallSet
  <2>1. msg \in Seq(Letters) /\ <<>> \in Seq(Letters) /\ <<>> \in Seq(Seq(Letters))
    BY <1>2, LettersFacts, EmptySeq
  <2>2. c = [at |-> "say", head |-> msg, vec |-> <<>>, whole |-> msg,
             logged |-> <<>>, shown |-> <<>>, seen |-> console]
    BY <1>2 DEF Call
  <2> HIDE DEF c
  <2> QED
    BY <1>1, <2>1, <2>2 DEF CallSet, Ats, TtyTypeOK
<1> HIDE DEF c
<1>5. CallText(c)
  BY <1>2, <1>3 DEF CallText, Saying
<1>6. CallKept(c)
  BY <1>2, <1>3, ConcatEmptySeq, FlattenUnfolds DEF CallKept
<1>7. CallShown(c)
  BY <1>3 DEF CallShown, ShownOf, Shown
<1>8. /\ stack' \in Seq(CallSet) /\ stack' # <<>> /\ Len(stack') = Len(stack) + 1
      /\ stack'[1] = c /\ \A i \in 2 .. (Len(stack) + 1) : stack'[i] = stack[i - 1]
      /\ StackInv'
  BY <1>1, <1>4, <1>5, <1>6, <1>7, StackGrows
<1>9. TtyTypeOK'
  BY <1>1, <1>8 DEF TtyTypeOK
<1>10. ASSUME ~nested' PROVE LineInv'
  <2> DEFINE n == Len(stack)
  <2>1. LineInv /\ n \in Nat
    BY <1>1, <1>10, LenProperties DEF TtyTypeOK
  <2>2. \A i \in 1 .. n : stack'[i].at \in Saying \cup {"done"}
    <3> TAKE i \in 1 .. n
    <3>1. CASE i = 1
      BY <1>3, <1>8, <3>1 DEF Saying
    <3>2. CASE i # 1
      <4>1. i \in 2 .. (n + 1) /\ i - 1 \in 1 .. (n - 1)
        BY <2>1, <3>2
      <4> QED
        BY <1>8, <2>1, <4>1 DEF LineInv
    <3> QED
      BY <3>1, <3>2
  <2>3. OuterOK(stack'[n + 1], eol, tail)
    <3>1. CASE stack = <<>>
      <4>1. n = 0 /\ Ends(tail, eol)
        BY <2>1, <3>1 DEF LineInv
      <4>2. OuterOK(c, eol, tail)
        BY <1>3, <4>1 DEF OuterOK, Begun, Shown
      <4>3. n + 1 = 1
        BY <4>1
      <4> HIDE DEF n
      <4> QED
        BY <1>8, <4>2, <4>3
    <3>2. CASE stack # <<>>
      <4>1. n + 1 \in 2 .. (n + 1) /\ (n + 1) - 1 = n
        BY <1>1, <2>1, <3>2, EmptySeq DEF TtyTypeOK
      <4>2. stack'[n + 1] = stack[n]
        BY <1>8, <4>1
      <4> QED
        BY <2>1, <3>2, <4>2 DEF LineInv
    <3> QED
      BY <3>1, <3>2
  <2>4. Len(stack') = n + 1 /\ (n + 1) - 1 = n
    BY <1>8, <2>1
  <2> HIDE DEF n
  <2>5. Stamped(tail)
    BY <2>1 DEF LineInv
  <2> QED
    BY <1>1, <1>8, <2>2, <2>3, <2>4, <2>5 DEF LineInv
<1> QED
  BY <1>8, <1>9, <1>10 DEF IInv

\* The console comes and goes; a call that goes on without has not shown all.
LEMMA ConsoleStep ==
  ASSUME IInv, console_register \/ console_deregister \/ set_prefix
  PROVE  IInv'
<1>1. TtyTypeOK /\ StackInv /\ (~nested => LineInv)
  BY DEF IInv
<1>2. CASE console_register \/ set_prefix
  <2>1. /\ console' \in BOOLEAN /\ prefix' \in BOOLEAN /\ (console => console')
        /\ eol' = eol /\ stack' = stack /\ tail' = tail /\ nested' = nested
    BY <1>1, <1>2 DEF console_register, set_prefix, TtyTypeOK
  <2>2. TtyTypeOK'
    BY <1>1, <2>1 DEF TtyTypeOK
  <2>3. StackInv'
    BY <1>1, <2>1 DEF StackInv, CallShown
  <2>4. LineInv => LineInv'
    BY <2>1 DEF LineInv
  <2> QED
    BY <1>1, <2>1, <2>2, <2>3, <2>4 DEF IInv
<1>3. CASE console_deregister
  <2>1. /\ console' = FALSE /\ stack' = Unseen(stack)
        /\ eol' = eol /\ prefix' = prefix /\ tail' = tail /\ nested' = nested
    BY <1>3 DEF console_deregister
  <2>2. /\ stack \in [1 .. Len(stack) -> CallSet] /\ Len(stack) \in Nat
        /\ DOMAIN stack = 1 .. Len(stack)
    BY <1>1, LenProperties DEF TtyTypeOK
  <2>3. ASSUME NEW i \in DOMAIN stack
        PROVE  /\ stack'[i] \in CallSet /\ ~stack'[i].seen
               /\ stack'[i].at = stack[i].at /\ stack'[i].head = stack[i].head
               /\ stack'[i].vec = stack[i].vec /\ stack'[i].whole = stack[i].whole
               /\ stack'[i].logged = stack[i].logged
    <3>1. stack[i] \in CallSet /\ stack'[i] = [stack[i] EXCEPT !.seen = FALSE]
      BY <2>1, <2>2 DEF Unseen
    <3> QED
      BY <3>1 DEF CallSet
  <2>4. stack' = [i \in 1 .. Len(stack) |-> stack'[i]]
    BY <2>1, <2>2 DEF Unseen
  <2>5. stack' \in [1 .. Len(stack) -> CallSet]
    BY <2>2, <2>3, <2>4
  <2>6. stack' \in Seq(CallSet) /\ Len(stack') = Len(stack)
        /\ DOMAIN stack' = 1 .. Len(stack)
    BY <2>2, <2>5
  <2>7. TtyTypeOK'
    BY <1>1, <2>1, <2>6 DEF TtyTypeOK
  <2>8. StackInv'
    BY <1>1, <2>2, <2>3, <2>6 DEF StackInv, CallText, CallKept, CallShown
  <2>9. stack = <<>> <=> stack' = <<>>
    BY <1>1, <2>6, EmptySeq DEF TtyTypeOK
  <2>10. ASSUME LineInv PROVE LineInv'
    <3>1. \A i \in 1 .. (Len(stack) - 1) : stack'[i].at \in Saying \cup {"done"}
      <4>1. \A i \in 1 .. (Len(stack) - 1) : i \in DOMAIN stack
        BY <2>2
      <4> QED
        BY <2>3, <2>10, <4>1 DEF LineInv
    <3>2. ASSUME stack # <<>> PROVE OuterOK(stack'[Len(stack)], eol, tail)
      <4>1. Len(stack) \in DOMAIN stack
        BY <1>1, <2>2, <3>2, EmptySeq DEF TtyTypeOK
      <4>2. OuterOK(stack[Len(stack)], eol, tail)
        BY <2>10, <3>2 DEF LineInv
      <4> QED
        BY <2>3, <4>1, <4>2 DEF OuterOK
    <3>3. Stamped(tail) /\ (stack = <<>> => Ends(tail, eol))
      BY <2>10 DEF LineInv
    <3> QED
      BY <2>1, <2>6, <2>9, <3>1, <3>2, <3>3 DEF LineInv
  <2> QED
    BY <1>1, <2>1, <2>7, <2>8, <2>10 DEF IInv
<1> QED
  BY <1>2, <1>3

\* The console returns to a write or to a message.
LEMMA ReturnStep ==
  ASSUME IInv, console_returns
  PROVE  IInv'
<1> DEFINE at == CASE Top.at = "prefix" -> "begun"
                   [] Top.at = "text" -> "log"
                   [] Top.at = "message" -> "log message"
           c == [Top EXCEPT !.at = at]
<1>1. /\ TtyTypeOK /\ StackInv /\ (~nested => LineInv)
      /\ stack # <<>> /\ Top.at \in Callbacks /\ Becomes(c) /\ nested' = nested
      /\ eol' = eol /\ console' = console /\ prefix' = prefix /\ tail' = tail
  BY DEF IInv, console_returns
<1>2. Top \in CallSet /\ CallText(Top) /\ CallKept(Top) /\ CallShown(Top)
  BY <1>1, TopFacts
<1>3. \/ Top.at = "prefix" /\ at = "begun"
      \/ Top.at = "text" /\ at = "log"
      \/ Top.at = "message" /\ at = "log message"
  BY <1>1 DEF Callbacks
<1> HIDE DEF at
<1>4. /\ c \in CallSet /\ c.at = at /\ c.head = Top.head /\ c.vec = Top.vec
      /\ c.whole = Top.whole /\ c.logged = Top.logged /\ c.shown = Top.shown
      /\ c.seen = Top.seen
  BY <1>2, <1>3 DEF CallSet, Ats
<1> HIDE DEF c
<1>5. CallText(c) /\ CallKept(c) /\ CallShown(c)
  BY <1>2, <1>3, <1>4 DEF CallText, CallKept, CallShown, ShownOf, Saying, Shown
<1>6. /\ stack' \in Seq(CallSet) /\ stack' # <<>> /\ Len(stack') = Len(stack)
      /\ stack'[1] = c /\ \A i \in 2 .. Len(stack) : stack'[i] = stack[i]
      /\ StackInv'
  BY <1>1, <1>4, <1>5, StackGoesOn
<1>7. TtyTypeOK'
  BY <1>1, <1>6 DEF TtyTypeOK
<1>8. ASSUME ~nested' PROVE LineInv'
  <2>1. LineInv
    BY <1>1, <1>8
  <2>2. CASE Top.at = "message"
    <3>1. Stamped(tail)
      BY <2>1 DEF LineInv
    <3>2. Top.at \in Saying /\ c.at \in Saying \cup {"done"}
      BY <1>3, <1>4, <2>2 DEF Saying
    <3> QED
      BY <1>1, <1>6, <2>1, <3>1, <3>2, SayingGoesOn
  <2>3. CASE Top.at # "message"
    <3>1. Top.at \notin Saying \cup {"done"}
      BY <1>3, <2>3 DEF Saying
    <3>2. Len(stack) = 1 /\ OuterOK(Top, eol, tail) /\ Stamped(tail)
      BY <1>1, <2>1, <3>1, WriteIsOuter
    <3>3. OuterOK(c, eol, tail)
      BY <1>3, <1>4, <2>3, <3>2 DEF OuterOK, Begun, Shown
    <3> QED
      BY <1>1, <1>6, <3>2, <3>3, OuterGoesOn
  <2> QED
    BY <2>2, <2>3
<1> QED
  BY <1>6, <1>7, <1>8 DEF IInv

LEMMA SameShown ==
  ASSUME NEW call \in CallSet, NEW at
  PROVE  [call EXCEPT !.at = at, !.shown = call.shown] = [call EXCEPT !.at = at]
  BY DEF CallSet

\* The steps before a piece: a line begins or goes on, the text is shown.
LEMMA BeforePieceStep ==
  ASSUME IInv, begin_line \/ go_on_line \/ begun \/ put
  PROVE  IInv'
<1> DEFINE at ==
             CASE Top.at = "line" /\ eol -> IF console /\ prefix THEN "prefix" ELSE "begun"
               [] Top.at = "line" /\ ~eol -> "put"
               [] Top.at = "begun" -> "put"
               [] Top.at = "put" -> IF console THEN "text" ELSE "log"
           shown == IF Top.at = "put" /\ console THEN Top.shown \o Piece(Top.head)
                    ELSE Top.shown
           c == [Top EXCEPT !.at = at, !.shown = shown]
<1>1. /\ TtyTypeOK /\ StackInv /\ (~nested => LineInv) /\ stack # <<>>
      /\ nested' = nested /\ console' = console /\ prefix' = prefix
      /\ Top.at \in {"line", "begun", "put"} /\ eol \in BOOLEAN /\ console \in BOOLEAN
  BY DEF IInv, TtyTypeOK, begin_line, go_on_line, begun, put
<1>2. Top \in CallSet /\ CallText(Top) /\ CallKept(Top) /\ CallShown(Top)
  BY <1>1, TopFacts
<1>3. /\ Top.head \in Seq(Chars) /\ Top.shown \in Seq(Letters) /\ Top.logged \in Seq(Letters)
      /\ Top.seen \in BOOLEAN
      /\ Piece(Top.head) \in Seq(Letters)
  BY <1>1, <1>2, PieceFacts, LettersFacts DEF CallText, Saying, CallSet
<1>4. shown \in Seq(Letters)
  BY <1>3, ConcatProperties
<1>5. /\ Top.at = "line" /\ eol => at \in Begun
      /\ Top.at = "line" /\ ~eol => at = "put"
      /\ Top.at = "begun" => at = "put"
      /\ Top.at = "put" => at \in Shown
      /\ Top.at \in {"line", "begun"} => shown = Top.shown
      /\ Top.at = "put" /\ console => shown = Top.shown \o Piece(Top.head)
  BY <1>1 DEF Begun, Shown
<1>6. c = [Top EXCEPT !.at = at, !.shown = shown] /\ Becomes(c)
  <2>1. CASE begin_line
    <3>1. Top.at = "line" /\ eol /\ at = (IF console /\ prefix THEN "prefix" ELSE "begun")
      BY <2>1 DEF begin_line, IsNewLine
    <3>2. Becomes([Top EXCEPT !.at = at]) /\ shown = Top.shown
      BY <2>1, <3>1 DEF begin_line
    <3> QED
      BY <1>2, <3>2, SameShown
  <2>2. CASE go_on_line
    <3>1. Top.at = "line" /\ ~eol /\ at = "put"
      BY <1>1, <2>2 DEF go_on_line, IsNewLine
    <3>2. Becomes([Top EXCEPT !.at = at]) /\ shown = Top.shown
      BY <2>2, <3>1 DEF go_on_line
    <3> QED
      BY <1>2, <3>2, SameShown
  <2>3. CASE begun
    <3>1. Top.at = "begun" /\ at = "put"
      BY <1>1, <2>3 DEF begun
    <3>2. Becomes([Top EXCEPT !.at = at]) /\ shown = Top.shown
      BY <2>3, <3>1 DEF begun
    <3> QED
      BY <1>2, <3>2, SameShown
  <2>4. CASE put
    <3>1. Top.at = "put" /\ at = (IF console THEN "text" ELSE "log")
      BY <1>1, <2>4 DEF put
    <3>2. shown = Top.shown \o (IF console THEN Piece(Top.head) ELSE <<>>)
      BY <1>3, <3>1, ConcatEmptySeq
    <3> QED
      BY <2>4, <3>1, <3>2 DEF put
  <2> QED
    BY <2>1, <2>2, <2>3, <2>4
<1> HIDE DEF at, shown
<1>7. /\ c \in CallSet /\ c.at = at /\ c.head = Top.head /\ c.vec = Top.vec
      /\ c.whole = Top.whole /\ c.logged = Top.logged /\ c.shown = shown
      /\ c.seen = Top.seen /\ at \notin Saying \cup {"done"}
  BY <1>1, <1>2, <1>4, <1>5 DEF CallSet, Ats, Begun, Shown, Saying
<1> HIDE DEF c
<1>8. CallText(c) /\ CallKept(c)
  BY <1>1, <1>2, <1>7 DEF CallText, CallKept, Saying
<1>9. CallShown(c)
  <2> SUFFICES ASSUME Top.seen PROVE console /\ shown = ShownOf(c)
    BY <1>7 DEF CallShown
  <2>1. console /\ Top.shown = Top.logged
    BY <1>1, <1>2 DEF CallShown, ShownOf, Shown
  <2> QED
    BY <1>1, <1>5, <1>7, <2>1 DEF ShownOf, Begun, Shown
<1>10. /\ stack' \in Seq(CallSet) /\ stack' # <<>> /\ Len(stack') = Len(stack)
       /\ stack'[1] = c /\ StackInv'
  BY <1>1, <1>6, <1>7, <1>8, <1>9, StackGoesOn
<1>11. tail' \in Seq(Letters) /\ eol' \in BOOLEAN
  BY <1>1, AppendKeeps, LettersFacts
     DEF begin_line, go_on_line, begun, put, TtyTypeOK
<1>12. TtyTypeOK'
  BY <1>1, <1>10, <1>11 DEF TtyTypeOK
<1>13. ASSUME ~nested' PROVE LineInv'
  <2>1. Len(stack) = 1 /\ OuterOK(Top, eol, tail) /\ Stamped(tail)
    BY <1>1, <1>13, WriteIsOuter DEF Saying
  <2>2. CASE begin_line
    <3>1. Top.at = "line" /\ eol = TRUE /\ eol' = eol /\ log_append(<<Stamp>>, <<NoCall>>)
      BY <1>1, <2>2 DEF begin_line, IsNewLine
    <3>2. Ends(tail, TRUE)
      BY <2>1, <3>1 DEF OuterOK, Begun, Shown
    <3>3. Stamped(tail \o <<Stamp>>) /\ Ends(tail \o <<Stamp>>, Stamp = NL)
      BY <1>1, <2>1, <3>2, LettersFacts, AppendChar DEF TtyTypeOK, Letters
    <3>4. (Stamp = NL) = FALSE
      BY DEF Stamp, NL
    <3>5. Stamped(tail') /\ Ends(tail', FALSE)
      BY <1>1, <3>1, <3>3, <3>4, AppendKeeps, LettersFacts
    <3>6. OuterOK(c, eol', tail')
      BY <1>5, <1>7, <3>1, <3>5 DEF OuterOK, Begun, Shown
    <3> QED
      BY <1>10, <2>1, <3>5, <3>6, OuterGoesOn
  <2>3. CASE go_on_line
    <3>1. Top.at = "line" /\ eol = FALSE /\ eol' = eol /\ tail' = tail
      BY <1>1, <2>3 DEF go_on_line, IsNewLine
    <3>2. Ends(tail, FALSE)
      BY <2>1, <3>1 DEF OuterOK, Begun, Shown
    <3>3. OuterOK(c, eol', tail')
      BY <1>5, <1>7, <3>1, <3>2 DEF OuterOK, Begun, Shown
    <3> QED
      BY <1>10, <2>1, <3>1, <3>3, OuterGoesOn
  <2>4. CASE begun
    <3>1. Top.at = "begun" /\ eol' = FALSE /\ tail' = tail
      BY <2>4 DEF begun
    <3>2. Ends(tail, FALSE)
      BY <2>1, <3>1 DEF OuterOK, Begun, Shown
    <3>3. OuterOK(c, eol', tail')
      BY <1>5, <1>7, <3>1, <3>2 DEF OuterOK, Begun, Shown
    <3> QED
      BY <1>10, <2>1, <3>1, <3>3, OuterGoesOn
  <2>5. CASE put
    <3>1. /\ Top.at = "put" /\ tail' = tail
          /\ eol' = (eol \/ NL \in ToSet(Top.head))
      BY <2>5 DEF put
    <3>2. ~eol /\ Ends(tail, FALSE)
      BY <2>1, <3>1 DEF OuterOK, Begun, Shown
    <3>3. eol' <=> NL \in ToSet(c.head)
      BY <1>7, <3>1, <3>2
    <3>4. OuterOK(c, eol', tail')
      BY <1>5, <1>7, <3>1, <3>2, <3>3 DEF OuterOK, Begun, Shown
    <3> QED
      BY <1>10, <2>1, <3>1, <3>4, OuterGoesOn
  <2> QED
    BY <2>2, <2>3, <2>4, <2>5
<1> QED
  BY <1>10, <1>12, <1>13 DEF IInv

LEMMA TextsAssociate ==
  \A s, t, u \in Seq(Letters) : (s \o t) \o u = s \o (t \o u)
<1> TAKE s, t, u \in Seq(Letters)
<1> QED
  BY ONLY s \in Seq(Letters), t \in Seq(Letters), u \in Seq(Letters), ConcatAssociative

\* What is left after a piece, with the piece logged, is still the call's text.
LEMMA AfterKeeps ==
  ASSUME NEW call \in CallSet, call.at = "log", CallText(call), CallKept(call),
         NEW c, c = After([call EXCEPT !.logged = call.logged \o Piece(call.head)])
  PROVE  /\ c \in CallSet /\ CallText(c) /\ CallKept(c) /\ c.at \in {"line", "done"}
         /\ c.logged = call.logged \o Piece(call.head)
         /\ c.shown = call.shown /\ c.seen = call.seen
<1> DEFINE head == call.head
           vec == call.vec
           piece == Piece(head)
           rest == Rest(head)
           logged == call.logged \o piece
           now == [call EXCEPT !.logged = logged]
<1>1. /\ head \in Seq(Chars) /\ vec \in Seq(Seq(Chars)) /\ call.logged \in Seq(Letters)
      /\ call.logged \o head \o FlattenSeq(vec) = call.whole
  BY DEF CallText, CallKept, CallSet, Saying
<1>2. /\ piece \in Seq(Chars) /\ rest \in Seq(Chars) /\ piece \o rest = head
  BY <1>1, PieceFacts
<1>3. logged \in Seq(Letters)
  BY <1>1, <1>2, LettersFacts, ConcatProperties
<1> HIDE DEF logged
<1>4. /\ now \in CallSet /\ now.head = head /\ now.vec = vec /\ now.whole = call.whole
      /\ now.logged = logged /\ now.shown = call.shown /\ now.seen = call.seen
  BY <1>3 DEF CallSet
<1>5. c = After(now)
  BY DEF logged
<1> HIDE DEF now
<1>6. CASE rest # <<>>
  <2>1. c = [now EXCEPT !.at = "line", !.head = rest]
    BY <1>4, <1>5, <1>6 DEF After
  <2>2. /\ c \in CallSet /\ c.at = "line" /\ c.head = rest /\ c.vec = vec
        /\ c.whole = call.whole /\ c.logged = logged
        /\ c.shown = call.shown /\ c.seen = call.seen
    BY <1>2, <1>4, <2>1, LettersFacts DEF CallSet, Ats
  <2>3. logged \o rest = call.logged \o head
    <3>1. call.logged \in Seq(Letters) /\ piece \in Seq(Letters) /\ rest \in Seq(Letters)
      BY <1>1, <1>2, LettersFacts
    <3>2. (call.logged \o piece) \o rest = call.logged \o (piece \o rest)
      BY ONLY <3>1, TextsAssociate
    <3> QED
      BY <1>2, <3>2 DEF logged
  <2>4. CallKept(c)
    BY <1>1, <2>2, <2>3 DEF CallKept
  <2>5. CallText(c)
    BY <1>1, <1>2, <2>2 DEF CallText, Saying
  <2> QED
    BY <2>2, <2>4, <2>5 DEF logged
<1>7. CASE rest = <<>> /\ vec # <<>>
  <2>1. c = [now EXCEPT !.at = "line", !.head = Head(vec), !.vec = Tail(vec)]
    BY <1>4, <1>5, <1>7 DEF After
  <2>2. /\ Head(vec) \in Seq(Chars) /\ Tail(vec) \in Seq(Seq(Chars))
        /\ FlattenSeq(Tail(vec)) \in Seq(Chars)
        /\ FlattenSeq(vec) = Head(vec) \o FlattenSeq(Tail(vec))
    BY <1>1, <1>7, HeadTailProperties, FlattenHead
  <2>3. /\ c \in CallSet /\ c.at = "line" /\ c.head = Head(vec) /\ c.vec = Tail(vec)
        /\ c.whole = call.whole /\ c.logged = logged
        /\ c.shown = call.shown /\ c.seen = call.seen
    BY <1>4, <2>1, <2>2, LettersFacts DEF CallSet, Ats
  <2>4. piece = head
    BY <1>2, <1>7, ConcatEmptySeq
  <2>5. (logged \o Head(vec)) \o FlattenSeq(Tail(vec)) = logged \o FlattenSeq(vec)
    <3>1. Head(vec) \in Seq(Letters) /\ FlattenSeq(Tail(vec)) \in Seq(Letters)
      BY <2>2, LettersFacts
    <3>2. (logged \o Head(vec)) \o FlattenSeq(Tail(vec)) =
            logged \o (Head(vec) \o FlattenSeq(Tail(vec)))
      BY ONLY <1>3, <3>1, TextsAssociate
    <3> QED
      BY <2>2, <3>2
  <2>6. CallKept(c)
    BY <1>1, <2>3, <2>4, <2>5 DEF CallKept, logged
  <2>7. CallText(c)
    BY <2>2, <2>3 DEF CallText, Saying
  <2> QED
    BY <2>3, <2>6, <2>7 DEF logged
<1>8. CASE rest = <<>> /\ vec = <<>>
  <2>1. c = [now EXCEPT !.at = "done", !.head = <<>>]
    BY <1>4, <1>5, <1>8 DEF After
  <2>2. /\ c \in CallSet /\ c.at = "done" /\ c.head = <<>> /\ c.vec = vec
        /\ c.whole = call.whole /\ c.logged = logged
        /\ c.shown = call.shown /\ c.seen = call.seen
    BY <1>4, <2>1, EmptySeq DEF CallSet, Ats
  <2>3. piece = head /\ logged \o <<>> = logged
    BY <1>2, <1>3, <1>8, ConcatEmptySeq
  <2>4. CallKept(c)
    BY <1>1, <2>2, <2>3 DEF CallKept, logged
  <2>5. CallText(c)
    BY <1>1, <1>8, <2>2, EmptySeq DEF CallText, Saying
  <2> QED
    BY <2>2, <2>4, <2>5 DEF logged
<1> QED
  BY <1>6, <1>7, <1>8

LEMMA PieceStep ==
  ASSUME IInv, log_piece
  PROVE  IInv'
<1> DEFINE piece == Piece(Top.head)
           c == After([Top EXCEPT !.logged = Top.logged \o piece])
<1>1. /\ TtyTypeOK /\ StackInv /\ (~nested => LineInv) /\ stack # <<>>
      /\ nested' = nested /\ console' = console /\ prefix' = prefix /\ eol' = eol
      /\ Top.at = "log" /\ log_append(piece, OfTop(piece)) /\ Becomes(c)
  BY DEF IInv, log_piece
<1>2. Top \in CallSet /\ CallText(Top) /\ CallKept(Top) /\ CallShown(Top)
  BY <1>1, TopFacts
<1>3. Top.head \in Seq(Chars) /\ piece \in Seq(Chars) /\ piece \in Seq(Letters)
  BY <1>1, <1>2, PieceFacts, LettersFacts DEF CallText, Saying
<1>4. /\ c \in CallSet /\ CallText(c) /\ CallKept(c) /\ c.at \in {"line", "done"}
      /\ c.logged = Top.logged \o piece /\ c.shown = Top.shown /\ c.seen = Top.seen
  BY <1>1, <1>2, AfterKeeps
<1> HIDE DEF c
<1>5. CallShown(c)
  BY <1>1, <1>2, <1>4 DEF CallShown, ShownOf, Shown
<1>6. /\ stack' \in Seq(CallSet) /\ stack' # <<>> /\ Len(stack') = Len(stack)
      /\ stack'[1] = c /\ StackInv'
  BY <1>1, <1>4, <1>5, StackGoesOn
<1>7. TtyTypeOK'
  BY <1>1, <1>3, <1>6, AppendKeeps DEF TtyTypeOK
<1>8. ASSUME ~nested' PROVE LineInv'
  <2>1. Len(stack) = 1 /\ OuterOK(Top, eol, tail) /\ Stamped(tail)
    BY <1>1, <1>8, WriteIsOuter DEF Saying
  <2>2. (eol <=> NL \in ToSet(Top.head)) /\ Ends(tail, FALSE)
    BY <1>1, <2>1 DEF OuterOK, Shown
  <2>3. /\ \A i \in 1 .. (Len(piece) - 1) : piece[i] # NL
        /\ IF piece = <<>> THEN ~eol ELSE piece[Len(piece)] = NL <=> eol
    BY <1>3, <2>2, PieceFacts
  <2>4. \A i \in DOMAIN piece : piece[i] \notin Said /\ piece[i] # Stamp
    BY <1>3, LettersFacts, ElementOfSeq, LenProperties
  <2> HIDE DEF piece
  <2>5. Stamped(tail \o piece) /\ Ends(tail \o piece, eol)
    BY <1>1, <1>3, <2>1, <2>2, <2>3, <2>4, AppendPiece DEF TtyTypeOK
  <2>6. Stamped(tail') /\ Ends(tail', eol)
    BY <1>1, <1>3, <2>5, AppendKeeps
  <2>7. OuterOK(c, eol', tail')
    BY <1>1, <1>4, <2>6 DEF OuterOK, Begun, Shown
  <2> QED
    BY <1>6, <2>1, <2>6, <2>7, OuterGoesOn
<1> QED
  BY <1>6, <1>7, <1>8 DEF IInv

LEMMA SayStep ==
  ASSUME IInv, say
  PROVE  IInv'
<1> DEFINE at == IF console THEN "message" ELSE "log message"
           shown == IF console THEN Top.head ELSE <<>>
           c == [Top EXCEPT !.at = at, !.shown = shown]
<1>1. /\ TtyTypeOK /\ StackInv /\ (~nested => LineInv) /\ stack # <<>>
      /\ nested' = nested /\ console' = console /\ prefix' = prefix /\ eol' = eol
      /\ tail' = tail /\ Top.at = "say" /\ Becomes(c)
  BY DEF IInv, say
<1>2. Top \in CallSet /\ CallText(Top) /\ CallKept(Top) /\ CallShown(Top)
  BY <1>1, TopFacts
<1>3. Top.head \in Seq(Letters) /\ shown \in Seq(Letters)
  BY <1>2, EmptySeq DEF CallSet
<1>4. at \in {"message", "log message"} /\ (console => shown = Top.head)
  OBVIOUS
<1> HIDE DEF at, shown
<1>5. /\ c \in CallSet /\ c.at = at /\ c.head = Top.head /\ c.vec = Top.vec
      /\ c.whole = Top.whole /\ c.logged = Top.logged /\ c.shown = shown
      /\ c.seen = Top.seen
  BY <1>2, <1>3, <1>4 DEF CallSet, Ats
<1> HIDE DEF c
<1>6. CallText(c) /\ CallKept(c) /\ CallShown(c)
  BY <1>1, <1>2, <1>4, <1>5 DEF CallText, CallKept, CallShown, ShownOf, Saying, Shown
<1>7. /\ stack' \in Seq(CallSet) /\ stack' # <<>> /\ Len(stack') = Len(stack)
      /\ stack'[1] = c /\ \A i \in 2 .. Len(stack) : stack'[i] = stack[i]
      /\ StackInv'
  BY <1>1, <1>5, <1>6, StackGoesOn
<1>8. TtyTypeOK'
  BY <1>1, <1>7 DEF TtyTypeOK
<1>9. ASSUME ~nested' PROVE LineInv'
  <2>1. LineInv /\ Stamped(tail')
    BY <1>1, <1>9 DEF LineInv
  <2>2. Top.at \in Saying /\ c.at \in Saying \cup {"done"}
    BY <1>1, <1>4, <1>5 DEF Saying
  <2> QED
    BY <1>1, <1>7, <2>1, <2>2, SayingGoesOn
<1> QED
  BY <1>7, <1>8, <1>9 DEF IInv

LEMMA MessageStep ==
  ASSUME IInv, log_message
  PROVE  IInv'
<1> DEFINE msg == Top.head
           c == [Top EXCEPT !.at = "done", !.head = <<>>, !.logged = msg]
<1>1. /\ TtyTypeOK /\ StackInv /\ (~nested => LineInv) /\ stack # <<>>
      /\ nested' = nested /\ console' = console /\ prefix' = prefix /\ eol' = eol
      /\ Top.at = "log message" /\ log_append(msg, OfTop(msg)) /\ Becomes(c)
  BY DEF IInv, log_message
<1>2. Top \in CallSet /\ CallText(Top) /\ CallKept(Top) /\ CallShown(Top)
  BY <1>1, TopFacts
<1>3. /\ msg \in Seq(Said) /\ msg \in Seq(Letters)
      /\ Top.vec = <<>> /\ Top.logged = <<>>
  BY <1>1, <1>2, LettersFacts DEF CallText, Saying
<1>4. /\ c \in CallSet /\ c.at = "done" /\ c.head = <<>> /\ c.vec = Top.vec
      /\ c.whole = Top.whole /\ c.logged = msg /\ c.shown = Top.shown
      /\ c.seen = Top.seen
  BY <1>2, <1>3, EmptySeq DEF CallSet, Ats
<1>5. CallText(c)
  BY <1>3, <1>4, EmptySeq DEF CallText, Saying
<1>6. CallKept(c)
  BY <1>2, <1>3, <1>4, ConcatEmptySeq DEF CallKept
<1>7. CallShown(c)
  BY <1>1, <1>2, <1>4 DEF CallShown, ShownOf, Shown
<1> HIDE DEF c
<1>8. /\ stack' \in Seq(CallSet) /\ stack' # <<>> /\ Len(stack') = Len(stack)
      /\ stack'[1] = c /\ \A i \in 2 .. Len(stack) : stack'[i] = stack[i]
      /\ StackInv'
  BY <1>1, <1>4, <1>5, <1>6, <1>7, StackGoesOn
<1>9. TtyTypeOK'
  BY <1>1, <1>3, <1>8, AppendKeeps DEF TtyTypeOK
<1>10. ASSUME ~nested' PROVE LineInv'
  <2>1. LineInv /\ Stamped(tail)
    BY <1>1, <1>10 DEF LineInv
  <2>2. \A i \in DOMAIN msg : msg[i] \in Said
    BY <1>3, ElementOfSeq, LenProperties
  <2>3. ASSUME NEW ended, Ends(tail, ended) PROVE Stamped(tail') /\ Ends(tail', ended)
    <3>1. Stamped(tail \o msg) /\ Ends(tail \o msg, ended)
      BY <1>1, <1>3, <2>1, <2>2, <2>3, AppendSaid DEF TtyTypeOK
    <3> QED
      BY <1>1, <1>3, <3>1, AppendKeeps
  <2>4. Top.at \in Saying /\ c.at \in Saying \cup {"done"}
    BY <1>1, <1>4 DEF Saying
  <2>5. Stamped(tail')
    <3>1. Ends(tail, FALSE) \/ Ends(tail, eol)
      BY <2>1 DEF LineInv, OuterOK
    <3> QED
      BY <2>3, <3>1
  <2> QED
    BY <1>1, <1>8, <2>1, <2>3, <2>4, <2>5, SayingGoesOn
<1> QED
  BY <1>8, <1>9, <1>10 DEF IInv

LEMMA ReturnsStep ==
  ASSUME IInv, returns
  PROVE  IInv'
<1> DEFINE n == Len(stack)
<1>1. /\ TtyTypeOK /\ StackInv /\ (~nested => LineInv) /\ stack # <<>>
      /\ nested' = nested /\ console' = console /\ prefix' = prefix /\ eol' = eol
      /\ tail' = tail /\ Top.at = "done" /\ stack' = Tail(stack)
  BY DEF IInv, returns
<1>2. Top = stack[1] /\ n \in Nat \ {0} /\ DOMAIN stack = 1 .. n
  BY <1>1, TopFacts
<1>3. /\ stack' \in Seq(CallSet) /\ Len(stack') = n - 1
      /\ \A i \in 1 .. (n - 1) : stack'[i] = stack[i + 1]
  BY <1>1, HeadTailProperties DEF TtyTypeOK
<1>4. DOMAIN stack' = 1 .. (n - 1)
  BY <1>3, LenProperties
<1>5. stack' = <<>> <=> n = 1
  BY <1>2, <1>3, EmptySeq
<1> HIDE DEF n
<1>6. TtyTypeOK'
  BY <1>1, <1>3 DEF TtyTypeOK
<1>7. StackInv'
  <2>1. \A i \in DOMAIN stack' : i + 1 \in DOMAIN stack /\ stack'[i] = stack[i + 1]
    BY <1>2, <1>3, <1>4
  <2> QED
    BY <1>1, <2>1 DEF StackInv, CallShown
<1>8. ASSUME ~nested' PROVE LineInv'
  <2>1. LineInv
    BY <1>1, <1>8
  <2>2. \A i \in 1 .. ((n - 1) - 1) : stack'[i].at \in Saying \cup {"done"}
    <3>1. \A i \in 1 .. ((n - 1) - 1) : i \in 1 .. (n - 1) /\ i + 1 \in 1 .. (n - 1)
      BY <1>2
    <3> QED
      BY <1>3, <2>1, <3>1 DEF LineInv, n
  <2>3. CASE n = 1
    <3>1. Ends(tail, eol)
      BY <1>1, <1>2, <2>1, <2>3 DEF LineInv, OuterOK, Begun, Shown, n
    <3> QED
      BY <1>1, <1>3, <1>5, <2>1, <2>2, <2>3, <3>1 DEF LineInv
  <2>4. CASE n # 1
    <3>1. n - 1 \in 1 .. (n - 1) /\ (n - 1) + 1 = n
      BY <1>2, <2>4
    <3>2. stack'[n - 1] = stack[n]
      BY <1>3, <3>1
    <3>3. OuterOK(stack[n], eol, tail)
      BY <1>1, <2>1 DEF LineInv, n
    <3> QED
      BY <1>1, <1>3, <1>5, <2>1, <2>2, <2>4, <3>2, <3>3 DEF LineInv
  <2> QED
    BY <2>3, <2>4
<1> QED
  BY <1>6, <1>7, <1>8 DEF IInv

LEMMA NextIInv == IInv /\ [Next]_vars => IInv'
<1> SUFFICES ASSUME IInv, [Next]_vars PROVE IInv'
  OBVIOUS
<1>1. CASE \E w \in Writes : writev(w)
  BY <1>1, WritevStep
<1>2. CASE \E msg \in Messages : log_msg(msg)
  BY <1>2, LogMsgStep
<1>3. CASE console_register \/ console_deregister \/ set_prefix
  BY <1>3, ConsoleStep
<1>4. CASE console_returns
  BY <1>4, ReturnStep
<1>5. CASE begin_line \/ go_on_line \/ begun \/ put
  BY <1>5, BeforePieceStep
<1>6. CASE log_piece
  BY <1>6, PieceStep
<1>7. CASE say
  BY <1>7, SayStep
<1>8. CASE log_message
  BY <1>8, MessageStep
<1>9. CASE returns
  BY <1>9, ReturnsStep
<1>10. CASE UNCHANGED vars
  <2>1. /\ eol' = eol /\ console' = console /\ prefix' = prefix
        /\ stack' = stack /\ tail' = tail /\ nested' = nested
    BY <1>10 DEF vars
  <2>2. TtyTypeOK' /\ StackInv'
    BY <2>1 DEF IInv, TtyTypeOK, StackInv, CallShown
  <2>3. LineInv => LineInv'
    BY <2>1 DEF LineInv
  <2> QED
    BY <2>1, <2>2, <2>3 DEF IInv
<1> QED
  BY <1>1, <1>2, <1>3, <1>4, <1>5, <1>6, <1>7, <1>8, <1>9, <1>10 DEF Next, Runtime

LEMMA SpecIInv == Spec => []IInv
  BY InitIInv, NextIInv, PTL DEF Spec

-----------------------------------------------------------------------------
(* What the log has of the calls in progress. *)

Tags == Nat \X Nat

\* LogHas, of a log and a history that are given.
Has(log, tags, d, text) ==
  LET mine == {k \in DOMAIN log : tags[k][1] = d}
  IN  /\ \A k \in mine : tags[k][2] \in DOMAIN text /\ log[k] = text[tags[k][2]]
      /\ \A k, l \in mine : k < l => tags[k][2] < tags[l][2]
      /\ \A n \in DOMAIN text :
           \/ \E k \in mine : tags[k][2] = n
           \/ Len(log) = Room /\ \A k \in mine : n < tags[k][2]

\* The history is of the same length as the log, which has no more than there is
\* room for, and is of calls in progress, or of none.
ByOK ==
  /\ by \in Seq(Tags) /\ Len(by) = Len(tail) /\ Len(tail) <= Room
  /\ \A k \in DOMAIN by : by[k][1] <= Len(stack)

LogInv ==
  /\ ByOK
  /\ \A i \in DOMAIN stack : Has(tail, by, Len(stack) - i + 1, stack[i].logged)

\* Characters appended to the log: those of the call are the next of its text,
\* or none, and all its text then has; the others are of other calls.
NextOf(d, from, new, len, text) ==
  /\ \A k \in DOMAIN from :
       from[k][1] = d => /\ from[k][2] = len + k /\ len + k \in DOMAIN text
                         /\ new[k] = text[len + k]
  /\ \A n \in DOMAIN text : n > len => n - len \in DOMAIN from /\ from[n - len][1] = d

LEMMA AppendHas ==
  ASSUME NEW A, NEW log \in Seq(A), NEW tags \in Seq(Tags),
         Len(tags) = Len(log), Len(log) <= Room,
         NEW new \in Seq(A), NEW from \in Seq(Tags), Len(from) = Len(new),
         NEW d, NEW old \in Seq(A), NEW text \in Seq(A),
         Len(old) <= Len(text), \A n \in DOMAIN old : text[n] = old[n],
         Has(log, tags, d, old), NextOf(d, from, new, Len(old), text)
  PROVE  Has(Kept!LastOf(Room, log \o new), Kept!LastOf(Room, tags \o from), d, text)
<1> DEFINE all == log \o new
           alltags == tags \o from
           n == Len(log)
           m == Len(new)
           s == Dropped(n + m)
           len == Len(old)
           last == Kept!LastOf(Room, all)
           lasttags == Kept!LastOf(Room, alltags)
           mine == {k \in DOMAIN last : lasttags[k][1] = d}
           was == {k \in DOMAIN log : tags[k][1] = d}
<1>1. /\ n \in Nat /\ m \in Nat /\ DOMAIN log = 1 .. n /\ DOMAIN from = 1 .. m
      /\ all \in Seq(A) /\ Len(all) = n + m
      /\ \A i \in 1 .. n : all[i] = log[i]
      /\ \A i \in (n + 1) .. (n + m) : all[i] = new[i - n]
  BY ConcatAt, ConcatProperties, LenProperties
<1>2. /\ alltags \in Seq(Tags) /\ Len(alltags) = n + m
      /\ \A i \in 1 .. n : alltags[i] = tags[i]
      /\ \A i \in (n + 1) .. (n + m) : alltags[i] = from[i - n]
  <2>1. /\ alltags \in Seq(Tags) /\ Len(alltags) = Len(tags) + Len(from)
        /\ \A i \in 1 .. Len(tags) : alltags[i] = tags[i]
        /\ \A i \in (Len(tags) + 1) .. (Len(tags) + Len(from)) :
             alltags[i] = from[i - Len(tags)]
    <3>1. tags \in Seq(Tags) /\ from \in Seq(Tags)
      OBVIOUS
    <3> QED
      BY ONLY <3>1, ConcatAt, ConcatProperties
  <2>2. Len(tags) = n /\ Len(from) = m
    OBVIOUS
  <2> HIDE DEF n, m, alltags
  <2> QED
    BY <2>1, <2>2
<1>3. /\ len \in Nat /\ DOMAIN old = 1 .. len
      /\ Len(text) \in Nat /\ DOMAIN text = 1 .. Len(text)
  BY LenProperties
<1>4. /\ s \in 0 .. (n + m) /\ Room \in Nat /\ (s > 0 => (n + m) - s = Room)
      /\ (n = Room => (n + m) - s = Room)
  BY <1>1, TtyAssumption DEF Dropped
<1>5. /\ last \in Seq(A) /\ Len(last) = (n + m) - s
      /\ \A i \in 1 .. ((n + m) - s) : last[i] = all[i + s]
  <2>1. /\ last \in Seq(A) /\ Len(last) = Len(all) - Dropped(Len(all))
        /\ \A i \in 1 .. (Len(all) - Dropped(Len(all))) :
             last[i] = all[i + Dropped(Len(all))]
    BY <1>1, LastOfDrops
  <2>2. Len(all) = n + m
    BY <1>1
  <2>3. Dropped(Len(all)) = s
    BY <2>2
  <2> HIDE DEF all, last, n, m, s
  <2> QED
    BY ONLY <2>1, <2>2, <2>3
<1>6. \A i \in 1 .. ((n + m) - s) : lasttags[i] = alltags[i + s]
  <2>1. \A i \in 1 .. (Len(alltags) - Dropped(Len(alltags))) :
             lasttags[i] = alltags[i + Dropped(Len(alltags))]
    BY <1>2, LastOfDrops
  <2>2. Len(alltags) = n + m
    BY <1>2
  <2>3. Dropped(Len(alltags)) = s
    BY <2>2
  <2> HIDE DEF alltags, lasttags, n, m, s
  <2> QED
    BY ONLY <2>1, <2>2, <2>3
<1>7. DOMAIN last = 1 .. ((n + m) - s)
  BY <1>5, LenProperties
<1>8. \A i \in 1 .. n : tags[i][1] \in Nat /\ tags[i][2] \in Nat
  <2>1. \A i \in 1 .. n : tags[i] \in Tags
    BY ElementOfSeq
  <2> QED
    BY <2>1 DEF Tags
<1>9. /\ \A k \in was : tags[k][2] \in 1 .. len /\ log[k] = old[tags[k][2]]
      /\ \A k, l \in was : k < l => tags[k][2] < tags[l][2]
      /\ \A p \in 1 .. len : \/ \E k \in was : tags[k][2] = p
                             \/ n = Room /\ \A k \in was : p < tags[k][2]
  BY <1>3 DEF Has
<1>10. /\ \A k \in 1 .. m :
            from[k][1] = d => /\ from[k][2] = len + k /\ len + k \in DOMAIN text
                              /\ new[k] = text[len + k]
       /\ \A p \in DOMAIN text : p > len => p - len \in 1 .. m /\ from[p - len][1] = d
  BY <1>1 DEF NextOf
<1> HIDE DEF all, alltags, n, m, s, len, last, lasttags
<1>a. n \in Nat /\ m \in Nat /\ s \in Nat /\ s <= n + m
  BY <1>1, <1>4
<1>b. /\ \A k \in 1 .. ((n + m) - s) : k + s > n => /\ k + s \in (n + 1) .. (n + m)
                                                /\ (k + s) - n \in 1 .. m
      /\ \A j \in 1 .. m : n + j > s => /\ (n + j) - s \in 1 .. ((n + m) - s)
                                       /\ ((n + j) - s) + s = n + j
      /\ \A j \in 1 .. m : n + j \in (n + 1) .. (n + m) /\ (n + j) - n = j
  BY <1>a
\* Where a character of the call was: among the old, or among the new.
<1>11. ASSUME NEW k \in mine
       PROVE  /\ k \in 1 .. ((n + m) - s)
              /\ \/ /\ k + s \in was /\ k + s <= n
                    /\ lasttags[k] = tags[k + s] /\ last[k] = log[k + s]
                 \/ /\ k + s > n /\ (k + s) - n \in 1 .. m /\ from[(k + s) - n][1] = d
                    /\ lasttags[k] = from[(k + s) - n] /\ last[k] = new[(k + s) - n]
                    /\ lasttags[k][2] = len + ((k + s) - n)
  <2>1. /\ k \in 1 .. ((n + m) - s) /\ lasttags[k][1] = d
        /\ lasttags[k] = alltags[k + s] /\ last[k] = all[k + s]
    BY <1>5, <1>6, <1>7
  <2>2. CASE k + s <= n
    <3>1. k + s \in 1 .. n
      BY <1>1, <1>4, <2>1, <2>2
    <3> QED
      BY <1>1, <1>2, <2>1, <2>2, <3>1
  <2>3. CASE k + s > n
    <3>1. k + s \in (n + 1) .. (n + m) /\ (k + s) - n \in 1 .. m
      BY <1>b, <2>1, <2>3
    <3>2. lasttags[k] = from[(k + s) - n] /\ last[k] = new[(k + s) - n]
      BY <1>1, <1>2, <2>1, <3>1
    <3>3. from[(k + s) - n][1] = d
      BY <2>1, <3>2
    <3>4. from[(k + s) - n][2] = len + ((k + s) - n)
      BY <1>10, <3>1, <3>3
    <3> QED
      BY <2>1, <2>3, <3>1, <3>2, <3>3, <3>4
  <2> QED
    BY <1>1, <1>4, <2>1, <2>2, <2>3
\* And where it is now, unless it was dropped.
<1>12. ASSUME NEW j \in was PROVE j \in 1 .. n /\ (j > s => j - s \in mine /\ lasttags[j - s] = tags[j])
  <2>1. j \in 1 .. n
    BY <1>1
  <2>2. ASSUME j > s PROVE j - s \in 1 .. ((n + m) - s) /\ (j - s) + s = j
    BY <1>1, <1>4, <2>1, <2>2
  <2> QED
    BY <1>2, <1>6, <1>7, <2>1, <2>2
<1>13. ASSUME NEW j \in 1 .. m, from[j][1] = d
       PROVE  n + j > s => (n + j) - s \in mine /\ lasttags[(n + j) - s][2] = len + j
  <2> SUFFICES ASSUME n + j > s
               PROVE  (n + j) - s \in mine /\ lasttags[(n + j) - s][2] = len + j
    OBVIOUS
  <2>1. (n + j) - s \in 1 .. ((n + m) - s) /\ ((n + j) - s) + s = n + j
    BY <1>b
  <2>2. n + j \in (n + 1) .. (n + m) /\ (n + j) - n = j
    BY <1>b
  <2>3. lasttags[(n + j) - s] = alltags[n + j]
    BY <1>6, <2>1
  <2>4. alltags[n + j] = from[j]
    BY <1>2, <2>2
  <2>5. from[j][2] = len + j
    BY <1>10, <1>13
  <2> QED
    BY <1>7, <1>13, <2>1, <2>3, <2>4, <2>5
<1>14. \A k \in was : tags[k][2] \in Nat
  BY <1>1, <1>8
<1> HIDE DEF mine, was
<1>15. ASSUME NEW k \in mine
       PROVE  lasttags[k][2] \in DOMAIN text /\ last[k] = text[lasttags[k][2]]
  <2>1. CASE k + s \in was /\ lasttags[k] = tags[k + s] /\ last[k] = log[k + s]
    <3>1. tags[k + s][2] \in 1 .. len /\ log[k + s] = old[tags[k + s][2]]
      BY <1>9, <2>1
    <3>2. text[tags[k + s][2]] = old[tags[k + s][2]]
      BY <1>3, <3>1
    <3>3. tags[k + s][2] \in 1 .. Len(text)
      BY <1>3, <3>1 DEF len
    <3> QED
      BY <1>3, <2>1, <3>1, <3>2, <3>3
  <2>2. CASE /\ (k + s) - n \in 1 .. m /\ from[(k + s) - n][1] = d
             /\ lasttags[k] = from[(k + s) - n] /\ last[k] = new[(k + s) - n]
    BY <1>10, <2>2
  <2> QED
    BY <1>11, <2>1, <2>2
<1>16. ASSUME NEW k \in mine, NEW l \in mine, k < l
       PROVE  lasttags[k][2] < lasttags[l][2]
  <2>1. /\ k \in Nat /\ l \in Nat /\ k + s < l + s
    BY <1>1, <1>4, <1>11, <1>16
  <2>2. CASE k + s \in was /\ l + s \in was /\ lasttags[k] = tags[k + s] /\ lasttags[l] = tags[l + s]
    BY <1>9, <2>1, <2>2
  <2>3. CASE /\ k + s \in was /\ lasttags[k] = tags[k + s]
             /\ (l + s) - n \in 1 .. m /\ lasttags[l][2] = len + ((l + s) - n)
    <3>1. tags[k + s][2] \in 1 .. len
      BY <1>9, <2>3
    <3>2. \A a \in 1 .. len, b \in 1 .. m : a < len + b
      BY <1>1, <1>3
    <3> QED
      BY <2>3, <3>1, <3>2
  <2>4. CASE /\ lasttags[k][2] = len + ((k + s) - n) /\ lasttags[l][2] = len + ((l + s) - n)
    BY <1>1, <1>3, <1>4, <2>1, <2>4
  <2>5. ~(k + s > n /\ l + s <= n)
    BY <1>1, <1>4, <2>1
  <2> QED
    BY <1>11, <2>2, <2>3, <2>4, <2>5
\* A character dropped is one before all those that are left.
<1>17. ASSUME NEW p \in DOMAIN text
       PROVE  \/ \E k \in mine : lasttags[k][2] = p
              \/ Len(last) = Room /\ \A k \in mine : p < lasttags[k][2]
  <2>1. p \in 1 .. Len(text)
    BY <1>3
  <2>2. ASSUME NEW k \in mine, p <= len, k + s > n PROVE p < lasttags[k][2]
    <3>1. k \in Nat /\ (k + s <= n \/ lasttags[k][2] = len + ((k + s) - n))
      BY <1>1, <1>4, <1>11
    <3> QED
      BY <1>1, <1>3, <1>4, <2>1, <2>2, <3>1
  <2>3. CASE p > len
    <3>1. PICK j \in 1 .. m : j = p - len /\ from[j][1] = d
      BY <1>10, <2>3
    <3>2. CASE n + j > s
      <4>1. (n + j) - s \in mine /\ lasttags[(n + j) - s][2] = len + j
        BY <1>13, <3>1, <3>2
      <4>2. len + j = p
        BY <1>3, <2>1, <3>1
      <4> QED
        BY <4>1, <4>2
    <3>3. CASE ~(n + j > s)
      <4>1. s > 0 /\ Len(last) = Room
        BY <1>1, <1>4, <1>5, <3>1, <3>3
      <4>2. ASSUME NEW k \in mine PROVE p < lasttags[k][2]
        <5>1. k \in Nat /\ k > 0 /\ k + s > n /\ lasttags[k][2] = len + ((k + s) - n)
          <6>1. k \in Nat /\ k > 0
            BY <1>1, <1>4, <1>11
          <6>2. k + s > n
            BY <1>1, <1>4, <3>1, <3>3, <6>1
          <6> QED
            BY <1>1, <1>4, <1>11, <6>1, <6>2
        <5>2. p = len + j /\ j < (k + s) - n
          BY <1>3, <1>a, <2>1, <3>1, <3>3, <5>1
        <5> QED
          BY <1>3, <1>a, <5>1, <5>2
      <4> QED
        BY <4>1, <4>2
    <3> QED
      BY <3>2, <3>3
  <2>4. CASE p <= len
    <3>1. p \in 1 .. len
      BY <1>3, <2>1, <2>4
    <3>2. ASSUME NEW j \in was, tags[j][2] = p
          PROVE  \/ \E k \in mine : lasttags[k][2] = p
                 \/ Len(last) = Room /\ \A k \in mine : p < lasttags[k][2]
      <4>1. CASE j > s
        BY <1>12, <3>2, <4>1
      <4>2. CASE ~(j > s)
        <5>1. j \in 1 .. n
          BY <1>12
        <5>2. s > 0 /\ Len(last) = Room
          BY <1>1, <1>4, <1>5, <4>2, <5>1
        <5>3. ASSUME NEW k \in mine PROVE p < lasttags[k][2]
          <6>1. k \in Nat /\ k > 0 /\ j < k + s
            BY <1>1, <1>4, <1>11, <4>2, <5>1
          <6>2. CASE k + s \in was /\ lasttags[k] = tags[k + s]
            BY <1>9, <3>2, <6>1, <6>2
          <6> QED
            BY <1>11, <2>2, <2>4, <6>2
        <5> QED
          BY <5>2, <5>3
      <4> QED
        BY <4>1, <4>2
    <3>3. ASSUME n = Room, \A k \in was : p < tags[k][2]
          PROVE  Len(last) = Room /\ \A k \in mine : p < lasttags[k][2]
      <4>1. Len(last) = Room
        BY <1>4, <1>5, <3>3
      <4>2. ASSUME NEW k \in mine PROVE p < lasttags[k][2]
        <5>1. CASE k + s \in was /\ lasttags[k] = tags[k + s]
          BY <3>3, <5>1
        <5> QED
          BY <1>11, <2>2, <2>4, <5>1
      <4> QED
        BY <4>1, <4>2
    <3> QED
      BY <1>9, <3>1, <3>2, <3>3
  <2> QED
    BY <1>3, <2>1, <2>3, <2>4
<1>18. Has(last, lasttags, d, text)
  BY <1>15, <1>16, <1>17 DEF Has, mine
<1> QED
  BY <1>18 DEF last, lasttags, all, alltags

LEMMA DepthFacts ==
  ASSUME TtyTypeOK, NEW i \in DOMAIN stack
  PROVE  /\ Len(stack) \in Nat /\ i \in 1 .. Len(stack)
         /\ (Len(stack) - i) + 1 \in 1 .. Len(stack)
         /\ stack[i] \in CallSet /\ stack[i].logged \in Seq(Letters)
<1>1. Len(stack) \in Nat /\ i \in 1 .. Len(stack) /\ stack[i] \in CallSet
  BY LenProperties, ElementOfSeq DEF TtyTypeOK
<1> QED
  BY <1>1 DEF CallSet

\* A call that goes on takes the place of the one at the top.
LEMMA BecomesFacts ==
  ASSUME TtyTypeOK, stack # <<>>, NEW c, Becomes(c)
  PROVE  /\ Len(stack') = Len(stack) /\ Len(stack) \in Nat \ {0}
         /\ stack'[1] = c /\ \A i \in 2 .. Len(stack) : stack'[i] = stack[i]
<1>1. stack \in Seq(CallSet \cup {c}) /\ c \in CallSet \cup {c}
  BY SeqMonotonic DEF TtyTypeOK
<1> QED
  BY <1>1, ReplaceFacts DEF Becomes

LEMMA TopDepth ==
  ASSUME TtyTypeOK, stack # <<>>, LogInv
  PROVE  Has(tail, by, Len(stack), Top.logged)
<1>1. Top = stack[1] /\ Len(stack) \in Nat \ {0} /\ 1 \in DOMAIN stack
  BY TopFacts
<1>2. (Len(stack) - 1) + 1 = Len(stack)
  BY <1>1
<1> QED
  BY <1>1, <1>2 DEF LogInv

\* Nothing is logged, and no call starts or returns.
LEMMA NothingLogged ==
  ASSUME TtyTypeOK, LogInv, stack' \in Seq(CallSet), Len(stack') = Len(stack),
         \A i \in DOMAIN stack : stack'[i].logged = stack[i].logged,
         tail' = tail, by' = by
  PROVE  LogInv'
<1>1. DOMAIN stack' = DOMAIN stack
  BY LenProperties DEF TtyTypeOK
<1>2. ByOK'
  BY DEF LogInv, ByOK
<1>3. \A i \in DOMAIN stack' : Has(tail', by', Len(stack') - i + 1, stack'[i].logged)
  BY <1>1 DEF LogInv
<1> QED
  BY <1>2, <1>3 DEF LogInv

\* A call starts, with nothing logged.
LEMMA CallStarts ==
  ASSUME TtyTypeOK, LogInv, NEW c \in CallSet, c.logged = <<>>,
         stack' = <<c>> \o stack, tail' = tail, by' = by
  PROVE  LogInv'
<1> DEFINE n == Len(stack)
<1>1. /\ n \in Nat /\ Len(stack') = n + 1 /\ stack' \in Seq(CallSet) /\ stack'[1] = c
      /\ \A i \in 2 .. (n + 1) : stack'[i] = stack[i - 1]
  BY PushFacts DEF TtyTypeOK
<1>2. DOMAIN stack' = 1 .. (n + 1) /\ DOMAIN stack = 1 .. n
  BY <1>1, LenProperties DEF TtyTypeOK
<1>3. \A k \in DOMAIN by : by[k] \in Tags
  BY ElementOfSeq, LenProperties DEF LogInv, ByOK
<1>4. \A k \in DOMAIN by : by[k][1] \in Nat /\ by[k][1] <= n
  BY <1>3 DEF LogInv, ByOK, Tags
<1>5. DOMAIN by = DOMAIN tail
  BY LenProperties DEF LogInv, ByOK, TtyTypeOK
<1>6. \A i \in DOMAIN stack : Has(tail, by, (n - i) + 1, stack[i].logged)
  BY DEF LogInv
<1> HIDE DEF n
<1>7. \A k \in DOMAIN by : by[k][1] # n + 1
  BY <1>1, <1>4
<1>8. ByOK'
  <2>1. \A k \in DOMAIN by : by[k][1] <= n + 1
    BY <1>1, <1>4
  <2> QED
    BY <1>1, <2>1 DEF LogInv, ByOK
<1>9. ASSUME NEW i \in DOMAIN stack'
      PROVE  Has(tail', by', ((n + 1) - i) + 1, stack'[i].logged)
  <2>1. CASE i = 1
    <3>1. ((n + 1) - i) + 1 = n + 1
      BY <1>1, <2>1
    <3>2. Has(tail, by, n + 1, <<>>)
      BY <1>5, <1>7 DEF Has
    <3> QED
      BY <1>1, <2>1, <3>1, <3>2
  <2>2. CASE i # 1
    <3>1. /\ i \in 2 .. (n + 1) /\ i - 1 \in DOMAIN stack
          /\ ((n + 1) - i) + 1 = (n - (i - 1)) + 1
      BY <1>1, <1>2, <2>2
    <3> QED
      BY <1>1, <1>6, <3>1
  <2> QED
    BY <2>1, <2>2
<1> QED
  BY <1>1, <1>8, <1>9 DEF LogInv

\* The call at the top logs the next characters of its text, or a time stamp.
LEMMA TopLogs ==
  ASSUME TtyTypeOK, LogInv, stack # <<>>, stack' \in Seq(CallSet), NEW c, Becomes(c),
         NEW text \in Seq(Letters), NEW from \in Seq(Tags), Len(from) = Len(text),
         log_append(text, from),
         \/ from = OfTop(text) /\ c.logged = Top.logged \o text
         \/ (\A k \in DOMAIN from : from[k] = NoCall) /\ c.logged = Top.logged
  PROVE  LogInv'
<1> DEFINE n == Len(stack)
<1>1. /\ Len(stack') = n /\ n \in Nat \ {0} /\ DOMAIN stack = 1 .. n
      /\ stack'[1] = c /\ \A i \in 2 .. n : stack'[i] = stack[i]
  BY BecomesFacts, TopFacts
<1>2. DOMAIN stack' = 1 .. n
  BY <1>1, LenProperties
<1>3. Top = stack[1] /\ Top \in CallSet /\ Top.logged \in Seq(Letters)
  BY TopFacts DEF CallSet
<1>4. c.logged \in Seq(Letters)
  BY <1>3, ConcatProperties
<1>5. /\ tail \in Seq(Letters) /\ by \in Seq(Tags) /\ Len(by) = Len(tail) /\ Len(tail) <= Room
      /\ \A k \in DOMAIN by : by[k][1] <= n
      /\ \A i \in DOMAIN stack : Has(tail, by, n - i + 1, stack[i].logged)
  BY DEF LogInv, ByOK, TtyTypeOK
<1>6. /\ tail' = Kept!LastOf(Room, tail \o text) /\ by' = Kept!LastOf(Room, by \o from)
  BY DEF log_append
\* Whose the characters appended are.
<1>7. \A k \in DOMAIN from : from[k][1] \in {0, n}
  <2>1. CASE from = OfTop(text)
    BY <2>1 DEF OfTop
  <2>2. CASE \A k \in DOMAIN from : from[k] = NoCall
    BY <2>2 DEF NoCall
  <2> QED
    BY <2>1, <2>2
<1> HIDE DEF n
<1>8. ByOK'
  <2>1. /\ tail \o text \in Seq(Letters) /\ by \o from \in Seq(Tags)
        /\ Len(tail \o text) = Len(tail) + Len(text)
        /\ Len(by \o from) = Len(by) + Len(from)
    BY <1>5, ConcatProperties
  <2>2. Len(tail \o text) = Len(by \o from)
    BY <1>5, <2>1
  <2> DEFINE len == Len(by \o from)
             s == Dropped(len)
  <2>3. /\ len \in Nat /\ s \in 0 .. len /\ by' \in Seq(Tags) /\ Len(by') = len - s
        /\ \A k \in 1 .. (len - s) : by'[k] = (by \o from)[k + s]
    BY <1>6, <2>1, LastOfDrops
  <2>4. Len(tail') = len - s
    BY <1>6, <2>1, <2>2, LastOfDrops
  <2>5. /\ Len(by) \in Nat /\ Len(from) \in Nat
        /\ DOMAIN by = 1 .. Len(by) /\ DOMAIN from = 1 .. Len(from)
        /\ len = Len(by) + Len(from)
        /\ \A k \in 1 .. Len(by) : (by \o from)[k] = by[k]
        /\ \A k \in (Len(by) + 1) .. (Len(by) + Len(from)) : (by \o from)[k] = from[k - Len(by)]
    BY <1>5, <2>1, ConcatAt, LenProperties
  <2>6. \A k \in 1 .. len : (by \o from)[k][1] <= n
    <3> SUFFICES ASSUME NEW k \in 1 .. len PROVE (by \o from)[k][1] <= n
      OBVIOUS
    <3>1. CASE k \in 1 .. Len(by)
      BY <1>5, <2>5, <3>1
    <3>2. CASE k \notin 1 .. Len(by)
      <4> HIDE DEF len
      <4>1. k \in (Len(by) + 1) .. (Len(by) + Len(from)) /\ k - Len(by) \in 1 .. Len(from)
        BY <2>3, <2>5, <3>2
      <4>2. (by \o from)[k][1] \in {0, n}
        BY <1>7, <2>5, <4>1
      <4>3. \A v \in {0, n} : v <= n
        BY <1>1
      <4> QED
        BY <4>2, <4>3
    <3> QED
      BY <3>1, <3>2
  <2>7. len - s <= Room
    BY <2>3, TtyAssumption DEF Dropped
  <2> HIDE DEF len, s
  <2>8. DOMAIN by' = 1 .. (len - s)
    BY <2>3, LenProperties
  <2>9. \A k \in 1 .. (len - s) : k + s \in 1 .. len
    BY <2>3
  <2>10. \A k \in DOMAIN by' : by'[k][1] <= n
    BY <2>3, <2>6, <2>8, <2>9
  <2> QED
    BY <1>1, <2>3, <2>4, <2>7, <2>10 DEF ByOK
\* The call itself.
<1>9. Has(tail', by', n, c.logged)
  <2>1. Has(tail, by, n, Top.logged)
    BY TopDepth DEF n
  <2>2. /\ Len(Top.logged) \in Nat /\ Len(text) \in Nat
        /\ DOMAIN Top.logged = 1 .. Len(Top.logged)
        /\ DOMAIN from = 1 .. Len(text)
    BY <1>3, LenProperties
  <2>3. CASE from = OfTop(text) /\ c.logged = Top.logged \o text
    <3> DEFINE old == Top.logged
               len == Len(old)
               m == Len(text)
    <3>1. /\ DOMAIN c.logged = 1 .. (len + m) /\ Len(c.logged) = len + m
          /\ \A p \in 1 .. len : c.logged[p] = old[p]
          /\ \A p \in (len + 1) .. (len + m) : c.logged[p] = text[p - len]
      BY <1>3, <2>3, ConcatAt, ConcatProperties
    <3>2. \A k \in 1 .. m : from[k] = <<n, len + k>>
      BY <2>2, <2>3, LenProperties DEF OfTop, n
    <3>3. len \in Nat /\ m \in Nat
      BY <2>2
    <3>4. DOMAIN from = 1 .. m /\ DOMAIN old = 1 .. len
      BY <2>2
    <3> HIDE DEF old, len, m
    <3>5. /\ len <= Len(c.logged)
          /\ \A k \in 1 .. m : len + k \in (len + 1) .. (len + m) /\ (len + k) - len = k
                               /\ len + k \in 1 .. (len + m)
          /\ \A p \in 1 .. (len + m) : p > len => p - len \in 1 .. m
      BY <3>1, <3>3
    <3>6. NextOf(n, from, text, len, c.logged)
      BY <3>1, <3>2, <3>4, <3>5 DEF NextOf
    <3>7. \A p \in DOMAIN old : c.logged[p] = old[p]
      BY <3>1, <3>4
    <3> QED
      BY <1>3, <1>4, <1>5, <1>6, <2>1, <3>5, <3>6, <3>7, AppendHas DEF old, len
  <2>4. CASE (\A k \in DOMAIN from : from[k] = NoCall) /\ c.logged = Top.logged
    <3>1. \A k \in DOMAIN from : from[k][1] # n
      BY <1>1, <2>4 DEF NoCall
    <3>2. \A p \in DOMAIN Top.logged : ~(p > Len(Top.logged))
      BY <2>2
    <3>3. NextOf(n, from, text, Len(Top.logged), Top.logged)
      BY <3>1, <3>2 DEF NextOf
    <3>4. Len(Top.logged) <= Len(Top.logged)
      BY <2>2
    <3> QED
      BY <1>3, <1>5, <1>6, <2>1, <2>4, <3>3, <3>4, AppendHas
  <2> QED
    BY <2>3, <2>4
\* The calls it is in the middle of.
<1>10. ASSUME NEW i \in 2 .. n PROVE Has(tail', by', n - i + 1, stack[i].logged)
  <2> DEFINE old == stack[i].logged
             d == n - i + 1
  <2>1. i \in DOMAIN stack /\ d \in 1 .. n /\ d # n /\ d # 0
    BY <1>1
  <2>2. old \in Seq(Letters) /\ Has(tail, by, d, old)
    BY <1>5, <2>1, DepthFacts
  <2>3. Len(old) \in Nat /\ DOMAIN old = 1 .. Len(old)
    BY <2>2, LenProperties
  <2> HIDE DEF old, d
  <2>4. NextOf(d, from, text, Len(old), old)
    BY <1>7, <2>1, <2>3 DEF NextOf
  <2>5. Len(old) <= Len(old)
    BY <2>3
  <2>6. Has(tail', by', d, old)
    BY <1>5, <1>6, <2>2, <2>4, <2>5, AppendHas
  <2> QED
    BY <2>6 DEF old, d
<1>11. ASSUME NEW i \in DOMAIN stack' PROVE Has(tail', by', n - i + 1, stack'[i].logged)
  <2>1. CASE i = 1
    <3>1. n - i + 1 = n
      BY <1>1, <2>1
    <3> QED
      BY <1>1, <1>9, <2>1, <3>1
  <2>2. CASE i # 1
    <3>1. i \in 2 .. n
      BY <1>1, <1>2, <2>2
    <3> QED
      BY <1>1, <1>10, <3>1
  <2> QED
    BY <2>1, <2>2
<1> QED
  BY <1>1, <1>8, <1>11 DEF LogInv

\* A call returns: its characters are of no call any more.
LEMMA CallReturns ==
  ASSUME TtyTypeOK, LogInv, returns
  PROVE  LogInv'
<1> DEFINE n == Len(stack)
<1>1. /\ stack # <<>> /\ stack' = Tail(stack) /\ tail' = tail
      /\ by' = [k \in DOMAIN by |-> IF by[k][1] = n THEN NoCall ELSE by[k]]
  BY DEF returns
<1>2. /\ n \in Nat \ {0} /\ DOMAIN stack = 1 .. n
      /\ stack' \in Seq(CallSet) /\ Len(stack') = n - 1
      /\ \A i \in 1 .. (n - 1) : stack'[i] = stack[i + 1]
  <2>1. n \in Nat \ {0} /\ DOMAIN stack = 1 .. n
    BY <1>1, TopFacts
  <2> QED
    BY <1>1, <2>1, HeadTailProperties DEF TtyTypeOK
<1>3. DOMAIN stack' = 1 .. (n - 1)
  BY <1>2, LenProperties
<1>4. /\ by \in Seq(Tags) /\ Len(by) \in Nat /\ DOMAIN by = 1 .. Len(by)
      /\ \A k \in DOMAIN by : by[k] \in Tags /\ by[k][1] \in Nat /\ by[k][1] <= n
  <2>1. by \in Seq(Tags) /\ Len(by) \in Nat /\ DOMAIN by = 1 .. Len(by)
    BY LenProperties DEF LogInv, ByOK
  <2>2. \A k \in DOMAIN by : by[k] \in Tags
    BY <2>1, ElementOfSeq
  <2>3. \A k \in DOMAIN by : by[k][1] \in Nat
    BY <2>2 DEF Tags
  <2> QED
    BY <2>1, <2>2, <2>3 DEF LogInv, ByOK
<1>5. /\ Len(by) = Len(tail) /\ Len(tail) <= Room
      /\ \A i \in DOMAIN stack : Has(tail, by, n - i + 1, stack[i].logged)
  BY DEF LogInv, ByOK
<1> HIDE DEF n
<1>6. NoCall \in Tags /\ NoCall[1] = 0
  BY DEF NoCall, Tags
<1>7. /\ DOMAIN by' = DOMAIN by
      /\ \A k \in DOMAIN by : /\ by[k][1] = n => by'[k] = NoCall
                              /\ by[k][1] # n => by'[k] = by[k]
  BY <1>1
<1>8. by' \in [1 .. Len(by) -> Tags]
  BY <1>1, <1>4, <1>6
<1>9. by' \in Seq(Tags) /\ Len(by') = Len(by)
  BY <1>4, <1>8
<1>10. \A k \in DOMAIN by' : by'[k][1] <= n - 1
  BY <1>2, <1>4, <1>6, <1>7
<1>11. ByOK'
  BY <1>1, <1>2, <1>5, <1>9, <1>10 DEF ByOK
<1>12. ASSUME NEW i \in DOMAIN stack'
       PROVE  Has(tail', by', (n - 1) - i + 1, stack'[i].logged)
  <2> DEFINE d == (n - 1) - i + 1
  <2>1. /\ i + 1 \in DOMAIN stack /\ d = n - (i + 1) + 1 /\ d \in 1 .. (n - 1)
        /\ stack'[i] = stack[i + 1]
    BY <1>2, <1>3
  <2>2. Has(tail, by, d, stack'[i].logged)
    BY <1>5, <2>1
  <2>3. d # n /\ d # 0
    BY <1>2, <2>1
  <2> HIDE DEF d
  <2>4. \A k \in DOMAIN by : (by'[k][1] = d <=> by[k][1] = d) /\ (by[k][1] = d => by'[k] = by[k])
    BY <1>6, <1>7, <2>3
  <2>5. DOMAIN tail = DOMAIN by
    BY <1>4, <1>5, LenProperties DEF TtyTypeOK
  <2>6. Has(tail, by', d, stack'[i].logged)
    <3> DEFINE mine == {k \in DOMAIN tail : by[k][1] = d}
               now == {k \in DOMAIN tail : by'[k][1] = d}
    <3>1. now = mine
      BY <2>4, <2>5
    <3>2. \A k \in mine : by'[k] = by[k]
      BY <2>4, <2>5
    <3>3. LET text == stack'[i].logged
          IN  /\ \A k \in mine : by[k][2] \in DOMAIN text /\ tail[k] = text[by[k][2]]
              /\ \A k, l \in mine : k < l => by[k][2] < by[l][2]
              /\ \A p \in DOMAIN text :
                   \/ \E k \in mine : by[k][2] = p
                   \/ Len(tail) = Room /\ \A k \in mine : p < by[k][2]
      BY <2>2 DEF Has
    <3> HIDE DEF mine
    <3>4. LET text == stack'[i].logged
          IN  /\ \A k \in mine : by'[k][2] \in DOMAIN text /\ tail[k] = text[by'[k][2]]
              /\ \A k, l \in mine : k < l => by'[k][2] < by'[l][2]
              /\ \A p \in DOMAIN text :
                   \/ \E k \in mine : by'[k][2] = p
                   \/ Len(tail) = Room /\ \A k \in mine : p < by'[k][2]
      BY <3>2, <3>3
    <3> QED
      BY <3>1, <3>4 DEF Has
  <2> QED
    BY <1>1, <2>6 DEF d
<1> QED
  BY <1>2, <1>11, <1>12 DEF LogInv

LEMMA InitLogInv == Init => LogInv
<1> SUFFICES ASSUME Init PROVE LogInv
  OBVIOUS
<1>1. tail = <<>> /\ by = <<>> /\ stack = <<>>
  BY DEF Init
<1>2. DOMAIN by = {} /\ DOMAIN stack = {} /\ by \in Seq(Tags) /\ Len(by) = Len(tail) /\ Len(tail) = 0
  BY <1>1, EmptySeq
<1>3. 0 <= Room
  BY TtyAssumption
<1> QED
  BY <1>2, <1>3 DEF LogInv, ByOK

LEMMA OfTopFacts ==
  ASSUME TtyTypeOK, stack # <<>>, NEW text \in Seq(Letters)
  PROVE  OfTop(text) \in Seq(Tags) /\ Len(OfTop(text)) = Len(text)
<1> DEFINE m == Len(text)
           n == Len(stack)
           len == Len(Top.logged)
<1>1. n \in Nat /\ len \in Nat /\ m \in Nat /\ DOMAIN text = 1 .. m
  BY TopFacts, LenProperties DEF CallSet
<1>2. OfTop(text) = [k \in 1 .. m |-> <<n, len + k>>]
  BY <1>1 DEF OfTop
<1> HIDE DEF m, n, len
<1>3. \A k \in 1 .. m : <<n, len + k>> \in Tags
  BY <1>1 DEF Tags
<1>4. OfTop(text) \in [1 .. m -> Tags]
  BY <1>2, <1>3
<1>5. OfTop(text) \in Seq(Tags) /\ Len(OfTop(text)) = m
  BY <1>1, <1>4
<1> QED
  BY <1>5 DEF m

LEMMA NextLogInv == IInv /\ IInv' /\ LogInv /\ [Next]_vars => LogInv'
<1> SUFFICES ASSUME IInv, IInv', LogInv, [Next]_vars PROVE LogInv'
  OBVIOUS
<1>1. TtyTypeOK /\ StackInv /\ stack' \in Seq(CallSet) /\ stack \in Seq(CallSet)
  BY DEF IInv, TtyTypeOK
<1>2. ASSUME stack # <<>>, NEW c, Becomes(c), c.logged = Top.logged, tail' = tail, by' = by
      PROVE  LogInv'
  <2>1. /\ Len(stack') = Len(stack) /\ stack'[1] = c /\ Top = stack[1]
        /\ DOMAIN stack = 1 .. Len(stack) /\ Len(stack) \in Nat
        /\ \A i \in 2 .. Len(stack) : stack'[i] = stack[i]
    BY <1>1, <1>2, BecomesFacts, TopFacts
  <2>2. \A i \in DOMAIN stack : i = 1 \/ i \in 2 .. Len(stack)
    BY <2>1
  <2>3. \A i \in DOMAIN stack : stack'[i].logged = stack[i].logged
    BY <1>2, <2>1, <2>2
  <2> QED
    BY <1>1, <1>2, <2>1, <2>3, NothingLogged
<1>3. ASSUME NEW w, NEW at, NEW c, c = Call(at, w), stack' = <<c>> \o stack, tail' = tail, by' = by
      PROVE  LogInv'
  <2>1. c \in CallSet
    <3>1. stack \in Seq(CallSet \cup {c}) /\ c \in CallSet \cup {c}
      BY <1>1, SeqMonotonic
    <3>2. stack'[1] = c /\ Len(stack') = Len(stack) + 1 /\ Len(stack) \in Nat
      BY <1>3, <3>1, PushFacts
    <3>3. 1 \in 1 .. Len(stack')
      BY <3>2
    <3> QED
      BY <1>1, <3>2, <3>3, ElementOfSeq
  <2>2. c.logged = <<>>
    BY <1>3 DEF Call
  <2> QED
    BY <1>1, <1>3, <2>1, <2>2, CallStarts
<1>4. stack # <<>> => Top \in CallSet /\ CallText(Top) /\ CallKept(Top)
  BY <1>1, TopFacts
<1>5. CASE \E w \in Writes : writev(w)
  BY <1>3, <1>5 DEF writev
<1>6. CASE \E msg \in Messages : log_msg(msg)
  BY <1>3, <1>6 DEF log_msg
<1>7. CASE console_register \/ set_prefix \/ UNCHANGED vars
  <2>1. stack' = stack /\ tail' = tail /\ by' = by
    BY <1>7 DEF console_register, set_prefix, vars
  <2> QED
    BY <1>1, <2>1, NothingLogged
<1>8. CASE console_deregister
  <2>1. stack' = Unseen(stack) /\ tail' = tail /\ by' = by
    BY <1>8 DEF console_deregister
  <2>2. DOMAIN stack = 1 .. Len(stack) /\ Len(stack) \in Nat
        /\ DOMAIN stack' = 1 .. Len(stack') /\ Len(stack') \in Nat
    BY <1>1, LenProperties
  <2>3. DOMAIN stack' = DOMAIN stack
        /\ \A i \in DOMAIN stack : stack'[i] = [stack[i] EXCEPT !.seen = FALSE]
    BY <2>1 DEF Unseen
  <2>4. \A i \in DOMAIN stack : stack'[i].logged = stack[i].logged
    <3> SUFFICES ASSUME NEW i \in DOMAIN stack PROVE stack'[i].logged = stack[i].logged
      OBVIOUS
    <3>1. stack[i] \in CallSet
      BY <1>1, DepthFacts
    <3> QED
      BY <2>3, <3>1 DEF CallSet
  <2>5. Len(stack') = Len(stack)
    <3>1. \A a, b \in Nat : 1 .. a = 1 .. b => a = b
      <4> SUFFICES ASSUME NEW a \in Nat, NEW b \in Nat, 1 .. a = 1 .. b PROVE a = b
        OBVIOUS
      <4>1. (a > 0 => a \in 1 .. b) /\ (b > 0 => b \in 1 .. a)
        BY Zenon, SMT
      <4> QED
        BY <4>1
    <3> QED
      BY <2>2, <2>3, <3>1
  <2> QED
    BY <1>1, <2>1, <2>4, <2>5, NothingLogged
<1>9. CASE console_returns
  <2> DEFINE at == CASE Top.at = "prefix" -> "begun"
                     [] Top.at = "text" -> "log"
                     [] Top.at = "message" -> "log message"
             c == [Top EXCEPT !.at = at]
  <2>1. stack # <<>> /\ Becomes(c) /\ tail' = tail /\ by' = by
    BY <1>9 DEF console_returns
  <2> HIDE DEF at
  <2>2. c.logged = Top.logged
    BY <1>4, <2>1 DEF CallSet
  <2> HIDE DEF c
  <2> QED
    BY <1>2, <2>1, <2>2
<1>10. CASE begin_line
  <2> DEFINE at == IF console /\ prefix THEN "prefix" ELSE "begun"
             c == [Top EXCEPT !.at = at]
  <2>1. stack # <<>> /\ Becomes(c) /\ log_append(<<Stamp>>, <<NoCall>>)
    BY <1>10 DEF begin_line
  <2> HIDE DEF at
  <2>2. c.logged = Top.logged
    BY <1>4, <2>1 DEF CallSet
  <2> HIDE DEF c
  <2>3. /\ <<NoCall>> \in Seq(Tags) /\ Len(<<NoCall>>) = Len(<<Stamp>>)
        /\ \A k \in DOMAIN <<NoCall>> : <<NoCall>>[k] = NoCall
    BY DEF NoCall, Tags
  <2> QED
    BY <1>1, <2>1, <2>2, <2>3, LettersFacts, TopLogs
<1>11. CASE go_on_line \/ begun \/ put \/ say
  <2>1. /\ stack # <<>> /\ tail' = tail /\ by' = by
        /\ \E at, shown : \/ Becomes([Top EXCEPT !.at = at])
                          \/ Becomes([Top EXCEPT !.at = at, !.shown = shown])
    <3>1. CASE go_on_line
      BY <3>1 DEF go_on_line
    <3>2. CASE begun
      BY <3>2 DEF begun
    <3>3. CASE put
      BY <3>3 DEF put
    <3>4. CASE say
      BY <3>4 DEF say
    <3> QED
      BY <1>11, <3>1, <3>2, <3>3, <3>4
  <2>2. \A at, shown : /\ [Top EXCEPT !.at = at].logged = Top.logged
                       /\ [Top EXCEPT !.at = at, !.shown = shown].logged = Top.logged
    BY <1>4, <2>1 DEF CallSet
  <2> QED
    BY <1>2, <2>1, <2>2
<1>12. CASE log_piece
  <2> DEFINE piece == Piece(Top.head)
             c == After([Top EXCEPT !.logged = Top.logged \o piece])
  <2>1. stack # <<>> /\ Top.at = "log" /\ Becomes(c) /\ log_append(piece, OfTop(piece))
    BY <1>12 DEF log_piece
  <2>2. c.logged = Top.logged \o piece
    BY <1>4, <2>1, AfterKeeps
  <2>3. piece \in Seq(Letters)
    BY <1>4, <2>1, PieceFacts, LettersFacts DEF CallText, Saying
  <2> HIDE DEF c, piece
  <2>4. OfTop(piece) \in Seq(Tags) /\ Len(OfTop(piece)) = Len(piece)
    BY <1>1, <2>1, <2>3, OfTopFacts
  <2> QED
    BY <1>1, <2>1, <2>2, <2>3, <2>4, TopLogs
<1>13. CASE log_message
  <2> DEFINE c == [Top EXCEPT !.at = "done", !.head = <<>>, !.logged = Top.head]
  <2>1. /\ stack # <<>> /\ Top.at = "log message" /\ Becomes(c)
        /\ log_append(Top.head, OfTop(Top.head))
    BY <1>13 DEF log_message
  <2>2. Top.head \in Seq(Letters) /\ Top.logged = <<>> /\ c.logged = Top.head
    BY <1>4, <2>1 DEF CallText, Saying, CallSet
  <2>3. c.logged = Top.logged \o Top.head
    BY <2>2, ConcatEmptySeq
  <2> HIDE DEF c
  <2>4. OfTop(Top.head) \in Seq(Tags) /\ Len(OfTop(Top.head)) = Len(Top.head)
    BY <1>1, <2>1, <2>2, OfTopFacts
  <2> QED
    BY <1>1, <2>1, <2>2, <2>3, <2>4, TopLogs
<1>14. CASE returns
  BY <1>1, <1>14, CallReturns
<1> QED
  BY <1>5, <1>6, <1>7, <1>8, <1>9, <1>10, <1>11, <1>12, <1>13, <1>14 DEF Next, Runtime

LEMMA SpecLogInv == Spec => [](IInv /\ LogInv)
<1>1. IInv /\ LogInv /\ [Next]_vars => (IInv /\ LogInv)'
  BY NextIInv, NextLogInv
<1> QED
  BY <1>1, InitIInv, InitLogInv, PTL DEF Spec

-----------------------------------------------------------------------------
(* The theorems. *)

\* Unless the console itself writes, every line of the log has one time stamp,
\* at its beginning, for any texts, messages and size of the log.
THEOREM LinesStayStamped == Spec => []LinesAreStamped
<1>1. IInv => LinesAreStamped
  BY DEF IInv, LineInv, Stamped, LinesAreStamped
<1> QED
  BY <1>1, SpecIInv, PTL

\* No write or message loses or repeats a character, in the log, as far as there
\* is room, or, as long as there is a console, on it, and none returns before all
\* its text is logged, however deep the console's own writes go.
THEOREM WritesStayWhole == Spec => []WritesAreKept
<1>1. IInv /\ LogInv => WritesAreKept
  <2> SUFFICES ASSUME IInv, LogInv, NEW i \in DOMAIN stack
               PROVE  LET call == stack[i]
                      IN  /\ CallKept(call)
                          /\ call.at = "done" => call.logged = call.whole
                          /\ LogHas(Len(stack) - i + 1, call.logged)
                          /\ call.seen =>
                               CASE call.at \in {"line", "done"} -> call.shown = call.logged
                                 [] call.at = "log" ->
                                      call.shown = call.logged \o Piece(call.head)
                                 [] call.at = "log message" -> call.shown = call.head
                                 [] OTHER -> TRUE
    BY DEF WritesAreKept, CallKept
  <2>1. CallText(stack[i]) /\ CallKept(stack[i]) /\ CallShown(stack[i])
    BY DEF IInv, StackInv
  <2>2. ASSUME stack[i].at = "done" PROVE stack[i].logged = stack[i].whole
    <3>1. /\ stack[i].head = <<>> /\ stack[i].vec = <<>> /\ FlattenSeq(<<>>) = <<>>
          /\ stack[i].logged \in Seq(Letters)
      BY <2>1, <2>2, FlattenUnfolds, DepthFacts DEF IInv, CallText
    <3>2. stack[i].logged \o <<>> \o <<>> = stack[i].logged
      BY <3>1, ConcatEmptySeq
    <3> QED
      BY <2>1, <3>1, <3>2 DEF CallKept
  <2>3. LogHas(Len(stack) - i + 1, stack[i].logged)
    BY DEF LogInv, Has, LogHas
  <2> QED
    BY <2>1, <2>2, <2>3 DEF CallShown, ShownOf, Shown
<1> QED
  BY <1>1, SpecLogInv, PTL
=============================================================================
