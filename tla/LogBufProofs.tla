----------------------------- MODULE LogBufProofs -----------------------------
(***************************************************************************)
(* Proofs about the log buffer, for every size of the buffers and messages  *)
(* of every length: BufferOK, and that the buffer implements Log.           *)
(***************************************************************************)
EXTENDS LogBuf, SequenceTheorems, TLAPS

-----------------------------------------------------------------------------
(* Arithmetic. *)

LEMMA MinOfTwo ==
  ASSUME NEW a \in Int, NEW b \in Int
  PROVE  Min({a, b}) = IF a <= b THEN a ELSE b
<1> DEFINE m == IF a <= b THEN a ELSE b
<1>1. m \in {a, b} /\ \A y \in {a, b} : m <= y
  OBVIOUS
<1>2. \A x \in {a, b} : (\A y \in {a, b} : x <= y) => x = m
  OBVIOUS
<1>3. Min({a, b}) = CHOOSE x \in {a, b} : \A y \in {a, b} : x <= y
  BY DEF Min
<1> HIDE DEF m
<1>4. Min({a, b}) \in {a, b} /\ \A y \in {a, b} : Min({a, b}) <= y
  BY <1>1, <1>3
<1> QED
  BY <1>2, <1>4 DEF m

\* The remainder, once around the buffer either way.
LEMMA ModCases ==
  ASSUME NEW s \in Nat \ {0}, NEW x \in Int, -s <= x, x < 2 * s
  PROVE  x % s = IF x < 0 THEN x + s ELSE IF x >= s THEN x - s ELSE x
  OBVIOUS

-----------------------------------------------------------------------------
(* What is logged, and where it is copied to. *)

Cells == Chars \cup {NUL, Junk}

\* A message or its end: shorter than the buffer.
LEMMA CheckedFacts ==
  ASSUME size \in Nat, size > 1, NEW msg \in Seq(Chars)
  PROVE  /\ Checked(msg) \in Seq(Chars) /\ Len(Checked(msg)) \in 0 .. (size - 1)
         /\ Len(msg) < size => Checked(msg) = msg
         /\ Len(msg) >= size =>
              /\ Len(Checked(msg)) = size - 1
              /\ \A k \in 1 .. (size - 1) :
                   Checked(msg)[k] = msg[Len(msg) - size + 1 + k]
<1>1. CASE Len(msg) < size
  <2>1. Checked(msg) = msg /\ ~(Len(msg) >= size) /\ Len(msg) \in Nat
    BY <1>1 DEF Checked
  <2> QED
    BY <1>1, <2>1
<1>2. CASE Len(msg) >= size
  <2> DEFINE from == Len(msg) - size + 2
  <2>1. /\ Len(msg) \in Nat /\ from \in Nat \ {0} /\ from <= Len(msg) + 1
        /\ Len(msg) - from + 1 = size - 1 /\ size - 1 \in 0 .. (size - 1)
    BY <1>2
  <2>2. Checked(msg) = SubSeq(msg, from, Len(msg))
    BY <1>2 DEF Checked
  <2> HIDE DEF from
  <2>3. /\ SubSeq(msg, from, Len(msg)) \in Seq(Chars)
        /\ Len(SubSeq(msg, from, Len(msg))) = size - 1
        /\ \A k \in 1 .. (size - 1) : SubSeq(msg, from, Len(msg))[k] = msg[from + k - 1]
    BY <2>1, SubSeqProperties
  <2>4. \A k \in 1 .. (size - 1) : from + k - 1 = Len(msg) - size + 1 + k
    BY <2>1 DEF from
  <2> QED
    BY <1>2, <2>1, <2>2, <2>3, <2>4
<1> QED
  BY <1>1, <1>2

\* The whole of a message shorter than the buffer is copied, around its end, and
\* no other cell is written.
LEMMA CopiedFacts ==
  ASSUME size \in Nat, size > 1, write_idx \in 0 .. (size - 1),
         buffer \in [0 .. (size - 1) -> Cells],
         NEW msg \in Seq(Chars), Len(msg) < size
  PROVE  /\ Copied(msg) \in [0 .. (size - 1) -> Cells]
         /\ \A j \in 1 .. Len(msg) : Copied(msg)[(write_idx + j - 1) % size] = msg[j]
         /\ \A k \in 1 .. (size - 1 - Len(msg)) :
              Copied(msg)[(write_idx - k) % size] = buffer[(write_idx - k) % size]
<1> DEFINE n == Len(msg)
           w == write_idx
           first == CopyLen(w, msg)
           rest == SubSeq(msg, first + 1, n)
           second == CopyLen(0, rest)
           once == memscpy(buffer, w, msg)
<1>1. /\ n \in Nat /\ n < size /\ w \in Nat /\ w < size /\ size \in Nat \ {0}
      /\ size > 1
  OBVIOUS
<1>2. first = IF size - w <= n THEN size - w ELSE n
  BY <1>1, MinOfTwo DEF CopyLen
<1>3. first \in Nat /\ first <= n /\ w + first <= size /\ (w + n < size => first = n)
      /\ (w + n >= size => first = size - w)
  BY <1>1, <1>2
<1> HIDE DEF n, first
<1>4. /\ rest \in Seq(Chars) /\ Len(rest) = n - first
      /\ \A i \in 1 .. (n - first) : rest[i] = msg[first + i]
  <2>1. first + 1 \in Int /\ first + 1 >= 1 /\ n <= Len(msg) /\ n - (first + 1) + 1 = n - first
    BY <1>1, <1>3 DEF n
  <2>2. \A i \in 1 .. (n - first) : (first + 1) + i - 1 = first + i
    BY <1>1, <1>3
  <2>3. n \in Int /\ \A i \in (first + 1) .. n : msg[i] \in Chars
    BY <1>1, <1>3 DEF n
  <2> DEFINE m == first + 1
  <2>4. m \in Int /\ \A i \in m .. n : msg[i] \in Chars
    BY <2>1, <2>3
  <2>5. rest = SubSeq(msg, m, n)
    OBVIOUS
  <2> HIDE DEF m, rest
  <2>6. /\ rest \in Seq(Chars) /\ Len(rest) = IF m <= n THEN n - m + 1 ELSE 0
        /\ \A i \in 1 .. (n - m + 1) : rest[i] = msg[m + i - 1]
    BY ONLY <2>3, <2>4, <2>5, SubSeqProperties
  <2>7. Len(rest) = n - first
    BY <1>1, <1>3, <2>6 DEF m
  <2>8. n - m + 1 = n - first /\ \A i \in 1 .. (n - first) : m + i - 1 = first + i
    BY <1>1, <1>3 DEF m
  <2> QED
    BY <2>6, <2>7, <2>8
<1> HIDE DEF rest
<1>5. second = n - first
  BY <1>1, <1>3, <1>4, MinOfTwo DEF CopyLen
<1> HIDE DEF second
<1>6. /\ once \in [0 .. (size - 1) -> Cells]
      /\ \A i \in 0 .. (size - 1) :
           once[i] = IF i \in w .. (w + first - 1) THEN msg[i - w + 1] ELSE buffer[i]
  <2>1. once = [i \in 0 .. (size - 1) |->
                  IF i \in w .. (w + first - 1) THEN msg[i - w + 1] ELSE buffer[i]]
    BY DEF memscpy, first
  <2>2. ASSUME NEW i \in w .. (w + first - 1) PROVE msg[i - w + 1] \in Cells
    <3>1. i - w + 1 \in 1 .. Len(msg)
      BY <1>1, <1>3 DEF n
    <3> QED
      BY <3>1 DEF Cells
  <2> QED
    BY <2>1, <2>2
<1> HIDE DEF once
<1>7. \A i \in 0 .. (size - 1) :
        Copied(msg)[i] = IF i < second THEN msg[first + i + 1] ELSE once[i]
  <2>1. Copied(msg) = [i \in 0 .. (size - 1) |->
                         IF i \in 0 .. (0 + second - 1) THEN rest[i - 0 + 1] ELSE once[i]]
    BY <1>6 DEF Copied, memscpy, first, rest, second, once, n
  <2>2. second \in Nat
    BY <1>1, <1>3, <1>5
  <2>3. ASSUME NEW i \in 0 .. (size - 1), i < second
        PROVE  Copied(msg)[i] = msg[first + i + 1]
    <3>1. i + 1 \in 1 .. (n - first) /\ first + (i + 1) = first + i + 1
      BY <1>1, <1>3, <1>5, <2>3
    <3>2. rest[i + 1] = msg[first + i + 1]
      BY <1>4, <3>1
    <3>3. i \in 0 .. (0 + second - 1) /\ i - 0 + 1 = i + 1
      BY <1>1, <2>2, <2>3
    <3> QED
      BY <2>1, <3>2, <3>3
  <2>4. ASSUME NEW i \in 0 .. (size - 1), ~(i < second)
        PROVE  Copied(msg)[i] = once[i]
    <3>1. i \notin 0 .. (0 + second - 1)
      BY <1>1, <2>2, <2>4
    <3> QED
      BY <2>1, <3>1
  <2> QED
    BY <2>3, <2>4
<1>8. Copied(msg) \in [0 .. (size - 1) -> Cells]
  <2>1. /\ Copied(msg) = [i \in 0 .. (size - 1) |-> Copied(msg)[i]]
    BY <1>6 DEF Copied, memscpy, once
  <2>2. ASSUME NEW i \in 0 .. (size - 1) PROVE Copied(msg)[i] \in Cells
    <3>1. CASE i < second
      <4>1. first + i + 1 \in 1 .. Len(msg)
        BY <1>1, <1>3, <1>5, <3>1 DEF n
      <4> QED
        BY <1>7, <3>1, <4>1 DEF Cells
    <3>2. CASE ~(i < second)
      BY <1>6, <1>7, <3>2
    <3> QED
      BY <3>1, <3>2
  <2> QED
    BY <2>1, <2>2
<1>9. ASSUME NEW j \in 1 .. n
      PROVE  Copied(msg)[(w + j - 1) % size] = msg[j]
  <2>1. CASE w + j - 1 < size
    <3>1. (w + j - 1) % size = w + j - 1
      <4> DEFINE x == w + j - 1
      <4>1. x \in Int /\ -size <= x /\ x < 2 * size /\ ~(x < 0) /\ ~(x >= size)
        BY <1>1, <2>1
      <4> HIDE DEF x
      <4>2. x % size = x
        BY <1>1, <4>1, ModCases
      <4> QED
        BY <4>2 DEF x
    <3>2. /\ w + j - 1 \in 0 .. (size - 1) /\ ~(w + j - 1 < second)
          /\ w + j - 1 \in w .. (w + first - 1) /\ (w + j - 1) - w + 1 = j
      BY <1>1, <1>3, <1>5, <2>1
    <3> QED
      BY <1>6, <1>7, <3>1, <3>2
  <2>2. CASE w + j - 1 >= size
    <3> DEFINE i == w + j - 1 - size
    <3>1. (w + j - 1) % size = i
      <4> DEFINE x == w + j - 1
      <4>1. x \in Int /\ -size <= x /\ x < 2 * size /\ ~(x < 0) /\ x >= size
        BY <1>1, <2>2
      <4> HIDE DEF x
      <4>2. x % size = x - size
        BY <1>1, <4>1, ModCases
      <4> QED
        BY <4>2 DEF x
    <3>2. i \in 0 .. (size - 1) /\ i < second /\ first + i + 1 = j
      BY <1>1, <1>3, <1>5, <2>2
    <3> HIDE DEF i
    <3> QED
      BY <1>7, <3>1, <3>2
  <2> QED
    BY <1>1, <2>1, <2>2
<1>10. ASSUME NEW k \in 1 .. (size - 1 - n)
       PROVE  Copied(msg)[(w - k) % size] = buffer[(w - k) % size]
  <2> DEFINE i == (w - k) % size
  <2>1. i = IF w - k < 0 THEN w - k + size ELSE w - k
    <3>1. w - k \in Int /\ -size <= w - k /\ w - k < 2 * size /\ ~(w - k >= size)
      BY <1>1
    <3> QED
      BY <1>1, <3>1, ModCases
  <2> HIDE DEF i
  <2>2. i \in 0 .. (size - 1) /\ ~(i < second) /\ i \notin w .. (w + first - 1)
    BY <1>1, <1>3, <1>5, <2>1
  <2> QED
    BY <1>6, <1>7, <2>2 DEF i
<1> QED
  BY <1>8, <1>9, <1>10 DEF n

-----------------------------------------------------------------------------
(* BufferOK is inductive. *)

\* What the sizes are, and what BufferOK says of them.
LEMMA SizeFacts ==
  ASSUME BufferOK
  PROVE  /\ size \in Nat \ {0} /\ size > 1 /\ write_idx \in 0 .. (size - 1)
         /\ buffer \in [0 .. (size - 1) -> Cells] /\ stored \in 0 .. (size - 1)
  BY LogBufAssumption DEF BufferOK, Cells

LEMMA InitBufferOK == Init => BufferOK
<1> SUFFICES ASSUME Init PROVE BufferOK
  OBVIOUS
<1>1. size = EARLY_SIZE /\ EARLY_SIZE \in Nat /\ EARLY_SIZE > 1 /\ write_idx = 0
      /\ stored = 0 /\ buffer = [i \in 0 .. (EARLY_SIZE - 1) |-> NUL] /\ logged = <<>>
  BY LogBufAssumption DEF Init
<1> QED
  BY <1>1 DEF BufferOK

\* What log_append changes, in numbers: n characters are logged.
LEMMA AppendFacts ==
  ASSUME BufferOK, NEW msg \in Msgs, log_append(msg)
  PROVE  LET n == Len(Checked(msg))
         IN  /\ msg \in Seq(Chars)
             /\ Checked(msg) \in Seq(Chars) /\ n \in 0 .. (size - 1)
             /\ write_idx' =
                  IF write_idx + n >= size THEN write_idx + n - size ELSE write_idx + n
             /\ write_idx' \in 0 .. (size - 1)
             /\ buffer' = [Copied(Checked(msg)) EXCEPT ![write_idx'] = NUL]
             /\ Copied(Checked(msg)) \in [0 .. (size - 1) -> Cells]
             /\ stored' = IF stored + n <= size - 1 THEN stored + n ELSE size - 1
             /\ stored' \in 0 .. (size - 1)
             /\ size' = size /\ logged' = msg
<1> DEFINE n == Len(Checked(msg))
<1>1. msg \in Seq(Chars)
  BY LogBufAssumption
<1>2. Checked(msg) \in Seq(Chars) /\ n \in 0 .. (size - 1)
  BY <1>1, SizeFacts, CheckedFacts
<1>3. /\ write_idx' = Wrap(write_idx + n)
      /\ buffer' = Terminate(Copied(Checked(msg)), write_idx')
      /\ stored' = Min({stored + n, size - 1})
      /\ size' = size /\ logged' = msg
  BY DEF log_append
<1>4. Copied(Checked(msg)) \in [0 .. (size - 1) -> Cells]
  BY <1>2, SizeFacts, CopiedFacts
<1>5. buffer' = [Copied(Checked(msg)) EXCEPT ![write_idx'] = NUL]
  BY <1>3 DEF Terminate
<1> HIDE DEF n
<1>6. /\ write_idx' =
           IF write_idx + n >= size THEN write_idx + n - size ELSE write_idx + n
      /\ write_idx' \in 0 .. (size - 1)
  BY <1>2, <1>3, SizeFacts DEF Wrap
<1>7. stored' = IF stored + n <= size - 1 THEN stored + n ELSE size - 1
  BY <1>2, <1>3, SizeFacts, MinOfTwo
<1>8. stored' \in 0 .. (size - 1)
  BY <1>2, <1>7, SizeFacts
<1> QED
  BY <1>1, <1>2, <1>3, <1>4, <1>5, <1>6, <1>7, <1>8 DEF n

LEMMA NextBufferOK == BufferOK /\ [Next]_vars => BufferOK'
<1> SUFFICES ASSUME BufferOK, [Next]_vars PROVE BufferOK'
  OBVIOUS
<1>1. ASSUME NEW msg \in Msgs, log_append(msg) PROVE BufferOK'
  <2>1. /\ write_idx' \in 0 .. (size - 1) /\ stored' \in 0 .. (size - 1)
        /\ Copied(Checked(msg)) \in [0 .. (size - 1) -> Cells]
        /\ buffer' = [Copied(Checked(msg)) EXCEPT ![write_idx'] = NUL]
        /\ size' = size /\ logged' = msg
    BY <1>1, AppendFacts
  <2>2. buffer' \in [0 .. (size - 1) -> Cells] /\ buffer'[write_idx'] = NUL
    BY <2>1 DEF Cells
  <2> QED
    BY <2>1, <2>2 DEF BufferOK, Cells
<1>2. ASSUME NEW new_size \in Sizes, log_set_buffer(new_size) PROVE BufferOK'
  <2>1. /\ size' = new_size /\ write_idx' = 0 /\ stored' = 0 /\ logged' = logged
        /\ new_size \in Nat /\ new_size > 1
    BY <1>2, LogBufAssumption DEF log_set_buffer
  <2>2. PICK cell \in {NUL, Junk} : buffer' = [i \in 0 .. (new_size - 1) |-> cell]
    BY <1>2 DEF log_set_buffer
  <2>3. buffer' \in [0 .. (size' - 1) -> Chars \cup {NUL, Junk}]
    BY <2>1, <2>2
  <2> QED
    BY <2>1, <2>3 DEF BufferOK
<1>3. CASE UNCHANGED vars
  BY <1>3 DEF vars, BufferOK
<1> QED
  BY <1>1, <1>2, <1>3 DEF Next

LEMMA SpecBufferOK == Spec => []BufferOK
  BY InitBufferOK, NextBufferOK, PTL DEF Spec

-----------------------------------------------------------------------------
(* What is read back. *)

\* An index back from the new end of the log is that index from the old one.
LEMMA Around ==
  ASSUME NEW s \in Nat \ {0}, NEW w \in 0 .. (s - 1), NEW n \in 0 .. (s - 1),
         NEW v \in 0 .. (s - 1), v = IF w + n >= s THEN w + n - s ELSE w + n,
         NEW e \in Int, -s < e, e < 0
  PROVE  /\ (v + e) % s = (w + (n + e)) % s
         /\ (v + e) % s # v
         /\ (v + e) % s \in 0 .. (s - 1)
<1> DEFINE x == v + e
           y == w + (n + e)
<1>1. v \in 0 .. (s - 1)
  OBVIOUS
<1>2. x \in Int /\ -s <= x /\ x < s /\ x < 2 * s
  BY <1>1
<1>3. y \in Int /\ -s <= y /\ y < 2 * s
  OBVIOUS
<1>4. x % s = IF x < 0 THEN x + s ELSE x
  <2> HIDE DEF x
  <2>1. x % s = IF x < 0 THEN x + s ELSE IF x >= s THEN x - s ELSE x
    BY <1>2, ModCases
  <2>2. ~(x >= s)
    BY <1>2
  <2> QED
    BY <2>1, <2>2, Zenon
<1>5. y % s = IF y < 0 THEN y + s ELSE IF y >= s THEN y - s ELSE y
  <2> HIDE DEF y
  <2> QED
    BY <1>3, ModCases
<1>6. y = IF w + n >= s THEN x + s ELSE x
  BY <1>1
<1> HIDE DEF x, y
<1>7. x % s = y % s
  BY <1>2, <1>3, <1>4, <1>5, <1>6
<1>8. x % s # v /\ x % s \in 0 .. (s - 1)
  BY <1>1, <1>4 DEF x
<1> QED
  BY <1>7, <1>8 DEF x, y

ContentsAreRead ==
  /\ Contents \in Seq(Cells) /\ Len(Contents) = stored
  /\ \A k \in 1 .. stored :
       Contents[k] = buffer[(write_idx - stored + k - 1) % size]

LEMMA ContentsType == BufferOK => ContentsAreRead
<1> SUFFICES ASSUME BufferOK PROVE ContentsAreRead
  OBVIOUS
<1>1. stored \in Nat
  BY SizeFacts
<1>2. ASSUME NEW k \in 1 .. stored
      PROVE  buffer[(write_idx - stored + k - 1) % size] \in Cells
  <2> DEFINE x == write_idx - stored + k - 1
  <2>1. x \in Int /\ -size <= x /\ x < 2 * size
    BY SizeFacts
  <2>2. x % size \in 0 .. (size - 1)
    <3> HIDE DEF x
    <3>1. size \in Nat \ {0}
      BY SizeFacts
    <3>2. x % size = IF x < 0 THEN x + size ELSE IF x >= size THEN x - size ELSE x
      BY <2>1, <3>1, ModCases
    <3> QED
      BY <2>1, <3>1, <3>2
  <2> QED
    BY <2>2, SizeFacts
<1>3. Contents = [k \in 1 .. stored |-> buffer[(write_idx - stored + k - 1) % size]]
  BY DEF Contents
<1> QED
  BY <1>1, <1>2, <1>3 DEF ContentsAreRead

LEMMA NewContentsType == BufferOK' => ContentsAreRead'
  BY ContentsType, PTL

\* What log_append leaves at each place of the log: of the message, or of what
\* was there.
LEMMA AppendReads ==
  ASSUME BufferOK, NEW msg \in Msgs, log_append(msg), NEW k \in 1 .. stored'
  PROVE  LET n == Len(Checked(msg))
             old == stored + n - stored' + k
         IN  /\ old > stored =>
                  Contents'[k] = Checked(msg)[old - stored] /\ old - stored \in 1 .. n
             /\ old <= stored => Contents'[k] = Contents[old] /\ old \in 1 .. stored
<1> DEFINE n == Len(Checked(msg))
           old == stored + n - stored' + k
           w == write_idx
           v == write_idx'
           c == Copied(Checked(msg))
           e == k - 1 - stored'
<1>1. /\ size \in Nat \ {0} /\ size > 1 /\ w \in 0 .. (size - 1)
      /\ buffer \in [0 .. (size - 1) -> Cells] /\ stored \in 0 .. (size - 1)
  BY SizeFacts
<1>2. /\ Checked(msg) \in Seq(Chars) /\ n \in 0 .. (size - 1)
      /\ v = IF w + n >= size THEN w + n - size ELSE w + n
      /\ v \in 0 .. (size - 1)
      /\ buffer' = [c EXCEPT ![v] = NUL] /\ c \in [0 .. (size - 1) -> Cells]
      /\ stored' = IF stored + n <= size - 1 THEN stored + n ELSE size - 1
      /\ stored' \in 0 .. (size - 1) /\ size' = size
  BY AppendFacts
<1>3. BufferOK'
  BY NextBufferOK DEF Next
<1>4. Contents'[k] = buffer'[(v - stored' + k - 1) % size]
  <2>1. Contents'[k] = buffer'[(write_idx' - stored' + k - 1) % size']
    BY <1>3, NewContentsType DEF ContentsAreRead
  <2> QED
    BY <1>2, <2>1
<1>5. /\ \A j \in 1 .. n : c[(w + j - 1) % size] = Checked(msg)[j]
      /\ \A i \in 1 .. (size - 1 - n) : c[(w - i) % size] = buffer[(w - i) % size]
  <2> DEFINE m == Checked(msg)
  <2>1. /\ size \in Nat /\ size > 1 /\ write_idx \in 0 .. (size - 1)
        /\ buffer \in [0 .. (size - 1) -> Cells] /\ m \in Seq(Chars) /\ Len(m) < size
    BY <1>1, <1>2
  <2> HIDE DEF m
  <2>2. /\ \A j \in 1 .. Len(m) : Copied(m)[(write_idx + j - 1) % size] = m[j]
        /\ \A i \in 1 .. (size - 1 - Len(m)) :
             Copied(m)[(write_idx - i) % size] = buffer[(write_idx - i) % size]
    BY <2>1, CopiedFacts
  <2> QED
    BY <2>2 DEF m
<1> HIDE DEF n, w, v, c
<1>6. e \in Int /\ -size < e /\ e < 0 /\ v - stored' + k - 1 = v + e
  BY <1>1, <1>2
<1> HIDE DEF e
<1>7. /\ (v + e) % size = (w + (n + e)) % size /\ (v + e) % size # v
      /\ (v + e) % size \in 0 .. (size - 1)
  <2>1. v = IF w + n >= size THEN w + n - size ELSE w + n
    BY <1>2
  <2> QED
    <3>1. size \in Nat \ {0} /\ w \in 0 .. (size - 1) /\ n \in 0 .. (size - 1)
      BY <1>1, <1>2
    <3>2. v \in 0 .. (size - 1)
      BY <1>1, <1>2
    <3>3. e \in Int /\ -size < e /\ e < 0
      BY <1>6
    <3> HIDE DEF old
    <3> QED
      BY <2>1, <3>1, <3>2, <3>3, Around
<1>8. Contents'[k] = c[(w + (n + e)) % size]
  BY <1>2, <1>4, <1>6, <1>7
<1>9. old = stored + (n + e) + 1 /\ old \in Int
  BY <1>1, <1>2 DEF e
<1>10. CASE old > stored
  <2> DEFINE j == old - stored
  <2>1. j \in 1 .. n /\ w + j - 1 = w + (n + e)
    BY <1>1, <1>2, <1>6, <1>9, <1>10
  <2>2. ~(old <= stored)
    BY <1>1, <1>9, <1>10
  <2> HIDE DEF j, old
  <2>3. Contents'[k] = Checked(msg)[j]
    BY <1>5, <1>8, <2>1
  <2>4. /\ old > stored =>
              Contents'[k] = Checked(msg)[old - stored] /\ old - stored \in 1 .. n
        /\ old <= stored => Contents'[k] = Contents[old] /\ old \in 1 .. stored
    BY <1>10, <2>1, <2>2, <2>3 DEF j
  <2> QED
    BY <2>4 DEF old, n
<1>11. CASE old <= stored
  <2> DEFINE i == -(n + e)
  <2>1. i \in 1 .. (size - 1 - n) /\ w - i = w + (n + e)
    BY <1>1, <1>2, <1>6, <1>9, <1>11 DEF e
  <2>2. old \in 1 .. stored /\ w - stored + old - 1 = w - i
    BY <1>1, <1>2, <1>6, <1>9, <1>11 DEF e
  <2> HIDE DEF i, old
  <2>3. Contents'[k] = buffer[(w - i) % size]
    BY <1>5, <1>8, <2>1
  <2>4. Contents[old] = buffer[(w - i) % size]
    <3>1. Contents[old] = buffer[(write_idx - stored + old - 1) % size]
      BY <2>2, ContentsType DEF ContentsAreRead
    <3> QED
      BY <2>2, <3>1 DEF w
  <2>5. ~(old > stored)
    BY <1>1, <1>9, <1>11
  <2>6. /\ old > stored =>
              Contents'[k] = Checked(msg)[old - stored] /\ old - stored \in 1 .. n
        /\ old <= stored => Contents'[k] = Contents[old] /\ old \in 1 .. stored
    BY <2>2, <2>3, <2>4, <2>5
  <2> QED
    BY <2>6 DEF old, n
<1>12. old > stored \/ old <= stored
  BY <1>1, <1>9
<1> QED
  BY <1>10, <1>11, <1>12

\* The log has the last characters of what it had and of the message.
LEMMA AppendContents ==
  ASSUME BufferOK, NEW msg \in Msgs, log_append(msg)
  PROVE  Contents' = Kept!LastOf(size - 1, Contents \o msg)
<1> DEFINE n == Len(Checked(msg))
           all == Contents \o msg
           from == IF Len(all) > size - 1 THEN Len(all) - (size - 1) + 1 ELSE 1
           last == SubSeq(all, from, Len(all))
<1>1. /\ size \in Nat \ {0} /\ size > 1 /\ stored \in 0 .. (size - 1)
  BY SizeFacts
<1>2. /\ msg \in Seq(Chars) /\ n \in 0 .. (size - 1)
      /\ stored' = IF stored + n <= size - 1 THEN stored + n ELSE size - 1
      /\ stored' \in 0 .. (size - 1) /\ size' = size
  BY AppendFacts
<1>3. /\ msg \in Seq(Cells) /\ Len(msg) \in Nat
      /\ Contents \in Seq(Cells) /\ Len(Contents) = stored
  BY <1>2, ContentsType DEF Cells, ContentsAreRead
<1>4. /\ all \in Seq(Cells) /\ Len(all) = stored + Len(msg)
      /\ \A i \in 1 .. (stored + Len(msg)) :
           all[i] = IF i <= stored THEN Contents[i] ELSE msg[i - stored]
  BY <1>3, ConcatProperties
<1>5. /\ Len(msg) < size => n = Len(msg) /\ Checked(msg) = msg
      /\ Len(msg) >= size =>
           /\ n = size - 1
           /\ \A k \in 1 .. (size - 1) :
                Checked(msg)[k] = msg[Len(msg) - size + 1 + k]
  BY <1>1, <1>2, CheckedFacts
<1>6. Contents' \in Seq(Cells) /\ Len(Contents') = stored'
  <2>1. BufferOK'
    BY NextBufferOK DEF Next
  <2>2. Contents' \in Seq(Cells') /\ Len(Contents') = stored'
    BY <2>1, NewContentsType DEF ContentsAreRead
  <2> QED
    BY <2>2 DEF Cells, NUL, Junk
<1> HIDE DEF n, all
<1>7. /\ from \in Int /\ from >= 1 /\ from <= Len(all) + 1 /\ Len(all) \in Nat
      /\ stored' = Len(all) - from + 1
  <2> DEFINE total == Len(all)
             len == Len(msg)
  <2>1. /\ total = stored + len /\ len \in Nat
        /\ from = IF total > size - 1 THEN total - (size - 1) + 1 ELSE 1
    BY <1>3, <1>4
  <2>2. (len < size => n = len) /\ (len >= size => n = size - 1)
    BY <1>5
  <2> HIDE DEF total, len, from
  <2>3. /\ from \in Int /\ from >= 1 /\ from <= total + 1 /\ total \in Nat
        /\ stored' = total - from + 1
    BY <1>1, <1>2, <2>1, <2>2
  <2> QED
    BY <2>3 DEF total
<1> HIDE DEF from
<1>8. /\ last \in Seq(Cells) /\ Len(last) = stored'
      /\ \A k \in 1 .. stored' : last[k] = all[from + k - 1]
  BY <1>2, <1>4, <1>7, SubSeqProperties
<1>9. ASSUME NEW k \in 1 .. stored' PROVE Contents'[k] = all[from + k - 1]
  <2> DEFINE old == stored + n - stored' + k
             at == from + k - 1
  <2>1. /\ old > stored =>
             Contents'[k] = Checked(msg)[old - stored] /\ old - stored \in 1 .. n
        /\ old <= stored => Contents'[k] = Contents[old] /\ old \in 1 .. stored
    BY AppendReads DEF n
  <2>2. at \in 1 .. Len(all) /\ at = stored + Len(msg) - stored' + k /\ old \in Int
    <3> DEFINE total == Len(all)
               more == Len(msg)
    <3>1. total = stored + more
      BY <1>4
    <3>2. more \in Nat /\ total \in Nat /\ stored' = total - from + 1
      BY <1>3, <1>7
    <3> HIDE DEF total, more
    <3>3. /\ from \in Int /\ from >= 1 /\ stored' \in Nat
          /\ k \in 1 .. stored' /\ stored \in Nat /\ n \in Nat
      BY <1>1, <1>2, <1>7
    <3>4. at = stored + more - stored' + k
      <4>1. stored \in Int /\ more \in Int /\ stored' \in Int /\ k \in Int /\ from \in Int
        BY <3>2, <3>3
      <4>2. from = stored + more + 1 - stored'
        BY <3>1, <3>2, <4>1
      <4> QED
        BY <4>1, <4>2
    <3>5. at \in 1 .. total /\ old \in Int
      BY <3>1, <3>2, <3>3
    <3> QED
      BY <3>4, <3>5 DEF total, more
  <2>3. all[at] = IF at <= stored THEN Contents[at] ELSE msg[at - stored]
    BY <1>4, <2>2
  <2>4. CASE Len(msg) < size
    <3>1. at = old /\ Checked(msg) = msg
      BY <1>5, <2>2, <2>4
    <3> HIDE DEF at, old
    <3>2. CASE old > stored
      BY <1>1, <2>1, <2>2, <2>3, <3>1, <3>2 DEF at
    <3>3. CASE old <= stored
      BY <1>1, <2>1, <2>2, <2>3, <3>1, <3>3 DEF at
    <3> QED
      BY <1>1, <2>2, <3>2, <3>3
  <2>5. CASE Len(msg) >= size
    <3>1. /\ n = size - 1 /\ stored' = size - 1 /\ old - stored = k
          /\ at - stored = Len(msg) - size + 1 + k /\ at > stored /\ old > stored
      <4> DEFINE len == Len(msg)
      <4>1. /\ len \in Nat /\ len >= size /\ n = size - 1 /\ at \in Int
            /\ at = stored + len - stored' + k
        BY <1>3, <1>5, <2>2, <2>5
      <4> HIDE DEF len, at
      <4>2. /\ stored' = size - 1 /\ old - stored = k
            /\ at - stored = len - size + 1 + k /\ at > stored /\ old > stored
        BY <1>1, <1>2, <4>1
      <4> QED
        BY <4>1, <4>2 DEF len
    <3>2. Checked(msg)[k] = msg[Len(msg) - size + 1 + k]
      BY <1>5, <2>5, <3>1
    <3>3. ~(at <= stored)
      BY <1>1, <2>2, <3>1
    <3> HIDE DEF at, old
    <3> QED
      BY <2>1, <2>3, <3>1, <3>2, <3>3 DEF at
  <2> QED
    BY <1>1, <1>3, <2>4, <2>5
<1>10. Contents' = last
  BY <1>6, <1>8, <1>9, SeqEqual
<1> QED
  BY <1>10 DEF Kept!LastOf, last, from, all

-----------------------------------------------------------------------------
(* The theorems. *)

\* write_idx stays inside the buffer and the log ends at a NUL, for messages and
\* buffers of every length.
THEOREM BufferStaysOK == Spec => []BufferOK
  BY SpecBufferOK

\* Whoever reads the buffer back from its end finds the last size - 1 characters
\* logged, whatever was cut, split and wrapped on the way.
THEOREM BufferImplementsLog == Spec => ImplementsLog
<1>1. Init => Kept!Init
  <2> SUFFICES ASSUME Init PROVE Kept!Init
    OBVIOUS
  <2>1. BufferOK /\ stored = 0 /\ size = EARLY_SIZE /\ logged = <<>>
    BY InitBufferOK DEF Init
  <2>2. Contents = <<>>
    BY <2>1, ContentsType, EmptySeq DEF ContentsAreRead
  <2> QED
    BY <2>1, <2>2 DEF Kept!Init
<1>2. BufferOK /\ [Next]_vars => [Kept!Next]_<<size - 1, Contents, logged>>
  <2> SUFFICES ASSUME BufferOK, [Next]_vars
               PROVE  Kept!Next \/ UNCHANGED <<size - 1, Contents, logged>>
    OBVIOUS
  <2>1. ASSUME NEW msg \in Msgs, log_append(msg) PROVE Kept!Next
    <3>1. Contents' = Kept!LastOf(size - 1, Contents \o msg)
      BY <2>1, AppendContents
    <3>2. logged' = msg /\ size' - 1 = size - 1
      BY <2>1 DEF log_append
    <3>3. Kept!LogMessage(msg)
      BY <3>1, <3>2 DEF Kept!LogMessage
    <3> QED
      BY <3>3 DEF Kept!Next
  <2>2. ASSUME NEW new_size \in Sizes, log_set_buffer(new_size) PROVE Kept!Next
    <3>1. size' = new_size /\ stored' = 0 /\ logged' = logged
      BY <2>2 DEF log_set_buffer
    <3>2. Contents' = <<>>
      <4>1. BufferOK'
        BY <2>2, NextBufferOK DEF Next
      <4>2. Contents' \in Seq(Cells') /\ Len(Contents') = 0
        BY <3>1, <4>1, NewContentsType DEF ContentsAreRead
      <4> QED
        BY <4>2, EmptySeq
    <3>3. new_size - 1 \in Rooms
      BY DEF Rooms
    <3>4. Kept!SetBuffer(new_size - 1)
      BY <3>1, <3>2 DEF Kept!SetBuffer
    <3> QED
      BY <3>3, <3>4 DEF Kept!Next
  <2>3. CASE UNCHANGED vars
    BY <2>3 DEF vars, Contents
  <2> QED
    BY <2>1, <2>2, <2>3 DEF Next
<1> QED
  BY <1>1, <1>2, SpecBufferOK, PTL DEF Spec, ImplementsLog, Kept!Spec
=============================================================================
