--------------------------- MODULE MmapSearchProofs ---------------------------
(***************************************************************************)
(* Proofs about the search for free pages, for every word size, every heap, *)
(* every bitmap and every length.                                           *)
(***************************************************************************)
EXTENDS MmapSearch, TLAPS

-----------------------------------------------------------------------------
(* The inductive invariant. *)

\* No run starts below bit: the search has passed over nothing.
NoFitBelow(bit) == \A b \in 0 .. (bit - 1) : ~Fits(b)

\* The two loops agree on how far they have got.
LoopInv ==
  /\ pc \in {"block", "page", "range", "found"} => num_bits <= node_bits
  /\ pc \in {"block", "page"} => (curr_bit <= end_bit /\ NoFitBelow(curr_bit))
  /\ pc \in {"range", "found"} =>
       /\ next_bit <= end_bit /\ NoFitBelow(next_bit)
       /\ next_bit <= range_bit /\ range_bit <= next_bit + num_bits
       /\ next_bit .. (range_bit - 1) \subseteq free_pages
  /\ pc = "found" => rem_bits = 0
  /\ pc = "none" => NoFitBelow(node_bits)
  /\ pc = "entry" => curr_bit = 0

\* A round starts where the run does or at the start of a word.
RoundInv ==
  (pc = "range" /\ rem_bits > 0) =>
    (range_bit = next_bit \/ range_bit % WordBits = 0)

IInv == TypeOK /\ LoopInv /\ RoundInv

-----------------------------------------------------------------------------
(* Words. *)

LEMMA WordBounds ==
  ASSUME NEW b \in Nat
  PROVE  /\ Word(b) \in Nat
         /\ Word(b) * WordBits <= b
         /\ b < Word(b) * WordBits + WordBits
         /\ b % WordBits = b - Word(b) * WordBits
         /\ b % WordBits \in 0 .. (WordBits - 1)
  BY SearchAssumption DEF Word

LEMMA WordsApart ==
  \A v, w \in Nat : v < w => v * WordBits + WordBits <= w * WordBits
  BY SearchAssumption

LEMMA WordUnique ==
  ASSUME NEW b \in Nat, NEW w \in Nat, w * WordBits <= b, b < w * WordBits + WordBits
  PROVE  Word(b) = w /\ b % WordBits = b - w * WordBits
<1>1. \A x, y \in Nat : x < y => x * WordBits + WordBits <= y * WordBits
  BY WordsApart
<1>2. /\ Word(b) \in Nat /\ b < Word(b) * WordBits + WordBits
      /\ Word(b) * WordBits <= b
      /\ b % WordBits = b - Word(b) * WordBits
  BY WordBounds
<1>3. ~(Word(b) < w)
  <2> SUFFICES ASSUME Word(b) < w PROVE FALSE
    OBVIOUS
  <2>1. Word(b) * WordBits + WordBits <= w * WordBits
    BY <1>1, <1>2
  <2> QED
    BY <1>2, <2>1, SearchAssumption
<1>4. ~(w < Word(b))
  <2> SUFFICES ASSUME w < Word(b) PROVE FALSE
    OBVIOUS
  <2>1. w * WordBits + WordBits <= Word(b) * WordBits
    BY <1>1, <1>2
  <2> QED
    BY <1>2, <2>1, SearchAssumption
<1>5. Word(b) = w
  BY <1>2, <1>3, <1>4
<1> QED
  BY <1>2, <1>5

LEMMA WordMonotone ==
  ASSUME NEW a \in Nat, NEW b \in Nat, a <= b
  PROVE  Word(a) <= Word(b)
<1> SUFFICES ASSUME Word(b) < Word(a) PROVE FALSE
  BY WordBounds
<1>1. /\ Word(a) \in Nat /\ Word(a) * WordBits <= a
      /\ Word(b) \in Nat /\ b < Word(b) * WordBits + WordBits
  BY WordBounds
<1>2. Word(b) * WordBits + WordBits <= Word(a) * WordBits
  BY <1>1, WordsApart
<1> QED
  BY <1>1, <1>2, SearchAssumption

LEMMA MaxOfTwo ==
  ASSUME NEW a \in Int, NEW b \in Int
  PROVE  Max({a, b}) = IF a >= b THEN a ELSE b
  BY DEF Max

LEMMA MinOfTwo ==
  ASSUME NEW a \in Int, NEW b \in Int
  PROVE  Min({a, b}) = IF a <= b THEN a ELSE b
  BY DEF Min

-----------------------------------------------------------------------------
(* Every step keeps the invariant. *)

LEMMA TypeFacts ==
  ASSUME TypeOK
  PROVE  /\ node_bits \in Nat /\ node_bits >= 1 /\ node_bits <= MaxBits
         /\ num_bits \in Nat /\ num_bits >= 1 /\ end_bit \in Int
         /\ curr_bit \in Nat /\ next_bit \in Nat /\ range_bit \in Nat
         /\ \A b \in free_pages : b \in Nat /\ b < node_bits
  BY SearchAssumption DEF TypeOK, end_bit

\* A run that starts at an allocated page, or so late that it leaves the heap, or
\* with an allocated page inside it, does not fit.
LEMMA NotFitting ==
  ASSUME TypeOK, NEW b \in Nat
  PROVE  /\ b \notin free_pages => ~Fits(b)
         /\ b > end_bit => ~Fits(b)
         /\ \A m \in Nat \ free_pages : (b <= m /\ m < b + num_bits) => ~Fits(b)
<1>1. b \in b .. (b + num_bits - 1)
  BY TypeFacts
<1>2. \A m \in Nat : (b <= m /\ m < b + num_bits) => m \in b .. (b + num_bits - 1)
  BY TypeFacts
<1> QED
  BY <1>1, <1>2, TypeFacts DEF Fits, end_bit

\* The search gives up where it has passed over every place a run could start.
LEMMA NoFitLeft ==
  ASSUME TypeOK, NEW bit \in Nat, NoFitBelow(bit),
         \A b \in Nat : (bit <= b /\ b <= end_bit) => ~Fits(b)
  PROVE  NoFitBelow(node_bits)
<1> SUFFICES ASSUME NEW b \in 0 .. (node_bits - 1) PROVE ~Fits(b)
  BY DEF NoFitBelow
<1>1. b \in Nat
  BY TypeFacts
<1>2. CASE b < bit
  BY <1>1, <1>2 DEF NoFitBelow
<1>3. CASE bit <= b /\ b <= end_bit
  BY <1>1, <1>3
<1>4. CASE b > end_bit
  BY <1>1, <1>4, NotFitting
<1> QED
  BY <1>1, <1>2, <1>3, <1>4, TypeFacts

LEMMA NoFitExtends ==
  ASSUME NEW a \in Nat, NEW b \in Nat, NoFitBelow(a),
         \A c \in Nat : (a <= c /\ c < b) => ~Fits(c)
  PROVE  NoFitBelow(b)
<1> SUFFICES ASSUME NEW c \in 0 .. (b - 1) PROVE ~Fits(c)
  BY DEF NoFitBelow
<1>1. c \in Nat /\ c < b /\ (c < a \/ a <= c)
  OBVIOUS
<1>2. c < a => c \in 0 .. (a - 1)
  BY <1>1
<1> QED
  BY <1>1, <1>2 DEF NoFitBelow

LEMMA InitIInv == Init => IInv
<1> SUFFICES ASSUME Init PROVE IInv
  OBVIOUS
<1>1. TypeOK
  BY SearchAssumption DEF Init, TypeOK
<1> QED
  BY <1>1 DEF Init, IInv, LoopInv, RoundInv

LEMMA EnterIInv == ASSUME IInv, Enter PROVE IInv'
<1> USE DEF Goto, heap
<1>1. pc = "entry" /\ curr_bit = 0 /\ TypeOK
  BY DEF Enter, IInv, LoopInv
<1>2. UNCHANGED <<node_bits, free_pages, num_bits, curr_bit, next_bit, range_bit>>
  BY DEF Enter
<1>3. TypeOK'
  BY <1>1, <1>2 DEF Enter, TypeOK
<1>4. CASE num_bits > node_bits
  <2>1. pc' = "none"
    BY <1>4 DEF Enter
  <2>2. NoFitBelow(node_bits)
    <3>1. \A b \in Nat : ~Fits(b)
      BY <1>1, <1>4, TypeFacts DEF Fits
    <3> QED
      BY <1>1, <3>1, TypeFacts DEF NoFitBelow
  <2>3. NoFitBelow(node_bits)'
    BY <1>2, <2>2 DEF NoFitBelow, Fits
  <2> QED
    BY <1>3, <2>1, <2>3 DEF IInv, LoopInv, RoundInv
<1>5. CASE num_bits <= node_bits
  <2>1. pc' = "block"
    BY <1>1, <1>5, TypeFacts DEF Enter
  <2>2. 0 <= end_bit'
    BY <1>1, <1>2, <1>5, TypeFacts DEF end_bit
  <2>3. NoFitBelow(0)'
    BY DEF NoFitBelow
  <2> QED
    BY <1>1, <1>2, <1>3, <1>5, <2>1, <2>2, <2>3 DEF IInv, LoopInv, RoundInv
<1> QED
  BY <1>1, <1>4, <1>5, TypeFacts

LEMMA FindBlockIInv == ASSUME IInv, FindBlock PROVE IInv'
<1> DEFINE first == Word(curr_bit)
           last == Word(end_bit)
           blocks == InRange(avail_blocks, first, last)
<1>1. /\ TypeOK /\ pc = "block" /\ num_bits <= node_bits /\ curr_bit <= end_bit
      /\ NoFitBelow(curr_bit)
      /\ UNCHANGED <<node_bits, free_pages, num_bits, next_bit, range_bit>>
  BY DEF FindBlock, Goto, heap, IInv, LoopInv
<1>2. curr_bit \in Nat /\ end_bit \in Nat /\ end_bit <= MaxBits
  BY <1>1, TypeFacts, SearchAssumption DEF end_bit
<1>3. ASSUME NEW b \in free_pages, curr_bit <= b, b <= end_bit
      PROVE  Word(b) \in avail_blocks /\ first <= Word(b) /\ Word(b) <= last
  BY <1>1, <1>2, <1>3, TypeFacts, WordMonotone DEF avail_blocks
<1>4. end_bit' = end_bit /\ \A b : Fits(b)' = Fits(b)
  BY <1>1 DEF end_bit, Fits
<1>5. CASE blocks = {} /\ pc' = "none" /\ curr_bit' = curr_bit
  <2>1. ASSUME NEW b \in Nat, curr_bit <= b, b <= end_bit PROVE ~Fits(b)
    <3>1. b \notin free_pages
      <4> SUFFICES ASSUME b \in free_pages PROVE FALSE
        OBVIOUS
      <4>1. Word(b) \in avail_blocks /\ first <= Word(b) /\ Word(b) <= last
        BY <1>3, <2>1
      <4>2. /\ Word(b) \in Nat /\ first \in Nat /\ last \in Nat
        BY <1>2, WordBounds
      <4> QED
        BY <1>5, <4>1, <4>2 DEF InRange
    <3> QED
      BY <1>1, <3>1, NotFitting
  <2>2. NoFitBelow(node_bits)'
    BY <1>1, <1>2, <1>4, <2>1, NoFitLeft DEF NoFitBelow
  <2>3. TypeOK'
    BY <1>1, <1>5 DEF TypeOK
  <2> QED
    BY <1>5, <2>2, <2>3 DEF IInv, LoopInv, RoundInv
<1>6. ASSUME NEW block \in bitmap_ffs(blocks), curr_bit' = Skip(curr_bit, block), pc' = "page"
      PROVE  IInv'
  <2>1. /\ block \in avail_blocks /\ block \in Nat /\ first <= block /\ block <= last
        /\ \A w \in avail_blocks : (first <= w /\ w <= last) => block <= w
    <3>1. block \in blocks /\ \A w \in blocks : block <= w
      BY <1>6 DEF bitmap_ffs
    <3>2. /\ avail_blocks \subseteq Nat /\ first \in Nat /\ last \in Nat
      BY <1>1, <1>2, TypeFacts, WordBounds DEF avail_blocks
    <3> QED
      BY <3>1, <3>2 DEF InRange
  <2>2. block * WordBits \in Nat /\ block * WordBits <= end_bit
    <3>1. last \in Nat /\ last * WordBits <= end_bit
      BY <1>2, WordBounds
    <3>2. block = last \/ block < last
      BY <2>1, <3>1
    <3>3. block < last => block * WordBits + WordBits <= last * WordBits
      BY <2>1, <3>1, WordsApart
    <3>4. block * WordBits \in Nat /\ last * WordBits \in Nat
      BY <2>1, <3>1, SearchAssumption
    <3> QED
      BY <1>2, <3>1, <3>2, <3>3, <3>4, SearchAssumption
  <2>3. /\ curr_bit' \in {curr_bit, block * WordBits}
        /\ curr_bit' >= curr_bit /\ curr_bit' >= block * WordBits
    BY <1>2, <1>6, <2>2, MaxOfTwo DEF Skip
  <2>4. curr_bit' \in Nat /\ curr_bit' <= end_bit
    BY <1>1, <1>2, <2>2, <2>3
  <2>5. ASSUME NEW b \in Nat, curr_bit <= b, b < curr_bit' PROVE ~Fits(b)
    <3>1. b < block * WordBits /\ b <= end_bit
      BY <1>2, <2>2, <2>3, <2>4, <2>5
    <3>2. Word(b) < block
      <4>1. Word(b) \in Nat /\ Word(b) * WordBits <= b
        BY WordBounds
      <4>2. Word(b) # block
        BY <2>2, <3>1, <4>1
      <4>3. ~(block < Word(b))
        <5> SUFFICES ASSUME block < Word(b) PROVE FALSE
          OBVIOUS
        <5>1. block * WordBits + WordBits <= Word(b) * WordBits
          BY <2>1, <4>1, WordsApart
        <5>2. Word(b) * WordBits \in Nat
          BY <4>1, SearchAssumption
        <5> QED
          BY <2>2, <3>1, <4>1, <5>1, <5>2, SearchAssumption
      <4> QED
        BY <2>1, <4>1, <4>2, <4>3
    <3>3. b \notin free_pages
      <4> SUFFICES ASSUME b \in free_pages PROVE FALSE
        OBVIOUS
      <4>1. block <= Word(b)
        BY <1>3, <2>1, <2>5, <3>1
      <4>2. Word(b) \in Nat
        BY WordBounds
      <4> QED
        BY <2>1, <3>2, <4>1, <4>2
    <3> QED
      BY <1>1, <3>3, NotFitting
  <2>6. NoFitBelow(curr_bit')
    BY <1>1, <1>2, <2>4, <2>5, NoFitExtends
  <2>7. NoFitBelow(curr_bit)'
    BY <1>4, <2>6 DEF NoFitBelow
  <2>8. TypeOK'
    <3>1. curr_bit' \in 0 .. MaxBits
      BY <1>2, <2>4, SearchAssumption
    <3> QED
      BY <1>1, <1>6, <3>1 DEF TypeOK
  <2> QED
    BY <1>1, <1>4, <1>6, <2>4, <2>7, <2>8 DEF IInv, LoopInv, RoundInv
<1> QED
  BY <1>5, <1>6 DEF FindBlock, Goto

LEMMA FindPageIInv == ASSUME IInv, FindPage PROVE IInv'
<1> DEFINE pages == InRange(free_pages, curr_bit, end_bit)
<1>1. /\ TypeOK /\ pc = "page" /\ num_bits <= node_bits /\ curr_bit <= end_bit
      /\ NoFitBelow(curr_bit)
      /\ UNCHANGED <<node_bits, free_pages, num_bits, curr_bit>>
  BY DEF FindPage, Goto, heap, IInv, LoopInv
<1>2. curr_bit \in Nat /\ end_bit \in Nat /\ end_bit <= MaxBits
  BY <1>1, TypeFacts, SearchAssumption DEF end_bit
<1>3. end_bit' = end_bit /\ \A b : Fits(b)' = Fits(b)
  BY <1>1 DEF end_bit, Fits
<1>4. CASE pages = {} /\ pc' = "none" /\ UNCHANGED <<next_bit, range_bit>>
  <2>1. ASSUME NEW b \in Nat, curr_bit <= b, b <= end_bit PROVE ~Fits(b)
    <3>1. b \notin free_pages
      BY <1>2, <1>4, <2>1 DEF InRange
    <3> QED
      BY <1>1, <3>1, NotFitting
  <2>2. NoFitBelow(node_bits)'
    BY <1>1, <1>2, <1>3, <2>1, NoFitLeft DEF NoFitBelow
  <2>3. TypeOK'
    BY <1>1, <1>4 DEF TypeOK
  <2> QED
    BY <1>4, <2>2, <2>3 DEF IInv, LoopInv, RoundInv
<1>5. ASSUME NEW bit \in bitmap_ffs(pages), next_bit' = bit, range_bit' = bit,
             pc' = "range"
      PROVE  IInv'
  <2>1. /\ bit \in free_pages /\ bit \in Nat /\ curr_bit <= bit /\ bit <= end_bit
        /\ \A c \in free_pages : (curr_bit <= c /\ c <= end_bit) => bit <= c
    <3>1. bit \in pages /\ \A c \in pages : bit <= c
      BY <1>5 DEF bitmap_ffs
    <3>2. \A c \in free_pages : c \in Nat
      BY <1>1, TypeFacts
    <3> QED
      BY <1>2, <3>1, <3>2 DEF InRange
  <2>2. ASSUME NEW b \in Nat, curr_bit <= b, b < bit PROVE ~Fits(b)
    <3>1. b \notin free_pages
      BY <1>2, <2>1, <2>2
    <3> QED
      BY <1>1, <3>1, NotFitting
  <2>3. NoFitBelow(bit)
    BY <1>1, <1>2, <2>1, <2>2, NoFitExtends
  <2>4. NoFitBelow(next_bit)'
    BY <1>3, <1>5, <2>3 DEF NoFitBelow
  <2>5. TypeOK'
    <3>1. bit \in 0 .. MaxBits
      BY <1>2, <2>1, SearchAssumption
    <3> QED
      BY <1>1, <1>5, <3>1 DEF TypeOK
  <2>6. /\ (next_bit <= range_bit)' /\ (range_bit <= next_bit + num_bits)'
        /\ (next_bit .. (range_bit - 1) \subseteq free_pages)'
    BY <1>1, <1>5, <2>1, TypeFacts
  <2> QED
    BY <1>1, <1>3, <1>5, <2>1, <2>4, <2>5, <2>6 DEF IInv, LoopInv, RoundInv
<1> QED
  BY <1>4, <1>5 DEF FindPage, Goto

\* The round: not empty, inside the run, and in one word.
LEMMA RoundFacts ==
  ASSUME IInv, pc = "range", rem_bits > 0
  PROVE  /\ width \in Nat /\ width >= 1 /\ width <= rem_bits
         /\ rem_bits \in Nat
         /\ width < rem_bits => (range_bit + width) % WordBits = 0
         /\ Word(range_bit) = Word(range_bit + width - 1)
<1> DEFINE i == range_bit % WordBits
           w == Word(range_bit)
<1>1. /\ range_bit \in Nat /\ rem_bits \in Int /\ num_bits \in Nat /\ next_bit \in Nat
  BY TypeFacts DEF IInv, rem_bits
<1>2. /\ i \in 0 .. (WordBits - 1) /\ w \in Nat /\ i = range_bit - w * WordBits
      /\ w * WordBits \in Nat /\ WordBits \in Nat
  BY <1>1, WordBounds, SearchAssumption
<1>3. width = IF rem_bits <= WordBits - i THEN rem_bits ELSE WordBits - i
  <2>1. WordBits - i \in Int
    BY <1>2
  <2> QED
    BY <1>1, <2>1, MinOfTwo DEF width
<1> HIDE DEF i, w
<1>4. width \in Nat /\ width >= 1 /\ width <= rem_bits /\ width <= WordBits - i
  BY <1>1, <1>2, <1>3
<1>5. Word(range_bit + width - 1) = w
  <2>1. /\ range_bit + width - 1 \in Nat
        /\ w * WordBits <= range_bit + width - 1
        /\ range_bit + width - 1 < w * WordBits + WordBits
    BY <1>1, <1>2, <1>4
  <2> QED
    BY <1>2, <2>1, WordUnique
<1>6. ASSUME width < rem_bits PROVE (range_bit + width) % WordBits = 0
  <2>1. range_bit + width = w * WordBits + WordBits
    BY <1>1, <1>2, <1>3, <1>6
  <2>2. (w + 1) * WordBits = w * WordBits + WordBits
    BY <1>2
  <2>3. /\ range_bit + width \in Nat /\ w + 1 \in Nat
        /\ (w + 1) * WordBits <= range_bit + width
        /\ range_bit + width < (w + 1) * WordBits + WordBits
        /\ (range_bit + width) - (w + 1) * WordBits = 0
    BY <1>1, <1>2, <1>4, <2>1, <2>2, SearchAssumption
  <2> QED
    BY <2>3, WordUnique
<1>7. w = Word(range_bit)
  BY DEF w
<1> QED
  BY <1>1, <1>4, <1>5, <1>6, <1>7

LEMMA CheckRangeIInv == ASSUME IInv, CheckRange PROVE IInv'
<1>1. /\ TypeOK /\ pc = "range" /\ num_bits <= node_bits /\ next_bit <= end_bit
      /\ NoFitBelow(next_bit) /\ next_bit <= range_bit
      /\ range_bit <= next_bit + num_bits
      /\ next_bit .. (range_bit - 1) \subseteq free_pages
      /\ UNCHANGED <<node_bits, free_pages, num_bits, next_bit>>
  BY DEF CheckRange, Goto, heap, IInv, LoopInv
<1>2. /\ next_bit \in Nat /\ range_bit \in Nat /\ num_bits \in Nat /\ rem_bits \in Nat
      /\ end_bit \in Nat /\ next_bit + num_bits <= node_bits /\ node_bits <= MaxBits
      /\ MaxBits \in Nat /\ num_bits >= 1 /\ node_bits \in Nat
  BY <1>1, TypeFacts, SearchAssumption DEF end_bit, rem_bits
<1>3. end_bit' = end_bit /\ \A b : Fits(b)' = Fits(b)
  BY <1>1 DEF end_bit, Fits
<1>4. CASE rem_bits = 0 /\ pc' = "found" /\ UNCHANGED <<curr_bit, range_bit>>
  <2>1. TypeOK'
    BY <1>1, <1>4 DEF TypeOK
  <2>2. rem_bits' = 0
    BY <1>1, <1>4 DEF rem_bits
  <2>3. NoFitBelow(next_bit)'
    BY <1>1, <1>3 DEF NoFitBelow
  <2> QED
    BY <1>1, <1>3, <1>4, <2>1, <2>2, <2>3 DEF IInv, LoopInv, RoundInv
<1>5. CASE /\ rem_bits > 0 /\ Round \subseteq free_pages
           /\ range_bit' = range_bit + width /\ pc' = "range" /\ curr_bit' = curr_bit
  <2>1. /\ width \in Nat /\ width >= 1 /\ width <= rem_bits
        /\ width < rem_bits => (range_bit + width) % WordBits = 0
    BY <1>1, <1>5, RoundFacts
  <2>2. /\ range_bit' \in Nat /\ range_bit' <= next_bit + num_bits
        /\ next_bit <= range_bit'
    BY <1>1, <1>2, <1>5, <2>1 DEF rem_bits
  <2>3. next_bit .. (range_bit' - 1) \subseteq free_pages
    <3> SUFFICES ASSUME NEW b \in next_bit .. (range_bit' - 1) PROVE b \in free_pages
      OBVIOUS
    <3>1. b \in next_bit .. (range_bit - 1) \/ b \in Round
      BY <1>2, <1>5, <2>1, <2>2 DEF Round
    <3> QED
      BY <1>1, <1>5, <3>1
  <2>4. rem_bits' > 0 => range_bit' % WordBits = 0
    <3>1. rem_bits' = rem_bits - width
      BY <1>1, <1>2, <1>5, <2>1 DEF rem_bits
    <3> QED
      BY <1>2, <1>5, <2>1, <3>1
  <2>5. TypeOK'
    <3>1. range_bit' \in 0 .. MaxBits
      BY <1>2, <2>2
    <3> QED
      BY <1>1, <1>5, <3>1 DEF TypeOK
  <2>6. NoFitBelow(next_bit)'
    BY <1>1, <1>3 DEF NoFitBelow
  <2>7. LoopInv'
    BY <1>1, <1>3, <1>5, <2>2, <2>3, <2>6 DEF LoopInv
  <2> QED
    BY <1>5, <2>4, <2>5, <2>7 DEF IInv, RoundInv
<1>6. ASSUME rem_bits > 0, NEW bit \in After(Round \ free_pages), curr_bit' = bit,
             pc' = (IF bit <= end_bit THEN "block" ELSE "none"), range_bit' = range_bit
      PROVE  IInv'
  <2>1. PICK m \in Round \ free_pages : bit = m + 1
    BY <1>6 DEF After, compiler_msb
  <2>2. /\ m \in Nat /\ next_bit <= m /\ m < next_bit + num_bits /\ m \notin free_pages
    <3>1. width \in Nat /\ width <= rem_bits
      BY <1>1, <1>6, RoundFacts
    <3> QED
      BY <1>1, <1>2, <2>1, <3>1 DEF Round, rem_bits
  <2>3. bit \in Nat /\ bit \in 0 .. MaxBits
    BY <1>2, <2>1, <2>2
  <2>4. ASSUME NEW b \in Nat, next_bit <= b, b < bit PROVE ~Fits(b)
    <3>1. b <= m /\ m < b + num_bits
      BY <1>2, <2>1, <2>2, <2>4
    <3> QED
      BY <1>1, <2>2, <3>1, NotFitting
  <2>5. NoFitBelow(bit)
    BY <1>1, <1>2, <2>3, <2>4, NoFitExtends
  <2>6. TypeOK'
    <3>1. pc' \in {"block", "none"}
      BY <1>6
    <3> QED
      BY <1>1, <1>6, <2>3, <3>1 DEF TypeOK
  <2>7. CASE bit <= end_bit
    <3>1. pc' = "block" /\ NoFitBelow(curr_bit)' /\ curr_bit' <= end_bit'
      BY <1>3, <1>6, <2>5, <2>7 DEF NoFitBelow
    <3> QED
      BY <1>1, <2>6, <3>1 DEF IInv, LoopInv, RoundInv
  <2>8. CASE ~(bit <= end_bit)
    <3>1. NoFitBelow(node_bits)
      <4>1. \A b \in Nat : ~(bit <= b /\ b <= end_bit)
        BY <1>2, <2>3, <2>8
      <4> QED
        BY <1>1, <2>3, <2>5, <4>1, NoFitLeft
    <3>2. pc' = "none" /\ NoFitBelow(node_bits)'
      BY <1>1, <1>3, <1>6, <2>8, <3>1 DEF NoFitBelow
    <3> QED
      BY <2>6, <3>2 DEF IInv, LoopInv, RoundInv
  <2> QED
    BY <2>7, <2>8
<1> QED
  BY <1>4, <1>5, <1>6 DEF CheckRange, Goto

LEMMA NextIInv == IInv /\ [Next]_vars => IInv'
<1> SUFFICES ASSUME IInv, [Next]_vars PROVE IInv'
  OBVIOUS
<1>1. CASE UNCHANGED vars
  BY <1>1
  DEF vars, IInv, TypeOK, LoopInv, RoundInv, NoFitBelow, Fits, end_bit, rem_bits
<1> QED
  BY <1>1, EnterIInv, FindBlockIInv, FindPageIInv, CheckRangeIInv DEF Next

LEMMA SpecIInv == Spec => []IInv
  BY InitIInv, NextIInv, PTL DEF Spec

-----------------------------------------------------------------------------
(* The theorems. *)

\* The search never leaves the heap's bitmap.
THEOREM TypeCorrect == Spec => []TypeOK
<1>1. IInv => TypeOK
  BY DEF IInv
<1> QED
  BY <1>1, SpecIInv, PTL

\* search_free_mmap_range returns the first place where the pages fit, and fails
\* only if they fit nowhere, whatever the word size: skipping words without free
\* pages and restarting after an allocated page pass over no fit.
THEOREM SearchIsFirstFit == Spec => []FirstFit
<1>1. IInv => FirstFit
  <2> SUFFICES ASSUME IInv PROVE FirstFit
    OBVIOUS
  <2>1. CASE pc = "found"
    <3>1. /\ next_bit <= end_bit /\ NoFitBelow(next_bit) /\ rem_bits = 0
          /\ next_bit .. (range_bit - 1) \subseteq free_pages
      BY <2>1 DEF IInv, LoopInv
    <3>2. range_bit = next_bit + num_bits /\ next_bit + num_bits <= node_bits
      BY <3>1, TypeFacts DEF IInv, rem_bits, end_bit
    <3>3. Fits(next_bit)
      BY <3>1, <3>2, TypeFacts DEF Fits, IInv
    <3> QED
      BY <2>1, <3>1, <3>3 DEF FirstFit, NoFitBelow
  <2>2. CASE pc = "none"
    BY <2>2 DEF IInv, LoopInv, FirstFit, NoFitBelow
  <2> QED
    BY <2>1, <2>2 DEF FirstFit
<1> QED
  BY <1>1, SpecIInv, PTL

\* No assertion of the search, of bitmap_ffs or of bitmap_extract fails: a search
\* of words is never given an empty range, and a round never leaves its word.
THEOREM SearchAssertsHold == Spec => []AssertsHold
<1>1. IInv => AssertsHold
  <2> SUFFICES ASSUME IInv PROVE AssertsHold
    OBVIOUS
  <2>1. pc = "block" => Word(curr_bit) <= Word(end_bit)
    <3> SUFFICES ASSUME pc = "block" PROVE Word(curr_bit) <= Word(end_bit)
      OBVIOUS
    <3>1. curr_bit \in Nat /\ end_bit \in Nat /\ curr_bit <= end_bit
      BY TypeFacts DEF IInv, LoopInv, end_bit
    <3> QED
      BY <3>1, WordMonotone
  <2>2. pc = "page" => curr_bit <= end_bit
    BY DEF IInv, LoopInv
  <2>3. (pc = "range" /\ rem_bits > 0) =>
          /\ range_bit = next_bit \/ range_bit % WordBits = 0
          /\ Word(range_bit) = Word(range_bit + width - 1)
    BY RoundFacts DEF IInv, RoundInv
  <2> QED
    BY <2>1, <2>2, <2>3 DEF AssertsHold
<1> QED
  BY <1>1, SpecIInv, PTL
=============================================================================
