------------------------------ MODULE MmapSearch ------------------------------
(***************************************************************************)
(* The search for a run of free pages in one heap's bitmaps, a word at a    *)
(* time: search_free_mmap_range and mmap_range_is_free                      *)
(* (src/src/mmap.c), with the bitmap_ffs of src/src/bitmap.c.  Mmap says    *)
(* what the search returns (FirstBit); this is how it gets there.           *)
(*                                                                          *)
(* A bitmap is the set of its set bits.  avail_blocks has the words of      *)
(* free_pages that are not zero, which is Mmap's AvailIsExact.              *)
(***************************************************************************)
EXTENDS Integers, FiniteSets, FiniteSetsExt

CONSTANTS
  WordBits,  \* BITMAP_WORD_BITS
  MaxBits    \* bound: pages in a heap

ASSUME SearchAssumption == WordBits \in Nat \ {0} /\ MaxBits \in Nat \ {0}

VARIABLES
  node_bits,   \* pages in the heap
  free_pages,  \* its bitmap
  num_bits,    \* pages wanted
  curr_bit,    \* where the search is
  next_bit,    \* the start of the run being looked at
  range_bit,   \* curr_bit of mmap_range_is_free: how far that has got
  pc

heap == <<node_bits, free_pages, num_bits>>
vars == <<node_bits, free_pages, num_bits, curr_bit, next_bit, range_bit, pc>>

Word(bit) == bit \div WordBits

avail_blocks == {Word(b) : b \in free_pages}

\* Mutant: the last place where a run fits is not looked at.
end_bit_Less == node_bits - num_bits - 1

\* The last bit a run can start at.
end_bit == node_bits - num_bits

\* The bits set from start to end, which bitmap_ffs looks at.
InRange(bits, start, end) == bits \cap (start .. end)

\* bitmap_ffs: the first of some bits, if there is one.
bitmap_ffs(bits) == {b \in bits : \A c \in bits : b <= c}

\* sys_mmap refuses a length of 0.
Init ==
  /\ node_bits \in 1 .. MaxBits
  /\ free_pages \in SUBSET (0 .. (node_bits - 1))
  /\ num_bits \in 1 .. (MaxBits + 1)
  /\ curr_bit = 0 /\ next_bit = 0 /\ range_bit = 0
  /\ pc = "entry"

Goto(label) == pc' = label /\ UNCHANGED heap

\* A run longer than the heap is not searched for.
Enter ==
  /\ pc = "entry"
  /\ Goto(IF num_bits > node_bits THEN "none" ELSE "block")
  /\ UNCHANGED <<curr_bit, next_bit, range_bit>>

\* Where to go on in block, the next with free pages.
Skip(bit, block) == Max({bit, block * WordBits})

FindBlock ==
  /\ pc = "block"
  /\ LET blocks == InRange(avail_blocks, Word(curr_bit), Word(end_bit))
     IN  \/ blocks = {} /\ Goto("none") /\ UNCHANGED curr_bit
         \/ \E block \in bitmap_ffs(blocks) :
              curr_bit' = Skip(curr_bit, block) /\ Goto("page")
  /\ UNCHANGED <<next_bit, range_bit>>

FindPage ==
  /\ pc = "page"
  /\ LET pages == InRange(free_pages, curr_bit, end_bit)
     IN  \/ pages = {} /\ Goto("none") /\ UNCHANGED <<next_bit, range_bit>>
         \/ \E bit \in bitmap_ffs(pages) :
              next_bit' = bit /\ range_bit' = bit /\ Goto("range")
  /\ UNCHANGED curr_bit

\* The bits the next round of mmap_range_is_free looks at: in one word.
rem_bits == next_bit + num_bits - range_bit

\* Mutant: a round is not cut at the end of its word when it starts inside one.
width_NotCut == Min({rem_bits, WordBits})

width == Min({rem_bits, WordBits - (range_bit % WordBits)})

Round == range_bit .. (range_bit + width - 1)

\* compiler_msb: the last of some bits.
compiler_msb(bits) == {b \in bits : \A c \in bits : c <= b}

\* Mutant: the search goes on where this round began.
After_Start(allocated) == {range_bit}

\* Mutant: the search goes on a bit too far.
After_TooFar(allocated) == {b + 2 : b \in compiler_msb(allocated)}

\* Where the search goes on: after the last allocated page of the round.
After(allocated) == {b + 1 : b \in compiler_msb(allocated)}

CheckRange ==
  /\ pc = "range"
  /\ \/ rem_bits = 0 /\ Goto("found") /\ UNCHANGED <<curr_bit, range_bit>>
     \/ /\ rem_bits > 0 /\ Round \subseteq free_pages
        /\ range_bit' = range_bit + width
        /\ Goto("range")
        /\ UNCHANGED curr_bit
     \/ /\ rem_bits > 0 /\ ~(Round \subseteq free_pages)
        /\ \E bit \in After(Round \ free_pages) :
             /\ curr_bit' = bit
             /\ Goto(IF bit <= end_bit THEN "block" ELSE "none")
        /\ UNCHANGED range_bit
  /\ UNCHANGED next_bit

Done == pc \in {"found", "none"}

Next == Enter \/ FindBlock \/ FindPage \/ CheckRange

Spec == Init /\ [][Next]_vars /\ WF_vars(Next)

-----------------------------------------------------------------------------
(* Properties. *)

\* A run of num_bits free pages starts at b.
Fits(b) ==
  b + num_bits <= node_bits /\ b .. (b + num_bits - 1) \subseteq free_pages

\* The types of the variables.
TypeOK ==
  /\ node_bits \in 1 .. MaxBits
  /\ free_pages \subseteq 0 .. (node_bits - 1)
  /\ num_bits \in 1 .. (MaxBits + 1)
  /\ {curr_bit, next_bit, range_bit} \subseteq 0 .. MaxBits
  /\ pc \in {"entry", "block", "page", "range", "found", "none"}

\* The search is a first fit that never fails when there is a fit: what Mmap's
\* FirstBit takes it for.
FirstFit ==
  /\ pc = "found" => (Fits(next_bit) /\ \A b \in 0 .. (next_bit - 1) : ~Fits(b))
  /\ pc = "none" => \A b \in 0 .. (node_bits - 1) : ~Fits(b)

\* The assertions of the two loops and of bitmap_find_first and bitmap_extract.
AssertsHold ==
  /\ pc = "block" => Word(curr_bit) <= Word(end_bit)
  /\ pc = "page" => curr_bit <= end_bit
  /\ (pc = "range" /\ rem_bits > 0) =>
       /\ range_bit = next_bit \/ range_bit % WordBits = 0
       /\ Word(range_bit) = Word(range_bit + width - 1)

\* The search ends: every round that fails moves it on.
SearchEnds == <>Done
=============================================================================
