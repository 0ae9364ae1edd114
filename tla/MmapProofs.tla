----------------------------- MODULE MmapProofs -----------------------------
(***************************************************************************)
(* Proofs about the memory allocator, for every set of heaps and ranges,    *)
(* every word size and every page size.                                     *)
(***************************************************************************)
EXTENDS Mmap, FiniteSetTheorems, WellFoundedInduction, TLAPS

-----------------------------------------------------------------------------
(* Heaps and their metadata. *)

LEMMA DivIsNat ==
  ASSUME NEW x \in Nat, NEW d \in Nat \ {0}
  PROVE  x \div d \in Nat
  OBVIOUS

LEMMA HeapsAreRanges == Heaps \subseteq [base : Nat \ {0}, size : Nat \ {0}]
<1> SUFFICES ASSUME NEW r \in MemRanges, RangeIsValid(r)
             PROVE  HeapOf(r) \in [base : Nat \ {0}, size : Nat \ {0}]
  BY BrkHeapAssumption DEF Heaps
<1>1. r.base \in Nat /\ r.size \in Nat
  BY ArgsAssumption, SizesAssumption DEF Halves
<1>2. r.base \div 2 \in Nat \ {0} /\ r.size \div 2 \in Nat \ {0}
  BY <1>1 DEF RangeIsValid, IsAligned
<1> QED
  BY <1>2 DEF HeapOf

LEMMA WordIsNat == \A b \in Nat : Word(b) \in Nat
  BY SizesAssumption, DivIsNat DEF Word

LEMMA MetaPagesIsNat == \A h \in Heaps : MetaPages(h) \in Nat
<1> TAKE h \in Heaps
<1>1. h.size \in Nat
  BY HeapsAreRanges
<1>2. \A x \in Nat : NumWords(x) \in Nat
  <2> TAKE x \in Nat
  <2>1. x + WordBits - 1 \in Nat
    BY SizesAssumption
  <2> QED
    BY <2>1, SizesAssumption, DivIsNat DEF NumWords
<1>3. NumWords(NumWords(h.size)) + NumWords(h.size) \in Nat
  BY <1>1, <1>2
<1>4. \A x, y \in Nat : x * y \in Nat
  OBVIOUS
<1>5. MetaBytes(h) \in Nat
  BY <1>3, <1>4, SizesAssumption DEF MetaBytes
<1>6. MetaBytes(h) + PageBytes - 1 \in Nat
  BY <1>5, SizesAssumption
<1> QED
  BY <1>6, SizesAssumption, DivIsNat DEF MetaPages

-----------------------------------------------------------------------------
(* The list of heaps: what list_append and list_remove do to it. *)

LEMMA RemoveAtIndex ==
  ASSUME NEW S, NEW s \in Seq(S), NEW i \in 1 .. Len(s)
  PROVE  /\ RemoveAt(s, i) \in Seq(S)
         /\ Len(RemoveAt(s, i)) = Len(s) - 1
         /\ \A k \in 1 .. (Len(s) - 1) :
              RemoveAt(s, i)[k] = IF k < i THEN s[k] ELSE s[k + 1]
<1> DEFINE front == SubSeq(s, 1, i - 1)
           back == SubSeq(s, i + 1, Len(s))
<1>1. /\ front \in Seq(S)
      /\ Len(front) = i - 1
      /\ \A k \in 1 .. (i - 1) : front[k] = s[k]
  OBVIOUS
<1>2. /\ back \in Seq(S)
      /\ Len(back) = Len(s) - i
      /\ \A k \in 1 .. (Len(s) - i) : back[k] = s[k + i]
  OBVIOUS
<1>3. RemoveAt(s, i) = front \o back
  BY DEF RemoveAt
<1> HIDE DEF front, back
<1>4. Len(front \o back) = Len(s) - 1 /\ front \o back \in Seq(S)
  BY <1>1, <1>2
<1>5. ASSUME NEW k \in 1 .. (Len(s) - 1)
      PROVE  (front \o back)[k] = IF k < i THEN s[k] ELSE s[k + 1]
  <2>1. CASE k < i
    BY <2>1, <1>1, <1>2
  <2>2. CASE k >= i
    <3>1. (front \o back)[k] = back[k - (i - 1)]
      BY <2>2, <1>1, <1>2
    <3>2. k - (i - 1) \in 1 .. (Len(s) - i)
      BY <2>2
    <3> QED
      BY <3>1, <3>2, <1>2, <2>2
  <2>3. k < i \/ k >= i
    OBVIOUS
  <2> QED
    BY <2>1, <2>2, <2>3
<1> QED
  BY <1>3, <1>4, <1>5

\* The heaps of the list never overlap, each given as memory of its own, and the
\* break's heap is never taken out of it.
HeapsApart ==
  /\ BrkHeap \in Listed
  /\ \A i, j \in DOMAIN mmap_node_list :
       i # j => Disjoint(mmap_node_list[i], mmap_node_list[j])

\* A heap taken out of a list that names it once is no longer named; the others
\* still are, and are still apart.
LEMMA RemoveHeap ==
  ASSUME mmap_node_list \in Seq(Heaps), HeapsApart,
         NEW i \in DOMAIN mmap_node_list,
         mmap_node_list[i] # BrkHeap,
         mmap_node_list' = RemoveAt(mmap_node_list, i)
  PROVE  /\ mmap_node_list' \in Seq(Heaps)
         /\ HeapsApart'
         /\ Listed' = Listed \ {mmap_node_list[i]}
<1> DEFINE s == mmap_node_list
           t == RemoveAt(s, i)
<1>1. /\ t \in Seq(Heaps)
      /\ Len(t) = Len(s) - 1
      /\ \A k \in 1 .. (Len(s) - 1) : t[k] = IF k < i THEN s[k] ELSE s[k + 1]
  <2>1. s \in Seq(Heaps) /\ i \in 1 .. Len(s)
    OBVIOUS
  <2> HIDE DEF s
  <2> QED
    BY ONLY <2>1, RemoveAtIndex
<1>2. \A j, k \in DOMAIN s : j # k => s[j] # s[k]
  <2> SUFFICES ASSUME NEW j \in DOMAIN s, NEW k \in DOMAIN s, j # k, s[j] = s[k]
               PROVE  FALSE
    OBVIOUS
  <2>1. s[j] \in Heaps
    OBVIOUS
  <2>2. s[j].base \in Pages(s[j])
    BY <2>1, HeapsAreRanges DEF Pages, Run
  <2> QED
    BY <2>2 DEF HeapsApart, Disjoint
<1>3. \A k \in DOMAIN t : \E j \in DOMAIN s \ {i} : t[k] = s[j]
  <2> TAKE k \in DOMAIN t
  <2>1. k \in 1 .. (Len(s) - 1)
    BY <1>1
  <2>2. CASE k < i
    BY <2>1, <2>2, <1>1
  <2>3. CASE k >= i
    <3>1. k + 1 \in DOMAIN s \ {i} /\ t[k] = s[k + 1]
      BY <2>1, <2>3, <1>1
    <3> QED
      BY <3>1
  <2> QED
    BY <2>1, <2>2, <2>3
<1>4. \A j \in DOMAIN s \ {i} : \E k \in DOMAIN t : t[k] = s[j]
  <2> TAKE j \in DOMAIN s \ {i}
  <2>1. CASE j < i
    BY <2>1, <1>1
  <2>2. CASE j > i
    <3>1. j - 1 \in DOMAIN t /\ t[j - 1] = s[j]
      BY <2>2, <1>1
    <3> QED
      BY <3>1
  <2> QED
    BY <2>1, <2>2
<1>5. Listed' = Listed \ {s[i]}
  BY <1>2, <1>3, <1>4 DEF Listed
<1>6. \A k, l \in DOMAIN t : k # l =>
        \E j, m \in DOMAIN s : j # m /\ t[k] = s[j] /\ t[l] = s[m]
  <2> SUFFICES ASSUME NEW k \in DOMAIN t, NEW l \in DOMAIN t, k # l
               PROVE  \E j, m \in DOMAIN s : j # m /\ t[k] = s[j] /\ t[l] = s[m]
    OBVIOUS
  <2> DEFINE at(n) == IF n < i THEN n ELSE n + 1
  <2>1. /\ at(k) \in DOMAIN s /\ t[k] = s[at(k)]
        /\ at(l) \in DOMAIN s /\ t[l] = s[at(l)]
        /\ at(k) # at(l)
    BY <1>1
  <2> QED
    BY <2>1
<1>7. HeapsApart'
  <2>1. BrkHeap \in Listed'
    BY <1>5 DEF HeapsApart
  <2> QED
    BY <2>1, <1>6 DEF HeapsApart
<1> QED
  BY <1>1, <1>5, <1>7

LEMMA AppendHeap ==
  ASSUME mmap_node_list \in Seq(Heaps), HeapsApart,
         NEW h \in Heaps,
         \A g \in Listed : Disjoint(g, h),
         mmap_node_list' = Append(mmap_node_list, h)
  PROVE  /\ mmap_node_list' \in Seq(Heaps)
         /\ HeapsApart'
         /\ Listed' = Listed \cup {h}
         /\ h \notin Listed
<1> DEFINE s == mmap_node_list
           t == Append(s, h)
<1>1. /\ t \in Seq(Heaps)
      /\ DOMAIN t = DOMAIN s \cup {Len(s) + 1}
      /\ \A k \in DOMAIN s : t[k] = s[k]
      /\ t[Len(s) + 1] = h
      /\ Len(s) + 1 \notin DOMAIN s
  OBVIOUS
<1>2. Listed' = Listed \cup {h}
  BY <1>1 DEF Listed
<1>3. h \notin Listed
  <2>1. h.base \in Pages(h)
    BY HeapsAreRanges DEF Pages, Run
  <2> QED
    BY <2>1 DEF Disjoint
<1>4. \A k, l \in DOMAIN t : k # l => Disjoint(t[k], t[l])
  <2> SUFFICES ASSUME NEW k \in DOMAIN t, NEW l \in DOMAIN t, k # l
               PROVE  Disjoint(t[k], t[l])
    OBVIOUS
  <2>1. CASE k \in DOMAIN s /\ l \in DOMAIN s
    BY <2>1, <1>1 DEF HeapsApart
  <2>2. CASE k \in DOMAIN s /\ l = Len(s) + 1
    BY <2>2, <1>1 DEF Listed
  <2>3. CASE k = Len(s) + 1 /\ l \in DOMAIN s
    BY <2>3, <1>1 DEF Listed, Disjoint
  <2> QED
    BY <2>1, <2>2, <2>3, <1>1
<1> QED
  BY <1>1, <1>2, <1>3, <1>4 DEF HeapsApart

-----------------------------------------------------------------------------
(* Counting pages. *)

LEMMA RunCard ==
  ASSUME NEW a \in Int, NEW n \in Nat
  PROVE  IsFiniteSet(Run(a, n)) /\ Cardinality(Run(a, n)) = n
  BY FS_Interval DEF Run

LEMMA UnionCard ==
  ASSUME NEW S, NEW T, IsFiniteSet(S), IsFiniteSet(T), S \cap T = {}
  PROVE  /\ IsFiniteSet(S \cup T)
         /\ Cardinality(S \cup T) = Cardinality(S) + Cardinality(T)
         /\ Cardinality(S \cup T) \in Nat
<1>1. Cardinality(S \cap T) = 0
  BY FS_EmptySet
<1> QED
  BY <1>1, FS_Union, FS_CardinalityType

LEMMA DifferenceCard ==
  ASSUME NEW S, NEW T, IsFiniteSet(S), T \subseteq S
  PROVE  /\ IsFiniteSet(S \ T)
         /\ Cardinality(S \ T) = Cardinality(S) - Cardinality(T)
         /\ Cardinality(S \ T) \in Nat
<1>1. S \cap T = T
  OBVIOUS
<1> QED
  BY <1>1, FS_Difference, FS_CardinalityType

LEMMA PagesOfElement == \A S, p : p \in PagesOf(S) <=> \E h \in S : p \in Pages(h)
  BY DEF PagesOf

LEMMA PagesOfMore == \A S, h : PagesOf(S \cup {h}) = PagesOf(S) \cup Pages(h)
  BY PagesOfElement

LEMMA PagesOfFewer ==
  ASSUME NEW S, NEW h \in S, \A g \in S : g # h => Pages(g) \cap Pages(h) = {}
  PROVE  PagesOf(S \ {h}) = PagesOf(S) \ Pages(h)
  BY PagesOfElement

\* The heaps of the allocator lie in the address space, without page 0.
LEMMA HeapsFit ==
  /\ \A h \in Heaps : h.size < AddrPages
  /\ \A h \in Heaps : Pages(h) \subseteq 1 .. (AddrPages - 1)
<1>1. /\ BrkHeap.base \in Nat \ {0} /\ BrkHeap.size \in Nat \ {0}
      /\ BrkHeap.base + BrkHeap.size <= AddrPages
  BY BrkHeapAssumption, SizesAssumption
<1>2. ASSUME NEW r \in MemRanges, RangeIsValid(r)
      PROVE  HeapOf(r).base + HeapOf(r).size <= AddrPages
  <2>1. r.base \in Nat /\ r.size \in Nat /\ r.base + r.size < 2 * AddrPages
    BY <1>2, ArgsAssumption, SizesAssumption DEF Halves, RangeIsValid, AddOverflows
  <2>2. r.base \div 2 + r.size \div 2 <= AddrPages
    BY <2>1, SizesAssumption
  <2> QED
    BY <2>2 DEF HeapOf
<1>3. \A h \in Heaps : /\ h.base \in Nat \ {0} /\ h.size \in Nat \ {0}
                      /\ h.base + h.size <= AddrPages
  BY <1>1, <1>2, HeapsAreRanges DEF Heaps
<1> QED
  BY <1>3, SizesAssumption DEF Pages, Run

\* So the number of pages of any part of them is below AddrPages: a size_t holds it.
LEMMA CountsFit ==
  ASSUME Listed \subseteq Heaps, NEW S, S \subseteq PagesOf(Listed)
  PROVE  /\ IsFiniteSet(S)
         /\ Cardinality(S) \in Nat
         /\ SizeT(Cardinality(S)) = Cardinality(S)
<1> DEFINE space == 1 .. (AddrPages - 1)
<1>1. IsFiniteSet(space) /\ Cardinality(space) = AddrPages - 1
  BY SizesAssumption, FS_Interval
<1>2. S \subseteq space
  BY HeapsFit, PagesOfElement
<1> HIDE DEF space
<1>3. IsFiniteSet(S) /\ Cardinality(S) \in Nat /\ Cardinality(S) <= Cardinality(space)
  BY <1>1, <1>2, FS_Subset, FS_CardinalityType
<1>4. Cardinality(S) < AddrPages
  BY <1>1, <1>3, SizesAssumption
<1>5. \A x \in Nat : x < AddrPages => x % AddrPages = x
  BY SizesAssumption
<1> QED
  BY <1>3, <1>4, <1>5 DEF SizeT

-----------------------------------------------------------------------------
(* The inductive invariant.  PagesAccountedFor says it of sets of pages;     *)
(* PageInv says the same page by page, the form in which a step keeps it.    *)

PageInv ==
  /\ \A h \in Listed :
       /\ MetaPages(h) < h.size
       /\ node[h].free_pages \subseteq MetaPages(h) .. (h.size - 1)
  /\ \A b \in node[BrkHeap].free_pages : brk_top <= PageAt(BrkHeap, b)
  /\ \A h \in Listed : \A p \in owned \cap Pages(h) :
       /\ MetaPages(h) <= p - h.base
       /\ p - h.base \notin node[h].free_pages
       /\ h = BrkHeap => brk_top <= p
  /\ \A h \in Listed : \A b \in MetaPages(h) .. (h.size - 1) :
       \/ b \in node[h].free_pages
       \/ PageAt(h, b) \in owned
       \/ h = BrkHeap /\ PageAt(h, b) < brk_top
  /\ \A p \in owned : \E h \in Listed : p \in Pages(h)
  /\ brk_base <= cur_brk
  /\ cur_brk <= brk_top
  /\ brk_top <= BrkHeap.base + BrkHeap.size

CountInv ==
  /\ SizesAreExact
  /\ IsFiniteSet(owned)
  /\ IsFiniteSet(PagesOf(Listed))

IInv ==
  TypeOK /\ HeapsApart /\ AvailIsExact /\ CountInv /\ NoAssertFails /\ PageInv

LEMMA ListedFacts ==
  ASSUME TypeOK, HeapsApart
  PROVE  /\ Listed \subseteq Heaps
         /\ BrkHeap \in Listed
         /\ \A g, h \in Listed : g # h => Disjoint(g, h)
         /\ \A h \in Heaps : h.base \in Nat /\ h.size \in Nat /\ MetaPages(h) \in Nat
         /\ brk_base \in Nat
<1>1. Listed \subseteq Heaps
  BY DEF TypeOK, Listed
<1>2. \A g, h \in Listed : g # h => Disjoint(g, h)
  BY DEF HeapsApart, Listed
<1>3. \A h \in Heaps : h.base \in Nat /\ h.size \in Nat /\ MetaPages(h) \in Nat
  BY HeapsAreRanges, MetaPagesIsNat
<1>4. brk_base \in Nat
  BY <1>3 DEF brk_base, Heaps
<1> QED
  BY <1>1, <1>2, <1>3, <1>4 DEF HeapsApart

LEMMA InitIInv == Init => IInv
<1> SUFFICES ASSUME Init PROVE IInv
  OBVIOUS
<1>1. /\ BrkHeap \in Heaps
      /\ BrkHeap.base \in Nat /\ BrkHeap.size \in Nat
      /\ MetaPages(BrkHeap) \in Nat
  BY HeapsAreRanges, MetaPagesIsNat DEF Heaps
<1>2. Listed = {BrkHeap}
  BY DEF Listed, Init
<1>3. TypeOK
  BY <1>1 DEF TypeOK, Init, NoBits, brk_base
<1>4. HeapsApart
  BY <1>2 DEF HeapsApart, Init
<1>5. AvailIsExact
  BY <1>1, <1>2 DEF AvailIsExact, Init, NoBits
<1>6. CountInv
  <2>1. PagesOf(Listed) = Run(BrkHeap.base, BrkHeap.size)
    <3>1. \A p : p \in PagesOf(Listed) <=> p \in Pages(BrkHeap)
      BY <1>2, PagesOfElement
    <3> QED
      BY <3>1 DEF Pages
  <2>2. /\ IsFiniteSet(Run(BrkHeap.base, BrkHeap.size))
        /\ Cardinality(Run(BrkHeap.base, BrkHeap.size)) = BrkHeap.size
    BY <1>1, RunCard
  <2> QED
    BY <2>1, <2>2, FS_EmptySet DEF CountInv, SizesAreExact, Init
<1>7. PageInv
  <2>1. node[BrkHeap].free_pages = {} /\ owned = {}
    BY <1>1 DEF Init, NoBits
  <2> QED
    BY <1>1, <1>2, <2>1, BrkHeapAssumption DEF PageInv, Init, brk_base, PageAt
<1> QED
  BY <1>3, <1>4, <1>5, <1>6, <1>7 DEF IInv, NoAssertFails, Init

-----------------------------------------------------------------------------
(* Each action keeps the inductive invariant. *)

LEMMA BrkStep ==
  ASSUME IInv, NEW brk \in Addrs, sys_brk(brk)
  PROVE  IInv'
<1> USE DEF heap_vars
<1>1. Listed' = Listed
  BY DEF sys_brk, Listed
<1>2. BalignUp(brk) \in Nat
  <2>1. brk \in Nat
    BY ArgsAssumption, SizesAssumption DEF Halves
  <2>2. (brk + 1) \div 2 \in Nat
    BY <2>1
  <2> QED
    BY <2>2, SizesAssumption DEF BalignUp
<1>3. cur_brk' \in Nat /\ brk_base <= cur_brk' /\ cur_brk' <= brk_top
  BY <1>2 DEF sys_brk, BrkIsValid, IInv, TypeOK, PageInv
<1>4. TypeOK'
  BY <1>3 DEF sys_brk, IInv, TypeOK
<1>5. HeapsApart' /\ AvailIsExact' /\ CountInv' /\ NoAssertFails'
  BY <1>1 DEF sys_brk, IInv, HeapsApart, AvailIsExact, CountInv, SizesAreExact,
              NoAssertFails
<1>6. PageInv'
  BY <1>1, <1>3 DEF sys_brk, IInv, PageInv
<1> QED
  BY <1>4, <1>5, <1>6 DEF IInv

LEMMA FailStep ==
  ASSUME IInv, NEW errno \in Nat, Fails(errno)
  PROVE  IInv'
<1> USE DEF heap_vars, brk_vars
<1>1. Listed' = Listed
  BY DEF Fails, Listed
<1>2. TypeOK'
  BY DEF Fails, IInv, TypeOK
<1>3. HeapsApart' /\ AvailIsExact' /\ CountInv' /\ NoAssertFails'
  BY <1>1 DEF Fails, IInv, HeapsApart, AvailIsExact, CountInv, SizesAreExact,
              NoAssertFails
<1>4. PageInv'
  BY <1>1 DEF Fails, IInv, PageInv
<1> QED
  BY <1>2, <1>3, <1>4 DEF IInv

\* A run of pages of a heap, as a run of its bits.
LEMMA RunPages ==
  ASSUME NEW h \in Heaps, NEW b \in Nat, NEW num \in Nat, b + num <= h.size
  PROVE  /\ Run(PageAt(h, b), num) \subseteq Pages(h)
         /\ \A p \in Pages(h) :
              p \in Run(PageAt(h, b), num) <=> p - h.base \in Run(b, num)
         /\ \A c \in Run(b, num) : PageAt(h, c) \in Run(PageAt(h, b), num)
         /\ Run(b, num) \subseteq Nat
         /\ Run(PageAt(h, b), num) \subseteq Nat
         /\ PageAt(h, b) \in Nat
<1>1. h.base \in Nat /\ h.size \in Nat
  BY HeapsAreRanges
<1> QED
  BY <1>1 DEF Run, PageAt, Pages

LEMMA FromNodeStep ==
  ASSUME IInv, NEW num \in Nat, alloc_from_node(num)
  PROVE  IInv'
<1> USE DEF brk_vars
<1>1. PICK i \in DOMAIN mmap_node_list :
        \E b \in node[mmap_node_list[i]].free_pages :
          /\ FirstBit(mmap_node_list[i], num, b)
          /\ node' = [node EXCEPT ![mmap_node_list[i]] = ClearRun(@, Run(b, num))]
          /\ Hand(mmap_node_list[i], b, num,
                  ClearRunAsserts(node[mmap_node_list[i]], Run(b, num)))
  BY DEF alloc_from_node
<1> DEFINE h == mmap_node_list[i]
<1>2. PICK b \in node[h].free_pages :
          /\ FirstBit(h, num, b)
          /\ node' = [node EXCEPT ![h] = ClearRun(@, Run(b, num))]
          /\ Hand(h, b, num, ClearRunAsserts(node[h], Run(b, num)))
  BY <1>1
<1> DEFINE run == Run(b, num)
           out == Run(PageAt(h, b), num)
<1>3. /\ h \in Listed /\ h \in Heaps /\ Listed \subseteq Heaps
      /\ h.base \in Nat /\ h.size \in Nat /\ MetaPages(h) \in Nat
      /\ \A g \in Listed : g # h => Disjoint(g, h)
      /\ Listed' = Listed
  BY ListedFacts DEF Listed, IInv, TypeOK, alloc_from_node
<1> HIDE DEF h
<1>4. /\ run \subseteq node[h].free_pages
      /\ b \in Nat /\ MetaPages(h) <= b /\ b + num <= h.size
      /\ node[h].free_pages \subseteq MetaPages(h) .. (h.size - 1)
  BY <1>2, <1>3 DEF FirstBit, StartBits, IInv, PageInv
<1>5. /\ node'[h] = ClearRun(node[h], run)
      /\ \A g \in Heaps : g # h => node'[g] = node[g]
      /\ node'[h].free_pages = node[h].free_pages \ run
      /\ node[h] \in [free_pages : SUBSET Nat, avail_blocks : SUBSET Nat]
      /\ DOMAIN node' = Heaps
  BY <1>2, <1>3 DEF IInv, TypeOK, ClearRun
<1>6. /\ out \subseteq Pages(h)
      /\ \A p \in Pages(h) : p \in out <=> p - h.base \in run
      /\ \A c \in run : PageAt(h, c) \in out
      /\ out \subseteq Nat
      /\ PageAt(h, b) \in Nat
  BY <1>3, <1>4, RunPages
<1>7. /\ owned' = owned \cup out
      /\ out \cap owned = {}
      /\ mmap_alloc_size' = SizeT(mmap_alloc_size + num)
      /\ ret' = PageAt(h, b)
      /\ UNCHANGED <<mmap_node_list, mmap_total_size, brk_top, cur_brk>>
  BY <1>2, <1>3, <1>4, <1>6 DEF Hand, alloc_from_node, IInv, PageInv
<1>8. CountInv'
  <2>1. IsFiniteSet(out) /\ Cardinality(out) = num
    BY <1>6, RunCard
  <2>2. owned \cup out \subseteq PagesOf(Listed)
    BY <1>3, <1>6, PagesOfElement DEF IInv, PageInv
  <2>3. /\ IsFiniteSet(owned \cup out)
        /\ SizeT(Cardinality(owned \cup out)) = Cardinality(owned \cup out)
    BY <2>2, <1>3, CountsFit
  <2> QED
    BY <2>1, <2>3, <1>3, <1>7, UnionCard DEF IInv, CountInv, SizesAreExact
<1>9. TypeOK'
  <2>1. node' \in [Heaps -> [free_pages : SUBSET Nat, avail_blocks : SUBSET Nat]]
    BY <1>2, <1>3, <1>5 DEF IInv, TypeOK, ClearRun
  <2>2. mmap_alloc_size' \in Nat
    BY <1>8, FS_CardinalityType DEF CountInv, SizesAreExact
  <2>3. assert_ok' \in BOOLEAN
    BY <1>2 DEF Hand
  <2>4. ret' \in Int
    BY <1>6, <1>7
  <2>5. owned' \subseteq Nat
    BY <1>6, <1>7 DEF IInv, TypeOK
  <2> QED
    BY <2>1, <2>2, <2>3, <2>4, <2>5, <1>7 DEF IInv, TypeOK
<1>10. HeapsApart'
  BY <1>3, <1>7 DEF IInv, HeapsApart
<1>11. AvailIsExact'
  <2> SUFFICES ASSUME NEW g \in Listed
               PROVE  node'[g].avail_blocks = {Word(c) : c \in node'[g].free_pages}
    BY <1>3 DEF AvailIsExact
  <2>1. CASE g # h
    BY <2>1, <1>3, <1>5 DEF IInv, AvailIsExact
  <2>2. CASE g = h
    <3>1. node[h].avail_blocks = {Word(c) : c \in node[h].free_pages}
      BY <1>3 DEF IInv, AvailIsExact
    <3>2. node'[h].avail_blocks =
            {w \in node[h].avail_blocks :
               \/ w \notin {Word(c) : c \in run}
               \/ w \in {Word(c) : c \in node[h].free_pages \ run}}
      BY <1>5 DEF ClearRun
    <3> QED
      BY <2>2, <3>1, <3>2, <1>5
  <2> QED
    BY <2>1, <2>2
<1>12. NoAssertFails'
  <2>1. ClearRunAsserts(node[h], run)
    BY <1>3, <1>4 DEF ClearRunAsserts, IInv, AvailIsExact
  <2> QED
    BY <2>1, <1>2, <1>4 DEF Hand, NoAssertFails, IInv, PageInv
<1>13. PageInv'
  <2>1. \A g \in Listed' :
          /\ MetaPages(g) < g.size
          /\ node'[g].free_pages \subseteq MetaPages(g) .. (g.size - 1)
    BY <1>3, <1>5 DEF IInv, PageInv
  <2>2. \A c \in node'[BrkHeap].free_pages : brk_top' <= PageAt(BrkHeap, c)
    BY <1>3, <1>5, <1>7 DEF IInv, PageInv, Heaps
  <2>3. ASSUME NEW g \in Listed, NEW p \in owned' \cap Pages(g)
        PROVE  /\ MetaPages(g) <= p - g.base
               /\ p - g.base \notin node'[g].free_pages
               /\ g = BrkHeap => brk_top' <= p
    <3>1. CASE p \in owned
      <4>1. node'[g].free_pages \subseteq node[g].free_pages
        BY <1>3, <1>5
      <4> QED
        BY <3>1, <4>1, <1>7 DEF IInv, PageInv
    <3>2. CASE p \in out
      <4>1. g = h
        BY <3>2, <1>3, <1>6 DEF Disjoint
      <4>2. p - h.base \in run
        BY <3>2, <4>1, <1>6
      <4>3. MetaPages(h) <= p - h.base
        BY <4>2, <1>4, <1>3
      <4>4. h = BrkHeap => brk_top <= PageAt(h, p - h.base)
        BY <4>2, <1>4 DEF IInv, PageInv
      <4>5. PageAt(h, p - h.base) = p
        BY <3>2, <1>3, <1>6 DEF PageAt
      <4> QED
        BY <4>1, <4>2, <4>3, <4>4, <4>5, <1>5, <1>7
    <3> QED
      BY <3>1, <3>2, <1>7
  <2>4. ASSUME NEW g \in Listed, NEW c \in MetaPages(g) .. (g.size - 1)
        PROVE  \/ c \in node'[g].free_pages
               \/ PageAt(g, c) \in owned'
               \/ g = BrkHeap /\ PageAt(g, c) < brk_top'
    BY <1>3, <1>5, <1>6, <1>7 DEF IInv, PageInv
  <2>5. \A p \in owned' : \E g \in Listed' : p \in Pages(g)
    BY <1>3, <1>6, <1>7 DEF IInv, PageInv
  <2> QED
    BY <2>1, <2>2, <2>3, <2>4, <2>5, <1>3, <1>7 DEF IInv, PageInv
<1> QED
  BY <1>8, <1>9, <1>10, <1>11, <1>12, <1>13 DEF IInv

LEMMA FromBreakStep ==
  ASSUME IInv, NEW num \in Nat, alloc_from_break(num)
  PROVE  IInv'
<1> USE DEF heap_vars
<1> DEFINE h == BrkHeap
           b == brk_top' - h.base
           out == Run(PageAt(h, b), num)
<1>1. /\ h \in Listed /\ h \in Heaps /\ Listed \subseteq Heaps
      /\ h.base \in Nat /\ h.size \in Nat /\ MetaPages(h) \in Nat
      /\ brk_base = h.base + MetaPages(h)
      /\ \A g \in Listed : g # h => Disjoint(g, h)
      /\ Listed' = Listed
  BY ListedFacts DEF Listed, IInv, TypeOK, alloc_from_break, brk_base
<1>2. /\ brk_top' = brk_top - num
      /\ num <= brk_top - cur_brk
      /\ brk_top \in Nat /\ cur_brk \in Nat
      /\ brk_base <= cur_brk /\ cur_brk <= brk_top
      /\ brk_top <= h.base + h.size
      /\ UNCHANGED <<mmap_node_list, node, mmap_total_size, cur_brk>>
  BY DEF alloc_from_break, IInv, TypeOK, PageInv
<1>3. /\ b \in Nat /\ MetaPages(h) <= b /\ b + num <= h.size
      /\ brk_top' \in Nat
      /\ brk_base <= cur_brk' /\ cur_brk' <= brk_top' /\ brk_top' <= h.base + h.size
  BY <1>1, <1>2
<1>4. Hand(h, b, num, TRUE)
  BY DEF alloc_from_break, mmap_brk_node
<1> HIDE DEF h, b
<1>5. /\ out \subseteq Pages(h)
      /\ \A p \in Pages(h) : p \in out <=> p - h.base \in Run(b, num)
      /\ out \subseteq Nat
      /\ PageAt(h, b) \in Nat
  BY <1>1, <1>3, RunPages
<1>6. \A p \in out : brk_top' <= p /\ p < brk_top
  BY <1>1, <1>2, <1>3 DEF Run, PageAt, b
<1>7. /\ owned' = owned \cup out
      /\ out \cap owned = {}
      /\ mmap_alloc_size' = SizeT(mmap_alloc_size + num)
      /\ ret' = PageAt(h, b)
  BY <1>1, <1>2, <1>4, <1>5, <1>6 DEF Hand, IInv, PageInv, TypeOK, h
<1>8. CountInv'
  <2>1. IsFiniteSet(out) /\ Cardinality(out) = num
    BY <1>5, RunCard
  <2>2. owned \cup out \subseteq PagesOf(Listed)
    BY <1>1, <1>5, PagesOfElement DEF IInv, PageInv
  <2>3. /\ IsFiniteSet(owned \cup out)
        /\ SizeT(Cardinality(owned \cup out)) = Cardinality(owned \cup out)
    BY <2>2, <1>1, CountsFit
  <2> QED
    BY <2>1, <2>3, <1>1, <1>2, <1>7, UnionCard DEF IInv, CountInv, SizesAreExact
<1>9. TypeOK'
  <2>1. mmap_alloc_size' \in Nat
    BY <1>8, FS_CardinalityType DEF CountInv, SizesAreExact
  <2>2. assert_ok' \in BOOLEAN
    BY <1>4 DEF Hand
  <2>3. ret' \in Int
    BY <1>5, <1>7
  <2>4. owned' \subseteq Nat
    BY <1>5, <1>7 DEF IInv, TypeOK
  <2> QED
    BY <2>1, <2>2, <2>3, <2>4, <1>2, <1>3 DEF IInv, TypeOK
<1>10. HeapsApart' /\ AvailIsExact'
  BY <1>1, <1>2 DEF IInv, HeapsApart, AvailIsExact
<1>11. NoAssertFails'
  BY <1>2, <1>3, <1>4 DEF Hand, NoAssertFails, IInv
<1>12. PageInv'
  <2>1. \A g \in Listed' :
          /\ MetaPages(g) < g.size
          /\ node'[g].free_pages \subseteq MetaPages(g) .. (g.size - 1)
    BY <1>1, <1>2 DEF IInv, PageInv
  <2>2. ASSUME NEW c \in node'[BrkHeap].free_pages
        PROVE  brk_top' <= PageAt(BrkHeap, c)
    <3>1. brk_top <= PageAt(BrkHeap, c) /\ c \in Nat
      BY <1>1, <1>2 DEF IInv, PageInv, TypeOK, h
    <3> QED
      BY <3>1, <1>1, <1>2 DEF PageAt, h
  <2>3. ASSUME NEW g \in Listed, NEW p \in owned' \cap Pages(g)
        PROVE  /\ MetaPages(g) <= p - g.base
               /\ p - g.base \notin node'[g].free_pages
               /\ g = BrkHeap => brk_top' <= p
    <3>1. CASE p \in owned
      <4>1. p \in Nat
        BY <3>1 DEF IInv, TypeOK
      <4> QED
        BY <3>1, <4>1, <1>2 DEF IInv, PageInv
    <3>2. CASE p \in out
      <4>1. g = h
        BY <3>2, <1>1, <1>5 DEF Disjoint
      <4>2. p - h.base \in Run(b, num) /\ p \in Nat /\ brk_top' <= p /\ p < brk_top
        BY <3>2, <4>1, <1>5, <1>6
      <4>3. MetaPages(h) <= p - h.base
        BY <4>2, <1>1, <1>3 DEF Run
      <4>4. p - h.base \notin node[h].free_pages
        <5> SUFFICES ASSUME p - h.base \in node[h].free_pages PROVE FALSE
          OBVIOUS
        <5>1. brk_top <= PageAt(h, p - h.base)
          BY DEF IInv, PageInv, h
        <5> QED
          BY <5>1, <4>2, <1>1, <1>2 DEF PageAt
      <4> QED
        BY <4>1, <4>2, <4>3, <4>4, <1>2 DEF h
    <3> QED
      BY <3>1, <3>2, <1>7
  <2>4. ASSUME NEW g \in Listed, NEW c \in MetaPages(g) .. (g.size - 1)
        PROVE  \/ c \in node'[g].free_pages
               \/ PageAt(g, c) \in owned'
               \/ g = BrkHeap /\ PageAt(g, c) < brk_top'
    <3>1. \/ c \in node[g].free_pages
          \/ PageAt(g, c) \in owned
          \/ g = BrkHeap /\ PageAt(g, c) < brk_top
      BY DEF IInv, PageInv
    <3>2. CASE g = BrkHeap /\ PageAt(g, c) < brk_top /\ ~(PageAt(g, c) < brk_top')
      <4>1. PageAt(g, c) \in out
        BY <3>2, <1>1, <1>2, <1>3 DEF Run, PageAt, h, b
      <4> QED
        BY <4>1, <1>7
    <3> QED
      BY <3>1, <3>2, <1>2, <1>7
  <2>5. \A p \in owned' : \E g \in Listed' : p \in Pages(g)
    BY <1>1, <1>5, <1>7 DEF IInv, PageInv
  <2> QED
    BY <2>1, <2>2, <2>3, <2>4, <2>5, <1>1, <1>2, <1>3 DEF PageInv, h
<1> QED
  BY <1>8, <1>9, <1>10, <1>11, <1>12 DEF IInv

LEMMA UnmapStep ==
  ASSUME IInv, NEW addr \in Nat, NEW num \in Nat \ {0}, free_mmap(addr, num),
         (\E h \in Listed : Holds(h, addr, num)) => Run(addr, num) \subseteq owned
  PROVE  IInv'
<1> USE DEF brk_vars
<1>1. CASE Fails(EINVAL)
  BY <1>1, FailStep DEF EINVAL
<1>2. CASE ~Fails(EINVAL)
  <2>1. PICK h \in Listed :
          LET run == Run(addr - h.base, num)
          IN  /\ Holds(h, addr, num)
              /\ node' = [node EXCEPT ![h] = SetRun(@, run)]
              /\ assert_ok' = (assert_ok /\ SetRunAsserts(node[h], run))
    BY <1>2 DEF free_mmap, Listed
  <2> DEFINE b == addr - h.base
             run == Run(b, num)
             out == Run(addr, num)
  <2>2. /\ out \subseteq owned
        /\ owned' = owned \ out
        /\ mmap_alloc_size' = SizeT(mmap_alloc_size - num)
        /\ ret' = 0
        /\ UNCHANGED <<mmap_node_list, mmap_total_size, brk_top, cur_brk>>
    BY <1>2, <2>1 DEF free_mmap
  <2>3. /\ h \in Heaps /\ Listed \subseteq Heaps
        /\ h.base \in Nat /\ h.size \in Nat /\ MetaPages(h) \in Nat
        /\ \A g \in Listed : g # h => Disjoint(g, h)
        /\ Listed' = Listed
    BY <2>2, ListedFacts DEF Listed, IInv, TypeOK
  <2>4. b \in Nat /\ b + num <= h.size /\ addr = PageAt(h, b)
    BY <2>1, <2>3 DEF Holds, PageAt
  <2> HIDE DEF b
  <2>5. /\ out \subseteq Pages(h)
        /\ \A p \in Pages(h) : p \in out <=> p - h.base \in run
        /\ \A c \in run : PageAt(h, c) \in out
        /\ run \subseteq Nat
    BY <2>3, <2>4, RunPages
  <2>6. \A c \in run : /\ MetaPages(h) <= c /\ c <= h.size - 1
                       /\ c \notin node[h].free_pages
                       /\ h = BrkHeap => brk_top <= PageAt(h, c)
    <3> TAKE c \in run
    <3>1. PageAt(h, c) \in owned \cap Pages(h) /\ c \in Nat
      BY <2>2, <2>5
    <3>2. PageAt(h, c) - h.base = c
      BY <3>1, <2>3 DEF PageAt
    <3> QED
      BY <3>1, <3>2, <2>3 DEF IInv, PageInv, Pages, Run
  <2>7. /\ node'[h] = SetRun(node[h], run)
        /\ \A g \in Heaps : g # h => node'[g] = node[g]
        /\ node'[h].free_pages = node[h].free_pages \cup run
        /\ node[h] \in [free_pages : SUBSET Nat, avail_blocks : SUBSET Nat]
    BY <2>1, <2>3 DEF IInv, TypeOK, SetRun, b
  <2>8. CountInv'
    <3>1. IsFiniteSet(out) /\ Cardinality(out) = num
      BY RunCard
    <3>2. owned \ out \subseteq PagesOf(Listed)
      BY PagesOfElement DEF IInv, PageInv
    <3>3. SizeT(Cardinality(owned \ out)) = Cardinality(owned \ out)
      BY <3>2, <2>3, CountsFit
    <3> QED
      BY <3>1, <3>3, <2>2, <2>3, DifferenceCard DEF IInv, CountInv, SizesAreExact
  <2>9. TypeOK'
    <3>1. SetRun(node[h], run) \in [free_pages : SUBSET Nat, avail_blocks : SUBSET Nat]
      BY <2>5, <2>7, WordIsNat DEF SetRun
    <3>2. node' = [node EXCEPT ![h] = SetRun(node[h], run)]
      BY <2>1 DEF b
    <3>3. node' \in [Heaps -> [free_pages : SUBSET Nat, avail_blocks : SUBSET Nat]]
      BY <3>1, <3>2, <2>3 DEF IInv, TypeOK
    <3>4. mmap_alloc_size' \in Nat
      BY <2>8, FS_CardinalityType DEF CountInv, SizesAreExact
    <3>5. assert_ok' \in BOOLEAN
      BY <2>1
    <3>6. ret' \in Int
      BY <2>2
    <3>9. owned' \subseteq Nat
      <4>1. owned \subseteq Nat
        BY DEF IInv, TypeOK
      <4> QED
        BY <4>1, <2>2
    <3>7. mmap_node_list' \in Seq(Heaps) /\ mmap_total_size' \in Nat
      BY <2>2 DEF IInv, TypeOK
    <3>8. brk_top' \in Nat /\ cur_brk' \in Nat
      BY <2>2 DEF IInv, TypeOK
    <3> QED
      BY <3>3, <3>4, <3>5, <3>6, <3>7, <3>8, <3>9 DEF TypeOK
  <2>10. HeapsApart'
    BY <2>2, <2>3 DEF IInv, HeapsApart
  <2>11. AvailIsExact'
    <3> SUFFICES ASSUME NEW g \in Listed
                 PROVE  node'[g].avail_blocks = {Word(c) : c \in node'[g].free_pages}
      BY <2>3 DEF AvailIsExact
    <3>1. CASE g # h
      BY <3>1, <2>3, <2>7 DEF IInv, AvailIsExact
    <3>2. CASE g = h
      BY <3>2, <2>7 DEF IInv, AvailIsExact, SetRun
    <3> QED
      BY <3>1, <3>2
  <2>12. NoAssertFails'
    BY <2>1, <2>6 DEF SetRunAsserts, NoAssertFails, IInv, b
  <2>13. PageInv'
    <3>1. ASSUME NEW g \in Listed'
          PROVE  /\ MetaPages(g) < g.size
                 /\ node'[g].free_pages \subseteq MetaPages(g) .. (g.size - 1)
      <4>1. run \subseteq MetaPages(h) .. (h.size - 1)
        BY <2>3, <2>5, <2>6
      <4> QED
        BY <4>1, <2>3, <2>7 DEF IInv, PageInv
    <3>2. \A c \in node'[BrkHeap].free_pages : brk_top' <= PageAt(BrkHeap, c)
      BY <2>2, <2>3, <2>6, <2>7 DEF IInv, PageInv, Heaps
    <3>3. ASSUME NEW g \in Listed, NEW p \in owned' \cap Pages(g)
          PROVE  /\ MetaPages(g) <= p - g.base
                 /\ p - g.base \notin node'[g].free_pages
                 /\ g = BrkHeap => brk_top' <= p
      BY <2>2, <2>3, <2>5, <2>7 DEF IInv, PageInv
    <3>4. ASSUME NEW g \in Listed, NEW c \in MetaPages(g) .. (g.size - 1)
          PROVE  \/ c \in node'[g].free_pages
                 \/ PageAt(g, c) \in owned'
                 \/ g = BrkHeap /\ PageAt(g, c) < brk_top'
      <4>1. \/ c \in node[g].free_pages
            \/ PageAt(g, c) \in owned
            \/ g = BrkHeap /\ PageAt(g, c) < brk_top
        BY DEF IInv, PageInv
      <4>2. PageAt(g, c) \in Pages(g) /\ PageAt(g, c) - g.base = c
        <5>1. g.base \in Nat /\ g.size \in Nat /\ MetaPages(g) \in Nat
          BY <2>3, HeapsAreRanges, MetaPagesIsNat
        <5> QED
          BY <5>1 DEF PageAt, Pages, Run
      <4>3. CASE PageAt(g, c) \in out
        <5>1. g = h
          BY <4>2, <4>3, <2>3, <2>5 DEF Disjoint
        <5> QED
          BY <5>1, <4>2, <4>3, <2>5, <2>7
      <4> QED
        BY <4>1, <4>3, <2>2, <2>3, <2>7
    <3>5. \A p \in owned' : \E g \in Listed' : p \in Pages(g)
      BY <2>2, <2>3 DEF IInv, PageInv
    <3> QED
      BY <3>1, <3>2, <3>3, <3>4, <3>5, <2>2, <2>3 DEF IInv, PageInv
  <2> QED
    BY <2>8, <2>9, <2>10, <2>11, <2>12, <2>13 DEF IInv
<1> QED
  BY <1>1, <1>2

LEMMA AddHeapStep ==
  ASSUME IInv, NEW h \in Heaps,
         \A g \in Listed : Disjoint(g, h),
         mmap_add_heap(h)
  PROVE  IInv'
<1> USE DEF brk_vars
<1>1. CASE MetaPages(h) >= h.size
  BY <1>1, FailStep DEF mmap_add_heap, ENOMEM
<1>2. CASE ~(MetaPages(h) >= h.size)
  <2> DEFINE run == Run(MetaPages(h), h.size - MetaPages(h))
  <2>1. /\ node' = [node EXCEPT ![h] = SetRun(NoBits, run)]
        /\ mmap_total_size' = mmap_total_size + h.size
        /\ mmap_node_list' = Append(mmap_node_list, h)
        /\ ret' = 0
        /\ UNCHANGED <<brk_top, cur_brk, mmap_alloc_size, assert_ok, owned>>
    BY <1>2 DEF mmap_add_heap
  <2>2. /\ Listed \subseteq Heaps /\ BrkHeap \in Listed
        /\ h.base \in Nat /\ h.size \in Nat /\ MetaPages(h) \in Nat
        /\ MetaPages(h) < h.size
    BY <1>2, ListedFacts DEF IInv
  <2>3. /\ mmap_node_list' \in Seq(Heaps)
        /\ HeapsApart'
        /\ Listed' = Listed \cup {h}
        /\ h \notin Listed
    BY <2>1, AppendHeap DEF IInv, TypeOK
  <2>4. run = MetaPages(h) .. (h.size - 1)
    BY <2>2 DEF Run
  <2>5. /\ node'[h] = SetRun(NoBits, run)
        /\ node'[h].free_pages = run
        /\ node'[h].avail_blocks = {Word(c) : c \in run}
        /\ \A g \in Listed : node'[g] = node[g]
    BY <2>1, <2>2, <2>3 DEF IInv, TypeOK, SetRun, NoBits
  <2>6. CountInv'
    <3>1. IsFiniteSet(Pages(h)) /\ Cardinality(Pages(h)) = h.size
      BY <2>2, RunCard DEF Pages
    <3>2. PagesOf(Listed') = PagesOf(Listed) \cup Pages(h)
      BY <2>3, PagesOfMore
    <3>3. PagesOf(Listed) \cap Pages(h) = {}
      BY PagesOfElement DEF Disjoint
    <3> QED
      BY <3>1, <3>2, <3>3, <2>1, UnionCard DEF IInv, CountInv, SizesAreExact
  <2>7. TypeOK'
    <3>1. SetRun(NoBits, run) \in [free_pages : SUBSET Nat, avail_blocks : SUBSET Nat]
      <4>1. run \subseteq Nat
        BY <2>2, <2>4
      <4>2. {Word(c) : c \in run} \subseteq Nat
        BY <4>1, WordIsNat
      <4> QED
        BY <4>1, <4>2 DEF SetRun, NoBits
    <3>2. node' \in [Heaps -> [free_pages : SUBSET Nat, avail_blocks : SUBSET Nat]]
      BY <3>1, <2>1 DEF IInv, TypeOK
    <3>3. mmap_total_size' \in Nat /\ ret' \in Int
      BY <2>1, <2>2 DEF IInv, TypeOK
    <3> QED
      BY <3>2, <3>3, <2>1, <2>3 DEF IInv, TypeOK
  <2>8. AvailIsExact'
    BY <2>3, <2>5 DEF IInv, AvailIsExact
  <2>9. NoAssertFails'
    BY <2>1 DEF IInv, NoAssertFails
  <2>10. \A p \in owned : p \notin Pages(h)
    BY DEF IInv, PageInv, Disjoint
  <2>11. PageInv'
    <3>1. \A g \in Listed' :
            /\ MetaPages(g) < g.size
            /\ node'[g].free_pages \subseteq MetaPages(g) .. (g.size - 1)
      BY <2>2, <2>3, <2>4, <2>5 DEF IInv, PageInv
    <3>2. \A c \in node'[BrkHeap].free_pages : brk_top' <= PageAt(BrkHeap, c)
      BY <2>1, <2>2, <2>5 DEF IInv, PageInv
    <3>3. \A g \in Listed' : \A p \in owned' \cap Pages(g) :
            /\ MetaPages(g) <= p - g.base
            /\ p - g.base \notin node'[g].free_pages
            /\ g = BrkHeap => brk_top' <= p
      BY <2>1, <2>3, <2>5, <2>10 DEF IInv, PageInv
    <3>4. \A g \in Listed' : \A c \in MetaPages(g) .. (g.size - 1) :
            \/ c \in node'[g].free_pages
            \/ PageAt(g, c) \in owned'
            \/ g = BrkHeap /\ PageAt(g, c) < brk_top'
      BY <2>1, <2>3, <2>4, <2>5 DEF IInv, PageInv
    <3>5. \A p \in owned' : \E g \in Listed' : p \in Pages(g)
      BY <2>1, <2>3 DEF IInv, PageInv
    <3> QED
      BY <3>1, <3>2, <3>3, <3>4, <3>5, <2>1 DEF IInv, PageInv
  <2> QED
    BY <2>3, <2>6, <2>7, <2>8, <2>9, <2>11 DEF IInv
<1> QED
  BY <1>1, <1>2

\* A heap whose pages after the metadata are all free has no mapped page.
LEMMA IdleHeapIsUnused ==
  ASSUME IInv, NEW h \in Listed, h # BrkHeap, IsIdle(h)
  PROVE  owned \cap Pages(h) = {}
<1> SUFFICES ASSUME NEW p \in owned \cap Pages(h) PROVE FALSE
  OBVIOUS
<1>1. h.base \in Nat /\ h.size \in Nat /\ MetaPages(h) \in Nat
  BY ListedFacts DEF IInv
<1>2. p - h.base \in MetaPages(h) .. (h.size - 1)
  BY <1>1 DEF IInv, PageInv, Pages, Run
<1>3. p - h.base \in node[h].free_pages
  BY <1>1, <1>2 DEF IsIdle, Run
<1> QED
  BY <1>3 DEF IInv, PageInv

LEMMA RemoveHeapStep ==
  ASSUME IInv, NEW h \in Listed, h # BrkHeap, mmap_remove_heap(h)
  PROVE  IInv'
<1> USE DEF brk_vars
<1>1. CASE ~IsIdle(h)
  BY <1>1, FailStep DEF mmap_remove_heap, EBUSY
<1>2. CASE IsIdle(h)
  <2>1. PICK i \in DOMAIN mmap_node_list :
          /\ mmap_node_list[i] = h
          /\ mmap_node_list' = RemoveAt(mmap_node_list, i)
    BY <1>2 DEF mmap_remove_heap
  <2>2. /\ mmap_total_size' = mmap_total_size - h.size
        /\ ret' = 0
        /\ UNCHANGED <<node, brk_top, cur_brk, mmap_alloc_size, assert_ok, owned>>
    BY <1>2 DEF mmap_remove_heap
  <2>3. /\ mmap_node_list' \in Seq(Heaps)
        /\ HeapsApart'
        /\ Listed' = Listed \ {h}
    BY <2>1, RemoveHeap DEF IInv, TypeOK
  <2>4. /\ Listed \subseteq Heaps /\ BrkHeap \in Listed'
        /\ h.base \in Nat /\ h.size \in Nat
        /\ \A g \in Listed : g # h => Disjoint(g, h)
    BY <2>3, ListedFacts DEF IInv
  <2>5. CountInv'
    <3>1. IsFiniteSet(Pages(h)) /\ Cardinality(Pages(h)) = h.size
      BY <2>4, RunCard DEF Pages
    <3>2. PagesOf(Listed') = PagesOf(Listed) \ Pages(h)
      BY <2>3, <2>4, PagesOfFewer DEF Disjoint
    <3>3. Pages(h) \subseteq PagesOf(Listed)
      BY PagesOfElement
    <3> QED
      BY <3>1, <3>2, <3>3, <2>2, DifferenceCard DEF IInv, CountInv, SizesAreExact
  <2>6. TypeOK'
    <3>1. mmap_total_size' \in Nat
      BY <2>5, FS_CardinalityType DEF CountInv, SizesAreExact
    <3>2. ret' \in Int
      BY <2>2
    <3> QED
      BY <3>1, <3>2, <2>2, <2>3 DEF IInv, TypeOK
  <2>7. AvailIsExact' /\ NoAssertFails'
    BY <2>2, <2>3 DEF IInv, AvailIsExact, NoAssertFails
  <2>8. PageInv'
    <3>1. \A p \in owned' : \E g \in Listed' : p \in Pages(g)
      BY <1>2, <2>2, <2>3, IdleHeapIsUnused DEF IInv, PageInv
    <3> QED
      BY <3>1, <2>2, <2>3, <2>4 DEF IInv, PageInv
  <2> QED
    BY <2>3, <2>5, <2>6, <2>7, <2>8 DEF IInv
<1> QED
  BY <1>1, <1>2

-----------------------------------------------------------------------------
(* Every step of the allocator keeps the invariant. *)

\* Half pages to pages: the arguments that pass the checks are numbers of pages.
LEMMA ArgsAreNat ==
  /\ \A x \in Lens \cup Addrs : x \in Nat /\ x \div 2 \in Nat
  /\ \A x \in Lens : x # 0 /\ IsAligned(x) => x \div 2 \in Nat \ {0}
<1>1. \A x \in Lens \cup Addrs : x \in Nat
  BY ArgsAssumption, SizesAssumption DEF Halves
<1> QED
  BY <1>1 DEF IsAligned

LEMMA NextIInv == IInv /\ [Next]_vars => IInv'
<1> SUFFICES ASSUME IInv, [Next]_vars PROVE IInv'
  OBVIOUS
<1>1. CASE \E brk \in Addrs : sys_brk(brk)
  BY <1>1, BrkStep
<1>2. ASSUME NEW len \in Lens, NEW supported \in BOOLEAN, sys_mmap(len, supported)
      PROVE  IInv'
  <2>1. len \div 2 \in Nat
    BY ArgsAreNat
  <2>2. CASE Fails(EINVAL)
    BY <2>2, FailStep DEF EINVAL
  <2>3. CASE alloc_from_node(len \div 2)
    BY <2>1, <2>3, FromNodeStep
  <2>4. CASE alloc_from_break(len \div 2)
    BY <2>1, <2>4, FromBreakStep
  <2>5. CASE alloc_fails(len \div 2)
    BY <2>5, FailStep DEF alloc_fails, ENOMEM
  <2> QED
    BY <1>2, <2>2, <2>3, <2>4, <2>5 DEF sys_mmap
<1>3. ASSUME NEW addr \in Addrs, NEW len \in Lens,
             UnmapsItsOwn(addr, len), sys_munmap(addr, len)
      PROVE  IInv'
  <2>1. CASE Fails(EINVAL)
    BY <2>1, FailStep DEF EINVAL
  <2>2. CASE UnmapIsValid(addr, len) /\ free_mmap(addr \div 2, len \div 2)
    <3>1. addr \div 2 \in Nat /\ len \div 2 \in Nat \ {0}
      BY <2>2, ArgsAreNat DEF UnmapIsValid
    <3> QED
      BY <1>3, <2>2, <3>1, UnmapStep DEF UnmapsItsOwn
  <2> QED
    BY <1>3, <2>1, <2>2 DEF sys_munmap
<1>4. ASSUME NEW r \in MemRanges, GivesItsOwn(r), mem_add_heap(r)
      PROVE  IInv'
  <2>1. CASE Fails(EINVAL)
    BY <2>1, FailStep DEF EINVAL
  <2>2. CASE RangeIsValid(r) /\ mmap_add_heap(HeapOf(r))
    <3>1. HeapOf(r) \in Heaps
      BY <2>2 DEF Heaps
    <3>2. \A h \in Listed : Disjoint(h, HeapOf(r))
      BY <1>4, <2>2 DEF GivesItsOwn
    <3> QED
      BY <2>2, <3>1, <3>2, AddHeapStep
  <2> QED
    BY <1>4, <2>1, <2>2 DEF mem_add_heap
<1>5. ASSUME NEW r \in MemRanges, mem_remove_heap(r)
      PROVE  IInv'
  <2>1. CASE Fails(EINVAL)
    BY <2>1, FailStep DEF EINVAL
  <2>2. CASE IsRemovable(HeapOf(r)) /\ mmap_remove_heap(HeapOf(r))
    BY <2>2, RemoveHeapStep DEF IsRemovable, mmap_brk_node
  <2> QED
    BY <1>5, <2>1, <2>2 DEF mem_remove_heap
<1>6. ASSUME NEW r \in MemRanges, mem_heap_is_free(r)
      PROVE  IInv'
  <2>1. \E errno \in Nat : Fails(errno)
    BY <1>6 DEF mem_heap_is_free, EINVAL, EBUSY
  <2> QED
    BY <2>1, FailStep
<1>7. CASE UNCHANGED vars
  <2>1. Listed' = Listed
    BY <1>7 DEF vars, heap_vars, Listed
  <2>2. TypeOK' /\ HeapsApart' /\ AvailIsExact' /\ NoAssertFails'
    BY <1>7, <2>1 DEF vars, heap_vars, brk_vars, IInv, TypeOK, HeapsApart,
                      AvailIsExact, NoAssertFails
  <2>3. CountInv' /\ PageInv'
    BY <1>7, <2>1 DEF vars, heap_vars, brk_vars, IInv, CountInv, SizesAreExact, PageInv
  <2> QED
    BY <2>2, <2>3 DEF IInv
<1> QED
  BY <1>1, <1>2, <1>3, <1>4, <1>5, <1>6, <1>7 DEF Next, OtherCall

-----------------------------------------------------------------------------
(* The theorems. *)

LEMMA SpecIInv == Spec => []IInv
<1>1. Init => IInv
  BY InitIInv
<1>2. IInv /\ [Next]_vars => IInv'
  BY NextIInv
<1> QED
  BY <1>1, <1>2, PTL DEF Spec

\* The variables keep their types, while the program unmaps only what it has:
\* neither the break nor the total size goes below zero.
THEOREM TypeCorrect == Spec => []TypeOK
<1>1. IInv => TypeOK
  BY DEF IInv
<1> QED
  BY <1>1, SpecIInv, PTL

LEMMA IInvPages == IInv => PagesAccountedFor
<1> SUFFICES ASSUME IInv PROVE PagesAccountedFor
  OBVIOUS
<1>1. /\ Listed \subseteq Heaps
      /\ brk_base = BrkHeap.base + MetaPages(BrkHeap)
      /\ cur_brk \in Nat /\ brk_top \in Nat
  BY ListedFacts DEF IInv, TypeOK, brk_base
<1>2. ASSUME NEW h \in Listed
      PROVE  /\ Pages(h) = MetaOf(h) \cup FreeOf(h) \cup BreakOf(h)
                             \cup (owned \cap Pages(h))
             /\ MetaOf(h) \cap FreeOf(h) = {}
             /\ MetaOf(h) \cap BreakOf(h) = {}
             /\ FreeOf(h) \cap BreakOf(h) = {}
             /\ owned \cap (MetaOf(h) \cup FreeOf(h) \cup BreakOf(h)) = {}
  <2> DEFINE base == h.base
             meta == MetaPages(h)
             free == node[h].free_pages
  <2>1. /\ base \in Nat /\ h.size \in Nat /\ meta \in Nat /\ meta < h.size
        /\ free \subseteq meta .. (h.size - 1)
    BY <1>1, HeapsAreRanges, MetaPagesIsNat DEF IInv, PageInv
  <2>2. \A p : p \in MetaOf(h) <=> p \in Int /\ base <= p /\ p < base + meta
    BY <2>1 DEF MetaOf, Run
  <2>3. \A p : p \in FreeOf(h) <=> p \in Int /\ p - base \in free
    BY <2>1 DEF FreeOf, PageAt
  <2>4. \A p : p \in BreakOf(h) <=>
          /\ h = BrkHeap /\ p \in Int
          /\ base + meta <= p /\ p < brk_top
    BY <1>1, <2>1 DEF BreakOf, mmap_brk_node
  <2>5. \A p : p \in Pages(h) <=> p \in Int /\ base <= p /\ p < base + h.size
    BY <2>1 DEF Pages, Run
  <2>6. h = BrkHeap => /\ brk_top <= base + h.size
                       /\ \A b \in free : brk_top <= base + b
    BY DEF IInv, PageInv, PageAt
  <2>7. \A p \in owned \cap Pages(h) :
          meta <= p - base /\ p - base \notin free /\ (h = BrkHeap => brk_top <= p)
    BY DEF IInv, PageInv
  <2>8. \A b \in meta .. (h.size - 1) :
          b \in free \/ base + b \in owned \/ (h = BrkHeap /\ base + b < brk_top)
    BY DEF IInv, PageInv, PageAt
  <2> HIDE DEF base, meta, free
  <2>9. MetaOf(h) \cup FreeOf(h) \cup BreakOf(h) \subseteq Pages(h)
    BY <1>1, <2>1, <2>2, <2>3, <2>4, <2>5, <2>6
  <2>10. ASSUME NEW p \in Pages(h), p \notin MetaOf(h), p \notin FreeOf(h),
                p \notin BreakOf(h)
         PROVE  p \in owned
    <3>1. p - base \in meta .. (h.size - 1) /\ base + (p - base) = p
      BY <2>1, <2>2, <2>5, <2>10
    <3>2. p - base \notin free
      BY <2>3, <2>5, <2>10
    <3>3. ~(h = BrkHeap /\ p < brk_top)
      BY <3>1, <2>1, <2>4, <2>5, <2>10
    <3> QED
      BY <3>1, <3>2, <3>3, <2>8
  <2>11. MetaOf(h) \cap FreeOf(h) = {}
    BY <2>1, <2>2, <2>3
  <2>12. MetaOf(h) \cap BreakOf(h) = {}
    BY <2>1, <2>2, <2>4
  <2>13. FreeOf(h) \cap BreakOf(h) = {}
    BY <1>1, <2>1, <2>3, <2>4, <2>6
  <2>14. ASSUME NEW p \in owned, p \in MetaOf(h) \cup FreeOf(h) \cup BreakOf(h)
         PROVE  FALSE
    <3>1. p \in Pages(h)
      BY <2>9, <2>14
    <3> QED
      BY <3>1, <1>1, <2>1, <2>2, <2>3, <2>4, <2>5, <2>7, <2>14
  <2> QED
    BY <2>9, <2>10, <2>11, <2>12, <2>13, <2>14
<1>3. owned \subseteq PagesOf(Listed)
  BY PagesOfElement DEF IInv, PageInv
<1>4. cur_brk \in brk_base .. brk_top
  BY <1>1, ListedFacts DEF IInv, PageInv
<1> QED
  BY <1>2, <1>3, <1>4 DEF PagesAccountedFor, PagesOf

\* Whatever calls a program makes, every page of the allocator's heaps is in one
\* place only, and none is lost.
THEOREM PagesAreAccountedFor == Spec => []PagesAccountedFor
  BY SpecIInv, IInvPages, PTL

\* The structures behind it: the block bitmap stays exact, the two counters count
\* pages, the break's heap stays listed, and no assertion of the allocator fails,
\* for a program that unmaps only what it has and gives only what is its own.
THEOREM StructuresAreSound == Spec => []StructuresHold
<1>1. IInv => StructuresHold
  BY DEF IInv, CountInv, HeapsApart, StructuresHold
<1> QED
  BY <1>1, SpecIInv, PTL

\* A heap is only taken back, or the break only yields, where the list changes or
\* brk_top does: in one action each.
LEMMA ListChanges ==
  ASSUME Next, mmap_node_list' # mmap_node_list
  PROVE  \/ \E h \in Heaps : mmap_node_list' = Append(mmap_node_list, h)
         \/ \E h \in Listed : h # BrkHeap /\ IsIdle(h) /\ mmap_remove_heap(h)
<1> USE DEF heap_vars, brk_vars
<1>1. ASSUME NEW r \in MemRanges, mem_add_heap(r)
      PROVE  \E h \in Heaps : mmap_node_list' = Append(mmap_node_list, h)
  <2>1. RangeIsValid(r) => HeapOf(r) \in Heaps
    BY DEF Heaps
  <2> QED
    BY <1>1, <2>1 DEF mem_add_heap, mmap_add_heap, Fails
<1>2. ASSUME NEW r \in MemRanges, mem_remove_heap(r)
      PROVE  \E h \in Listed : h # BrkHeap /\ IsIdle(h) /\ mmap_remove_heap(h)
  BY <1>2 DEF mem_remove_heap, mmap_remove_heap, IsRemovable, mmap_brk_node, Fails
<1> QED
  BY <1>1, <1>2 DEF Next, OtherCall, sys_brk, sys_mmap, sys_munmap, free_mmap, mem_heap_is_free,
       Fails, alloc_from_node, alloc_from_break, alloc_fails

LEMMA BreakTopChanges ==
  ASSUME Next, brk_top' # brk_top
  PROVE  \E len \in Lens : /\ len # 0
                           /\ IsAligned(len)
                           /\ alloc_from_break(len \div 2)
<1> USE DEF heap_vars, brk_vars
<1>1. ASSUME NEW len \in Lens, NEW supported \in BOOLEAN, sys_mmap(len, supported)
      PROVE  len # 0 /\ IsAligned(len) /\ alloc_from_break(len \div 2)
  BY <1>1 DEF sys_mmap, MapIsValid, Fails, alloc_from_node, alloc_fails
<1> QED
  BY <1>1 DEF Next, OtherCall, sys_brk, sys_munmap, free_mmap, mem_heap_is_free, mem_add_heap,
       mem_remove_heap, mmap_add_heap, mmap_remove_heap, Fails

\* The memory of a heap goes back to who gave it only when no mapping is in it.
THEOREM HeapLeavesUnused == Spec => RemovedHeapIsUnused
<1> DEFINE Unused == \A h \in Listed :
             h \notin {mmap_node_list'[i] : i \in DOMAIN mmap_node_list'} =>
               owned \cap Pages(h) = {}
<1>1. IInv /\ [Next]_vars => [Unused]_vars
  <2> SUFFICES ASSUME IInv, Next, NEW h \in Listed,
                      h \notin {mmap_node_list'[i] : i \in DOMAIN mmap_node_list'}
               PROVE  owned \cap Pages(h) = {}
    OBVIOUS
  <2>1. mmap_node_list' # mmap_node_list
    BY DEF Listed
  <2>2. h \notin Listed'
    BY DEF Listed
  <2>3. CASE \E g \in Heaps : mmap_node_list' = Append(mmap_node_list, g)
    <3>1. PICK g \in Heaps : mmap_node_list' = Append(mmap_node_list, g)
      BY <2>3
    <3>2. mmap_node_list \in Seq(Heaps)
      BY DEF IInv, TypeOK
    <3>3. \A i \in DOMAIN mmap_node_list :
            i \in DOMAIN mmap_node_list' /\ mmap_node_list'[i] = mmap_node_list[i]
      BY <3>1, <3>2
    <3> QED
      BY <3>3, <2>2 DEF Listed
  <2>4. CASE \E g \in Listed : g # BrkHeap /\ IsIdle(g) /\ mmap_remove_heap(g)
    <3>1. PICK g \in Listed : g # BrkHeap /\ IsIdle(g) /\ mmap_remove_heap(g)
      BY <2>4
    <3>2. Listed' = Listed \ {g}
      BY <3>1, RemoveHeap DEF mmap_remove_heap, IInv, TypeOK
    <3>3. h = g
      BY <3>2, <2>2
    <3> QED
      BY <3>1, <3>3, IdleHeapIsUnused
  <2> QED
    BY <2>1, <2>3, <2>4, ListChanges
<1> QED
  BY <1>1, SpecIInv, PTL DEF Spec, RemovedHeapIsUnused

\* When no run can start in a heap, no num of its pages in a row are free: the
\* exact block bitmap means the search has skipped nothing.
LEMMA NoRunIsTrue ==
  ASSUME IInv, NEW num \in Nat \ {0}, NoRun(num), NEW h \in Listed, NEW b \in 0 .. h.size
  PROVE  ~(Run(b, num) \subseteq node[h].free_pages)
<1> SUFFICES ASSUME Run(b, num) \subseteq node[h].free_pages PROVE FALSE
  OBVIOUS
<1>1. /\ h.size \in Nat /\ MetaPages(h) \in Nat
      /\ node[h].free_pages \subseteq MetaPages(h) .. (h.size - 1)
  BY ListedFacts DEF IInv, PageInv
<1>2. b \in Run(b, num) /\ b + num - 1 \in Run(b, num)
  BY <1>1 DEF Run
<1>3. b \in node[h].free_pages /\ b + num <= h.size
  BY <1>1, <1>2
<1>4. Word(b) \in node[h].avail_blocks
  BY <1>3 DEF IInv, AvailIsExact
<1> QED
  BY <1>3, <1>4 DEF NoRun, StartBits

\* Memory the program holds by brk is never taken from it, and the break gives
\* up spare pages only to a mapping no heap has room for.
THEOREM BreakIsLastResort == Spec => BreakYieldsLast
<1> DEFINE Yields ==
      brk_top' # brk_top =>
        /\ brk_top' < brk_top
        /\ cur_brk <= brk_top'
        /\ \A h \in Listed : ~\E b \in 0 .. h.size :
             Run(b, brk_top - brk_top') \subseteq node[h].free_pages
<1>1. IInv /\ [Next]_vars => [Yields]_vars
  <2> SUFFICES ASSUME IInv, Next, brk_top' # brk_top
               PROVE  /\ brk_top' < brk_top
                      /\ cur_brk <= brk_top'
                      /\ \A h \in Listed : \A b \in 0 .. h.size :
                           ~(Run(b, brk_top - brk_top') \subseteq node[h].free_pages)
    OBVIOUS
  <2>1. PICK len \in Lens : /\ len # 0
                            /\ IsAligned(len)
                            /\ alloc_from_break(len \div 2)
    BY BreakTopChanges
  <2> DEFINE num == len \div 2
  <2>2. num \in Nat \ {0}
    BY <2>1, ArgsAreNat
  <2> HIDE DEF num
  <2>3. /\ NoRun(num) /\ num <= brk_top - cur_brk /\ brk_top' = brk_top - num
        /\ brk_top \in Nat /\ cur_brk \in Nat
    BY <2>1 DEF alloc_from_break, num, IInv, TypeOK
  <2>4. brk_top - brk_top' = num /\ brk_top' < brk_top /\ cur_brk <= brk_top'
    BY <2>2, <2>3
  <2> QED
    BY <2>2, <2>3, <2>4, NoRunIsTrue
<1> QED
  BY <1>1, SpecIInv, PTL DEF Spec, BreakYieldsLast

\* A request larger than all the heaps is larger than any one of them.
LEMMA HeapFitsTotal ==
  ASSUME IInv, NEW h \in Listed
  PROVE  h.size <= mmap_total_size
<1>1. h.base \in Nat /\ h.size \in Nat
  BY ListedFacts DEF IInv
<1>2. Pages(h) \subseteq PagesOf(Listed)
  BY PagesOfElement
<1>3. Cardinality(Pages(h)) = h.size
  BY <1>1, RunCard DEF Pages
<1> QED
  BY <1>2, <1>3, FS_Subset DEF IInv, CountInv, SizesAreExact

\* ENOMEM is never false: no heap has the pages in a row and the break has not
\* that many to spare.
THEOREM ENOMEMIsHonest == Spec => NoFalseENOMEM
<1> DEFINE Honest ==
      \A len \in Lens :
        ret' = -ENOMEM /\ sys_mmap(len, TRUE) =>
          /\ len \div 2 > brk_top - cur_brk
          /\ \A h \in Listed : ~\E b \in 0 .. h.size :
               Run(b, len \div 2) \subseteq node[h].free_pages
<1>1. IInv /\ [Next]_vars => [Honest]_vars
  <2> SUFFICES ASSUME IInv, NEW len \in Lens, ret' = -ENOMEM, sys_mmap(len, TRUE)
               PROVE  /\ len \div 2 > brk_top - cur_brk
                      /\ \A h \in Listed : \A b \in 0 .. h.size :
                           ~(Run(b, len \div 2) \subseteq node[h].free_pages)
    OBVIOUS
  <2> DEFINE num == len \div 2
  <2>1. ~Fails(EINVAL)
    BY DEF Fails, EINVAL, ENOMEM
  <2>2. num \in Nat \ {0}
    BY <2>1, ArgsAreNat DEF sys_mmap, MapIsValid
  <2>3. ~alloc_from_node(num)
    <3> SUFFICES ASSUME alloc_from_node(num) PROVE FALSE
      OBVIOUS
    <3>1. PICK h \in Listed : \E b \in node[h].free_pages : ret' = PageAt(h, b)
      BY DEF alloc_from_node, Hand, Listed
    <3>2. h.base \in Nat /\ node[h].free_pages \subseteq Nat
      BY ListedFacts DEF IInv, TypeOK
    <3> QED
      BY <3>1, <3>2 DEF PageAt, ENOMEM
  <2>4. ~alloc_from_break(num)
    <3> SUFFICES ASSUME alloc_from_break(num) PROVE FALSE
      OBVIOUS
    <3>1. /\ ret' = PageAt(BrkHeap, brk_top - num - BrkHeap.base)
          /\ num <= brk_top - cur_brk
      BY DEF alloc_from_break, Hand, mmap_brk_node
    <3>2. BrkHeap.base \in Nat /\ brk_top \in Nat /\ cur_brk \in Nat
      BY BrkHeapAssumption DEF IInv, TypeOK
    <3> QED
      BY <3>1, <3>2, <2>2 DEF PageAt, ENOMEM
  <2>5. alloc_fails(num)
    BY <2>1, <2>3, <2>4 DEF sys_mmap
  <2> HIDE DEF num
  <2>6. CASE NoRun(num) /\ num > brk_top - cur_brk
    BY <2>2, <2>6, NoRunIsTrue DEF num
  <2>7. CASE num > mmap_total_size
    <3>1. /\ BrkHeap \in Listed /\ BrkHeap.size <= mmap_total_size
          /\ brk_top <= BrkHeap.base + BrkHeap.size
          /\ brk_base <= cur_brk
          /\ brk_base = BrkHeap.base + MetaPages(BrkHeap)
          /\ BrkHeap.base \in Nat /\ BrkHeap.size \in Nat /\ MetaPages(BrkHeap) \in Nat
          /\ brk_top \in Nat /\ cur_brk \in Nat /\ mmap_total_size \in Nat
      BY ListedFacts, HeapFitsTotal DEF IInv, TypeOK, PageInv, brk_base
    <3>2. num > brk_top - cur_brk
      BY <3>1, <2>2, <2>7
    <3>3. ASSUME NEW h \in Listed, NEW b \in 0 .. h.size,
                 Run(b, num) \subseteq node[h].free_pages
          PROVE  FALSE
      <4>1. /\ h.size \in Nat /\ h.size <= mmap_total_size /\ MetaPages(h) \in Nat
            /\ node[h].free_pages \subseteq MetaPages(h) .. (h.size - 1)
        BY ListedFacts, HeapFitsTotal DEF IInv, PageInv
      <4>2. b + num - 1 \in Run(b, num)
        BY <2>2 DEF Run
      <4> QED
        BY <4>1, <4>2, <3>3, <3>1, <2>2, <2>7
    <3> QED
      BY <3>2, <3>3 DEF num
  <2> QED
    BY <2>5, <2>6, <2>7 DEF alloc_fails
<1> QED
  BY <1>1, SpecIInv, PTL DEF Spec, NoFalseENOMEM

-----------------------------------------------------------------------------
(* The allocator implements PageOwner. *)

LEMMA UsableElement ==
  \A p : p \in UsablePages <=> \E h \in Listed : p \in Pages(h) /\ p \notin MetaOf(h)
  BY DEF UsablePages

OwnerInv ==
  /\ UsablePages \subseteq Nat
  /\ owned \subseteq UsablePages
  /\ BreakOf(BrkHeap) \subseteq UsablePages
  /\ BrkPages \subseteq BreakOf(BrkHeap)
  /\ BreakOf(BrkHeap) \cap owned = {}

LEMMA OwnerSets == IInv => OwnerInv
<1> SUFFICES ASSUME IInv PROVE OwnerInv
  OBVIOUS
<1>1. /\ PagesAccountedFor
      /\ Listed \subseteq Heaps
      /\ BrkHeap \in Listed
      /\ brk_base \in Nat /\ cur_brk \in Nat /\ brk_top \in Nat
      /\ cur_brk <= brk_top
  BY IInvPages, ListedFacts DEF IInv, TypeOK, PageInv
<1>2. \A h \in Listed : Pages(h) \subseteq Nat
  BY <1>1, HeapsAreRanges DEF Pages, Run
<1>3. UsablePages \subseteq Nat
  BY <1>2, UsableElement
<1>4. owned \subseteq UsablePages
  BY <1>1, UsableElement, PagesOfElement DEF PagesAccountedFor
<1>5. BreakOf(BrkHeap) \subseteq UsablePages
  BY <1>1, UsableElement DEF PagesAccountedFor
<1>6. BrkPages \subseteq BreakOf(BrkHeap)
  BY <1>1 DEF BrkPages, BreakOf, mmap_brk_node
<1>7. BreakOf(BrkHeap) \cap owned = {}
  BY <1>1 DEF PagesAccountedFor
<1> QED
  BY <1>3, <1>4, <1>5, <1>6, <1>7 DEF OwnerInv

\* The same of the next state.
LEMMA OwnerSetsNext == IInv' => OwnerInv'
  BY OwnerSets, PTL

LEMMA RunIsRun == \A a \in Int, b \in Int : Owner!IsRun(a .. b)
  BY DEF Owner!IsRun

LEMMA ListedSame == mmap_node_list' = mmap_node_list =>
                      Listed' = Listed /\ UsablePages' = UsablePages
  BY DEF Listed, UsablePages

LEMMA OwnerInit == Init => Owner!Init
<1> SUFFICES ASSUME Init PROVE Owner!Init
  OBVIOUS
<1>1. IInv
  BY InitIInv
<1>2. brk_base \in Nat /\ cur_brk = brk_base
  BY <1>1, ListedFacts DEF IInv, Init
<1>3. BrkPages = {}
  BY <1>2 DEF BrkPages
<1> QED
  BY <1>1, <1>3, OwnerSets DEF OwnerInv, Owner!Init, Init

LEMMA OwnerBreak ==
  ASSUME IInv, IInv', NEW brk \in Addrs, sys_brk(brk)
  PROVE  Owner!Break
<1>1. /\ UNCHANGED <<mmap_node_list, brk_top, owned>>
      /\ UsablePages' = UsablePages
  BY ListedSame DEF sys_brk, heap_vars
<1>2. BrkPages' \subseteq BreakOf(BrkHeap)'
  BY OwnerSetsNext DEF OwnerInv
<1>3. BreakOf(BrkHeap)' = BreakOf(BrkHeap)
  BY <1>1 DEF BreakOf
<1>4. BrkPages' \subseteq UsablePages \ owned
  BY <1>2, <1>3, OwnerSets DEF OwnerInv
<1>5. brk_base \in Int /\ cur_brk' - 1 \in Int
  BY ListedFacts DEF IInv, TypeOK
<1>6. Owner!IsRun(BrkPages')
  BY <1>5, RunIsRun DEF BrkPages
<1> QED
  BY <1>1, <1>4, <1>6 DEF Owner!Break, Owner!Spare

LEMMA OwnerMap ==
  ASSUME IInv, NEW num \in Nat, NEW first \in Int,
         UNCHANGED <<mmap_node_list, cur_brk>>,
         owned' = owned \cup Run(first, num),
         Run(first, num) \cap owned = {},
         Run(first, num) \cap BrkPages = {},
         Run(first, num) \subseteq UsablePages
  PROVE  Owner!Map
<1>1. UsablePages' = UsablePages /\ BrkPages' = BrkPages
  BY ListedSame DEF BrkPages
<1>2. owned' \ owned = Run(first, num)
  OBVIOUS
<1>3. Owner!IsRun(Run(first, num))
  BY RunIsRun DEF Run
<1> QED
  BY <1>1, <1>2, <1>3 DEF Owner!Map, Owner!Spare

LEMMA OwnerMapNode ==
  ASSUME IInv, NEW num \in Nat, alloc_from_node(num)
  PROVE  Owner!Map
<1>1. PICK h \in Listed : \E b \in node[h].free_pages :
         /\ Run(b, num) \subseteq node[h].free_pages
         /\ b + num <= h.size
         /\ owned' = owned \cup Run(PageAt(h, b), num)
  BY DEF alloc_from_node, Hand, FirstBit, StartBits, Listed
<1>2. PICK b \in node[h].free_pages :
         /\ Run(b, num) \subseteq node[h].free_pages
         /\ b + num <= h.size
         /\ owned' = owned \cup Run(PageAt(h, b), num)
  BY <1>1
<1> DEFINE out == Run(PageAt(h, b), num)
<1>3. /\ h \in Heaps /\ h.base \in Nat /\ h.size \in Nat
      /\ b \in Nat
      /\ PagesAccountedFor
  BY ListedFacts, IInvPages DEF IInv, TypeOK
<1>4. /\ out \subseteq Pages(h)
      /\ \A p \in out : p - h.base \in Run(b, num)
      /\ PageAt(h, b) \in Int
  <2>1. /\ out \subseteq Pages(h)
        /\ \A p \in Pages(h) : p \in out <=> p - h.base \in Run(b, num)
        /\ PageAt(h, b) \in Nat
    BY <1>2, <1>3, RunPages
  <2> QED
    BY <2>1
<1>5. out \subseteq FreeOf(h)
  <2> SUFFICES ASSUME NEW p \in out PROVE p \in FreeOf(h)
    OBVIOUS
  <2>1. p = PageAt(h, p - h.base) /\ p - h.base \in node[h].free_pages
    BY <1>2, <1>3, <1>4 DEF PageAt, Pages, Run
  <2> QED
    BY <2>1 DEF FreeOf
<1> HIDE DEF out
<1>6. out \cap owned = {} /\ out \cap MetaOf(h) = {} /\ out \cap BreakOf(h) = {}
  BY <1>3, <1>5 DEF PagesAccountedFor
<1>7. out \cap BrkPages = {}
  <2>1. CASE h = BrkHeap
    BY <2>1, <1>6, OwnerSets DEF OwnerInv
  <2>2. CASE h # BrkHeap
    <3>1. BreakOf(BrkHeap) \subseteq Pages(BrkHeap) /\ Disjoint(BrkHeap, h)
      BY <2>2, <1>3, ListedFacts DEF PagesAccountedFor, IInv
    <3> QED
      BY <3>1, <1>4, OwnerSets DEF OwnerInv, Disjoint
  <2> QED
    BY <2>1, <2>2
<1>8. out \subseteq UsablePages
  BY <1>4, <1>6, UsableElement
<1>9. UNCHANGED <<mmap_node_list, cur_brk>>
  BY DEF alloc_from_node, brk_vars
<1> QED
  BY <1>2, <1>4, <1>6, <1>7, <1>8, <1>9, OwnerMap DEF out

LEMMA OwnerMapBreak ==
  ASSUME IInv, NEW num \in Nat, alloc_from_break(num)
  PROVE  Owner!Map
<1> DEFINE out == Run(brk_top - num, num)
<1>1. /\ num <= brk_top - cur_brk
      /\ UNCHANGED <<mmap_node_list, cur_brk>>
      /\ owned' = owned \cup Run(PageAt(BrkHeap, brk_top - num - BrkHeap.base), num)
      /\ brk_top \in Nat /\ cur_brk \in Nat /\ brk_base \in Nat
      /\ brk_base <= cur_brk
      /\ BrkHeap.base \in Nat
  BY ListedFacts, BrkHeapAssumption
     DEF alloc_from_break, Hand, heap_vars, mmap_brk_node, IInv, TypeOK, PageInv
<1>2. PageAt(BrkHeap, brk_top - num - BrkHeap.base) = brk_top - num
  BY <1>1 DEF PageAt
<1>3. out \subseteq BreakOf(BrkHeap) /\ out \cap BrkPages = {}
  BY <1>1 DEF Run, BreakOf, BrkPages, mmap_brk_node
<1>4. brk_top - num \in Int
  BY <1>1
<1> QED
  BY <1>1, <1>2, <1>3, <1>4, OwnerSets, OwnerMap DEF OwnerInv

LEMMA OwnerUnmap ==
  ASSUME IInv, NEW addr \in Nat, NEW num \in Nat, free_mmap(addr, num), ~Fails(EINVAL),
         (\E h \in Listed : Holds(h, addr, num)) => Run(addr, num) \subseteq owned
  PROVE  Owner!Unmap
<1>1. /\ Run(addr, num) \subseteq owned
      /\ owned' = owned \ Run(addr, num)
      /\ UNCHANGED <<mmap_node_list, cur_brk>>
  BY DEF free_mmap, brk_vars, Listed
<1>2. UsablePages' = UsablePages /\ BrkPages' = BrkPages
  BY <1>1, ListedSame DEF BrkPages
<1>3. owned \ owned' = Run(addr, num)
  BY <1>1
<1>4. Owner!IsRun(Run(addr, num))
  BY RunIsRun DEF Run
<1> QED
  BY <1>1, <1>2, <1>3, <1>4 DEF Owner!Unmap

LEMMA OwnerAdd ==
  ASSUME IInv, IInv', NEW h \in Heaps, mmap_add_heap(h), ~Fails(ENOMEM)
  PROVE  Owner!Add
<1>1. /\ mmap_node_list' = Append(mmap_node_list, h)
      /\ UNCHANGED <<owned, cur_brk>>
  BY DEF mmap_add_heap, brk_vars
<1>2. Listed \subseteq Listed'
  <2>1. mmap_node_list \in Seq(Heaps)
    BY DEF IInv, TypeOK
  <2>2. \A i \in DOMAIN mmap_node_list :
          i \in DOMAIN mmap_node_list' /\ mmap_node_list'[i] = mmap_node_list[i]
    BY <1>1, <2>1
  <2> QED
    BY <2>2 DEF Listed
<1>3. UsablePages \subseteq UsablePages'
  BY <1>2 DEF UsablePages
<1>4. UsablePages' \subseteq Nat
  BY OwnerSetsNext DEF OwnerInv
<1>5. BrkPages' = BrkPages
  BY <1>1 DEF BrkPages
<1> QED
  BY <1>1, <1>3, <1>4, <1>5 DEF Owner!Add

LEMMA OwnerRemove ==
  ASSUME IInv, NEW h \in Listed, h # BrkHeap, mmap_remove_heap(h), IsIdle(h)
  PROVE  Owner!Remove
<1>1. /\ Listed' = Listed \ {h}
      /\ UNCHANGED <<owned, cur_brk>>
  BY RemoveHeap DEF mmap_remove_heap, brk_vars, IInv, TypeOK
<1>2. UsablePages' \subseteq UsablePages
  BY <1>1 DEF UsablePages
<1>3. UsablePages \ UsablePages' \subseteq Pages(h)
  BY <1>1 DEF UsablePages
<1>4. owned \cap Pages(h) = {}
  BY IdleHeapIsUnused
<1>5. BrkPages \cap Pages(h) = {}
  <2>1. /\ BreakOf(BrkHeap) \subseteq Pages(BrkHeap)
        /\ Disjoint(BrkHeap, h)
    BY ListedFacts, IInvPages DEF PagesAccountedFor, IInv
  <2> QED
    BY <2>1, OwnerSets DEF OwnerInv, Disjoint
<1>6. BrkPages' = BrkPages
  BY <1>1 DEF BrkPages
<1> QED
  BY <1>1, <1>2, <1>3, <1>4, <1>5, <1>6 DEF Owner!Remove, Owner!Spare

LEMMA OwnerStutter ==
  ASSUME UNCHANGED <<mmap_node_list, cur_brk, owned>>
  PROVE  UNCHANGED Owner!vars
  BY ListedSame DEF Owner!vars, BrkPages

LEMMA OwnerNext == IInv /\ IInv' /\ [Next]_vars => [Owner!Next]_(Owner!vars)
<1> USE DEF heap_vars, brk_vars
<1> SUFFICES ASSUME IInv, IInv', [Next]_vars
             PROVE  Owner!Next \/ UNCHANGED Owner!vars
  OBVIOUS
<1>1. ASSUME NEW errno, Fails(errno) PROVE UNCHANGED Owner!vars
  BY <1>1, OwnerStutter DEF Fails
<1>2. ASSUME NEW brk \in Addrs, sys_brk(brk) PROVE Owner!Next
  BY <1>2, OwnerBreak DEF Owner!Next
<1>3. ASSUME NEW len \in Lens, NEW supported \in BOOLEAN, sys_mmap(len, supported)
      PROVE  Owner!Next \/ UNCHANGED Owner!vars
  <2>1. len \div 2 \in Nat
    BY ArgsAreNat
  <2> QED
    BY <1>1, <1>3, <2>1, OwnerMapNode, OwnerMapBreak DEF sys_mmap, alloc_fails, Owner!Next
<1>4. ASSUME NEW addr \in Addrs, NEW len \in Lens,
             UnmapsItsOwn(addr, len), sys_munmap(addr, len)
      PROVE  Owner!Next \/ UNCHANGED Owner!vars
  <2>1. addr \div 2 \in Nat /\ len \div 2 \in Nat
    BY ArgsAreNat
  <2> QED
    BY <1>1, <1>4, <2>1, OwnerUnmap DEF sys_munmap, UnmapsItsOwn, Owner!Next
<1>5. ASSUME NEW r \in MemRanges, GivesItsOwn(r), mem_add_heap(r)
      PROVE  Owner!Next \/ UNCHANGED Owner!vars
  <2>1. RangeIsValid(r) => HeapOf(r) \in Heaps
    BY DEF Heaps
  <2> QED
    BY <1>1, <1>5, <2>1, OwnerAdd DEF mem_add_heap, Owner!Next
<1>6. ASSUME NEW r \in MemRanges, mem_remove_heap(r)
      PROVE  Owner!Next \/ UNCHANGED Owner!vars
  <2>1. CASE IsRemovable(HeapOf(r)) /\ mmap_remove_heap(HeapOf(r))
    BY <1>1, <2>1, OwnerRemove DEF IsRemovable, mmap_brk_node, mmap_remove_heap, Owner!Next
  <2> QED
    BY <1>1, <1>6, <2>1 DEF mem_remove_heap
<1>7. ASSUME NEW r \in MemRanges, mem_heap_is_free(r)
      PROVE  UNCHANGED Owner!vars
  BY <1>1, <1>7 DEF mem_heap_is_free
<1>8. CASE UNCHANGED vars
  BY <1>8, OwnerStutter DEF vars
<1> QED
  BY <1>2, <1>3, <1>4, <1>5, <1>6, <1>7, <1>8 DEF Next, OtherCall

\* The allocator keeps the promise PageOwner states, for every heap and request.
THEOREM AllocatorImplementsPageOwner == Spec => ImplementsPageOwner
  BY OwnerInit, OwnerNext, SpecIInv, PTL DEF Spec, ImplementsPageOwner, Owner!Spec

-----------------------------------------------------------------------------
(* The statistics.  reserved is a sum over the heaps, of which the proof      *)
(* needs that it counts the pages of their metadata: of the recursion behind  *)
(* MapThenSumSet, that the count of pages is the one solution it has.         *)

MetasOf(heaps) == UNION {MetaOf(h) : h \in heaps}
Picked(heaps) == CHOOSE h \in heaps : TRUE

\* MapThenSumSet's step: take a heap out, and add its pages to the others' sum.
SumStep(all, sum) ==
  [heaps \in SUBSET all |->
     IF heaps = {} THEN 0
     ELSE MetaPages(Picked(heaps)) + sum[heaps \ {Picked(heaps)}]]

LEMMA SumUnfolds ==
  ASSUME NEW all
  PROVE  MapThenSumSet(MetaPages, all) =
           (CHOOSE sum : sum = SumStep(all, sum))[all]
  BY DEF MapThenSumSet, MapThenFoldSet, SumStep, Picked

\* Two solutions of a step that only looks at smaller sets are the same.
LEMMA SumIsUnique ==
  ASSUME NEW all, IsFiniteSet(all),
         NEW f, f = SumStep(all, f), NEW g, g = SumStep(all, g)
  PROVE  f[all] = g[all]
<1> DEFINE bad == {heaps \in SUBSET all : f[heaps] # g[heaps]}
           Order == StrictSubsetOrdering(all)
<1>1. IsWellFoundedOn(Order, SUBSET all)
  BY FS_StrictSubsetOrderingWellFounded, FS_FiniteSubsetsOfFinite
<1>2. ASSUME NEW heaps \in bad
      PROVE  \E less \in bad : <<less, heaps>> \in Order
  <2>1. heaps # {}
    <3> SUFFICES ASSUME heaps = {} PROVE FALSE
      OBVIOUS
    <3>1. f[heaps] = 0 /\ g[heaps] = 0
      BY DEF SumStep
    <3> QED
      BY <3>1
  <2> DEFINE h == Picked(heaps)
             less == heaps \ {h}
  <2>2. h \in heaps
    BY <2>1 DEF Picked
  <2>3. less \in SUBSET all /\ heaps \in SUBSET all
    OBVIOUS
  <2>4. f[heaps] = MetaPages(h) + f[less] /\ g[heaps] = MetaPages(h) + g[less]
    BY <2>1, <2>3 DEF SumStep
  <2>5. f[less] # g[less]
    BY <2>4
  <2>6. <<less, heaps>> \in Order
    BY <2>2, <2>3 DEF StrictSubsetOrdering
  <2> QED
    BY <2>3, <2>5, <2>6
<1>3. bad = {}
  <2> HIDE DEF bad, Order
  <2>1. bad \subseteq SUBSET all
    BY DEF bad
  <2> QED
    BY <1>1, <1>2, <2>1, WFMin
<1> QED
  BY <1>3

\* The sum of the heaps' MetaPages is the number of pages their metadata take.
LEMMA ReservedIsMetas ==
  ASSUME IInv
  PROVE  /\ IsFiniteSet(MetasOf(Listed))
         /\ MapThenSumSet(MetaPages, Listed) = Cardinality(MetasOf(Listed))
<1> DEFINE count == [heaps \in SUBSET Listed |-> Cardinality(MetasOf(heaps))]
<1>1. IsFiniteSet(Listed)
  <2>1. /\ mmap_node_list \in [1 .. Len(mmap_node_list) -> Listed]
        /\ Len(mmap_node_list) \in Nat
    BY DEF IInv, TypeOK, Listed
  <2>2. mmap_node_list \in Surjection(1 .. Len(mmap_node_list), Listed)
    BY <2>1 DEF Surjection, Listed
  <2>3. IsFiniteSet(1 .. Len(mmap_node_list))
    BY <2>1, FS_Interval
  <2> QED
    BY <2>2, <2>3, FS_Surjection
<1>2. \A h \in Listed : /\ h.base \in Nat /\ h.size \in Nat /\ MetaPages(h) \in Nat
                        /\ MetaPages(h) < h.size
  BY ListedFacts DEF IInv, PageInv
<1>3. \A h \in Listed : MetaOf(h) \subseteq Pages(h)
  BY <1>2 DEF MetaOf, Pages, Run
<1>4. \A heaps \in SUBSET Listed :
        MetasOf(heaps) \subseteq PagesOf(Listed)
  BY <1>3, PagesOfElement DEF MetasOf
<1>5. \A heaps \in SUBSET Listed :
        IsFiniteSet(MetasOf(heaps)) /\ Cardinality(MetasOf(heaps)) \in Nat
  BY <1>4, FS_Subset, FS_CardinalityType DEF IInv, CountInv
<1>6. \A g, h \in Listed : g # h => MetaOf(g) \cap MetaOf(h) = {}
  BY <1>3, ListedFacts DEF IInv, Disjoint
<1>7. ASSUME NEW heaps \in SUBSET Listed, heaps # {}
      PROVE  Cardinality(MetasOf(heaps)) =
               MetaPages(Picked(heaps)) + Cardinality(MetasOf(heaps \ {Picked(heaps)}))
  <2> DEFINE h == Picked(heaps)
             less == heaps \ {h}
  <2>1. h \in heaps /\ less \in SUBSET Listed
    BY <1>7 DEF Picked
  <2> HIDE DEF h
  <2>2. MetasOf(heaps) = MetaOf(h) \cup MetasOf(less)
    BY <2>1 DEF MetasOf
  <2>3. MetaOf(h) \cap MetasOf(less) = {}
    BY <1>6, <2>1 DEF MetasOf
  <2>4. IsFiniteSet(MetaOf(h)) /\ Cardinality(MetaOf(h)) = MetaPages(h)
    BY <1>2, <2>1, RunCard DEF MetaOf
  <2>5. Cardinality(MetasOf(heaps)) = MetaPages(h) + Cardinality(MetasOf(less))
    BY <1>5, <2>1, <2>2, <2>3, <2>4, UnionCard
  <2> QED
    BY <2>5 DEF h
<1>8. MetasOf({}) = {}
  BY DEF MetasOf
<1>9. count = SumStep(Listed, count)
  <2>1. ASSUME NEW heaps \in SUBSET Listed
        PROVE  count[heaps] = IF heaps = {} THEN 0
                              ELSE MetaPages(Picked(heaps))
                                     + count[heaps \ {Picked(heaps)}]
    BY <1>7, <1>8, FS_EmptySet
  <2> HIDE DEF count
  <2>2. count = [heaps \in SUBSET Listed |-> count[heaps]]
    BY DEF count
  <2> QED
    BY <2>1, <2>2 DEF SumStep
<1> HIDE DEF count
<1> DEFINE sum == CHOOSE sum : sum = SumStep(Listed, sum)
<1>10. sum = SumStep(Listed, sum)
  BY <1>9
<1>11. MapThenSumSet(MetaPages, Listed) = sum[Listed]
  BY SumUnfolds
<1> HIDE DEF sum
<1>12. sum[Listed] = count[Listed]
  BY <1>1, <1>9, <1>10, SumIsUnique
<1> QED
  BY <1>5, <1>11, <1>12 DEF count

\* Four kinds of pages make up the heaps, so their counts add up to the total.
LEMMA IInvStatsAddUp == IInv => StatsAddUp
<1> SUFFICES ASSUME IInv PROVE StatsAddUp
  OBVIOUS
<1> DEFINE metas == MetasOf(Listed)
           free == UNION {FreeOf(h) : h \in Listed}
           break == brk_base .. (brk_top - 1)
           all == PagesOf(Listed)
<1>1. PagesAccountedFor
  BY IInvPages
<1>2. \A g, h \in Listed : g # h => Pages(g) \cap Pages(h) = {}
  BY ListedFacts DEF IInv, Disjoint
<1>3. \A h \in Listed : MetaOf(h) \cup FreeOf(h) \cup BreakOf(h) \subseteq Pages(h)
  BY <1>1 DEF PagesAccountedFor
<1>4. /\ BrkHeap \in Listed /\ BreakOf(BrkHeap) = break
      /\ \A h \in Listed : BreakOf(h) \subseteq break
  BY DEF IInv, HeapsApart, BreakOf, mmap_brk_node
<1>5. \A p : p \in metas <=> \E h \in Listed : p \in MetaOf(h)
  BY DEF MetasOf
<1>6. \A p : p \in free <=> \E h \in Listed : p \in FreeOf(h)
  OBVIOUS
<1> HIDE DEF metas, free, break, all
<1>7. all = metas \cup free \cup break \cup owned
  <2>1. \A p \in all : p \in metas \cup free \cup break \cup owned
    BY <1>1, <1>4, <1>5, <1>6, PagesOfElement DEF PagesAccountedFor, all
  <2>2. metas \subseteq all /\ free \subseteq all /\ break \subseteq all
    BY <1>3, <1>4, <1>5, <1>6, PagesOfElement DEF all
  <2>3. owned \subseteq all
    BY <1>1 DEF PagesAccountedFor, all
  <2> QED
    BY <2>1, <2>2, <2>3
<1>8. metas \cap free = {}
  BY <1>1, <1>2, <1>3, <1>5, <1>6 DEF PagesAccountedFor
<1>9. (metas \cup free) \cap break = {}
  BY <1>1, <1>2, <1>3, <1>4, <1>5, <1>6 DEF PagesAccountedFor
<1>10. (metas \cup free \cup break) \cap owned = {}
  BY <1>1, <1>4, <1>5, <1>6 DEF PagesAccountedFor
<1>11. /\ IsFiniteSet(metas) /\ IsFiniteSet(free)
       /\ IsFiniteSet(break) /\ IsFiniteSet(owned)
  BY <1>7, FS_Subset DEF IInv, CountInv, all
<1>12. Cardinality(all) = Cardinality(metas) + Cardinality(free)
                            + Cardinality(break) + Cardinality(owned)
  <2>1. /\ IsFiniteSet(metas \cup free)
        /\ Cardinality(metas \cup free) = Cardinality(metas) + Cardinality(free)
    BY <1>8, <1>11, UnionCard
  <2>2. /\ IsFiniteSet(metas \cup free \cup break)
        /\ Cardinality(metas \cup free \cup break) =
             Cardinality(metas \cup free) + Cardinality(break)
    BY <1>9, <1>11, <2>1, UnionCard
  <2>3. Cardinality(metas \cup free \cup break \cup owned) =
          Cardinality(metas \cup free \cup break) + Cardinality(owned)
    BY <1>10, <1>11, <2>2, UnionCard
  <2> QED
    BY <1>7, <2>1, <2>2, <2>3
<1>13. /\ brk_base \in Nat /\ brk_top \in Nat /\ cur_brk \in Nat
       /\ brk_base <= cur_brk /\ cur_brk <= brk_top
  BY ListedFacts DEF IInv, TypeOK, PageInv
<1>14. Cardinality(break) = brk_top - brk_base
  <2>1. brk_top - 1 \in Int /\ brk_base \in Int
    BY <1>13
  <2>2. Cardinality(break) = IF brk_base > brk_top - 1 THEN 0
                             ELSE (brk_top - 1) - brk_base + 1
    BY ONLY <2>1, FS_Interval DEF break
  <2> QED
    BY <1>13, <2>2
<1>15. /\ mmap_total_size = Cardinality(all)
       /\ mmap_alloc_size = Cardinality(owned)
  BY DEF IInv, CountInv, SizesAreExact, all
<1>16. MapThenSumSet(MetaPages, Listed) = Cardinality(metas)
  BY ReservedIsMetas DEF metas
<1>17. /\ Cardinality(metas) \in Nat /\ Cardinality(free) \in Nat
       /\ Cardinality(owned) \in Nat
  BY <1>11, FS_CardinalityType
<1>18. mmap_total_size = mmap_alloc_size + (cur_brk - brk_base)
         + MapThenSumSet(MetaPages, Listed) + Cardinality(free) + (brk_top - cur_brk)
  BY <1>12, <1>13, <1>14, <1>15, <1>16, <1>17
<1> QED
  BY <1>18 DEF StatsAddUp, allocator_stats, free

\* The maximum of a finite set of numbers exists: what it exceeds has a least.
LEMMA MaxIsLargest ==
  ASSUME NEW S \in SUBSET Nat, NEW bound \in Nat, \A x \in S : x <= bound, S # {}
  PROVE  Max(S) \in S /\ \A x \in S : Max(S) >= x
<1> DEFINE short == {n \in Nat : \E x \in S : n = bound - x}
           Less == {pair \in Nat \X Nat : pair[1] < pair[2]}
<1>1. \A x \in S : x \in Nat /\ bound - x \in Nat
  OBVIOUS
<1>2. short \subseteq Nat /\ short # {}
  BY <1>1
<1>3. IsWellFoundedOn(Less, Nat)
  BY NatLessThanWellFounded DEF OpToRel
<1>4. \A m, n \in Nat : <<m, n>> \in Less <=> m < n
  OBVIOUS
<1> HIDE DEF short, Less
<1>5. PICK n \in short : \A m \in short : ~(<<m, n>> \in Less)
  BY <1>2, <1>3, WFMin
<1>6. PICK x \in S : n = bound - x
  BY DEF short
<1>7. \A y \in S : x >= y
  <2> TAKE y \in S
  <2>1. bound - y \in short
    BY <1>1 DEF short
  <2>2. ~(bound - y < bound - x)
    BY <1>1, <1>2, <1>4, <1>5, <1>6, <2>1
  <2> QED
    BY <1>1, <2>2
<1> QED
  BY <1>7 DEF Max

\* A run the bitmaps show is one the search can give, and none is longer.
LEMMA IInvLargestFree == IInv => LargestFreeIsAvailable
<1> SUFFICES ASSUME IInv PROVE LargestFreeIsAvailable
  OBVIOUS
<1> DEFINE n == Max(FreeRuns \cup {0})
<1> SUFFICES (n > 0 => ~NoRun(n)) /\ NoRun(n + 1)
  BY DEF LargestFreeIsAvailable, allocator_stats
<1>1. n \in FreeRuns \cup {0} /\ \A x \in FreeRuns \cup {0} : n >= x
  <2> DEFINE S == FreeRuns \cup {0}
  <2>1. S \in SUBSET Nat /\ S # {} /\ AddrPages \in Nat /\ \A x \in S : x <= AddrPages
    BY SizesAssumption DEF FreeRuns
  <2> HIDE DEF S
  <2>2. Max(S) \in S /\ \A x \in S : Max(S) >= x
    BY <2>1, MaxIsLargest
  <2> QED
    BY <2>2 DEF S
<1> HIDE DEF n
<1>2. n \in Nat /\ (n > 0 => n \in FreeRuns)
  BY <1>1, SizesAssumption DEF FreeRuns
<1>3. \A h \in Listed :
        /\ h \in Heaps /\ h.size \in Nat /\ h.size < AddrPages /\ MetaPages(h) \in Nat
        /\ node[h].free_pages \subseteq MetaPages(h) .. (h.size - 1)
        /\ node[h].avail_blocks = {Word(b) : b \in node[h].free_pages}
  BY ListedFacts, HeapsFit DEF IInv, PageInv, AvailIsExact
<1>4. ASSUME n > 0 PROVE ~NoRun(n)
  <2>1. PICK h \in Listed : \E b \in node[h].free_pages :
          Run(b, n) \subseteq node[h].free_pages
    BY <1>2, <1>4 DEF FreeRuns
  <2>2. PICK b \in node[h].free_pages : Run(b, n) \subseteq node[h].free_pages
    BY <2>1
  <2>3. b \in Nat /\ b + n - 1 \in Run(b, n)
    BY <1>2, <1>3, <1>4 DEF Run
  <2>4. b + n - 1 \in MetaPages(h) .. (h.size - 1)
    BY <1>3, <2>2, <2>3
  <2>5. b + n <= h.size
    BY <1>2, <1>3, <2>3, <2>4
  <2> QED
    BY <1>3, <2>2, <2>5 DEF NoRun, StartBits
<1>5. NoRun(n + 1)
  <2> SUFFICES ASSUME NEW h \in Listed, NEW b \in StartBits(h, n + 1) PROVE FALSE
    BY DEF NoRun
  <2>1. /\ b \in node[h].free_pages /\ b + (n + 1) <= h.size
        /\ Run(b, n + 1) \subseteq node[h].free_pages
    BY DEF StartBits
  <2>2. b \in Nat
    BY <1>3, <2>1
  <2>3. n + 1 \in 1 .. AddrPages
    BY <1>2, <1>3, <2>1, <2>2, SizesAssumption
  <2>4. n + 1 \in FreeRuns
    BY <2>1, <2>3 DEF FreeRuns
  <2>5. n >= n + 1
    BY <1>1, <2>4
  <2> QED
    BY <1>2, <2>5
<1> QED
  BY <1>4, <1>5

\* What mmap_heap_get_stats reports is true of the heaps: its counts add up, and
\* a mapping of largest_free pages can be made from the bitmaps, a larger cannot.
THEOREM StatisticsAreTrue == Spec => []StatsAreTrue
<1>1. IInv => StatsAreTrue
  BY IInvStatsAddUp, IInvLargestFree DEF StatsAreTrue
<1> QED
  BY <1>1, SpecIInv, PTL

-----------------------------------------------------------------------------
(* A program that unmaps anything.  What is left of the invariant is what the *)
(* allocator's own steps rely on: the bitmaps agree with each other, and the  *)
(* break lies within its heap.                                                *)

AnyInv ==
  /\ mmap_node_list \in Seq(Heaps)
  /\ node \in [Heaps -> [free_pages : SUBSET Nat, avail_blocks : SUBSET Nat]]
  /\ AvailIsExact
  /\ brk_top \in Nat /\ cur_brk \in Nat
  /\ brk_base <= cur_brk /\ cur_brk <= brk_top
  /\ brk_top <= BrkHeap.base + BrkHeap.size
  /\ assert_ok \in BOOLEAN

LEMMA BrkHeapFacts ==
  /\ BrkHeap \in Heaps
  /\ BrkHeap.base \in Nat /\ BrkHeap.size \in Nat
  /\ MetaPages(BrkHeap) \in Nat /\ MetaPages(BrkHeap) < BrkHeap.size
  /\ brk_base \in Nat
<1>1. BrkHeap \in Heaps
  BY DEF Heaps
<1>2. BrkHeap.base \in Nat /\ BrkHeap.size \in Nat /\ MetaPages(BrkHeap) \in Nat
  BY <1>1, HeapsAreRanges, MetaPagesIsNat
<1> QED
  BY <1>1, <1>2, BrkHeapAssumption DEF brk_base

LEMMA InitAnyInv == Init => AnyInv
<1> SUFFICES ASSUME Init PROVE AnyInv
  OBVIOUS
<1>1. Listed = {BrkHeap} /\ mmap_node_list \in Seq(Heaps)
  BY BrkHeapFacts DEF Init, Listed
<1>2. AvailIsExact
  BY <1>1, BrkHeapFacts DEF Init, AvailIsExact, NoBits
<1> QED
  BY <1>1, <1>2, BrkHeapFacts DEF AnyInv, Init, NoBits, brk_base

\* The bitmaps of a heap agree after a run is set or cleared in them.
BitmapsAgree(bm) ==
  /\ bm \in [free_pages : SUBSET Nat, avail_blocks : SUBSET Nat]
  /\ bm.avail_blocks = {Word(b) : b \in bm.free_pages}

LEMMA SetRunAgrees ==
  ASSUME NEW bm, BitmapsAgree(bm), NEW run \in SUBSET Nat
  PROVE  BitmapsAgree(SetRun(bm, run))
  BY WordIsNat DEF BitmapsAgree, SetRun

LEMMA ClearRunAgrees ==
  ASSUME NEW bm, BitmapsAgree(bm), NEW run \in SUBSET Nat
  PROVE  BitmapsAgree(ClearRun(bm, run))
<1>1. /\ ClearRun(bm, run).free_pages = bm.free_pages \ run
      /\ ClearRun(bm, run).avail_blocks =
           {w \in bm.avail_blocks : \/ w \notin {Word(b) : b \in run}
                                    \/ w \in {Word(b) : b \in bm.free_pages \ run}}
      /\ ClearRun(bm, run) \in [free_pages : SUBSET Nat, avail_blocks : SUBSET Nat]
  BY DEF ClearRun, BitmapsAgree
<1>2. bm.avail_blocks = {Word(b) : b \in bm.free_pages}
  BY DEF BitmapsAgree
<1>3. ClearRun(bm, run).avail_blocks = {Word(b) : b \in bm.free_pages \ run}
  BY <1>1, <1>2
<1> QED
  BY <1>1, <1>3 DEF BitmapsAgree

\* Changing one heap's bitmaps, or the list by heaps whose bitmaps agree.
LEMMA AnyInvKept ==
  ASSUME AnyInv, UNCHANGED brk_vars, assert_ok' \in BOOLEAN,
         mmap_node_list' \in Seq(Heaps),
         node' \in [Heaps -> [free_pages : SUBSET Nat, avail_blocks : SUBSET Nat]],
         \A h \in Listed' : BitmapsAgree(node'[h])
  PROVE  AnyInv'
<1>1. AvailIsExact'
  BY DEF AvailIsExact, BitmapsAgree
<1> QED
  BY <1>1 DEF AnyInv, brk_vars

LEMMA AnyInvAgrees ==
  ASSUME AnyInv
  PROVE  /\ Listed \subseteq Heaps
         /\ \A h \in Listed : BitmapsAgree(node[h])
  BY DEF AnyInv, AvailIsExact, BitmapsAgree, Listed

LEMMA AnyFails ==
  ASSUME AnyInv, NEW errno, Fails(errno)
  PROVE  AnyInv' /\ assert_ok' = assert_ok
<1>1. Listed' = Listed
  BY DEF Fails, heap_vars, Listed
<1>2. AvailIsExact'
  BY <1>1 DEF Fails, heap_vars, AnyInv, AvailIsExact
<1> QED
  BY <1>2 DEF Fails, heap_vars, brk_vars, AnyInv

LEMMA AnyBrk ==
  ASSUME AnyInv, NEW brk \in Addrs, sys_brk(brk)
  PROVE  AnyInv' /\ assert_ok' = assert_ok
<1>1. /\ UNCHANGED <<mmap_node_list, node, brk_top>>
      /\ assert_ok' = assert_ok
      /\ \/ cur_brk' = cur_brk
         \/ cur_brk' = BalignUp(brk) /\ BrkIsValid(BalignUp(brk))
  BY DEF sys_brk, heap_vars
<1>2. BalignUp(brk) \in Nat
  BY ArgsAssumption, SizesAssumption DEF BalignUp, Halves
<1>3. Listed' = Listed
  BY <1>1 DEF Listed
<1>4. AvailIsExact'
  BY <1>1, <1>3 DEF AnyInv, AvailIsExact
<1> QED
  BY <1>1, <1>2, <1>4 DEF AnyInv, BrkIsValid

\* A mapping from a heap: the run the search found is free in both bitmaps.
LEMMA AnyFromNode ==
  ASSUME AnyInv, NEW num \in Nat, alloc_from_node(num)
  PROVE  AnyInv' /\ assert_ok' = assert_ok
<1>1. PICK h \in Listed : \E b \in node[h].free_pages :
          /\ FirstBit(h, num, b)
          /\ node' = [node EXCEPT ![h] = ClearRun(@, Run(b, num))]
          /\ Hand(h, b, num, ClearRunAsserts(node[h], Run(b, num)))
  BY DEF alloc_from_node, Listed
<1>2. PICK b \in node[h].free_pages :
          /\ FirstBit(h, num, b)
          /\ node' = [node EXCEPT ![h] = ClearRun(@, Run(b, num))]
          /\ Hand(h, b, num, ClearRunAsserts(node[h], Run(b, num)))
  BY <1>1
<1>3. /\ UNCHANGED brk_vars /\ mmap_node_list' = mmap_node_list /\ Listed' = Listed
  BY DEF alloc_from_node, Listed
<1>4. BitmapsAgree(node[h]) /\ h \in Heaps /\ Listed \subseteq Heaps
  BY AnyInvAgrees
<1>5. /\ Run(b, num) \subseteq node[h].free_pages
      /\ b \in Nat /\ b + num <= h.size
  BY <1>2, <1>4 DEF FirstBit, StartBits, BitmapsAgree
<1>6. ClearRunAsserts(node[h], Run(b, num))
  BY <1>4, <1>5 DEF ClearRunAsserts, BitmapsAgree
<1>7. assert_ok' = assert_ok
  <2>1. /\ cur_brk <= brk_top /\ b >= 0 /\ b + num <= h.size
        /\ assert_ok \in BOOLEAN
    BY <1>5 DEF AnyInv
  <2> QED
    BY <1>2, <1>6, <2>1, Zenon DEF Hand
<1>8. BitmapsAgree(ClearRun(node[h], Run(b, num)))
  <2>1. Run(b, num) \in SUBSET Nat
    BY <1>4, <1>5 DEF BitmapsAgree
  <2> QED
    BY <2>1, <1>4, ClearRunAgrees
<1>9. node' \in [Heaps -> [free_pages : SUBSET Nat, avail_blocks : SUBSET Nat]]
  BY <1>2, <1>4, <1>8 DEF AnyInv, BitmapsAgree
<1>10. \A g \in Listed' : BitmapsAgree(node'[g])
  BY <1>2, <1>3, <1>4, <1>8, AnyInvAgrees DEF AnyInv
<1> QED
  BY <1>3, <1>7, <1>9, <1>10, AnyInvKept DEF AnyInv

LEMMA AnyFromBreak ==
  ASSUME AnyInv, NEW num \in Nat, alloc_from_break(num)
  PROVE  AnyInv' /\ assert_ok' = assert_ok
<1>1. /\ UNCHANGED <<mmap_node_list, node, cur_brk>>
      /\ num <= brk_top - cur_brk
      /\ brk_top' = brk_top - num
      /\ Hand(BrkHeap, brk_top' - BrkHeap.base, num, TRUE)
  BY DEF alloc_from_break, heap_vars, mmap_brk_node
<1>2. /\ brk_top' \in Nat /\ cur_brk <= brk_top'
      /\ brk_top' <= BrkHeap.base + BrkHeap.size
      /\ brk_top' - BrkHeap.base >= 0
      /\ (brk_top' - BrkHeap.base) + num <= BrkHeap.size
  BY <1>1, BrkHeapFacts DEF AnyInv, brk_base
<1>3. assert_ok' = assert_ok
  <2>1. cur_brk <= brk_top /\ assert_ok \in BOOLEAN
    BY DEF AnyInv
  <2> QED
    BY <1>1, <1>2, <2>1, Zenon DEF Hand
<1>4. Listed' = Listed
  BY <1>1 DEF Listed
<1>5. AvailIsExact'
  BY <1>1, <1>4 DEF AnyInv, AvailIsExact
<1> QED
  BY <1>1, <1>2, <1>3, <1>5 DEF AnyInv

\* Any unmapping: only the assertion that no page is free yet may fail.
LEMMA AnyUnmap ==
  ASSUME AnyInv, NEW addr \in Nat, NEW num \in Nat, free_mmap(addr, num)
  PROVE  AnyInv' /\ (assert_ok' # assert_ok => FreesTwice(addr, num))
<1>1. CASE Fails(EINVAL)
  BY <1>1, AnyFails
<1>2. CASE ~Fails(EINVAL)
  <2>1. PICK h \in Listed :
          /\ Holds(h, addr, num)
          /\ node' = [node EXCEPT ![h] = SetRun(@, Run(addr - h.base, num))]
          /\ assert_ok' = (assert_ok /\ SetRunAsserts(node[h], Run(addr - h.base, num)))
    BY <1>2 DEF free_mmap, Listed
  <2>2. UNCHANGED brk_vars /\ mmap_node_list' = mmap_node_list /\ Listed' = Listed
    BY <1>2 DEF free_mmap, Listed
  <2>3. BitmapsAgree(node[h]) /\ h \in Heaps /\ Listed \subseteq Heaps
    BY AnyInvAgrees
  <2>4. h.base \in Nat /\ Run(addr - h.base, num) \in SUBSET Nat
    BY <2>1, <2>3, HeapsAreRanges DEF Holds, Run
  <2>5. BitmapsAgree(SetRun(node[h], Run(addr - h.base, num)))
    BY <2>3, <2>4, SetRunAgrees
  <2>6. node' \in [Heaps -> [free_pages : SUBSET Nat, avail_blocks : SUBSET Nat]]
    BY <2>1, <2>3, <2>5 DEF AnyInv, BitmapsAgree
  <2>7. \A g \in Listed' : BitmapsAgree(node'[g])
    BY <2>1, <2>2, <2>3, <2>5, AnyInvAgrees DEF AnyInv
  <2>8. assert_ok' \in BOOLEAN
    BY <2>1
  <2>9. AnyInv'
    BY <2>2, <2>6, <2>7, <2>8, AnyInvKept DEF AnyInv
  <2>10. SetRunAsserts(node[h], Run(addr - h.base, num)) \in BOOLEAN
    BY DEF SetRunAsserts
  <2>11. ASSUME ~SetRunAsserts(node[h], Run(addr - h.base, num))
        PROVE  FreesTwice(addr, num)
    <3>1. PICK b \in Run(addr - h.base, num) : b \in node[h].free_pages
      BY <2>11 DEF SetRunAsserts
    <3>2. h.base + b \in Run(addr, num) /\ (h.base + b) - h.base = b
      BY <2>4, <3>1 DEF Run
    <3> QED
      BY <3>1, <3>2 DEF FreesTwice
  <2>12. SetRunAsserts(node[h], Run(addr - h.base, num)) => assert_ok' = assert_ok
    BY <2>1, <2>10 DEF AnyInv
  <2> QED
    BY <2>9, <2>11, <2>12
<1> QED
  BY <1>1, <1>2

LEMMA AnyAdd ==
  ASSUME AnyInv, NEW h \in Heaps, mmap_add_heap(h)
  PROVE  AnyInv' /\ assert_ok' = assert_ok
<1>1. CASE Fails(ENOMEM)
  BY <1>1, AnyFails
<1>2. CASE ~Fails(ENOMEM)
  <2> DEFINE run == Run(MetaPages(h), h.size - MetaPages(h))
  <2>1. /\ node' = [node EXCEPT ![h] = SetRun(NoBits, run)]
        /\ mmap_node_list' = Append(mmap_node_list, h)
        /\ UNCHANGED brk_vars
        /\ assert_ok' = assert_ok
    BY <1>2 DEF mmap_add_heap
  <2>2. run \in SUBSET Nat
    BY HeapsAreRanges, MetaPagesIsNat DEF Run
  <2>3. BitmapsAgree(NoBits)
    BY DEF BitmapsAgree, NoBits
  <2> HIDE DEF run
  <2>4. BitmapsAgree(SetRun(NoBits, run))
    BY <2>2, <2>3, SetRunAgrees
  <2>5. mmap_node_list' \in Seq(Heaps) /\ Listed' \subseteq Listed \cup {h}
    BY <2>1 DEF AnyInv, Listed
  <2>6. node' \in [Heaps -> [free_pages : SUBSET Nat, avail_blocks : SUBSET Nat]]
    BY <2>1, <2>4 DEF AnyInv, BitmapsAgree
  <2>7. \A g \in Listed' : BitmapsAgree(node'[g])
    BY <2>1, <2>4, <2>5, AnyInvAgrees DEF AnyInv
  <2> QED
    BY <2>1, <2>5, <2>6, <2>7, AnyInvKept DEF AnyInv
<1> QED
  BY <1>1, <1>2

LEMMA AnyRemove ==
  ASSUME AnyInv, NEW h, mmap_remove_heap(h)
  PROVE  AnyInv' /\ assert_ok' = assert_ok
<1>1. CASE Fails(EBUSY)
  BY <1>1, AnyFails
<1>2. CASE ~Fails(EBUSY)
  <2>1. PICK i \in DOMAIN mmap_node_list :
          mmap_node_list' = RemoveAt(mmap_node_list, i)
    BY <1>2 DEF mmap_remove_heap
  <2>2. UNCHANGED <<node, brk_vars, assert_ok>>
    BY <1>2 DEF mmap_remove_heap
  <2>3. /\ mmap_node_list' \in Seq(Heaps)
        /\ Len(mmap_node_list') = Len(mmap_node_list) - 1
        /\ \A k \in 1 .. (Len(mmap_node_list) - 1) :
             mmap_node_list'[k] = IF k < i THEN mmap_node_list[k] ELSE mmap_node_list[k + 1]
    <3>1. mmap_node_list \in Seq(Heaps) /\ i \in 1 .. Len(mmap_node_list)
      BY DEF AnyInv
    <3> QED
      BY <2>1, <3>1, RemoveAtIndex
  <2>4. Listed' \subseteq Listed
    <3>1. i \in 1 .. Len(mmap_node_list) /\ Len(mmap_node_list) \in Nat
      BY DEF AnyInv
    <3>2. ASSUME NEW k \in 1 .. (Len(mmap_node_list) - 1)
          PROVE  mmap_node_list'[k] \in Listed
      <4>1. CASE k < i
        BY <4>1, <2>3, <3>1 DEF AnyInv, Listed
      <4>2. CASE k >= i
        <5>1. k + 1 \in DOMAIN mmap_node_list
          BY <3>1 DEF AnyInv
        <5> QED
          BY <4>2, <5>1, <2>3, <3>1 DEF Listed
      <4> QED
        BY <3>1, <4>1, <4>2
    <3> QED
      BY <2>3, <3>1, <3>2 DEF Listed
  <2>5. \A g \in Listed' : BitmapsAgree(node'[g])
    BY <2>2, <2>4, AnyInvAgrees
  <2>6. node' \in [Heaps -> [free_pages : SUBSET Nat, avail_blocks : SUBSET Nat]]
    BY <2>2 DEF AnyInv
  <2>7. UNCHANGED brk_vars
    BY <2>2 DEF brk_vars
  <2> QED
    BY <2>2, <2>3, <2>5, <2>6, <2>7, AnyInvKept DEF AnyInv
<1> QED
  BY <1>1, <1>2

LEMMA AnyStep ==
  AnyInv /\ AnyNext =>
    /\ AnyInv'
    /\ assert_ok' # assert_ok =>
         \E addr \in Addrs, len \in Lens :
           sys_munmap(addr, len) /\ FreesTwice(addr \div 2, len \div 2)
<1> SUFFICES ASSUME AnyInv, AnyNext
             PROVE  /\ AnyInv'
                    /\ assert_ok' # assert_ok =>
                         \E addr \in Addrs, len \in Lens :
                           sys_munmap(addr, len) /\ FreesTwice(addr \div 2, len \div 2)
  OBVIOUS
<1>1. ASSUME NEW len \in Lens, NEW supported \in BOOLEAN, sys_mmap(len, supported)
      PROVE  AnyInv' /\ assert_ok' = assert_ok
  <2>1. len \div 2 \in Nat
    BY ArgsAreNat
  <2> QED
    BY <1>1, <2>1, AnyFails, AnyFromNode, AnyFromBreak DEF sys_mmap, alloc_fails
<1>2. ASSUME NEW addr \in Addrs, NEW len \in Lens, sys_munmap(addr, len)
      PROVE  AnyInv' /\ (assert_ok' # assert_ok => FreesTwice(addr \div 2, len \div 2))
  <2>1. addr \div 2 \in Nat /\ len \div 2 \in Nat
    BY ArgsAreNat
  <2> QED
    BY <1>2, <2>1, AnyFails, AnyUnmap DEF sys_munmap
<1>3. ASSUME NEW r \in MemRanges, mem_add_heap(r)
      PROVE  AnyInv' /\ assert_ok' = assert_ok
  <2>1. RangeIsValid(r) => HeapOf(r) \in Heaps
    BY DEF Heaps
  <2> QED
    BY <1>3, <2>1, AnyFails, AnyAdd DEF mem_add_heap
<1>4. ASSUME NEW r \in MemRanges, mem_remove_heap(r) \/ mem_heap_is_free(r)
      PROVE  AnyInv' /\ assert_ok' = assert_ok
  BY <1>4, AnyFails, AnyRemove DEF mem_remove_heap, mem_heap_is_free
<1> QED
  BY <1>1, <1>2, <1>3, <1>4, AnyBrk DEF AnyNext, OtherCall

\* Whatever is unmapped, no assertion fails but munmap's, on a page already free.
THEOREM StrayUnmapsAssertOnlyOnFreePages == AnySpec => OnlyDoubleFreeAsserts
<1>1. Init => AnyInv
  BY InitAnyInv
<1>2. AnyInv /\ [AnyNext]_vars => AnyInv'
  <2> SUFFICES ASSUME AnyInv, UNCHANGED vars PROVE AnyInv'
    BY AnyStep
  <2>1. Listed' = Listed
    BY DEF vars, heap_vars, Listed
  <2>2. AvailIsExact'
    BY <2>1 DEF vars, heap_vars, AnyInv, AvailIsExact
  <2> QED
    BY <2>2 DEF vars, heap_vars, brk_vars, AnyInv
<1>3. AnyInv /\ [AnyNext]_vars =>
        [assert_ok' # assert_ok =>
           \E addr \in Addrs, len \in Lens :
             sys_munmap(addr, len) /\ FreesTwice(addr \div 2, len \div 2)]_vars
  BY AnyStep
<1> QED
  BY <1>1, <1>2, <1>3, PTL DEF AnySpec, OnlyDoubleFreeAsserts
=============================================================================
