-------------------------------- MODULE Mmap --------------------------------
(***************************************************************************)
(* The memory allocator of the runtime: sys_brk, sys_mmap and sys_munmap,  *)
(* and the /dev/mem ioctls that give heap memory to the allocator and take *)
(* it back (src/src/mmap.c, src/src/mem.c).                                *)
(*                                                                         *)
(* Every call is a system call taken with interrupts masked, so each one   *)
(* is a single step.  State is kept in pages: an address is a page number, *)
(* a heap is a record of its base and size in pages.  Arguments are kept   *)
(* in half pages, so that alignment checks, rounding to a page and 64-bit  *)
(* overflow are those of the code: an argument is aligned when it is even, *)
(* and it wraps at 2 * AddrPages.                                          *)
(*                                                                         *)
(* A heap's node is kept inside the heap: its first MetaPages(h) pages     *)
(* hold the node and two bitmaps, free_pages (a bit per page, set when the *)
(* page is free) and avail_blocks (a bit per word of free_pages, set when  *)
(* the word is not zero).  Here a bitmap is the set of its set bits.       *)
(*                                                                         *)
(* The operations are the code's, for any arguments.  The calls are made   *)
(* by a program, and two specifications say which: Spec by one that keeps  *)
(* the contract below (UnmapsItsOwn), AnySpec by one that unmaps anything. *)
(***************************************************************************)
EXTENDS Integers, Sequences, FiniteSets, FiniteSetsExt, SequencesExt

CONSTANTS
  AddrPages,  \* pages in the address space; addresses wrap there
  WordBits,   \* BITMAP_WORD_BITS
  PageBytes,  \* PAGE_SIZE, for the size of the metadata only
  NodeBytes,  \* sizeof(mmap_node_t)
  RegBytes,   \* sizeof(register_t)
  BrkHeap,    \* the heap elf_setup passes to mmap_add_heap at boot
  MemRanges,  \* the ranges passed to the ioctls, in half pages
  Lens,       \* the lengths passed to mmap and munmap, in half pages
  Addrs       \* the addresses passed to brk and munmap, in half pages

ENOMEM == 12
EBUSY  == 16
EINVAL == 22

Halves == 0 .. (2 * AddrPages - 1)

IsAligned(x) == x % 2 = 0
BalignUp(x) == ((x + 1) \div 2) % AddrPages
AddOverflows(x, y) == x + y >= 2 * AddrPages

\* A number of pages kept in a size_t of bytes.
SizeT(pages) == pages % AddrPages

-----------------------------------------------------------------------------
(* Ranges, heaps and their bitmaps. *)

RangeIsValid(r) ==
  /\ r.base # 0
  /\ r.size # 0
  /\ IsAligned(r.base)
  /\ IsAligned(r.size)
  /\ ~AddOverflows(r.base, r.size)

HeapOf(r) == [base |-> r.base \div 2, size |-> r.size \div 2]

Heaps == {BrkHeap} \cup {HeapOf(r) : r \in {q \in MemRanges : RangeIsValid(q)}}

Word(bit) == bit \div WordBits
NumWords(bits) == (bits + WordBits - 1) \div WordBits

MetaBytes(h) ==
  NodeBytes + RegBytes * (NumWords(NumWords(h.size)) + NumWords(h.size))
MetaPages(h) == (MetaBytes(h) + PageBytes - 1) \div PageBytes

\* num pages, or bits, from start on.
Run(start, num) == start .. (start + num - 1)
PageAt(h, bit) == h.base + bit
Pages(h) == Run(h.base, h.size)
PagesOf(heaps) == UNION {Pages(h) : h \in heaps}
Disjoint(h, g) == Pages(h) \cap Pages(g) = {}

ASSUME SizesAssumption ==
  /\ AddrPages \in Nat \ {0}
  /\ WordBits \in Nat \ {0}
  /\ PageBytes \in Nat \ {0}
  /\ NodeBytes \in Nat \ {0}
  /\ RegBytes \in Nat \ {0}

ASSUME ArgsAssumption ==
  /\ MemRanges \subseteq [base : Halves, size : Halves]
  /\ Lens \subseteq Halves
  /\ Addrs \subseteq Halves

\* elf_setup asserts that mmap_add_heap succeeds (auxvec.c:158-159).
ASSUME BrkHeapAssumption ==
  /\ BrkHeap \in [base : Nat \ {0}, size : Nat \ {0}]
  /\ BrkHeap.base + BrkHeap.size < AddrPages
  /\ MetaPages(BrkHeap) < BrkHeap.size

VARIABLES
  mmap_node_list,   \* the heaps, in the order they were added
  node,             \* the bitmaps at the base of each heap
  mmap_total_size,
  mmap_alloc_size,
  brk_top,
  cur_brk,
  ret,              \* the result of the last call: a page, 0 or -errno
  assert_ok,        \* no assertion of the code has failed
  owned             \* pages given out by mmap and not unmapped yet (ghost)

heap_vars == <<mmap_node_list, node, mmap_total_size>>
brk_vars == <<brk_top, cur_brk>>
vars == <<heap_vars, brk_vars, mmap_alloc_size, ret, assert_ok, owned>>

mmap_brk_node == BrkHeap
brk_base == BrkHeap.base + MetaPages(BrkHeap)

Listed == {mmap_node_list[i] : i \in DOMAIN mmap_node_list}

NoBits == [free_pages |-> {}, avail_blocks |-> {}]

\* Mutant: only the first word of the range is marked available.
SetRun_FirstWordOnly(bm, run) ==
  [free_pages   |-> bm.free_pages \cup run,
   avail_blocks |-> bm.avail_blocks \cup
                      {Word(b) : b \in {c \in run : \A d \in run : c <= d}}]

(* update_mmap_range: the loop over the words of the range, and the         *)
(* assertions it makes on the way.                                          *)
SetRun(bm, run) ==
  [free_pages   |-> bm.free_pages \cup run,
   avail_blocks |-> bm.avail_blocks \cup {Word(b) : b \in run}]

\* Mutant: a word left with no page stays available.
ClearRun_KeepsBlock(bm, run) == [bm EXCEPT !.free_pages = @ \ run]

ClearRun(bm, run) ==
  LET left == bm.free_pages \ run
  IN  [free_pages   |-> left,
       avail_blocks |-> {w \in bm.avail_blocks :
                           \/ w \notin {Word(b) : b \in run}
                           \/ w \in {Word(b) : b \in left}}]

SetRunAsserts(bm, run) == run \cap bm.free_pages = {}
ClearRunAsserts(bm, run) ==
  /\ run \subseteq bm.free_pages
  /\ {Word(b) : b \in run} \subseteq bm.avail_blocks

\* Mutant: the run may not reach the last page of the heap.
StartBits_EndOffByOne(h, num) ==
  {b \in node[h].free_pages :
     /\ b + num < h.size
     /\ Word(b) \in node[h].avail_blocks
     /\ Run(b, num) \subseteq node[h].free_pages}

\* Mutant: only the first and the last page of the run are looked at.
StartBits_EndsOnly(h, num) ==
  {b \in node[h].free_pages :
     /\ b + num <= h.size
     /\ Word(b) \in node[h].avail_blocks
     /\ b + num - 1 \in node[h].free_pages}

(* search_free_mmap_range: where a run of num free pages can start.  The   *)
(* search skips the words avail_blocks does not show; MmapSearch is the    *)
(* word by word loop, which returns the least of these.                    *)
StartBits(h, num) ==
  {b \in node[h].free_pages :
     /\ b + num <= h.size
     /\ Word(b) \in node[h].avail_blocks
     /\ Run(b, num) \subseteq node[h].free_pages}

FirstBit(h, num, b) ==
  /\ b \in StartBits(h, num)
  /\ \A c \in StartBits(h, num) : b <= c

(* The state after elf_setup's mmap_add_heap(base, size, true): the pages   *)
(* after the metadata are all the program break's, none is in the bitmaps.  *)
Init ==
  /\ mmap_node_list = <<BrkHeap>>
  /\ node = [h \in Heaps |-> NoBits]
  /\ mmap_total_size = BrkHeap.size
  /\ mmap_alloc_size = 0
  /\ cur_brk = brk_base
  /\ brk_top = BrkHeap.base + BrkHeap.size
  /\ ret = 0
  /\ assert_ok = TRUE
  /\ owned = {}

-----------------------------------------------------------------------------
(* The program break. *)

\* Mutant: the break may grow back over pages stolen from it.
BrkIsValid_WholeHeap(new_brk) ==
  brk_base <= new_brk /\ new_brk <= BrkHeap.base + BrkHeap.size

BrkIsValid(new_brk) == brk_base <= new_brk /\ new_brk <= brk_top

sys_brk(brk) ==
  LET new_brk == BalignUp(brk)
  IN  /\ cur_brk' = IF BrkIsValid(new_brk) THEN new_brk ELSE cur_brk
      /\ ret' = cur_brk'
      /\ UNCHANGED <<heap_vars, brk_top, mmap_alloc_size, assert_ok, owned>>

-----------------------------------------------------------------------------
(* Mapping. "supported" stands for the checks on addr, prot, flags, fd and  *)
(* off.                                                                     *)

Fails(errno) ==
  /\ ret' = -errno
  /\ UNCHANGED <<heap_vars, brk_vars, mmap_alloc_size, assert_ok, owned>>

MapIsValid(len, supported) == supported /\ len # 0 /\ IsAligned(len)

\* No heap of the list has a run of num free pages.
NoRun(num) == \A h \in Listed : StartBits(h, num) = {}

\* Mutant: a mapping is not counted.
Hand_Uncounted(h, b, num, bits_ok) ==
  /\ assert_ok' = (assert_ok /\ bits_ok)
  /\ ret' = PageAt(h, b)
  /\ owned' = owned \cup Run(PageAt(h, b), num)
  /\ UNCHANGED mmap_alloc_size

\* What alloc_mmap does once it has a heap and a run in it.
Hand(h, b, num, bits_ok) ==
  /\ assert_ok' = (/\ assert_ok
                   /\ bits_ok
                   /\ cur_brk <= brk_top
                   /\ b >= 0
                   /\ b + num <= h.size)
  /\ mmap_alloc_size' = SizeT(mmap_alloc_size + num)
  /\ ret' = PageAt(h, b)
  /\ owned' = owned \cup Run(PageAt(h, b), num)

alloc_from_node(num) ==
  /\ num <= mmap_total_size
  /\ \E i \in DOMAIN mmap_node_list :
       LET h == mmap_node_list[i]
       IN  /\ \A j \in 1 .. (i - 1) : StartBits(mmap_node_list[j], num) = {}
           /\ \E b \in node[h].free_pages :
                /\ FirstBit(h, num, b)
                /\ node' = [node EXCEPT ![h] = ClearRun(@, Run(b, num))]
                /\ Hand(h, b, num, ClearRunAsserts(node[h], Run(b, num)))
  /\ UNCHANGED <<mmap_node_list, mmap_total_size, brk_vars>>

\* Mutant: the break is tried without looking at the heaps first.
alloc_from_break_First(num) ==
  /\ num <= mmap_total_size
  /\ num <= brk_top - cur_brk
  /\ brk_top' = brk_top - num
  /\ Hand(mmap_brk_node, brk_top' - mmap_brk_node.base, num, TRUE)
  /\ UNCHANGED <<heap_vars, cur_brk>>

\* Steal some memory from the top of the break.
alloc_from_break(num) ==
  /\ num <= mmap_total_size
  /\ NoRun(num)
  /\ num <= brk_top - cur_brk
  /\ brk_top' = brk_top - num
  /\ Hand(mmap_brk_node, brk_top' - mmap_brk_node.base, num, TRUE)
  /\ UNCHANGED <<heap_vars, cur_brk>>

alloc_fails(num) ==
  /\ \/ num > mmap_total_size
     \/ NoRun(num) /\ num > brk_top - cur_brk
  /\ Fails(ENOMEM)

sys_mmap(len, supported) ==
  \/ ~MapIsValid(len, supported) /\ Fails(EINVAL)
  \/ /\ MapIsValid(len, supported)
     /\ \/ alloc_from_node(len \div 2)
        \/ alloc_from_break(len \div 2)
        \/ alloc_fails(len \div 2)

-----------------------------------------------------------------------------
(* Unmapping.  A range no single heap holds is refused.  Of a range that a  *)
(* heap does hold nothing more is checked, MMAP_ALLOC_TRACK being 0 (line   *)
(* 28), but that no page of it is free (line 119).                          *)

UnmapIsValid(addr, len) ==
  /\ addr # 0
  /\ len # 0
  /\ ~AddOverflows(addr, len)
  /\ IsAligned(addr)
  /\ IsAligned(len)

Holds(h, addr, num) == h.base <= addr /\ addr + num <= h.base + h.size

\* Mutant: the pages stay counted as allocated.
free_mmap_Uncounted(addr, num) ==
  \/ (\A h \in Listed : ~Holds(h, addr, num)) /\ Fails(EINVAL)
  \/ /\ \E h \in Listed :
          /\ Holds(h, addr, num)
          /\ node' = [node EXCEPT ![h] = SetRun(@, Run(addr - h.base, num))]
     /\ ret' = 0
     /\ owned' = owned \ Run(addr, num)
     /\ UNCHANGED <<mmap_node_list, mmap_total_size, brk_vars, mmap_alloc_size, assert_ok>>

free_mmap(addr, num) ==
  \/ (\A h \in Listed : ~Holds(h, addr, num)) /\ Fails(EINVAL)
  \/ /\ \E i \in DOMAIN mmap_node_list :
          LET h == mmap_node_list[i]
              run == Run(addr - h.base, num)
          IN  /\ Holds(h, addr, num)
              /\ \A j \in 1 .. (i - 1) : ~Holds(mmap_node_list[j], addr, num)
              /\ node' = [node EXCEPT ![h] = SetRun(@, run)]
              /\ assert_ok' = (assert_ok /\ SetRunAsserts(node[h], run))
     /\ mmap_alloc_size' = SizeT(mmap_alloc_size - num)
     /\ ret' = 0
     /\ owned' = owned \ Run(addr, num)
     /\ UNCHANGED <<mmap_node_list, mmap_total_size, brk_vars>>

sys_munmap(addr, len) ==
  \/ ~UnmapIsValid(addr, len) /\ Fails(EINVAL)
  \/ UnmapIsValid(addr, len) /\ free_mmap(addr \div 2, len \div 2)

-----------------------------------------------------------------------------
(* The /dev/mem ioctls.                                                     *)

mmap_add_heap(h) ==
  IF MetaPages(h) >= h.size
  THEN Fails(ENOMEM)
  ELSE /\ node' = [node EXCEPT ![h] =
                     SetRun(NoBits, Run(MetaPages(h), h.size - MetaPages(h)))]
       /\ mmap_total_size' = mmap_total_size + h.size
       /\ mmap_node_list' = Append(mmap_node_list, h)
       /\ ret' = 0
       /\ UNCHANGED <<brk_vars, mmap_alloc_size, assert_ok, owned>>

mem_add_heap(r) ==
  \/ ~RangeIsValid(r) /\ Fails(EINVAL)
  \/ RangeIsValid(r) /\ mmap_add_heap(HeapOf(r))

\* Mutant: the break's heap may be removed.
IsRemovable_AnyHeap(h) == h \in Listed

\* is_mmap_node_free: the three results of the check both ioctls make.
IsRemovable(h) == h \in Listed /\ h # mmap_brk_node
\* Mutant: the last page of the heap is not looked at.
IsIdle_EndOffByOne(h) ==
  Run(MetaPages(h), h.size - MetaPages(h) - 1) \subseteq node[h].free_pages

IsIdle(h) == Run(MetaPages(h), h.size - MetaPages(h)) \subseteq node[h].free_pages

mem_heap_is_free(r) ==
  \/ ~(RangeIsValid(r) /\ IsRemovable(HeapOf(r))) /\ Fails(EINVAL)
  \/ /\ RangeIsValid(r) /\ IsRemovable(HeapOf(r))
     /\ IF IsIdle(HeapOf(r)) THEN Fails(0) ELSE Fails(EBUSY)

\* Mutant: the size is taken off the total before the heap is checked.
mmap_remove_heap_TotalFirst(h) ==
  /\ mmap_total_size' = mmap_total_size - h.size
  /\ \/ /\ ~IsIdle(h)
        /\ ret' = -EBUSY
        /\ UNCHANGED mmap_node_list
     \/ /\ IsIdle(h)
        /\ \E i \in DOMAIN mmap_node_list :
             /\ mmap_node_list[i] = h
             /\ mmap_node_list' = RemoveAt(mmap_node_list, i)
        /\ ret' = 0
  /\ UNCHANGED <<node, brk_vars, mmap_alloc_size, assert_ok, owned>>

mmap_remove_heap(h) ==
  \/ ~IsIdle(h) /\ Fails(EBUSY)
  \/ /\ IsIdle(h)
     /\ mmap_total_size' = mmap_total_size - h.size
     /\ \E i \in DOMAIN mmap_node_list :
          /\ mmap_node_list[i] = h
          /\ mmap_node_list' = RemoveAt(mmap_node_list, i)
     /\ ret' = 0
     /\ UNCHANGED <<node, brk_vars, mmap_alloc_size, assert_ok, owned>>

mem_remove_heap(r) ==
  \/ ~(RangeIsValid(r) /\ IsRemovable(HeapOf(r))) /\ Fails(EINVAL)
  \/ /\ RangeIsValid(r) /\ IsRemovable(HeapOf(r))
     /\ mmap_remove_heap(HeapOf(r))

-----------------------------------------------------------------------------
(* mmap_heap_get_stats, a function of the state. *)

\* Mutant: a run that ends the heap is counted one page short.
FreeRuns_EndOffByOne ==
  {n \in 1 .. AddrPages : \E h \in Listed : \E b \in node[h].free_pages :
     Run(b, n) \subseteq node[h].free_pages /\ b + n < h.size}

FreeRuns == {n \in 1 .. AddrPages : \E h \in Listed : \E b \in node[h].free_pages :
               Run(b, n) \subseteq node[h].free_pages}

\* Mutant: what the program has from brk is not counted.
allocator_stats_NoBrk ==
  [total        |-> mmap_total_size,
   allocated    |-> mmap_alloc_size,
   reserved     |-> MapThenSumSet(MetaPages, Listed),
   largest_free |-> Max(FreeRuns \cup {0})]

allocator_stats ==
  [total        |-> mmap_total_size,
   allocated    |-> mmap_alloc_size + (cur_brk - brk_base),
   reserved     |-> MapThenSumSet(MetaPages, Listed),
   largest_free |-> Max(FreeRuns \cup {0})]

-----------------------------------------------------------------------------
(* What the program that makes the calls keeps to.  Nothing in the code      *)
(* checks either: the allocator has no record of what it gave to whom, and  *)
(* compares a new heap with none it has.  Past the first, a page may be free *)
(* in a bitmap and the program break's at once; past the second, a heap's    *)
(* node is written over what is there, which is outside this model.          *)

\* A range that a heap holds is one the program has from mmap.
UnmapsItsOwn(addr, len) ==
  (\E h \in Listed : Holds(h, addr \div 2, len \div 2)) =>
    Run(addr \div 2, len \div 2) \subseteq owned

\* Memory given to the allocator is not the allocator's already.
GivesItsOwn(r) ==
  RangeIsValid(r) => \A h \in Listed : Disjoint(h, HeapOf(r))

OtherCall ==
  \/ \E brk \in Addrs : sys_brk(brk)
  \/ \E len \in Lens, supported \in BOOLEAN : sys_mmap(len, supported)
  \/ \E r \in MemRanges :
       (GivesItsOwn(r) /\ mem_add_heap(r)) \/ mem_remove_heap(r) \/ mem_heap_is_free(r)

Next ==
  \/ OtherCall
  \/ \E addr \in Addrs, len \in Lens : UnmapsItsOwn(addr, len) /\ sys_munmap(addr, len)

\* The calls of a program that unmaps whatever it likes.
AnyNext ==
  \/ OtherCall
  \/ \E addr \in Addrs, len \in Lens : sys_munmap(addr, len)

AnySpec == Init /\ [][AnyNext]_vars

Spec == Init /\ [][Next]_vars

-----------------------------------------------------------------------------
(* Properties. *)

\* The variables have the types of the code: the lists and bitmaps name only
\* heaps and pages that exist, and the break stays in its heap.
TypeOK ==
  /\ mmap_node_list \in Seq(Heaps)
  /\ node \in [Heaps -> [free_pages : SUBSET Nat, avail_blocks : SUBSET Nat]]
  /\ mmap_total_size \in Nat
  /\ mmap_alloc_size \in Nat
  /\ brk_top \in Nat
  /\ cur_brk \in Nat
  /\ ret \in Int
  /\ assert_ok \in BOOLEAN
  /\ owned \subseteq Nat

MetaOf(h) == Run(h.base, MetaPages(h))
FreeOf(h) == {PageAt(h, b) : b \in node[h].free_pages}
BreakOf(h) == IF h = mmap_brk_node THEN brk_base .. (brk_top - 1) ELSE {}

\* Every page of a heap the allocator has is in exactly one place: it holds
\* metadata, or a bitmap shows it free, or it is the program break's, or the
\* program has it from mmap.  So no page is given out twice or lost, and no
\* page the program has is outside the heaps, however mappings, partial
\* unmappings and stealing from the break (mmap.c:257-262) follow each other,
\* as long as the program unmaps only what it has from mmap.
PagesAccountedFor ==
  /\ \A h \in Listed :
       /\ Pages(h) = MetaOf(h) \cup FreeOf(h) \cup BreakOf(h) \cup (owned \cap Pages(h))
       /\ MetaOf(h) \cap FreeOf(h) = {}
       /\ MetaOf(h) \cap BreakOf(h) = {}
       /\ FreeOf(h) \cap BreakOf(h) = {}
       /\ owned \cap (MetaOf(h) \cup FreeOf(h) \cup BreakOf(h)) = {}
  /\ owned \subseteq PagesOf(Listed)
  /\ cur_brk \in brk_base .. brk_top

\* avail_blocks shows exactly the words of free_pages with a page left, so the
\* search skips a word only when it has nothing to give (mmap.c:201-208).
AvailIsExact ==
  \A h \in Listed :
    node[h].avail_blocks = {Word(b) : b \in node[h].free_pages}

\* No assertion in update_mmap_range or alloc_mmap fails (mmap.c:119-130,
\* 272-274).
NoAssertFails == assert_ok

\* The two counters are exact: mmap_total_size counts the pages of the heaps and
\* mmap_alloc_size the pages mapped, though each is only ever moved by the size
\* of one call's range (mmap.c:288, 349, 458, 530).
SizesAreExact ==
  /\ mmap_total_size = Cardinality(PagesOf(Listed))
  /\ mmap_alloc_size = Cardinality(owned)

\* What the search and the counters rely on, after any calls of a program that
\* unmaps only its own mappings, and also refused or failed ones: the block
\* bitmap is exact, the two counters count pages without ever wrapping, the
\* break's heap is in the list though it may look free (mmap.c:484), and no
\* assertion fails.  One stale bit makes a later call of a different kind give
\* out or lose memory.
StructuresHold ==
  AvailIsExact /\ SizesAreExact /\ BrkHeap \in Listed /\ NoAssertFails

\* A page of the range is already free in the heap.
FreesTwice(addr, num) ==
  \E h \in Listed : \E p \in Run(addr, num) : p - h.base \in node[h].free_pages

\* Whatever a program unmaps, also pages of the break or of a heap's metadata,
\* the bitmaps agree with each other and with the break: the one assertion that
\* can fail is that of munmap (mmap.c:119), on a page that is free already, and
\* never one of a later mmap.  It follows that nothing else stops a stray munmap.
OnlyDoubleFreeAsserts ==
  [][assert_ok' # assert_ok =>
       \E addr \in Addrs, len \in Lens :
         sys_munmap(addr, len) /\ FreesTwice(addr \div 2, len \div 2)]_vars

\* The statistics add up: total is what is allocated, reserved for metadata,
\* free in the bitmaps, and left above the program break.
StatsAddUp ==
  allocator_stats.total =
    allocator_stats.allocated + allocator_stats.reserved
    + Cardinality(UNION {FreeOf(h) : h \in Listed}) + (brk_top - cur_brk)

\* A mapping as large as the statistics' largest_free can be made, and from the
\* bitmaps: the number is not one that only spans two heaps; and none larger,
\* which for 0 is none of even a page.
LargestFreeIsAvailable ==
  LET n == allocator_stats.largest_free
  IN  (n > 0 => ~NoRun(n)) /\ NoRun(n + 1)

\* What mmap_heap_get_stats reports is true of the heaps, taken together and at
\* any moment: its numbers are five counts kept in different places.
StatsAreTrue == StatsAddUp /\ LargestFreeIsAvailable

\* mmap fails for lack of memory only when no heap has that many free pages in a
\* row and the break has not that many to spare (mmap.c:239, 257, 264).
NoFalseENOMEM ==
  [][\A len \in Lens :
       ret' = -ENOMEM /\ sys_mmap(len, TRUE) =>
         /\ len \div 2 > brk_top - cur_brk
         /\ \A h \in Listed : ~\E b \in 0 .. h.size :
              Run(b, len \div 2) \subseteq node[h].free_pages]_vars

\* The break gives up pages only to a mapping no heap has room for, and only
\* pages above cur_brk: memory the program has from brk is never taken.
BreakYieldsLast ==
  [][brk_top' # brk_top =>
       /\ brk_top' < brk_top
       /\ cur_brk <= brk_top'
       /\ \A h \in Listed : ~\E b \in 0 .. h.size :
            Run(b, brk_top - brk_top') \subseteq node[h].free_pages]_vars

\* A heap is taken back only when the program has no page of it.
RemovedHeapIsUnused ==
  [][\A h \in Listed :
       h \notin {mmap_node_list'[i] : i \in DOMAIN mmap_node_list'} =>
         owned \cap Pages(h) = {}]_vars

-----------------------------------------------------------------------------
(* The promise of the allocator. *)

UsablePages == UNION {Pages(h) \ MetaOf(h) : h \in Listed}
BrkPages == brk_base .. (cur_brk - 1)

Owner == INSTANCE PageOwner WITH
  usable <- UsablePages, mapped <- owned, held <- BrkPages

\* The allocator implements PageOwner: whatever the calls, a page is mapped only
\* while it is spare, break and mappings never share one, and only spare pages
\* leave with a heap.
ImplementsPageOwner == Owner!Spec
=============================================================================
