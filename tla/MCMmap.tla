------------------------------- MODULE MCMmap -------------------------------
(***************************************************************************)
(* A small instance of Mmap.  Words have 3 bits, so that the break's heap   *)
(* (7 pages, 2 of them metadata) spans three words and the second heap (4   *)
(* pages, 1 of metadata), adjacent to it, spans two.                        *)
(***************************************************************************)
EXTENDS Mmap

MCBrkHeap == [base |-> 1, size |-> 7]

Half(base, size) == [base |-> 2 * base, size |-> 2 * size]

MCMemRanges ==
  {Half(8, 4),                    \* right after the break's heap
   Half(12, 2),                   \* with one page to give
   Half(14, 1),                   \* too small for its metadata
   Half(1, 7),                    \* the break's heap: cannot be removed
   Half(15, 1),                   \* runs up to the end of the address space
   [base |-> 17, size |-> 4],     \* not aligned
   Half(0, 2)}

MCLens == {0, 1, 2, 4, 6, 10, 26}

MCAddrs == {0, 7, 28} \cup {2 * page : page \in 3 .. 13}
=============================================================================
