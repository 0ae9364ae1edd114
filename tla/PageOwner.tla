------------------------------ MODULE PageOwner ------------------------------
(***************************************************************************)
(* What the memory allocator promises, without lists, bitmaps or metadata:  *)
(* a page given to it is at one time the program's by mmap, the program's   *)
(* by brk, or spare.  Mmap implements this (Mmap!ImplementsPageOwner).      *)
(***************************************************************************)
EXTENDS Integers

VARIABLES
  usable,  \* the pages the allocator can give out
  mapped,  \* the pages the program has from mmap
  held     \* the pages the program has from brk

vars == <<usable, mapped, held>>

IsRun(pages) == \A x, y \in pages : x .. y \subseteq pages

Spare == usable \ (mapped \cup held)

Init ==
  /\ usable \subseteq Nat
  /\ mapped = {}
  /\ held = {}

\* mmap hands out a run of spare pages.
Map ==
  /\ mapped \subseteq mapped'
  /\ mapped' \ mapped \subseteq Spare
  /\ IsRun(mapped' \ mapped)
  /\ UNCHANGED <<usable, held>>

\* munmap takes back a run of mapped pages.
Unmap ==
  /\ mapped' \subseteq mapped
  /\ IsRun(mapped \ mapped')
  /\ UNCHANGED <<usable, held>>

\* brk adds spare pages to the run the program has, or takes some back.
Break ==
  /\ held' \subseteq held \cup Spare
  /\ IsRun(held')
  /\ UNCHANGED <<usable, mapped>>

\* Pages are added; pages are removed only while they are spare.
Add ==
  /\ usable' \subseteq Nat
  /\ usable \subseteq usable'
  /\ UNCHANGED <<mapped, held>>

Remove ==
  /\ usable' \subseteq usable
  /\ usable \ usable' \subseteq Spare
  /\ UNCHANGED <<mapped, held>>

Next == Map \/ Unmap \/ Break \/ Add \/ Remove

Spec == Init /\ [][Next]_vars
=============================================================================
