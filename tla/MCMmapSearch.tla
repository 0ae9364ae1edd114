---------------------------- MODULE MCMmapSearch ----------------------------
(* Every bitmap of up to MaxBits pages, in words of WordBits, and every run. *)
EXTENDS MmapSearch
=============================================================================
