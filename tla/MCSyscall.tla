------------------------------ MODULE MCSyscall ------------------------------
(* A small instance of Syscall: two descriptors besides the standard ones, in *)
(* a bitmap of words of two bits, so of six bits.                             *)
EXTENDS Syscall
=============================================================================
