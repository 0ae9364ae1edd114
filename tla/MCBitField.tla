------------------------------ MODULE MCBitField ------------------------------
(***************************************************************************)
(* BitField for every type of GuestTypes: every sequence of two calls from  *)
(* the initial word, of two threads that share the object or of one alone.  *)
(***************************************************************************)
EXTENDS BitField, GuestTypes

\* The flags of one type, of which an unnamed bit is wanted.
MCModifyPages ==
  [addrspace_modify_pages_flags |-> addrspace_modify_pages_flags]
=============================================================================
