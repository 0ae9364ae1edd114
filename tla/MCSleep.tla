------------------------------- MODULE MCSleep -------------------------------
(***************************************************************************)
(* Small instances of Sleep: one software interrupt, three private ones and *)
(* two shared ones; the application uses a shared one.                      *)
(***************************************************************************)
EXTENDS Sleep

MCResetStates ==
  {[enabled |-> {}, group1 |-> {}, edge |-> Sgis, latch |-> {}, line |-> {},
    active |-> {}, grpen |-> FALSE]}

\* Valid: 0.75, 2.25, 5.25 and 14.25 ticks. A second too many, a nanosecond too many.
MCRequests ==
  {[sec |-> 0, nsec |-> 1], [sec |-> 0, nsec |-> 3], [sec |-> 1, nsec |-> 3],
   [sec |-> 4, nsec |-> 3], [sec |-> 5, nsec |-> 0], [sec |-> 0, nsec |-> 4]}
=============================================================================
