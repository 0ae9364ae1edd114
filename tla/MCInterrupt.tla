----------------------------- MODULE MCInterrupt -----------------------------
(***************************************************************************)
(* Small instances of Interrupt: one software interrupt, three private ones *)
(* (1 to 3; 3 is the timer's), and seven shared ones, of which the last are *)
(* in a register that is not whole.                                         *)
(***************************************************************************)
EXTENDS Interrupt

\* A controller as a boot loader may leave it.
Reset(enabled, group1) ==
  [enabled |-> enabled, group1 |-> group1, edge |-> Sgis, latch |-> {},
   line |-> {}, active |-> {}, grpen |-> FALSE]

MCEnabledState == {Reset(Irqs, {})}
MCResetStates == {Reset({}, {}), Reset(Irqs, {})}
=============================================================================
