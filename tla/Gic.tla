--------------------------------- MODULE Gic ---------------------------------
(***************************************************************************)
(* The GICv3 driver (src/arch/armv8/src/gicv3.c) and the interrupt          *)
(* controller it drives, as functions on the controller's state:            *)
(*   enabled  interrupts enabled in ISENABLER                               *)
(*   group1   interrupts in group 1; the others are not signalled as IRQs   *)
(*   edge     interrupts configured as edge triggered in ICFGR              *)
(*   latch    interrupts made pending by an edge or by a write to ISPENDR   *)
(*   line     interrupts whose input is high                                *)
(*   active   interrupts acknowledged and not deactivated                   *)
(*   grpen    ICC_IGRPEN1, the CPU interface's enable for group 1           *)
(* The driver gives every interrupt the same priority, allows none to       *)
(* preempt another (ICC_BPR1) and drops the priority and deactivates with   *)
(* one write (ICC_EOIR1 with EOImode clear), so the CPU interface signals   *)
(* nothing while an interrupt is active.                                    *)
(***************************************************************************)
EXTENDS Integers, FiniteSets

CONSTANTS
  GIC_SGI_END,       \* 16: software interrupts are below it
  GIC_PPI_END,       \* 32: private interrupts are below it
  GIC_SPI_END,       \* 1020: shared interrupts are below it
  PLATFORM_NUM_IRQS, \* 1020
  RegIrqs            \* 32: interrupts in an enable or group register

GIC_PPI_BASE == GIC_SGI_END
GIC_SPI_BASE == GIC_PPI_END

Irqs == 0 .. (GIC_SPI_END - 1)
Sgis == 0 .. (GIC_SGI_END - 1)
Ppis == GIC_PPI_BASE .. (GIC_PPI_END - 1)
Spis == GIC_SPI_BASE .. (GIC_SPI_END - 1)

VIRQ_INVALID == -1

\* static_assert(GIC_SPI_END >= PLATFORM_NUM_IRQS), and register 0 is the
\* redistributor's: it has the software and the private interrupts.
ASSUME GicAssumption ==
  /\ {GIC_SGI_END, GIC_PPI_END, GIC_SPI_END} \subseteq Nat
  /\ {PLATFORM_NUM_IRQS, RegIrqs} \subseteq Nat \ {0}
  /\ 0 < GIC_SGI_END /\ GIC_SGI_END < GIC_PPI_END /\ GIC_PPI_END < GIC_SPI_END
  /\ PLATFORM_NUM_IRQS <= GIC_SPI_END
  /\ RegIrqs = GIC_PPI_END

GicStates == [enabled : SUBSET Irqs, group1 : SUBSET Irqs, edge : SUBSET Irqs,
              latch : SUBSET Irqs, line : SUBSET Irqs, active : SUBSET Irqs,
              grpen : BOOLEAN]

-----------------------------------------------------------------------------
(* The controller. *)

\* A level interrupt is pending while its line is high or its latch is set.
IsPending(g, irq) == irq \in g.latch \/ (irq \in g.line /\ irq \notin g.edge)

\* What the CPU interface can signal, and ICC_IAR1 return.
Deliverable(g) ==
  IF g.grpen /\ g.active = {}
  THEN {irq \in g.enabled \cap g.group1 : IsPending(g, irq)}
  ELSE {}

\* The lines change; an edge interrupt whose line rises is latched.
Drive(g, line) ==
  [g EXCEPT !.line = line, !.latch = @ \cup ((line \ g.line) \cap g.edge)]

-----------------------------------------------------------------------------
(* The driver. *)

\* Mutant: the last register is written whole, past the last shared interrupt.
InitRegs_RoundedUp(n) ==
  {irq \in GIC_SPI_BASE .. (PLATFORM_NUM_IRQS + n) :
     irq \div n <= PLATFORM_NUM_IRQS \div n}

\* The shared interrupts the register loops of platform_irq_init reach, with n
\* interrupts to a register: whole registers only.
InitRegs(n) ==
  {irq \in Spis : irq \div n < PLATFORM_NUM_IRQS \div n}

\* The state platform_irq_init leaves, from the controller's reset state. The
\* trigger registers have half as many interrupts as the others.
platform_irq_init(g) ==
  [g EXCEPT !.enabled = @ \ (Sgis \cup Ppis \cup InitRegs(RegIrqs)),
            !.edge = (@ \cup InitRegs(RegIrqs \div 2)) \ Ppis,
            !.group1 = @ \cup Sgis \cup Ppis \cup InitRegs(RegIrqs),
            !.grpen = TRUE]

platform_irq_enable(g, irq) ==
  [g EXCEPT !.enabled = @ \cup ({irq} \cap Irqs)]

platform_irq_disable(g, irq) == [g EXCEPT !.enabled = @ \ {irq}]

platform_irq_assert(g, irq) == [g EXCEPT !.latch = @ \cup ({irq} \cap Irqs)]

platform_irq_clear(g, irq) == [g EXCEPT !.latch = @ \ {irq}]

\* Mutant: the group stays enabled.
platform_irq_disable_all_Nothing(g) == g

platform_irq_disable_all(g) == [g EXCEPT !.grpen = FALSE]

\* platform_irq_set_trigger accepts two triggers, and for an interrupt taken for
\* an SGI only the one it already has.
Triggers == {"LEVEL_HIGH", "EDGE_RISING", "LEVEL_LOW"}

TakenForSgi(irq) == 0 <= irq /\ irq <= GIC_SGI_END

TriggerIsValid(irq, trigger) ==
  /\ trigger \in {"LEVEL_HIGH", "EDGE_RISING"}
  /\ irq \in Irqs
  /\ TakenForSgi(irq) => trigger = "EDGE_RISING"

\* Mutant: the interrupt is enabled whether it was or not.
platform_irq_set_trigger_Enables(g, irq, trigger) ==
  IF ~TriggerIsValid(irq, trigger) \/ TakenForSgi(irq)
  THEN g
  ELSE platform_irq_enable(
         [g EXCEPT !.edge = IF trigger = "EDGE_RISING"
                            THEN @ \cup {irq} ELSE @ \ {irq}], irq)

\* The trigger is changed with the interrupt disabled, and the interrupt is
\* enabled again only if it was.
platform_irq_set_trigger(g, irq, trigger) ==
  IF ~TriggerIsValid(irq, trigger) \/ TakenForSgi(irq)
  THEN g
  ELSE LET off == platform_irq_disable(g, irq)
           set == [off EXCEPT !.edge = IF trigger = "EDGE_RISING"
                                       THEN @ \cup {irq} ELSE @ \ {irq}]
       IN  IF irq \in g.enabled THEN platform_irq_enable(set, irq) ELSE set

\* platform_irq_acknowledge: the results of the read of ICC_IAR1. The interrupt
\* becomes active and its latch is cleared.
AckResults(g) == IF Deliverable(g) = {} THEN {VIRQ_INVALID} ELSE Deliverable(g)

platform_irq_acknowledge(g, irq) ==
  IF irq = VIRQ_INVALID
  THEN g
  ELSE [g EXCEPT !.active = @ \cup {irq}, !.latch = @ \ {irq}]

\* Mutant: the pending state is cleared when the ISR is done.
platform_irq_deactivate_Clears(g, irq) ==
  [g EXCEPT !.active = @ \ {irq}, !.latch = @ \ {irq}]

\* Mutant: the priority is dropped and no more, as with EOImode set.
platform_irq_deactivate_Priority(g, irq) == g

platform_irq_deactivate(g, irq) == [g EXCEPT !.active = @ \ {irq}]

=============================================================================
