------------------------------ MODULE Interrupt ------------------------------
(***************************************************************************)
(* The interrupt side of the runtime: the dispatcher and the /dev/irq       *)
(* ioctls (src/src/interrupt.c), the waits of sys_ppoll, sys_exit, and the  *)
(* exception entry and exit around them (vectors.S).                        *)
(*                                                                          *)
(* One CPU runs the application, the runtime's system calls and the ISRs;   *)
(* the devices drive the interrupt lines at any time.  A system call runs   *)
(* with interrupts masked and is one step, except for the one that waits.   *)
(* An ISR is application code: it may make the ioctls, unmask interrupts    *)
(* and exit.  ISRs do not wait (see the README).                            *)
(***************************************************************************)
EXTENDS Gic, Sequences, SequencesExt

CONSTANTS
  PLATFORM_TIMER_IRQ, \* 27: the runtime's own interrupt
  AppIrqs,            \* the interrupts the application uses
  ResetStates,        \* the controller's states at boot
  MaxEvents,          \* bound: edges and asserts of the application's interrupts
  MaxDepth            \* bound: dispatchers entered and not left

\* isr_table has an entry for every interrupt the controller can signal, as
\* build.conf has it: the dispatcher does not look. The driver deactivates nothing
\* at boot: no interrupt is active then.
ASSUME InterruptAssumption ==
  /\ Irqs \subseteq 0 .. (PLATFORM_NUM_IRQS - 1)
  /\ PLATFORM_TIMER_IRQ \in Ppis
  /\ PLATFORM_TIMER_IRQ > GIC_SGI_END
  /\ AppIrqs \subseteq (0 .. (PLATFORM_NUM_IRQS - 1)) \ {PLATFORM_TIMER_IRQ}
  /\ ResetStates \subseteq {g \in GicStates : g.active = {}}
  /\ MaxEvents \in Nat /\ MaxDepth \in Nat \ {0}

VARIABLES
  gic,       \* the interrupt controller
  isr_table, \* who handles each interrupt
  masked,    \* PSTATE.I
  pc,        \* where the application, or the system call it made, is
  disp,      \* the dispatchers that are running, innermost first
  saved,     \* PSTATE.I to restore when the waiting system call returns
  quiet,     \* history: disabled by the dispatcher, not enabled since
  owed,      \* history: edges and asserts no ISR has been called for
  dropped,   \* history: acknowledged without an ISR, no edge or assert since
  events     \* edges and asserts so far

histories == <<quiet, owed, dropped, events>>
vars == <<gic, isr_table, masked, pc, disp, saved, histories>>

\* The handlers isr_table holds; NULL is none.
Handlers == {"NULL", "app", "timer_isr"}

have_isr(irq) == isr_table[irq] # "NULL"

\* interrupt_dispatch: about to acknowledge, in the ISR of irq, back from it, and
\* about to mask interrupts and to write the end of the interrupt, the two steps of
\* platform_irq_deactivate; irq and handled are the local variables of the loop.
Stages == {"ack", "isr", "end", "mask", "eoi"}
Frames == [at : Stages, irq : Irqs \cup {VIRQ_INVALID}, handled : BOOLEAN]

NewFrame == [at |-> "ack", irq |-> VIRQ_INVALID, handled |-> FALSE]

InIsr == disp # <<>> /\ Head(disp).at = "isr"

\* An ISR of the application is running; timer_isr is the runtime's.
InAppIsr ==
  pc # "exit" /\ InIsr /\ isr_table[Head(disp).irq] # "timer_isr"

\* The application's code is running: it may make a system call. So is the exit
\* function it registered, and only that, after sys_exit.
AppRuns == InAppIsr \/ (pc = "app" /\ disp = <<>>) \/ pc = "exit"

Init ==
  /\ gic \in {platform_irq_enable(
                platform_irq_set_trigger(platform_irq_init(g),
                                         PLATFORM_TIMER_IRQ, "LEVEL_HIGH"),
                PLATFORM_TIMER_IRQ) : g \in ResetStates}
  /\ isr_table = [irq \in 0 .. (PLATFORM_NUM_IRQS - 1) |->
                    IF irq = PLATFORM_TIMER_IRQ THEN "timer_isr" ELSE "NULL"]
  /\ masked = FALSE
  /\ pc = "app"
  /\ disp = <<>>
  /\ saved = FALSE
  /\ quiet = {} /\ owed = {} /\ dropped = {} /\ events = 0

-----------------------------------------------------------------------------
(* The devices. *)

\* A device's line rises, or falls.
DeviceRaises(irq) ==
  /\ irq \notin gic.line /\ events < MaxEvents
  /\ gic' = Drive(gic, gic.line \cup {irq})
  /\ owed' = owed \cup ({irq} \cap gic.edge)
  /\ dropped' = dropped \ ({irq} \cap gic.edge)
  /\ events' = events + 1
  /\ UNCHANGED <<isr_table, masked, pc, disp, saved, quiet>>

DeviceLowers(irq) ==
  /\ irq \in gic.line
  /\ gic' = Drive(gic, gic.line \ {irq})
  /\ UNCHANGED <<isr_table, masked, pc, disp, saved, histories>>

-----------------------------------------------------------------------------
(* The application.  An ioctl that is refused (-EINVAL, -EBUSY, -ENOENT, -ENOSYS) *)
(* changes nothing: it is a stuttering step.                                *)

\* IOCTL_ENABLE_IRQ and IOCTL_DISABLE_IRQ; -ENOENT without an ISR.
update_irq(irq, enable) ==
  /\ AppRuns /\ have_isr(irq)
  /\ gic' = IF enable THEN platform_irq_enable(gic, irq)
                      ELSE platform_irq_disable(gic, irq)
  /\ quiet' = IF enable THEN quiet \ {irq} ELSE quiet
  /\ UNCHANGED <<isr_table, masked, pc, disp, saved, owed, dropped, events>>

\* IOCTL_ASSERT_IRQ and IOCTL_CLEAR_IRQ; -ENOENT without an ISR.
assert_irq(irq, assert) ==
  /\ AppRuns /\ have_isr(irq) /\ (assert => events < MaxEvents)
  /\ gic' = IF assert THEN platform_irq_assert(gic, irq)
                      ELSE platform_irq_clear(gic, irq)
  /\ owed' = IF assert THEN owed \cup {irq} ELSE owed \ {irq}
  /\ dropped' = dropped \ {irq}
  /\ events' = IF assert THEN events + 1 ELSE events
  /\ UNCHANGED <<isr_table, masked, pc, disp, saved, quiet>>

\* IOCTL_REGISTER_ISR; -EBUSY if there is one, -EINVAL past the table's end.
interrupt_register_isr(irq) ==
  /\ AppRuns /\ ~have_isr(irq)
  /\ isr_table' = [isr_table EXCEPT ![irq] = "app"]
  /\ UNCHANGED <<gic, masked, pc, disp, saved, histories>>

\* IOCTL_DEREGISTER_ISR; -ENOENT if there is none. The interrupt stays enabled.
interrupt_deregister_isr(irq) ==
  /\ AppRuns /\ have_isr(irq)
  /\ isr_table' = [isr_table EXCEPT ![irq] = "NULL"]
  /\ UNCHANGED <<gic, masked, pc, disp, saved, histories>>

\* IOCTL_SET_IRQ_TRIGGER, which does not ask for an ISR.
set_trigger(irq, trigger) ==
  /\ AppRuns
  /\ gic' = platform_irq_set_trigger(gic, irq, trigger)
  /\ UNCHANGED <<isr_table, masked, pc, disp, saved, histories>>

interrupt_ioctl(irq) ==
  \/ \E enable \in BOOLEAN : update_irq(irq, enable)
  \/ \E assert \in BOOLEAN : assert_irq(irq, assert)
  \/ interrupt_register_isr(irq)
  \/ interrupt_deregister_isr(irq)
  \/ \E trigger \in Triggers : set_trigger(irq, trigger)

\* The application, on its own, writes PSTATE.I.
SetMask(mask) ==
  /\ AppRuns /\ mask # masked
  /\ masked' = mask
  /\ UNCHANGED <<gic, isr_table, pc, disp, saved, histories>>

\* sys_exit: no interrupt is signalled any more. What follows, the exit function
\* of the application and then an endless wait, is the application's code. So is
\* the console's callback for the message before: what it does is done by the
\* application's actions before this step.
sys_exit ==
  /\ AppRuns /\ pc # "exit"
  /\ gic' = platform_irq_disable_all(gic)
  /\ masked' = TRUE
  /\ pc' = "exit"
  /\ UNCHANGED <<isr_table, disp, saved, histories>>

\* The ioctls of update_irq and assert_irq for a number past the end of isr_table,
\* which they read without a check (interrupt.c:118, 140). The read may fault, and
\* an unexpected exception panics, which is sys_exit. If not, the driver has no
\* such interrupt: the call changes nothing, whether its result is 0 or -ENOENT.
ioctl_past_table == sys_exit

-----------------------------------------------------------------------------
(* Waiting: sys_ppoll, and interrupt_wait for every system call that waits. *)

\* The system call is entered, which masks interrupts, and executes WFI.
EnterWait ==
  /\ pc = "app" /\ disp = <<>>
  /\ saved' = masked
  /\ masked' = TRUE
  /\ pc' = "wfi"
  /\ UNCHANGED <<isr_table, disp, histories>>

\* sys_ppoll without a timeout.
sys_ppoll == EnterWait /\ UNCHANGED gic

\* WFI completes: when an interrupt is signalled, masked or not, and whenever
\* else the CPU chooses.
WfiCompletes ==
  /\ pc = "wfi"
  /\ pc' = "woken"
  /\ UNCHANGED <<gic, isr_table, masked, disp, saved, histories>>

\* asm_interrupt_pending, and the dispatcher if it says so.
interrupt_wait ==
  /\ pc = "woken"
  /\ IF Deliverable(gic) # {}
     THEN pc' = "dispatching" /\ disp' = <<NewFrame>>
     ELSE pc' = "waited" /\ disp' = disp
  /\ UNCHANGED <<gic, isr_table, masked, saved, histories>>

\* The system call returns to the application.
LeaveWait ==
  /\ pc = "waited"
  /\ masked' = saved
  /\ pc' = "app"
  /\ UNCHANGED <<isr_table, disp, saved, histories>>

ppoll_returns == LeaveWait /\ UNCHANGED gic

-----------------------------------------------------------------------------
(* The dispatcher. *)

\* handle_el1h_irq: the interrupt exception masks interrupts.
TakeIrq ==
  /\ ~masked /\ Deliverable(gic) # {} /\ Len(disp) < MaxDepth
  /\ masked' = TRUE
  /\ disp' = <<NewFrame>> \o disp
  /\ UNCHANGED <<gic, isr_table, pc, saved, histories>>

\* The innermost dispatcher goes on to stage at; the next turn of the loop begins
\* as the first did.
Advance(at, irq, handled) ==
  disp' = <<IF at = "ack" THEN NewFrame
            ELSE [at |-> at, irq |-> irq, handled |-> handled]>> \o Tail(disp)

\* sys_exit does not return to the dispatcher whose ISR called it.
DispatcherAt(at) == pc # "exit" /\ disp # <<>> /\ Head(disp).at = at

\* The acknowledged interrupt has an ISR: it is called.
CallIsr(irq) ==
  /\ DispatcherAt("ack") /\ irq # VIRQ_INVALID /\ irq \in AckResults(gic)
  /\ have_isr(irq)
  /\ gic' = platform_irq_acknowledge(gic, irq)
  /\ owed' = owed \ {irq} /\ dropped' = dropped \ {irq}
  /\ Advance("isr", irq, FALSE)
  /\ UNCHANGED <<isr_table, masked, pc, saved, quiet, events>>

\* Mutant: it is not disabled.
Unregistered_StillEnabled(g, irq) == g

\* It has none: it is disabled, so that it does not come back.
Unregistered(g, irq) == platform_irq_disable(g, irq)

\* The history does not ask have_isr: an ISR that is there is not passed over.
DropUnregistered(irq) ==
  /\ DispatcherAt("ack") /\ irq # VIRQ_INVALID /\ irq \in AckResults(gic)
  /\ ~have_isr(irq)
  /\ gic' = Unregistered(platform_irq_acknowledge(gic, irq), irq)
  /\ quiet' = quiet \cup {irq}
  /\ dropped' = IF isr_table[irq] = "NULL" THEN dropped \cup {irq} ELSE dropped
  /\ Advance("mask", irq, FALSE)
  /\ UNCHANGED <<isr_table, masked, pc, saved, owed, events>>

\* No interrupt is pending: interrupt_dispatch returns, to the exception's
\* return, which unmasks, or to interrupt_wait.
DispatchEnds ==
  /\ DispatcherAt("ack") /\ VIRQ_INVALID \in AckResults(gic)
  /\ disp' = Tail(disp)
  /\ IF pc = "dispatching" /\ Len(disp) = 1
     THEN pc' = "waited" /\ masked' = masked
     ELSE pc' = pc /\ masked' = FALSE
  /\ UNCHANGED <<gic, isr_table, saved, histories>>

\* The application's ISR returns.
IsrReturns(handled) ==
  /\ InAppIsr
  /\ Advance("end", Head(disp).irq, handled)
  /\ UNCHANGED <<gic, isr_table, masked, pc, saved, histories>>

\* Mutant: an interrupt not handled is not disabled.
Finished_StillEnabled(g, irq, handled) == g

\* Back from the ISR: an interrupt not handled is disabled.
Finished(g, irq, handled) == IF handled THEN g ELSE platform_irq_disable(g, irq)

Finish ==
  /\ DispatcherAt("end")
  /\ LET frame == Head(disp)
     IN  /\ gic' = Finished(gic, frame.irq, frame.handled)
         /\ quiet' = IF frame.handled THEN quiet ELSE quiet \cup {frame.irq}
         /\ Advance("mask", frame.irq, frame.handled)
  /\ UNCHANGED <<isr_table, masked, pc, saved, owed, dropped, events>>

\* platform_irq_deactivate masks, for an ISR may have unmasked, and then writes the
\* end of the interrupt. Each of the two, from one stage to the next:
MaskIrqs(from, to) ==
  /\ DispatcherAt(from)
  /\ masked' = TRUE
  /\ Advance(to, Head(disp).irq, Head(disp).handled)
  /\ UNCHANGED <<gic, isr_table, pc, saved, histories>>

EndIrq(from, to) ==
  /\ DispatcherAt(from)
  /\ gic' = platform_irq_deactivate(gic, Head(disp).irq)
  /\ Advance(to, Head(disp).irq, Head(disp).handled)
  /\ UNCHANGED <<isr_table, masked, pc, saved, histories>>

\* Mutant: interrupts the ISR unmasked stay unmasked.
Deactivate_Unmasked == EndIrq("mask", "ack")

\* Mutant: the interrupt ends before interrupts are masked.
Deactivate_EndFirst == EndIrq("mask", "eoi") \/ MaskIrqs("eoi", "ack")

Deactivate == MaskIrqs("mask", "eoi") \/ EndIrq("eoi", "ack")

Dispatch ==
  \/ \E irq \in Irqs : CallIsr(irq) \/ DropUnregistered(irq)
  \/ DispatchEnds
  \/ Finish \/ Deactivate

-----------------------------------------------------------------------------

Devices == \E irq \in AppIrqs : DeviceRaises(irq) \/ DeviceLowers(irq)

App ==
  \/ \E irq \in AppIrqs : interrupt_ioctl(irq)
  \/ \E mask \in BOOLEAN : SetMask(mask)
  \/ sys_exit \/ ioctl_past_table

Next ==
  \/ Devices
  \/ App
  \/ sys_ppoll \/ WfiCompletes \/ interrupt_wait \/ ppoll_returns
  \/ TakeIrq \/ Dispatch
  \/ \E handled \in BOOLEAN : IsrReturns(handled)

Spec == Init /\ [][Next]_vars

\* What the runtime asks of an ISR, without which its dispatcher may never
\* return: an ISR that says it handled its interrupt has quieted the device, and
\* no ISR enables an interrupt the dispatcher has disabled.
IsrBehaves ==
  InAppIsr =>
    /\ (disp' # disp /\ Head(disp').handled) => Head(disp).irq \notin gic.line
    /\ quiet \subseteq quiet'

\* The CPU executes, an ISR returns, and WFI completes when an interrupt is
\* signalled.
Fairness ==
  /\ WF_vars(Dispatch)
  /\ WF_vars(\E handled \in BOOLEAN : IsrReturns(handled))
  /\ WF_vars(WfiCompletes /\ Deliverable(gic) # {})
  /\ WF_vars(interrupt_wait)

FairSpec == Init /\ [][Next /\ IsrBehaves]_vars /\ Fairness

-----------------------------------------------------------------------------
(* Properties. *)

\* The types of the variables.
TypeOK ==
  /\ gic \in GicStates
  /\ isr_table \in [0 .. (PLATFORM_NUM_IRQS - 1) -> Handlers]
  /\ {masked, saved} \subseteq BOOLEAN
  /\ pc \in {"app", "wfi", "woken", "dispatching", "waited", "exit"}
  /\ disp \in Seq(Frames) /\ Len(disp) <= MaxDepth
  /\ {quiet, owed, dropped} \subseteq SUBSET Irqs
  /\ events \in 0 .. MaxEvents

\* "Prevent preemption during IRQ handling" (gicv3.c): however an ISR plays with
\* PSTATE.I, the dispatcher is not entered again before it has returned.
NoNesting == Len(disp) <= 1

\* The interrupt the dispatcher is handling is the only active one: none is left
\* active, which would keep the CPU from being signalled ever again.
ActiveIsHandled ==
  gic.active = {frame.irq : frame \in {f \in ToSet(disp) : f.at # "ack"}}

\* A system call that waits, and the dispatcher about to end an interrupt or to
\* acknowledge one, run with interrupts masked whatever ISRs did before.
RuntimeIsMasked ==
  /\ pc \in {"wfi", "woken", "waited"} => masked
  /\ (disp # <<>> /\ Head(disp).at \in {"eoi", "ack"}) => masked

\* An interrupt the dispatcher disabled, as unregistered or not handled, stays
\* disabled until the application enables it: registering an ISR or changing
\* the trigger does not bring it back.
QuietStaysDisabled == quiet \cap gic.enabled = {}

\* An edge or an assert stays pending until an ISR is called for it, also one that
\* comes while the interrupt is being handled or is disabled. It is lost in one way
\* only: the dispatcher acknowledged it when the interrupt had no ISR
\* (interrupt.c:98-101).
EdgesAreKept == owed \subseteq gic.latch \cup dropped

\* After sys_exit no interrupt is taken, though the exit function may unmask.
SilentAfterExit == [][pc = "exit" => disp' = disp]_vars

\* The dispatcher's loop ends: an interrupt without an ISR, or that its ISR does
\* not handle, does not keep it going.
DispatcherReturns == disp # <<>> ~> (disp = <<>> \/ pc = "exit")

\* A wait ends when an edge or an assert is there to be signalled, also one from
\* before the wait and with interrupts masked by the application. (A level may be
\* withdrawn.)
WaitEnds ==
  (pc = "wfi" /\ Deliverable(gic) \cap gic.latch # {}) ~>
    (pc \in {"waited", "exit"})

-----------------------------------------------------------------------------
(* What comments of the driver say and the driver does not do. *)

\* "Disable all SPIs" (gicv3.c:191): an SPI is enabled only by the application.
AllSpisAreDisabled == gic.enabled \cap Spis \subseteq AppIrqs

\* "SGIs always edge triggered" (gicv3.c:380): the others get the trigger asked
\* for, whenever platform_irq_set_trigger says it is valid.
TriggerTakes ==
  \A irq \in AppIrqs \ Sgis, trigger \in Triggers :
    TriggerIsValid(irq, trigger) =>
      (irq \in platform_irq_set_trigger(gic, irq, trigger).edge
         <=> trigger = "EDGE_RISING")

\* What is said of the ranges of interrupts holds to their ends, of the last SPIs
\* and of the first PPI.
DriverIsAsCommented == AllSpisAreDisabled /\ TriggerTakes

=============================================================================
