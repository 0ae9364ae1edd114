--------------------------- MODULE InterruptProofs ---------------------------
(***************************************************************************)
(* Proofs about interrupts and the dispatcher, for every interrupt          *)
(* controller, every number of interrupts, and dispatchers nested to any    *)
(* depth; and about timed waits, for every frequency of the timer and every *)
(* width of its counter, whatever the interrupts do meanwhile.              *)
(***************************************************************************)
EXTENDS Sleep, SequenceTheorems, TLAPS

-----------------------------------------------------------------------------
(* The inductive invariant.  NoNesting is not inductive: what keeps the      *)
(* dispatcher from being entered again is PSTATE.I while it acknowledges,    *)
(* the active interrupt while it handles one, and the group's enable after   *)
(* sys_exit.                                                                *)

\* The dispatcher's stage agrees with PSTATE.I and the active interrupt.
FrameInv ==
  IF disp = <<>>
  THEN gic.active = {}
  ELSE /\ Head(disp).at \in {"eoi", "ack"} => masked /\ pc # "exit"
       /\ IF Head(disp).at = "ack"
          THEN gic.active = {}
          ELSE Head(disp).irq \in Irqs /\ gic.active = {Head(disp).irq}

\* The waiting system call agrees with PSTATE.I and the dispatcher.
WaitInv ==
  /\ pc \in {"wfi", "woken", "waited"} => (masked /\ disp = <<>>)
  /\ pc = "dispatching" => disp # <<>>
  /\ pc = "exit" => ~gic.grpen

ControlInv == NoNesting /\ FrameInv /\ WaitInv

IInv == TypeOK /\ ControlInv /\ QuietStaysDisabled /\ EdgesAreKept

-----------------------------------------------------------------------------
(* Constants. *)

LEMMA IrqSets ==
  /\ Sgis \subseteq Irqs /\ Ppis \subseteq Irqs /\ Spis \subseteq Irqs
  /\ 0 .. (PLATFORM_NUM_IRQS - 1) \subseteq Irqs
  /\ AppIrqs \subseteq 0 .. (PLATFORM_NUM_IRQS - 1)
  /\ PLATFORM_TIMER_IRQ \in Irqs
  /\ VIRQ_INVALID \notin Irqs
  BY GicAssumption, InterruptAssumption
  DEF Sgis, Ppis, Spis, Irqs, GIC_PPI_BASE, GIC_SPI_BASE, VIRQ_INVALID

-----------------------------------------------------------------------------
(* The driver's operations: what they may change of the controller. *)

\* What an operation that only configures interrupts leaves alone.
Configures(g, h) == h \in GicStates /\ h.active = g.active /\ h.grpen = g.grpen

LEMMA DriveFacts ==
  ASSUME NEW g \in GicStates, NEW line \in SUBSET Irqs
  PROVE  /\ Configures(g, Drive(g, line))
         /\ Drive(g, line).enabled = g.enabled
         /\ Drive(g, line).latch = g.latch \cup ((line \ g.line) \cap g.edge)
  BY DEF Drive, Configures, GicStates

LEMMA EnableFacts ==
  ASSUME NEW g \in GicStates, NEW irq
  PROVE  /\ Configures(g, platform_irq_enable(g, irq))
         /\ platform_irq_enable(g, irq).enabled = g.enabled \cup ({irq} \cap Irqs)
         /\ platform_irq_enable(g, irq).latch = g.latch
  BY DEF platform_irq_enable, Configures, GicStates

LEMMA DisableFacts ==
  ASSUME NEW g \in GicStates, NEW irq
  PROVE  /\ Configures(g, platform_irq_disable(g, irq))
         /\ platform_irq_disable(g, irq).enabled = g.enabled \ {irq}
         /\ platform_irq_disable(g, irq).latch = g.latch
  BY DEF platform_irq_disable, Configures, GicStates

LEMMA AssertFacts ==
  ASSUME NEW g \in GicStates, NEW irq
  PROVE  /\ Configures(g, platform_irq_assert(g, irq))
         /\ platform_irq_assert(g, irq).enabled = g.enabled
         /\ platform_irq_assert(g, irq).latch = g.latch \cup ({irq} \cap Irqs)
  BY DEF platform_irq_assert, Configures, GicStates

LEMMA ClearFacts ==
  ASSUME NEW g \in GicStates, NEW irq
  PROVE  /\ Configures(g, platform_irq_clear(g, irq))
         /\ platform_irq_clear(g, irq).enabled = g.enabled
         /\ platform_irq_clear(g, irq).latch = g.latch \ {irq}
  BY DEF platform_irq_clear, Configures, GicStates

\* An interrupt is enabled after its trigger is set only if it was before.
LEMMA TriggerFacts ==
  ASSUME NEW g \in GicStates, NEW irq, NEW trigger
  PROVE  /\ Configures(g, platform_irq_set_trigger(g, irq, trigger))
         /\ platform_irq_set_trigger(g, irq, trigger).enabled = g.enabled
         /\ platform_irq_set_trigger(g, irq, trigger).latch = g.latch
<1> DEFINE off == platform_irq_disable(g, irq)
           set == [off EXCEPT !.edge = IF trigger = "EDGE_RISING"
                                       THEN @ \cup {irq} ELSE @ \ {irq}]
<1>1. CASE ~TriggerIsValid(irq, trigger) \/ TakenForSgi(irq)
  BY <1>1 DEF platform_irq_set_trigger, Configures
<1>2. CASE ~(~TriggerIsValid(irq, trigger) \/ TakenForSgi(irq))
  <2>1. irq \in Irqs
    BY <1>2 DEF TriggerIsValid
  <2>2. /\ Configures(g, set) /\ set.enabled = g.enabled \ {irq}
        /\ set.latch = g.latch
    BY <2>1 DEF platform_irq_disable, Configures, GicStates
  <2>3. platform_irq_set_trigger(g, irq, trigger) =
          IF irq \in g.enabled THEN platform_irq_enable(set, irq) ELSE set
    BY <1>2 DEF platform_irq_set_trigger
  <2> HIDE DEF set
  <2>4. Configures(set, platform_irq_enable(set, irq))
        /\ platform_irq_enable(set, irq).enabled = set.enabled \cup {irq}
        /\ platform_irq_enable(set, irq).latch = set.latch
    BY <2>1, <2>2, EnableFacts DEF Configures
  <2>5. g.enabled \subseteq Irqs
    BY DEF GicStates
  <2> QED
    BY <2>1, <2>2, <2>3, <2>4, <2>5 DEF Configures
<1> QED
  BY <1>1, <1>2

LEMMA AcknowledgeFacts ==
  ASSUME NEW g \in GicStates, NEW irq \in Irqs
  PROVE  /\ platform_irq_acknowledge(g, irq) \in GicStates
         /\ platform_irq_acknowledge(g, irq).active = g.active \cup {irq}
         /\ platform_irq_acknowledge(g, irq).enabled = g.enabled
         /\ platform_irq_acknowledge(g, irq).latch = g.latch \ {irq}
         /\ platform_irq_acknowledge(g, irq).grpen = g.grpen
  BY IrqSets DEF platform_irq_acknowledge, GicStates

LEMMA DeactivateFacts ==
  ASSUME NEW g \in GicStates, NEW irq
  PROVE  /\ platform_irq_deactivate(g, irq) \in GicStates
         /\ platform_irq_deactivate(g, irq).active = g.active \ {irq}
         /\ platform_irq_deactivate(g, irq).enabled = g.enabled
         /\ platform_irq_deactivate(g, irq).latch = g.latch
         /\ platform_irq_deactivate(g, irq).grpen = g.grpen
  BY DEF platform_irq_deactivate, GicStates

\* Nothing is signalled while an interrupt is active or group 1 is off.
LEMMA DeliverableFacts ==
  ASSUME NEW g \in GicStates
  PROVE  /\ Deliverable(g) \subseteq Irqs
         /\ Deliverable(g) # {} => (g.active = {} /\ g.grpen)
  BY DEF Deliverable, GicStates

-----------------------------------------------------------------------------
(* The dispatchers that are running: none, or one. *)

LEMMA FrameTypes ==
  /\ NewFrame \in Frames
  /\ \A at \in Stages, irq \in Irqs \cup {VIRQ_INVALID},
        handled \in BOOLEAN :
       [at |-> at, irq |-> irq, handled |-> handled] \in Frames
  BY DEF NewFrame, Frames, Stages

LEMMA PushFrame ==
  ASSUME disp \in Seq(Frames), disp = <<>>, NEW f \in Frames
  PROVE  /\ <<f>> \o disp \in Seq(Frames) /\ Len(<<f>> \o disp) = 1
         /\ <<f>> \o disp # <<>> /\ Head(<<f>> \o disp) = f
  OBVIOUS

LEMMA OneFrame ==
  ASSUME disp \in Seq(Frames), disp # <<>>, Len(disp) <= 1
  PROVE  /\ Len(disp) = 1 /\ Tail(disp) = <<>>
         /\ Head(disp) = disp[1] /\ Head(disp) \in Frames
<1>1. Len(disp) = 1
  <2>1. \A t \in Seq(Frames) : t # <<>> => Len(t) \in Nat \ {0}
    BY EmptySeq
  <2>2. Len(disp) \in Nat \ {0}
    BY <2>1
  <2>3. \A n \in Nat \ {0} : n <= 1 => n = 1
    OBVIOUS
  <2> QED
    BY <2>2, <2>3, Zenon
<1>2. Tail(disp) = <<>>
  OBVIOUS
<1>3. Head(disp) = disp[1]
  OBVIOUS
<1>4. Head(disp) \in Frames
  OBVIOUS
<1> QED
  BY <1>1, <1>2, <1>3, <1>4

LEMMA ReplaceFrame ==
  ASSUME disp \in Seq(Frames), disp # <<>>, Len(disp) <= 1, NEW f \in Frames
  PROVE  /\ Tail(disp) = <<>>
         /\ <<f>> \o Tail(disp) \in Seq(Frames) /\ Len(<<f>> \o Tail(disp)) = 1
         /\ <<f>> \o Tail(disp) # <<>> /\ Head(<<f>> \o Tail(disp)) = f
<1>1. Tail(disp) = <<>>
  BY OneFrame
<1>2. <<f>> \in Seq(Frames)
  OBVIOUS
<1>3. <<f>> \o Tail(disp) = <<f>>
  BY <1>1, <1>2, ConcatEmptySeq
<1> QED
  BY <1>1, <1>3

LEMMA HeadFrame ==
  ASSUME disp \in Seq(Frames), disp # <<>>
  PROVE  /\ Head(disp) \in Frames /\ Len(disp) >= 1
  OBVIOUS

-----------------------------------------------------------------------------
(* Every step keeps the invariant. *)

LEMMA InitIInv == Init => IInv
<1> SUFFICES ASSUME Init PROVE IInv
  OBVIOUS
<1>1. PICK g \in ResetStates :
        gic = platform_irq_enable(
                platform_irq_set_trigger(platform_irq_init(g),
                                         PLATFORM_TIMER_IRQ, "LEVEL_HIGH"),
                PLATFORM_TIMER_IRQ)
  BY DEF Init
<1>2. g \in GicStates /\ g.active = {}
  BY InterruptAssumption
<1>3. platform_irq_init(g) \in GicStates /\ platform_irq_init(g).active = {}
  <2>1. InitRegs(RegIrqs) \subseteq Irqs /\ InitRegs(RegIrqs \div 2) \subseteq Irqs
    BY IrqSets DEF InitRegs
  <2> QED
    BY <1>2, <2>1, IrqSets DEF platform_irq_init, GicStates
<1>4. gic \in GicStates /\ gic.active = {}
  BY <1>1, <1>3, TriggerFacts, EnableFacts DEF Configures
<1>5. TypeOK
  <2>1. isr_table \in [0 .. (PLATFORM_NUM_IRQS - 1) -> Handlers]
    BY DEF Init, Handlers
  <2>2. disp \in Seq(Frames) /\ Len(disp) = 0
    BY DEF Init
  <2>3. events \in 0 .. MaxEvents /\ 0 <= MaxDepth
    BY InterruptAssumption DEF Init
  <2>4. masked = FALSE /\ saved = FALSE /\ pc = "app" /\ quiet = {} /\ owed = {}
        /\ dropped = {}
    BY DEF Init
  <2> QED
    BY <1>4, <2>1, <2>2, <2>3, <2>4 DEF TypeOK
<1>6. ControlInv
  BY <1>4 DEF Init, ControlInv, NoNesting, FrameInv, WaitInv
<1> QED
  BY <1>5, <1>6 DEF Init, IInv, QuietStaysDisabled, EdgesAreKept, histories

\* Steps that only change which interrupts are configured, pending or high, and
\* who handles them: the devices' and the ioctls'.
LEMMA ConfigKeepsControl ==
  ASSUME IInv, Configures(gic, gic'), UNCHANGED <<masked, pc, disp>>
  PROVE  ControlInv'
  BY DEF IInv, ControlInv, NoNesting, FrameInv, WaitInv, Configures

LEMMA DevicesIInv ==
  ASSUME IInv, Devices
  PROVE  IInv'
<1>1. PICK irq \in AppIrqs : DeviceRaises(irq) \/ DeviceLowers(irq)
  BY DEF Devices
<1>2. gic \in GicStates /\ gic.line \in SUBSET Irqs /\ irq \in Irqs
  BY IrqSets DEF IInv, TypeOK, histories, GicStates
<1>3. CASE DeviceRaises(irq)
  <2>1. /\ Configures(gic, gic') /\ gic'.enabled = gic.enabled
        /\ gic'.latch = gic.latch \cup ({irq} \cap gic.edge)
    <3>1. gic.line \cup {irq} \in SUBSET Irqs
      BY <1>2
    <3>2. ((gic.line \cup {irq}) \ gic.line) = {irq}
      BY <1>3 DEF DeviceRaises
    <3> QED
      BY <1>2, <1>3, <3>1, <3>2, DriveFacts DEF DeviceRaises
  <2>2. ControlInv'
    BY <1>3, <2>1, ConfigKeepsControl DEF DeviceRaises
  <2>3. TypeOK'
    <3>1. owed' \subseteq Irqs
      BY <1>2, <1>3 DEF DeviceRaises, IInv, TypeOK, histories
    <3>2. events' \in 0 .. MaxEvents
      BY <1>3, InterruptAssumption DEF DeviceRaises, IInv, TypeOK, histories
    <3> QED
      BY <1>3, <2>1, <3>1, <3>2 DEF DeviceRaises, IInv, TypeOK, histories, Configures
  <2> QED
    BY <1>3, <2>1, <2>2, <2>3 DEF DeviceRaises, IInv, QuietStaysDisabled, EdgesAreKept, histories
<1>4. CASE DeviceLowers(irq)
  <2>1. /\ Configures(gic, gic') /\ gic'.enabled = gic.enabled
        /\ gic'.latch = gic.latch
    <3>1. gic.line \ {irq} \in SUBSET Irqs
      BY <1>2
    <3>2. (gic.line \ {irq}) \ gic.line = {}
      OBVIOUS
    <3> QED
      <4> DEFINE line == gic.line \ {irq}
      <4>1. gic' = Drive(gic, line) /\ line \in SUBSET Irqs /\ line \ gic.line = {}
        BY <1>4, <3>1, <3>2 DEF DeviceLowers
      <4> HIDE DEF line
      <4>2. gic'.latch = gic.latch \cup ({} \cap gic.edge)
        BY <1>2, <4>1, DriveFacts
      <4> QED
        BY <1>2, <4>1, <4>2, DriveFacts
  <2>2. ControlInv'
    BY <1>4, <2>1, ConfigKeepsControl DEF DeviceLowers
  <2>3. TypeOK'
    BY <1>4, <2>1 DEF DeviceLowers, IInv, TypeOK, histories, Configures
  <2> QED
    BY <1>4, <2>1, <2>2, <2>3 DEF DeviceLowers, IInv, QuietStaysDisabled, EdgesAreKept, histories
<1> QED
  BY <1>1, <1>3, <1>4

LEMMA IoctlIInv ==
  ASSUME IInv, NEW irq \in AppIrqs, interrupt_ioctl(irq)
  PROVE  IInv'
<1>1. gic \in GicStates /\ irq \in Irqs /\ irq \in 0 .. (PLATFORM_NUM_IRQS - 1)
  BY IrqSets DEF IInv, TypeOK, histories
<1>2. ASSUME NEW enable \in BOOLEAN, update_irq(irq, enable) PROVE IInv'
  <2>1. /\ Configures(gic, gic') /\ gic'.latch = gic.latch
        /\ gic'.enabled = IF enable THEN gic.enabled \cup {irq} ELSE gic.enabled \ {irq}
    <3>1. {irq} \cap Irqs = {irq}
      BY <1>1
    <3>2. CASE enable
      BY <1>1, <1>2, <3>1, <3>2, EnableFacts DEF update_irq
    <3>3. CASE ~enable
      BY <1>1, <1>2, <3>3, DisableFacts DEF update_irq
    <3> QED
      BY <3>2, <3>3
  <2>2. ControlInv'
    BY <1>2, <2>1, ConfigKeepsControl DEF update_irq
  <2>3. TypeOK'
    BY <1>2, <2>1 DEF update_irq, IInv, TypeOK, histories, Configures
  <2> QED
    BY <1>2, <2>1, <2>2, <2>3 DEF update_irq, IInv, QuietStaysDisabled, EdgesAreKept, histories
<1>3. ASSUME NEW assert \in BOOLEAN, assert_irq(irq, assert) PROVE IInv'
  <2>1. /\ Configures(gic, gic') /\ gic'.enabled = gic.enabled
        /\ gic'.latch = IF assert THEN gic.latch \cup {irq} ELSE gic.latch \ {irq}
    <3>1. {irq} \cap Irqs = {irq}
      BY <1>1
    <3>2. CASE assert
      BY <1>1, <1>3, <3>1, <3>2, AssertFacts DEF assert_irq
    <3>3. CASE ~assert
      BY <1>1, <1>3, <3>3, ClearFacts DEF assert_irq
    <3> QED
      BY <3>2, <3>3
  <2>2. ControlInv'
    BY <1>3, <2>1, ConfigKeepsControl DEF assert_irq
  <2>3. owed' \subseteq Irqs /\ events' \in 0 .. MaxEvents
    BY <1>1, <1>3, InterruptAssumption DEF assert_irq, IInv, TypeOK, histories
  <2>4. TypeOK'
    BY <1>3, <2>1, <2>3 DEF assert_irq, IInv, TypeOK, histories, Configures
  <2> QED
    BY <1>3, <2>1, <2>2, <2>4 DEF assert_irq, IInv, QuietStaysDisabled, EdgesAreKept, histories
<1>4. CASE interrupt_register_isr(irq) \/ interrupt_deregister_isr(irq)
  <2>1. /\ isr_table' \in [0 .. (PLATFORM_NUM_IRQS - 1) -> Handlers]
        /\ UNCHANGED <<gic, masked, pc, disp, saved, histories>>
    BY <1>4 DEF interrupt_register_isr, interrupt_deregister_isr, IInv, TypeOK, histories, Handlers
  <2>2. Configures(gic, gic')
    BY <1>1, <2>1 DEF Configures
  <2>3. ControlInv'
    BY <2>1, <2>2, ConfigKeepsControl
  <2> QED
    BY <2>1, <2>3 DEF IInv, TypeOK, histories, QuietStaysDisabled, EdgesAreKept, histories
<1>5. ASSUME NEW trigger \in Triggers, set_trigger(irq, trigger) PROVE IInv'
  <2>1. /\ Configures(gic, gic') /\ gic'.enabled = gic.enabled
        /\ gic'.latch = gic.latch
    BY <1>1, <1>5, TriggerFacts DEF set_trigger
  <2>2. ControlInv'
    BY <1>5, <2>1, ConfigKeepsControl DEF set_trigger
  <2>3. TypeOK'
    BY <1>5, <2>1 DEF set_trigger, IInv, TypeOK, histories, Configures
  <2> QED
    BY <1>5, <2>1, <2>2, <2>3 DEF set_trigger, IInv, QuietStaysDisabled, EdgesAreKept, histories
<1> QED
  BY <1>2, <1>3, <1>4, <1>5 DEF interrupt_ioctl

\* Where the application's code runs: no dispatcher is about to acknowledge, and
\* the CPU is not in a waiting system call outside of its dispatcher.
LEMMA AppRunsFacts ==
  ASSUME IInv, AppRuns
  PROVE  /\ disp # <<>> => Head(disp).at \notin {"eoi", "ack"}
         /\ pc \notin {"wfi", "woken", "waited"}
  BY DEF AppRuns, InAppIsr, InIsr, IInv, ControlInv, WaitInv, FrameInv

LEMMA SetMaskIInv ==
  ASSUME IInv, NEW mask \in BOOLEAN, SetMask(mask)
  PROVE  IInv'
<1>1. ControlInv'
  BY AppRunsFacts DEF SetMask, IInv, ControlInv, NoNesting, FrameInv, WaitInv
<1>2. TypeOK'
  BY DEF SetMask, IInv, TypeOK, histories
<1> QED
  BY <1>1, <1>2 DEF SetMask, IInv, QuietStaysDisabled, EdgesAreKept, histories

LEMMA ExitIInv ==
  ASSUME IInv, sys_exit
  PROVE  IInv'
<1>1. /\ gic' \in GicStates /\ ~gic'.grpen /\ gic'.active = gic.active
      /\ gic'.enabled = gic.enabled /\ gic'.latch = gic.latch
  BY DEF sys_exit, platform_irq_disable_all, IInv, TypeOK, histories, GicStates
<1>2. ControlInv'
  BY <1>1, AppRunsFacts DEF sys_exit, IInv, ControlInv, NoNesting, FrameInv, WaitInv
<1>3. TypeOK'
  BY <1>1 DEF sys_exit, IInv, TypeOK, histories
<1> QED
  BY <1>1, <1>2, <1>3 DEF sys_exit, IInv, QuietStaysDisabled, EdgesAreKept, histories

LEMMA WaitIInv ==
  ASSUME IInv, sys_ppoll \/ WfiCompletes \/ interrupt_wait \/ ppoll_returns
  PROVE  IInv'
<1>1. UNCHANGED <<gic, isr_table, histories>>
  BY DEF sys_ppoll, EnterWait, WfiCompletes, interrupt_wait, ppoll_returns, LeaveWait
<1>2. ControlInv' /\ TypeOK'
  <2>1. CASE sys_ppoll
    BY <2>1 DEF sys_ppoll, EnterWait, IInv, TypeOK, histories, ControlInv, NoNesting, FrameInv, WaitInv
  <2>2. CASE WfiCompletes
    BY <2>2 DEF WfiCompletes, IInv, TypeOK, histories, ControlInv, NoNesting, FrameInv, WaitInv
  <2>3. CASE interrupt_wait
    <3>1. masked /\ disp = <<>>
      BY <2>3 DEF interrupt_wait, IInv, ControlInv, WaitInv
    <3>2. CASE Deliverable(gic) = {}
      BY <2>3, <3>1, <3>2
      DEF interrupt_wait, IInv, TypeOK, histories, ControlInv, NoNesting, FrameInv, WaitInv
    <3>3. CASE Deliverable(gic) # {}
      <4>1. disp' = <<NewFrame>> /\ pc' = "dispatching" /\ masked' = masked
            /\ gic' = gic /\ saved' = saved
        BY <2>3, <3>3 DEF interrupt_wait
      <4>2. /\ disp' \in Seq(Frames) /\ Len(disp') = 1 /\ disp' # <<>>
            /\ Head(disp') = NewFrame
        BY <4>1, FrameTypes
      <4>3. gic'.active = {}
        BY <4>1, <3>3, DeliverableFacts DEF IInv, TypeOK, histories
      <4>4. ControlInv'
        BY <3>1, <4>1, <4>2, <4>3 DEF ControlInv, NoNesting, FrameInv, WaitInv, NewFrame
      <4>5. TypeOK'
        BY <1>1, <4>1, <4>2, InterruptAssumption DEF IInv, TypeOK, histories
      <4> QED
        BY <4>4, <4>5
    <3> QED
      BY <3>2, <3>3
  <2>4. CASE ppoll_returns
    BY <2>4
    DEF ppoll_returns, LeaveWait, IInv, TypeOK, histories, ControlInv, NoNesting, FrameInv, WaitInv
  <2> QED
    BY <2>1, <2>2, <2>3, <2>4
<1> QED
  BY <1>1, <1>2 DEF IInv, QuietStaysDisabled, EdgesAreKept, histories

-----------------------------------------------------------------------------
(* The dispatcher's steps. *)

LEMMA TakeIrqIInv ==
  ASSUME IInv, TakeIrq
  PROVE  IInv'
<1>1. disp = <<>>
  <2>1. CASE disp # <<>>
    BY <2>1, DeliverableFacts DEF TakeIrq, IInv, TypeOK, histories, ControlInv, FrameInv
  <2> QED
    BY <2>1
<1>2. /\ gic.active = {} /\ gic.grpen
  BY DeliverableFacts DEF TakeIrq, IInv, TypeOK, histories
<1>3. /\ disp' \in Seq(Frames) /\ Len(disp') = 1 /\ disp' # <<>>
      /\ Head(disp') = NewFrame
  BY <1>1, FrameTypes, PushFrame DEF TakeIrq, IInv, TypeOK, histories
<1>4. pc # "exit" /\ pc \notin {"wfi", "woken", "waited", "dispatching"}
  BY <1>1, <1>2 DEF TakeIrq, IInv, ControlInv, WaitInv
<1>5. ControlInv'
  BY <1>2, <1>3, <1>4
  DEF TakeIrq, ControlInv, NoNesting, FrameInv, WaitInv, NewFrame
<1>6. TypeOK'
  BY <1>3, InterruptAssumption DEF TakeIrq, IInv, TypeOK, histories
<1> QED
  BY <1>5, <1>6 DEF TakeIrq, IInv, QuietStaysDisabled, EdgesAreKept, histories

\* What every step of the dispatcher finds.
LEMMA DispatcherFacts ==
  ASSUME IInv, NEW at, DispatcherAt(at)
  PROVE  /\ disp \in Seq(Frames) /\ disp # <<>> /\ Len(disp) <= 1
         /\ Head(disp) \in Frames /\ Head(disp).at = at
         /\ pc \notin {"exit", "wfi", "woken", "waited"}
         /\ gic \in GicStates
         /\ at \in {"eoi", "ack"} => masked
         /\ at = "ack" => gic.active = {}
         /\ at # "ack" => (Head(disp).irq \in Irqs /\ gic.active = {Head(disp).irq})
  BY HeadFrame
  DEF DispatcherAt, IInv, TypeOK, histories, ControlInv, NoNesting, FrameInv, WaitInv

\* The one dispatcher goes on to a stage that agrees with the controller.
LEMMA AdvanceIInv ==
  ASSUME IInv, NEW at \in Stages, NEW irq \in Irqs \cup {VIRQ_INVALID},
         NEW handled \in BOOLEAN, disp # <<>>, pc # "exit",
         Advance(at, irq, handled), pc' = pc, gic' \in GicStates,
         at \in {"eoi", "ack"} => masked',
         IF at = "ack" THEN gic'.active = {}
                       ELSE irq \in Irqs /\ gic'.active = {irq}
  PROVE  ControlInv' /\ disp' \in Seq(Frames) /\ Len(disp') <= MaxDepth
<1> DEFINE f == IF at = "ack" THEN NewFrame
                ELSE [at |-> at, irq |-> irq, handled |-> handled]
<1>1. f \in Frames
  BY FrameTypes
<1>2. f.at = at /\ (at # "ack" => f.irq = irq)
  BY DEF NewFrame
<1> HIDE DEF f
<1>3. disp \in Seq(Frames) /\ Len(disp) <= 1
  BY DEF IInv, TypeOK, histories, ControlInv, NoNesting
<1>4. disp' = <<f>> \o Tail(disp)
  BY DEF Advance, f
<1>5. /\ disp' \in Seq(Frames) /\ Len(disp') = 1 /\ disp' # <<>>
      /\ Head(disp') = f
  BY <1>1, <1>3, <1>4, ReplaceFrame
<1>6. pc \notin {"exit", "wfi", "woken", "waited"}
  BY DEF IInv, ControlInv, WaitInv
<1>7. NoNesting' /\ WaitInv'
  BY <1>5, <1>6 DEF NoNesting, WaitInv
<1>8. FrameInv'
  BY <1>2, <1>5, <1>6 DEF FrameInv
<1> QED
  BY <1>5, <1>7, <1>8, InterruptAssumption DEF ControlInv

LEMMA CallIsrIInv ==
  ASSUME IInv, NEW irq \in Irqs, CallIsr(irq)
  PROVE  IInv'
<1>1. gic.active = {} /\ gic \in GicStates /\ disp # <<>> /\ pc # "exit"
  BY DispatcherFacts DEF CallIsr
<1>2. /\ gic' \in GicStates /\ gic'.active = {irq}
      /\ gic'.enabled = gic.enabled /\ gic'.latch = gic.latch \ {irq}
  BY <1>1, AcknowledgeFacts DEF CallIsr
<1>3. ControlInv' /\ disp' \in Seq(Frames) /\ Len(disp') <= MaxDepth
  BY <1>1, <1>2, AdvanceIInv DEF CallIsr, Stages
<1>4. TypeOK'
  BY <1>2, <1>3 DEF CallIsr, IInv, TypeOK, histories
<1> QED
  BY <1>2, <1>3, <1>4 DEF CallIsr, IInv, QuietStaysDisabled, EdgesAreKept, histories

LEMMA DropUnregisteredIInv ==
  ASSUME IInv, NEW irq \in Irqs, DropUnregistered(irq)
  PROVE  IInv'
<1>1. /\ gic.active = {} /\ gic \in GicStates /\ disp # <<>> /\ pc # "exit"
      /\ irq \in AckResults(gic) /\ isr_table[irq] = "NULL"
  BY DispatcherFacts DEF DropUnregistered, have_isr
<1> DEFINE g == platform_irq_acknowledge(gic, irq)
<1>2. /\ g \in GicStates /\ g.active = {irq}
      /\ g.enabled = gic.enabled /\ g.latch = gic.latch \ {irq} /\ g.grpen = gic.grpen
  BY <1>1, AcknowledgeFacts
<1>3. gic' = platform_irq_disable(g, irq)
  BY DEF DropUnregistered, Unregistered
<1> HIDE DEF g
<1>4. /\ gic' \in GicStates /\ gic'.active = {irq}
      /\ gic'.enabled = gic.enabled \ {irq} /\ gic'.latch = gic.latch \ {irq}
  BY <1>2, <1>3, DisableFacts DEF Configures
<1>5. ControlInv' /\ disp' \in Seq(Frames) /\ Len(disp') <= MaxDepth
  BY <1>1, <1>4, AdvanceIInv DEF DropUnregistered, Stages
<1>6. dropped' = dropped \cup {irq} /\ quiet' = quiet \cup {irq} /\ owed' = owed
  BY <1>1 DEF DropUnregistered
<1>7. TypeOK'
  BY <1>4, <1>5, <1>6 DEF DropUnregistered, IInv, TypeOK
<1> QED
  BY <1>4, <1>5, <1>6, <1>7 DEF IInv, QuietStaysDisabled, EdgesAreKept

LEMMA DispatchEndsIInv ==
  ASSUME IInv, DispatchEnds
  PROVE  IInv'
<1>1. /\ gic.active = {} /\ disp \in Seq(Frames) /\ disp # <<>> /\ Len(disp) <= 1
      /\ masked /\ pc \notin {"exit", "wfi", "woken", "waited"}
  BY DispatcherFacts DEF DispatchEnds
<1>2. Tail(disp) = <<>> /\ Len(disp) = 1
  BY <1>1, OneFrame
<1>3. /\ disp' = <<>> /\ Len(disp') = 0 /\ disp' \in Seq(Frames)
      /\ UNCHANGED <<gic, isr_table, saved, histories>>
  <2>1. /\ disp' = <<>>
        /\ UNCHANGED <<gic, isr_table, saved, histories>>
    BY <1>2 DEF DispatchEnds
  <2> QED
    BY <2>1, EmptySeq
<1>4. CASE pc = "dispatching"
  <2>1. pc' = "waited" /\ masked' = masked
    BY <1>2, <1>4 DEF DispatchEnds
  <2>2. ControlInv'
    BY <1>1, <1>3, <2>1 DEF ControlInv, NoNesting, FrameInv, WaitInv
  <2>3. TypeOK'
    BY <1>3, <2>1, InterruptAssumption DEF IInv, TypeOK, histories
  <2> QED
    BY <1>3, <2>2, <2>3 DEF IInv, QuietStaysDisabled, EdgesAreKept, histories
<1>5. CASE pc # "dispatching"
  <2>1. pc' = pc /\ masked' = FALSE
    BY <1>5 DEF DispatchEnds
  <2>2. ControlInv'
    BY <1>1, <1>3, <1>5, <2>1 DEF ControlInv, NoNesting, FrameInv, WaitInv
  <2>3. TypeOK'
    <3>1. {masked', saved'} \subseteq BOOLEAN
      BY <1>3, <2>1 DEF IInv, TypeOK, histories
    <3> QED
      BY <1>3, <2>1, <3>1, InterruptAssumption DEF IInv, TypeOK, histories
  <2> QED
    BY <1>3, <2>2, <2>3 DEF IInv, QuietStaysDisabled, EdgesAreKept, histories
<1> QED
  BY <1>4, <1>5

LEMMA IsrReturnsIInv ==
  ASSUME IInv, NEW handled \in BOOLEAN, IsrReturns(handled)
  PROVE  IInv'
<1>1. DispatcherAt("isr")
  BY DEF IsrReturns, InAppIsr, InIsr, DispatcherAt
<1>2. /\ Head(disp).irq \in Irqs /\ gic.active = {Head(disp).irq}
      /\ disp # <<>> /\ pc # "exit" /\ gic \in GicStates
  BY <1>1, DispatcherFacts
<1>3. ControlInv' /\ disp' \in Seq(Frames) /\ Len(disp') <= MaxDepth
  BY <1>2, AdvanceIInv DEF IsrReturns, Stages
<1>4. TypeOK'
  BY <1>3 DEF IsrReturns, IInv, TypeOK, histories
<1> QED
  BY <1>3, <1>4 DEF IsrReturns, IInv, QuietStaysDisabled, EdgesAreKept, histories

LEMMA FinishIInv ==
  ASSUME IInv, Finish
  PROVE  IInv'
<1> DEFINE irq == Head(disp).irq
           handled == Head(disp).handled
<1>1. /\ irq \in Irqs /\ gic.active = {irq} /\ handled \in BOOLEAN
      /\ disp # <<>> /\ pc # "exit" /\ gic \in GicStates
  BY DispatcherFacts DEF Finish, Frames
<1>2. /\ gic' = IF handled THEN gic ELSE platform_irq_disable(gic, irq)
      /\ quiet' = IF handled THEN quiet ELSE quiet \cup {irq}
      /\ Advance("mask", irq, handled)
      /\ UNCHANGED <<isr_table, masked, pc, saved, owed, dropped, events>>
  BY DEF Finish, Finished
<1> HIDE DEF irq, handled
<1>3. /\ gic' \in GicStates /\ gic'.active = {irq} /\ gic'.latch = gic.latch
      /\ gic'.enabled = IF handled THEN gic.enabled ELSE gic.enabled \ {irq}
  BY <1>1, <1>2, DisableFacts DEF Configures
<1>4. ControlInv' /\ disp' \in Seq(Frames) /\ Len(disp') <= MaxDepth
  BY <1>1, <1>2, <1>3, AdvanceIInv DEF Stages
<1>5. TypeOK'
  BY <1>1, <1>2, <1>3, <1>4 DEF IInv, TypeOK
<1> QED
  BY <1>1, <1>2, <1>3, <1>4, <1>5 DEF IInv, QuietStaysDisabled, EdgesAreKept

\* Interrupts are masked before the interrupt ends.
LEMMA DeactivateIInv ==
  ASSUME IInv, Deactivate
  PROVE  IInv'
<1> DEFINE irq == Head(disp).irq
           handled == Head(disp).handled
<1>1. CASE MaskIrqs("mask", "eoi")
  <2>1. /\ irq \in Irqs /\ gic.active = {irq} /\ handled \in BOOLEAN
        /\ disp # <<>> /\ pc # "exit" /\ gic \in GicStates
    BY <1>1, DispatcherFacts DEF MaskIrqs, Frames
  <2>2. /\ masked' = TRUE /\ Advance("eoi", irq, handled)
        /\ UNCHANGED <<gic, isr_table, pc, saved, histories>>
    BY <1>1 DEF MaskIrqs
  <2> HIDE DEF irq, handled
  <2>3. ControlInv' /\ disp' \in Seq(Frames) /\ Len(disp') <= MaxDepth
    BY <2>1, <2>2, AdvanceIInv DEF Stages
  <2>4. TypeOK'
    BY <2>2, <2>3 DEF IInv, TypeOK, histories
  <2> QED
    BY <2>2, <2>3, <2>4 DEF IInv, QuietStaysDisabled, EdgesAreKept, histories
<1>2. CASE EndIrq("eoi", "ack")
  <2>1. /\ irq \in Irqs /\ gic.active = {irq} /\ handled \in BOOLEAN /\ masked
        /\ disp # <<>> /\ pc # "exit" /\ gic \in GicStates
    BY <1>2, DispatcherFacts DEF EndIrq, Frames
  <2>2. /\ gic' = platform_irq_deactivate(gic, irq) /\ Advance("ack", irq, handled)
        /\ UNCHANGED <<isr_table, masked, pc, saved, histories>>
    BY <1>2 DEF EndIrq
  <2> HIDE DEF irq, handled
  <2>3. /\ gic' \in GicStates /\ gic'.active = {} /\ gic'.latch = gic.latch
        /\ gic'.enabled = gic.enabled
    BY <2>1, <2>2, DeactivateFacts
  <2>4. ControlInv' /\ disp' \in Seq(Frames) /\ Len(disp') <= MaxDepth
    BY <2>1, <2>2, <2>3, AdvanceIInv DEF Stages
  <2>5. TypeOK'
    BY <2>2, <2>3, <2>4 DEF IInv, TypeOK, histories
  <2> QED
    BY <2>2, <2>3, <2>4, <2>5 DEF IInv, QuietStaysDisabled, EdgesAreKept, histories
<1> QED
  BY <1>1, <1>2 DEF Deactivate

LEMMA NextIInv == IInv /\ [Next]_vars => IInv'
<1> SUFFICES ASSUME IInv, [Next]_vars PROVE IInv'
  OBVIOUS
<1>1. CASE App
  BY <1>1, IoctlIInv, SetMaskIInv, ExitIInv DEF App, ioctl_past_table
<1>2. CASE Dispatch
  BY <1>2, CallIsrIInv, DropUnregisteredIInv, DispatchEndsIInv, FinishIInv,
     DeactivateIInv DEF Dispatch
<1>3. CASE UNCHANGED vars
  BY <1>3
  DEF vars, IInv, TypeOK, histories, ControlInv, NoNesting, FrameInv, WaitInv,
      QuietStaysDisabled, EdgesAreKept, histories
<1> QED
  BY <1>1, <1>2, <1>3, DevicesIInv, WaitIInv, TakeIrqIInv, IsrReturnsIInv DEF Next

LEMMA SpecIInv == Spec => []IInv
  BY InitIInv, NextIInv, PTL DEF Spec

-----------------------------------------------------------------------------
(* The theorems. *)

\* The variables have their types, however long devices, ISRs and the
\* application go on.
THEOREM TypeCorrect == Spec => []TypeOK
<1>1. IInv => TypeOK
  BY DEF IInv
<1> QED
  BY <1>1, SpecIInv, PTL

\* interrupt_dispatch is never entered before it has returned, whatever ISRs do
\* to PSTATE.I: an active interrupt keeps the CPU from being signalled, and
\* platform_irq_deactivate masks before the interrupt is inactive.
THEOREM DispatcherIsNotNested == Spec => []NoNesting
<1>1. IInv => NoNesting
  BY DEF IInv, ControlInv
<1> QED
  BY <1>1, SpecIInv, PTL

\* Every interrupt the dispatcher acknowledges it deactivates, and no other
\* is active in between.
THEOREM OnlyTheHandledIsActive == Spec => []ActiveIsHandled
<1>1. IInv => ActiveIsHandled
  <2> SUFFICES ASSUME IInv PROVE ActiveIsHandled
    OBVIOUS
  <2>1. disp \in Seq(Frames) /\ Len(disp) <= 1
    BY DEF IInv, TypeOK, histories, ControlInv, NoNesting
  <2>2. CASE disp = <<>>
    <3>1. ToSet(disp) = {}
      BY <2>2 DEF ToSet
    <3> QED
      BY <2>2, <3>1 DEF ActiveIsHandled, IInv, ControlInv, FrameInv
  <2>3. CASE disp # <<>>
    <3>1. Len(disp) = 1 /\ Head(disp) = disp[1] /\ Head(disp) \in Frames
      BY <2>1, <2>3, OneFrame
    <3>2. ToSet(disp) = {Head(disp)}
      BY <2>1, <3>1 DEF ToSet
    <3>3. Head(disp).at \in Stages
      BY <3>1 DEF Frames
    <3>4. gic.active = IF Head(disp).at = "ack" THEN {} ELSE {Head(disp).irq}
      BY <2>3 DEF IInv, ControlInv, FrameInv
    <3> QED
      BY <3>2, <3>3, <3>4 DEF ActiveIsHandled
  <2> QED
    BY <2>2, <2>3
<1> QED
  BY <1>1, SpecIInv, PTL

\* The waiting system calls and the dispatcher's acknowledge run masked.
THEOREM RuntimeRunsMasked == Spec => []RuntimeIsMasked
<1>1. IInv => RuntimeIsMasked
  BY DEF IInv, ControlInv, FrameInv, WaitInv, RuntimeIsMasked
<1> QED
  BY <1>1, SpecIInv, PTL

\* An interrupt that interrupt_dispatch disabled is not enabled by any call but
\* the one that asks for it.
THEOREM DisabledStaysDisabled == Spec => []QuietStaysDisabled
<1>1. IInv => QuietStaysDisabled
  BY DEF IInv
<1> QED
  BY <1>1, SpecIInv, PTL

\* An edge reaches its ISR, or is still pending, unless the dispatcher acknowledged
\* it when its interrupt had no ISR: no other path loses one.
THEOREM EdgesReachTheirIsr == Spec => []EdgesAreKept
<1>1. IInv => EdgesAreKept
  BY DEF IInv
<1> QED
  BY <1>1, SpecIInv, PTL

\* After sys_exit no dispatcher is entered, goes on or returns.
THEOREM ExitIsSilent == Spec => SilentAfterExit
<1>1. IInv /\ [Next]_vars => [pc = "exit" => disp' = disp]_vars
  <2> SUFFICES ASSUME IInv, Next, pc = "exit" PROVE disp' = disp
    BY DEF vars
  <2>1. Deliverable(gic) = {}
    BY DeliverableFacts DEF IInv, TypeOK, histories, ControlInv, WaitInv
  <2>2. ~TakeIrq /\ ~Dispatch
    BY <2>1 DEF TakeIrq, Dispatch, CallIsr, DropUnregistered, DispatchEnds, Finish,
                Deactivate, MaskIrqs, EndIrq, DispatcherAt
  <2>3. ASSUME NEW handled \in BOOLEAN PROVE ~IsrReturns(handled)
    BY DEF IsrReturns, InAppIsr
  <2>4. ASSUME Devices PROVE disp' = disp
    BY <2>4 DEF Devices, DeviceRaises, DeviceLowers
  <2>5. ASSUME App PROVE disp' = disp
    BY <2>5 DEF App, interrupt_ioctl, update_irq, assert_irq, interrupt_register_isr,
                interrupt_deregister_isr, set_trigger, SetMask, ioctl_past_table, sys_exit
  <2> QED
    BY <2>2, <2>3, <2>4, <2>5
    DEF Next, sys_ppoll, EnterWait, WfiCompletes, interrupt_wait, ppoll_returns,
        LeaveWait
<1> QED
  BY <1>1, SpecIInv, PTL DEF Spec, SilentAfterExit

-----------------------------------------------------------------------------
(* Timed waits: the inductive invariant.  It ties together who may hold the timer: the   *)
(* controller's line, the ISR that is running, timer_fired and the wait.    *)

\* The timer's interrupt is a level, never latched; its line is the timer's
\* output, and timer_isr is the timer's and nobody else's.
LineInv ==
  /\ PLATFORM_TIMER_IRQ \notin gic.edge \cup gic.latch
  /\ PLATFORM_TIMER_IRQ \in gic.line <=> (timer.enabled /\ now >= timer.cval)
  /\ \A irq \in DOMAIN isr_table :
       isr_table[irq] = "timer_isr" <=> irq = PLATFORM_TIMER_IRQ

\* The timer is on, or has fired, only for the wait in progress; and its ISR is
\* called only when that wait is over.
TimerInv ==
  /\ timer.enabled =>
       timeout # NoTimeout /\ timer.cval = timeout /\ ~timer_fired
  /\ timer_fired => timeout # NoTimeout /\ now >= timeout
  /\ timeout # NoTimeout =>
       pc \in {"wfi", "woken", "dispatching", "waited", "exit"}
  /\ (pc # "exit" /\ InIsr /\ Head(disp).irq = PLATFORM_TIMER_IRQ) =>
       timer.enabled /\ now >= timer.cval

\* The time told to remain: each restart may lose a tick, and no more.
DueTicks == due \div NS_PER_S

RemainInv ==
  remain # NoTime =>
    /\ timeout = NoTimeout
    /\ timespec_to_ticks(remain) + now >= DueTicks - restarts - 1
    /\ timespec_to_ticks(remain) > 0 => timespec_to_ticks(remain) + now <= DueTicks

SleepInv ==
  /\ IInv /\ SleepTypeOK
  /\ LineInv /\ TimerInv /\ RemainInv
  /\ NeverEarly /\ RemainingIsExact

-----------------------------------------------------------------------------
(* Division and remainder. *)

LEMMA DivFacts ==
  ASSUME NEW a \in Nat, NEW b \in Nat \ {0}
  PROVE  /\ a \div b \in Nat
         /\ b * (a \div b) <= a
         /\ a < b * (a \div b) + b
  OBVIOUS

LEMMA DivUpper ==
  ASSUME NEW a \in Nat, NEW b \in Nat \ {0}, NEW q \in Int, a < b * q
  PROVE  a \div b < q
  OBVIOUS

LEMMA DivLower ==
  ASSUME NEW a \in Nat, NEW b \in Nat \ {0}, NEW q \in Int, b * q <= a
  PROVE  q <= a \div b
  OBVIOUS

LEMMA ModRange ==
  ASSUME NEW a \in Int, NEW b \in Nat \ {0}
  PROVE  a % b \in 0 .. (b - 1)
  OBVIOUS

LEMMA ModSmall ==
  ASSUME NEW a \in Nat, NEW b \in Nat \ {0}, a < b
  PROVE  a % b = a
  OBVIOUS

\* A sum of two ticks wraps to a time that is not later than either.
LEMMA WrapIsPast ==
  ASSUME NEW b \in Nat \ {0}, NEW a \in 0 .. (b - 1), NEW c \in 0 .. (b - 1),
         (a + c) % b > c
  PROVE  (a + c) % b = a + c
<1>1. CASE a + c < b
  BY <1>1, ModSmall
<1>2. CASE a + c >= b
  <2>1. (a + c) % b = a + c - b
    BY <1>2
  <2> QED
    BY <2>1
<1> QED
  BY <1>1, <1>2

-----------------------------------------------------------------------------
(* Timespecs and ticks. *)

Half == TickWrap \div 2

LEMMA SleepNumbers ==
  /\ TickWrap \in Nat \ {0} /\ NS_PER_S \in Nat \ {0} /\ timer_freq \in Nat \ {0}
  /\ timer_freq <= NS_PER_S /\ 2 * NS_PER_S <= TickWrap
  /\ MaxTicks \in Nat /\ MaxTicks < TickWrap /\ MaxRestarts \in Nat
  /\ Half \in Nat /\ 2 * Half <= TickWrap /\ NS_PER_S <= Half
<1>1. /\ TickWrap \in Nat \ {0} /\ NS_PER_S \in Nat \ {0} /\ timer_freq \in Nat \ {0}
      /\ timer_freq <= NS_PER_S /\ 2 * NS_PER_S <= TickWrap
      /\ MaxTicks \in Nat /\ MaxTicks < TickWrap /\ MaxRestarts \in Nat
  BY SleepAssumption
<1>2. Half \in Nat /\ 2 * Half <= TickWrap
  BY <1>1, DivFacts DEF Half
<1>3. NS_PER_S <= Half
  BY <1>1, DivLower DEF Half
<1> QED
  BY <1>1, <1>2, <1>3

\* A valid timespec has a number of ticks.
LEMMA TicksType ==
  ASSUME NEW ts, timespec_valid(ts)
  PROVE  timespec_to_ticks(ts) \in 0 .. (TickWrap - 1)
<1> DEFINE whole == ts.sec * timer_freq
           part == (ts.nsec * timer_freq) \div NS_PER_S
<1>1. ts.sec \in Int /\ ts.nsec \in Nat
  BY DEF timespec_valid
<1>2. part \in Nat
  BY <1>1, SleepNumbers, DivFacts
<1>3. whole \in Int
  BY <1>1, SleepNumbers
<1>4. timespec_to_ticks(ts) = (whole + part) % TickWrap
  BY DEF timespec_to_ticks
<1> HIDE DEF whole, part
<1>5. whole + part \in Int
  BY <1>2, <1>3
<1> QED
  BY <1>4, <1>5, ModRange, SleepNumbers

\* A valid timespec, in ticks, is in range, and is the time asked for but for less
\* than a tick: timespec_max_sec leaves room for the nanoseconds.
LEMMA TicksAreAsked ==
  ASSUME NEW ts, timespec_valid(ts)
  PROVE  /\ Fractions(ts) \in Nat
         /\ Fractions(ts) \div NS_PER_S = timespec_to_ticks(ts)
<1> DEFINE whole == ts.sec * timer_freq
           part == (ts.nsec * timer_freq) \div NS_PER_S
           most == (TickWrap - NS_PER_S) \div timer_freq
<1>1. ts.sec \in Int /\ 0 <= ts.sec /\ ts.sec <= most /\ most \in Nat
  <2>1. most \in Nat
    BY SleepNumbers, DivFacts
  <2>2. timespec_max_sec \in Int /\ timespec_max_sec <= most
    <3> HIDE DEF most
    <3>1. timespec_max_sec = IF most < Half THEN most ELSE Half - 1
      BY DEF timespec_max_sec, most, Half
    <3> QED
      BY <2>1, <3>1, SleepNumbers
  <2>3. ts.sec \in 0 .. timespec_max_sec
    BY DEF timespec_valid
  <2> HIDE DEF most
  <2> QED
    BY <2>1, <2>2, <2>3
<1>2. /\ ts.nsec * timer_freq \in Nat /\ part \in Nat
      /\ NS_PER_S * part <= ts.nsec * timer_freq
      /\ ts.nsec * timer_freq < NS_PER_S * part + NS_PER_S
      /\ part < NS_PER_S
  <2>1. ts.nsec \in Nat /\ ts.nsec < NS_PER_S
    BY SleepNumbers DEF timespec_valid
  <2>2. ts.nsec * timer_freq \in Nat
    BY <2>1, SleepNumbers
  <2>3. /\ part \in Nat /\ NS_PER_S * part <= ts.nsec * timer_freq
        /\ ts.nsec * timer_freq < NS_PER_S * part + NS_PER_S
    BY <2>2, SleepNumbers, DivFacts
  <2>4. ts.nsec * timer_freq < NS_PER_S * NS_PER_S
    <3>1. ts.nsec * timer_freq <= ts.nsec * NS_PER_S
      BY <2>1, SleepNumbers
    <3>2. ts.nsec * NS_PER_S < NS_PER_S * NS_PER_S
      BY <2>1, SleepNumbers
    <3> QED
      BY <2>1, <2>2, <3>1, <3>2, SleepNumbers
  <2>5. part < NS_PER_S
    BY <2>2, <2>4, SleepNumbers, DivUpper
  <2> QED
    BY <2>2, <2>3, <2>5
<1>3. whole \in Nat /\ whole <= TickWrap - NS_PER_S
  <2>1. timer_freq * most <= TickWrap - NS_PER_S
    BY SleepNumbers, DivFacts
  <2> HIDE DEF most
  <2>2. timer_freq * ts.sec <= timer_freq * most
    BY <1>1, SleepNumbers
  <2> QED
    BY <1>1, <2>1, <2>2, SleepNumbers
<1>4. timespec_to_ticks(ts) = (whole + part) % TickWrap
  BY DEF timespec_to_ticks
<1>5. Fractions(ts) = whole * NS_PER_S + ts.nsec * timer_freq
  <2>1. ts.nsec \in Int
    BY DEF timespec_valid
  <2> QED
    BY <1>1, <2>1, SleepNumbers DEF Fractions
<1> HIDE DEF whole, part, most
<1>6. timespec_to_ticks(ts) = whole + part
  <2>1. whole + part \in Nat /\ whole + part < TickWrap
    BY <1>2, <1>3, SleepNumbers
  <2> QED
    BY <1>4, <2>1, ModSmall, SleepNumbers
<1>7. Fractions(ts) \in Nat
  BY <1>2, <1>3, <1>5, SleepNumbers
<1>8. /\ NS_PER_S * (whole + part) <= Fractions(ts)
      /\ Fractions(ts) < NS_PER_S * (whole + part + 1)
  BY <1>2, <1>3, <1>5, SleepNumbers
<1>9. /\ Fractions(ts) \div NS_PER_S \in Nat
      /\ whole + part <= Fractions(ts) \div NS_PER_S
      /\ Fractions(ts) \div NS_PER_S < whole + part + 1
  BY <1>2, <1>3, <1>7, <1>8, SleepNumbers, DivFacts, DivLower, DivUpper
<1> QED
  BY <1>2, <1>3, <1>6, <1>7, <1>9

\* Fractions of a tick against ticks.
LEMMA WholeTicks ==
  ASSUME NEW d \in Nat, NEW t \in Int
  PROVE  /\ d \div NS_PER_S \in Nat
         /\ t * NS_PER_S <= d <=> t <= d \div NS_PER_S
         /\ d < t * NS_PER_S <=> d \div NS_PER_S < t
<1> DEFINE q == d \div NS_PER_S
<1>1. q \in Nat /\ NS_PER_S * q <= d /\ d < NS_PER_S * q + NS_PER_S
  BY SleepNumbers, DivFacts
<1>2. NS_PER_S * t <= d => t <= q
  BY SleepNumbers, DivLower
<1> HIDE DEF q
<1>3. t <= q => NS_PER_S * t <= NS_PER_S * q
  BY <1>1, SleepNumbers
<1>4. t * NS_PER_S = NS_PER_S * t /\ NS_PER_S * t \in Int /\ NS_PER_S * q \in Int
  BY <1>1, SleepNumbers
<1>5. t * NS_PER_S <= d <=> t <= q
  BY <1>1, <1>2, <1>3, <1>4
<1>6. d < t * NS_PER_S <=> q < t
  BY <1>1, <1>4, <1>5
<1> QED
  BY <1>1, <1>5, <1>6 DEF q

\* Whole ticks later.
LEMMA TicksLater ==
  ASSUME NEW d \in Nat, NEW t \in Nat
  PROVE  /\ d + t * NS_PER_S \in Nat
         /\ (d + t * NS_PER_S) \div NS_PER_S = d \div NS_PER_S + t
<1> DEFINE q == d \div NS_PER_S
           r == (d + t * NS_PER_S) \div NS_PER_S
<1>1. d + t * NS_PER_S \in Nat
  BY SleepNumbers
<1>2. q \in Nat /\ NS_PER_S * q <= d /\ d < NS_PER_S * q + NS_PER_S
  BY SleepNumbers, DivFacts
<1> HIDE DEF q
<1>3. r \in Nat
  BY <1>1, SleepNumbers, DivFacts
<1>4. NS_PER_S * (q + t) <= d + t * NS_PER_S
  BY <1>2, SleepNumbers
<1>5. d + t * NS_PER_S < NS_PER_S * (q + t + 1)
  BY <1>2, SleepNumbers
<1>6. q + t <= r
  BY <1>1, <1>2, <1>4, SleepNumbers, DivLower
<1>7. r < q + t + 1
  BY <1>1, <1>2, <1>5, SleepNumbers, DivUpper
<1> HIDE DEF r
<1> QED
  BY <1>1, <1>2, <1>3, <1>6, <1>7 DEF r, q

\* What the properties say of fractions, said of ticks.
LEMMA DueFacts ==
  ASSUME NEW d \in Nat, NEW times \in Nat
  PROVE  /\ d \div NS_PER_S \in Nat
         /\ \A t \in Int :
              (t * NS_PER_S <= d /\ d < (t + times + 1) * NS_PER_S)
                <=> t \in (d \div NS_PER_S - times) .. (d \div NS_PER_S)
         /\ now \in Nat =>
              (TooEarly(d, times) <=> now < d \div NS_PER_S - times)
<1>1. d \div NS_PER_S \in Nat
  BY WholeTicks
<1>2. ASSUME NEW t \in Int
      PROVE  (t * NS_PER_S <= d /\ d < (t + times + 1) * NS_PER_S)
               <=> t \in (d \div NS_PER_S - times) .. (d \div NS_PER_S)
  <2>1. t * NS_PER_S <= d <=> t <= d \div NS_PER_S
    BY WholeTicks
  <2>2. d < (t + times + 1) * NS_PER_S <=> d \div NS_PER_S < t + times + 1
    BY WholeTicks
  <2> DEFINE q == d \div NS_PER_S
  <2>3. q \in Nat
    BY <1>1
  <2> HIDE DEF q
  <2>4. (t <= q /\ q < t + times + 1) <=> t \in (q - times) .. q
    BY <2>3
  <2> QED
    BY <2>1, <2>2, <2>4 DEF q
<1>3. ASSUME now \in Nat
      PROVE  TooEarly(d, times) <=> now < d \div NS_PER_S - times
  <2>1. TooEarly(d, times) <=> now + times + 1 <= d \div NS_PER_S
    BY <1>3, WholeTicks DEF TooEarly
  <2> DEFINE q == d \div NS_PER_S
  <2>2. q \in Nat
    BY <1>1
  <2> HIDE DEF q
  <2>3. now + times + 1 <= q <=> now < q - times
    BY <1>3, <2>2
  <2> QED
    BY <2>1, <2>3 DEF q
<1> QED
  BY <1>1, <1>2, <1>3

\* The timeout of a wait is the time its sleep is due, less a tick for each restart.
LEMMA TimeoutIsDue ==
  ASSUME SleepInv
  PROVE  /\ DueTicks \in Nat
         /\ timeout # NoTimeout => timeout \in (DueTicks - restarts) .. DueTicks
         /\ TooEarly(due, restarts) <=> now < DueTicks - restarts
<1>1. /\ due \in Nat /\ restarts \in Nat /\ now \in Nat
      /\ timeout # NoTimeout => timeout \in Int
  BY SleepNumbers DEF SleepInv, SleepTypeOK
<1> QED
  BY <1>1, DueFacts DEF SleepInv, RemainingIsExact, DueTicks

\* The part of a second that r ticks are, in nanoseconds, and back in ticks.
LEMMA NanosecondsOf ==
  ASSUME NEW r \in Nat, r < timer_freq
  PROVE  LET ns == (r * NS_PER_S) \div timer_freq
         IN  /\ ns \in 0 .. (NS_PER_S - 1)
             /\ (ns * timer_freq) \div NS_PER_S \in {r - 1, r}
             /\ (ns * timer_freq) \div NS_PER_S \in Nat
<1> DEFINE ns == (r * NS_PER_S) \div timer_freq
           back == (ns * timer_freq) \div NS_PER_S
<1>1. r * NS_PER_S \in Nat /\ r * NS_PER_S < timer_freq * NS_PER_S
  BY SleepNumbers
<1>2. /\ ns \in Nat /\ timer_freq * ns <= r * NS_PER_S
      /\ r * NS_PER_S < timer_freq * ns + timer_freq
  BY <1>1, DivFacts, SleepNumbers
<1>3. ns < NS_PER_S
  BY <1>1, DivUpper, SleepNumbers
<1> HIDE DEF ns
<1>4. ns * timer_freq \in Nat /\ ns * timer_freq = timer_freq * ns
  BY <1>2, SleepNumbers
<1>5. back \in Nat
  BY <1>4, DivFacts, SleepNumbers
<1>6. back < r + 1
  <2>1. ns * timer_freq < NS_PER_S * (r + 1)
    BY <1>2, <1>4, SleepNumbers
  <2> QED
    BY <1>4, <2>1, DivUpper, SleepNumbers
<1>7. r - 1 <= back
  <2>1. NS_PER_S * (r - 1) <= ns * timer_freq
    <3>1. NS_PER_S * (r - 1) = r * NS_PER_S - NS_PER_S
      BY SleepNumbers
    <3> QED
      BY <1>1, <1>2, <1>4, <3>1, SleepNumbers
  <2> QED
    BY <1>4, <2>1, DivLower, SleepNumbers
<1> HIDE DEF back
<1> QED
  BY <1>2, <1>3, <1>5, <1>6, <1>7, SleepNumbers DEF ns, back

\* Ticks that are not taken for a negative number make a valid timespec, which
\* is the same number of ticks, or one less.
LEMMA ThereAndBack ==
  ASSUME NEW n \in Nat, n < Half
  PROVE  /\ timespec_valid(ticks_to_timespec(n))
         /\ timespec_to_ticks(ticks_to_timespec(n)) \in {n - 1, n}
         /\ timespec_to_ticks(ticks_to_timespec(n)) \in Nat
<1> DEFINE sec == n \div timer_freq
           r == n - sec * timer_freq
           nsec == (r * NS_PER_S) \div timer_freq
           ts == ticks_to_timespec(n)
           back == (nsec * timer_freq) \div NS_PER_S
<1>1. sec \in Nat /\ sec * timer_freq <= n /\ n < sec * timer_freq + timer_freq
  BY DivFacts, SleepNumbers
<1>2. r \in Nat /\ r < timer_freq /\ n = sec * timer_freq + r
  BY <1>1, SleepNumbers
<1>3. nsec \in 0 .. (NS_PER_S - 1) /\ back \in {r - 1, r} /\ back \in Nat
  BY <1>2, NanosecondsOf
<1>4. ts = [sec |-> sec, nsec |-> nsec]
  <2>1. r * NS_PER_S >= 0
    BY <1>2, SleepNumbers
  <2> QED
    BY <2>1 DEF ticks_to_timespec, Quotient, Half
<1>5. sec <= timespec_max_sec
  <2> DEFINE most == (TickWrap - NS_PER_S) \div timer_freq
  <2>1. sec <= n
    <3>1. sec <= sec * timer_freq
      BY <1>1, SleepNumbers
    <3> QED
      BY <1>1, <3>1, SleepNumbers
  <2>2. sec <= Half - 1
    BY <1>1, <2>1, SleepNumbers
  <2>3. sec <= most
    <3>1. timer_freq * sec <= TickWrap - NS_PER_S
      <4>1. timer_freq * sec <= n
        BY <1>1, SleepNumbers
      <4>2. n <= TickWrap - NS_PER_S
        BY SleepNumbers
      <4> QED
        BY <1>1, <4>1, <4>2, SleepNumbers
    <3>2. TickWrap - NS_PER_S \in Nat
      BY SleepNumbers
    <3> QED
      BY <1>1, <3>1, <3>2, DivLower, SleepNumbers
  <2> HIDE DEF most, sec
  <2> QED
    BY <2>2, <2>3 DEF timespec_max_sec, most, Half
<1> HIDE DEF sec, r, nsec, ts
<1>6. ts.sec = sec /\ ts.nsec = nsec
  BY <1>4
<1>7. timespec_valid(ts)
  <2>1. sec \in 0 .. timespec_max_sec
    BY <1>1, <1>5 
  <2> QED
    BY <1>3, <1>6, <2>1 DEF timespec_valid
<1>8. timespec_to_ticks(ts) = sec * timer_freq + back
  <2>1. sec * timer_freq + back \in Nat /\ sec * timer_freq + back <= n
    BY <1>1, <1>2, <1>3, SleepNumbers
  <2>2. sec * timer_freq + back < TickWrap
    BY <2>1, SleepNumbers
  <2>3. (sec * timer_freq + back) % TickWrap = sec * timer_freq + back
    BY <2>1, <2>2, ModSmall, SleepNumbers
  <2> QED
    BY <1>6, <2>3 DEF timespec_to_ticks
<1> HIDE DEF back
<1>9. /\ sec * timer_freq + back \in {n - 1, n}
      /\ sec * timer_freq + back \in Nat
  BY <1>1, <1>2, <1>3, SleepNumbers
<1> QED
  BY <1>7, <1>8, <1>9 DEF ts

\* Ticks that are, as a time in the past, do not.
LEMMA HalfIsTooMuch ==
  ASSUME NEW n \in Nat, Half <= n, n < TickWrap
  PROVE  ~timespec_valid(ticks_to_timespec(n))
<1> DEFINE m == TickWrap - n
           ts == ticks_to_timespec(n)
           q == m \div timer_freq
<1>1. m \in Nat \ {0} /\ n - TickWrap = -m /\ -(-m) = m /\ ~(-m >= 0)
  BY SleepNumbers
<1>2. q \in Nat /\ timer_freq * q <= m
  BY <1>1, DivFacts, SleepNumbers
<1>3. /\ ts.sec = -q
      /\ ts.nsec = Quotient(((n - TickWrap) - (-q) * timer_freq) * NS_PER_S, timer_freq)
  <2>1. Quotient(n - TickWrap, timer_freq) = -q
    BY <1>1, SleepNumbers DEF Quotient
  <2>2. ~(n < TickWrap \div 2)
    BY SleepNumbers DEF Half
  <2> HIDE DEF q
  <2> QED
    BY <2>1, <2>2, Zenon DEF ticks_to_timespec
<1> HIDE DEF ts
<1>4. CASE q > 0
  <2>1. ts.sec < 0
    BY <1>2, <1>3, <1>4
  <2> QED
    BY <1>2, <1>3, <2>1 DEF timespec_valid, ts
<1>5. CASE q = 0
  <2>1. ts.nsec = Quotient((n - TickWrap) * NS_PER_S, timer_freq)
    <3>1. (n - TickWrap) - (-q) * timer_freq = n - TickWrap
      BY <1>1, <1>5, SleepNumbers
    <3> QED
      BY <1>3, <3>1
  <2>2. /\ (n - TickWrap) * NS_PER_S = -(m * NS_PER_S)
        /\ m * NS_PER_S \in Nat /\ NS_PER_S <= m * NS_PER_S
    BY <1>1, SleepNumbers
  <2>3. Quotient(-(m * NS_PER_S), timer_freq) = -((m * NS_PER_S) \div timer_freq)
    BY <2>2, SleepNumbers DEF Quotient
  <2>4. (m * NS_PER_S) \div timer_freq \in Nat /\ 1 <= (m * NS_PER_S) \div timer_freq
    BY <2>2, DivFacts, DivLower, SleepNumbers
  <2>5. ts.nsec < 0
    BY <2>1, <2>2, <2>3, <2>4
  <2> QED
    BY <2>5 DEF timespec_valid, ts
<1> QED
  BY <1>2, <1>4, <1>5

-----------------------------------------------------------------------------
(* The timer's line. *)

LEMMA WithTimerFacts ==
  ASSUME NEW g \in GicStates, PLATFORM_TIMER_IRQ \notin g.edge \cup g.latch,
         NEW t, NEW ticks
  PROVE  /\ Configures(g, WithTimer(g, t, ticks))
         /\ WithTimer(g, t, ticks).enabled = g.enabled
         /\ WithTimer(g, t, ticks).latch = g.latch
         /\ WithTimer(g, t, ticks).edge = g.edge
         /\ PLATFORM_TIMER_IRQ \in WithTimer(g, t, ticks).line
              <=> (t.enabled /\ ticks >= t.cval)
<1> DEFINE line == (g.line \ {PLATFORM_TIMER_IRQ}) \cup TimerLine(t, ticks)
<1>1. /\ line \in SUBSET Irqs /\ (line \ g.line) \cap g.edge = {}
      /\ PLATFORM_TIMER_IRQ \in line <=> (t.enabled /\ ticks >= t.cval)
  BY IrqSets DEF TimerLine, GicStates
<1>2. WithTimer(g, t, ticks) = Drive(g, line)
  BY DEF WithTimer
<1> HIDE DEF line
<1>3. Drive(g, line).edge = g.edge /\ Drive(g, line).line = line
  BY DEF Drive, GicStates
<1>4. /\ Configures(g, Drive(g, line)) /\ Drive(g, line).enabled = g.enabled
      /\ Drive(g, line).latch = g.latch \cup ((line \ g.line) \cap g.edge)
  BY <1>1, DriveFacts
<1>5. Drive(g, line).latch = g.latch
  BY <1>1, <1>4
<1> QED
  BY <1>1, <1>2, <1>3, <1>4, <1>5

\* What a step must leave alone of the controller for LineInv to go on.
SameForTimer(g, h) ==
  /\ PLATFORM_TIMER_IRQ \in h.edge <=> PLATFORM_TIMER_IRQ \in g.edge
  /\ PLATFORM_TIMER_IRQ \in h.line <=> PLATFORM_TIMER_IRQ \in g.line
  /\ PLATFORM_TIMER_IRQ \in h.latch => PLATFORM_TIMER_IRQ \in g.latch

\* The application's operations are not on the timer's interrupt.
LEMMA OthersLeaveTheTimer ==
  ASSUME NEW g \in GicStates, NEW irq, irq # PLATFORM_TIMER_IRQ
  PROVE  /\ SameForTimer(g, platform_irq_enable(g, irq))
         /\ SameForTimer(g, platform_irq_disable(g, irq))
         /\ SameForTimer(g, platform_irq_assert(g, irq))
         /\ SameForTimer(g, platform_irq_clear(g, irq))
         /\ SameForTimer(g, Drive(g, g.line \cup {irq}))
         /\ SameForTimer(g, Drive(g, g.line \ {irq}))
         /\ \A trigger : SameForTimer(g, platform_irq_set_trigger(g, irq, trigger))
<1>1. /\ SameForTimer(g, platform_irq_enable(g, irq))
      /\ SameForTimer(g, platform_irq_disable(g, irq))
      /\ SameForTimer(g, platform_irq_assert(g, irq))
      /\ SameForTimer(g, platform_irq_clear(g, irq))
  BY DEF SameForTimer, platform_irq_enable, platform_irq_disable,
         platform_irq_assert, platform_irq_clear, GicStates
<1>2. /\ SameForTimer(g, Drive(g, g.line \cup {irq}))
      /\ SameForTimer(g, Drive(g, g.line \ {irq}))
  BY DEF SameForTimer, Drive, GicStates
<1>3. ASSUME NEW trigger
      PROVE  SameForTimer(g, platform_irq_set_trigger(g, irq, trigger))
  BY DEF SameForTimer, platform_irq_set_trigger, platform_irq_enable,
         platform_irq_disable, GicStates
<1> QED
  BY <1>1, <1>2, <1>3

\* The runtime's may be, but only clear its latch.
LEMMA DispatcherLeavesTheTimer ==
  ASSUME NEW g \in GicStates, NEW irq
  PROVE  /\ SameForTimer(g, platform_irq_acknowledge(g, irq))
         /\ SameForTimer(g, platform_irq_disable(g, irq))
         /\ SameForTimer(g, platform_irq_deactivate(g, irq))
         /\ SameForTimer(g, platform_irq_disable_all(g))
  BY DEF SameForTimer, platform_irq_acknowledge, platform_irq_disable,
         platform_irq_deactivate, platform_irq_disable_all, GicStates

-----------------------------------------------------------------------------
(* The steps of Interrupt leave the timer and its line alone. *)

LEMMA SameForTimerComposes ==
  ASSUME NEW g, NEW h, NEW i, SameForTimer(g, h), SameForTimer(h, i)
  PROVE  SameForTimer(g, i)
  BY DEF SameForTimer

LEMMA NoneForTimer ==
  ASSUME NEW g
  PROVE  SameForTimer(g, g)
  BY DEF SameForTimer

\* AppIrqs are not the timer's, nor is anything else the application can name.
LEMMA AppIrqFacts ==
  ASSUME IInv, NEW irq \in AppIrqs
  PROVE  irq # PLATFORM_TIMER_IRQ /\ irq \in DOMAIN isr_table
  BY InterruptAssumption DEF IInv, TypeOK, histories

LEMMA AppLeavesTheTimer ==
  ASSUME IInv, Devices \/ App
  PROVE  SameForTimer(gic, gic')
<1>0. gic \in GicStates
  BY DEF IInv, TypeOK, histories
<1>1. CASE Devices
  BY <1>0, <1>1, AppIrqFacts, OthersLeaveTheTimer DEF Devices, DeviceRaises, DeviceLowers
<1>2. ASSUME NEW irq \in AppIrqs, interrupt_ioctl(irq) PROVE SameForTimer(gic, gic')
  <2>1. irq # PLATFORM_TIMER_IRQ
    BY AppIrqFacts
  <2>2. ASSUME NEW enable \in BOOLEAN, update_irq(irq, enable)
        PROVE  SameForTimer(gic, gic')
    BY <1>0, <2>1, <2>2, OthersLeaveTheTimer DEF update_irq
  <2>3. ASSUME NEW assert \in BOOLEAN, assert_irq(irq, assert)
        PROVE  SameForTimer(gic, gic')
    BY <1>0, <2>1, <2>3, OthersLeaveTheTimer DEF assert_irq
  <2>4. CASE interrupt_register_isr(irq) \/ interrupt_deregister_isr(irq)
    BY <2>4, NoneForTimer DEF interrupt_register_isr, interrupt_deregister_isr
  <2>5. ASSUME NEW trigger \in Triggers, set_trigger(irq, trigger)
        PROVE  SameForTimer(gic, gic')
    BY <1>0, <2>1, <2>5, OthersLeaveTheTimer DEF set_trigger
  <2> QED
    BY <1>2, <2>2, <2>3, <2>4, <2>5 DEF interrupt_ioctl
<1>3. ASSUME NEW mask \in BOOLEAN, SetMask(mask) PROVE SameForTimer(gic, gic')
  BY <1>3, NoneForTimer DEF SetMask
<1>4. CASE sys_exit \/ ioctl_past_table
  BY <1>0, <1>4, DispatcherLeavesTheTimer DEF ioctl_past_table, sys_exit
<1> QED
  BY <1>1, <1>2, <1>3, <1>4 DEF App

LEMMA DispatchLeavesTheTimer ==
  ASSUME IInv, Dispatch
  PROVE  SameForTimer(gic, gic')
<1>0. gic \in GicStates
  BY DEF IInv, TypeOK, histories
<1>1. ASSUME NEW irq \in Irqs, CallIsr(irq) PROVE SameForTimer(gic, gic')
  BY <1>0, <1>1, DispatcherLeavesTheTimer DEF CallIsr
<1>2. ASSUME NEW irq \in Irqs, DropUnregistered(irq) PROVE SameForTimer(gic, gic')
  <2> DEFINE g == platform_irq_acknowledge(gic, irq)
  <2>1. g \in GicStates /\ SameForTimer(gic, g)
    BY <1>0, AcknowledgeFacts, DispatcherLeavesTheTimer
  <2>2. gic' = platform_irq_disable(g, irq)
    BY <1>2 DEF DropUnregistered, Unregistered
  <2> HIDE DEF g
  <2>3. SameForTimer(g, gic')
    BY <2>1, <2>2, DispatcherLeavesTheTimer
  <2> QED
    BY <2>1, <2>3, SameForTimerComposes
<1>3. CASE DispatchEnds
  BY <1>3, NoneForTimer DEF DispatchEnds
<1>4. CASE Finish
  BY <1>0, <1>4, DispatcherLeavesTheTimer, NoneForTimer DEF Finish, Finished
<1>5. CASE Deactivate
  BY <1>0, <1>5, DispatcherLeavesTheTimer, NoneForTimer DEF Deactivate, MaskIrqs, EndIrq
<1> QED
  BY <1>1, <1>2, <1>3, <1>4, <1>5 DEF Dispatch

LEMMA InterruptKeepsLine ==
  ASSUME SleepInv, InterruptNext
  PROVE  LineInv'
<1>1. IInv /\ LineInv /\ UNCHANGED sleepVars
  BY DEF SleepInv, InterruptNext
<1>2. SameForTimer(gic, gic')
  <2>1. CASE Devices \/ App
    BY <1>1, <2>1, AppLeavesTheTimer
  <2>2. CASE Dispatch
    BY <1>1, <2>2, DispatchLeavesTheTimer
  <2>3. CASE ~(Devices \/ App \/ Dispatch)
    <3>1. gic' = gic
      BY <2>3 DEF InterruptNext, sys_ppoll, WfiCompletes, interrupt_wait, TakeIrq,
                  IsrReturns, ppoll_returns
    <3> QED
      BY <3>1, NoneForTimer
  <2> QED
    BY <2>1, <2>2, <2>3
<1>3. \A irq \in DOMAIN isr_table' :
        isr_table'[irq] = "timer_isr" <=> irq = PLATFORM_TIMER_IRQ
  <2>1. CASE isr_table' = isr_table
    BY <1>1, <2>1 DEF LineInv
  <2>2. CASE isr_table' # isr_table
    <3>1. PICK irq \in AppIrqs :
            interrupt_register_isr(irq) \/ interrupt_deregister_isr(irq)
      BY <2>2
      DEF InterruptNext, Devices, DeviceRaises, DeviceLowers, App, interrupt_ioctl,
          update_irq, assert_irq, set_trigger, SetMask, ioctl_past_table, sys_exit, sys_ppoll, EnterWait,
          WfiCompletes, interrupt_wait, TakeIrq, Dispatch, CallIsr, DropUnregistered,
          DispatchEnds, Finish, Deactivate, MaskIrqs, EndIrq, IsrReturns, ppoll_returns, LeaveWait
    <3>2. isr_table' = [isr_table EXCEPT ![irq] = "app"]
          \/ isr_table' = [isr_table EXCEPT ![irq] = "NULL"]
      BY <3>1 DEF interrupt_register_isr, interrupt_deregister_isr
    <3>3. irq # PLATFORM_TIMER_IRQ
      BY <1>1, AppIrqFacts
    <3> QED
      BY <1>1, <3>2, <3>3 DEF LineInv
  <2> QED
    BY <2>1, <2>2
<1> QED
  BY <1>1, <1>2, <1>3 DEF LineInv, SameForTimer, sleepVars

\* When an ISR is called it is for an interrupt that is signalled.
LEMMA IsrIsSignalled ==
  ASSUME IInv, InterruptNext, pc' # "exit", InIsr'
  PROVE  \/ pc # "exit" /\ InIsr /\ Head(disp) = Head(disp)'
         \/ Head(disp').irq \in Deliverable(gic)
<1>0. disp \in Seq(Frames) /\ Len(disp) <= 1
  BY DEF IInv, TypeOK, histories, ControlInv, NoNesting
<1>1. disp' # <<>> /\ Head(disp').at = "isr"
  BY DEF InIsr
<1>2. CASE disp' = disp
  <2>1. pc # "exit"
    BY DEF InterruptNext, Devices, DeviceRaises, DeviceLowers, App, interrupt_ioctl,
           update_irq, assert_irq, set_trigger, interrupt_register_isr,
           interrupt_deregister_isr, SetMask, ioctl_past_table, sys_exit, sys_ppoll, EnterWait,
           WfiCompletes, interrupt_wait, TakeIrq, Dispatch, CallIsr, DropUnregistered,
           DispatchEnds, Finish, Deactivate, MaskIrqs, EndIrq, DispatcherAt, IsrReturns, InAppIsr, ppoll_returns,
           LeaveWait
  <2> QED
    BY <1>1, <1>2, <2>1 DEF InIsr
<1>3. CASE disp' # disp
  <2>1. \/ interrupt_wait \/ TakeIrq \/ DispatchEnds \/ Finish \/ Deactivate
        \/ \E irq \in Irqs : CallIsr(irq) \/ DropUnregistered(irq)
        \/ \E handled \in BOOLEAN : IsrReturns(handled)
    BY <1>3
    DEF InterruptNext, Devices, DeviceRaises, DeviceLowers, App, interrupt_ioctl,
        update_irq, assert_irq, set_trigger, interrupt_register_isr,
        interrupt_deregister_isr, SetMask, ioctl_past_table, sys_exit, sys_ppoll, EnterWait,
        WfiCompletes, Dispatch, ppoll_returns, LeaveWait
  <2>2. ~interrupt_wait
    <3> SUFFICES ASSUME interrupt_wait PROVE FALSE
      OBVIOUS
    <3>1. disp' = <<NewFrame>>
      BY <1>3 DEF interrupt_wait
    <3> QED
      BY <1>1, <3>1 DEF NewFrame
  <2>3. ~TakeIrq
    <3> SUFFICES ASSUME TakeIrq PROVE FALSE
      OBVIOUS
    <3>1. disp' = <<NewFrame>> \o disp
      BY DEF TakeIrq
    <3>2. Head(disp') = NewFrame
      BY <1>0, <3>1, FrameTypes
    <3> QED
      BY <1>1, <3>2 DEF NewFrame
  <2>4. ~DispatchEnds
    BY <1>0, <1>1, OneFrame DEF DispatchEnds, DispatcherAt
  <2>5. ASSUME NEW at \in Stages, NEW irq \in Irqs \cup {VIRQ_INVALID},
               NEW handled \in BOOLEAN, Advance(at, irq, handled), disp # <<>>
        PROVE  at = "isr" /\ Head(disp').irq = irq
    <3> DEFINE f == IF at = "ack" THEN NewFrame
                    ELSE [at |-> at, irq |-> irq, handled |-> handled]
    <3>1. f \in Frames /\ f.at = at /\ (at # "ack" => f.irq = irq)
      BY FrameTypes DEF NewFrame
    <3>2. disp' = <<f>> \o Tail(disp)
      BY <2>5 DEF Advance
    <3> HIDE DEF f
    <3>3. Head(disp') = f
      BY <1>0, <2>5, <3>1, <3>2, ReplaceFrame
    <3> QED
      BY <1>1, <3>1, <3>3
  <2>6. ~Finish /\ ~Deactivate
    <3>1. Head(disp) \in Frames \/ disp = <<>>
      BY <1>0, HeadFrame
    <3>2. disp # <<>> => Head(disp).irq \in Irqs \cup {VIRQ_INVALID}
                         /\ Head(disp).handled \in BOOLEAN
      BY <3>1 DEF Frames
    <3> QED
      BY <2>5, <3>2 DEF Finish, Deactivate, MaskIrqs, EndIrq, DispatcherAt, Stages
  <2>7. ASSUME NEW handled \in BOOLEAN PROVE ~IsrReturns(handled)
    BY <1>0, <2>5, HeadFrame DEF IsrReturns, InAppIsr, InIsr, Frames, Stages
  <2>8. ASSUME NEW irq \in Irqs, CallIsr(irq)
        PROVE  Head(disp').irq \in Deliverable(gic)
    BY <2>5, <2>8 DEF CallIsr, DispatcherAt, AckResults, Stages
  <2>9. ASSUME NEW irq \in Irqs PROVE ~DropUnregistered(irq)
    BY <2>5 DEF DropUnregistered, DispatcherAt, Stages
  <2> QED
    BY <2>1, <2>2, <2>3, <2>4, <2>6, <2>7, <2>8, <2>9
<1> QED
  BY <1>2, <1>3

\* The timer's is signalled when its wait is over.
LEMMA TimerIsSignalled ==
  ASSUME IInv, LineInv, PLATFORM_TIMER_IRQ \in Deliverable(gic)
  PROVE  timer.enabled /\ now >= timer.cval
  BY DEF LineInv, Deliverable, IsPending

LEMMA InterruptKeepsTimer ==
  ASSUME SleepInv, InterruptNext
  PROVE  TimerInv'
<1>1. IInv /\ LineInv /\ TimerInv /\ UNCHANGED <<now, timer, timer_fired, timeout>>
  BY DEF SleepInv, InterruptNext, sleepVars, waitVars
<1>2. timeout' # NoTimeout =>
        pc' \in {"wfi", "woken", "dispatching", "waited", "exit"}
  BY <1>1
  DEF TimerInv, InterruptNext, Devices, DeviceRaises, DeviceLowers, App, interrupt_ioctl,
      update_irq, assert_irq, set_trigger, interrupt_register_isr,
      interrupt_deregister_isr, SetMask, ioctl_past_table, sys_exit, sys_ppoll, EnterWait,
      WfiCompletes, interrupt_wait, TakeIrq, Dispatch, CallIsr, DropUnregistered,
      DispatchEnds, Finish, Deactivate, MaskIrqs, EndIrq, IsrReturns, ppoll_returns
<1>3. (pc' # "exit" /\ InIsr' /\ Head(disp').irq = PLATFORM_TIMER_IRQ) =>
        timer'.enabled /\ now' >= timer'.cval
  <2> SUFFICES ASSUME pc' # "exit", InIsr', Head(disp').irq = PLATFORM_TIMER_IRQ
               PROVE  timer.enabled /\ now >= timer.cval
    BY <1>1
  <2>1. CASE pc # "exit" /\ InIsr /\ Head(disp) = Head(disp)'
    BY <1>1, <2>1 DEF TimerInv
  <2>2. CASE Head(disp').irq \in Deliverable(gic)
    BY <1>1, <2>2, TimerIsSignalled
  <2> QED
    BY <1>1, <2>1, <2>2, IsrIsSignalled
<1> QED
  BY <1>1, <1>2, <1>3 DEF TimerInv

LEMMA InterruptSleepInv ==
  ASSUME SleepInv, InterruptNext
  PROVE  SleepInv'
<1>1. IInv /\ UNCHANGED sleepVars /\ [Next]_vars
  BY DEF SleepInv, InterruptNext, Next
<1>2. IInv'
  BY <1>1, NextIInv
<1>3. SleepTypeOK'
  BY <1>1, <1>2 DEF SleepInv, SleepTypeOK, IInv, sleepVars, waitVars, timespec_valid,
                    NoTime
<1> QED
  BY <1>1, <1>2, <1>3, InterruptKeepsLine, InterruptKeepsTimer
  DEF SleepInv, RemainInv, NeverEarly, RemainingIsExact, sleepVars, waitVars, DueTicks

-----------------------------------------------------------------------------
(* Init, and the steps of the timer and of its waits. *)

LEMMA SleepInitInv == SleepInit => SleepInv
<1> SUFFICES ASSUME SleepInit PROVE SleepInv
  OBVIOUS
<1>1. IInv
  BY InitIInv DEF SleepInit
<1>2. PLATFORM_TIMER_IRQ \notin gic.edge
  <2>1. PICK g \in ResetStates :
          gic = platform_irq_enable(
                  platform_irq_set_trigger(platform_irq_init(g),
                                           PLATFORM_TIMER_IRQ, "LEVEL_HIGH"),
                  PLATFORM_TIMER_IRQ)
    BY DEF SleepInit, Init
  <2> DEFINE h == platform_irq_init(g)
             i == platform_irq_set_trigger(h, PLATFORM_TIMER_IRQ, "LEVEL_HIGH")
  <2>2. h \in GicStates
    <3>1. InitRegs(RegIrqs) \subseteq Irqs /\ InitRegs(RegIrqs \div 2) \subseteq Irqs
      BY IrqSets DEF InitRegs
    <3>2. g \in GicStates
      BY InterruptAssumption
    <3> QED
      BY <3>1, <3>2, IrqSets DEF platform_irq_init, GicStates
  <2>3. PLATFORM_TIMER_IRQ \notin h.edge
    BY InterruptAssumption DEF platform_irq_init, GicStates
  <2> HIDE DEF h
  <2>4. i \in GicStates /\ PLATFORM_TIMER_IRQ \notin i.edge
    <3>1. i \in GicStates
      BY <2>2, TriggerFacts DEF Configures
    <3>2. PLATFORM_TIMER_IRQ \notin i.edge
      BY <2>2, <2>3
      DEF platform_irq_set_trigger, platform_irq_enable, platform_irq_disable, GicStates
    <3> QED
      BY <3>1, <3>2
  <2> HIDE DEF i
  <2>5. gic = platform_irq_enable(i, PLATFORM_TIMER_IRQ)
    BY <2>1 DEF i, h
  <2> QED
    BY <2>4, <2>5 DEF platform_irq_enable, GicStates
<1>3. LineInv
  BY <1>2 DEF SleepInit, Init, LineInv
<1>4. TimerInv /\ RemainInv /\ NeverEarly /\ RemainingIsExact
  BY DEF SleepInit, Init, TimerInv, InIsr, RemainInv, NeverEarly, RemainingIsExact
<1>5. SleepTypeOK
  <2>1. TypeOK /\ 0 \in 0 .. MaxTicks /\ 0 \in 0 .. (TickWrap - 1)
        /\ 0 \in 0 .. MaxRestarts
    BY <1>1, SleepNumbers DEF IInv
  <2>2. timer \in [enabled : BOOLEAN, cval : 0 .. (TickWrap - 1)]
    BY <2>1 DEF SleepInit
  <2> QED
    BY <2>1, <2>2 DEF SleepInit, SleepTypeOK
<1> QED
  BY <1>1, <1>3, <1>4, <1>5 DEF SleepInv

\* The timer's line changes nothing Interrupt's invariants are about.
LEMMA LineKeepsIInv ==
  ASSUME IInv, Configures(gic, gic'), gic'.enabled = gic.enabled,
         gic'.latch = gic.latch,
         UNCHANGED <<isr_table, masked, pc, disp, saved, histories>>
  PROVE  IInv'
<1>1. ControlInv'
  BY ConfigKeepsControl
<1>2. TypeOK'
  BY DEF IInv, TypeOK, histories, Configures
<1> QED
  BY <1>1, <1>2 DEF IInv, QuietStaysDisabled, EdgesAreKept, histories

\* What a new line of the timer is like.
LEMMA NewLine ==
  ASSUME SleepInv, NEW t, NEW ticks
  PROVE  LET g == WithTimer(gic, t, ticks)
         IN  /\ Configures(gic, g) /\ g \in GicStates
             /\ g.enabled = gic.enabled /\ g.latch = gic.latch
             /\ PLATFORM_TIMER_IRQ \notin g.edge \cup g.latch
             /\ PLATFORM_TIMER_IRQ \in g.line <=> (t.enabled /\ ticks >= t.cval)
<1>1. gic \in GicStates /\ PLATFORM_TIMER_IRQ \notin gic.edge \cup gic.latch
  BY DEF SleepInv, IInv, TypeOK, histories, LineInv
<1> DEFINE g == WithTimer(gic, t, ticks)
<1>2. /\ Configures(gic, g) /\ g.enabled = gic.enabled /\ g.latch = gic.latch
      /\ g.edge = gic.edge
      /\ PLATFORM_TIMER_IRQ \in g.line <=> (t.enabled /\ ticks >= t.cval)
  BY <1>1, WithTimerFacts
<1> HIDE DEF g
<1>3. g \in GicStates
  BY <1>2 DEF Configures
<1> QED
  BY <1>1, <1>2, <1>3 DEF g

LEMMA TickSleepInv ==
  ASSUME SleepInv, Tick
  PROVE  SleepInv'
<1>1. /\ now \in 0 .. MaxTicks /\ now' = now + 1 /\ now' \in 0 .. MaxTicks
      /\ gic' = WithTimer(gic, timer, now')
      /\ due \in Nat /\ restarts \in Nat
      /\ UNCHANGED <<isr_table, masked, pc, disp, saved, histories,
                     timer, timer_fired, timeout, told, remain, restarts, early, failed>>
  BY SleepNumbers DEF Tick, SleepInv, SleepTypeOK
<1>2. LineInv'
  BY <1>1, NewLine DEF LineInv, SleepInv
<1>3. IInv'
  BY <1>1, NewLine, LineKeepsIInv DEF SleepInv
<1>4. TimerInv'
  <2>1. timer.enabled /\ now >= timer.cval => now' >= timer.cval
    BY <1>1, SleepNumbers DEF SleepInv, SleepTypeOK
  <2>2. timer_fired => timeout # NoTimeout /\ now' >= timeout
    BY <1>1, SleepNumbers DEF SleepInv, TimerInv, SleepTypeOK, NoTimeout
  <2> QED
    BY <1>1, <2>1, <2>2 DEF SleepInv, TimerInv, InIsr
<1>5. due' \in Nat /\ (due' = due \/ (due' = due + NS_PER_S /\ timeout = NoTimeout))
  BY <1>1, SleepNumbers DEF Tick
<1>6. SleepTypeOK'
  BY <1>1, <1>3, <1>5 DEF SleepInv, SleepTypeOK, IInv, timespec_valid
<1>7. RemainInv'
  <2> SUFFICES ASSUME remain # NoTime PROVE RemainInv'
    BY <1>1 DEF RemainInv
  <2>1. /\ timeout = NoTimeout /\ timespec_valid(remain) /\ due' = due + NS_PER_S
        /\ timespec_to_ticks(remain) + now >= DueTicks - restarts - 1
        /\ timespec_to_ticks(remain) > 0 => timespec_to_ticks(remain) + now <= DueTicks
    BY DEF SleepInv, SleepTypeOK, RemainInv, Tick
  <2>4. DueTicks \in Nat /\ DueTicks' = DueTicks + 1
    <3>1. due' = due + 1 * NS_PER_S
      BY <1>1, <2>1, SleepNumbers
    <3> QED
      BY <1>1, <3>1, TicksLater, WholeTicks DEF DueTicks
  <2> DEFINE ticks == timespec_to_ticks(remain)
  <2>2. ticks \in Nat /\ ticks' = ticks
    BY <1>1, <2>1, TicksType, SleepNumbers DEF timespec_to_ticks
  <2> HIDE DEF ticks
  <2>3. /\ ticks + now' >= DueTicks' - restarts' - 1
        /\ ticks > 0 => ticks + now' <= DueTicks'
    BY <1>1, <2>1, <2>2, <2>4 DEF ticks
  <2> QED
    BY <1>1, <2>1, <2>2, <2>3 DEF RemainInv, ticks
<1>8. RemainingIsExact'
  BY <1>1, <1>5 DEF SleepInv, RemainingIsExact
<1> QED
  BY <1>1, <1>2, <1>3, <1>4, <1>6, <1>7, <1>8 DEF SleepInv, NeverEarly

LEMMA IsrSleepInv ==
  ASSUME SleepInv, timer_isr
  PROVE  SleepInv'
<1>1. /\ IInv /\ DispatcherAt("isr") /\ Head(disp).irq = PLATFORM_TIMER_IRQ
      /\ pc # "exit" /\ InIsr
  <2>1. IInv /\ pc # "exit" /\ InIsr /\ isr_table[Head(disp).irq] = "timer_isr"
    BY DEF SleepInv, timer_isr
  <2>2. Head(disp).irq = PLATFORM_TIMER_IRQ
    <3>1. isr_table \in [0 .. (PLATFORM_NUM_IRQS - 1) -> Handlers] /\ LineInv
      BY DEF SleepInv, IInv, TypeOK, histories
    <3>2. Head(disp).irq \in DOMAIN isr_table
      BY <2>1, <3>1, DispatcherFacts, InterruptAssumption DEF DispatcherAt, InIsr
    <3> QED
      BY <2>1, <3>1, <3>2 DEF LineInv
  <2> QED
    BY <2>1, <2>2 DEF DispatcherAt, InIsr
<1>2. /\ disp # <<>> /\ Head(disp).irq \in Irqs /\ gic.active = {Head(disp).irq}
  BY <1>1, DispatcherFacts
<1>3. timer.enabled /\ now >= timer.cval /\ timeout # NoTimeout /\ timer.cval = timeout
  BY <1>1 DEF SleepInv, TimerInv
<1>4. /\ timer_fired' = TRUE /\ timer' = [timer EXCEPT !.enabled = FALSE]
      /\ gic' = WithTimer(gic, timer', now)
      /\ Advance("end", Head(disp).irq, TRUE)
      /\ UNCHANGED <<isr_table, masked, pc, saved, histories, now, waitVars>>
  BY DEF timer_isr, platform_timer_cancel_timeout
<1>5. timer' \in [enabled : BOOLEAN, cval : 0 .. (TickWrap - 1)] /\ ~timer'.enabled
  BY <1>4 DEF SleepInv, SleepTypeOK
<1>6. /\ Configures(gic, gic') /\ gic' \in GicStates
      /\ gic'.enabled = gic.enabled /\ gic'.latch = gic.latch
      /\ PLATFORM_TIMER_IRQ \notin gic'.edge \cup gic'.latch
      /\ PLATFORM_TIMER_IRQ \notin gic'.line
  BY <1>4, <1>5, NewLine
<1>7. ControlInv' /\ disp' \in Seq(Frames) /\ Len(disp') <= MaxDepth
  BY <1>1, <1>2, <1>4, <1>6, AdvanceIInv DEF Configures, Stages
<1>8. IInv'
  <2>1. TypeOK'
    BY <1>1, <1>4, <1>6, <1>7 DEF IInv, TypeOK, histories
  <2> QED
    BY <1>1, <1>4, <1>6, <1>7, <2>1 DEF IInv, QuietStaysDisabled, EdgesAreKept, histories
<1>9. LineInv'
  BY <1>4, <1>5, <1>6 DEF SleepInv, LineInv
<1>10. Head(disp').at = "end"
  <2> DEFINE f == [at |-> "end", irq |-> Head(disp).irq, handled |-> TRUE]
  <2>1. f \in Frames /\ f.at = "end"
    BY <1>2, FrameTypes DEF Stages
  <2>2. disp' = <<f>> \o Tail(disp) /\ disp \in Seq(Frames) /\ Len(disp) <= 1
    BY <1>1, <1>4 DEF Advance, IInv, TypeOK, histories, ControlInv, NoNesting
  <2> HIDE DEF f
  <2> QED
    BY <1>2, <2>1, <2>2, ReplaceFrame
<1>11. TimerInv'
  BY <1>3, <1>4, <1>5, <1>10 DEF SleepInv, TimerInv, InIsr, waitVars
<1>12. SleepTypeOK'
  BY <1>4, <1>5, <1>8 DEF SleepInv, SleepTypeOK, IInv, waitVars, timespec_valid
<1> QED
  BY <1>4, <1>8, <1>9, <1>11, <1>12
  DEF SleepInv, RemainInv, RemainingIsExact, NeverEarly, waitVars, timespec_to_ticks,
      DueTicks

\* A call's timeout is the time its sleep is due, less a tick for each restart,
\* unless it has passed.
LEMMA TimeoutFacts ==
  ASSUME SleepInv, NEW relative \in BOOLEAN, NEW req, NEW tell,
         LET call == [relative |-> relative, req |-> req, told |-> tell]
         IN  timespec_valid(req) /\ (Afresh(call) \/ GoesOn(call))
  PROVE  LET ticks == timespec_to_ticks(req)
             out == TimeoutOf(relative, ticks)
         IN  /\ out \in 0 .. (TickWrap - 1)
             /\ due' \in Nat /\ restarts' \in 0 .. MaxRestarts
             /\ DueTicks' \in Nat
             /\ out > now => out \in (DueTicks' - restarts') .. DueTicks'
             /\ out <= now => Wraps(relative, ticks) \/ now >= DueTicks' - restarts'
<1> DEFINE call == [relative |-> relative, req |-> req, told |-> tell]
           ticks == timespec_to_ticks(req)
           out == TimeoutOf(relative, ticks)
<1>1. ticks \in 0 .. (TickWrap - 1)
  BY TicksType
<1>2. /\ now \in 0 .. (TickWrap - 1) /\ due \in Nat /\ restarts \in 0 .. MaxRestarts
      /\ MaxRestarts \in Nat /\ TickWrap \in Nat \ {0}
  BY SleepNumbers DEF SleepInv, SleepTypeOK
<1> HIDE DEF ticks
<1>3. out \in 0 .. (TickWrap - 1)
  BY <1>1, <1>2, ModRange DEF TimeoutOf
<1>4. relative /\ out > now => out = ticks + now
  BY <1>1, <1>2, WrapIsPast DEF TimeoutOf
<1>5. relative /\ ~Wraps(relative, ticks) => out = ticks + now
  BY <1>1, <1>2, ModSmall DEF TimeoutOf, Wraps
<1>6. ~relative => out = ticks
  BY DEF TimeoutOf
<1> HIDE DEF out
<1>7. CASE Afresh(call)
  <2>1. due' = Fractions(req) + (IF relative THEN now * NS_PER_S ELSE 0)
        /\ restarts' = 0
    BY <1>7 DEF Afresh
  <2>2. CASE relative
    <3>1. DueTicks' = ticks + now /\ DueTicks' \in Nat /\ due' \in Nat
      <4>1. due' = Fractions(req) + now * NS_PER_S
        BY <2>1, <2>2
      <4>2. Fractions(req) \in Nat /\ Fractions(req) \div NS_PER_S = ticks
        BY TicksAreAsked DEF ticks
      <4>3. now \in Nat
        BY <1>2
      <4> DEFINE d == Fractions(req)
      <4>4. d + now * NS_PER_S \in Nat
            /\ (d + now * NS_PER_S) \div NS_PER_S = d \div NS_PER_S + now
        BY <4>2, <4>3, TicksLater
      <4>5. due' \in Nat /\ DueTicks' = ticks + now
        BY <4>1, <4>2, <4>4 DEF DueTicks
      <4> QED
        BY <1>1, <1>2, <4>5
    <3>2. out > now => out \in (DueTicks' - restarts') .. DueTicks'
      BY <1>2, <1>3, <1>4, <2>1, <2>2, <3>1
    <3>3. out <= now => Wraps(relative, ticks) \/ now >= DueTicks' - restarts'
      <4> SUFFICES ASSUME out <= now, ~Wraps(relative, ticks)
                   PROVE  now >= DueTicks' - restarts'
        OBVIOUS
      <4>1. out = ticks + now
        BY <1>5, <2>2
      <4> QED
        BY <1>2, <2>1, <3>1, <4>1
    <3> QED
      BY <1>2, <1>3, <2>1, <3>1, <3>2, <3>3 DEF out, ticks
  <2>3. CASE ~relative
    <3>1. DueTicks' = ticks /\ DueTicks' \in Nat /\ due' \in Nat
      <4>1. due' = Fractions(req) + 0
        BY <2>1, <2>3
      <4>2. due' = Fractions(req)
        BY <4>1, TicksAreAsked
      <4> QED
        BY <1>1, <1>2, <4>2, TicksAreAsked DEF DueTicks, ticks
    <3> QED
      BY <1>2, <1>3, <1>6, <2>1, <2>3, <3>1 DEF out, ticks
  <2> QED
    BY <2>2, <2>3
<1>8. CASE GoesOn(call)
  <2>1. /\ remain # NoTime /\ relative /\ req = remain
        /\ restarts' = restarts + 1 /\ restarts < MaxRestarts /\ due' = due
        /\ DueTicks' = DueTicks
    <3>1. call = [relative |-> TRUE, req |-> remain, told |-> TRUE]
      BY <1>8 DEF GoesOn
    <3>2. call.relative = TRUE /\ call.req = remain
      BY <3>1
    <3> QED
      BY <1>8, <3>2 DEF GoesOn, DueTicks
  <2>2. /\ ticks + now >= DueTicks - restarts - 1
        /\ ticks > 0 => ticks + now <= DueTicks
        /\ DueTicks \in Nat
    BY <2>1, TimeoutIsDue DEF SleepInv, RemainInv, ticks
  <2>3. out > now => ticks > 0
    BY <1>1, <1>2, <1>4, <2>1
  <2>4. restarts' \in 0 .. MaxRestarts
    BY <1>2, <2>1
  <2>5. out > now => out \in (DueTicks' - restarts') .. DueTicks'
    BY <1>1, <1>2, <1>4, <2>1, <2>2, <2>3
  <2>6. out <= now => Wraps(relative, ticks) \/ now >= DueTicks' - restarts'
    <3> SUFFICES ASSUME out <= now, ~Wraps(relative, ticks)
                 PROVE  now >= DueTicks' - restarts'
      OBVIOUS
    <3>1. ticks = 0
      BY <1>1, <1>2, <1>5, <2>1
    <3> QED
      BY <1>2, <2>1, <2>2, <3>1
  <2> QED
    BY <1>2, <1>3, <2>1, <2>2, <2>4, <2>5, <2>6 DEF out, ticks
<1> QED
  BY <1>7, <1>8

LEMMA PastSleepInv ==
  ASSUME SleepInv, NEW call, call.relative \in BOOLEAN,
         call = [relative |-> call.relative, req |-> call.req, told |-> call.told],
         Afresh(call) \/ GoesOn(call), timer_wait_past(call)
  PROVE  SleepInv'
<1> DEFINE ticks == timespec_to_ticks(call.req)
           out == TimeoutOf(call.relative, ticks)
<1>1. /\ pc = "app" /\ timespec_valid(call.req) /\ out <= now
      /\ early' = (early \/ (TooEarly(due', restarts') /\ ~Wraps(call.relative, ticks)))
      /\ remain' = NoTime
      /\ UNCHANGED <<vars, now, timer, timer_fired, timeout, told, failed>>
  BY DEF timer_wait_past
<1>2. /\ due' \in Nat /\ restarts' \in 0 .. MaxRestarts
      /\ DueTicks' \in Nat
      /\ Wraps(call.relative, ticks) \/ now >= DueTicks' - restarts'
  BY <1>1, TimeoutFacts
<1> HIDE DEF ticks, out
<1>3. ~early'
  <2>1. early = FALSE /\ now \in Nat /\ restarts' \in Nat
    BY <1>2, SleepNumbers DEF SleepInv, NeverEarly, SleepTypeOK
  <2>3. TooEarly(due', restarts') <=> now < DueTicks' - restarts'
    BY <1>2, <2>1, DueFacts DEF DueTicks
  <2>2. ~(TooEarly(due', restarts') /\ ~Wraps(call.relative, ticks))
    BY <1>2, <2>1, <2>3
  <2> QED
    BY <1>1, <2>1, <2>2, Zenon
<1>4. timeout = NoTimeout
  BY <1>1 DEF SleepInv, TimerInv
<1>5. IInv'
  BY <1>1, NextIInv DEF SleepInv
<1>6. SleepTypeOK'
  BY <1>1, <1>2, <1>3, <1>5 DEF SleepInv, SleepTypeOK, IInv
<1>7. LineInv' /\ TimerInv'
  BY <1>1 DEF SleepInv, LineInv, TimerInv, InIsr, vars
<1>8. RemainInv' /\ RemainingIsExact'
  BY <1>1, <1>4 DEF SleepInv, RemainInv, RemainingIsExact
<1> QED
  BY <1>3, <1>5, <1>6, <1>7, <1>8 DEF SleepInv, NeverEarly

LEMMA BeginSleepInv ==
  ASSUME SleepInv, NEW call, call.relative \in BOOLEAN, call.told \in BOOLEAN,
         call = [relative |-> call.relative, req |-> call.req, told |-> call.told],
         Afresh(call) \/ GoesOn(call), timer_wait_begin(call)
  PROVE  SleepInv'
<1> DEFINE ticks == timespec_to_ticks(call.req)
           out == TimeoutOf(call.relative, ticks)
<1>1. /\ pc = "app" /\ disp = <<>> /\ saved' = masked /\ masked' = TRUE /\ pc' = "wfi"
      /\ UNCHANGED <<isr_table, disp, histories>>
      /\ timespec_valid(call.req) /\ out > now
      /\ timeout' = out /\ told' = call.told
      /\ timer' = [enabled |-> TRUE, cval |-> timeout']
      /\ gic' = WithTimer(gic, timer', now)
      /\ remain' = NoTime
      /\ UNCHANGED <<now, timer_fired, early, failed>>
  BY DEF timer_wait_begin, EnterWait, platform_timer_set_timeout
<1>2. /\ out \in 0 .. (TickWrap - 1)
      /\ due' \in Nat /\ restarts' \in 0 .. MaxRestarts
      /\ out \in (DueTicks' - restarts') .. DueTicks'
  BY <1>1, TimeoutFacts
<1> HIDE DEF ticks, out
<1>3. timeout = NoTimeout /\ ~timer_fired
  BY <1>1 DEF SleepInv, TimerInv
<1>4. timer'.enabled = TRUE /\ timer'.cval = out /\ timeout' # NoTimeout
      /\ timer' \in [enabled : BOOLEAN, cval : 0 .. (TickWrap - 1)]
  BY <1>1, <1>2, SleepNumbers DEF NoTimeout
<1>5. /\ Configures(gic, gic') /\ gic' \in GicStates
      /\ gic'.enabled = gic.enabled /\ gic'.latch = gic.latch
      /\ PLATFORM_TIMER_IRQ \notin gic'.edge \cup gic'.latch
      /\ PLATFORM_TIMER_IRQ \in gic'.line
           <=> (timer'.enabled /\ now >= timer'.cval)
  BY <1>1, NewLine
<1>6. IInv'
  <2>1. ControlInv'
    BY <1>1, <1>5 DEF SleepInv, IInv, ControlInv, NoNesting, FrameInv, WaitInv,
                      Configures
  <2>2. TypeOK'
    BY <1>1, <1>5 DEF SleepInv, IInv, TypeOK, histories
  <2> QED
    BY <1>1, <1>5, <2>1, <2>2 DEF SleepInv, IInv, QuietStaysDisabled, EdgesAreKept, histories
<1>7. LineInv'
  BY <1>1, <1>5 DEF SleepInv, LineInv
<1>8. TimerInv'
  BY <1>1, <1>3, <1>4 DEF SleepInv, TimerInv, InIsr
<1>9. SleepTypeOK'
  BY <1>1, <1>2, <1>4, <1>6 DEF SleepInv, SleepTypeOK, IInv
<1>10. RemainInv' /\ RemainingIsExact'
  <2>1. /\ timeout' * NS_PER_S <= due'
        /\ due' < (timeout' + restarts' + 1) * NS_PER_S
    <3>1. restarts' \in Nat /\ timeout' \in Int /\ timeout' = out
      BY <1>1, <1>2, SleepNumbers
    <3> QED
      BY <1>2, <3>1, DueFacts DEF DueTicks
  <2> QED
    BY <1>1, <2>1 DEF SleepInv, RemainInv, RemainingIsExact
<1> QED
  BY <1>1, <1>6, <1>7, <1>8, <1>9, <1>10 DEF SleepInv, NeverEarly

LEMMA SetAndWaitSleepInv ==
  ASSUME SleepInv, timer_set_and_wait
  PROVE  SleepInv'
<1>1. PICK call \in Calls \cup [relative : {TRUE}, req : {remain}, told : {TRUE}] :
        /\ (call.req \in Requests /\ Afresh(call)) \/ GoesOn(call)
        /\ timer_wait_past(call) \/ timer_wait_begin(call)
  BY DEF timer_set_and_wait
<1>2. /\ call.relative \in BOOLEAN /\ call.told \in BOOLEAN
      /\ call = [relative |-> call.relative, req |-> call.req, told |-> call.told]
  BY <1>1 DEF Calls
<1> QED
  BY <1>1, <1>2, PastSleepInv, BeginSleepInv

\* The ticks that remain, as they are told.
LEMMA RemainTold ==
  ASSUME SleepInv, timeout # NoTimeout, pc = "waited",
         timespec_valid(ticks_to_timespec(RemTicks))
  PROVE  LET ticks == timespec_to_ticks(ticks_to_timespec(RemTicks))
         IN  /\ ticks + now >= DueTicks - restarts - 1
             /\ ticks > 0 => ticks + now <= DueTicks
<1> DEFINE ticks == timespec_to_ticks(ticks_to_timespec(RemTicks))
<1>1. /\ now \in 0 .. MaxTicks /\ timeout \in 0 .. (TickWrap - 1)
      /\ DueTicks \in Nat /\ restarts \in Nat
      /\ timeout \in (DueTicks - restarts) .. DueTicks
  BY TimeoutIsDue, SleepNumbers DEF SleepInv, SleepTypeOK
<1>2. RemTicks \in Nat /\ RemTicks < TickWrap
  BY <1>1, SleepNumbers DEF RemTicks
<1>3. RemTicks < Half
  BY <1>2, HalfIsTooMuch, SleepNumbers
<1>4. ticks \in {RemTicks - 1, RemTicks} /\ ticks \in Nat
  BY <1>2, <1>3, ThereAndBack
<1> HIDE DEF ticks
<1>5. CASE timeout > now
  <2>1. RemTicks = timeout - now
    BY <1>5 DEF RemTicks
  <2>2. ticks + now \in {timeout - 1, timeout}
    BY <1>1, <1>4, <2>1, SleepNumbers
  <2> QED
    BY <1>1, <1>4, <2>2, SleepNumbers DEF ticks
<1>6. CASE ~(timeout > now)
  <2>1. ticks = 0
    BY <1>4, <1>6 DEF RemTicks
  <2>2. now >= timeout /\ timeout >= DueTicks - restarts
    BY <1>1, <1>6, SleepNumbers
  <2>3. now + 0 >= DueTicks - restarts - 1
    BY <1>1, <2>2, SleepNumbers
  <2> QED
    BY <1>1, <2>1, <2>3, SleepNumbers DEF ticks
<1> QED
  BY <1>5, <1>6

\* What both ends of a wait do to the timer: it is off.
LEMMA AfterWaitFacts ==
  ASSUME SleepInv, NEW t, t = AfterWait(timer_fired, timer).timer
  PROVE  /\ t \in [enabled : BOOLEAN, cval : 0 .. (TickWrap - 1)] /\ ~t.enabled
         /\ AfterWait(timer_fired, timer).fired = FALSE
         /\ AfterWait(timer_fired, timer).ret = "0" => timer_fired
<1>1. /\ timer \in [enabled : BOOLEAN, cval : 0 .. (TickWrap - 1)]
      /\ timer_fired \in BOOLEAN
      /\ timer_fired => ~timer.enabled
  BY DEF SleepInv, SleepTypeOK, TimerInv
<1>2. CASE timer_fired
  BY <1>1, <1>2 DEF AfterWait
<1>3. CASE ~timer_fired
  BY <1>1, <1>3 DEF AfterWait, platform_timer_cancel_timeout
<1> QED
  BY <1>2, <1>3

\* A controller without the timer's interrupt, after a wait, is as after none.
LEMMA WaitOverInv ==
  ASSUME SleepInv, WaitOver, NEW g, g = WithTimer(gic, timer', now),
         g.edge = gic'.edge, g.latch = gic'.latch, g.line = gic'.line,
         UNCHANGED isr_table, disp = <<>>, UNCHANGED disp
  PROVE  LineInv' /\ TimerInv'
<1>1. /\ timer_fired' = FALSE /\ ~timer'.enabled
      /\ timeout' = NoTimeout /\ now' = now
  BY AfterWaitFacts DEF WaitOver
<1>2. PLATFORM_TIMER_IRQ \notin g.edge \cup g.latch /\ PLATFORM_TIMER_IRQ \notin g.line
  BY <1>1, NewLine
<1> QED
  BY <1>1, <1>2 DEF SleepInv, LineInv, TimerInv, InIsr

LEMMA EndSleepInv ==
  ASSUME SleepInv, timer_wait_end
  PROVE  SleepInv'
<1> DEFINE ret == AfterWait(timer_fired, timer).ret
           goesOn == ret = "EINTR" /\ told
<1>1. /\ told => timespec_valid(ticks_to_timespec(RemTicks))
      /\ WaitOver /\ LeaveWait
      /\ gic' = WithTimer(gic, timer', now)
      /\ early' = (early \/ (ret = "0" /\ TooEarly(due, restarts)))
      /\ remain' = IF goesOn THEN ticks_to_timespec(RemTicks) ELSE NoTime
      /\ due' = IF goesOn THEN due ELSE 0
      /\ restarts' = IF goesOn THEN restarts ELSE 0
      /\ UNCHANGED failed
  BY DEF timer_wait_end
<1>2. /\ timeout # NoTimeout /\ timeout' = NoTimeout /\ told' = FALSE /\ now' = now
      /\ timer' = AfterWait(timer_fired, timer).timer
      /\ timer_fired' = AfterWait(timer_fired, timer).fired
  BY <1>1 DEF WaitOver
<1>3. /\ pc = "waited" /\ masked' = saved /\ pc' = "app" /\ disp = <<>>
      /\ UNCHANGED <<isr_table, disp, saved, histories>>
  BY <1>1 DEF LeaveWait, SleepInv, IInv, ControlInv, WaitInv
<1>4. /\ timer' \in [enabled : BOOLEAN, cval : 0 .. (TickWrap - 1)]
      /\ timer_fired' = FALSE /\ (ret = "0" => timer_fired)
  BY <1>2, AfterWaitFacts
<1>5. /\ now \in Nat /\ timeout \in Nat /\ due \in Nat /\ restarts \in 0 .. MaxRestarts
      /\ timeout >= DueTicks - restarts /\ early = FALSE /\ DueTicks \in Nat
      /\ TooEarly(due, restarts) <=> now < DueTicks - restarts
  BY <1>2, TimeoutIsDue, SleepNumbers DEF SleepInv, SleepTypeOK, NeverEarly
<1>6. early' = FALSE
  <2>1. ret = "0" => now >= timeout
    BY <1>4 DEF SleepInv, TimerInv
  <2>2. ~(ret = "0" /\ TooEarly(due, restarts))
    BY <1>5, <2>1, SleepNumbers
  <2> QED
    BY <1>1, <1>5, <2>2, Zenon
<1> HIDE DEF ret
<1>7. /\ Configures(gic, gic') /\ gic' \in GicStates
      /\ gic'.enabled = gic.enabled /\ gic'.latch = gic.latch
  BY <1>1, NewLine
<1>8. IInv'
  <2>1. ControlInv'
    BY <1>3, <1>7 DEF SleepInv, IInv, ControlInv, NoNesting, FrameInv, WaitInv,
                      Configures
  <2>2. TypeOK'
    BY <1>3, <1>7 DEF SleepInv, IInv, TypeOK, histories
  <2> QED
    BY <1>3, <1>7, <2>1, <2>2 DEF SleepInv, IInv, QuietStaysDisabled, EdgesAreKept, histories
<1>9. LineInv' /\ TimerInv'
  BY <1>1, <1>3, WaitOverInv
<1>10. remain' = NoTime \/ (goesOn /\ remain' = ticks_to_timespec(RemTicks)
                             /\ timespec_valid(remain'))
  BY <1>1
<1>11. SleepTypeOK'
  <2>1. due' \in Nat /\ restarts' \in 0 .. MaxRestarts
    BY <1>1, <1>5, SleepNumbers
  <2>2. remain' = NoTime \/ timespec_valid(remain)'
    BY <1>10 DEF timespec_valid
  <2>3. /\ now' \in 0 .. MaxTicks
        /\ {timer_fired', told', early'} \subseteq BOOLEAN
        /\ {timeout', failed'} \subseteq {NoTimeout} \cup (0 .. (TickWrap - 1))
    BY <1>1, <1>2, <1>4, <1>6 DEF SleepInv, SleepTypeOK
  <2> QED
    BY <1>4, <1>8, <2>1, <2>2, <2>3 DEF SleepTypeOK, IInv
<1>12. RemainInv'
  <2> SUFFICES ASSUME remain' # NoTime PROVE RemainInv'
    BY DEF RemainInv
  <2>1. goesOn /\ remain' = ticks_to_timespec(RemTicks) /\ timespec_valid(remain')
    BY <1>10
  <2>2. due' = due /\ restarts' = restarts /\ DueTicks' = DueTicks
    BY <1>1, <2>1 DEF DueTicks
  <2>3. timespec_to_ticks(remain)' = timespec_to_ticks(ticks_to_timespec(RemTicks))
    BY <2>1 DEF timespec_to_ticks
  <2> QED
    BY <1>2, <1>3, <2>1, <2>2, <2>3, RemainTold DEF RemainInv
<1>13. RemainingIsExact'
  BY <1>1, <1>2 DEF SleepInv, RemainingIsExact
<1> QED
  BY <1>6, <1>8, <1>9, <1>11, <1>12, <1>13 DEF SleepInv, NeverEarly

LEMMA AssertsSleepInv ==
  ASSUME SleepInv, timer_wait_asserts
  PROVE  SleepInv'
<1> DEFINE g == WithTimer(gic, timer', now)
<1>1. /\ pc = "waited" /\ ~timespec_valid(ticks_to_timespec(RemTicks)) /\ WaitOver
      /\ gic' = platform_irq_disable_all(g)
      /\ masked' = TRUE /\ pc' = "exit" /\ failed' = RemTicks
      /\ remain' = NoTime /\ due' = 0 /\ restarts' = 0
      /\ UNCHANGED <<isr_table, disp, saved, histories, early>>
  BY DEF timer_wait_asserts
<1>2. /\ timeout # NoTimeout /\ timeout' = NoTimeout /\ told' = FALSE /\ now' = now
      /\ timer' = AfterWait(timer_fired, timer).timer
      /\ timer_fired' = AfterWait(timer_fired, timer).fired
  BY <1>1 DEF WaitOver
<1>3. /\ timer' \in [enabled : BOOLEAN, cval : 0 .. (TickWrap - 1)]
      /\ timer_fired' = FALSE
  BY <1>2, AfterWaitFacts
<1>4. /\ Configures(gic, g) /\ g \in GicStates
      /\ g.enabled = gic.enabled /\ g.latch = gic.latch
  BY NewLine
<1>5. g = WithTimer(gic, timer', now)
  OBVIOUS
<1> HIDE DEF g
<1>6. /\ gic' \in GicStates /\ ~gic'.grpen /\ gic'.active = gic.active
      /\ gic'.enabled = gic.enabled /\ gic'.latch = gic.latch
      /\ g.edge = gic'.edge /\ g.latch = gic'.latch /\ g.line = gic'.line
  BY <1>1, <1>4 DEF platform_irq_disable_all, GicStates, Configures
<1>7. disp = <<>>
  BY <1>1 DEF SleepInv, IInv, ControlInv, WaitInv
<1>8. IInv'
  <2>1. ControlInv'
    BY <1>1, <1>6, <1>7 DEF SleepInv, IInv, ControlInv, NoNesting, FrameInv, WaitInv
  <2>2. TypeOK'
    BY <1>1, <1>6 DEF SleepInv, IInv, TypeOK, histories
  <2> QED
    BY <1>1, <1>6, <2>1, <2>2 DEF SleepInv, IInv, QuietStaysDisabled, EdgesAreKept, histories
<1>9. LineInv' /\ TimerInv'
  BY <1>1, <1>5, <1>6, <1>7, WaitOverInv
<1>10. RemTicks \in 0 .. (TickWrap - 1) /\ RemTicks >= Half
  <2>1. /\ now \in Nat /\ timeout \in 0 .. (TickWrap - 1) /\ TickWrap \in Nat \ {0}
    BY <1>2, SleepNumbers DEF SleepInv, SleepTypeOK
  <2>2. RemTicks \in 0 .. (TickWrap - 1)
    BY <2>1 DEF RemTicks
  <2>3. ~(RemTicks < Half)
    BY <1>1, <2>1, <2>2, ThereAndBack
  <2> QED
    BY <2>1, <2>2, <2>3, SleepNumbers
<1>11. SleepTypeOK'
  <2>1. /\ now' \in 0 .. MaxTicks
        /\ {timer_fired', told', early'} \subseteq BOOLEAN
        /\ {timeout', failed'} \subseteq {NoTimeout} \cup (0 .. (TickWrap - 1))
    BY <1>1, <1>2, <1>3, <1>10 DEF SleepInv, SleepTypeOK
  <2>2. due' \in Nat /\ restarts' \in 0 .. MaxRestarts
    BY <1>1, SleepNumbers
  <2> QED
    BY <1>1, <1>3, <1>8, <2>1, <2>2 DEF SleepTypeOK, IInv
<1>12. RemainInv' /\ RemainingIsExact'
  BY <1>1, <1>2, <1>10 DEF RemainInv, RemainingIsExact, Half
<1> QED
  BY <1>1, <1>8, <1>9, <1>11, <1>12 DEF SleepInv, NeverEarly

LEMMA SleepNextInv == SleepInv /\ [SleepNext]_allVars => SleepInv'
<1> SUFFICES ASSUME SleepInv, [SleepNext]_allVars PROVE SleepInv'
  OBVIOUS
<1>1. CASE UNCHANGED allVars
  <2>1. UNCHANGED vars /\ UNCHANGED sleepVars
    BY <1>1 DEF allVars
  <2>2. IInv'
    BY <2>1, NextIInv DEF SleepInv
  <2> QED
    BY <2>1, <2>2
    DEF vars, sleepVars, waitVars, SleepInv, SleepTypeOK, IInv, timespec_valid,
        LineInv, TimerInv, InIsr, RemainInv, timespec_to_ticks, NeverEarly,
        RemainingIsExact, DueTicks
<1> QED
  BY <1>1, InterruptSleepInv, TickSleepInv, IsrSleepInv, SetAndWaitSleepInv,
     EndSleepInv, AssertsSleepInv
  DEF SleepNext

LEMMA SpecSleepInv == SleepSpec => []SleepInv
  BY SleepInitInv, SleepNextInv, PTL DEF SleepSpec

-----------------------------------------------------------------------------
(* The theorems. *)

\* Time, the timer and the wait in progress have their types, however long the
\* counter runs and however often a sleep is interrupted and restarted.
THEOREM SleepTypesCorrect == SleepSpec => []SleepTypeOK
<1>1. SleepInv => SleepTypeOK
  BY DEF SleepInv
<1> QED
  BY <1>1, SpecSleepInv, PTL

\* However a timed wait ends, by its timer, by another interrupt or with the
\* timer expiring while it ends, the timer does not reach the next wait.
THEOREM TimerStaysWithItsWait == SleepSpec => []NoStaleTimer
<1>1. SleepInv => NoStaleTimer
  BY DEF SleepInv, LineInv, TimerInv, NoStaleTimer, IsPending
<1> QED
  BY <1>1, SpecSleepInv, PTL

\* A sleep that returns 0 is short by less than the tick that rounding its time down
\* costs, measured exactly, and a tick for each restart, unless its timeout wraps.
THEOREM SleepsAreNeverEarly == SleepSpec => []NeverEarly
<1>1. SleepInv => NeverEarly
  BY DEF SleepInv
<1> QED
  BY <1>1, SpecSleepInv, PTL

\* What a sleep tells to remain is what is left of it, but for less than a tick and a
\* tick for each restart, and to tell it asserts only for half of the counter's range.
THEOREM RemainingTimeIsExact == SleepSpec => []RemainingIsExact
<1>1. SleepInv => RemainingIsExact
  BY DEF SleepInv
<1> QED
  BY <1>1, SpecSleepInv, PTL

\* With the timer's ISR and the timed waits among its steps the system keeps
\* what Interrupt promises: timer_isr is one more ISR.
THEOREM InterruptsStaySafe ==
  SleepSpec => [](NoNesting /\ RuntimeIsMasked /\ QuietStaysDisabled /\ EdgesAreKept)
<1>1. SleepInv =>
        NoNesting /\ RuntimeIsMasked /\ QuietStaysDisabled /\ EdgesAreKept
  BY DEF SleepInv, IInv, ControlInv, FrameInv, WaitInv, RuntimeIsMasked
<1> QED
  BY <1>1, SpecSleepInv, PTL
=============================================================================
