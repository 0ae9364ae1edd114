-------------------------------- MODULE Sleep --------------------------------
(***************************************************************************)
(* Timed waits: sys_ppoll with a timeout and sys_clock_nanosleep            *)
(* (src/src/syscall.c), the timer they share (src/src/timer.c) and the      *)
(* generic timer it drives (generic_timer.c), composed with the interrupts  *)
(* of Interrupt: a sleep ends with its timer's interrupt or with any other. *)
(*                                                                          *)
(* Time is a counter of ticks that goes on between any two steps. A tick    *)
(* count wraps at TickWrap, 2^64 in the code; the counter itself does not   *)
(* get that far (MaxTicks). Requests and answers are timespecs; a sleep     *)
(* that was interrupted may be started again with the time that remained.   *)
(***************************************************************************)
EXTENDS Interrupt

CONSTANTS
  TickWrap,  \* 2^64
  NS_PER_S,  \* 10^9
  timer_freq, \* the ticks of a second
  MaxTicks,  \* bound: the counter
  MaxRestarts, \* bound: restarts of one sleep
  Requests   \* the times slept for or until, valid or not

\* The Arm architecture's counter runs at 1 GHz at most, and 2^64 ticks are
\* hundreds of years: timer_init's assertion, that a second can be asked for,
\* follows.
ASSUME SleepAssumption ==
  /\ {TickWrap, NS_PER_S, timer_freq} \subseteq Nat \ {0}
  /\ timer_freq <= NS_PER_S
  /\ TickWrap >= 2 * NS_PER_S
  /\ MaxTicks \in 0 .. (TickWrap - 1) /\ MaxRestarts \in Nat
  /\ Requests \subseteq [sec : Int, nsec : Int]

VARIABLES
  now,         \* CNTVCT
  timer,       \* CNTV_CVAL, and whether CNTV_CTL enables the timer
  timer_fired, \* set by timer_isr
  timeout,     \* of the timed wait in progress; NoTimeout without one
  told,        \* whether that wait is to tell the time that remains
  remain,      \* the time told by the last wait; NoTime without one
  due,         \* history: when the sleep is over, its restarts not counted as new,
               \* in fractions of a tick, of which a tick has NS_PER_S
  restarts,    \* history: restarts of the sleep
  early,       \* history: some timed wait returned 0 before it was due
  failed       \* history: the ticks that remained when timespec_valid failed

NoTimeout == -1
NoTime == [sec |-> -1, nsec |-> 0]

waitVars == <<timeout, told, remain, due, restarts, early, failed>>
sleepVars == <<now, timer, timer_fired, waitVars>>
allVars == <<vars, sleepVars>>

\* platform_timer_init turns the timer off, so that its output is low. The driver
\* clears no latch: the controller comes out of reset without the timer's.
SleepInit ==
  /\ Init
  /\ PLATFORM_TIMER_IRQ \notin gic.line \cup gic.latch
  /\ now = 0
  /\ timer = [enabled |-> FALSE, cval |-> 0]
  /\ timer_fired = FALSE
  /\ timeout = NoTimeout
  /\ told = FALSE /\ remain = NoTime
  /\ due = 0 /\ restarts = 0
  /\ early = FALSE /\ failed = NoTimeout

-----------------------------------------------------------------------------
(* The generic timer. *)

\* The output of the timer, which is the line of its interrupt.
TimerLine(t, ticks) ==
  IF t.enabled /\ ticks >= t.cval THEN {PLATFORM_TIMER_IRQ} ELSE {}

WithTimer(g, t, ticks) ==
  Drive(g, (g.line \ {PLATFORM_TIMER_IRQ}) \cup TimerLine(t, ticks))

\* Mutant: the timer expires a tick early.
platform_timer_set_timeout_Early(ticks) == [enabled |-> TRUE, cval |-> ticks - 1]

\* Mutant: the timer is set but not enabled.
platform_timer_set_timeout_Off(ticks) == [enabled |-> FALSE, cval |-> ticks]

platform_timer_set_timeout(ticks) == [enabled |-> TRUE, cval |-> ticks]

platform_timer_cancel_timeout(t) == [t EXCEPT !.enabled = FALSE]

Tick ==
  /\ now < MaxTicks
  /\ now' = now + 1
  /\ gic' = WithTimer(gic, timer, now')
  /\ due' = IF timeout = NoTimeout /\ remain # NoTime THEN due + NS_PER_S ELSE due
  /\ UNCHANGED <<isr_table, masked, pc, disp, saved, histories,
                 timer, timer_fired, timeout, told, remain, restarts, early, failed>>

-----------------------------------------------------------------------------
(* src/src/timer.c: timespecs *)

\* Set by timer_init, from the largest seconds whose ticks are in range.
timespec_max_sec ==
  LET most == (TickWrap - NS_PER_S) \div timer_freq
      half == TickWrap \div 2
  IN  IF most < half THEN most ELSE half - 1

timespec_valid(ts) ==
  ts.sec \in 0 .. timespec_max_sec /\ ts.nsec \in 0 .. (NS_PER_S - 1)

\* Mutant: to the second only.
timespec_to_ticks_Seconds(ts) == (ts.sec * timer_freq) % TickWrap

\* Rounded down to whole ticks.
timespec_to_ticks(ts) ==
  (ts.sec * timer_freq + (ts.nsec * timer_freq) \div NS_PER_S) % TickWrap

\* C's division, which truncates.
Quotient(a, b) == IF a >= 0 THEN a \div b ELSE -((-a) \div b)

\* Mutant: to the second only.
ticks_to_timespec_Seconds(ticks) == [sec |-> ticks \div timer_freq, nsec |-> 0]

\* The ticks are taken for a signed number.
ticks_to_timespec(ticks) ==
  LET n == IF ticks < TickWrap \div 2 THEN ticks ELSE ticks - TickWrap
      sec == Quotient(n, timer_freq)
  IN  [sec |-> sec,
       nsec |-> Quotient((n - sec * timer_freq) * NS_PER_S, timer_freq)]

-----------------------------------------------------------------------------
(* src/src/timer.c: the waits *)

\* timer_isr, called by the dispatcher: it returns true.
timer_isr ==
  /\ pc # "exit" /\ InIsr /\ isr_table[Head(disp).irq] = "timer_isr"
  /\ timer_fired' = TRUE
  /\ timer' = platform_timer_cancel_timeout(timer)
  /\ gic' = WithTimer(gic, timer', now)
  /\ Advance("end", Head(disp).irq, TRUE)
  /\ UNCHANGED <<isr_table, masked, pc, saved, histories,
                 now, waitVars>>

\* Mutant: the sum does not wrap.
TimeoutOf_NoWrap(relative, req) == IF relative THEN req + now ELSE req

\* The timeout timer_set_and_wait computes.
TimeoutOf(relative, req) ==
  IF relative THEN (req + now) % TickWrap ELSE req

\* Whether the sum wraps, to a time that has passed.
Wraps(relative, req) == relative /\ req + now >= TickWrap

\* The calls of timer_set_and_wait: only sys_clock_nanosleep's relative sleep is
\* given a place for the time that remains.
Calls ==
  {call \in [relative : BOOLEAN, req : Requests, told : BOOLEAN] :
     call.told => call.relative}

\* A time in fractions of a tick, exactly.
Fractions(ts) == (ts.sec * NS_PER_S + ts.nsec) * timer_freq

\* A call that is a sleep of its own, and one that goes on with an earlier sleep.
Afresh(call) ==
  /\ due' = Fractions(call.req) + (IF call.relative THEN now * NS_PER_S ELSE 0)
  /\ restarts' = 0

\* A tick or more, and another for each restart, before the sleep is over.
TooEarly(until, times) == (now + times + 1) * NS_PER_S <= until

GoesOn(call) ==
  /\ remain # NoTime /\ restarts < MaxRestarts
  /\ call = [relative |-> TRUE, req |-> remain, told |-> TRUE]
  /\ restarts' = restarts + 1
  /\ due' = due

\* The timeout has passed already: the call returns 0 at once.
timer_wait_past(call) ==
  LET ticks == timespec_to_ticks(call.req)
  IN  /\ pc = "app" /\ disp = <<>>
      /\ timespec_valid(call.req)
      /\ TimeoutOf(call.relative, ticks) <= now
      /\ early' = (early \/ (TooEarly(due', restarts') /\ ~Wraps(call.relative, ticks)))
      /\ remain' = NoTime
      /\ UNCHANGED <<vars, now, timer, timer_fired, timeout, told, failed>>

\* It has not: the timer is set, and the call waits.
timer_wait_begin(call) ==
  LET ticks == timespec_to_ticks(call.req)
  IN  /\ EnterWait
      /\ timespec_valid(call.req)
      /\ TimeoutOf(call.relative, ticks) > now
      /\ timeout' = TimeoutOf(call.relative, ticks)
      /\ told' = call.told
      /\ timer' = platform_timer_set_timeout(timeout')
      /\ gic' = WithTimer(gic, timer', now)
      /\ remain' = NoTime
      /\ UNCHANGED <<now, timer_fired, early, failed>>

timer_set_and_wait ==
  \E call \in Calls \cup [relative : {TRUE}, req : {remain}, told : {TRUE}] :
    /\ (call.req \in Requests /\ Afresh(call)) \/ GoesOn(call)
    /\ timer_wait_past(call) \/ timer_wait_begin(call)

\* Mutant: -EINTR leaves the timer on.
AfterWait_TimerLeftOn(fired, t) ==
  IF fired THEN [ret |-> "0", fired |-> FALSE, timer |-> t]
  ELSE [ret |-> "EINTR", fired |-> fired, timer |-> t]

\* Mutant: timer_fired is not reset.
AfterWait_NotReset(fired, t) ==
  IF fired THEN [ret |-> "0", fired |-> TRUE, timer |-> t]
  ELSE [ret |-> "EINTR", fired |-> fired,
        timer |-> platform_timer_cancel_timeout(t)]

\* After interrupt_wait: 0 if the timer fired, else -EINTR with the timer off.
AfterWait(fired, t) ==
  IF fired THEN [ret |-> "0", fired |-> FALSE, timer |-> t]
  ELSE [ret |-> "EINTR", fired |-> fired,
        timer |-> platform_timer_cancel_timeout(t)]

\* The time that remains is converted if the caller asks for it.
RemTicks == IF timeout > now THEN timeout - now ELSE 0

WaitOver ==
  /\ timeout # NoTimeout
  /\ timer_fired' = AfterWait(timer_fired, timer).fired
  /\ timer' = AfterWait(timer_fired, timer).timer
  /\ timeout' = NoTimeout /\ told' = FALSE
  /\ UNCHANGED now

timer_wait_end ==
  LET ret == AfterWait(timer_fired, timer).ret
      goesOn == ret = "EINTR" /\ told
  IN  /\ told => timespec_valid(ticks_to_timespec(RemTicks))
      /\ WaitOver /\ LeaveWait
      /\ gic' = WithTimer(gic, timer', now)
      /\ early' = (early \/ (ret = "0" /\ TooEarly(due, restarts)))
      /\ remain' = IF goesOn THEN ticks_to_timespec(RemTicks) ELSE NoTime
      /\ due' = IF goesOn THEN due ELSE 0
      /\ restarts' = IF goesOn THEN restarts ELSE 0
      /\ UNCHANGED failed

\* The assertion that the time converted is valid fails: the runtime panics, and
\* exits.
timer_wait_asserts ==
  /\ pc = "waited"
  /\ told /\ ~timespec_valid(ticks_to_timespec(RemTicks))
  /\ WaitOver
  /\ gic' = platform_irq_disable_all(WithTimer(gic, timer', now))
  /\ masked' = TRUE /\ pc' = "exit"
  /\ failed' = RemTicks
  /\ remain' = NoTime /\ due' = 0 /\ restarts' = 0
  /\ UNCHANGED <<isr_table, disp, saved, histories, early>>

-----------------------------------------------------------------------------

\* The steps of Interrupt, but the return of the untimed wait.
InterruptNext ==
  /\ \/ Devices \/ App \/ sys_ppoll \/ WfiCompletes \/ interrupt_wait
     \/ TakeIrq \/ Dispatch \/ \E handled \in BOOLEAN : IsrReturns(handled)
     \/ timeout = NoTimeout /\ ppoll_returns
  /\ UNCHANGED sleepVars

SleepNext ==
  \/ InterruptNext
  \/ Tick
  \/ timer_isr
  \/ timer_set_and_wait
  \/ timer_wait_end
  \/ timer_wait_asserts

SleepSpec == SleepInit /\ [][SleepNext]_allVars

\* Time goes on, the CPU executes, ISRs behave and return.
SleepFairness ==
  /\ WF_allVars(Tick)
  /\ WF_allVars(Dispatch /\ UNCHANGED sleepVars)
  /\ WF_allVars((\E handled \in BOOLEAN : IsrReturns(handled))
                /\ UNCHANGED sleepVars)
  /\ WF_allVars(timer_isr)
  /\ WF_allVars(WfiCompletes /\ Deliverable(gic) # {} /\ UNCHANGED sleepVars)
  /\ WF_allVars(interrupt_wait /\ UNCHANGED sleepVars)
  /\ WF_allVars(timer_wait_end \/ timer_wait_asserts)

FairSleepSpec ==
  SleepInit /\ [][SleepNext /\ IsrBehaves]_allVars /\ SleepFairness

-----------------------------------------------------------------------------
(* Properties. *)

\* The types of the variables.
SleepTypeOK ==
  /\ TypeOK
  /\ now \in 0 .. MaxTicks
  /\ timer \in [enabled : BOOLEAN, cval : 0 .. (TickWrap - 1)]
  /\ {timer_fired, told, early} \subseteq BOOLEAN
  /\ {timeout, failed} \subseteq {NoTimeout} \cup (0 .. (TickWrap - 1))
  /\ remain = NoTime \/ timespec_valid(remain)
  /\ due \in Nat /\ restarts \in 0 .. MaxRestarts

\* The timer of one wait does not reach the next: outside a timed wait the timer
\* is off, its interrupt is not pending and timer_fired is clear, whatever ended
\* the wait and however late the timer expired.
NoStaleTimer ==
  timeout = NoTimeout =>
    /\ ~timer.enabled /\ ~timer_fired
    /\ ~IsPending(gic, PLATFORM_TIMER_IRQ)

\* A timed wait that returns 0, not -EINTR, has waited for as long as asked but for
\* less than a tick, the fraction that timespec_to_ticks cuts off; a sleep restarted
\* with the time that remained whenever it was interrupted, but for less than a tick
\* more for each restart. The exception is a timeout that wraps.
NeverEarly == ~early

\* The time told to remain is what is left of the sleep: restarted with it, the
\* sleep ends when it was to end at first, measured exactly, not later, and earlier
\* by less than a tick and a tick for each restart. To tell it fails an assertion
\* only for half of the range of ticks or more.
RemainingIsExact ==
  /\ timeout # NoTimeout =>
       timeout * NS_PER_S <= due /\ due < (timeout + restarts + 1) * NS_PER_S
  /\ failed # NoTimeout => failed >= TickWrap \div 2

\* A timed wait returns, if only by its timer: no path leaves the timer off or
\* its interrupt disabled, active or masked in the controller. The exception is
\* a timeout the bounded counter does not reach.
TimedWaitReturns ==
  (timeout # NoTimeout /\ timeout <= MaxTicks) ~>
    (timeout = NoTimeout \/ pc = "exit")

=============================================================================
