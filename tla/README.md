# Gunyah C runtime: TLA+ models and proofs

The Gunyah C runtime is the piece of software between a bare-metal application
and the Gunyah hypervisor: it sets up the application's environment at boot,
implements a small subset of the Linux AArch64 system calls, takes interrupts
and calls the application's handlers. It runs on one CPU, at the application's
own exception level, on the application's stack. System calls run with
interrupts masked; what makes the runtime hard is what happens when they wait,
when interrupts arrive, and what long sequences of legal calls leave behind in
the allocator, the interrupt controller and the timer.

This directory has TLA+ models of it, the TLC configurations that check them
and the TLAPS proofs of what matters most. Paths are relative to the
repository. `PROJECT.json` lists runs, mutants, hazards and theorems, and maps
each definition to its source lines.

    tlc -config MCMmap.cfg MCMmap         # check a model
    tlapm MmapProofs.tla                  # check the proofs of a module

## The system

| Component | State | Operations | Talks to | What makes it correct |
|---|---|---|---|---|
| Memory allocator (`src/mmap.c`, `mem.c`, `bitmap.c`) | list of heaps, two bitmaps in each, total and allocated sizes, the program break and its top | `brk`, `mmap`, `munmap`, the four `/dev/mem` ioctls | called by system calls; memory donated by the application | no page is given twice or lost, the bitmaps agree, no assertion fails, ENOMEM and statistics are honest |
| Interrupt dispatch and `/dev/irq` (`interrupt.c`, `vectors.S`) | table of ISRs; PSTATE.I | exception entry and exit, the dispatch loop, seven ioctls, `interrupt_wait` | calls ISRs (application code), the GIC driver | never nested, nothing left active, what it disabled stays so, no edge lost, the loop ends |
| GICv3 driver (`gicv3.c`) | the controller's registers | init, enable, disable, assert, clear, trigger, acknowledge, deactivate, disable all | the controller, which devices drive | as above |
| Timed waits (`timer.c`, `syscall.c`, `generic_timer.c`) | the timer's registers, `timer_fired` | `ppoll`, `clock_nanosleep`, the timer's ISR, conversions of times | interrupt dispatch, the counter | never early, the time that remains exact, always returns, no timer left for the next wait |
| System calls and files (`arch/armv8/src/syscall.c`, `fs.c`, `ioctl.c`, `read_write.c`) | descriptor bitmap and table | dispatch, `openat`, `close`, `ioctl`, `writev` | all devices | bitmap, table and the application agree |
| Console and exit devices, panic (`console.c`, `exit_dev.c`, `exit.c`, `panic.c`) | a callback each, the console's prefix | register, deregister, trigger | call the application from inside system calls | nothing runs after exit |
| Log buffer (`log_buf.c`) | a circular buffer, possibly the application's memory | append, set buffer | terminal output, LOG in every component | the newest characters, in order, terminated |
| Terminal output (`tty.c`, `log.c`) | whether the output is at the start of a line | `writev`, `log_msg`, ioctls | console callback, log, timer | one stamp per line, nothing lost or repeated |
| Formatted output (`string_util.c`) | none | `snprint` and its parser | log, terminal | what the placeholders ask for, whole pieces, a true result, inside its buffer |
| String operations (`string.c`, `memcpy.S`, `memset.S`) | none | mem*, str* | everything | the C contracts |
| Boot (`boot.S`, `boot.c`, `auxvec.c`, `reloc.c`, `device_tree.c`) | none afterwards | once, before the application | hands the heap and stack over | initial state of the rest |
| Hypercall bindings (`guest_accessors.c`, `guest_interface.c`, `guest_hypresult.c`) | none; the words of the hypervisor's bit-field types | get, set, copy, set functions, atomic set functions of 67 types; wrappers | the hypervisor | fields are independent, unnamed bits stay as expected, no atomic change is lost |
| Build system (`configure.py`, `tools/`) | - | offline | - | - |

Hard behaviours, by kind: *interleavings* of devices, the application, its ISRs
and waiting system calls; *timeouts* racing interrupts; *liveness* of the
dispatch loop and of waits; *long sequences* of calls on the allocator; *limits*
(last bit of a word, last page of a heap, last descriptor, end of the log
buffer, last register of the GIC); *application code called back* in the middle
of the runtime. There is no other CPU in the runtime and nothing is persistent,
so there is no recovery after a restart; only the hypervisor's bit fields may be
shared with another processor, by their atomic functions; the log buffer is what
is read after a crash. `PROJECT.json` lists the hazards line by line.

## Modules

    PageOwner  <-implements-  Mmap        <-extends-  MCMmap, MmapProofs
                              MmapSearch  <-extends-  MCMmapSearch, MmapSearchProofs
    Gic  <-extends-  Interrupt  <-extends-  MCInterrupt
                     Interrupt  <-extends-  Sleep  <-extends-  MCSleep, InterruptProofs
    Log  <-implements-  LogBuf  <-extends-  MCLogBuf, LogBufProofs
    Log  <-instantiates-  Tty  <-extends-  MCTty, TtyProofs
    FieldRecord  <-implements-  BitField  <-extends-  BitFieldProofs
    BitField, GuestTypes  <-extends-  MCBitField
    Syscall  <-extends-  MCSyscall, SyscallProofs
    Format  <-extends-  Snprint  <-extends-  MCSnprint, SnprintProofs

Each operation of the code is an action with the code's name where there is
one. A *history* variable records what the properties need to remember and no
guard reads it. An operator named `X_Something` after a comment `Mutant:` is a
plausible mistake in `X`: put in the place of `X` it makes the property it
belongs to fail (`PROJECT.json`, "mutants").

### Mmap: the allocator

State in pages; a heap is a record of base and size. `node[h]` has the two
bitmaps as the sets of their set bits: `free_pages` and `avail_blocks`, which
caches which words of the first are not zero. `mmap_node_list` is the list,
`cur_brk`, `brk_top`, `mmap_total_size` and `mmap_alloc_size` the code's
variables. `assert_ok` becomes false when an assertion would fail; `owned` is
the history of the pages the program holds from `mmap`. Arguments are in half
pages, so that alignment, rounding up and overflow are the code's. The actions
are `sys_brk`, `sys_mmap` (from a heap, from the top of the break, or ENOMEM),
`sys_munmap`, and `mem_add_heap`, `mem_remove_heap`, `mem_heap_is_free`;
`allocator_stats` is the fourth ioctl, which changes nothing. The initial state
is the one after boot has added the break's heap. Allocation size and metadata
sizes are the code's formulas over `PageBytes`, `NodeBytes` and `RegBytes`.

`PageOwner` is what the allocator promises without list, bitmaps or metadata:
a page is spare, the program's by `mmap`, or the program's by `brk`.

What the caller owes the allocator is in `Next` and not in the operations, since
the code checks neither part: memory given to `mem_add_heap` overlaps no heap
(`GivesItsOwn`), and of the ranges that lie in a heap a program unmaps only pages
`mmap` gave it, whole allocations or parts of one (`UnmapsItsOwn`). Ranges in no
heap, of length 0, unaligned or wrapping are passed, and refused as the code refuses
them. `AnySpec` is the allocator without the second: a program that unmaps anything,
the break and metadata included. Nothing stops it but munmap's assertion on a page
that is free already (`OnlyDoubleFreeAsserts`); a stray unmapping of other pages
passes, leaves them with two owners and takes `mmap_alloc_size` below zero. Heaps that
overlap are outside the model: a node would be written over what is there.

### MmapSearch: the search

`search_free_mmap_range` and `mmap_range_is_free` step by step, on one heap:
the next word with free pages, the next free page, the check of the run in
chunks that end with a word. `FirstFit` says that the result is the one `Mmap`
assumes (`FirstBit`).

### Gic, Interrupt: the interrupts

`Gic` has the controller as one record (enable, group, trigger, pending latch,
input line, active, CPU interface enable) and every operation of the driver as
a function on it. All interrupts have the same priority and preemption is
disabled, so nothing is signalled while one is active. The registers' width is a
constant (`RegIrqs`), so that the loops that write whole registers do what the
code's do.

`Interrupt` has the control: `pc` is where the application or its waiting system
call is, `disp` the dispatchers entered (a stack, so that nesting is
expressible), `masked` PSTATE.I. Devices raise and lower lines at any time. The
application, its ISRs included, makes every `/dev/irq` ioctl, masks and unmasks,
and exits. A system call that does not wait is one step, since it runs masked;
one that waits has a step for entering it (which masks), for WFI, which may
complete for no reason, for the poll of ISR_EL1 and the dispatch, and for its
return. The dispatch loop has a step for the acknowledge with the call of the
ISR or, when there is none, the disabling; one for the ISR's return; one for disabling an
interrupt that was not handled; and one each for masking and for the end of
the interrupt, in the order of `platform_irq_deactivate`. An ioctl the code refuses
changes nothing and is a stuttering step. The two that read `isr_table` past its
end are `ioctl_past_table`. The message that `sys_exit` logs first, and with it the
console's callback, is not a step of this module. Histories:
`quiet`, the interrupts the dispatcher disabled and nobody enabled since; `owed`,
the edges and asserts no ISR was called for; and `dropped`, those of them that were
acknowledged when there was no ISR: they are lost. Left out: ISRs that wait
(a nested wait shares `timer_fired` and clears active priorities; see the
hazards) and ioctls on the timer's own interrupt.

### Sleep: timed waits

`Sleep` adds the counter (`Tick`, between any two steps), the timer, whose
output is the line of its interrupt, `timer_isr`, and `timer_set_and_wait`: the
call that returns at once, the one that sets the timer and waits, its return, and
the failure of the assertion on the time that remains. Requests and answers are
timespecs, converted as the code does, with a second of `NS_PER_S` nanoseconds
and `timer_freq` ticks; tick counts wrap at `TickWrap` and are taken for signed
numbers where the code does. An application may start a sleep that was
interrupted again with the time it was told remains. Histories: `early`, some
wait returned 0 before it was due, by a tick or more; `due`, when the sleep is over
if a restart is not a new one (the time between a return and the restart does not
count), in exact fractions of a tick and not by the code's conversion;
`restarts`; `failed`, the ticks that remained when the assertion failed.

### LogBuf and Log

`LogBuf` is the circular buffer with its two-part copy; `Log` the promise: the
last `size - 1` characters logged. `Contents` is the refinement mapping: what a
reader finds going back from the terminator.

### Syscall

The dispatch, the descriptor table and the console's and exit's registration.
The descriptors' bitmap is searched as `bitmap_ffc` does, a word of
`BITMAP_WORD_BITS` at a time, the words having bits past the last descriptor. A
system call that is not implemented returns -ENOSYS. The devices' other calls
change the state of the other modules. `opened` is a history, the application's
view of its descriptors.

### Tty: terminal output

`stack` has the calls of `tty_writev` and `log_msg` in progress, innermost
first: the console is application code called in the middle of them, and while
it runs the application may write, cause a message, register or deregister the
console, or set its prefix. A write has a step for the beginning of a line (the
stamp goes to the log, the prefix to the console), for the return from it, which
sets `eol`, for giving a piece to the console and for logging it. `Log` is the
log, which `LogBuf` implements. Of a call, `logged`, `shown`, `whole` and `seen`
are histories, and `by` says for each character of the log which call it is of
and which of its characters, so that `WritesAreKept` speaks of the log itself.
Texts are short, a time stamp is one character, and so is a message of the
runtime's. Texts have an address (the code takes a text at `NULL` for the
prefix). `Chars` are the characters of the application's texts and `Said` those
of the runtime's messages, kept apart so that a property can tell what of the
log is the application's: `LinesAreStamped` is about a character and the next of
its kind (`Follows`).

### GuestTypes, BitField and FieldRecord: the hypervisor's bit fields

`GuestTypes` is data: for each of the 67 types of `guest_accessors.c` the places
of its fields, as the shifts and masks of the getter, of the setter and of the copy
have them, each its own, and the masks and
words of its other functions; and the values of each enumerator. A word is the
set of the positions of its ones, so no operator is recursive. A field is a
function from the bits of its value to bits of the word, which a field of two
pieces (`addrspace_info_area_entry_type`'s) is as well.

`BitField` is the pattern all accessors are made from, on an object of one of
the types of the table `Types`: get, set, copy, the functions of the whole word,
the set functions; and the atomic set functions of threads that share it, as one
instruction (`lse`) or as the loop on a weak compare-and-swap, a load and every
turn of the loop being a step. `made` and `used` are histories: whether the
object comes from calls given valid values, and whether through a difference or
an inverse. `FieldRecord` is what that promises: a record of independent fields,
on which a call takes effect at one moment between call and return. The
refinement mapping reads the fields of the word. Memory order is left out: the
object is one location. `TypesAssumption` says what a row has to be like for the
pattern to work (`WellFormed`): its fields are of different bits of the word,
the functions of a field agree on them, the masks of the whole-word functions
are the union of the fields and its complement, enumerators fit their fields,
and what `_init` stores has the unnamed bits as expected and an enumerator in
each field that has any. TLC evaluates it for the 67 rows of `GuestTypes` when a
run starts: a shift or mask that is off by one is refused there, and `BitField`
is proved for every table that satisfies it.

### Format and Snprint

One call of `snprint`. `Format` has the syntax: the ten stages of a placeholder,
each of which looks at a character, and at the one after or before it. `Snprint`
has the loop: a step for each character or stage of the format, then the copy of
the literal text, then the argument. Characters are strings of length one, the
digits and marks the code tells apart. `itoa` is the bytes it leaves, back to
front until the turn, with the code's unsigned arithmetic (`RegWrap`) and with
`padding` looking at the room only after a byte. An argument is a register: the
number in it, and the string at the address it is, so that a placeholder takes it
for either, and for a string only 0 is none. `OPEN` and `CLOSE` are the braces.

A request has, beside each format, the pieces it was written from: literal
texts, each with the place where it begins, and placeholders between them
(`WrittenFrom`). The steps do not look at the pieces; the properties compare
what was read and written with what they ask for (`AskedNumber` and
`AskedString`, laid out front to back). A malformed format has no pieces, and of
such calls only `OnlyNumbersOverrun` speaks. So it does of formats that are
accepted but not written as `Placeholder` does: with an argument's name before
the colon, spaces before the closing brace, zeros before a width or a precision
of 0; and with a fill character `:`, which the code takes for none. A buffer of
size 0 is left out.

## Runs

| Run | Shows | Bounds |
|---|---|---|
| `mmap` | types; every page accounted for; bitmaps and sizes exact, no assertion fails (`StructuresHold`); statistics true; honest ENOMEM; the break yields last; no heap in use removed; `PageOwner` implemented: for a program that unmaps its own | a break heap of 7 pages over three words and a donated one of up to 4, adjacent to it, in 16 pages: runs across words, stealing all of the break, two heaps with one request between them |
| `mmap_search` | first fit, assertions, termination | every bitmap of up to 10 pages in 3-bit words: runs over up to four words and partial last words |
| `interrupt` | no nesting, one active interrupt at most, runtime masked, what was disabled stays so, no edge lost but those acknowledged when there was no ISR, silence after exit; under fairness the dispatcher's loop ends, and a wait ends | a private and a shared interrupt, two edges or asserts, dispatchers up to 2 deep (nesting would show at 2) |
| `sleep` | no stale timer, never early by a tick, or one more for each restart, the time told to remain exact to a tick for each restart; under fairness a timed wait returns | one device interrupt, a counter of 4 ticks that would wrap at 16, 3 ticks and 4 nanoseconds in a second (so that conversions round), times of 0.75, 2.25, 5.25 and 14.25 ticks (the last wraps, and remains for more than half the range) and two invalid ones, 2 restarts |
| `log` | the buffer implements `Log`; index inside, end marked (`BufferOK`) | every message of up to 5 of two characters, buffers of 3, 4 and 5 |
| `syscall` | bitmap, table and the application's view agree; opening takes the least free descriptor | 5 descriptors in words of 2 bits, so that the last word has a bit past the table; 3 devices |
| `format` | placeholders read as written; output as asked, in whole pieces; cut only when full; a true count; strings never past the end | 22,322 calls: two bases with every placeholder, four values and sizes, the other bases, strings, several placeholders, 13 malformed formats; registers of 10 bits, so that numbers have 1 to 10 digits |
| `tty` | a line in the log has one stamp, at its start; the log has the whole text of a write that returned, each character once and in order, as far as there is room, and the console was given it | six writes of one or two texts, with newlines inside, at the end, alone, and none; calls 2 deep; a log of the last 4 characters, enough to see a newline, a stamp and what follows, and characters making room |
| `bitfield` | the accessors of each type implement `FieldRecord`; whole-word functions agree with the fields; valid objects stay proper: enumerators always, unnamed bits until a difference (which may clear them) or an inverse (which changes them all); under fairness an atomic call returns | every type, with and without the atomic instructions; two calls, alone or by two threads, on four words and with values at the field's bounds and past them: two calls show a lost update and a neighbour changed |
| `driver_comments`, `format_documented`, `flags_sets` | counterexamples: see below | |

The bounds are small where the code's structure repeats (words, heaps,
interrupts, characters) and hold every boundary: a word and a half, the last
bit, a register that is not whole, a buffer that wraps twice. Counters of
events and ticks are bounded in the guards (`MaxEvents`, `MaxTicks`,
`MaxDepth`, `MaxRestarts`, `MaxCalls`); there is no bound on the number of calls of
the allocator, the log, the descriptors and the terminal, whose states are finite.

Deadlock is checked except in `mmap_search` and the `format` runs, which end, and
`syscall`, which stops at a panic, and the two runs of `BitField`, which make a
bounded number of calls.

### What the code does and its comments or documents do not say

`driver_comments` (`DriverIsAsCommented`), whose counterexample is the state after
boot:

* `platform_irq_init` ("Disable all SPIs") writes whole registers only, and
  1020 interrupts do not fill the last one: SPIs 992 to 1019 are left as the
  boot loader had them, and out of group 1.
* `platform_irq_set_trigger` treats interrupt 16, the first PPI, as an SGI: an edge
  trigger is accepted and not set, a level one refused.

`format_documented` (`OutputIsDocumented`), whose counterexample is one call with
`{:<4s}{:#4x}.`, the string `ac` and the number 12c, in a buffer of 16 bytes: it leaves
`  ac      0x12c` and returns 15.

* Strings have left and right exchanged: `string_util.c:341` has padding added to
  the right of what is aligned left, and so do numbers.
* A prefixed number one digit short of its width is padded to the end of the
  buffer: the register dump of a panic asks for `{:#8x}`, so a register of seven
  digits costs the rest of its line.
* `snprint` reports success when a number fills the buffer and more should follow;
  `string_util.h:18` says a result of the size or larger shows that. It does so too
  when the padding on the right of a number is cut.

`flags_sets` (`SetsAreOfFields`), whose counterexample is an object as `_init` makes it:

* `guest_types.h:589` has the difference as that of the boolean fields; the code
  takes that of the whole word, which clears the unnamed bit that
  `addrspace_modify_pages_flags` wants to be 1.
* `guest_types.h:585` has the inverse as that of the boolean fields; the code
  inverts the unnamed bits as well.

Read from the code, and in the models, but not a run of their own:

* An unimplemented system call returns -ENOSYS (`unhandled_syscall`); README.md:85
  says it panics.
* `WritesWhatIsAsked` holds of the code as it is: it has a string's padding on the
  side where the code puts it (`AskedString`), and allows a full buffer with the result OK
  (`full`). `OutputIsDocumented` states what the documentation says.
* The sum of a relative timeout and the counter wraps for times near the largest
  that is valid, and the wait returns 0 at once (`Wraps`); and for 2^63 ticks or
  more that remain the assertion in `ticks_to_timespec` fails (`failed`).
* A console that writes when it is given the prefix finds the line not begun, and
  the line gets two stamps: `LinesAreStamped` excludes writes made by the console.
  What the console writes is logged before the piece it was called with.
* `log_msg` takes the result of `snprint` for the number of characters, which is
  256 for a message that was cut, with the terminator: a NUL is logged.
* The padding on the right of a number does not stop at the end of the buffer, and
  `snprint`'s assertion then fails if the number was centred (`OnlyNumbersOverrun`
  says that nothing else goes past the end; no format in the repository has such
  a number).
* A placeholder without a type is refused, though the header has it optional.
* An ISR that is deregistered while its interrupt is pending costs that edge: the
  dispatcher acknowledges it, disables the interrupt and calls nothing
  (`interrupt.c:98`), and an ISR registered and enabled afterwards does not hear of it
  (`dropped`).
* `IOCTL_ENABLE_IRQ` and its like read `isr_table` at the number they are given
  (`interrupt.c:118`, `:140`): past the table's end the read may fault
  (`ioctl_past_table`).
* `log_set_buffer` does not terminate the new buffer until something is logged,
  while `log_append` ends with "Ensure log is always NULL terminated".
* `GIC_ENABLE_BIT` shifts a 32-bit 1 by the whole interrupt number; compilers for
  AArch64 emit a shift that takes it modulo 32, which is what the model has.

## Fairness

Safety needs none. For the liveness in `interrupt` and `sleep` the CPU executes
(weak fairness of each step of the runtime), an ISR returns, WFI completes when
an interrupt is signalled, and, in `sleep`, time goes on. `MaxEvents` bounds the
edges and asserts, and `DispatcherReturns` relies on that: with edges for ever
the loop would have an interrupt to acknowledge for ever. Beyond that nothing is
assumed of devices, nor of the application, except (`IsrBehaves`) that an ISR
that reports its interrupt handled has quieted the device, and that no ISR
enables an interrupt the dispatcher has disabled: without these two the dispatch
loop need not end, and the code has no defence. A level that is withdrawn need
not end a wait, so `WaitEnds` is about edges and asserts. `TimedWaitReturns`
leaves out timeouts the bounded counter does not reach. In `bitfield` each
thread runs, and a compare-and-swap that can succeed, though weak, does not fail
for ever; the calls being bounded, a thread is not overtaken for ever either,
which the code does not prevent.

## Proofs

`MmapProofs` proves, for all heaps, ranges, lengths, word and page sizes that
satisfy the assumptions in `Mmap`:

* `TypeCorrect`, `PagesAreAccountedFor`, `StructuresAreSound` (bitmaps exact,
  sizes exact, the break's heap listed, no assertion fails), for a program that
  keeps to `UnmapsItsOwn` and `GivesItsOwn`: the inductive invariant `IInv`.
  `PagesAccountedFor` alone is not inductive: whether a step keeps a page in one
  place depends on the bitmaps lying between metadata and the end of their heap,
  on the pages the break lost being in the break's heap, on listed heaps being
  disjoint (which is `GivesItsOwn`), and on the counters being cardinalities
  (without which a subtraction could go below zero). `IInv` has these. TLC
  checked it as an invariant before it was proved; one lemma per operation shows
  that it is kept.
* `HeapLeavesUnused`, `BreakIsLastResort`, `ENOMEMIsHonest`: the action
  properties, from `IInv`.
* `AllocatorImplementsPageOwner`: the refinement; each operation maps to a step
  of `PageOwner` or changes nothing it sees.
* `StrayUnmapsAssertOnlyOnFreePages`, of `AnySpec`: whatever is unmapped, only
  munmap's own assertion fails, on a page free already, and none of a later
  `mmap` or `brk`. Little of `IInv` is left then; `AnyInv` is what the
  allocator's own steps rely on, that the two bitmaps agree and that the break
  lies within its heap.

`MmapSearchProofs` proves, for every word size, heap, bitmap and length, that the
search is a first fit (`SearchIsFirstFit`), which is what `Mmap` takes it for, and
that its assertions hold (`SearchAssertsHold`). The invariant says that no run
starts below the place the search has got to (`NoFitBelow`), that the part of the
run already looked at is free, and that a round starts where the run does or at
the start of a word. The lemmas on words are the arithmetic of `\div` and `%`.

`InterruptProofs` proves the safety properties of `Interrupt` for every number of
interrupts, every bound on events and on the depth of dispatchers, and every
state the boot loader may leave the controller in, as long as no interrupt is
active then (the driver deactivates none): `DispatcherIsNotNested`,
`OnlyTheHandledIsActive`, `RuntimeRunsMasked`, `DisabledStaysDisabled`,
`EdgesReachTheirIsr` and `ExitIsSilent`. `NoNesting` is not inductive: what keeps the
dispatcher from being entered again is PSTATE.I while it acknowledges and ends an
interrupt, the active interrupt from the call of an ISR (which may unmask) until
then, and the CPU interface's enable
after `sys_exit`; `FrameInv` and `WaitInv` say which applies where. The lemmas
on the driver's operations say what each may change of the controller.

`EdgesReachTheirIsr` says that an edge or assert stays latched until its ISR is
called, whatever is retriggered, disabled and registered again; or it was
acknowledged when there was no ISR. Nothing else loses one: only the application's
own clear withdraws it.

It also proves the safety properties of `Sleep`, for every frequency of the
timer up to one tick per nanosecond, every counter that counts two seconds of
nanoseconds before it wraps, and all requests: `TimerStaysWithItsWait`,
`SleepsAreNeverEarly`, `RemainingTimeIsExact`. The invariant, `SleepInv`, adds to
that of `Interrupt` what ties four pieces of state together: the timer is on, or
has fired, only for the wait in progress (`TimerInv`); the line of its interrupt is
its output, its ISR is in no other place of the table (`LineInv`); and the time
told to remain is the time to `due` up to one tick for each restart
(`RemainInv`). The lemmas on the conversions say that to nanoseconds and back loses
less than a tick. `InterruptsStaySafe` says that the invariants of the dispatcher
hold with timed waits among the steps, by the lemmas above, since each step of
`Sleep` keeps their `IInv`.

`LogBufProofs` proves `BufferOK` and that `LogBuf` implements `Log`, for buffers
and messages of every length. What a reader finds is given index by index
(`ContentsAreRead`), so that the two-part copy, the cut of a message longer than the
buffer and the wrap are cases of remainders.

`SyscallProofs` proves, for every number of descriptors and every width of words,
`DescriptorsAgree` and that opening takes the least descriptor that is free, or
fails when none is (`OpeningAlwaysTakesTheLeast`). `FreeFdIsLeast` and `FreeFdIsFound`
are about the search by words: the first word that is not full, and the first
clear bit in it, are the least free descriptor if there is one; a word's bits past
the table make no difference. `LeastExists` is proved from the well-foundedness of
the natural numbers.

`TtyProofs` proves `LinesAreStamped` and `WritesAreKept` for all texts and messages,
any depth of nested calls and any room in the log. `IInv` says of every call in
progress how much of its texts has been logged and shown (`StackInv`). `LogInv`,
kept beside it, is about the log: what each call in progress has logged is there,
each character once and in order, between those of the calls its console made, but
for what made room for later characters. And, unless
the console has written, that only the outermost call is a write, the others being
messages, and that `eol` and the end of the log agree with where that write is
(`LineInv`). That flattened texts lose nothing is proved by induction on
their number.

`BitFieldProofs` proves, for every table of well-formed types and any number of
threads and calls, that the whole word agrees with its fields, that objects stay
proper (`ObjectsStayProper`), and that the accessors implement `FieldRecord`. An
object from `_init`, or cast from a proper word, and given enumerators, has
enumerators for ever; its unnamed bits are as expected until there is a
difference or an inverse, and again after `_clean`; after a difference none is
set that should not be, though one may be cleared. `IInv` adds to types that
only types with set functions, which have no enumerators, have atomic calls in
progress: this is why a union of proper objects is proper, and why what the set
functions do to unnamed bits is all they can do (`SetFunctionsKeep`). The calls
on an object in use by nobody else map to `Alone`, an atomic instruction or a
successful compare-and-swap to `TakeEffect`, the load and a failed swap to
nothing.

`SnprintProofs` proves `SnprintStaysInside` (`OnlyNumbersOverrun`) for every format,
well formed or not, all arguments and all buffers: the room left never wraps below
zero, and a byte past the buffer or the failed assertion comes only from a number
aligned left or centred. `IInv` has three parts. `ParserInv` says that the parser is
inside the format and that a number it is reading is digits from where it began to
where the parser is (`Reading`), without which the width could be any value; each
check of a stage keeps that (`TokenSound`). `OutputInv` says that the text and the
room after it are the buffer but for the terminator's byte. What `itoa` and
`stringtoa` leave fits the room, or the number is padded on its right (`Fits`): what
`gen_str` counts is what was put in, unless the padding wrapped the room, and then
it counts more than there was room for, so that it is the assertion that fails and
not the count that goes wrong. The recursions of `Digits` and `atodec` are shown to
have a solution by induction on numbers, made from `WFMin`.

Three theorems about well-formed formats follow, each by an invariant of its own:

* `SnprintReadsAsWritten` (`ReadAsWritten`). `PieceInv` says where the parser is in
  the pieces. In a placeholder there is a place `b` of the format from which on
  all that is written for this and the later stages comes (`Comes`), and the parser
  is at `b` or in the middle of what this stage reads, with the information that
  the earlier stages give (`Within`, `Partial`). One lemma per stage says that its
  check then moves on through what was written for it or, if nothing was, to the next
  stage (`Moves`, `TokenMoves`): this is where a stage must not take
  a character of a later one for its own, a fill character for an alignment or the
  0 of a width for zero padding. That `atodec` reads back what `Numeral` writes is
  `NumeralAhead`.
* `SnprintWritesWhatIsAsked` and `SnprintCutsOnlyWhenFull`. `TextInv` says that the
  text is the elements before the parser put together, and that when the call comes to
  an end what is left out did not fit (`Settled`). What a step adds is what the
  literal or the placeholder asks for: `itoa`, which builds a number back to front
  in as much room as there is and turns it round, leaves the number as
  `AskedNumber` lays it out front to back, or all of it but some of the padding,
  or reports truncation with no byte to spare (`Delivers`, `ItoaDelivers`); and so
  does `stringtoa`. What padding there is, after the width, the digits, the prefix and
  the sign have been taken from one another in unsigned numbers, is `CountIsBlank`,
  and it is here that `PrefixTooMany` must be excluded.

`StatisticsAreTrue` in `MmapProofs` is about a sum over the list of heaps, defined by
recursion, and the maximum of the free runs. The sum is shown to have one value by
well-founded induction on the finite set of heaps still to be added (`SumIsUnique`),
which is then exhibited: the pages the invariant counts.

### What the proofs assume

The `ASSUME`s of the modules, each evaluated by TLC for the instance of every run,
and nothing else. Those that say something of the system:

* No interrupt is active when the boot loader hands over (`InterruptAssumption`),
  and the controller's interrupts are those it has registers for.
* The timer's interrupt is not pending when the runtime starts (`SleepInit`):
  its line is low, since `platform_timer_init` turns the timer off
  (`generic_timer.c:41`), and its latch is clear, which the runtime does not see to
  and reset does; without it the first wait could be ended by what was there before.
* A program unmaps what it mapped and donates what is its own (`UnmapsItsOwn` and
  `GivesItsOwn` in `Mmap`), in all theorems about the allocator but the one of `AnySpec`.
* The counter does not wrap (`MaxTicks < TickWrap`): it is the number of ticks since
  reset, of 64 bits.
* The application's characters, the runtime's and the stamp are different
  (`TtyAssumption`), which is how the model tells them apart.
* The types are well formed (`TypesAssumption`): the functions of a field agree, and
  what `_init` stores is proper, among the rest; TLC evaluates it for all 67.
* A buffer given to `snprint` is at most half of what there are addresses for
  (`SnprintAssumption`): the runtime's are of 16 and 256 bytes. In a larger one a
  centred number could wrap the count to less than the room. Characters are any set
  with the digits and marks that numbers are written with.
* The pieces beside a format are what it is written from (`PiecesAssumption`), or
  none. It restricts no format and no step: it says what the properties compare with.

### Only model-checked

* Liveness: `SearchEnds`, `DispatcherReturns`, `WaitEnds`, `TimedWaitReturns` and
  `AtomicCallReturns`. Fairness and `ENABLED` are out of the prover's reach.

Every invariant and every action property the passing runs check is a theorem as well.
The two about the text of formatted output leave out calls with a number whose prefix
is more than its padding has room for (`PrefixTooMany`); `format_documented` shows what
becomes of one. `OnlyDoubleFreeAsserts` is a theorem that no run checks: the runs are of
programs that unmap what they mapped.

## Plan

Done, in this order: the allocator with its abstract specification and proofs;
the search, and the interrupt controller, dispatch and waits, with proofs; timed
waits; the log; the system call layer; formatted output; the hypervisor's bit
fields; terminal output; times and restarted sleeps; and then the proofs about
statistics, timed waits, descriptors, the log, terminal output, bit fields and the
bounds of formatted output.

Next: ISRs that wait, with `timer_fired` shared between the waits; and placeholders
written otherwise than `Placeholder` writes them (see Format and Snprint).

## Not modelled

* ISRs that wait: a nested wait shares `timer_fired` and the timer with the outer
  one, clears the active priority of the interrupt being handled
  (`asm_wait_for_interrupt`) and enters the dispatcher again. Nothing in the code
  forbids it and nothing supports it; the models take it that no ISR does.
* The wrappers of the hypercalls and the constructors of their results: straight
  lines of generated code, one per call.
* The byte loops of the string operations, which have no state; `memscpy` is in
  `LogBuf`.
* The intrusive list, a sequence in `Mmap`.
* Boot, relocation, the auxiliary vector and the device tree: run once, in a fixed
  order, before the application; the initial states of the other modules are
  what they leave.
* The build system.

Speculative behaviour, caches and the memory ordering of device accesses are
abstracted: each driver operation waits for its effect.
