------------------------------- MODULE Syscall -------------------------------
(***************************************************************************)
(* The system call layer: the synchronous exception vector and the dispatch *)
(* on the call's number (vectors.S, arch/armv8/src/syscall.c), the table of *)
(* file descriptors (src/src/fs.c), sys_ioctl and sys_writev, which go      *)
(* through it (ioctl.c, read_write.c), and the two devices whose state is   *)
(* one registered callback, the console and exit (console.c, exit_dev.c).   *)
(* The calls on the other devices change the state of Mmap, Interrupt and   *)
(* Tty; here they leave everything alone and only return.                   *)
(***************************************************************************)
EXTENDS Integers, FiniteSets

CONSTANTS
  NUM_FDS,    \* 32
  BITMAP_WORD_BITS,  \* 64
  Devices,    \* the device paths opened
  AccModes,   \* the access modes opened with
  Callbacks   \* the application's console and exit functions

STDIN_FILENO == 0
STDOUT_FILENO == 1
STDERR_FILENO == 2

ENOENT == 2
E2BIG  == 7
EBADF  == 9
ENOMEM == 12
EBUSY  == 16
EINVAL == 22
ENFILE == 23
ENOSYS == 38

NULL == "NULL"

ASSUME SyscallAssumption ==
  /\ NUM_FDS \in Nat /\ NUM_FDS > STDERR_FILENO
  /\ BITMAP_WORD_BITS \in Nat \ {0}
  /\ Devices \subseteq {"irq", "console", "exit", "mem"}
  /\ AccModes \subseteq {"O_RDONLY", "O_WRONLY", "O_RDWR", "3"}
  /\ NULL \notin Callbacks

VARIABLES
  fd_alloc,    \* the bits that are set in the bitmap of descriptors
  file_table,  \* what each descriptor is for
  console,     \* the console's callback
  exit_func,   \* exit's callback
  panicked,    \* panic() was called
  ret,         \* what the last system call returned
  opened       \* history: the descriptors opened, or there at boot, not closed

vars == <<fd_alloc, file_table, console, exit_func, panicked, ret, opened>>

Fds == 0 .. (NUM_FDS - 1)
Args == 0 .. NUM_FDS   \* the descriptors passed: one is out of range

\* The bitmap is made of whole words, so it may have bits past the descriptors.
Words == 0 .. (NUM_FDS + BITMAP_WORD_BITS - 1) \div BITMAP_WORD_BITS - 1
WordBits(i) == i * BITMAP_WORD_BITS .. (i + 1) * BITMAP_WORD_BITS - 1
Bits == UNION {WordBits(i) : i \in Words}

Closed == [file |-> NULL, flags |-> {}]

\* fs_init
Std ==
  [fd \in {STDIN_FILENO, STDOUT_FILENO, STDERR_FILENO} |->
     IF fd = STDIN_FILENO THEN [file |-> "ttyin", flags |-> {"FS_READ"}]
                          ELSE [file |-> "ttyout", flags |-> {"FS_WRITE"}]]

Init ==
  /\ fd_alloc = DOMAIN Std
  /\ file_table = [fd \in Fds |-> IF fd \in DOMAIN Std THEN Std[fd] ELSE Closed]
  /\ console = NULL /\ exit_func = NULL
  /\ panicked = FALSE
  /\ ret = 0
  /\ opened = Std

Returns(value) == ret' = value /\ UNCHANGED panicked

devices == <<console, exit_func>>
table == <<fd_alloc, file_table, opened>>

OnlyReturns(value) == Returns(value) /\ UNCHANGED <<table, devices>>

Fails(errno) == OnlyReturns(-errno)

-----------------------------------------------------------------------------
(* Descriptors. *)

FlagsOf(accmode) ==
  (IF accmode \in {"O_RDONLY", "O_RDWR"} THEN {"FS_READ"} ELSE {})
  \cup (IF accmode \in {"O_WRONLY", "O_RDWR"} THEN {"FS_WRITE"} ELSE {})

ClearBits(i) == WordBits(i) \ fd_alloc

\* bit is the first clear bit of the first word that has one.
FirstClear(bit) ==
  \E i \in Words :
    /\ \A earlier \in 0 .. i - 1 : ClearBits(earlier) = {}
    /\ bit \in ClearBits(i) /\ \A other \in ClearBits(i) : bit <= other

\* Mutant: the end of the search is not checked in the word it ends in.
FreeFd_PastEnd(bit) == FirstClear(bit)

\* bitmap_ffc from 0 to NUM_FDS - 1, that bit included.
FreeFd(bit) == FirstClear(bit) /\ bit <= NUM_FDS - 1

fs_alloc_fd(file, accmode) ==
  \/ ~(\E fd \in Bits : FreeFd(fd)) /\ Fails(ENFILE)
  \/ \E fd \in Bits :
       LET entry == [file |-> file, flags |-> FlagsOf(accmode)]
       IN  /\ FreeFd(fd)
           /\ fd_alloc' = fd_alloc \cup {fd}
           /\ file_table' = [file_table EXCEPT ![fd] = entry]
           /\ opened' = [open \in DOMAIN opened \cup {fd} |->
                           IF open = fd THEN entry ELSE opened[open]]
           /\ Returns(fd)
           /\ UNCHANGED devices

\* sys_openat of a device, or with a directory, flags, mode or path it refuses.
sys_openat(file, accmode) == fs_alloc_fd(file, accmode)

sys_openat_refused == \E errno \in {EINVAL, ENOENT} : Fails(errno)

fs_lookup_file(fd) == fd < NUM_FDS /\ file_table[fd].file # NULL

\* Mutant: the descriptor is not freed.
Freed_Not(fd) == fd_alloc

Freed(fd) == fd_alloc \ {fd}

sys_close(fd) ==
  \/ ~fs_lookup_file(fd) /\ Fails(EBADF)
  \/ /\ fs_lookup_file(fd)
     /\ file_table' = [file_table EXCEPT ![fd] = Closed]
     /\ fd_alloc' = Freed(fd)
     /\ opened' = [open \in DOMAIN opened \ {fd} |-> opened[open]]
     /\ Returns(0)
     /\ UNCHANGED devices

-----------------------------------------------------------------------------
(* Calls on an open file. *)

\* Mutant: any open descriptor may be written to.
MayWrite_Any(fd) == fs_lookup_file(fd)

MayWrite(fd) == fs_lookup_file(fd) /\ "FS_WRITE" \in file_table[fd].flags

\* sys_writev: of the files only ttyout can be written. tty_writev returns the
\* number of characters, 1 here.
sys_writev(fd) ==
  \/ ~MayWrite(fd) /\ Fails(EBADF)
  \/ /\ MayWrite(fd)
     /\ IF file_table[fd].file = "ttyout"
        THEN OnlyReturns(1)
        ELSE Fails(EINVAL)

\* The console's and exit's register and deregister. exit refuses NULL, which
\* the console accepts.
console_register(new) ==
  IF console # NULL THEN Fails(EBUSY)
  ELSE console' = new /\ Returns(0) /\ UNCHANGED <<table, exit_func>>

console_deregister ==
  IF console = NULL THEN Fails(ENOENT)
  ELSE console' = NULL /\ Returns(0) /\ UNCHANGED <<table, exit_func>>

exit_register(new) ==
  IF exit_func # NULL THEN Fails(EBUSY)
  ELSE IF new = NULL THEN Fails(EINVAL)
  ELSE exit_func' = new /\ Returns(0) /\ UNCHANGED <<table, console>>

exit_deregister ==
  IF exit_func = NULL THEN Fails(ENOENT)
  ELSE exit_func' = NULL /\ Returns(0) /\ UNCHANGED <<table, console>>

\* The error of a file's ioctl for a command it does not know.
UnknownCommand(file) ==
  IF file \in {"ttyin", "ttyout", "mem"} THEN EINVAL ELSE ENOSYS

\* What the commands of a file return that leave the state of this module alone:
\* those on interrupts (modelled in Interrupt), heaps (Mmap), the prefix of the
\* console (Tty; it may be too long), and the terminal's.
Results(file) ==
  CASE file = "irq" -> {0, -EINVAL, -EBUSY, -ENOENT}
    [] file = "mem" -> {0, -EINVAL, -EBUSY, -ENOMEM}
    [] file = "console" -> {0, -E2BIG}
    [] file \in {"ttyin", "ttyout"} -> {0}
    [] file = "exit" -> {}

FileIoctl(file) ==
  \/ Fails(UnknownCommand(file))
  \/ \E value \in Results(file) : OnlyReturns(value)
  \/ /\ file = "console"
     /\ \/ \E new \in Callbacks \cup {NULL} : console_register(new)
        \/ console_deregister
  \/ /\ file = "exit"
     /\ \/ \E new \in Callbacks \cup {NULL} : exit_register(new)
        \/ exit_deregister

sys_ioctl(fd) ==
  \/ ~fs_lookup_file(fd) /\ Fails(EBADF)
  \/ fs_lookup_file(fd) /\ FileIoctl(file_table[fd].file)

-----------------------------------------------------------------------------
(* Exceptions. *)

\* The default of the dispatch: a number without a system call.
unhandled_syscall == Fails(ENOSYS)

\* Other exceptions: the trap frame is dumped, and panic() exits.
other_exception ==
  /\ panicked' = TRUE
  /\ UNCHANGED <<table, devices, ret>>

implemented_syscall ==
  \/ \E file \in Devices, accmode \in AccModes : sys_openat(file, accmode)
  \/ sys_openat_refused
  \/ \E fd \in Args : sys_close(fd) \/ sys_writev(fd) \/ sys_ioctl(fd)

aarch64_do_syscall == implemented_syscall \/ unhandled_syscall

Next == ~panicked /\ (aarch64_do_syscall \/ other_exception)

Spec == Init /\ [][Next]_vars

-----------------------------------------------------------------------------
(* Properties. *)

\* A descriptor is allocated exactly while it is open, and names the file it was
\* opened for, with its flags, until it is closed: the bitmap, the table and the
\* application's view agree however descriptors, the standard ones too, are
\* closed and used again.
DescriptorsAgree ==
  /\ fd_alloc = DOMAIN opened
  /\ \A fd \in Fds :
       file_table[fd] = IF fd \in DOMAIN opened THEN opened[fd] ELSE Closed

\* Opening fails for want of a descriptor only with all of them open, and then
\* changes nothing. Otherwise it returns the least that was not open, never one
\* past the table however many bits the bitmap has; that one is for the file,
\* with the access asked for, and the others are for what they were.
OpeningTakesTheLeast ==
  [][\A file \in Devices, accmode \in AccModes : sys_openat(file, accmode) =>
       \/ ret' = -ENFILE /\ DOMAIN opened = Fds /\ UNCHANGED table
       \/ /\ ret' \in Fds \ DOMAIN opened
          /\ \A fd \in Fds \ DOMAIN opened : ret' <= fd
          /\ file_table'[ret'] = [file |-> file, flags |-> FlagsOf(accmode)]
          /\ \A fd \in Fds \ {ret'} : file_table'[fd] = file_table[fd]]_vars
=============================================================================
