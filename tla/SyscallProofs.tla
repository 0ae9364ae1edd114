---------------------------- MODULE SyscallProofs ----------------------------
(***************************************************************************)
(* Proofs about the table of file descriptors, for every size of the table, *)
(* and every sequence of calls.                                             *)
(***************************************************************************)
EXTENDS Syscall, WellFoundedInduction, TLAPS

-----------------------------------------------------------------------------
(* Least elements.  bitmap_ffc takes the first clear bit of the first word   *)
(* that has one: that there is one when any bit is clear is a fact about the *)
(* natural numbers.                                                          *)

Less == {pair \in Nat \X Nat : pair[1] < pair[2]}

LEMMA LeastExists ==
  ASSUME NEW S \in SUBSET Nat, S # {}
  PROVE  \E x \in S : \A y \in S : x <= y
<1>1. IsWellFoundedOn(Less, Nat)
  BY NatLessThanWellFounded DEF OpToRel, Less
<1>2. \E x \in S : \A y \in S : ~ (<<y, x>> \in Less)
  BY <1>1, WFMin
<1>3. \A x, y \in Nat : <<y, x>> \in Less <=> y < x
  BY DEF Less
<1>4. \A x, y \in Nat : ~(y < x) => x <= y
  OBVIOUS
<1>5. \A x \in S : x \in Nat
  OBVIOUS
<1> QED
  BY <1>2, <1>3, <1>4, <1>5

-----------------------------------------------------------------------------
(* Bits and words. *)

\* The bits of a word come after those of the words before it.
LEMMA WordsAreOrdered ==
  ASSUME NEW i \in Nat, NEW j \in Nat, i < j, NEW low \in WordBits(i), NEW high \in WordBits(j)
  PROVE  low < high
<1> DEFINE B == BITMAP_WORD_BITS
<1>1. B \in Nat /\ B > 0
  BY SyscallAssumption
<1>2. low \in Int /\ low <= (i + 1) * B - 1 /\ high \in Int /\ j * B <= high
  BY <1>1 DEF WordBits
<1>3. (i + 1) * B <= j * B
  <2>1. j = (i + 1) + (j - (i + 1)) /\ j - (i + 1) \in Nat
    OBVIOUS
  <2>2. (i + 1) * B \in Nat /\ (j - (i + 1)) * B \in Nat
    BY <1>1, <2>1
  <2>3. j * B = (i + 1) * B + (j - (i + 1)) * B
    BY <1>1, <2>1
  <2> QED
    BY <2>2, <2>3
<1>4. (i + 1) * B \in Int /\ j * B \in Int
  BY <1>1
<1> QED
  BY <1>2, <1>3, <1>4

\* Every descriptor has a bit, in a word of the bitmap.
LEMMA FdsAreBits ==
  /\ Words \subseteq Nat /\ Bits \subseteq Nat /\ Fds \subseteq Bits
  /\ \A bit \in Bits : \E i \in Words : bit \in WordBits(i)
<1> DEFINE B == BITMAP_WORD_BITS
<1>1. B \in Nat /\ B > 0 /\ NUM_FDS \in Nat
  BY SyscallAssumption
<1>2. Words \subseteq Nat
  BY DEF Words
<1>3. \A bit \in Bits : \E i \in Words : bit \in WordBits(i)
  BY DEF Bits
<1>4. \A i \in Nat : WordBits(i) \subseteq Nat
  <2> SUFFICES ASSUME NEW i \in Nat, NEW bit \in WordBits(i) PROVE bit \in Nat
    OBVIOUS
  <2>1. i * B \in Nat
    BY <1>1
  <2>2. bit \in Int /\ i * B <= bit
    BY <1>1, <2>1 DEF WordBits
  <2> QED
    BY <2>1, <2>2
<1>5. ASSUME NEW fd \in Fds PROVE fd \in Bits
  <2>1. fd \in Nat /\ fd <= NUM_FDS - 1
    BY <1>1, <1>5 DEF Fds
  <2>2. PICK i \in Nat : i = fd \div B
    BY <1>1, <2>1
  <2>3. i * B <= fd /\ fd < (i + 1) * B
    BY <1>1, <2>1, <2>2
  <2>4. i * B <= fd /\ fd <= (i + 1) * B - 1
    BY <1>1, <2>1, <2>3
  <2>5. fd \in WordBits(i)
    BY <1>1, <2>1, <2>4 DEF WordBits
  <2>6. PICK n \in Int : n = (NUM_FDS + B - 1) \div B
    BY <1>1
  <2>7. n * B <= NUM_FDS + B - 1 /\ NUM_FDS + B - 1 < (n + 1) * B
    BY <1>1, <2>6
  <2>8. i < n
    <3> SUFFICES ASSUME i >= n PROVE FALSE
      OBVIOUS
    <3>1. i = n + (i - n) /\ i - n \in Nat
      OBVIOUS
    <3>2. i * B = n * B + (i - n) * B /\ (i - n) * B \in Nat
      BY <1>1, <3>1
    <3>3. NUM_FDS - 1 < n * B
      BY <1>1, <2>7
    <3> QED
      BY <1>1, <2>1, <2>4, <3>2, <3>3
  <2>9. i \in Words
    BY <2>6, <2>8 DEF Words
  <2> QED
    BY <2>5, <2>9 DEF Bits
<1>6. Bits \subseteq Nat
  BY <1>2, <1>3, <1>4
<1> QED
  BY <1>2, <1>3, <1>5, <1>6

\* The search finds the least descriptor whose bit is clear, when there is one.
LEMMA FreeFdIsLeast ==
  ASSUME NEW fd \in Bits, FreeFd(fd)
  PROVE  fd \in Fds \ fd_alloc /\ \A free \in Fds \ fd_alloc : fd <= free
<1>1. PICK i \in Words :
        /\ \A earlier \in 0 .. i - 1 : ClearBits(earlier) = {}
        /\ fd \in ClearBits(i) /\ \A other \in ClearBits(i) : fd <= other
  BY DEF FreeFd, FirstClear
<1>2. fd \in Nat /\ fd <= NUM_FDS - 1 /\ fd \notin fd_alloc /\ i \in Nat
  BY <1>1, FdsAreBits DEF FreeFd, ClearBits
<1>3. fd \in Fds \ fd_alloc
  BY <1>2, SyscallAssumption DEF Fds
<1>4. ASSUME NEW free \in Fds \ fd_alloc PROVE fd <= free
  <2>1. PICK j \in Words : free \in WordBits(j)
    BY FdsAreBits
  <2>2. j \in Nat /\ free \in ClearBits(j) /\ free \in Nat
    BY <2>1, FdsAreBits DEF ClearBits
  <2>3. ~(j < i)
    BY <1>1, <1>2, <2>2
  <2>4. CASE j = i
    BY <1>1, <2>2, <2>4
  <2>5. CASE i < j
    <3>1. fd \in WordBits(i)
      BY <1>1 DEF ClearBits
    <3>2. fd < free
      BY <1>2, <2>1, <2>2, <2>5, <3>1, WordsAreOrdered
    <3> QED
      BY <1>2, <2>2, <3>2
  <2> QED
    BY <1>2, <2>2, <2>3, <2>4, <2>5
<1> QED
  BY <1>3, <1>4

LEMMA FreeFdIsFound ==
  ASSUME Fds \ fd_alloc # {}
  PROVE  \E fd \in Bits : FreeFd(fd)
<1> DEFINE clear == Bits \ fd_alloc
<1>1. clear # {} /\ clear \subseteq Nat
  BY FdsAreBits
<1>2. PICK fd \in clear : \A other \in clear : fd <= other
  <2> HIDE DEF clear
  <2> QED
    BY <1>1, LeastExists
<1>3. fd \in Nat /\ \A free \in Fds \ fd_alloc : free \in Int /\ fd <= free /\ free <= NUM_FDS - 1
  BY <1>2, FdsAreBits, SyscallAssumption DEF Fds
<1>4. fd <= NUM_FDS - 1
  BY <1>3, SyscallAssumption
<1>5. PICK i \in Words : fd \in WordBits(i)
  BY FdsAreBits
<1>6. i \in Nat
  BY FdsAreBits
<1>7. ASSUME NEW j \in Words PROVE ClearBits(j) \subseteq clear
  BY DEF ClearBits, Bits
<1>8. ASSUME NEW earlier \in 0 .. i - 1 PROVE ClearBits(earlier) = {}
  <2> SUFFICES ASSUME NEW bit \in ClearBits(earlier) PROVE FALSE
    OBVIOUS
  <2>1. earlier \in Nat /\ earlier < i /\ earlier \in Words
    <3>1. PICK n \in Int : n = (NUM_FDS + BITMAP_WORD_BITS - 1) \div BITMAP_WORD_BITS
      BY SyscallAssumption
    <3>2. Words = 0 .. n - 1
      BY <3>1 DEF Words
    <3> QED
      BY <1>5, <1>6, <3>2
  <2>2. bit \in clear /\ bit \in WordBits(earlier)
    BY <1>7, <2>1 DEF ClearBits
  <2>3. bit < fd
    BY <1>5, <1>6, <2>1, <2>2, WordsAreOrdered
  <2> QED
    BY <1>1, <1>2, <1>3, <2>2, <2>3
<1>9. fd \in ClearBits(i) /\ \A other \in ClearBits(i) : fd <= other
  BY <1>2, <1>5, <1>7 DEF ClearBits
<1> QED
  BY <1>2, <1>4, <1>8, <1>9 DEF FreeFd, FirstClear

-----------------------------------------------------------------------------
(* The inductive invariant: DescriptorsAgree, and that only descriptors of   *)
(* the table are open.                                                       *)

IInv ==
  /\ fd_alloc \subseteq Fds
  /\ DOMAIN file_table = Fds
  /\ opened = [fd \in DOMAIN opened |-> opened[fd]]
  /\ DescriptorsAgree

LEMMA FdsAreNat == Fds \subseteq Nat /\ DOMAIN Std \subseteq Fds
<1>1. DOMAIN Std \subseteq {0, 1, 2}
  BY DEF Std, STDIN_FILENO, STDOUT_FILENO, STDERR_FILENO
<1>2. NUM_FDS \in Nat /\ NUM_FDS > 2
  BY SyscallAssumption DEF STDERR_FILENO
<1>3. Fds \subseteq Nat /\ {0, 1, 2} \subseteq Fds
  BY <1>2 DEF Fds
<1> QED
  BY <1>1, <1>3

LEMMA InitIInv == Init => IInv
<1> SUFFICES ASSUME Init PROVE IInv
  OBVIOUS
<1>1. Std = [fd \in DOMAIN Std |-> Std[fd]]
  BY DEF Std
<1>2. fd_alloc = DOMAIN Std /\ opened = Std
      /\ file_table = [fd \in Fds |-> IF fd \in DOMAIN Std THEN Std[fd] ELSE Closed]
  BY DEF Init
<1> QED
  BY <1>1, <1>2, FdsAreNat DEF IInv, DescriptorsAgree

\* Steps that leave the table alone keep the invariant.
LEMMA SameTable ==
  ASSUME IInv, UNCHANGED table
  PROVE  IInv'
  BY DEF IInv, DescriptorsAgree, table

LEMMA OpenIInv ==
  ASSUME IInv, NEW file, NEW accmode, fs_alloc_fd(file, accmode)
  PROVE  IInv'
<1>1. CASE Fails(ENFILE)
  BY <1>1, SameTable DEF Fails, OnlyReturns
<1>2. ASSUME NEW fd \in Bits,
             NEW entry,
             FreeFd(fd),
             fd_alloc' = fd_alloc \cup {fd},
             file_table' = [file_table EXCEPT ![fd] = entry],
             opened' = [open \in DOMAIN opened \cup {fd} |->
                          IF open = fd THEN entry ELSE opened[open]]
      PROVE  IInv'
  <2>0. fd \in Fds
    BY <1>2, FreeFdIsLeast
  <2>1. /\ DOMAIN opened' = DOMAIN opened \cup {fd}
        /\ opened' = [o \in DOMAIN opened' |-> opened'[o]]
        /\ \A o \in DOMAIN opened' : opened'[o] = IF o = fd THEN entry ELSE opened[o]
    BY <1>2, Zenon
  <2>2. DOMAIN file_table' = Fds
    BY <1>2 DEF IInv
  <2>3. DescriptorsAgree'
    BY <1>2, <2>0, <2>1 DEF IInv, DescriptorsAgree
  <2>4. fd_alloc' \subseteq Fds
    BY <1>2, <2>0 DEF IInv
  <2> QED
    BY <2>1, <2>2, <2>3, <2>4 DEF IInv
<1> QED
  BY <1>1, <1>2 DEF fs_alloc_fd

LEMMA CloseIInv ==
  ASSUME IInv, NEW fd \in Args, sys_close(fd)
  PROVE  IInv'
<1>1. CASE Fails(EBADF)
  BY <1>1, SameTable DEF Fails, OnlyReturns
<1>2. CASE /\ fs_lookup_file(fd)
           /\ file_table' = [file_table EXCEPT ![fd] = Closed]
           /\ fd_alloc' = Freed(fd)
           /\ opened' = [open \in DOMAIN opened \ {fd} |-> opened[open]]
  <2>1. /\ DOMAIN opened' = DOMAIN opened \ {fd}
        /\ opened' = [o \in DOMAIN opened' |-> opened'[o]]
        /\ \A o \in DOMAIN opened' : opened'[o] = opened[o]
    BY <1>2
  <2>2. fd_alloc' = fd_alloc \ {fd} /\ DOMAIN file_table' = Fds
    BY <1>2 DEF IInv, Freed
  <2>3. DescriptorsAgree'
    BY <1>2, <2>1, <2>2 DEF IInv, DescriptorsAgree
  <2> QED
    BY <2>1, <2>2, <2>3 DEF IInv
<1> QED
  BY <1>1, <1>2 DEF sys_close

\* Calls on an open file, and what is no system call, leave the table alone.
LEMMA OtherStepsLeaveTable ==
  /\ sys_openat_refused \/ unhandled_syscall \/ other_exception => UNCHANGED table
  /\ \A fd : sys_writev(fd) \/ sys_ioctl(fd) => UNCHANGED table
<1>1. \A errno : Fails(errno) => UNCHANGED table
  BY DEF Fails, OnlyReturns
<1>2. sys_openat_refused \/ unhandled_syscall \/ other_exception => UNCHANGED table
  BY <1>1 DEF sys_openat_refused, unhandled_syscall, other_exception
<1>3. \A fd : sys_writev(fd) => UNCHANGED table
  BY <1>1 DEF sys_writev, OnlyReturns
<1>4. \A new : /\ console_register(new) => UNCHANGED table
               /\ exit_register(new) => UNCHANGED table
  BY <1>1 DEF console_register, exit_register
<1>5. console_deregister \/ exit_deregister => UNCHANGED table
  BY <1>1 DEF console_deregister, exit_deregister
<1>6. \A file : FileIoctl(file) => UNCHANGED table
  BY <1>1, <1>4, <1>5 DEF FileIoctl, OnlyReturns
<1>7. \A fd : sys_ioctl(fd) => UNCHANGED table
  BY <1>1, <1>6 DEF sys_ioctl
<1> QED
  BY <1>2, <1>3, <1>7

LEMMA NextIInv == IInv /\ [Next]_vars => IInv'
<1> SUFFICES ASSUME IInv, [Next]_vars PROVE IInv'
  OBVIOUS
<1>1. CASE UNCHANGED vars
  BY <1>1, SameTable DEF vars, table
<1>2. CASE sys_openat_refused \/ unhandled_syscall \/ other_exception
  BY <1>2, OtherStepsLeaveTable, SameTable
<1>3. ASSUME NEW fd \in Args, sys_writev(fd) \/ sys_ioctl(fd) PROVE IInv'
  BY <1>3, OtherStepsLeaveTable, SameTable
<1> QED
  BY <1>1, <1>2, <1>3, OpenIInv, CloseIInv
  DEF Next, aarch64_do_syscall, implemented_syscall, sys_openat

LEMMA SpecIInv == Spec => []IInv
  BY InitIInv, NextIInv, PTL DEF Spec

-----------------------------------------------------------------------------
(* The theorems. *)

\* The bitmap, the table and the descriptors the application has open agree,
\* for a table of any size.
THEOREM DescriptorsAlwaysAgree == Spec => []DescriptorsAgree
<1>1. IInv => DescriptorsAgree
  BY DEF IInv
<1> QED
  BY <1>1, SpecIInv, PTL

\* sys_openat fails for want of a descriptor only with all of them open, and
\* otherwise returns the least that is not, for the file and access asked for,
\* and changes no other, whatever the number of descriptors and the words of
\* their bitmap.
THEOREM OpeningAlwaysTakesTheLeast == Spec => OpeningTakesTheLeast
<1> DEFINE Opens(file, accmode) ==
             \/ ret' = -ENFILE /\ DOMAIN opened = Fds /\ UNCHANGED table
             \/ /\ ret' \in Fds \ DOMAIN opened
                /\ \A fd \in Fds \ DOMAIN opened : ret' <= fd
                /\ file_table'[ret'] = [file |-> file, flags |-> FlagsOf(accmode)]
                /\ \A fd \in Fds \ {ret'} : file_table'[fd] = file_table[fd]
<1>1. ASSUME IInv, NEW file, NEW accmode, fs_alloc_fd(file, accmode)
      PROVE  Opens(file, accmode)
  <2>1. DOMAIN opened = fd_alloc /\ fd_alloc \subseteq Fds /\ DOMAIN file_table = Fds
    BY <1>1 DEF IInv, DescriptorsAgree
  <2>2. CASE ~(\E fd \in Bits : FreeFd(fd)) /\ Fails(ENFILE)
    <3>1. Fds \ fd_alloc = {}
      BY <2>2, FreeFdIsFound
    <3> QED
      BY <2>1, <2>2, <3>1 DEF Fails, OnlyReturns, Returns
  <2>3. ASSUME NEW fd \in Bits, NEW entry,
               entry = [file |-> file, flags |-> FlagsOf(accmode)],
               FreeFd(fd), file_table' = [file_table EXCEPT ![fd] = entry], Returns(fd)
        PROVE  Opens(file, accmode)
    <3>1. fd \in Fds \ fd_alloc /\ \A free \in Fds \ fd_alloc : fd <= free
      BY <2>3, FreeFdIsLeast
    <3>2. ret' = fd
      BY <2>3 DEF Returns
    <3>3. file_table'[fd] = entry /\ \A other \in Fds \ {fd} : file_table'[other] = file_table[other]
      BY <2>1, <2>3, <3>1
    <3> QED
      BY <2>1, <2>3, <3>1, <3>2, <3>3
  <2> QED
    BY <1>1, <2>2, <2>3 DEF fs_alloc_fd
<1>2. IInv => [\A file \in Devices, accmode \in AccModes :
                 sys_openat(file, accmode) => Opens(file, accmode)]_vars
  BY <1>1 DEF sys_openat
<1> QED
  BY <1>2, SpecIInv, PTL DEF Spec, OpeningTakesTheLeast
=============================================================================
