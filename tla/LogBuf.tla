-------------------------------- MODULE LogBuf --------------------------------
(***************************************************************************)
(* The log buffer (src/src/log_buf.c): a circular buffer of characters in   *)
(* memory, the runtime's own at boot and one of the application's after     *)
(* TIOCSETBUF.  log_append and log_set_buffer run with interrupts masked    *)
(* and are one step each.                                                   *)
(***************************************************************************)
EXTENDS Integers, Sequences, FiniteSetsExt

CONSTANTS
  Chars,      \* the characters of messages
  Msgs,       \* the messages logged
  EARLY_SIZE, \* the size of the runtime's own buffer
  Sizes       \* the sizes of the application's buffers

NUL == "NUL"
Junk == "junk"

ASSUME LogBufAssumption ==
  /\ NUL \notin Chars /\ Junk \notin Chars
  /\ Msgs \subseteq Seq(Chars)
  /\ EARLY_SIZE \in Nat /\ EARLY_SIZE > 1
  /\ \A s \in Sizes : s \in Nat /\ s > 1

VARIABLES
  size, write_idx, buffer,  \* of *log_buf
  stored,                   \* history: characters of the log in the buffer
  logged                    \* history: the message logged last

vars == <<size, write_idx, buffer, stored, logged>>

Init ==
  /\ size = EARLY_SIZE
  /\ write_idx = 0
  /\ buffer = [i \in 0 .. (EARLY_SIZE - 1) |-> NUL]
  /\ stored = 0
  /\ logged = <<>>

\* The application's memory has anything in it, and the buffer keeps it.
log_set_buffer(new_size) ==
  /\ size' = new_size
  /\ write_idx' = 0
  /\ \E cell \in {NUL, Junk} : buffer' = [i \in 0 .. (new_size - 1) |-> cell]
  /\ stored' = 0
  /\ UNCHANGED logged

\* Mutant: a message as long as the buffer is not cut.
Checked_Longer(msg) ==
  IF Len(msg) > size THEN SubSeq(msg, Len(msg) - size + 1, Len(msg)) ELSE msg

\* Mutant: the start of a long message is kept, not its end.
Checked_Head(msg) == IF Len(msg) >= size THEN SubSeq(msg, 1, size - 1) ELSE msg

\* What is logged of msg: its end, if it is too long.
Checked(msg) ==
  IF Len(msg) >= size THEN SubSeq(msg, Len(msg) - size + 2, Len(msg)) ELSE msg

\* memscpy of msg to where buf has room until its end; and how much it copies.
CopyLen(at, msg) == Min({size - at, Len(msg)})

memscpy(buf, at, msg) ==
  [i \in DOMAIN buf |->
     IF i \in at .. (at + CopyLen(at, msg) - 1) THEN msg[i - at + 1] ELSE buf[i]]

\* Mutant: the index goes one past the end.
Wrap_TooLate(i) == IF i > size THEN i - size ELSE i

Wrap(i) == IF i >= size THEN i - size ELSE i

\* Mutant: what does not fit before the end is not copied to the start.
Copied_Once(msg) == memscpy(buffer, write_idx, msg)

\* Both parts of msg copied to the buffer.
Copied(msg) ==
  LET first_len == CopyLen(write_idx, msg)
  IN  memscpy(memscpy(buffer, write_idx, msg), 0,
              SubSeq(msg, first_len + 1, Len(msg)))

\* Mutant: the end of the log is not marked.
Terminate_Not(buf, i) == buf

\* "Ensure log is always NULL terminated."
Terminate(buf, i) == [buf EXCEPT ![i] = NUL]

log_append(msg) ==
  LET checked == Checked(msg)
  IN  /\ write_idx' = Wrap(write_idx + Len(checked))
      /\ buffer' = Terminate(Copied(checked), write_idx')
      /\ stored' = Min({stored + Len(checked), size - 1})
      /\ logged' = msg
      /\ UNCHANGED size

Next ==
  \/ \E msg \in Msgs : log_append(msg)
  \/ \E new_size \in Sizes : log_set_buffer(new_size)

Spec == Init /\ [][Next]_vars

-----------------------------------------------------------------------------
(* Properties. *)

\* The types of the variables, the buffer's included, whatever its memory held:
\* write_idx stays inside it, and a log with something in it ends at a NUL,
\* wherever the writes have wrapped.
BufferOK ==
  /\ size \in {EARLY_SIZE} \cup Sizes
  /\ write_idx \in 0 .. (size - 1)
  /\ buffer \in [0 .. (size - 1) -> Chars \cup {NUL, Junk}]
  /\ stored \in 0 .. (size - 1)
  /\ logged \in Msgs \cup {<<>>}
  /\ stored > 0 => buffer[write_idx] = NUL

\* What a reader finds going back from the end: the log's characters.
Contents ==
  [k \in 1 .. stored |-> buffer[(write_idx - stored + k - 1) % size]]

Rooms == {s - 1 : s \in Sizes}
Kept == INSTANCE Log WITH EarlyRoom <- EARLY_SIZE - 1, room <- size - 1,
                          tail <- Contents

\* The buffer implements Log: it has the last size - 1 characters logged, in
\* order, however messages are cut, split at the end of the buffer and wrapped.
ImplementsLog == Kept!Spec
=============================================================================
