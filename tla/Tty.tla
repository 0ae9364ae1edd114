---------------------------------- MODULE Tty ----------------------------------
(***************************************************************************)
(* Terminal output: tty_writev (src/src/tty.c) and log_msg (src/src/log.c), *)
(* which give text to the application's console (src/src/console.c) and     *)
(* append it to the log. The console is a callback: while it runs it may    *)
(* itself write, cause a message of the runtime's, set the console's        *)
(* prefix, deregister the console or register one.                          *)
(*                                                                         *)
(* The stack has the calls in progress, the innermost first. Only that one  *)
(* goes on, or, if it has called the console, the application does. The log *)
(* is that of the module Log, which LogBuf implements.                      *)
(***************************************************************************)
EXTENDS Integers, Sequences, SequencesExt

CONSTANTS
  Chars,    \* the characters of texts
  Said,     \* the characters of messages, told apart from those of texts
  Writes,   \* the arrays of texts written
  Messages, \* the messages of log_msg
  Room,     \* the characters of the log that are kept
  MaxDepth  \* bound: calls in progress

NL == "newline"
Stamp == "stamp"

ASSUME TtyAssumption ==
  /\ Writes \subseteq Seq(Seq(Chars)) \ {<<>>}
  /\ Messages \subseteq Seq(Said)
  /\ Chars \cap Said = {} /\ NL \notin Said /\ Stamp \notin Chars \cup Said
  /\ Room \in Nat \ {0} /\ MaxDepth \in Nat \ {0}

VARIABLES
  eol,     \* the static of tty_writev
  console, \* whether a console is registered
  prefix,  \* whether it has a prefix: prefix_len > 0
  stack,   \* the calls in progress
  tail,    \* the log
  by,      \* history: for each character of tail, the depth of the call in
           \* progress that logged it and which of its characters it is
  nested   \* history: some write came from the console

vars == <<eol, console, prefix, stack, tail, by, nested>>

\* A call: where it is; the rest of the text at hand, and the texts after it;
\* and, as history, its whole text, what of it is logged and what shown, and
\* whether there has been a console all along.
Call(at, w) ==
  [at |-> at, head |-> Head(w), vec |-> Tail(w), whole |-> FlattenSeq(w),
   logged |-> <<>>, shown |-> <<>>, seen |-> console]

Init ==
  /\ eol = TRUE
  /\ console = FALSE /\ prefix = FALSE
  /\ stack = <<>>
  /\ tail = <<>> /\ by = <<>> /\ nested = FALSE

\* The log keeps the last characters appended to it.
Kept == INSTANCE Log WITH
  Chars <- {}, Msgs <- {}, Rooms <- {}, EarlyRoom <- Room,
  room <- Room, logged <- <<>>

\* Time stamps, and characters of calls that have returned, are of no call.
NoCall == <<0, 0>>

log_append(text, from) ==
  /\ tail' = Kept!LastOf(Room, tail \o text)
  /\ by' = Kept!LastOf(Room, by \o from)

Top == Head(stack)
OfTop(text) == [k \in DOMAIN text |-> <<Len(stack), Len(Top.logged) + k>>]
Becomes(call) == stack' = <<call>> \o Tail(stack)

\* The application runs: outside the calls here, or as the console.
Callbacks == {"prefix", "text", "message"}
AppRuns == stack # <<>> => Top.at \in Callbacks

-----------------------------------------------------------------------------
(* The application. *)

writev(w) ==
  /\ AppRuns /\ Len(stack) < MaxDepth
  /\ stack' = <<Call("line", w)>> \o stack
  /\ nested' = (nested \/ stack # <<>>)
  /\ UNCHANGED <<eol, console, prefix, tail, by>>

\* log_msg, in a call the runtime has something to say about.
log_msg(msg) ==
  /\ AppRuns /\ Len(stack) < MaxDepth
  /\ stack' = <<Call("say", <<msg>>)>> \o stack
  /\ UNCHANGED <<eol, console, prefix, tail, by, nested>>

\* A call that began with a console and goes on without has not shown it all.
Unseen(calls) == [i \in DOMAIN calls |-> [calls[i] EXCEPT !.seen = FALSE]]

console_register ==
  /\ AppRuns /\ ~console
  /\ console' = TRUE
  /\ UNCHANGED <<eol, prefix, stack, tail, by, nested>>

console_deregister ==
  /\ AppRuns /\ console
  /\ console' = FALSE
  /\ stack' = Unseen(stack)
  /\ UNCHANGED <<eol, prefix, tail, by, nested>>

\* A prefix too long is refused, and the old one is gone.
set_prefix ==
  /\ AppRuns
  /\ prefix' \in BOOLEAN
  /\ UNCHANGED <<eol, console, stack, tail, by, nested>>

\* The console returns to the call that called it.
console_returns ==
  /\ stack # <<>> /\ Top.at \in Callbacks
  /\ Becomes([Top EXCEPT !.at = CASE Top.at = "prefix" -> "begun"
                                  [] Top.at = "text" -> "log"
                                  [] Top.at = "message" -> "log message"])
  /\ UNCHANGED <<eol, console, prefix, tail, by, nested>>

-----------------------------------------------------------------------------
(* tty_writev *)

\* Mutant: a line begins whenever a text does.
IsNewLine_EveryText == TRUE

IsNewLine == eol

\* The time stamp is logged, the prefix given to the console if there are both.
begin_line ==
  /\ stack # <<>> /\ Top.at = "line" /\ IsNewLine
  /\ log_append(<<Stamp>>, <<NoCall>>)
  /\ Becomes([Top EXCEPT !.at = IF console /\ prefix THEN "prefix" ELSE "begun"])
  /\ UNCHANGED <<eol, console, prefix, nested>>

go_on_line ==
  /\ stack # <<>> /\ Top.at = "line" /\ ~IsNewLine
  /\ Becomes([Top EXCEPT !.at = "put"])
  /\ UNCHANGED <<eol, console, prefix, tail, by, nested>>

begun ==
  /\ stack # <<>> /\ Top.at = "begun"
  /\ eol' = FALSE
  /\ Becomes([Top EXCEPT !.at = "put"])
  /\ UNCHANGED <<console, prefix, tail, by, nested>>

\* Mutant: the newline is left for the next piece.
PieceLen_WithoutNewline(text) ==
  IF NL \in ToSet(text) /\ Head(text) # NL
  THEN (CHOOSE i \in DOMAIN text : text[i] = NL /\ \A j \in 1 .. (i - 1) : text[j] # NL) - 1
  ELSE Len(text)

\* A piece is the text up to its first newline, or all of it.
PieceLen(text) ==
  IF NL \in ToSet(text)
  THEN CHOOSE i \in DOMAIN text : text[i] = NL /\ \A j \in 1 .. (i - 1) : text[j] # NL
  ELSE Len(text)

Piece(text) == SubSeq(text, 1, PieceLen(text))

put ==
  /\ stack # <<>> /\ Top.at = "put"
  /\ eol' = (eol \/ NL \in ToSet(Top.head))
  /\ Becomes([Top EXCEPT !.at = IF console THEN "text" ELSE "log",
                         !.shown = @ \o (IF console THEN Piece(Top.head) ELSE <<>>)])
  /\ UNCHANGED <<console, prefix, tail, by, nested>>

\* Mutant: the newline found is stepped over, and a character more.
Rest_PastNewline(text) == SubSeq(text, PieceLen(text) + 2, Len(text))

Rest(text) == SubSeq(text, PieceLen(text) + 1, Len(text))

\* The call after a piece: with the rest of the text, with the next text, or done.
After(call) ==
  IF Rest(call.head) # <<>>
  THEN [call EXCEPT !.at = "line", !.head = Rest(@)]
  ELSE IF call.vec # <<>>
       THEN [call EXCEPT !.at = "line", !.head = Head(call.vec), !.vec = Tail(@)]
       ELSE [call EXCEPT !.at = "done", !.head = <<>>]

\* Mutant: all that remains of the text is logged, not the piece.
log_piece_Remain ==
  /\ stack # <<>> /\ Top.at = "log"
  /\ log_append(Top.head, OfTop(Top.head))
  /\ Becomes(After([Top EXCEPT !.logged = @ \o Piece(Top.head)]))
  /\ UNCHANGED <<eol, console, prefix, nested>>

\* The piece is logged, after whatever the console logged.
log_piece ==
  /\ stack # <<>> /\ Top.at = "log"
  /\ log_append(Piece(Top.head), OfTop(Piece(Top.head)))
  /\ Becomes(After([Top EXCEPT !.logged = @ \o Piece(Top.head)]))
  /\ UNCHANGED <<eol, console, prefix, nested>>

-----------------------------------------------------------------------------
(* log_msg: neither stamped nor, as eol has it, part of a line. *)

say ==
  /\ stack # <<>> /\ Top.at = "say"
  /\ Becomes([Top EXCEPT !.at = IF console THEN "message" ELSE "log message",
                         !.shown = IF console THEN Top.head ELSE <<>>])
  /\ UNCHANGED <<eol, console, prefix, tail, by, nested>>

log_message ==
  /\ stack # <<>> /\ Top.at = "log message"
  /\ log_append(Top.head, OfTop(Top.head))
  /\ Becomes([Top EXCEPT !.at = "done", !.head = <<>>, !.logged = Top.head])
  /\ UNCHANGED <<eol, console, prefix, nested>>

\* Either of them returns to the application.
returns ==
  /\ stack # <<>> /\ Top.at = "done"
  /\ stack' = Tail(stack)
  /\ by' = [k \in DOMAIN by |-> IF by[k][1] = Len(stack) THEN NoCall ELSE by[k]]
  /\ UNCHANGED <<eol, console, prefix, tail, nested>>

Runtime ==
  \/ begin_line \/ go_on_line \/ begun \/ put \/ log_piece
  \/ say \/ log_message \/ returns

Next ==
  \/ \E w \in Writes : writev(w)
  \/ \E msg \in Messages : log_msg(msg)
  \/ console_register \/ console_deregister \/ set_prefix \/ console_returns
  \/ Runtime

Spec == Init /\ [][Next]_vars

-----------------------------------------------------------------------------
(* Properties. *)

\* The j-th character of the log is the next after the i-th that is not one of
\* the runtime's messages.
Follows(text, i, j) ==
  /\ i < j /\ text[i] \notin Said /\ text[j] \notin Said
  /\ \A k \in (i + 1) .. (j - 1) : text[k] \in Said

\* Unless the console itself writes, every line in the log begins with a time
\* stamp and has no other, however texts end or do not end lines, whatever
\* console and prefix are set in between, and whatever the runtime says.
LinesAreStamped ==
  ~nested =>
    \A i, j \in DOMAIN tail :
      Follows(tail, i, j) => (tail[j] = Stamp <=> tail[i] = NL)

\* The log has, of what the call of depth d has logged, the characters in the
\* order of its text, each once, and all but those that made room for later ones.
LogHas(d, text) ==
  LET mine == {k \in DOMAIN tail : by[k][1] = d}
  IN  /\ \A k \in mine : by[k][2] \in DOMAIN text /\ tail[k] = text[by[k][2]]
      /\ \A k, l \in mine : k < l => by[k][2] < by[l][2]
      /\ \A n \in DOMAIN text :
           \/ \E k \in mine : by[k][2] = n
           \/ Len(tail) = Room /\ \A k \in mine : n < by[k][2]

\* What is logged of a call is the beginning of its text, what is left to do is
\* the rest of it, and nothing is left when it returns: the log then has the
\* whole text, as much of it as there is room for, also if the console writes,
\* or is written about, in the middle of it; and a call that had a console all
\* along has shown what it logs.
WritesAreKept ==
  \A i \in DOMAIN stack :
    LET call == stack[i]
    IN  /\ call.logged \o call.head \o FlattenSeq(call.vec) = call.whole
        /\ call.at = "done" => call.logged = call.whole
        /\ LogHas(Len(stack) - i + 1, call.logged)
        /\ call.seen => CASE call.at \in {"line", "done"} -> call.shown = call.logged
                          [] call.at = "log" ->
                               call.shown = call.logged \o Piece(call.head)
                          [] call.at = "log message" -> call.shown = call.head
                          [] OTHER -> TRUE
=============================================================================
