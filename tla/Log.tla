--------------------------------- MODULE Log ---------------------------------
(***************************************************************************)
(* What the log promises to whoever reads the memory it is in, be it after  *)
(* a crash: the last characters logged since the buffer was set, as many    *)
(* as it has room for, in the order they were logged.                       *)
(***************************************************************************)
EXTENDS Integers, Sequences

CONSTANTS Chars, Msgs, Rooms, EarlyRoom

VARIABLES
  room,  \* characters the buffer keeps
  tail,  \* the last characters logged
  logged \* the message logged last

\* The last n elements of s, or all it has.
LastOf(n, s) == SubSeq(s, IF Len(s) > n THEN Len(s) - n + 1 ELSE 1, Len(s))

Init == room = EarlyRoom /\ tail = <<>> /\ logged = <<>>

LogMessage(msg) ==
  /\ logged' = msg
  /\ tail' = LastOf(room, tail \o msg)
  /\ UNCHANGED room

SetBuffer(r) == room' = r /\ tail' = <<>> /\ UNCHANGED logged

Next == (\E msg \in Msgs : LogMessage(msg)) \/ (\E r \in Rooms : SetBuffer(r))

Spec == Init /\ [][Next]_<<room, tail, logged>>
=============================================================================
