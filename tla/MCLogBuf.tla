------------------------------- MODULE MCLogBuf -------------------------------
(* Small instances of LogBuf: every message of up to 5 of two characters, in *)
(* buffers of 4 (the runtime's), 3 and 5.                                    *)
EXTENDS LogBuf

MCMsgs == UNION {[1 .. n -> Chars] : n \in 0 .. 5}
=============================================================================
