--------------------------------- MODULE MCTty ---------------------------------
(***************************************************************************)
(* Small instances of Tty: texts with and without a newline, inside and at  *)
(* the end, an empty one, and two texts in one write; a message.            *)
(***************************************************************************)
EXTENDS Tty

MCWrites ==
  {<<<<>>>>, <<<<"a">>>>, <<<<"a", NL>>>>, <<<<"a", NL, "b">>>>,
   <<<<NL>>, <<"a">>>>, <<<<"a">>, <<"b", NL>>>>}
MCChars == {"a", "b", NL}
MCSaid == {"said"}
MCMessages == {<<"said">>}
=============================================================================
