--------------------------- MODULE MCLineFraming ---------------------------
(* Requests sent as they are, or after a line with nothing but a carriage  *)
(* return.                                                                 *)
EXTENDS LineFraming

SomeBlanks == {<<>>, <<CR, Newline>>}
=============================================================================
