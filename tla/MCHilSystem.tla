----------------------------- MODULE MCHilSystem -----------------------------
(* Two desks, three user actions between them: a command, the command of   *)
(* the other desk that overtakes it, and the change of mode that either    *)
(* needs.  One poll and one command may be under way on a connection.      *)
EXTENDS HilSystem
=============================================================================
