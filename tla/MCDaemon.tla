------------------------------ MODULE MCDaemon ------------------------------
(* One relay is enough here: what matters is whether a plan is running     *)
(* when the process shuts down.                                            *)
EXTENDS Daemon

CONSTANT r1

OneRelay == {r1}
=============================================================================
