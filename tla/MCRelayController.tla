-------------------------- MODULE MCRelayController -------------------------
(* Constants of RelayController for TLC: one clock unit stands for 5 ms, a *)
(* second for three units.  Word32 lies between the longest phase and the  *)
(* bound on the clock, so a phase can outlive it; Word64 exceeds all times.*)
(* Channels do not influence one another, so one of them is enough.        *)
EXTENDS RelayController

CONSTANT r1

OneRelay == {r1}
=============================================================================
