---------------------------- MODULE MCSecureLink ----------------------------
(* The daemon's address and another one; three ends of the daemon, so that *)
(* it may be stopped while it generates, while it generates again, and     *)
(* once it has served; one fault.                                          *)
EXTENDS SecureLink
=============================================================================
