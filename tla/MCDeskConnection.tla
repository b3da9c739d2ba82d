-------------------------- MODULE MCDeskConnection --------------------------
(* Two requests in flight, and new UI work only while at most one emission *)
(* waits to be delivered: enough for an answer, a loss and a click to meet *)
(* in every order.                                                         *)
EXTENDS DeskConnection
=============================================================================
