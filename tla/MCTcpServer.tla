---------------------------- MODULE MCTcpServer ----------------------------
(* Two clients for one descriptor, so that the number is used again.       *)
EXTENDS TcpServer

CONSTANTS c1, c2, o1, o2

TwoClients == {c1, c2}
TwoAddresses == {o1, o2}
=============================================================================
