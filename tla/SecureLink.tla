----------------------------- MODULE SecureLink -----------------------------
(***************************************************************************)
(* The desk connects to a daemon that was started with --ssl or --mtls:    *)
(* PkiFiles and DeskSettings together, with the three files the operator   *)
(* copies to the desk's ~/.minihil, the mTLS configurator and the          *)
(* handshake.                                                              *)
(*                                                                         *)
(* A certificate is accepted by whoever holds the CA certificate of its    *)
(* generation.  With TLS 1.3 SSL_connect returns before the daemon has     *)
(* looked at the desk's certificate: a desk the daemon turns away believes *)
(* for a moment that it is connected.                                      *)
(***************************************************************************)
EXTENDS PkiFiles, DeskSettings

VARIABLES
    copies,  \* the desk's ca.crt, client.crt and client.key
    link     \* "none", "served" or "refused": what the daemon made of it

linkVars == <<copies, link>>
allVars == <<pkiVars, deskVars, linkVars>>

CopiedNames == {"ca.crt", "client.crt", "client.key"}

LinkInit ==
    /\ PkiInit /\ DeskInit
    /\ copies = [f \in CopiedNames |-> Absent]
    /\ link = "none"

(* configureContext: three files that load, a key that belongs to its      *)
(* certificate.                                                            *)
Configured ==
    /\ \A f \in CopiedNames : Whole(copies[f])
    /\ copies["client.key"] = copies["client.crt"]

(* The desk's half of the handshake; without mTLS it verifies nothing. *)
DeskAgrees ==
    bar.mtls => Configured /\ copies["ca.crt"] = context.cert

(* The daemon's half: a peer of its CA, and TLS in the first place. *)
DaemonAgrees ==
    /\ bar.ssl
    /\ useMtls => bar.mtls /\ copies["client.crt"] = context.ca

Reachable == daemon = "serving" /\ bar.address = DefaultAddress

(* TcpClient::connect returns true.  A desk without SSL gets as far as a   *)
(* TCP connection, which the daemon drops.                                 *)
LinkUp ==
    /\ Reachable /\ (bar.ssl => DeskAgrees)
    /\ Connected
    /\ link' = IF DaemonAgrees THEN "served" ELSE "refused"
    /\ UNCHANGED <<pkiVars, copies>>

LinkFails ==
    /\ ~Reachable \/ (bar.ssl /\ ~(DeskAgrees /\ DaemonAgrees))
    /\ NotConnected
    /\ UNCHANGED <<pkiVars, linkVars>>

(* The operator copies the files of a daemon that is running. *)
CopyFiles ==
    /\ daemon = "serving" /\ \A f \in CopiedNames : files[f] # Absent
    /\ copies' = [f \in CopiedNames |-> files[f]]
    /\ UNCHANGED <<pkiVars, deskVars, link>>

LinkNext ==
    \/ /\ PkiNext /\ UNCHANGED <<deskVars, copies>>
       /\ link' = IF daemon' = "down" THEN "none" ELSE link
    \/ /\ DeskSteps /\ UNCHANGED <<pkiVars, copies>>
       /\ link' = IF linked' THEN link ELSE "none"
    \/ LinkUp \/ LinkFails \/ CopyFiles

LinkSpec == LinkInit /\ [][LinkNext]_allVars

(* The service manager and the daemon it starts make progress. *)
LinkFairSpec ==
    /\ LinkSpec
    /\ WF_allVars(DaemonNext /\ UNCHANGED <<deskVars, linkVars>>)

-----------------------------------------------------------------------------
LinkTypeOK ==
    /\ PkiTypeOK /\ DeskSettingsTypeOK
    /\ copies \in [CopiedNames -> {Absent, Broken} \union 1 .. generation]
    /\ link \in {"none", "served", "refused"}
    /\ link # "none" => linked /\ daemon = "serving"

(* A desk that was given whole files by a daemon is served by that daemon  *)
(* whenever it asks for mTLS, after any number of crashes and restarts:    *)
(* unless a call failed or a file was removed, the daemon that serves      *)
(* holds on to the keys it has given away.                                 *)
PairingKept ==
    faults = 0 /\ daemon = "serving" /\ (\A f \in CopiedNames : Whole(copies[f])) =>
        /\ Configured /\ copies["ca.crt"] = context.cert
        /\ useMtls => copies["client.crt"] = context.ca
=============================================================================
