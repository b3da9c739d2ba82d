------------------------------ MODULE PkiFiles ------------------------------
(***************************************************************************)
(* The six key and certificate files of minihild: main() generates them    *)
(* when one is missing, generatePki() writes them in place one after the   *)
(* other, start() loads three of them into the SSL context, and the        *)
(* service manager starts the daemon again whenever it has ended.          *)
(*                                                                         *)
(* A file's content is the number of the generation it belongs to: the     *)
(* keys and certificates of one call of generatePki() fit together, and    *)
(* with no others.  A file that fopen("wb") has emptied, or that was cut   *)
(* off, is Broken.                                                         *)
(***************************************************************************)
EXTENDS Integers, Sequences

CONSTANTS
    Modes,       \* the values of --mtls the daemon is started with
    MaxCrashes,  \* bound on how often the daemon ends
    MaxFaults    \* bound on failing calls and removed files

ASSUME PkiAssumption ==
    Modes \subseteq BOOLEAN /\ MaxCrashes \in Nat /\ MaxFaults \in Nat

Absent == 0
Broken == -1
Whole(content) == content > 0

(* Mutant: the client's certificate is written first. *)
WriteOrderClientFirst ==
    <<"client.key", "client.crt", "ca.key", "ca.crt", "server.crt", "server.key">>

WriteOrder ==
    <<"ca.key", "ca.crt", "server.key", "server.crt", "client.key", "client.crt">>

Names == {"ca.key", "ca.crt", "server.key", "server.crt", "client.key", "client.crt"}

VARIABLES
    useMtls,    \* TcpServer::m_useMtls, the same at every start
    files,      \* content of each file
    daemon,     \* "down", "check", "generate", "open", "fill", "load", "serving"
    generation, \* generations made so far
    written,    \* files of this one that are dealt with
    success,    \* generatePki's local of that name
    context,    \* what the SSL context holds: CA, certificate, key
    crashes,    \* how often the daemon ended
    faults      \* how often a call failed or a file was removed

bounds == <<useMtls, crashes, faults>>
pkiVars == <<files, daemon, generation, written, success, context, bounds>>

NoContext == [ca |-> Absent, cert |-> Absent, key |-> Absent]

PkiInit ==
    /\ useMtls \in Modes
    /\ files = [f \in Names |-> Absent]
    /\ daemon = "down" /\ generation = 0 /\ written = 0 /\ success = TRUE
    /\ context = NoContext /\ crashes = 0 /\ faults = 0

Fault ==
    faults < MaxFaults /\ faults' = faults + 1 /\ UNCHANGED <<useMtls, crashes>>

(* Restart=always. *)
Launch ==
    /\ daemon = "down" /\ daemon' = "check"
    /\ UNCHANGED <<files, generation, written, success, context, bounds>>

(* Mutants: only the server's pair is looked for; nothing is. *)
AllExistServerOnly ==
    \A f \in {"ca.crt", "server.key", "server.crt"} : files[f] # Absent
AllExistNever == FALSE

(* fs::exists says nothing of what is in a file. *)
AllExist == \A f \in Names : files[f] # Absent

CheckFiles ==
    /\ daemon = "check"
    /\ daemon' = IF AllExist THEN "load" ELSE "generate"
    /\ UNCHANGED <<files, generation, written, success, context, bounds>>

(* Three key pairs and three signed certificates, in memory. *)
Generate ==
    /\ daemon = "generate"
    /\ generation' = generation + 1 /\ written' = 0 /\ success' = TRUE
    /\ daemon' = "open"
    /\ UNCHANGED <<files, context, bounds>>

(* No file is touched, and main() returns 1. *)
GenerateFails ==
    /\ daemon = "generate" /\ Fault
    /\ daemon' = "down"
    /\ UNCHANGED <<files, generation, written, success, context>>

(* The next file to write. *)
File == WriteOrder[written + 1]

(* After the last file the daemon goes on, or main() returns 1. *)
Proceed(ok) ==
    /\ written' = written + 1 /\ success' = (success /\ ok)
    /\ daemon' = IF written + 1 < Len(WriteOrder) THEN "open"
                 ELSE IF success' THEN "load" ELSE "down"

OpenFile ==
    /\ daemon = "open"
    /\ files' = [files EXCEPT ![File] = Broken] /\ daemon' = "fill"
    /\ UNCHANGED <<generation, written, success, context, bounds>>

OpenFails ==
    /\ daemon = "open" /\ Fault
    /\ Proceed(FALSE)
    /\ UNCHANGED <<files, generation, context>>

FillFile ==
    /\ daemon = "fill"
    /\ files' = [files EXCEPT ![File] = generation] /\ Proceed(TRUE)
    /\ UNCHANGED <<generation, context, bounds>>

(* Writing fails in PEM_write or, unnoticed, when fclose flushes it. *)
FillFails ==
    /\ daemon = "fill" /\ Fault
    /\ \E noticed \in BOOLEAN : Proceed(~noticed)
    /\ UNCHANGED <<files, generation, context>>

Loadable ==
    /\ Whole(files["server.crt"]) /\ files["server.key"] = files["server.crt"]
    /\ useMtls => Whole(files["ca.crt"])

(* start(): the certificate, a key that belongs to it and, for mTLS, the   *)
(* CA; or main() returns 1.                                                *)
LoadContext ==
    /\ daemon = "load"
    /\ IF Loadable
       THEN /\ daemon' = "serving"
            /\ context' = [ca |-> IF useMtls THEN files["ca.crt"] ELSE Absent,
                           cert |-> files["server.crt"],
                           key |-> files["server.key"]]
       ELSE daemon' = "down" /\ UNCHANGED context
    /\ UNCHANGED <<files, generation, written, success, bounds>>

(* A crash at any point, or the end of a daemon that serves; what stdio    *)
(* has not flushed is gone.                                                *)
End ==
    /\ daemon # "down" /\ crashes < MaxCrashes /\ crashes' = crashes + 1
    /\ daemon' = "down" /\ context' = NoContext
    /\ UNCHANGED <<useMtls, files, generation, written, success, faults>>

(* The operator removes a file, such as a certificate that has expired. *)
RemoveFile(f) ==
    /\ daemon \in {"down", "serving"} /\ files[f] # Absent /\ Fault
    /\ files' = [files EXCEPT ![f] = Absent]
    /\ UNCHANGED <<daemon, generation, written, success, context>>

DaemonNext ==
    \/ Launch \/ CheckFiles \/ Generate \/ OpenFile \/ FillFile \/ LoadContext

PkiNext ==
    \/ DaemonNext \/ GenerateFails \/ OpenFails \/ FillFails \/ End
    \/ \E f \in Names : RemoveFile(f)

-----------------------------------------------------------------------------
PkiTypeOK ==
    /\ useMtls \in Modes
    /\ files \in [Names -> {Absent, Broken} \union 1 .. generation]
    /\ daemon \in {"down", "check", "generate", "open", "fill", "load", "serving"}
    /\ generation \in Nat /\ written \in 0 .. Len(WriteOrder)
    /\ success \in BOOLEAN /\ crashes \in 0 .. MaxCrashes /\ faults \in 0 .. MaxFaults
    /\ LET Held == {Absent} \union 1 .. generation
       IN  context \in [ca : Held, cert : Held, key : Held]
    /\ context = NoContext <=> daemon # "serving"

(* Wherever the daemon was stopped while it wrote the files, as long as no  *)
(* call has failed and no file was removed, one that serves has one        *)
(* generation of them; only the last file written, the client's            *)
(* certificate, may have been cut off, for the check of existence never    *)
(* repairs it.                                                             *)
OneGeneration ==
    daemon = "serving" /\ faults = 0 =>
        /\ \A f \in Names \ {"client.crt"} : files[f] = context.cert
        /\ files["client.crt"] \in {context.cert, Broken}
        /\ context.key = context.cert
        /\ useMtls => context.ca = context.cert

(* A daemon that is started again after every end comes up, unless a call  *)
(* failed or a file was removed: no crash leaves files it stumbles over    *)
(* for ever.                                                               *)
ComesUp == [](faults = 0) => <>[](daemon = "serving")
=============================================================================
