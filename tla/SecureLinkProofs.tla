--------------------------- MODULE SecureLinkProofs ---------------------------
(***************************************************************************)
(* What crashes cannot do to the key files of the daemon, to the desks     *)
(* that were given copies of them and to the desk's settings, for any      *)
(* number of crashes, faults and addresses.                                *)
(***************************************************************************)
EXTENDS SecureLink, TLAPS

(* Files are written only once a generation is made, and only the six.     *)
Writing ==
    daemon \in {"open", "fill"} => generation > 0 /\ written < Len(WriteOrder)

(***************************************************************************)
(* The rest holds as long as no call has failed and no file was removed.   *)
(* The client's certificate is the last file to be opened, so that it is   *)
(* there only when the other five are of the latest generation; as all six *)
(* then exist, no further generation is made.                              *)
(***************************************************************************)
Kept ==
    files["client.crt"] # Absent =>
        /\ daemon \notin {"generate", "open"}
        /\ daemon = "fill" => written = 5
        /\ generation > 0
        /\ \A f \in Names \ {"client.crt"} : files[f] = generation
        /\ files["client.crt"] \in {generation, Broken}

(* The files written so far are whole and of the latest generation.        *)
Written ==
    daemon \in {"open", "fill"} =>
        \A i \in 1..written : files[WriteOrder[i]] = generation

(* The context is loaded only when all six files exist.                    *)
Loads == daemon \in {"load", "serving"} => files["client.crt"] # Absent

Serves ==
    daemon = "serving" =>
        /\ context.cert = generation /\ context.key = generation
        /\ useMtls => context.ca = generation

Faultless == faults = 0 => Kept /\ Written /\ Loads /\ Serves

PkiInv == PkiTypeOK /\ Writing /\ Faultless

LEMMA Order ==
    /\ Len(WriteOrder) = 6
    /\ \A i \in 1..6 : WriteOrder[i] \in Names
    /\ \A i \in 1..6 : WriteOrder[i] = "client.crt" <=> i = 6
    /\ \A i, j \in 1..6 : WriteOrder[i] = WriteOrder[j] => i = j
    /\ \A f \in Names \ {"client.crt"} : \E i \in 1..5 : WriteOrder[i] = f
<1>1. Len(WriteOrder) = 6
  BY DEF WriteOrder
<1>2. \A i \in 1..6 : i = 1 \/ i = 2 \/ i = 3 \/ i = 4 \/ i = 5 \/ i = 6
  OBVIOUS
<1>3. /\ WriteOrder[1] = "ca.key" /\ WriteOrder[2] = "ca.crt"
      /\ WriteOrder[3] = "server.key" /\ WriteOrder[4] = "server.crt"
      /\ WriteOrder[5] = "client.key" /\ WriteOrder[6] = "client.crt"
  BY DEF WriteOrder
<1>4. \A f \in Names \ {"client.crt"} : \E i \in 1..5 : WriteOrder[i] = f
  <2> SUFFICES ASSUME NEW f \in Names \ {"client.crt"}
               PROVE  \E i \in 1..5 : WriteOrder[i] = f
    OBVIOUS
  <2>1. 1 \in 1..5 /\ 2 \in 1..5 /\ 3 \in 1..5 /\ 4 \in 1..5 /\ 5 \in 1..5
    OBVIOUS
  <2> QED
    BY <1>3, <2>1 DEF Names
<1>5. \A i \in 1..6 : WriteOrder[i] \in Names
  BY <1>2, <1>3 DEF Names
<1>6. \A i \in 1..6 : WriteOrder[i] = "client.crt" <=> i = 6
  BY <1>2, <1>3
<1>7. \A i, j \in 1..6 : WriteOrder[i] = WriteOrder[j] => i = j
  <2> SUFFICES ASSUME NEW i \in 1..6, NEW j \in 1..6,
                      WriteOrder[i] = WriteOrder[j]
               PROVE  i = j
    OBVIOUS
  <2> QED
    BY <1>2, <1>3
<1> QED
  BY <1>1, <1>4, <1>5, <1>6, <1>7

-----------------------------------------------------------------------------
(* Types.                                                                  *)

LEMMA PkiTypesInit == PkiInit => PkiTypeOK /\ Writing
  BY PkiAssumption, Order DEF PkiInit, PkiTypeOK, Writing, NoContext, Absent

LEMMA FaultTypes ==
    ASSUME PkiTypeOK, Fault
    PROVE  /\ faults' \in 0..MaxFaults /\ faults' # 0
           /\ crashes' \in 0..MaxCrashes /\ useMtls' \in Modes
  BY PkiAssumption DEF PkiTypeOK, Fault

LEMMA ProceedTypes ==
    ASSUME PkiTypeOK, Writing, daemon \in {"open", "fill"}, NEW ok \in BOOLEAN,
           Proceed(ok), UNCHANGED generation
    PROVE  /\ written' \in 0..Len(WriteOrder) /\ success' \in BOOLEAN
           /\ daemon' \in {"open", "load", "down"}
           /\ Writing'
<1>1. written' \in 0..6 /\ success' \in BOOLEAN
  BY Order DEF PkiTypeOK, Writing, Proceed
<1>2. daemon' \in {"open", "load", "down"}
  BY DEF Proceed
<1>3. daemon' = "open" => written' < 6
  BY Order DEF Proceed
<1> QED
  BY <1>1, <1>2, <1>3, Order DEF Writing

LEMMA FileTypes ==
    ASSUME PkiTypeOK, Writing, daemon \in {"open", "fill"},
           NEW content \in {Broken, generation}
    PROVE  /\ File \in Names /\ written + 1 \in 1..6
           /\ [files EXCEPT ![File] = content]
                 \in [Names -> {Absent, Broken} \union 1 .. generation]
<1>1. written + 1 \in 1..6
  BY Order DEF PkiTypeOK, Writing
<1>2. File \in Names
  BY <1>1, Order DEF File
<1>3. content \in {Absent, Broken} \union 1 .. generation
  BY DEF PkiTypeOK, Writing
<1> QED
  BY <1>1, <1>2, <1>3 DEF PkiTypeOK

LEMMA PkiTypesKept ==
    ASSUME PkiTypeOK, Writing, PkiNext
    PROVE  PkiTypeOK' /\ Writing'
<1>1. CASE Launch
  BY <1>1 DEF PkiTypeOK, Writing, Launch, bounds, NoContext
<1>2. CASE CheckFiles
  BY <1>2 DEF PkiTypeOK, Writing, CheckFiles, bounds, NoContext
<1>3. CASE Generate
  <2>1. /\ 1..generation \subseteq 1..generation'
        /\ generation' \in Nat /\ generation' > 0
    BY <1>3 DEF PkiTypeOK, Generate
  <2>2. files' \in [Names -> {Absent, Broken} \union 1 .. generation']
    BY <1>3, <2>1 DEF PkiTypeOK, Generate
  <2>3. context' = NoContext /\ daemon' = "open"
    BY <1>3 DEF PkiTypeOK, Generate
  <2>4. written' = 0 /\ 0 \in 0..Len(WriteOrder) /\ 0 < Len(WriteOrder)
    BY <1>3, Order DEF Generate
  <2> QED
    BY <1>3, <2>1, <2>2, <2>3, <2>4
    DEF PkiTypeOK, Writing, Generate, bounds, NoContext
<1>4. CASE GenerateFails
  BY <1>4, FaultTypes DEF PkiTypeOK, Writing, GenerateFails, NoContext
<1>5. CASE OpenFile
  <2>1. files' \in [Names -> {Absent, Broken} \union 1 .. generation]
    BY <1>5, FileTypes DEF OpenFile
  <2> QED
    BY <1>5, <2>1 DEF PkiTypeOK, Writing, OpenFile, bounds, NoContext
<1>6. CASE OpenFails
  <2>1. Proceed(FALSE) /\ UNCHANGED <<files, generation, context>> /\ Fault
    BY <1>6 DEF OpenFails
  <2> QED
    BY <1>6, <2>1, ProceedTypes, FaultTypes DEF PkiTypeOK, OpenFails, NoContext
<1>7. CASE FillFile
  <2>1. files' \in [Names -> {Absent, Broken} \union 1 .. generation]
    BY <1>7, FileTypes DEF FillFile
  <2>2. Proceed(TRUE) /\ UNCHANGED <<generation, context, bounds>>
    BY <1>7 DEF FillFile
  <2> QED
    BY <1>7, <2>1, <2>2, ProceedTypes DEF PkiTypeOK, FillFile, NoContext, bounds
<1>8. CASE FillFails
  <2>1. PICK noticed \in BOOLEAN : Proceed(~noticed)
    BY <1>8 DEF FillFails
  <2>2. UNCHANGED <<files, generation, context>> /\ Fault
    BY <1>8 DEF FillFails
  <2> QED
    BY <1>8, <2>1, <2>2, ProceedTypes, FaultTypes
    DEF PkiTypeOK, FillFails, NoContext
<1>9. CASE LoadContext
  <2>1. CASE Loadable
    <3>1. /\ files["server.crt"] \in 1..generation
          /\ files["server.key"] \in 1..generation
          /\ useMtls => files["ca.crt"] \in 1..generation
      BY <2>1 DEF Loadable, Whole, PkiTypeOK, Names, Absent, Broken
    <3>2. context' = [ca |-> IF useMtls THEN files["ca.crt"] ELSE Absent,
                      cert |-> files["server.crt"], key |-> files["server.key"]]
      BY <1>9, <2>1 DEF LoadContext
    <3>3. context'.cert # Absent
      BY <3>1, <3>2 DEF Absent
    <3>4. context' # NoContext
      BY <3>3 DEF NoContext
    <3> QED
      BY <1>9, <2>1, <3>1, <3>2, <3>4
      DEF PkiTypeOK, Writing, LoadContext, bounds
  <2>2. CASE ~Loadable
    BY <1>9, <2>2 DEF PkiTypeOK, Writing, LoadContext, bounds, NoContext
  <2> QED
    BY <2>1, <2>2
<1>10. CASE End
  <2>1. crashes' \in 0..MaxCrashes
    BY <1>10, PkiAssumption DEF PkiTypeOK, End
  <2>2. NoContext \in [ca : {Absent}, cert : {Absent}, key : {Absent}]
    BY DEF NoContext
  <2> QED
    BY <1>10, <2>1, <2>2 DEF PkiTypeOK, Writing, End
<1>11. ASSUME NEW f \in Names, RemoveFile(f)
       PROVE  PkiTypeOK' /\ Writing'
  BY <1>11, FaultTypes DEF PkiTypeOK, Writing, RemoveFile, NoContext
<1> QED
  BY <1>1, <1>2, <1>3, <1>4, <1>5, <1>6, <1>7, <1>8, <1>9, <1>10, <1>11
  DEF PkiNext, DaemonNext

-----------------------------------------------------------------------------
(* One generation.                                                         *)

LEMMA FaultlessInit == PkiInit => Faultless
  BY DEF PkiInit, Faultless, Kept, Written, Loads, Serves, Names

LEMMA FaultlessKept ==
    ASSUME PkiInv, PkiNext
    PROVE  Faultless'
<1> SUFFICES ASSUME faults' = 0
             PROVE  Kept' /\ Written' /\ Loads' /\ Serves'
  BY DEF Faultless
<1>1. ~Fault
  BY FaultTypes DEF PkiInv
<1>2. faults = 0
  BY <1>1 DEF PkiNext, DaemonNext, Launch, CheckFiles, Generate, OpenFile,
      FillFile, LoadContext, End, GenerateFails, OpenFails, FillFails, RemoveFile,
      bounds
<1>3. Kept /\ Written /\ Loads /\ Serves /\ PkiTypeOK /\ Writing
  BY <1>2 DEF PkiInv, Faultless
<1>4. CASE Launch
  BY <1>3, <1>4 DEF Launch, Kept, Written, Loads, Serves
<1>5. CASE CheckFiles
  <2>1. AllExist => files["client.crt"] # Absent
    BY DEF AllExist, Names
  <2>2. files["client.crt"] # Absent => AllExist
    BY <1>3 DEF AllExist, Kept, Absent
  <2> QED
    BY <1>3, <1>5, <2>1, <2>2 DEF CheckFiles, Kept, Written, Loads, Serves
<1>6. CASE Generate
  BY <1>3, <1>6 DEF Generate, Kept, Written, Loads, Serves
<1>7. CASE OpenFile
  <2>1. daemon = "open" /\ daemon' = "fill" /\ UNCHANGED <<generation, written>>
        /\ files' = [files EXCEPT ![WriteOrder[written + 1]] = Broken]
    BY <1>7 DEF OpenFile, File
  <2>2. /\ written \in 0..5 /\ written + 1 \in 1..6 /\ generation > 0
        /\ WriteOrder[written + 1] \in Names
        /\ files \in [Names -> {Absent, Broken} \union 1 .. generation]
    BY <1>3, <2>1, Order DEF Writing, PkiTypeOK
  <2>3. Written'
    <3> SUFFICES ASSUME NEW i \in 1..written
                 PROVE  files'[WriteOrder[i]] = generation
      BY <2>1 DEF Written
    <3>1. i \in 1..6 /\ i # written + 1
      BY <2>2
    <3>2. WriteOrder[i] # WriteOrder[written + 1] /\ WriteOrder[i] \in Names
      BY <2>2, <3>1, Order
    <3> QED
      BY <1>3, <2>1, <2>2, <3>2 DEF Written
  <2>4. files["client.crt"] = Absent
    BY <1>3, <2>1 DEF Kept
  <2>5. Kept'
    <3>1. CASE written = 5
      <4>1. files'["client.crt"] = Broken
        BY <2>1, <2>2, <3>1, Order
      <4>2. \A f \in Names \ {"client.crt"} : files'[f] = generation
        BY <2>1, <2>3, <3>1, Order DEF Written
      <4> QED
        BY <2>1, <2>2, <3>1, <4>1, <4>2 DEF Kept
    <3>2. CASE written # 5
      <4>1. WriteOrder[written + 1] # "client.crt"
        BY <2>2, <3>2, Order
      <4>2. files'["client.crt"] = Absent
        BY <2>1, <2>2, <2>4, <4>1 DEF Names
      <4> QED
        BY <4>2 DEF Kept
    <3> QED
      BY <3>1, <3>2
  <2> QED
    BY <2>1, <2>3, <2>5 DEF Loads, Serves
<1>8. CASE FillFile
  <2>1. daemon = "fill" /\ UNCHANGED generation /\ written' = written + 1
        /\ files' = [files EXCEPT ![WriteOrder[written + 1]] = generation]
        /\ daemon' = IF written + 1 < 6 THEN "open"
                     ELSE IF success' THEN "load" ELSE "down"
    BY <1>8, Order DEF FillFile, File, Proceed
  <2>2. /\ written \in 0..5 /\ written + 1 \in 1..6 /\ generation > 0
        /\ WriteOrder[written + 1] \in Names
        /\ files \in [Names -> {Absent, Broken} \union 1 .. generation]
    BY <1>3, <2>1, Order DEF Writing, PkiTypeOK
  <2>3. \A i \in 1..written' : files'[WriteOrder[i]] = generation
    <3> SUFFICES ASSUME NEW i \in 1..(written + 1)
                 PROVE  files'[WriteOrder[i]] = generation
      BY <2>1
    <3>1. WriteOrder[i] \in Names
      BY <2>2, Order
    <3>2. CASE i = written + 1
      BY <2>1, <2>2, <3>2
    <3>3. CASE i # written + 1
      <4>1. i \in 1..written
        BY <2>2, <3>3
      <4>2. files[WriteOrder[i]] = generation
        BY <1>3, <2>1, <4>1 DEF Written
      <4> QED
        BY <2>1, <2>2, <3>1, <4>2
    <3> QED
      BY <3>2, <3>3
  <2>4. CASE written = 5
    <3>1. daemon' \in {"load", "down"}
      BY <2>1, <2>4
    <3>2. files'["client.crt"] = generation
      BY <2>1, <2>2, <2>4, Order
    <3>3. \A f \in Names \ {"client.crt"} : files'[f] = generation
      <4>1. \A i \in 1..5 : files'[WriteOrder[i]] = generation
        BY <2>1, <2>3, <2>4
      <4> QED
        BY <4>1, Order
    <3> QED
      BY <2>1, <2>2, <3>1, <3>2, <3>3 DEF Kept, Written, Loads, Serves, Absent
  <2>5. CASE written # 5
    <3>1. files["client.crt"] = Absent
      BY <1>3, <2>1, <2>5 DEF Kept
    <3>2. WriteOrder[written + 1] # "client.crt"
      BY <2>2, <2>5, Order
    <3>3. files'["client.crt"] = Absent
      BY <2>1, <2>2, <3>1, <3>2 DEF Names
    <3>4. daemon' = "open"
      BY <2>1, <2>2, <2>5
    <3> QED
      BY <2>1, <2>3, <3>3, <3>4 DEF Kept, Written, Loads, Serves
  <2> QED
    BY <2>4, <2>5
<1>9. CASE LoadContext
  <2>1. /\ daemon = "load" /\ daemon' \in {"serving", "down"}
        /\ UNCHANGED <<files, generation, useMtls>>
    BY <1>9 DEF LoadContext, bounds
  <2>2. files["client.crt"] # Absent
    BY <1>3, <2>1 DEF Loads
  <2>3. Kept' /\ Written' /\ Loads'
    BY <1>3, <2>1, <2>2 DEF Kept, Written, Loads
  <2>4. Serves'
    <3> SUFFICES ASSUME daemon' = "serving"
                 PROVE  Serves'
      BY DEF Serves
    <3>1. context' = [ca |-> IF useMtls THEN files["ca.crt"] ELSE Absent,
                      cert |-> files["server.crt"], key |-> files["server.key"]]
      BY <1>9 DEF LoadContext
    <3>2. /\ files["server.crt"] = generation /\ files["server.key"] = generation
          /\ files["ca.crt"] = generation
      BY <1>3, <2>2 DEF Kept, Names
    <3> QED
      BY <2>1, <3>1, <3>2 DEF Serves
  <2> QED
    BY <2>3, <2>4
<1>10. CASE End
  BY <1>3, <1>10 DEF End, Kept, Written, Loads, Serves
<1> QED
  BY <1>1, <1>4, <1>5, <1>6, <1>7, <1>8, <1>9, <1>10
  DEF PkiNext, DaemonNext, GenerateFails, OpenFails, FillFails, RemoveFile

LEMMA PkiInvInit == PkiInit => PkiInv
  BY PkiTypesInit, FaultlessInit DEF PkiInv

LEMMA PkiInvKept ==
    ASSUME PkiInv, PkiNext
    PROVE  PkiInv'
  BY PkiTypesKept, FaultlessKept DEF PkiInv

LEMMA PkiInvUnchanged ==
    ASSUME PkiInv, UNCHANGED pkiVars
    PROVE  PkiInv'
<1>1. /\ UNCHANGED <<files, daemon, generation, written, success, context>>
      /\ UNCHANGED <<useMtls, crashes, faults>>
  BY DEF pkiVars, bounds
<1>2. PkiTypeOK' /\ Writing'
  BY <1>1 DEF PkiInv, PkiTypeOK, Writing, NoContext
<1>3. Faultless'
  BY <1>1 DEF PkiInv, Faultless, Kept, Written, Loads, Serves
<1> QED
  BY <1>2, <1>3 DEF PkiInv

-----------------------------------------------------------------------------
(* The desk's settings.  While a file is written without a connection it   *)
(* is the first one, with the defaults.                                    *)

SavedIsKnown == desk \in {"save", "fill"} /\ ~linked => bar = Defaults

DeskInv == DeskSettingsTypeOK /\ SavedIsKnown

DeskNext == DeskSteps \/ Connected \/ NotConnected

LEMMA SettingsFields ==
    ASSUME NEW s
    PROVE  /\ s \in Settings =>
                /\ s.address \in Addresses /\ s.ssl \in BOOLEAN
                /\ s.mtls \in BOOLEAN
           /\ Defaults \in Settings /\ ~Defaults.mtls
  BY SettingsAssumption DEF Settings, Defaults

LEMMA DeskInvInit == DeskInit => DeskInv
  BY SettingsAssumption, SettingsFields
  DEF DeskInit, DeskInv, DeskSettingsTypeOK, MtlsNeedsSsl, SavedIsKnown

LEMMA DeskInvKept ==
    ASSUME DeskInv, DeskNext
    PROVE  DeskInv'
<1> USE DEF DeskInv, DeskSettingsTypeOK, MtlsNeedsSsl, SavedIsKnown
<1>1. CASE StartDesk
  <2>1. CASE config = NoFile
    BY <1>1, <2>1, SettingsFields DEF StartDesk
  <2>2. CASE config = Truncated
    BY <1>1, <2>2, SettingsFields, SettingsAssumption DEF StartDesk, Loaded
  <2>3. CASE config # NoFile /\ config # Truncated
    BY <1>1, <2>3 DEF StartDesk, Loaded
  <2> QED
    BY <2>1, <2>2, <2>3
<1>2. ASSUME NEW a \in Addresses, EnterAddress(a)
      PROVE  DeskInv'
  <2>1. /\ bar' \in Settings
        /\ bar'.ssl = bar.ssl /\ bar'.mtls = bar.mtls
    BY <1>2 DEF EnterAddress, Settings
  <2> QED
    BY <1>2, <2>1 DEF EnterAddress
<1>3. CASE ToggleSsl
  <2>1. /\ bar' \in Settings
        /\ bar'.mtls => bar'.ssl
    BY <1>3 DEF ToggleSsl, Settings
  <2> QED
    BY <1>3, <2>1 DEF ToggleSsl
<1>4. CASE ToggleMtls
  <2>1. /\ bar' \in Settings
        /\ bar'.mtls => bar'.ssl
    BY <1>4 DEF ToggleMtls, Settings
  <2> QED
    BY <1>4, <2>1 DEF ToggleMtls
<1>5. CASE ClickConnect
  BY <1>5 DEF ClickConnect
<1>6. CASE Connected
  BY <1>6 DEF Connected
<1>7. CASE NotConnected
  BY <1>7 DEF NotConnected
<1>8. CASE OpenConfig
  BY <1>8, SettingsAssumption DEF OpenConfig
<1>9. CASE OpenConfigFails
  BY <1>9 DEF OpenConfigFails, Saved
<1>10. CASE WriteConfig
  BY <1>10 DEF WriteConfig, Saved
<1>11. CASE WriteConfigFails
  BY <1>11 DEF WriteConfigFails, Saved
<1>12. CASE ClickDisconnect
  BY <1>12 DEF ClickDisconnect
<1>13. CASE EndDesk
  BY <1>13, SettingsFields DEF EndDesk
<1> QED
  BY <1>1, <1>2, <1>3, <1>4, <1>5, <1>6, <1>7, <1>8, <1>9, <1>10, <1>11, <1>12,
     <1>13
  DEF DeskNext, DeskSteps

(* What SettingsProven says of one step. *)
Proven ==
    /\ config' # config /\ config' \in Settings =>
            config' = Defaults \/ (linked /\ config' = bar)
    /\ desk = "down" /\ desk' # "down" => bar' \in {Defaults, config}

LEMMA DeskProven ==
    ASSUME DeskInv, DeskNext
    PROVE  Proven
<1>1. CASE StartDesk
  BY <1>1 DEF Proven, StartDesk, Loaded
<1>2. CASE OpenConfig
  BY <1>2, SettingsAssumption DEF Proven, OpenConfig
<1>3. CASE WriteConfig
  BY <1>3 DEF Proven, WriteConfig, DeskInv, SavedIsKnown
<1>4. CASE DeskNext /\ ~StartDesk /\ ~OpenConfig /\ ~WriteConfig
  <2>1. desk # "down" /\ UNCHANGED config
    BY <1>4 DEF DeskNext, DeskSteps, EnterAddress, ToggleSsl, ToggleMtls,
       ClickConnect, Connected, NotConnected, OpenConfigFails, WriteConfigFails,
       ClickDisconnect, EndDesk
  <2> QED
    BY <2>1 DEF Proven
<1> QED
  BY <1>1, <1>2, <1>3, <1>4

LEMMA DeskInvUnchanged ==
    ASSUME DeskInv, UNCHANGED deskVars
    PROVE  DeskInv' /\ Proven
  BY DEF DeskInv, DeskSettingsTypeOK, MtlsNeedsSsl, SavedIsKnown, Proven, deskVars

-----------------------------------------------------------------------------
(* The copies the desk was given and the connection.                       *)

CopyTypes == copies \in [CopiedNames -> {Absent, Broken} \union 1 .. generation]

LinkTypes ==
    /\ link \in {"none", "served", "refused"}
    /\ link # "none" => linked /\ daemon = "serving"

(* Once a desk was given files, there is no further generation of them.    *)
Given ==
    faults = 0 /\ (\E f \in CopiedNames : copies[f] # Absent) =>
        /\ files["client.crt"] # Absent
        /\ \A f \in CopiedNames : copies[f] \in {generation, Broken}

LinkInv == PkiInv /\ DeskInv /\ CopyTypes /\ LinkTypes /\ Given

LEMMA LinkInvInit == LinkInit => LinkInv
<1> SUFFICES ASSUME LinkInit
             PROVE  LinkInv
  OBVIOUS
<1>1. PkiInv /\ DeskInv
  BY PkiInvInit, DeskInvInit DEF LinkInit
<1>2. CopyTypes /\ LinkTypes /\ Given
  BY DEF LinkInit, CopyTypes, LinkTypes, Given
<1> QED
  BY <1>1, <1>2 DEF LinkInv

(* The client's certificate, once there, stays, and with it the generation.*)
LEMMA CertificateStays ==
    ASSUME PkiInv, PkiNext, faults' = 0, files["client.crt"] # Absent
    PROVE  faults = 0 /\ files'["client.crt"] # Absent /\ UNCHANGED generation
<1>1. ~Fault
  BY FaultTypes DEF PkiInv
<1>2. faults = 0
  BY <1>1 DEF PkiNext, DaemonNext, Launch, CheckFiles, Generate, OpenFile,
      FillFile, LoadContext, End, GenerateFails, OpenFails, FillFails, RemoveFile,
      bounds
<1>3. Kept /\ Writing /\ PkiTypeOK
  BY <1>2 DEF PkiInv, Faultless
<1>4. daemon \notin {"generate", "open"}
  BY <1>3 DEF Kept
<1>5. CASE FillFile
  <2>1. File \in Names /\ "client.crt" \in Names
    BY <1>3, <1>5, FileTypes DEF FillFile, Names
  <2>2. generation # Absent /\ UNCHANGED generation
    BY <1>3, <1>5 DEF FillFile, Kept, Absent
  <2> QED
    BY <1>2, <1>3, <1>5, <2>1, <2>2 DEF FillFile, PkiTypeOK
<1>6. CASE Launch \/ CheckFiles \/ LoadContext \/ End
  BY <1>2, <1>6 DEF Launch, CheckFiles, LoadContext, End
<1> QED
  BY <1>1, <1>4, <1>5, <1>6 DEF PkiNext, DaemonNext, Generate, OpenFile,
     GenerateFails, OpenFails, FillFails, RemoveFile

(* The daemon goes on serving until it goes down; generations only grow.   *)
LEMMA ServingLasts ==
    ASSUME PkiInv, PkiNext
    PROVE  /\ daemon = "serving" => daemon' \in {"serving", "down"}
           /\ generation' \in Nat /\ generation \in Nat
           /\ generation' >= generation
<1>1. daemon = "serving" => daemon' \in {"serving", "down"}
  BY DEF PkiNext, DaemonNext, Launch, CheckFiles, Generate, OpenFile,
      FillFile, LoadContext, End, GenerateFails, OpenFails, FillFails, RemoveFile
<1>2. generation \in Nat
  BY DEF PkiInv, PkiTypeOK
<1>3. generation' = generation \/ generation' = generation + 1
  BY DEF PkiNext, DaemonNext, Launch, CheckFiles, Generate, OpenFile,
      FillFile, LoadContext, End, GenerateFails, OpenFails, FillFails, RemoveFile
<1> QED
  BY <1>1, <1>2, <1>3

LEMMA LinkInvKept ==
    ASSUME LinkInv, [LinkNext]_allVars
    PROVE  LinkInv' /\ [Proven]_deskVars
<1> USE DEF LinkInv
<1>1. CASE /\ PkiNext /\ UNCHANGED <<deskVars, copies>>
           /\ link' = IF daemon' = "down" THEN "none" ELSE link
  <2>1. PkiInv' /\ DeskInv'
    BY <1>1, PkiInvKept, DeskInvUnchanged
  <2>2. CopyTypes'
    <3>1. 1..generation \subseteq 1..generation'
      BY <1>1, ServingLasts
    <3> QED
      BY <1>1, <3>1 DEF CopyTypes
  <2>3. LinkTypes'
    <3>1. UNCHANGED linked
      BY <1>1 DEF deskVars
    <3> QED
      BY <1>1, <3>1, ServingLasts DEF LinkTypes
  <2>4. Given'
    <3> SUFFICES ASSUME faults' = 0, \E f \in CopiedNames : copies[f] # Absent
                 PROVE  /\ files'["client.crt"] # Absent
                        /\ \A f \in CopiedNames : copies[f] \in {generation', Broken}
      BY <1>1 DEF Given
    <3>1. faults = 0
      <4>1. ~Fault
        BY FaultTypes DEF PkiInv
      <4> QED
        BY <1>1, <4>1 DEF PkiNext, DaemonNext, Launch, CheckFiles, Generate,
           OpenFile, FillFile, LoadContext, End, GenerateFails, OpenFails,
           FillFails, RemoveFile, bounds
    <3>2. files["client.crt"] # Absent
      BY <3>1 DEF Given
    <3>3. files'["client.crt"] # Absent /\ UNCHANGED generation
      BY <1>1, <3>2, CertificateStays
    <3> QED
      BY <3>1, <3>3 DEF Given
  <2> QED
    BY <1>1, <2>1, <2>2, <2>3, <2>4
<1>2. CASE UNCHANGED <<pkiVars, copies>> /\ DeskNext /\ LinkTypes'
  <2>1. PkiInv' /\ DeskInv' /\ Proven
    BY <1>2, PkiInvUnchanged, DeskInvKept, DeskProven
  <2>2. CopyTypes' /\ Given'
    BY <1>2 DEF CopyTypes, Given, pkiVars, bounds
  <2> QED
    BY <1>2, <2>1, <2>2
<1>3. CASE /\ DeskSteps /\ UNCHANGED <<pkiVars, copies>>
           /\ link' = IF linked' THEN link ELSE "none"
  <2>1. LinkTypes'
    BY <1>3 DEF LinkTypes, pkiVars
  <2> QED
    BY <1>2, <1>3, <2>1 DEF DeskNext
<1>4. CASE LinkUp
  <2>1. LinkTypes'
    BY <1>4 DEF LinkTypes, LinkUp, Reachable, Connected, pkiVars
  <2> QED
    BY <1>2, <1>4, <2>1 DEF DeskNext, LinkUp
<1>5. CASE LinkFails
  <2>1. LinkTypes'
    BY <1>5 DEF LinkTypes, LinkFails, NotConnected, pkiVars, linkVars
  <2> QED
    BY <1>2, <1>5, <2>1 DEF DeskNext, LinkFails, linkVars
<1>6. CASE CopyFiles
  <2>1. PkiInv' /\ DeskInv' /\ Proven
    BY <1>6, PkiInvUnchanged, DeskInvUnchanged DEF CopyFiles
  <2>2. /\ UNCHANGED <<files, generation, faults, daemon, link, linked>>
        /\ copies' = [f \in CopiedNames |-> files[f]]
    BY <1>6 DEF CopyFiles, pkiVars, bounds, deskVars
  <2>3. CopiedNames \subseteq Names
    BY DEF CopiedNames, Names
  <2>4. CopyTypes' /\ LinkTypes'
    BY <2>2, <2>3 DEF CopyTypes, LinkTypes, PkiInv, PkiTypeOK
  <2>5. Given'
    <3> SUFFICES ASSUME faults = 0
                 PROVE  /\ files["client.crt"] # Absent
                        /\ \A f \in CopiedNames : files[f] \in {generation, Broken}
      BY <2>2 DEF Given
    <3>1. Kept /\ files["client.crt"] # Absent
      BY <1>6 DEF PkiInv, Faultless, CopyFiles, CopiedNames
    <3> QED
      BY <2>3, <3>1 DEF Kept
  <2> QED
    BY <2>1, <2>4, <2>5
<1>7. CASE UNCHANGED allVars
  <2>1. UNCHANGED pkiVars /\ UNCHANGED deskVars /\ UNCHANGED <<copies, link>>
    BY <1>7 DEF allVars, linkVars
  <2>2. PkiInv' /\ DeskInv'
    BY <2>1, PkiInvUnchanged, DeskInvUnchanged
  <2>3. CopyTypes' /\ Given'
    BY <2>1 DEF CopyTypes, Given, pkiVars, bounds
  <2>4. LinkTypes'
    BY <2>1 DEF LinkTypes, pkiVars, deskVars
  <2> QED
    BY <2>1, <2>2, <2>3, <2>4
<1> QED
  BY <1>1, <1>3, <1>4, <1>5, <1>6, <1>7 DEF LinkNext

-----------------------------------------------------------------------------
(* LinkInv is inductive. *)
THEOREM LinkInductive == LinkSpec => []LinkInv
<1>1. LinkInit => LinkInv
  BY LinkInvInit
<1>2. LinkInv /\ [LinkNext]_allVars => LinkInv'
  BY LinkInvKept
<1> QED
  BY <1>1, <1>2, PTL DEF LinkSpec

(* The daemon's files, the desk's settings, the copies and the connection  *)
(* have the values they may have: in particular mTLS is never asked for    *)
(* without TLS (MtlsNeedsSsl), and a connection ends with the daemon.      *)
THEOREM LinkTypeCorrect == LinkSpec => []LinkTypeOK
<1>1. LinkInv => LinkTypeOK
  BY DEF LinkInv, PkiInv, DeskInv, CopyTypes, LinkTypes, LinkTypeOK
<1> QED
  BY <1>1, LinkInductive, PTL

(* As long as no call has failed and no file was removed, a daemon that    *)
(* serves has five files and a context of one generation, and a client.crt *)
(* that is of it or was cut off, wherever any number of crashes has ended  *)
(* main() or generatePki(): the last file opened is the last the check of  *)
(* existence waits for.                                                    *)
THEOREM ServesOneGeneration == LinkSpec => []OneGeneration
<1>1. LinkInv => OneGeneration
  <2> SUFFICES ASSUME LinkInv, daemon = "serving", faults = 0
               PROVE  /\ \A f \in Names \ {"client.crt"} : files[f] = context.cert
                      /\ files["client.crt"] \in {context.cert, Broken}
                      /\ context.key = context.cert
                      /\ useMtls => context.ca = context.cert
    BY DEF OneGeneration
  <2>1. Kept /\ Loads /\ Serves
    BY DEF LinkInv, PkiInv, Faultless
  <2>2. files["client.crt"] # Absent
    BY <2>1 DEF Loads
  <2> QED
    BY <2>1, <2>2 DEF Kept, Serves
<1> QED
  BY <1>1, LinkInductive, PTL

(* What a desk was given, where it is whole, goes on fitting the daemon    *)
(* that serves, after every restart and as long as no call has failed and  *)
(* no file was removed: generatePki() is never called again.               *)
THEOREM PairingLasts == LinkSpec => []PairingKept
<1>1. LinkInv => PairingKept
  <2> SUFFICES ASSUME LinkInv, faults = 0, daemon = "serving",
                      \A f \in CopiedNames : Whole(copies[f])
               PROVE  /\ Configured /\ copies["ca.crt"] = context.cert
                      /\ useMtls => copies["client.crt"] = context.ca
    BY DEF PairingKept
  <2>1. Serves
    BY DEF LinkInv, PkiInv, Faultless
  <2>2. \A f \in CopiedNames : copies[f] = generation
    <3>1. copies["ca.crt"] # Absent /\ "ca.crt" \in CopiedNames
      BY DEF Whole, CopiedNames, Absent
    <3>2. \A f \in CopiedNames : copies[f] \in {generation, Broken}
      BY <3>1 DEF LinkInv, Given
    <3> QED
      BY <3>2 DEF Whole, Broken
  <2> QED
    BY <2>1, <2>2 DEF Serves, Configured, CopiedNames
<1> QED
  BY <1>1, LinkInductive, PTL

(* ConfigManager::save writes only the defaults of the first start or what *)
(* a connection was made with, and load() takes all of it or the defaults. *)
THEOREM SettingsAreProven == LinkSpec => SettingsProven
<1>1. LinkInv /\ [LinkNext]_allVars => [Proven]_deskVars
  BY LinkInvKept
<1> QED
  BY <1>1, LinkInductive, PTL DEF LinkSpec, SettingsProven, Proven
=============================================================================
