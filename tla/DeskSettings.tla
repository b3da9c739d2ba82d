---------------------------- MODULE DeskSettings ----------------------------
(***************************************************************************)
(* The settings of minihildesk: the connection bar of the window, the file *)
(* ~/.minihil/config, read when the application starts and written in      *)
(* place after every connection that was made.  m_config itself is always  *)
(* equal to the bar where the code reads it.                               *)
(*                                                                         *)
(* An address stands for an IP with its port.  The bar cannot be edited    *)
(* while there is a connection.                                            *)
(***************************************************************************)
EXTENDS Naturals

CONSTANTS
    Addresses,      \* what the user may enter
    DefaultAddress, \* 127.0.0.1, port 9000
    NoFile,         \* there is no settings file
    Truncated       \* it holds something that does not parse

Settings == [address : Addresses, ssl : BOOLEAN, mtls : BOOLEAN]
Defaults == [address |-> DefaultAddress, ssl |-> FALSE, mtls |-> FALSE]

ASSUME SettingsAssumption ==
    /\ DefaultAddress \in Addresses
    /\ NoFile # Truncated /\ NoFile \notin Settings /\ Truncated \notin Settings

VARIABLES
    desk,    \* "down", "idle", "connecting", "save", "fill" or "connected"
    bar,     \* the entries and check boxes of the connection bar
    linked,  \* there is a connection
    config   \* content of the file

deskVars == <<desk, bar, linked, config>>

DeskInit ==
    /\ desk = "down" /\ bar = Defaults /\ linked = FALSE /\ config = NoFile

(* load(): a file that does not parse leaves the defaults. *)
Loaded == IF config = Truncated THEN Defaults ELSE config

(* on_startup: without a file the defaults are stored at once. *)
StartDesk ==
    /\ desk = "down"
    /\ IF config = NoFile THEN bar' = Defaults /\ desk' = "save"
       ELSE bar' = Loaded /\ desk' = "idle"
    /\ UNCHANGED <<linked, config>>

EnterAddress(a) ==
    /\ desk = "idle" /\ bar' = [bar EXCEPT !.address = a]
    /\ UNCHANGED <<desk, linked, config>>

(* Mutant: SSL may be unchecked under mTLS. *)
ToggleSslAlone ==
    /\ desk = "idle"
    /\ bar' = [bar EXCEPT !.ssl = ~@]
    /\ UNCHANGED <<desk, linked, config>>

(* The check boxes, with the handlers that keep them in step. *)
ToggleSsl ==
    /\ desk = "idle"
    /\ bar' = [bar EXCEPT !.ssl = ~@, !.mtls = @ /\ ~bar.ssl]
    /\ UNCHANGED <<desk, linked, config>>

ToggleMtls ==
    /\ desk = "idle"
    /\ bar' = [bar EXCEPT !.mtls = ~@, !.ssl = @ \/ ~bar.mtls]
    /\ UNCHANGED <<desk, linked, config>>

ClickConnect ==
    /\ desk = "idle" /\ desk' = "connecting"
    /\ UNCHANGED <<bar, linked, config>>

Connected ==
    /\ desk = "connecting" /\ desk' = "save" /\ linked' = TRUE
    /\ UNCHANGED <<bar, config>>

(* Mutant: the settings are saved before it is known that they work. *)
NotConnectedButSaved ==
    /\ desk = "connecting" /\ desk' = "save"
    /\ UNCHANGED <<bar, linked, config>>

NotConnected ==
    /\ desk = "connecting" /\ desk' = "idle"
    /\ UNCHANGED <<bar, linked, config>>

(* save(): the file is emptied when it is opened; a file that cannot be    *)
(* opened or written is not spoken of again.                               *)
Saved == desk' = (IF linked THEN "connected" ELSE "idle") /\ UNCHANGED <<bar, linked>>

OpenConfig ==
    /\ desk = "save" /\ desk' = "fill" /\ config' = Truncated
    /\ UNCHANGED <<bar, linked>>

OpenConfigFails == desk = "save" /\ Saved /\ UNCHANGED config

WriteConfig == desk = "fill" /\ Saved /\ config' = bar

WriteConfigFails == desk = "fill" /\ Saved /\ UNCHANGED config

ClickDisconnect ==
    /\ desk = "connected" /\ desk' = "idle" /\ linked' = FALSE
    /\ UNCHANGED <<bar, config>>

(* The application ends, or crashes in the middle of something. *)
EndDesk ==
    /\ desk # "down" /\ desk' = "down" /\ linked' = FALSE /\ bar' = Defaults
    /\ UNCHANGED config

(* What the desk does without the network. *)
DeskSteps ==
    \/ StartDesk \/ \E a \in Addresses : EnterAddress(a)
    \/ ToggleSsl \/ ToggleMtls \/ ClickConnect
    \/ OpenConfig \/ OpenConfigFails \/ WriteConfig \/ WriteConfigFails
    \/ ClickDisconnect \/ EndDesk

-----------------------------------------------------------------------------
(* mTLS is never asked for without the TLS it needs, in the bar or in the  *)
(* file, whatever was clicked, saved or cut off: connect() would leave it  *)
(* out without a word.                                                     *)
MtlsNeedsSsl ==
    /\ bar.mtls => bar.ssl
    /\ config \in Settings => (config.mtls => config.ssl)

DeskSettingsTypeOK ==
    /\ desk \in {"down", "idle", "connecting", "save", "fill", "connected"}
    /\ bar \in Settings /\ linked \in BOOLEAN
    /\ config = NoFile \/ config = Truncated \/ config \in Settings
    /\ MtlsNeedsSsl

(* The window starts with the defaults or with all of the settings that a  *)
(* connection was last made with and that were written to the end: the     *)
(* file gets no others, and no crash or failed write leaves a part of them.*)
SettingsProven ==
    [][/\ config' # config /\ config' \in Settings =>
             config' = Defaults \/ (linked /\ config' = bar)
       /\ desk = "down" /\ desk' # "down" => bar' \in {Defaults, config}]_deskVars
=============================================================================
