--------------------------- MODULE DeskConnection ---------------------------
(***************************************************************************)
(* The connection of minihildesk: AppController and its TcpClient, the     *)
(* read thread, and the window that shows whether there is a connection.   *)
(*                                                                         *)
(* Two threads.  The UI thread runs one GTK callback at a time to its end: *)
(* a click on the connect button, the poll timer, a dispatcher, the end of *)
(* the application.  The read thread sits in receiveLine().  They share    *)
(* m_running, the socket, the SSL object and, through Glib::Dispatcher,    *)
(* the queues of AppHome.  The server answers what it was sent and may     *)
(* hang up whenever it likes.                                              *)
(*                                                                         *)
(* One relay stands for the eight, and what a line carries is the level it *)
(* reports.  The log, its queue and its dispatcher are left out.           *)
(***************************************************************************)
EXTENDS Naturals, Sequences

CONSTANTS
    MaxAsked,   \* bound on the requests that are not answered and read yet
    MaxPipe     \* bound on the dispatcher's backlog for new UI work

ASSUME DeskAssumption == MaxAsked \in Nat \ {0} /\ MaxPipe \in Nat \ {0}

VARIABLES
    running,    \* AppController::m_running
    wasRunning, \* requestDisconnect's local of that name
    ui,         \* where the UI thread is; "idle" in the main loop
    goal,       \* what called requestDisconnect
    reader,     \* where readLoop is; "none" if m_readThread is not joinable
    fd,         \* TcpClient::m_socketFd >= 0
    ssl,        \* OpenSslSession::m_ssl is set (m_useSsl)
    up,         \* neither side has shut the connection down
    asked,      \* requests on their way to the server
    inbox,      \* answers the read thread has not read: reported levels
    pipe,       \* emissions of the dispatchers not delivered yet
    relayQueue, \* AppHome::m_relayQueue
    connState,  \* AppHome::m_connectionState
    label,      \* the window shows a connection: "Disconnect", all enabled
    lit         \* the widget shows the relay ON

net == <<fd, ssl, up, asked, inbox>>
view == <<label, lit>>
queues == <<pipe, relayQueue, connState>>
vars == <<running, wasRunning, ui, goal, reader, net, queues, view>>

Teardown == {"exchange", "shutdown", "join", "free", "tell"}
Connecting == {"connect", "run", "start", "announce", "query"}
Reading == {"test", "open", "receive", "process", "lost", "clear", "report"}

Init ==
    /\ running = FALSE /\ wasRunning = FALSE
    /\ ui = "idle" /\ goal = "disconnect" /\ reader = "none"
    /\ fd = FALSE /\ ssl = FALSE /\ up = FALSE /\ asked = 0 /\ inbox = <<>>
    /\ pipe = <<"connection">> /\ relayQueue = <<>> /\ connState = FALSE
    /\ label = FALSE /\ lit = FALSE

(* AppHome::onConnectionStateUpdated, on the thread that emits the signal. *)
TellConnection(c) ==
    /\ connState' = c /\ pipe' = Append(pipe, "connection")
    /\ UNCHANGED relayQueue

-----------------------------------------------------------------------------
(* The UI thread, in the main loop.                                        *)

UiGoes(pc) == ui' = pc /\ UNCHANGED <<running, wasRunning, reader>>

(* onConnectClicked: the socket decides what the click means. *)
Click ==
    /\ ui = "idle" /\ Len(pipe) < MaxPipe
    /\ UiGoes("exchange")
    /\ goal' = IF fd THEN "disconnect" ELSE "connect"
    /\ UNCHANGED <<net, queues, view>>

(* Application::on_shutdown. *)
Quit ==
    /\ ui = "idle"
    /\ UiGoes("exchange") /\ goal' = "quit"
    /\ UNCHANGED <<net, queues, view>>

(* sendJsonRpc: a send on a dead connection fails and changes nothing. *)
SendJsonRpc ==
    /\ asked' = IF fd /\ up THEN asked + 1 ELSE asked
    /\ UNCHANGED <<fd, ssl, up, inbox>>

(* A request of the timer or of a widget that is sensitive. *)
Request ==
    /\ ui = "idle" /\ (fd \/ label)
    /\ asked + Len(inbox) < MaxAsked /\ Len(pipe) < MaxPipe
    /\ SendJsonRpc
    /\ UNCHANGED <<running, wasRunning, ui, goal, reader, queues, view>>

(* onRelayDispatcher drains the queue into the widgets. *)
DispatchRelay ==
    /\ ui = "idle" /\ pipe # <<>> /\ Head(pipe) = "relay"
    /\ pipe' = Tail(pipe) /\ relayQueue' = <<>>
    /\ lit' = IF relayQueue = <<>> THEN lit ELSE relayQueue[Len(relayQueue)]
    /\ UNCHANGED <<running, wasRunning, ui, goal, reader, net, connState, label>>

(* onConnectionDispatcher shows m_connectionState as it is now. *)
DispatchConnection ==
    /\ ui = "idle" /\ pipe # <<>> /\ Head(pipe) = "connection"
    /\ pipe' = Tail(pipe)
    /\ label' = connState /\ lit' = (lit /\ connState)
    /\ UNCHANGED <<running, wasRunning, ui, goal, reader, net, relayQueue,
                   connState>>

-----------------------------------------------------------------------------
(* requestDisconnect.                                                      *)

(* Mutant: the window is told before the read thread is gone. *)
ExchangeTells ==
    /\ ui = "exchange"
    /\ wasRunning' = FALSE /\ running' = FALSE /\ ui' = "shutdown"
    /\ IF running THEN TellConnection(FALSE) ELSE UNCHANGED queues
    /\ UNCHANGED <<goal, reader, net, view>>

Exchange ==
    /\ ui = "exchange"
    /\ wasRunning' = running /\ running' = FALSE /\ ui' = "shutdown"
    /\ UNCHANGED <<goal, reader, net, queues, view>>

(* Mutant: nothing wakes the read thread up. *)
ShutdownNothing ==
    /\ ui = "shutdown"
    /\ UiGoes("join")
    /\ UNCHANGED <<goal, net, queues, view>>

ShutdownSocket ==
    /\ ui = "shutdown"
    /\ UiGoes("join") /\ up' = FALSE
    /\ UNCHANGED <<goal, fd, ssl, asked, inbox, queues, view>>

(* Mutant: only a thread that was running is joined. *)
JoinRunning ==
    /\ ui = "join" /\ (wasRunning => reader = "ended")
    /\ reader' = IF wasRunning THEN "none" ELSE reader
    /\ ui' = "free"
    /\ UNCHANGED <<running, wasRunning, goal, net, queues, view>>

(* Mutant: the socket is freed without waiting for the thread. *)
JoinNothing ==
    /\ ui = "join"
    /\ UiGoes("free")
    /\ UNCHANGED <<goal, net, queues, view>>

Join ==
    /\ ui = "join" /\ reader \in {"none", "ended"}
    /\ reader' = "none" /\ ui' = "free"
    /\ UNCHANGED <<running, wasRunning, goal, net, queues, view>>

(* Mutant: the SSL object is left behind. *)
FreeKeepsSsl ==
    /\ ui = "free"
    /\ UiGoes("tell")
    /\ fd' = FALSE /\ up' = FALSE /\ asked' = 0 /\ inbox' = <<>>
    /\ UNCHANGED <<ssl, goal, queues, view>>

(* TcpClient::disconnect and OpenSslSession::disconnect. *)
Free ==
    /\ ui = "free"
    /\ UiGoes("tell")
    /\ fd' = FALSE /\ ssl' = FALSE /\ up' = FALSE /\ asked' = 0 /\ inbox' = <<>>
    /\ UNCHANGED <<goal, queues, view>>

(* The caller goes on: to connect, to the main loop, or out of it. *)
Caller == [connect |-> "connect", disconnect |-> "idle", quit |-> "gone"]

Tell ==
    /\ ui = "tell"
    /\ ui' = Caller[goal] /\ goal' = "disconnect" /\ wasRunning' = FALSE
    /\ IF wasRunning THEN TellConnection(FALSE) ELSE UNCHANGED queues
    /\ UNCHANGED <<running, reader, net, view>>

-----------------------------------------------------------------------------
(* The rest of requestConnect.                                             *)

ConnectOk(useSsl) ==
    /\ ui = "connect"
    /\ UiGoes("run")
    /\ fd' = TRUE /\ up' = TRUE /\ ssl' = useSsl
    /\ UNCHANGED <<asked, inbox, goal, queues, view>>

(* No socket, bad address, refused, no handshake: everything is undone. *)
ConnectFails ==
    /\ ui = "connect"
    /\ UiGoes("idle")
    /\ TellConnection(FALSE)
    /\ UNCHANGED <<goal, net, view>>

Run ==
    /\ ui = "run"
    /\ running' = TRUE /\ ui' = "start"
    /\ UNCHANGED <<wasRunning, goal, reader, net, queues, view>>

StartReader ==
    /\ ui = "start"
    /\ reader' = "test" /\ ui' = "announce"
    /\ UNCHANGED <<running, wasRunning, goal, net, queues, view>>

Announce ==
    /\ ui = "announce"
    /\ UiGoes("query")
    /\ TellConnection(TRUE)
    /\ UNCHANGED <<goal, net, view>>

QueryAllRelays ==
    /\ ui = "query"
    /\ UiGoes("idle")
    /\ SendJsonRpc
    /\ UNCHANGED <<goal, queues, view>>

UiNext ==
    \/ Click \/ Quit \/ Request \/ DispatchRelay \/ DispatchConnection
    \/ Exchange \/ ShutdownSocket \/ Join \/ Free \/ Tell
    \/ \E useSsl \in BOOLEAN : ConnectOk(useSsl)
    \/ ConnectFails \/ Run \/ StartReader \/ Announce \/ QueryAllRelays

-----------------------------------------------------------------------------
(* The read thread.                                                        *)

ReaderGoes(pc) == reader' = pc /\ UNCHANGED <<wasRunning, ui, goal, view>>

(* while (m_running) *)
ReaderTest ==
    /\ reader = "test"
    /\ ReaderGoes(IF running THEN "open" ELSE "ended")
    /\ UNCHANGED <<running, net, queues>>

(* isOpen(), or sleep and test again. *)
ReaderOpen ==
    /\ reader = "open"
    /\ ReaderGoes(IF fd THEN "receive" ELSE "test")
    /\ UNCHANGED <<running, net, queues>>

ReceiveLine ==
    /\ reader = "receive" /\ inbox # <<>>
    /\ ReaderGoes("process")
    /\ UNCHANGED <<running, net, queues>>

(* The end of the stream, or an error that outruns what was in it. *)
ReceiveNothing ==
    /\ reader = "receive" /\ ~up
    /\ ReaderGoes("lost")
    /\ UNCHANGED <<running, net, queues>>

(* processResponse and AppHome::onRelayStateUpdated. *)
ProcessResponse ==
    /\ reader = "process"
    /\ ReaderGoes("test")
    /\ inbox' = Tail(inbox)
    /\ relayQueue' = Append(relayQueue, Head(inbox))
    /\ pipe' = Append(pipe, "relay")
    /\ UNCHANGED <<running, fd, ssl, up, asked, connState>>

(* Mutant: an empty line is skipped like a line without a result. *)
LostGoesOn ==
    /\ reader = "lost"
    /\ ReaderGoes("test")
    /\ UNCHANGED <<running, net, queues>>

(* if (m_running), which the UI thread may change before the next step. *)
Lost ==
    /\ reader = "lost"
    /\ ReaderGoes(IF running THEN "clear" ELSE "ended")
    /\ UNCHANGED <<running, net, queues>>

(* Mutant: the loss is reported, m_running left alone. *)
ClearNothing ==
    /\ reader = "clear"
    /\ ReaderGoes("report")
    /\ UNCHANGED <<running, net, queues>>

Clear ==
    /\ reader = "clear"
    /\ running' = FALSE /\ ReaderGoes("report")
    /\ UNCHANGED <<net, queues>>

Report ==
    /\ reader = "report"
    /\ ReaderGoes("ended")
    /\ TellConnection(FALSE)
    /\ UNCHANGED <<running, net>>

ReaderNext ==
    \/ ReaderTest \/ ReaderOpen \/ ReceiveLine \/ ReceiveNothing
    \/ ProcessResponse \/ Lost \/ Clear \/ Report

-----------------------------------------------------------------------------
(* The server.                                                             *)

Answer(level) ==
    /\ up /\ asked > 0
    /\ asked' = asked - 1 /\ inbox' = Append(inbox, level)
    /\ UNCHANGED <<running, wasRunning, ui, goal, reader, fd, ssl, up, queues,
                   view>>

HangUp ==
    /\ up /\ up' = FALSE
    /\ UNCHANGED <<running, wasRunning, ui, goal, reader, fd, ssl, asked, inbox,
                   queues, view>>

ServerNext == HangUp \/ \E level \in BOOLEAN : Answer(level)

Next == UiNext \/ ReaderNext \/ ServerNext

Spec == Init /\ [][Next]_vars

(* Both threads run.  Fairness says nothing of the user, of the timer or   *)
(* of the server: the UI thread is only made to finish the callback it is  *)
(* in and to deliver what was emitted.                                     *)
Fairness ==
    /\ WF_vars(UiNext /\ ui # "idle")
    /\ WF_vars(DispatchRelay \/ DispatchConnection)
    /\ WF_vars(ReaderNext)

FairSpec == Spec /\ Fairness

-----------------------------------------------------------------------------
(* The types, and what one field says of another: an SSL object and a live *)
(* connection belong to an open socket (TcpClient::disconnect frees both). *)
DeskTypeOK ==
    /\ running \in BOOLEAN /\ wasRunning \in BOOLEAN
    /\ ui \in {"idle", "gone"} \cup Teardown \cup Connecting
    /\ goal \in {"disconnect", "connect", "quit"}
    /\ reader \in {"none", "ended"} \cup Reading
    /\ fd \in BOOLEAN /\ ssl \in BOOLEAN /\ up \in BOOLEAN
    /\ (ssl \/ up => fd)
    /\ asked \in 0..MaxAsked /\ inbox \in Seq(BOOLEAN)
    /\ pipe \in Seq({"relay", "connection"}) /\ relayQueue \in Seq(BOOLEAN)
    /\ connState \in BOOLEAN /\ label \in BOOLEAN /\ lit \in BOOLEAN

(* disconnect() frees the socket and the SSL object only when the read     *)
(* thread no longer reads from them: "Safe to free memory now that read    *)
(* thread is finished" (app_controller.cc:141).                            *)
SocketHeldWhileReading == reader \in Reading => fd

(* m_readThread is assigned only when it is not joinable (anything else is *)
(* std::terminate), and no read thread is left to call into the window     *)
(* when the application has shut down.                                     *)
ReaderJoined == ui \in {"start", "gone"} => reader = "none"

(* Everything emitted is delivered and no callback runs. *)
Settled == ui = "idle" /\ pipe = <<>> /\ reader \in {"none", "ended"}

(* A window that shows no connection shows no relay ON: what the read      *)
(* thread queued cannot overtake the reset that comes with the             *)
(* disconnection (home.cc:294-299).                                        *)
DisconnectedIsDark == Settled /\ ~label => ~lit

(* A connection in use is shown as one: once everything emitted has been   *)
(* delivered, no report of an earlier loss or disconnection has overtaken  *)
(* the news of the connection that was made after it.                      *)
ConnectedIsShown == ui = "idle" /\ pipe = <<>> /\ running => label

(* A click that disconnects, and the end of the application, do not hang   *)
(* on a read thread that waits for a silent server.                        *)
DisconnectEnds == (ui \in Teardown) ~> (ui \notin Teardown)

(* A connection that breaks while it is in use is noticed. *)
LossNoticed == (running /\ ~up) ~> ~running

(* The loss of the connection is handled by the read thread (tcp_client.cc *)
(* :136-137), so that isConnected() is false after it and the timer polls  *)
(* only "if connected" (home.cc:183).                                      *)
LostIsClosed == Settled /\ ~running => ~fd
=============================================================================
