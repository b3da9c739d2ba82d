------------------------ MODULE DeskConnectionProofs ------------------------
(***************************************************************************)
(* What the two threads of the desk keep for every bound on requests and   *)
(* backlog: their types, the socket while it is read from, the read thread *)
(* joined before another is started and before the window goes, and what   *)
(* the window shows once everything emitted has been delivered.            *)
(***************************************************************************)
EXTENDS DeskConnection, SequenceTheorems, TLAPS

(* Where the UI thread has joined the reader and not started another, and  *)
(* where it has an open socket.                                            *)
Joined == {"free", "tell", "connect", "run", "start", "gone"}
Opened == {"run", "start", "announce", "query"}

(* DeskTypeOK in two parts, for the steps that touch only one of them.     *)
Scalars ==
    /\ running \in BOOLEAN /\ wasRunning \in BOOLEAN
    /\ ui \in {"idle", "gone"} \cup Teardown \cup Connecting
    /\ goal \in {"disconnect", "connect", "quit"}
    /\ reader \in {"none", "ended"} \cup Reading
    /\ fd \in BOOLEAN /\ ssl \in BOOLEAN /\ up \in BOOLEAN
    /\ (ssl \/ up => fd)
    /\ connState \in BOOLEAN /\ label \in BOOLEAN /\ lit \in BOOLEAN

Queued ==
    /\ asked \in 0..MaxAsked /\ inbox \in Seq(BOOLEAN)
    /\ pipe \in Seq({"relay", "connection"}) /\ relayQueue \in Seq(BOOLEAN)

(***************************************************************************)
(* A reader in its loop has an open socket; the UI thread frees the socket *)
(* only where it has joined the reader, and starts a reader only where it  *)
(* has opened one.  The counters are bounded because nothing is asked on a *)
(* connection before its first query, and a line is in the reader's hands  *)
(* only while it is in the inbox.                                          *)
(***************************************************************************)
Threads ==
    /\ SocketHeldWhileReading
    /\ ui \in Joined => reader = "none"
    /\ ui \in Opened => fd
    /\ ui \in {"tell"} \cup Connecting => asked = 0 /\ inbox = <<>>
    /\ reader = "process" => inbox # <<>>

(***************************************************************************)
(* What the window shows and what is on its way to it.  Without news under *)
(* way the label is connState; levels that wait in the queue have an       *)
(* emission under way; while connState is FALSE the last emission is that  *)
(* of a connection change, or the window is dark already.  connState is    *)
(* TRUE from Announce on for as long as the connection runs and as long as *)
(* the reader reads, because the report of a loss is the reader's last     *)
(* step and the next reader is started only after it was joined.           *)
(***************************************************************************)
NewsPending == \E i \in 1..Len(pipe) : pipe[i] = "connection"
LevelPending == \E i \in 1..Len(pipe) : pipe[i] = "relay"
EndsWithNews == pipe # <<>> /\ pipe[Len(pipe)] = "connection"

Shown ==
    /\ NewsPending \/ label = connState
    /\ relayQueue # <<>> => LevelPending
    /\ connState \/ EndsWithNews \/ (pipe = <<>> /\ ~lit)

Emitted ==
    /\ running => ui \in {"idle", "exchange", "start", "announce", "query"}
    /\ running /\ ui \notin {"start", "announce"} => connState
    /\ reader = "report" => ~running
    /\ reader \in Reading /\ ui # "announce" => connState

IInv == DeskTypeOK /\ Threads /\ Emitted /\ Shown

USE DEF Teardown, Connecting, Reading, Joined, Opened

LEMMA TypesInParts == DeskTypeOK <=> Scalars /\ Queued
  BY DEF DeskTypeOK, Scalars, Queued

-----------------------------------------------------------------------------
(* The emissions under way after one more, and after one was delivered.    *)
LEMMA Emission ==
    ASSUME NEW s \in Seq({"relay", "connection"}),
           NEW e \in {"relay", "connection"}
    PROVE  /\ Append(s, e) \in Seq({"relay", "connection"})
           /\ Append(s, e) # <<>> /\ Append(s, e)[Len(Append(s, e))] = e
           /\ \A x : (\E i \in 1..Len(s) : s[i] = x)
                        => \E i \in 1..Len(Append(s, e)) : Append(s, e)[i] = x
           /\ \E i \in 1..Len(Append(s, e)) : Append(s, e)[i] = e
<1> DEFINE t == Append(s, e)
<1>1. /\ t \in Seq({"relay", "connection"}) /\ t # <<>>
      /\ Len(t) = Len(s) + 1 /\ t[Len(s) + 1] = e
      /\ \A i \in 1..Len(s) : t[i] = s[i]
  BY AppendProperties
<1>2. Len(s) \in Nat
  BY LenProperties
<1> HIDE DEF t
<1>3. t[Len(t)] = e /\ \E i \in 1..Len(t) : t[i] = e
  BY <1>1, <1>2
<1>4. ASSUME NEW x, NEW i \in 1..Len(s), s[i] = x
      PROVE  \E j \in 1..Len(t) : t[j] = x
  BY <1>1, <1>2, <1>4
<1> QED
  BY <1>1, <1>3, <1>4 DEF t

LEMMA Delivery ==
    ASSUME NEW s \in Seq({"relay", "connection"}), s # <<>>
    PROVE  /\ Tail(s) \in Seq({"relay", "connection"})
           /\ \A x : (\E i \in 1..Len(s) : s[i] = x) /\ Head(s) # x
                        => \E i \in 1..Len(Tail(s)) : Tail(s)[i] = x
           /\ s[Len(s)] # Head(s)
                 => Tail(s) # <<>> /\ Tail(s)[Len(Tail(s))] = s[Len(s)]
           /\ Tail(s) # <<>> => Tail(s)[Len(Tail(s))] = s[Len(s)]
<1> DEFINE t == Tail(s)
<1>1. /\ t \in Seq({"relay", "connection"}) /\ Len(t) = Len(s) - 1
      /\ \A i \in 1..Len(t) : t[i] = s[i + 1]
  BY HeadTailProperties
<1>2. Len(s) \in Nat \ {0} /\ Head(s) = s[1]
  BY LenProperties, EmptySeq
<1>3. t = <<>> <=> Len(t) = 0
  BY <1>1, EmptySeq
<1> HIDE DEF t
<1>4. ASSUME NEW x, NEW i \in 1..Len(s), s[i] = x, s[1] # x
      PROVE  \E j \in 1..Len(t) : t[j] = x
  <2>1. i - 1 \in 1..Len(t) /\ (i - 1) + 1 = i
    BY <1>1, <1>2, <1>4
  <2>2. t[i - 1] = s[(i - 1) + 1]
    BY <1>1, <2>1
  <2> QED
    BY <1>4, <2>1, <2>2
<1>5. t # <<>> => t[Len(t)] = s[Len(s)]
  BY <1>1, <1>2, <1>3
<1>6. s[Len(s)] # s[1] => t # <<>>
  BY <1>1, <1>2, <1>3
<1> QED
  BY <1>1, <1>2, <1>4, <1>5, <1>6 DEF t

-----------------------------------------------------------------------------
(* The types.                                                              *)

(* sendJsonRpc keeps the number of requests within its bound wherever      *)
(* there is room for one more.                                             *)
LEMMA SendBounded ==
    ASSUME Queued, asked < MaxAsked, SendJsonRpc
    PROVE  asked' \in 0..MaxAsked
  BY DeskAssumption DEF Queued, SendJsonRpc

(* Telling the window keeps the queues in their types.                     *)
LEMMA TellTypes ==
    ASSUME Queued, NEW c \in BOOLEAN, TellConnection(c)
    PROVE  /\ pipe' \in Seq({"relay", "connection"})
           /\ relayQueue' \in Seq(BOOLEAN) /\ connState' = c
  BY Emission DEF Queued, TellConnection

LEMMA ScalarsInit == Init => Scalars
  BY DEF Init, Scalars

LEMMA QueuedInit == Init => Queued
<1>1. <<>> \in Seq(BOOLEAN) /\ <<"connection">> \in Seq({"relay", "connection"})
  BY EmptySeq
<1>2. 0 \in 0..MaxAsked
  BY DeskAssumption
<1> QED
  BY <1>1, <1>2 DEF Init, Queued

(* The level a widget is given is one the server reported.                 *)
LEMMA LitType ==
    ASSUME Scalars, Queued, DispatchRelay
    PROVE  lit' \in BOOLEAN
<1>1. relayQueue # <<>> => relayQueue[Len(relayQueue)] \in BOOLEAN
  BY ElementOfSeq, EmptySeq DEF Queued
<1> QED
  BY <1>1 DEF Scalars, DispatchRelay

LEMMA ScalarsUi ==
    ASSUME Scalars, Queued, UiNext
    PROVE  Scalars'
<1>1. CASE Click
  BY <1>1 DEF Scalars, Click, UiGoes, net, queues, view
<1>2. CASE Quit
  BY <1>2 DEF Scalars, Quit, UiGoes, net, queues, view
<1>3. CASE Request
  BY <1>3 DEF Scalars, Request, SendJsonRpc, queues, view
<1>4. CASE DispatchRelay
  BY <1>4, LitType DEF Scalars, DispatchRelay, net
<1>5. CASE DispatchConnection
  BY <1>5 DEF Scalars, DispatchConnection, net
<1>6. CASE Exchange
  BY <1>6 DEF Scalars, Exchange, net, queues, view
<1>7. CASE ShutdownSocket
  BY <1>7 DEF Scalars, ShutdownSocket, UiGoes, queues, view
<1>8. CASE Join
  BY <1>8 DEF Scalars, Join, net, queues, view
<1>9. CASE Free
  BY <1>9 DEF Scalars, Free, UiGoes, queues, view
<1>10. CASE Tell
  <2>1. ui' \in {"connect", "idle", "gone"}
    BY <1>10 DEF Scalars, Tell, Caller
  <2>2. connState' \in BOOLEAN
    BY <1>10 DEF Scalars, Tell, TellConnection, queues
  <2> QED
    BY <1>10, <2>1, <2>2 DEF Scalars, Tell, net, view
<1>11. ASSUME NEW useSsl \in BOOLEAN, ConnectOk(useSsl)
       PROVE  Scalars'
  BY <1>11 DEF Scalars, ConnectOk, UiGoes, queues, view
<1>12. CASE ConnectFails
  BY <1>12 DEF Scalars, ConnectFails, TellConnection, UiGoes, net, view
<1>13. CASE Run
  BY <1>13 DEF Scalars, Run, net, queues, view
<1>14. CASE StartReader
  BY <1>14 DEF Scalars, StartReader, net, queues, view
<1>15. CASE Announce
  BY <1>15 DEF Scalars, Announce, TellConnection, UiGoes, net, view
<1>16. CASE QueryAllRelays
  BY <1>16 DEF Scalars, QueryAllRelays, SendJsonRpc, UiGoes, queues, view
<1> QED
  BY <1>1, <1>2, <1>3, <1>4, <1>5, <1>6, <1>7, <1>8, <1>9, <1>10, <1>11, <1>12,
     <1>13, <1>14, <1>15, <1>16 DEF UiNext

LEMMA ScalarsOthers ==
    ASSUME Scalars, ReaderNext \/ ServerNext
    PROVE  Scalars'
<1>1. CASE ReaderTest
  BY <1>1 DEF Scalars, ReaderTest, ReaderGoes, net, queues, view
<1>2. CASE ReaderOpen
  BY <1>2 DEF Scalars, ReaderOpen, ReaderGoes, net, queues, view
<1>3. CASE ReceiveLine
  BY <1>3 DEF Scalars, ReceiveLine, ReaderGoes, net, queues, view
<1>4. CASE ReceiveNothing
  BY <1>4 DEF Scalars, ReceiveNothing, ReaderGoes, net, queues, view
<1>5. CASE ProcessResponse
  BY <1>5 DEF Scalars, ProcessResponse, ReaderGoes, view
<1>6. CASE Lost
  BY <1>6 DEF Scalars, Lost, ReaderGoes, net, queues, view
<1>7. CASE Clear
  BY <1>7 DEF Scalars, Clear, ReaderGoes, net, queues, view
<1>8. CASE Report
  BY <1>8 DEF Scalars, Report, TellConnection, ReaderGoes, net, view
<1>9. ASSUME NEW level \in BOOLEAN, Answer(level)
      PROVE  Scalars'
  BY <1>9 DEF Scalars, Answer, queues, view
<1>10. CASE HangUp
  <2>1. up' = FALSE /\ (ssl' \/ up' => fd')
    BY <1>10 DEF Scalars, HangUp
  <2>2. UNCHANGED <<running, wasRunning, ui, goal, reader, fd, ssl, connState,
                    label, lit>>
    BY <1>10 DEF HangUp, queues, view
  <2>3. up' \in BOOLEAN
    BY <2>1
  <2> QED
    BY <2>1, <2>2, <2>3 DEF Scalars
<1> QED
  BY <1>1, <1>2, <1>3, <1>4, <1>5, <1>6, <1>7, <1>8, <1>9, <1>10
  DEF ReaderNext, ServerNext

(* Steps that leave requests and queues alone.                             *)
LEMMA QueuedUnchanged ==
    ASSUME Queued, UNCHANGED <<asked, inbox, pipe, relayQueue>>
    PROVE  Queued'
  BY DEF Queued

LEMMA QueuedUi ==
    ASSUME Queued, Threads, UiNext
    PROVE  Queued'
<1>1. CASE Click \/ Quit \/ Exchange \/ ShutdownSocket \/ Join \/ Run \/ StartReader
  BY <1>1, QueuedUnchanged
  DEF Click, Quit, Exchange, ShutdownSocket, Join, Run, StartReader, net, queues
<1>2. ASSUME NEW useSsl \in BOOLEAN, ConnectOk(useSsl)
      PROVE  Queued'
  BY <1>2, QueuedUnchanged DEF ConnectOk, queues
<1>3. CASE Request
  <2>1. asked < MaxAsked
    <3>1. Len(inbox) \in Nat /\ asked \in Nat /\ MaxAsked \in Nat
      BY DeskAssumption, LenProperties DEF Queued
    <3> QED
      BY <1>3, <3>1 DEF Request
  <2>2. asked' \in 0..MaxAsked
    BY <1>3, <2>1, SendBounded DEF Request
  <2> QED
    BY <1>3, <2>2 DEF Queued, Request, SendJsonRpc, queues
<1>4. CASE DispatchRelay
  <2>1. Tail(pipe) \in Seq({"relay", "connection"}) /\ <<>> \in Seq(BOOLEAN)
    BY <1>4, Delivery, EmptySeq DEF Queued, DispatchRelay
  <2> QED
    BY <1>4, <2>1 DEF Queued, DispatchRelay, net
<1>5. CASE DispatchConnection
  <2>1. Tail(pipe) \in Seq({"relay", "connection"})
    BY <1>5, Delivery DEF Queued, DispatchConnection
  <2> QED
    BY <1>5, <2>1 DEF Queued, DispatchConnection, net
<1>6. CASE Free
  <2>1. inbox' \in Seq(BOOLEAN) /\ asked' \in 0..MaxAsked
    BY <1>6, EmptySeq, DeskAssumption DEF Free
  <2> QED
    BY <1>6, <2>1 DEF Queued, Free, queues
<1>7. CASE Tell
  <2>1. CASE wasRunning
    <3>1. TellConnection(FALSE)
      BY <1>7, <2>1 DEF Tell
    <3>2. UNCHANGED <<asked, inbox>>
      BY <1>7 DEF Tell, net
    <3> QED
      BY <3>1, <3>2, TellTypes DEF Queued
  <2>2. CASE ~wasRunning
    BY <1>7, <2>2, QueuedUnchanged DEF Tell, queues, net
  <2> QED
    BY <2>1, <2>2
<1>8. CASE ConnectFails \/ Announce
  <2>1. PICK c \in BOOLEAN : TellConnection(c)
    BY <1>8 DEF ConnectFails, Announce
  <2>2. UNCHANGED <<asked, inbox>>
    BY <1>8 DEF ConnectFails, Announce, net
  <2> QED
    BY <2>1, <2>2, TellTypes DEF Queued
<1>9. CASE QueryAllRelays
  <2>1. asked' \in 0..MaxAsked
    BY <1>9, SendBounded, DeskAssumption DEF Threads, QueryAllRelays
  <2> QED
    BY <1>9, <2>1 DEF Queued, QueryAllRelays, SendJsonRpc, queues
<1> QED
  BY <1>1, <1>2, <1>3, <1>4, <1>5, <1>6, <1>7, <1>8, <1>9 DEF UiNext

LEMMA QueuedOthers ==
    ASSUME Queued, Threads, ReaderNext \/ ServerNext
    PROVE  Queued'
<1>1. CASE ReaderTest \/ ReaderOpen \/ ReceiveLine \/ ReceiveNothing \/ Lost \/ Clear
  BY <1>1, QueuedUnchanged
  DEF ReaderTest, ReaderOpen, ReceiveLine, ReceiveNothing, Lost, Clear, net, queues
<1>2. CASE ProcessResponse
  <2>1. inbox # <<>> /\ inbox \in Seq(BOOLEAN)
    BY <1>2 DEF Queued, Threads, ProcessResponse
  <2>2. Head(inbox) \in BOOLEAN /\ Tail(inbox) \in Seq(BOOLEAN)
    BY <2>1, HeadTailProperties
  <2>3. Append(relayQueue, Head(inbox)) \in Seq(BOOLEAN)
    BY <2>2, AppendProperties DEF Queued
  <2>4. Append(pipe, "relay") \in Seq({"relay", "connection"})
    BY Emission DEF Queued
  <2> QED
    BY <1>2, <2>2, <2>3, <2>4 DEF Queued, ProcessResponse
<1>3. CASE Report
  <2>1. TellConnection(FALSE) /\ UNCHANGED <<asked, inbox>>
    BY <1>3 DEF Report, net
  <2> QED
    BY <2>1, TellTypes DEF Queued
<1>4. ASSUME NEW level \in BOOLEAN, Answer(level)
      PROVE  Queued'
  <2>1. asked' \in 0..MaxAsked
    BY <1>4, DeskAssumption DEF Queued, Answer
  <2>2. inbox' \in Seq(BOOLEAN)
    BY <1>4, AppendProperties DEF Queued, Answer
  <2> QED
    BY <1>4, <2>1, <2>2 DEF Queued, Answer, queues
<1>5. CASE HangUp
  BY <1>5, QueuedUnchanged DEF HangUp, queues
<1> QED
  BY <1>1, <1>2, <1>3, <1>4, <1>5 DEF ReaderNext, ServerNext

-----------------------------------------------------------------------------
(* The two threads and the socket.                                         *)

LEMMA ThreadsInit == Init => Threads
  BY DEF Init, Threads, SocketHeldWhileReading

LEMMA ThreadsUi ==
    ASSUME Threads, Scalars, UiNext
    PROVE  Threads'
<1> USE DEF Threads, SocketHeldWhileReading
<1>1. CASE Click
  BY <1>1 DEF Click, UiGoes, net
<1>2. CASE Quit
  BY <1>2 DEF Quit, UiGoes, net
<1>3. CASE Request
  BY <1>3 DEF Request, SendJsonRpc
<1>4. CASE DispatchRelay \/ DispatchConnection
  BY <1>4 DEF DispatchRelay, DispatchConnection, net
<1>5. CASE Exchange
  BY <1>5 DEF Exchange, net
<1>6. CASE ShutdownSocket
  BY <1>6 DEF ShutdownSocket, UiGoes
<1>7. CASE Join
  BY <1>7 DEF Join, net
<1>8. CASE Free
  BY <1>8 DEF Free, UiGoes
<1>9. CASE Tell
  <2>1. ui' \in {"connect", "idle", "gone"}
    BY <1>9 DEF Scalars, Tell, Caller
  <2> QED
    BY <1>9, <2>1 DEF Tell, net
<1>10. ASSUME NEW useSsl \in BOOLEAN, ConnectOk(useSsl)
       PROVE  Threads'
  BY <1>10 DEF ConnectOk, UiGoes
<1>11. CASE ConnectFails
  BY <1>11 DEF ConnectFails, UiGoes, net
<1>12. CASE Run
  BY <1>12 DEF Run, net
<1>13. CASE StartReader
  BY <1>13 DEF StartReader, net
<1>14. CASE Announce
  BY <1>14 DEF Announce, UiGoes, net
<1>15. CASE QueryAllRelays
  BY <1>15 DEF QueryAllRelays, UiGoes, SendJsonRpc
<1> QED
  BY <1>1, <1>2, <1>3, <1>4, <1>5, <1>6, <1>7, <1>8, <1>9, <1>10, <1>11, <1>12,
     <1>13, <1>14, <1>15 DEF UiNext

LEMMA ThreadsOthers ==
    ASSUME Threads, Queued, ReaderNext \/ ServerNext
    PROVE  Threads'
<1> USE DEF Threads, SocketHeldWhileReading
<1>1. CASE ReaderTest
  BY <1>1 DEF ReaderTest, ReaderGoes, net
<1>2. CASE ReaderOpen
  BY <1>2 DEF ReaderOpen, ReaderGoes, net
<1>3. CASE ReceiveLine
  BY <1>3 DEF ReceiveLine, ReaderGoes, net
<1>4. CASE ReceiveNothing
  BY <1>4 DEF ReceiveNothing, ReaderGoes, net
<1>5. CASE ProcessResponse
  BY <1>5 DEF ProcessResponse, ReaderGoes
<1>6. CASE Lost
  BY <1>6 DEF Lost, ReaderGoes, net
<1>7. CASE Clear
  BY <1>7 DEF Clear, ReaderGoes, net
<1>8. CASE Report
  BY <1>8 DEF Report, ReaderGoes, net
<1>9. ASSUME NEW level \in BOOLEAN, Answer(level)
      PROVE  Threads'
  <2>1. inbox' # <<>> /\ asked > 0
    BY <1>9, AppendProperties DEF Queued, Answer
  <2> QED
    BY <1>9, <2>1 DEF Answer
<1>10. CASE HangUp
  BY <1>10 DEF HangUp
<1> QED
  BY <1>1, <1>2, <1>3, <1>4, <1>5, <1>6, <1>7, <1>8, <1>9, <1>10
  DEF ReaderNext, ServerNext

-----------------------------------------------------------------------------
(* What has been emitted.                                                  *)

LEMMA EmittedInit == Init => Emitted
  BY DEF Init, Emitted

LEMMA EmittedUi ==
    ASSUME Emitted, Threads, Scalars, UiNext
    PROVE  Emitted'
<1> USE DEF Emitted
<1>1. CASE Click
  BY <1>1 DEF Click, UiGoes, queues
<1>2. CASE Quit
  BY <1>2 DEF Quit, UiGoes, queues
<1>3. CASE Request
  BY <1>3 DEF Request, queues
<1>4. CASE DispatchRelay \/ DispatchConnection
  BY <1>4 DEF DispatchRelay, DispatchConnection
<1>5. CASE Exchange
  BY <1>5 DEF Exchange, queues
<1>6. CASE ShutdownSocket
  BY <1>6 DEF ShutdownSocket, UiGoes, queues
<1>7. CASE Join
  BY <1>7 DEF Join, queues
<1>8. CASE Free
  BY <1>8 DEF Free, UiGoes, queues
<1>9. CASE Tell
  BY <1>9 DEF Tell, Threads
<1>10. ASSUME NEW useSsl \in BOOLEAN, ConnectOk(useSsl)
       PROVE  Emitted'
  BY <1>10 DEF ConnectOk, UiGoes, queues
<1>11. CASE ConnectFails
  BY <1>11 DEF ConnectFails, UiGoes, Threads
<1>12. CASE Run
  BY <1>12 DEF Run, queues, Threads
<1>13. CASE StartReader
  BY <1>13 DEF StartReader, queues
<1>14. CASE Announce
  BY <1>14 DEF Announce, UiGoes, TellConnection
<1>15. CASE QueryAllRelays
  BY <1>15 DEF QueryAllRelays, UiGoes, queues
<1> QED
  BY <1>1, <1>2, <1>3, <1>4, <1>5, <1>6, <1>7, <1>8, <1>9, <1>10, <1>11, <1>12,
     <1>13, <1>14, <1>15 DEF UiNext

LEMMA EmittedOthers ==
    ASSUME Emitted, ReaderNext \/ ServerNext
    PROVE  Emitted'
<1> USE DEF Emitted
<1>1. CASE ReaderTest
  BY <1>1 DEF ReaderTest, ReaderGoes, queues
<1>2. CASE ReaderOpen
  BY <1>2 DEF ReaderOpen, ReaderGoes, queues
<1>3. CASE ReceiveLine
  BY <1>3 DEF ReceiveLine, ReaderGoes, queues
<1>4. CASE ReceiveNothing
  BY <1>4 DEF ReceiveNothing, ReaderGoes, queues
<1>5. CASE ProcessResponse
  BY <1>5 DEF ProcessResponse, ReaderGoes
<1>6. CASE Lost
  BY <1>6 DEF Lost, ReaderGoes, queues
<1>7. CASE Clear
  BY <1>7 DEF Clear, ReaderGoes, queues
<1>8. CASE Report
  BY <1>8 DEF Report, ReaderGoes
<1>9. ASSUME NEW level \in BOOLEAN, Answer(level)
      PROVE  Emitted'
  BY <1>9 DEF Answer, queues
<1>10. CASE HangUp
  BY <1>10 DEF HangUp, queues
<1> QED
  BY <1>1, <1>2, <1>3, <1>4, <1>5, <1>6, <1>7, <1>8, <1>9, <1>10
  DEF ReaderNext, ServerNext

-----------------------------------------------------------------------------
(* What the window shows.                                                  *)

LEMMA ShownInit == Init => Shown
<1> SUFFICES ASSUME Init PROVE Shown
  OBVIOUS
<1>1. pipe = <<"connection">> /\ relayQueue = <<>>
  BY DEF Init
<1>2. NewsPending /\ EndsWithNews
  BY <1>1 DEF NewsPending, EndsWithNews
<1> QED
  BY <1>1, <1>2 DEF Shown

LEMMA ShownUnchanged ==
    ASSUME Shown, UNCHANGED <<queues, view>>
    PROVE  Shown'
  BY DEF Shown, NewsPending, LevelPending, EndsWithNews, queues, view

LEMMA ShownTold ==
    ASSUME Shown, Queued, NEW c \in BOOLEAN, TellConnection(c), UNCHANGED view
    PROVE  Shown'
<1>1. pipe' = Append(pipe, "connection") /\ UNCHANGED relayQueue
  BY DEF TellConnection
<1>2. pipe \in Seq({"relay", "connection"})
  BY DEF Queued
<1>3. NewsPending' /\ EndsWithNews'
  BY <1>1, <1>2, Emission DEF NewsPending, EndsWithNews
<1>4. LevelPending => LevelPending'
  BY <1>1, <1>2, Emission DEF LevelPending
<1> QED
  BY <1>1, <1>3, <1>4 DEF Shown

LEMMA ShownDispatched ==
    ASSUME Shown, Queued, Scalars, DispatchRelay \/ DispatchConnection
    PROVE  Shown'
<1>1. /\ pipe \in Seq({"relay", "connection"}) /\ pipe # <<>>
      /\ pipe' = Tail(pipe) /\ UNCHANGED connState
  BY DEF DispatchRelay, DispatchConnection, Queued
<1>2. EndsWithNews => EndsWithNews' \/ (pipe' = <<>> /\ Head(pipe) = "connection")
  BY <1>1, Delivery DEF EndsWithNews
<1>3. CASE DispatchRelay
  <2>1. Head(pipe) = "relay" /\ UNCHANGED label /\ relayQueue' = <<>>
    BY <1>3 DEF DispatchRelay
  <2>2. NewsPending => NewsPending'
    BY <1>1, <2>1, Delivery DEF NewsPending
  <2>3. EndsWithNews => EndsWithNews'
    BY <1>2, <2>1
  <2> QED
    BY <1>1, <2>1, <2>2, <2>3 DEF Shown
<1>4. CASE DispatchConnection
  <2>1. /\ Head(pipe) = "connection" /\ label' = connState
        /\ UNCHANGED relayQueue /\ (lit' => connState)
    BY <1>4 DEF DispatchConnection, Scalars
  <2>2. LevelPending => LevelPending'
    BY <1>1, <2>1, Delivery DEF LevelPending
  <2> QED
    BY <1>1, <1>2, <2>1, <2>2 DEF Shown
<1> QED
  BY <1>3, <1>4

LEMMA ShownProcessed ==
    ASSUME Shown, Queued, Threads, Emitted, ProcessResponse
    PROVE  Shown'
<1>1. /\ pipe' = Append(pipe, "relay") /\ UNCHANGED <<connState, label>>
      /\ pipe \in Seq({"relay", "connection"})
  BY DEF ProcessResponse, ReaderGoes, view, Queued
<1>2. connState
  BY DEF ProcessResponse, Threads, Emitted
<1>3. LevelPending' /\ (NewsPending => NewsPending')
  BY <1>1, Emission DEF LevelPending, NewsPending
<1> QED
  BY <1>1, <1>2, <1>3 DEF Shown

LEMMA ShownUi ==
    ASSUME Shown, Queued, Scalars, UiNext
    PROVE  Shown'
<1>1. CASE \/ Click \/ Quit \/ Request \/ Exchange \/ ShutdownSocket \/ Join
           \/ Free \/ Run \/ StartReader \/ QueryAllRelays
  <2>1. UNCHANGED <<queues, view>>
    BY <1>1 DEF Click, Quit, Request, Exchange, ShutdownSocket, Join, Free, Run,
                StartReader, QueryAllRelays
  <2> QED
    BY <2>1, ShownUnchanged
<1>2. ASSUME NEW useSsl \in BOOLEAN, ConnectOk(useSsl)
      PROVE  Shown'
  BY <1>2, ShownUnchanged DEF ConnectOk
<1>3. CASE ConnectFails \/ Announce
  <2>1. /\ UNCHANGED view
        /\ TellConnection(FALSE) \/ TellConnection(TRUE)
    BY <1>3 DEF ConnectFails, Announce
  <2> QED
    BY <2>1, ShownTold
<1>4. CASE Tell
  <2>1. UNCHANGED view /\ (TellConnection(FALSE) \/ UNCHANGED queues)
    BY <1>4 DEF Tell
  <2> QED
    BY <2>1, ShownTold, ShownUnchanged
<1> QED
  BY <1>1, <1>2, <1>3, <1>4, ShownDispatched DEF UiNext

LEMMA ShownOthers ==
    ASSUME Shown, Queued, Threads, Emitted, ReaderNext \/ ServerNext
    PROVE  Shown'
<1>1. CASE ReaderTest \/ ReaderOpen \/ ReceiveLine \/ ReceiveNothing \/ Lost \/ Clear
  <2>1. UNCHANGED <<queues, view>>
    BY <1>1 DEF ReaderTest, ReaderOpen, ReceiveLine, ReceiveNothing, Lost, Clear,
                ReaderGoes
  <2> QED
    BY <2>1, ShownUnchanged
<1>2. CASE Report
  <2>1. TellConnection(FALSE) /\ UNCHANGED view
    BY <1>2 DEF Report, ReaderGoes
  <2> QED
    BY <2>1, ShownTold
<1>3. CASE ServerNext
  <2>1. UNCHANGED <<queues, view>>
    BY <1>3 DEF ServerNext, Answer, HangUp
  <2> QED
    BY <2>1, ShownUnchanged
<1> QED
  BY <1>1, <1>2, <1>3, ShownProcessed DEF ReaderNext

-----------------------------------------------------------------------------
LEMMA InitInv == Init => IInv
  BY ScalarsInit, QueuedInit, TypesInParts, ThreadsInit, EmittedInit, ShownInit
  DEF IInv

LEMMA StutterInv ==
    ASSUME IInv, UNCHANGED vars
    PROVE  IInv'
<1>1. /\ UNCHANGED <<running, wasRunning, ui, goal, reader, fd, ssl, up, asked>>
      /\ UNCHANGED <<inbox, pipe, relayQueue, connState, label, lit>>
  BY DEF vars, net, queues, view
<1>2. Scalars' /\ Queued'
  BY <1>1, TypesInParts DEF IInv, Scalars, Queued
<1>3. Threads' /\ Emitted'
  BY <1>1 DEF IInv, Threads, SocketHeldWhileReading, Emitted
<1>4. DeskTypeOK'
  BY <1>2 DEF Scalars, Queued, DeskTypeOK
<1> QED
  BY <1>1, <1>3, <1>4, ShownUnchanged DEF IInv, queues, view

THEOREM Inductive == Spec => []IInv
<1>1. IInv /\ [Next]_vars => IInv'
  <2>1. ASSUME IInv, Next
        PROVE  IInv'
    <3>1. Scalars /\ Queued /\ Threads /\ Emitted /\ Shown
      BY <2>1, TypesInParts DEF IInv
    <3>2. Scalars' /\ Queued'
      BY <2>1, <3>1, ScalarsUi, ScalarsOthers, QueuedUi, QueuedOthers DEF Next
    <3>3. Threads' /\ Emitted'
      BY <2>1, <3>1, ThreadsUi, ThreadsOthers, EmittedUi, EmittedOthers DEF Next
    <3>4. Shown'
      BY <2>1, <3>1, ShownUi, ShownOthers DEF Next
    <3>5. DeskTypeOK'
      BY <3>2 DEF Scalars, Queued, DeskTypeOK
    <3> QED
      BY <3>3, <3>4, <3>5 DEF IInv
  <2> QED
    BY <2>1, StutterInv
<1> QED
  BY <1>1, InitInv, PTL DEF Spec

(* The desk keeps its types, and no SSL object or live connection outlives *)
(* the socket it belongs to.                                               *)
THEOREM DeskTypeCorrect == Spec => []DeskTypeOK
<1>1. IInv => DeskTypeOK
  BY DEF IInv
<1> QED
  BY <1>1, Inductive, PTL

(* requestDisconnect and connect never take the socket from under a read   *)
(* thread in its loop, whatever the server, the timer and the user do.     *)
THEOREM SocketHeld == Spec => []SocketHeldWhileReading
<1>1. IInv => SocketHeldWhileReading
  BY DEF IInv, Threads
<1> QED
  BY <1>1, Inductive, PTL

(* requestConnect never assigns a std::thread that is joinable, and the    *)
(* application never ends with a read thread that could call its window.   *)
THEOREM ReaderAlwaysJoined == Spec => []ReaderJoined
<1>1. IInv => ReaderJoined
  BY DEF IInv, Threads, ReaderJoined
<1> QED
  BY <1>1, Inductive, PTL

(* Once everything emitted has been delivered, a window that shows no      *)
(* connection shows no relay ON: onRelayDispatcher never lights a widget   *)
(* after the reset of onConnectionDispatcher.                              *)
THEOREM DarkWhenDisconnected == Spec => []DisconnectedIsDark
<1>1. IInv => DisconnectedIsDark
  <2>1. pipe = <<>> => ~NewsPending /\ ~EndsWithNews
    BY EmptySeq DEF NewsPending, EndsWithNews
  <2> QED
    BY <2>1 DEF IInv, DeskTypeOK, Shown, DisconnectedIsDark, Settled
<1> QED
  BY <1>1, Inductive, PTL

(* Once everything emitted has been delivered, a running connection is     *)
(* shown: no earlier report of a loss or a disconnection comes after the   *)
(* emit(true) of requestConnect.                                           *)
THEOREM RunningIsShown == Spec => []ConnectedIsShown
<1>1. IInv => ConnectedIsShown
  <2>1. pipe = <<>> => ~NewsPending
    BY EmptySeq DEF NewsPending
  <2> QED
    BY <2>1 DEF IInv, DeskTypeOK, Emitted, Shown, ConnectedIsShown
<1> QED
  BY <1>1, Inductive, PTL
=============================================================================
