----------------------------- MODULE LineFraming ----------------------------
(***************************************************************************)
(* From bytes to lines and back, at both ends: TcpClient of the desk with  *)
(* its m_readBuffer, and handleClient of the daemon with its requestBuffer.*)
(* TCP delivers the bytes of a connection in order, in chunks of any size, *)
(* until the connection breaks; what was still under way may then be lost. *)
(*                                                                         *)
(* A message is one byte, its number, and a newline, and so is its answer. *)
(* Each connection has a thread of the daemon to itself; it may have bytes *)
(* to read when the desk has already made another connection.              *)
(***************************************************************************)
EXTENDS Integers, Sequences, FiniteSets, SequencesExt

CONSTANTS
    MaxConns,     \* bound on the connections the desk makes
    MaxRequests,  \* bound on the requests it sends
    BlankLines    \* what may be typed before a request by hand (nc)

Newline == 0
CR == -1
Conns == 1 .. MaxConns
Requests == 1 .. MaxRequests
Byte == Requests \union {Newline, CR}

(* Blank lines are newlines, each alone or after a carriage return. *)
ASSUME FramingAssumption ==
    /\ MaxConns \in Nat /\ MaxRequests \in Nat
    /\ \A b \in BlankLines :
          /\ b \in Seq({Newline, CR})
          /\ \A i \in DOMAIN b : b[i] = CR => i < Len(b) /\ b[i + 1] = Newline

VARIABLES
    conn,       \* number of the desk's latest connection, 0 before it
    open,       \* m_socketFd >= 0
    up,         \* connections neither side has shut down
    running,    \* AppController::m_running
    reader,     \* "test", "receive" or "ended": the desk's read thread
    asked,      \* requests made so far
    sending,    \* what is left of the message in TcpClient::send
    readBuffer, \* m_readBuffer
    toServer,   \* bytes under way on each connection, to the daemon
    toDesk,     \* and back
    server,     \* "none", "read" or "ended": the daemon's thread
    requestBuffer, \* its local of that name
    delivered   \* lines given to processResponse, with their connection

desk == <<conn, open, running, reader, asked, sending, readBuffer, delivered>>
daemon == <<server, requestBuffer>>
wire == <<toServer, toDesk>>
vars == <<desk, up, wire, daemon>>

Init ==
    /\ conn = 0 /\ open = FALSE /\ up = {} /\ running = FALSE
    /\ reader = "ended" /\ asked = 0 /\ sending = <<>> /\ readBuffer = <<>>
    /\ toServer = [k \in Conns |-> <<>>] /\ toDesk = [k \in Conns |-> <<>>]
    /\ server = [k \in Conns |-> "none"]
    /\ requestBuffer = [k \in Conns |-> <<>>]
    /\ delivered = <<>>

(* find('\n'), and what stands before it and after it. *)
HasLine(b) == Newline \in Range(b)
FirstLine(b) == SubSeq(b, 1, SelectInSeq(b, LAMBDA x : x = Newline) - 1)

(* Mutant: erase(0, pos) leaves the newline in the buffer. *)
AfterLineKeepsNewline(b) ==
    SubSeq(b, SelectInSeq(b, LAMBDA x : x = Newline), Len(b))

AfterLine(b) == SubSeq(b, SelectInSeq(b, LAMBDA x : x = Newline) + 1, Len(b))

Blank(line) == line \in {<<>>, <<CR>>}

-----------------------------------------------------------------------------
(* The desk's UI thread.                                                   *)

(* The connection is made once the last one is closed and its reader gone. *)
Connect ==
    /\ ~open /\ reader = "ended" /\ conn < MaxConns
    /\ conn' = conn + 1 /\ open' = TRUE /\ up' = up \union {conn + 1}
    /\ server' = [server EXCEPT ![conn + 1] = "read"]
    /\ running' = TRUE /\ reader' = "test"
    /\ UNCHANGED <<asked, sending, delivered, readBuffer, wire, requestBuffer>>

(* requestDisconnect, up to the join: the reader is told and woken. *)
Disconnect ==
    /\ open /\ sending = <<>>
    /\ running' = FALSE /\ up' = up \ {conn}
    /\ UNCHANGED <<conn, open, reader, asked, sending, readBuffer, delivered,
                   wire, daemon>>

(* Mutant: what the last connection left in the buffer stays there. *)
CloseKeepsBuffer ==
    /\ open /\ ~running /\ conn \notin up /\ reader = "ended" /\ sending = <<>>
    /\ open' = FALSE
    /\ UNCHANGED <<conn, running, reader, asked, sending, readBuffer, delivered,
                   up, wire, daemon>>

(* TcpClient::disconnect, after the join. *)
Close ==
    /\ open /\ ~running /\ conn \notin up /\ reader = "ended" /\ sending = <<>>
    /\ open' = FALSE /\ readBuffer' = <<>>
    /\ UNCHANGED <<conn, running, reader, asked, sending, delivered, up, wire,
                   daemon>>

Ask ==
    /\ open /\ sending = <<>> /\ asked < MaxRequests
    /\ asked' = asked + 1
    /\ \E blank \in BlankLines : sending' = blank \o <<asked + 1, Newline>>
    /\ UNCHANGED <<conn, open, running, reader, readBuffer, delivered, up, wire,
                   daemon>>

(* Mutant: what the kernel did not take is not sent again. *)
SendOnce ==
    /\ sending # <<>> /\ conn \in up
    /\ \E n \in 1 .. Len(sending) :
          toServer' = [toServer EXCEPT ![conn] = @ \o SubSeq(sending, 1, n)]
    /\ sending' = <<>>
    /\ UNCHANGED <<conn, open, running, reader, asked, readBuffer, delivered, up,
                   toDesk, daemon>>

(* send() goes on until the kernel has taken all of the line. *)
SendSome ==
    /\ sending # <<>> /\ conn \in up
    /\ \E n \in 1 .. Len(sending) :
          /\ toServer' = [toServer EXCEPT ![conn] = @ \o SubSeq(sending, 1, n)]
          /\ sending' = SubSeq(sending, n + 1, Len(sending))
    /\ UNCHANGED <<conn, open, running, reader, asked, readBuffer, delivered, up,
                   toDesk, daemon>>

SendFails ==
    /\ sending # <<>> /\ conn \notin up
    /\ sending' = <<>>
    /\ UNCHANGED <<conn, open, running, reader, asked, readBuffer, delivered, up,
                   wire, daemon>>

UiNext == Connect \/ Disconnect \/ Close \/ Ask \/ SendSome \/ SendFails

-----------------------------------------------------------------------------
(* The desk's read thread: readLoop and receiveLine.                       *)

ReaderTest ==
    /\ reader = "test"
    /\ reader' = IF running THEN "receive" ELSE "ended"
    /\ UNCHANGED <<conn, open, running, asked, sending, readBuffer, delivered,
                   up, wire, daemon>>

(* receiveLine returns: to readLoop an empty line is the end. *)
Return(line) ==
    /\ IF line = <<>>
       THEN reader' = "ended" /\ running' = FALSE /\ UNCHANGED delivered
       ELSE /\ reader' = "test" /\ delivered' = Append(delivered, <<conn, line>>)
            /\ UNCHANGED running
    /\ UNCHANGED <<conn, open, asked, sending, up, wire, daemon>>

TakeLine ==
    /\ reader = "receive" /\ HasLine(readBuffer)
    /\ readBuffer' = AfterLine(readBuffer)
    /\ Return(FirstLine(readBuffer))

ReceiveChunk ==
    /\ reader = "receive" /\ ~HasLine(readBuffer) /\ toDesk[conn] # <<>>
    /\ \E n \in 1 .. Len(toDesk[conn]) :
          /\ readBuffer' = readBuffer \o SubSeq(toDesk[conn], 1, n)
          /\ toDesk' = [toDesk EXCEPT ![conn] = SubSeq(@, n + 1, Len(@))]
    /\ UNCHANGED <<conn, open, running, reader, asked, sending, delivered, up,
                   toServer, daemon>>

(* The end of the stream, or an error that outruns what was in it. *)
ReceiveEnd ==
    /\ reader = "receive" /\ ~HasLine(readBuffer) /\ conn \notin up
    /\ Return(<<>>)
    /\ UNCHANGED readBuffer

ReaderNext == ReaderTest \/ TakeLine \/ ReceiveChunk \/ ReceiveEnd

-----------------------------------------------------------------------------
(* handleClient, the daemon's thread for connection k.                     *)

ServerChunk(k) ==
    /\ server[k] = "read" /\ ~HasLine(requestBuffer[k]) /\ toServer[k] # <<>>
    /\ \E n \in 1 .. Len(toServer[k]) :
          /\ requestBuffer' =
                [requestBuffer EXCEPT ![k] = @ \o SubSeq(toServer[k], 1, n)]
          /\ toServer' = [toServer EXCEPT ![k] = SubSeq(@, n + 1, Len(@))]
    /\ UNCHANGED <<desk, up, toDesk, server>>

(* Mutant: the buffer is cleared with its first line. *)
ServeLineClears(k) ==
    /\ server[k] = "read" /\ HasLine(requestBuffer[k])
    /\ LET line == FirstLine(requestBuffer[k])
       IN  toDesk' = IF Blank(line) \/ k \notin up THEN toDesk
                     ELSE [toDesk EXCEPT ![k] = @ \o line \o <<Newline>>]
    /\ requestBuffer' = [requestBuffer EXCEPT ![k] = <<>>]
    /\ UNCHANGED <<desk, up, toServer, server>>

(* One line, skipped if blank, else processed; the answer is written with  *)
(* its newline in one call, and for nothing if the connection is broken.   *)
ServeLine(k) ==
    /\ server[k] = "read" /\ HasLine(requestBuffer[k])
    /\ LET line == FirstLine(requestBuffer[k])
       IN  toDesk' = IF Blank(line) \/ k \notin up THEN toDesk
                     ELSE [toDesk EXCEPT ![k] = @ \o line \o <<Newline>>]
    /\ requestBuffer' = [requestBuffer EXCEPT ![k] = AfterLine(@)]
    /\ UNCHANGED <<desk, up, toServer, server>>

ServerEnd(k) ==
    /\ server[k] = "read" /\ ~HasLine(requestBuffer[k]) /\ k \notin up
    /\ server' = [server EXCEPT ![k] = "ended"]
    /\ requestBuffer' = [requestBuffer EXCEPT ![k] = <<>>]
    /\ toServer' = [toServer EXCEPT ![k] = <<>>]
    /\ UNCHANGED <<desk, up, toDesk>>

ServerNext(k) == ServerChunk(k) \/ ServeLine(k) \/ ServerEnd(k)

(* The daemon stops, or the network gives the connection up. *)
BreakDown(k) ==
    /\ up' = up \ {k} /\ k \in up
    /\ UNCHANGED <<desk, wire, daemon>>

Next ==
    \/ UiNext
    \/ ReaderNext
    \/ \E k \in Conns : ServerNext(k) \/ BreakDown(k)

Spec == Init /\ [][Next]_vars

(* The threads run, the UI thread once it is inside send(). *)
FairSpec ==
    /\ Spec
    /\ WF_vars(SendSome \/ SendFails)
    /\ WF_vars(ReaderNext)
    /\ \A k \in Conns : WF_vars(ServerNext(k))

-----------------------------------------------------------------------------
(* A line reaches processResponse whole and by itself, and buffers hold    *)
(* bytes of the protocol only.                                             *)
FramingTypeOK ==
    /\ conn \in 0 .. MaxConns /\ asked \in 0 .. MaxRequests
    /\ open \in BOOLEAN /\ running \in BOOLEAN
    /\ up \subseteq Conns
    /\ reader \in {"test", "receive", "ended"}
    /\ server \in [Conns -> {"none", "read", "ended"}]
    /\ sending \in Seq(Byte) /\ readBuffer \in Seq(Byte)
    /\ toServer \in [Conns -> Seq(Byte)] /\ toDesk \in [Conns -> Seq(Byte)]
    /\ requestBuffer \in [Conns -> Seq(Byte)]
    /\ delivered \in Seq(Conns \X {<<n>> : n \in Requests})

(* receiveLine tells the end of the connection and an empty line by the    *)
(* same value; the read thread gives a connection up only when there is an *)
(* end, because the daemon never sends an empty line.                      *)
EmptyMeansEnd ==
    [][reader = "receive" /\ reader' = "ended" => conn \notin up]_vars

(* However a request and its answer are cut up or joined with others on    *)
(* their way, the answer is delivered unless the connection breaks.        *)
Answered ==
    \A k \in Conns, n \in Requests :
        (conn = k /\ asked = n /\ sending # <<>> /\ k \in up)
            ~> (k \notin up \/ <<k, <<n>>>> \in Range(delivered))

(***************************************************************************)
(* Cut into lines, the bytes under way are what RequestChannel speaks of.  *)
(***************************************************************************)
Lines(b) ==
    LET cut == FoldLeft(LAMBDA acc, x :
                   IF x = Newline THEN <<Append(acc[1], acc[2]), <<>>>>
                   ELSE <<acc[1], Append(acc[2], x)>>,
                   <<<<>>, <<>>>>, b)
    IN  SelectSeq(cut[1], LAMBDA line : ~Blank(line))

Channel == INSTANCE RequestChannel WITH
    Messages <- {<<n>> : n \in Requests},
    current <- conn,
    whole <- up,
    requests <- [k \in Conns |->
        Lines(requestBuffer[k] \o toServer[k]
              \o IF k = conn /\ k \in up THEN sending ELSE <<>>)],
    answers <- [k \in Conns |->
        IF k = conn /\ reader # "ended" THEN Lines(readBuffer \o toDesk[k])
        ELSE <<>>]

(* Requests are served once and in order, answers delivered once and in    *)
(* order and only on the connection that asked, for every way of cutting   *)
(* the bytes, every break and every connection made after it.              *)
ImplementsChannel == Channel!CSpec
=============================================================================
