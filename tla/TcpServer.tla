----------------------------- MODULE TcpServer -----------------------------
(***************************************************************************)
(* TcpServer of the minihild daemon: the listener thread, one detached     *)
(* thread per accepted connection, the list of sessions they share under   *)
(* m_clientsMutex, and stop(), called by main().  Sections under the mutex *)
(* are one step; so is each system or OpenSSL call.                        *)
(*                                                                         *)
(* Descriptors are small numbers that the kernel hands out lowest first    *)
(* and again as soon as they are closed.  SSL objects live at addresses:   *)
(* SSL_new takes any free one, so a pointer to an object that was freed    *)
(* may come to point to another connection's.  Clients are the peers:      *)
(* each connects at most once, sends requests, goes away when it likes.    *)
(***************************************************************************)
EXTENDS Integers, Sequences, FiniteSets, FiniteSetsExt, SequencesExt

CONSTANTS
    Clients,      \* connections a peer may open
    Fds,          \* descriptors the process may use for them
    Addresses,    \* where SSL objects live: one per client, SSL_new never fails
    Transports,   \* the values of --ssl the daemon is started with
    MaxRequests   \* bound on the requests a client sends

NoClient == "no client"
NoFd == -1
Null == "null"

ASSUME ServerAssumption ==
    /\ NoClient \notin Clients /\ Null \notin Addresses
    /\ Fds \subseteq Nat /\ Transports \subseteq BOOLEAN /\ MaxRequests \in Nat

VARIABLES
    useSsl,       \* m_useSsl, with the context start() has made for it
    misled,       \* a thread has found an SSL object that is not its own
    crashed,      \* the process was ended by the use of such an object
    running,      \* m_running
    listening,    \* "open", "shut" (shutdown() was called) or "closed"
    listenPc,     \* where listenLoop is
    accepted,     \* the client of the connection listenLoop is handling
    stopPc,       \* where stop() is; "idle" before it is called
    sessions,     \* m_clientSessions
    heap,         \* heap[o]: the client SSL_new made object o for, or NoClient
    owner,        \* owner[fd]: the client whose socket fd is, or NoClient
    shut,         \* connections stop() has shut down
    pc,           \* where the thread of each client is
    fd,           \* its argument clientSocket
    mySsl,        \* its local ssl, Null once it has freed it
    peer,         \* "idle", "pending", "open" or "gone"
    unread,       \* requests sent by the peer and not read
    buffered,     \* requests in requestBuffer and not processed
    sent,         \* requests sent by the peer so far
    replies       \* replies written to the peer's connection

listener == <<listening, listenPc, accepted>>
threads  == <<pc, fd, mySsl, buffered>>
peers    == <<peer, unread, sent>>
vars == <<useSsl, misled, crashed, running, listener, stopPc, sessions, heap, owner, shut,
          threads, peers, replies>>

(* start() has bound the socket and started the listener thread. *)
Init ==
    /\ useSsl \in Transports /\ misled = FALSE /\ crashed = FALSE
    /\ running = TRUE /\ listening = "open"
    /\ listenPc = "loop" /\ accepted = NoClient /\ stopPc = "idle"
    /\ sessions = <<>>
    /\ heap = [o \in Addresses |-> NoClient]
    /\ owner = [f \in Fds |-> NoClient]
    /\ shut = {}
    /\ pc = [c \in Clients |-> "none"]
    /\ fd = [c \in Clients |-> NoFd]
    /\ mySsl = [c \in Clients |-> Null]
    /\ peer = [c \in Clients |-> "idle"]
    /\ unread = [c \in Clients |-> 0]
    /\ buffered = [c \in Clients |-> 0]
    /\ sent = [c \in Clients |-> 0]
    /\ replies = [c \in Clients |-> 0]

-----------------------------------------------------------------------------
(***************************************************************************)
(* listenLoop.                                                             *)
(***************************************************************************)
ListenTest ==
    /\ listenPc = "loop"
    /\ listenPc' = IF running THEN "accept" ELSE "ended"
    /\ UNCHANGED <<running, listening, accepted, stopPc, sessions, heap, owner,
                   shut, threads, peers, replies>>

FreeFds == {f \in Fds : owner[f] = NoClient}

(* accept(): takes a pending connection and the lowest free descriptor. *)
Accept(c) ==
    /\ listenPc = "accept" /\ listening = "open"
    /\ peer[c] = "pending" /\ FreeFds # {}
    /\ LET f == Min(FreeFds)
       IN  /\ owner' = [owner EXCEPT ![f] = c]
           /\ fd' = [fd EXCEPT ![c] = f]
    /\ peer' = [peer EXCEPT ![c] = "open"]
    /\ accepted' = c /\ listenPc' = "push"
    /\ UNCHANGED <<running, listening, stopPc, sessions, heap, shut, pc, mySsl,
                   buffered, unread, sent, replies>>

(* accept() fails on a socket that was shut down or closed, or when there  *)
(* is no descriptor left for the connection that waits.                    *)
AcceptFails ==
    /\ listenPc = "accept"
    /\ \/ listening # "open"
       \/ FreeFds = {} /\ \E c \in Clients : peer[c] = "pending"
    /\ listenPc' = IF running THEN "loop" ELSE "ended"
    /\ UNCHANGED <<running, listening, accepted, stopPc, sessions, heap, owner,
                   shut, threads, peers, replies>>

(* SSL_new and the entry in m_clientSessions. *)
PushSession ==
    /\ listenPc = "push"
    /\ \E o \in IF useSsl THEN {a \in Addresses : heap[a] = NoClient} ELSE {Null} :
          /\ sessions' = Append(sessions, [fd |-> fd[accepted], ssl |-> o])
          /\ heap' = [a \in Addresses |-> IF a = o THEN accepted ELSE heap[a]]
    /\ listenPc' = "spawn"
    /\ UNCHANGED <<running, listening, accepted, stopPc, owner, shut, threads,
                   peers, replies>>

SpawnHandler ==
    /\ listenPc = "spawn"
    /\ pc' = [pc EXCEPT ![accepted] = IF useSsl THEN "lookup" ELSE "loop"]
    /\ accepted' = NoClient /\ listenPc' = "loop"
    /\ UNCHANGED <<running, listening, stopPc, sessions, heap, owner, shut, fd,
                   mySsl, buffered, peers, replies>>

ListenNext ==
    /\ ~crashed /\ UNCHANGED <<useSsl, misled, crashed>>
    /\ \/ ListenTest
       \/ \E c \in Clients : Accept(c)
       \/ AcceptFails \/ PushSession \/ SpawnHandler

-----------------------------------------------------------------------------
(***************************************************************************)
(* handleClient, the thread of client c.                                   *)
(***************************************************************************)
Goto(c, next) == pc' = [pc EXCEPT ![c] = next]

(* The first session with the thread's descriptor. *)
FirstWith(f) == SelectInSeq(sessions, LAMBDA s : s.fd = f)

(* An entry found may be of a connection that is closed already.  What is  *)
(* at the address in it is then freed memory, or an object SSL_new has put *)
(* there since: this connection's own or another's.                        *)
LookupSsl(c) ==
    /\ pc[c] = "lookup"
    /\ LET i == FirstWith(fd[c])
           found == sessions[i].ssl
       IN  IF i = 0
           THEN UNCHANGED <<mySsl, misled>> /\ Goto(c, "loop")
           ELSE /\ mySsl' = [mySsl EXCEPT ![c] = found]
                /\ misled' = (misled \/ heap[found] # c)
                /\ Goto(c, "handshake")
    /\ UNCHANGED <<running, listener, stopPc, sessions, heap, owner, shut, fd,
                   buffered, peers, replies>>

Broken(c) == peer[c] = "gone" \/ c \in shut

(* The client whose connection the thread's calls act on: with TLS it is   *)
(* the one whose object its pointer leads to, NoClient if that is freed.   *)
Serves(c) == IF mySsl[c] = Null THEN c ELSE heap[mySsl[c]]

(* The thread's object is freed, another's, or in use by another thread.   *)
(* What its calls do is then undefined: they may fail (HandshakeFails,     *)
(* ReadFails), act on the connection Serves names, or end the process.     *)
Undefined(c) ==
    /\ mySsl[c] # Null
    /\ heap[mySsl[c]] # c \/ \E d \in Clients \ {c} : mySsl[d] = mySsl[c]

(* SSL_accept: a peer may fail it at will, a broken connection does. *)
HandshakeOk(c) ==
    /\ pc[c] = "handshake" /\ Serves(c) # NoClient /\ ~Broken(Serves(c))
    /\ Goto(c, "loop")
    /\ UNCHANGED <<running, listener, stopPc, sessions, heap, owner, shut, fd,
                   mySsl, buffered, peers, replies>>

(* Mutant: no return after a failed handshake has freed the object.        *)
HandshakeFailsGoesOn(c) ==
    /\ pc[c] = "handshake"
    /\ heap' = [heap EXCEPT ![mySsl[c]] = NoClient]
    /\ Goto(c, "loop")
    /\ UNCHANGED <<running, listener, stopPc, sessions, owner, shut, fd,
                   mySsl, buffered, peers, replies>>

HandshakeFails(c) ==
    /\ pc[c] = "handshake"
    /\ Goto(c, "free")
    /\ UNCHANGED <<running, listener, stopPc, sessions, heap, owner, shut, fd,
                   mySsl, buffered, peers, replies>>

TestRunning(c) ==
    /\ pc[c] = "loop"
    /\ Goto(c, IF running THEN "read" ELSE IF useSsl THEN "free" ELSE "close")
    /\ UNCHANGED <<running, listener, stopPc, sessions, heap, owner, shut, fd,
                   mySsl, buffered, peers, replies>>

(* Mutant: a read that returns nothing is taken for a request. *)
ReadNothing(c) ==
    /\ pc[c] = "read" /\ Serves(c) # NoClient
    /\ unread' = [unread EXCEPT ![Serves(c)] = @ - 1]
    /\ buffered' = [buffered EXCEPT ![c] = 1]
    /\ Goto(c, "process")
    /\ UNCHANGED <<running, listener, stopPc, sessions, heap, owner, shut, fd,
                   mySsl, peer, sent, replies>>

(* recv / SSL_read with complete lines in the buffer afterwards: as many   *)
(* requests as the chunk ends.  What is queued is read even after stop()   *)
(* has shut the connection down.                                           *)
Read(c) ==
    /\ pc[c] = "read" /\ Serves(c) # NoClient
    /\ \E k \in 1 .. unread[Serves(c)] :
          /\ unread' = [unread EXCEPT ![Serves(c)] = @ - k]
          /\ buffered' = [buffered EXCEPT ![c] = k]
    /\ Goto(c, "process")
    /\ UNCHANGED <<running, listener, stopPc, sessions, heap, owner, shut, fd,
                   mySsl, peer, sent, replies>>

ReadFails(c) ==
    /\ pc[c] = "read"
    /\ \/ Undefined(c)
       \/ /\ Serves(c) # NoClient /\ Broken(Serves(c))
          /\ unread[Serves(c)] = 0 \/ peer[Serves(c)] = "gone"
    /\ Goto(c, IF useSsl THEN "free" ELSE "close")
    /\ UNCHANGED <<running, listener, stopPc, sessions, heap, owner, shut, fd,
                   mySsl, buffered, peers, replies>>

(* A reply is written only while m_running; a write that fails goes        *)
(* unnoticed.                                                              *)
Write(d) ==
    replies' = IF running /\ d # NoClient /\ ~Broken(d)
               THEN [replies EXCEPT ![d] = @ + 1] ELSE replies

(* Mutants: only the first line of a chunk is processed; the thread ends   *)
(* after one request.                                                      *)
ReplyFirstLine(c) ==
    /\ pc[c] = "process"
    /\ Write(Serves(c))
    /\ buffered' = [buffered EXCEPT ![c] = 0]
    /\ Goto(c, "loop")
    /\ UNCHANGED <<running, listener, stopPc, sessions, heap, owner, shut, fd,
                   mySsl, peers>>

ReplyOnce(c) ==
    /\ pc[c] = "process"
    /\ Write(Serves(c))
    /\ buffered' = [buffered EXCEPT ![c] = @ - 1]
    /\ Goto(c, IF useSsl THEN "free" ELSE "close")
    /\ UNCHANGED <<running, listener, stopPc, sessions, heap, owner, shut, fd,
                   mySsl, peers>>

(* processRequest returns for the first buffered line.  The lines behind   *)
(* it are processed before m_running is tested again.                      *)
Reply(c) ==
    /\ pc[c] = "process"
    /\ Write(Serves(c))
    /\ buffered' = [buffered EXCEPT ![c] = @ - 1]
    /\ Goto(c, IF buffered[c] > 1 THEN "process" ELSE "loop")
    /\ UNCHANGED <<running, listener, stopPc, sessions, heap, owner, shut, fd,
                   mySsl, peers>>

(* SSL_shutdown and SSL_free, on every way out: whatever lives at the      *)
(* thread's pointer is gone.                                               *)
FreeSsl(c) ==
    /\ pc[c] = "free"
    /\ heap' = [o \in Addresses |-> IF o = mySsl[c] THEN NoClient ELSE heap[o]]
    /\ mySsl' = [mySsl EXCEPT ![c] = Null]
    /\ Goto(c, "close")
    /\ UNCHANGED <<running, listener, stopPc, sessions, owner, shut, fd,
                   buffered, peers, replies>>

CloseSocket(c) ==
    /\ pc[c] = "close"
    /\ owner' = [owner EXCEPT ![fd[c]] = NoClient]
    /\ Goto(c, "erase")
    /\ UNCHANGED <<running, listener, stopPc, sessions, heap, shut, fd, mySsl,
                   buffered, peers, replies>>

(* Mutant: every entry with the thread's descriptor is erased. *)
EraseAll(c) ==
    /\ pc[c] = "erase"
    /\ sessions' = SelectSeq(sessions, LAMBDA s : s.fd # fd[c])
    /\ Goto(c, "leave")
    /\ UNCHANGED <<running, listener, stopPc, heap, owner, shut, fd, mySsl,
                   buffered, peers, replies>>

EraseSession(c) ==
    /\ pc[c] = "erase"
    /\ LET i == FirstWith(fd[c])
       IN  sessions' = IF i = 0 THEN sessions ELSE RemoveAt(sessions, i)
    /\ Goto(c, "leave")
    /\ UNCHANGED <<running, listener, stopPc, heap, owner, shut, fd, mySsl,
                   buffered, peers, replies>>

(* The thread logs, returns and is gone. *)
Leave(c) ==
    /\ pc[c] = "leave"
    /\ Goto(c, "ended")
    /\ UNCHANGED <<running, listener, stopPc, sessions, heap, owner, shut, fd,
                   mySsl, buffered, peers, replies>>

(* SSL_accept, SSL_read, SSL_write or SSL_free ends the process.           *)
UndefinedUse(c) ==
    /\ pc[c] \in {"handshake", "read", "process", "free"} /\ Undefined(c)
    /\ crashed' = TRUE
    /\ UNCHANGED <<misled, running, listener, stopPc, sessions, heap, owner, shut,
                   threads, peers, replies>>

HandlerSteps(c) ==
    \/ HandshakeOk(c) \/ HandshakeFails(c)
    \/ TestRunning(c) \/ Read(c) \/ ReadFails(c) \/ Reply(c)
    \/ FreeSsl(c) \/ CloseSocket(c) \/ EraseSession(c) \/ Leave(c)

HandlerNext(c) ==
    /\ ~crashed /\ UNCHANGED useSsl
    /\ \/ LookupSsl(c) /\ UNCHANGED crashed
       \/ HandlerSteps(c) /\ UNCHANGED <<misled, crashed>>
       \/ UndefinedUse(c)

-----------------------------------------------------------------------------
(***************************************************************************)
(* stop(), on main's thread.                                               *)
(***************************************************************************)
StopBegin ==
    /\ stopPc = "idle" /\ running
    /\ running' = FALSE /\ stopPc' = "shutdown"
    /\ UNCHANGED <<listener, sessions, heap, owner, shut, threads, peers, replies>>

(* Mutant: the listening socket is only closed. *)
StopOnlyCloses ==
    /\ stopPc = "shutdown"
    /\ stopPc' = "close"
    /\ UNCHANGED <<running, listener, sessions, heap, owner, shut, threads,
                   peers, replies>>

(* shutdown() wakes an accept() that is blocked; close() would not. *)
StopShutdownListener ==
    /\ stopPc = "shutdown"
    /\ listening' = "shut" /\ stopPc' = "close"
    /\ UNCHANGED <<running, listenPc, accepted, sessions, heap, owner, shut,
                   threads, peers, replies>>

StopCloseListener ==
    /\ stopPc = "close"
    /\ listening' = IF listening = "shut" \/ listenPc # "accept"
                    THEN "closed" ELSE listening
    /\ stopPc' = "join"
    /\ UNCHANGED <<running, listenPc, accepted, sessions, heap, owner, shut,
                   threads, peers, replies>>

(* Mutant: stop() goes on while the listener is still at work. *)
StopNoJoin ==
    /\ stopPc = "join"
    /\ stopPc' = "clients"
    /\ UNCHANGED <<running, listener, sessions, heap, owner, shut, threads,
                   peers, replies>>

StopJoinListener ==
    /\ stopPc = "join" /\ listenPc = "ended"
    /\ stopPc' = "clients"
    /\ UNCHANGED <<running, listener, sessions, heap, owner, shut, threads,
                   peers, replies>>

(* Mutant: the sockets are closed instead.                                 *)
StopClosesClients ==
    /\ stopPc = "clients"
    /\ shut' = shut \union ({owner[s.fd] : s \in Range(sessions)} \ {NoClient})
    /\ owner' = [f \in Fds |->
          IF \E s \in Range(sessions) : s.fd = f THEN NoClient ELSE owner[f]]
    /\ stopPc' = "drain"
    /\ UNCHANGED <<running, listener, sessions, heap, threads, peers, replies>>

(* One pass under the lock over the sessions: whoever owns the descriptor  *)
(* of an entry now is shut down.                                           *)
StopShutdownClients ==
    /\ stopPc = "clients"
    /\ shut' = shut \union ({owner[s.fd] : s \in Range(sessions)} \ {NoClient})
    /\ stopPc' = "drain"
    /\ UNCHANGED <<running, listener, sessions, heap, owner, threads, peers, replies>>

(* Polled every 10 ms. *)
StopDrained ==
    /\ stopPc = "drain" /\ sessions = <<>>
    /\ stopPc' = "done"
    /\ UNCHANGED <<running, listener, sessions, heap, owner, shut, threads,
                   peers, replies>>

StopSteps ==
    \/ StopShutdownListener \/ StopCloseListener \/ StopJoinListener
    \/ StopShutdownClients \/ StopDrained

StopNext == ~crashed /\ StopSteps /\ UNCHANGED <<useSsl, misled, crashed>>

-----------------------------------------------------------------------------
(***************************************************************************)
(* The peers.                                                              *)
(***************************************************************************)
Connect(c) ==
    /\ peer[c] = "idle" /\ listening = "open"
    /\ peer' = [peer EXCEPT ![c] = "pending"]
    /\ UNCHANGED <<running, listener, stopPc, sessions, heap, owner, shut,
                   threads, unread, sent, replies>>

Send(c) ==
    /\ peer[c] = "open" /\ sent[c] < MaxRequests /\ c \notin shut
    /\ useSsl => pc[c] \notin {"none", "lookup", "handshake"}
    /\ sent' = [sent EXCEPT ![c] = @ + 1]
    /\ unread' = [unread EXCEPT ![c] = @ + 1]
    /\ UNCHANGED <<running, listener, stopPc, sessions, heap, owner, shut,
                   threads, peer, replies>>

Disconnect(c) ==
    /\ peer[c] = "open"
    /\ peer' = [peer EXCEPT ![c] = "gone"]
    /\ UNCHANGED <<running, listener, stopPc, sessions, heap, owner, shut,
                   threads, unread, sent, replies>>

PeerSteps(c) == Connect(c) \/ Send(c) \/ Disconnect(c)

Next ==
    \/ ListenNext
    \/ \E c \in Clients : HandlerNext(c)
    \/ /\ ~crashed /\ UNCHANGED <<useSsl, misled, crashed>>
       /\ StopBegin \/ \E c \in Clients : PeerSteps(c)
    \/ StopNext

Spec == Init /\ [][Next]_vars

(* The threads run; a peer owes nothing, not even an end to its handshake. *)
HandlerProgress(c) ==
    HandlerNext(c) /\ ~(HandshakeFails(c) /\ ~Broken(c)) /\ ~HandshakeOk(c)

FairSpec ==
    /\ Spec
    /\ WF_vars(ListenNext)
    /\ WF_vars(StopNext)
    /\ \A c \in Clients : WF_vars(HandlerProgress(c))

-----------------------------------------------------------------------------
(* Handlers hold a descriptor until they close it and a session entry      *)
(* until they erase it; the listener holds both before the thread starts.  *)
Using == {"lookup", "handshake", "loop", "read", "process", "free", "close"}

UsesFd(c) == pc[c] \in Using \/ accepted = c
Tracked(c) ==
    \/ pc[c] \in Using \union {"erase"}
    \/ accepted = c /\ listenPc = "spawn"

(* The shared state keeps its types and no counter of requests runs below  *)
(* zero.                                                                   *)
TypeOK ==
    /\ useSsl \in Transports /\ misled \in BOOLEAN /\ crashed \in BOOLEAN
    /\ running \in BOOLEAN
    /\ listening \in {"open", "shut", "closed"}
    /\ listenPc \in {"loop", "accept", "push", "spawn", "ended"}
    /\ accepted \in Clients \union {NoClient}
    /\ stopPc \in {"idle", "shutdown", "close", "join", "clients", "drain", "done"}
    /\ sessions \in Seq([fd : Fds, ssl : Addresses \union {Null}])
    /\ heap \in [Addresses -> Clients \union {NoClient}]
    /\ owner \in [Fds -> Clients \union {NoClient}]
    /\ shut \subseteq Clients
    /\ pc \in [Clients -> Using \union {"none", "erase", "leave", "ended"}]
    /\ fd \in [Clients -> Fds \union {NoFd}]
    /\ mySsl \in [Clients -> Addresses \union {Null}]
    /\ peer \in [Clients -> {"idle", "pending", "open", "gone"}]
    /\ unread \in [Clients -> 0 .. MaxRequests]
    /\ buffered \in [Clients -> 0 .. MaxRequests]
    /\ sent \in [Clients -> 0 .. MaxRequests]
    /\ replies \in [Clients -> Nat]

(* No thread reads, writes or closes a descriptor that was closed under it *)
(* and may be another connection's by now: stop() shuts sockets down and   *)
(* leaves closing them to their own threads.                               *)
FdOwned == \A c \in Clients : UsesFd(c) => owner[fd[c]] = c

(* The session list has one entry per thread that has not erased its own,  *)
(* descriptor by descriptor - although a thread erases the first entry     *)
(* with its descriptor, which may be a later connection's, because it      *)
(* closes the descriptor before.                                           *)
SessionsTrack ==
    \A f \in Fds :
        Cardinality({i \in DOMAIN sessions : sessions[i].fd = f})
            = Cardinality({c \in Clients : Tracked(c) /\ fd[c] = f})

(* When stop() returns nothing of the server moves: no listener, no thread *)
(* that reads, executes or answers a request or touches the sessions, even *)
(* for a connection accepted while stop() was under way.                   *)
StoppedIsQuiet ==
    stopPc = "done" =>
        /\ listenPc = "ended"
        /\ \A c \in Clients : ~Tracked(c) /\ ~UsesFd(c)

(* While the server runs, no request of a connected peer is lost or        *)
(* answered twice: each is unread, buffered or answered - as long as no    *)
(* thread was led to another's SSL object, from which it would read the    *)
(* other's requests.                                                       *)
RequestsAccountedFor ==
    \A c \in Clients :
        running /\ ~misled /\ ~Broken(c) => sent[c] = unread[c] + buffered[c] + replies[c]

(* stop() comes to its end whatever the peers do: a silent peer, one in    *)
(* the middle of its handshake or one that connects last cannot hold it.   *)
(* Only a thread that was led to an SSL object not its own keeps it from   *)
(* its end: it may end the process or wait on a socket stop() cannot reach.*)
StopTerminates == stopPc = "shutdown" ~> (stopPc = "done" \/ misled)

(* A request of a peer whose connection the server serves is taken up      *)
(* unless the peer leaves, the server stops or a thread was led to an SSL  *)
(* object not its own.                                                     *)
RequestsTakenUp ==
    \A c \in Clients :
        (unread[c] > 0 /\ pc[c] \in {"loop", "read", "process"})
            ~> (unread[c] = 0 \/ Broken(c) \/ ~running \/ misled)

(* Each client is handled on a connection, and an SSL object, of its own:  *)
(* one that lives and was made for it.                                     *)
OwnSsl ==
    \A c \in Clients :
        useSsl /\ pc[c] \in Using \ {"lookup", "close"} =>
            mySsl[c] # Null /\ heap[mySsl[c]] = c

(* The last entry with the thread's descriptor leads to its own object.    *)
OwnEntryIsLast(c) ==
    \E i \in DOMAIN sessions :
        /\ sessions[i].fd = fd[c] /\ heap[sessions[i].ssl] = c
        /\ \A j \in DOMAIN sessions : sessions[j].fd = fd[c] => j <= i

(* A lookup that stops at the first entry, where the last one is right, is *)
(* the only way to lose the object: until it has misled a thread, every    *)
(* thread that looks finds its own entry behind those of closed            *)
(* connections, whichever of them erases what, and has then an object that *)
(* no other thread holds or frees and that lives until it is done with it. *)
SslAlive ==
    ~misled =>
        /\ OwnSsl
        /\ \A c \in Clients :
              /\ useSsl
              /\ pc[c] = "lookup" \/ (accepted = c /\ listenPc = "spawn")
              => OwnEntryIsLast(c)
=============================================================================
