--------------------------- MODULE TcpServerProofs ---------------------------
(***************************************************************************)
(* What TcpServer keeps for any number of connections, descriptors and     *)
(* requests: who owns a descriptor, what the session list stands for, when *)
(* nothing moves any more and - until the session list hands a thread the  *)
(* SSL object of another connection - which SSL objects live and where     *)
(* every request is.                                                       *)
(*                                                                         *)
(* A handler's thread goes through its phases once and never goes back.    *)
(***************************************************************************)
EXTENDS TcpServer, FiniteSetTheorems, SequenceTheorems, TLAPS

Entry == [fd : Fds, ssl : Addresses \union {Null}]

(* The phases of a thread that has closed its socket. *)
Past == {"erase", "leave", "ended"}

Phases ==
    /\ accepted = NoClient <=> listenPc \in {"loop", "accept", "ended"}
    /\ accepted # NoClient => pc[accepted] = "none"
    /\ \A c \in Clients :
          peer[c] \in {"idle", "pending"} => pc[c] = "none" /\ accepted # c
    /\ \A c \in Clients : pc[c] # "none" \/ accepted = c => fd[c] \in Fds

Stopping ==
    /\ stopPc \in {"clients", "drain", "done"} => listenPc = "ended"
    /\ stopPc = "done" => sessions = <<>>

(* With TLS every entry has an SSL object, without it no thread has one.   *)
Entries ==
    useSsl => \A i \in 1..Len(sessions) : sessions[i].ssl # Null

Objects ==
    /\ ~useSsl => /\ ~misled
                  /\ \A c \in Clients : mySsl[c] = Null /\ pc[c] # "lookup"
    /\ ~misled => OwnSsl

LooksUp(c) == pc[c] = "lookup" \/ (accepted = c /\ listenPc = "spawn")

OwnEntries ==
    ~misled /\ useSsl => \A c \in Clients : LooksUp(c) => OwnEntryIsLast(c)

Counted ==
    \A c \in Clients :
        /\ buffered[c] > 0 <=> pc[c] = "process"
        /\ unread[c] <= sent[c]
        /\ running /\ ~misled /\ ~Broken(c) =>
              sent[c] = unread[c] + buffered[c] + replies[c]

(* The entries with a descriptor and the threads they are there for. *)
EntriesOf(f) == {i \in DOMAIN sessions : sessions[i].fd = f}
ThreadsOf(f) == {c \in Clients : Tracked(c) /\ fd[c] = f}

Matched ==
    \A f \in Fds :
        /\ IsFiniteSet(ThreadsOf(f))
        /\ Cardinality(EntriesOf(f)) = Cardinality(ThreadsOf(f))

IInv ==
    /\ TypeOK /\ Phases /\ Stopping /\ FdOwned /\ Entries /\ Objects
    /\ OwnEntries /\ Counted /\ Matched

-----------------------------------------------------------------------------
(* The library's operators.                                                *)

(* A set of numbers has its minimum. *)
LEMMA MinIsElement ==
    ASSUME NEW S \in SUBSET Nat, S # {}
    PROVE  /\ Min(S) \in S
           /\ \A y \in S : Min(S) <= y
<1>1. \E x \in S : \A y \in S : ~ (<<y, x>> \in OpToRel(<, Nat))
  BY NatLessThanWellFounded, WFMin
<1>2. \E x \in S : \A y \in S : x <= y
  <2>1. PICK x \in S : \A y \in S : ~ (<<y, x>> \in OpToRel(<, Nat))
    BY <1>1
  <2>2. ASSUME NEW y \in S
        PROVE  x <= y
    <3>1. <<y, x>> \in Nat \X Nat
      OBVIOUS
    <3>2. ~ (y < x)
      BY <2>1, <3>1 DEF OpToRel
    <3> QED
      BY <3>2
  <2> QED
    BY <2>2
<1> QED
  BY <1>2 DEF Min

LEMMA FirstWithProperties ==
    ASSUME NEW f, sessions \in Seq(Entry)
    PROVE  \/ /\ FirstWith(f) = 0
              /\ \A i \in 1..Len(sessions) : sessions[i].fd # f
           \/ /\ FirstWith(f) \in 1..Len(sessions)
              /\ sessions[FirstWith(f)].fd = f
<1> DEFINE I == {i \in 1..Len(sessions) : sessions[i].fd = f}
<1>1. FirstWith(f) = IF I # {} THEN Min(I) ELSE 0
  BY DEF FirstWith, SelectInSeq
<1>2. I \in SUBSET Nat
  BY LenProperties
<1>3. CASE I = {}
  BY <1>1, <1>3
<1>4. CASE I # {}
  BY <1>1, <1>2, <1>4, MinIsElement
<1> QED
  BY <1>3, <1>4

LEMMA FirstWithIsFirst ==
    ASSUME NEW f, sessions \in Seq(Entry), NEW k \in 1..Len(sessions),
           sessions[k].fd = f
    PROVE  FirstWith(f) <= k
<1> DEFINE I == {i \in 1..Len(sessions) : sessions[i].fd = f}
<1>1. FirstWith(f) = IF I # {} THEN Min(I) ELSE 0
  BY DEF FirstWith, SelectInSeq
<1>2. I \in SUBSET Nat /\ k \in I
  BY LenProperties
<1> QED
  BY <1>1, <1>2, MinIsElement

LEMMA RemoveAtProperties ==
    ASSUME NEW S, NEW s \in Seq(S), NEW n \in 1..Len(s)
    PROVE  /\ RemoveAt(s, n) \in Seq(S)
           /\ Len(RemoveAt(s, n)) = Len(s) - 1
           /\ \A i \in 1..(Len(s) - 1) :
                 RemoveAt(s, n)[i] = IF i < n THEN s[i] ELSE s[i + 1]
<1> DEFINE a == SubSeq(s, 1, n - 1)
           b == SubSeq(s, n + 1, Len(s))
<1>1. Len(s) \in Nat /\ n \in Nat /\ n >= 1 /\ n <= Len(s)
  BY LenProperties
<1>2. /\ a \in Seq(S) /\ Len(a) = n - 1
      /\ \A i \in 1..(n - 1) : a[i] = s[i]
  <2>1. \A i \in 1..(n - 1) : s[i] \in S
    BY <1>1, ElementOfSeq
  <2>2. /\ SubSeq(s, 1, n - 1) \in Seq(S)
        /\ Len(SubSeq(s, 1, n - 1)) = IF 1 <= n - 1 THEN (n - 1) - 1 + 1 ELSE 0
        /\ \A i \in 1..((n - 1) - 1 + 1) : SubSeq(s, 1, n - 1)[i] = s[1 + i - 1]
    BY <1>1, <2>1, SubSeqProperties
  <2>3. \A i \in 1..(n - 1) : i \in 1..((n - 1) - 1 + 1) /\ 1 + i - 1 = i
    BY <1>1
  <2> QED
    BY <1>1, <2>2, <2>3
<1>3. /\ b \in Seq(S) /\ Len(b) = Len(s) - n
      /\ \A i \in 1..(Len(s) - n) : b[i] = s[n + i]
  <2>1. \A i \in (n + 1)..Len(s) : s[i] \in S
    BY <1>1, ElementOfSeq
  <2>2. /\ SubSeq(s, n + 1, Len(s)) \in Seq(S)
        /\ Len(SubSeq(s, n + 1, Len(s))) =
              IF n + 1 <= Len(s) THEN Len(s) - (n + 1) + 1 ELSE 0
        /\ \A i \in 1..(Len(s) - (n + 1) + 1) :
              SubSeq(s, n + 1, Len(s))[i] = s[(n + 1) + i - 1]
    BY <1>1, <2>1, SubSeqProperties
  <2>3. \A i \in 1..(Len(s) - n) :
           i \in 1..(Len(s) - (n + 1) + 1) /\ (n + 1) + i - 1 = n + i
    BY <1>1
  <2> QED
    BY <1>1, <2>2, <2>3
<1> HIDE DEF a, b
<1>4. /\ a \o b \in Seq(S) /\ Len(a \o b) = Len(a) + Len(b)
      /\ \A i \in 1..(Len(a) + Len(b)) :
            (a \o b)[i] = IF i <= Len(a) THEN a[i] ELSE b[i - Len(a)]
  BY <1>2, <1>3, ConcatProperties
<1>5. RemoveAt(s, n) = a \o b
  BY DEF RemoveAt, a, b
<1>6. Len(a) + Len(b) = Len(s) - 1
  BY <1>1, <1>2, <1>3
<1>7. ASSUME NEW i \in 1..(Len(s) - 1)
      PROVE  (a \o b)[i] = IF i < n THEN s[i] ELSE s[i + 1]
  <2>1. (a \o b)[i] = IF i <= n - 1 THEN a[i] ELSE b[i - (n - 1)]
    BY <1>2, <1>4, <1>6
  <2>2. CASE i < n
    <3>1. i \in 1..(n - 1)
      BY <1>1, <2>2
    <3> QED
      BY <1>1, <1>2, <2>1, <2>2, <3>1
  <2>3. CASE ~(i < n)
    <3>1. i - (n - 1) \in 1..(Len(s) - n) /\ n + (i - (n - 1)) = i + 1
          /\ ~(i <= n - 1)
      BY <1>1, <2>3
    <3>2. b[i - (n - 1)] = s[n + (i - (n - 1))]
      BY <1>3, <3>1
    <3> QED
      BY <2>1, <2>3, <3>1, <3>2
  <2> QED
    BY <2>2, <2>3
<1> QED
  BY <1>4, <1>5, <1>6, <1>7

-----------------------------------------------------------------------------
(* Initially.                                                              *)

LEMMA Initially == Init => IInv
<1> SUFFICES ASSUME Init
             PROVE  IInv
  OBVIOUS
<1>1. TypeOK
  <2>1. sessions \in Seq([fd : Fds, ssl : Addresses \union {Null}])
    BY EmptySeq DEF Init
  <2>2. 0 \in 0..MaxRequests
    BY ServerAssumption
  <2>3. /\ unread \in [Clients -> 0 .. MaxRequests]
        /\ buffered \in [Clients -> 0 .. MaxRequests]
        /\ sent \in [Clients -> 0 .. MaxRequests]
        /\ replies \in [Clients -> Nat]
    BY <2>2 DEF Init
  <2>4. /\ heap \in [Addresses -> Clients \union {NoClient}]
        /\ owner \in [Fds -> Clients \union {NoClient}]
        /\ pc \in [Clients -> Using \union {"none", "erase", "leave", "ended"}]
        /\ fd \in [Clients -> Fds \union {NoFd}]
        /\ mySsl \in [Clients -> Addresses \union {Null}]
        /\ peer \in [Clients -> {"idle", "pending", "open", "gone"}]
    BY DEF Init
  <2> QED
    BY <2>1, <2>3, <2>4 DEF Init, TypeOK
<1>2. Phases /\ Stopping /\ Objects /\ OwnEntries
  BY ServerAssumption
  DEF Init, Phases, Stopping, Objects, OwnSsl, OwnEntries, LooksUp, Using
<1>3. FdOwned /\ Entries
  <2>1. Len(sessions) = 0
    BY EmptySeq DEF Init
  <2> QED
    BY <2>1, ServerAssumption DEF Init, FdOwned, UsesFd, Using, Entries
<1>4. Counted
  BY DEF Init, Counted
<1>5. Matched
  <2> SUFFICES ASSUME NEW f \in Fds
               PROVE  ThreadsOf(f) = {} /\ EntriesOf(f) = {}
    BY FS_EmptySet DEF Matched
  <2>1. DOMAIN sessions = {}
    BY DEF Init
  <2>2. \A c \in Clients : ~Tracked(c)
    BY ServerAssumption DEF Init, Tracked, Using
  <2> QED
    BY <2>1, <2>2 DEF ThreadsOf, EntriesOf
<1> QED
  BY <1>1, <1>2, <1>3, <1>4, <1>5 DEF IInv

-----------------------------------------------------------------------------
(* What a step of a handler's thread can and cannot do.                    *)

LEMMA HandlerMoves ==
    ASSUME TypeOK, NEW c \in Clients, HandlerNext(c)
    PROVE  /\ UNCHANGED <<useSsl, running, listening, listenPc, accepted, stopPc>>
           /\ UNCHANGED <<shut, fd, peer, sent>>
           /\ misled => misled'
           /\ \A d \in Clients \ {c} : pc'[d] = pc[d]
           /\ pc[c] # "none" /\ pc'[c] # "none"
           /\ pc'[c] \in Using => pc[c] \in Using
           /\ pc[c] \in Past => pc'[c] \in Past
           /\ pc' \in [Clients -> Using \union {"none", "erase", "leave", "ended"}]
<1>1. misled => misled'
  BY DEF HandlerNext, LookupSsl, UndefinedUse
<1>2. CASE HandlerSteps(c)
  BY <1>1, <1>2 DEF TypeOK, HandlerNext, HandlerSteps, HandshakeOk,
     HandshakeFails, TestRunning, Read, ReadFails, Reply, FreeSsl, CloseSocket,
     EraseSession, Leave, Goto, listener, peers, Using, Past
<1>3. CASE LookupSsl(c)
  <2>1. /\ UNCHANGED <<running, listener, stopPc, shut, fd, peers>>
        /\ pc[c] = "lookup"
        /\ \E next \in {"loop", "handshake"} : pc' = [pc EXCEPT ![c] = next]
    BY <1>3 DEF LookupSsl, Goto
  <2> QED
    BY <1>1, <2>1 DEF TypeOK, HandlerNext, listener, peers, Using, Past
<1>4. CASE UndefinedUse(c)
  BY <1>1, <1>4 DEF TypeOK, HandlerNext, UndefinedUse, listener, threads, peers
<1> QED
  BY <1>2, <1>3, <1>4 DEF HandlerNext

(* The client a thread's calls act on. *)
LEMMA Served ==
    ASSUME TypeOK, NEW c \in Clients
    PROVE  /\ Serves(c) \in Clients \union {NoClient}
           /\ /\ Objects /\ ~misled /\ pc[c] \in {"read", "process"}
              => Serves(c) = c
<1>1. heap \in [Addresses -> Clients \union {NoClient}]
      /\ mySsl[c] \in Addresses \union {Null}
  BY DEF TypeOK
<1> QED
  BY <1>1 DEF Serves, Objects, OwnSsl, Using

LEMMA HandlerTypes ==
    ASSUME TypeOK, Counted, NEW c \in Clients, HandlerNext(c)
    PROVE  TypeOK'
<1>1. /\ UNCHANGED <<useSsl, running, listening, listenPc, accepted, stopPc>>
      /\ UNCHANGED <<shut, fd, peer, sent>>
      /\ pc' \in [Clients -> Using \union {"none", "erase", "leave", "ended"}]
  BY HandlerMoves
<1>6. crashed' \in BOOLEAN
  BY DEF TypeOK, HandlerNext, UndefinedUse
<1>7. misled' \in BOOLEAN
  <2>1. misled \in BOOLEAN
    BY DEF TypeOK
  <2>2. misled' = misled \/ misled' \in BOOLEAN
    BY DEF HandlerNext, LookupSsl, UndefinedUse
  <2> QED
    BY <2>1, <2>2
<1>2. sessions' \in Seq(Entry)
  <2>1. sessions \in Seq(Entry)
    BY DEF TypeOK, Entry
  <2>2. CASE EraseSession(c)
    BY <2>1, <2>2, FirstWithProperties, RemoveAtProperties DEF EraseSession
  <2>3. CASE ~EraseSession(c)
    BY <2>1, <2>3 DEF HandlerNext, HandlerSteps, LookupSsl, HandshakeOk,
       HandshakeFails, TestRunning, Read, ReadFails, Reply, FreeSsl, CloseSocket,
       Leave, UndefinedUse
  <2> QED
    BY <2>2, <2>3
<1>3. /\ heap' \in [Addresses -> Clients \union {NoClient}]
      /\ owner' \in [Fds -> Clients \union {NoClient}]
  BY DEF TypeOK, HandlerNext, HandlerSteps, LookupSsl, HandshakeOk,
     HandshakeFails, TestRunning, Read, ReadFails, Reply, FreeSsl, CloseSocket,
     EraseSession, Leave, UndefinedUse
<1>4. mySsl' \in [Clients -> Addresses \union {Null}]
  <2>1. CASE LookupSsl(c)
    <3>1. sessions \in Seq(Entry)
      BY DEF TypeOK, Entry
    <3>2. FirstWith(fd[c]) # 0 => sessions[FirstWith(fd[c])] \in Entry
      BY <3>1, FirstWithProperties, ElementOfSeq
    <3>3. FirstWith(fd[c]) # 0 =>
             sessions[FirstWith(fd[c])].ssl \in Addresses \union {Null}
      BY <3>2 DEF Entry
    <3>4. \/ UNCHANGED mySsl
          \/ \E o \in Addresses \union {Null} : mySsl' = [mySsl EXCEPT ![c] = o]
      BY <2>1, <3>3 DEF LookupSsl
    <3> QED
      BY <3>4 DEF TypeOK
  <2>2. CASE ~LookupSsl(c)
    BY <2>2 DEF TypeOK, HandlerNext, HandlerSteps, HandshakeOk,
       HandshakeFails, TestRunning, Read, ReadFails, Reply, FreeSsl, CloseSocket,
       EraseSession, Leave, UndefinedUse, threads
  <2> QED
    BY <2>1, <2>2
<1>5. /\ unread' \in [Clients -> 0 .. MaxRequests]
      /\ buffered' \in [Clients -> 0 .. MaxRequests]
      /\ replies' \in [Clients -> Nat]
  <2>1. /\ MaxRequests \in Nat
        /\ \A d \in Clients : unread[d] \in 0..MaxRequests /\ replies[d] \in Nat
        /\ buffered[c] \in 0..MaxRequests
        /\ pc[c] = "process" => buffered[c] > 0
    BY ServerAssumption DEF TypeOK, Counted
  <2>2. CASE Read(c)
    <3>1. PICK d \in Clients : d = Serves(c)
      BY <2>2, Served DEF Read
    <3>2. PICK k \in 1..unread[d] :
             /\ unread' = [unread EXCEPT ![d] = @ - k]
             /\ buffered' = [buffered EXCEPT ![c] = k]
      BY <2>2, <3>1 DEF Read
    <3>3. unread[d] - k \in 0..MaxRequests /\ k \in 0..MaxRequests
      BY <2>1, <3>2
    <3> QED
      BY <2>2, <3>2, <3>3 DEF TypeOK, Read
  <2>3. CASE Reply(c)
    <3>1. buffered[c] - 1 \in 0..MaxRequests
      BY <2>1, <2>3 DEF Reply
    <3>2. replies' \in [Clients -> Nat]
      <4>1. \/ UNCHANGED replies
            \/ \E d \in Clients : replies' = [replies EXCEPT ![d] = @ + 1]
        BY <2>3, Served DEF Reply, Write
      <4>2. \A d \in Clients : replies[d] + 1 \in Nat
        BY <2>1
      <4> QED
        BY <4>1, <4>2 DEF TypeOK
    <3> QED
      BY <2>3, <3>1, <3>2 DEF TypeOK, Reply, peers
  <2>4. CASE ~Read(c) /\ ~Reply(c)
    BY <2>4 DEF TypeOK, HandlerNext, HandlerSteps, LookupSsl, HandshakeOk,
       HandshakeFails, TestRunning, ReadFails, FreeSsl, CloseSocket,
       EraseSession, Leave, UndefinedUse, threads, peers
  <2> QED
    BY <2>2, <2>3, <2>4
<1> QED
  BY <1>1, <1>2, <1>3, <1>4, <1>5, <1>6, <1>7 DEF TypeOK, Entry

LEMMA HandlerPhases ==
    ASSUME TypeOK, Phases, Stopping, NEW c \in Clients, HandlerNext(c)
    PROVE  Phases' /\ Stopping'
<1>1. Phases'
  BY HandlerMoves DEF Phases, TypeOK
<1>2. CASE EraseSession(c)
  <2>1. sessions \in Seq(Entry)
    BY DEF TypeOK, Entry
  <2>2. sessions = <<>> => FirstWith(fd[c]) = 0
    BY <2>1, FirstWithProperties, EmptySeq
  <2>3. sessions = <<>> => sessions' = <<>>
    BY <1>2, <2>2 DEF EraseSession
  <2> QED
    BY <1>1, <2>3, HandlerMoves DEF Stopping
<1>3. CASE ~EraseSession(c)
  <2>1. UNCHANGED <<sessions, stopPc, listenPc>>
    BY <1>3, HandlerMoves DEF HandlerNext, HandlerSteps, LookupSsl, HandshakeOk,
       HandshakeFails, TestRunning, Read, ReadFails, Reply, FreeSsl, CloseSocket,
       Leave, UndefinedUse
  <2> QED
    BY <1>1, <2>1 DEF Stopping
<1> QED
  BY <1>1, <1>2, <1>3

LEMMA HandlerDescriptors ==
    ASSUME TypeOK, Phases, FdOwned, NEW c \in Clients, HandlerNext(c)
    PROVE  FdOwned'
<1>1. CASE CloseSocket(c)
  <2> SUFFICES ASSUME NEW d \in Clients, UsesFd(d)'
               PROVE  owner'[fd'[d]] = d
    BY DEF FdOwned
  <2>1. d # c
    <3>1. accepted # c
      BY <1>1, ServerAssumption DEF CloseSocket, Phases
    <3>2. pc'[c] = "erase" /\ UNCHANGED accepted
      BY <1>1 DEF CloseSocket, Goto, listener, TypeOK
    <3> QED
      BY <3>1, <3>2 DEF UsesFd, Using
  <2>2. UsesFd(d) /\ UsesFd(c)
    BY <1>1, <2>1, HandlerMoves DEF UsesFd, CloseSocket, Using
  <2>3. owner[fd[d]] = d /\ owner[fd[c]] = c
    BY <2>2 DEF FdOwned
  <2>4. fd[d] # fd[c] /\ fd[d] \in Fds
    BY <2>1, <2>2, <2>3 DEF Phases, UsesFd, Using
  <2> QED
    BY <1>1, <2>3, <2>4, HandlerMoves DEF CloseSocket, TypeOK
<1>2. CASE ~CloseSocket(c)
  <2>1. UNCHANGED owner
    BY <1>2 DEF HandlerNext, HandlerSteps, LookupSsl, HandshakeOk,
       HandshakeFails, TestRunning, Read, ReadFails, Reply, FreeSsl,
       EraseSession, Leave, UndefinedUse
  <2>2. \A d \in Clients : UsesFd(d)' => UsesFd(d)
    BY HandlerMoves DEF UsesFd
  <2> QED
    BY <2>1, <2>2, HandlerMoves DEF FdOwned
<1> QED
  BY <1>1, <1>2

LEMMA HandlerEntries ==
    ASSUME TypeOK, Entries, NEW c \in Clients, HandlerNext(c)
    PROVE  Entries'
<1>1. sessions \in Seq(Entry)
  BY DEF TypeOK, Entry
<1>4. \A j \in 1..Len(sessions') :
         \E i \in 1..Len(sessions) : sessions'[j] = sessions[i]
  <2>1. CASE EraseSession(c)
    <3>1. CASE FirstWith(fd[c]) = 0
      BY <2>1, <3>1 DEF EraseSession
    <3>2. CASE FirstWith(fd[c]) # 0
      <4> DEFINE n == FirstWith(fd[c])
      <4>1. n \in 1..Len(sessions) /\ sessions' = RemoveAt(sessions, n)
        BY <1>1, <2>1, <3>2, FirstWithProperties DEF EraseSession
      <4> HIDE DEF n
      <4>2. /\ Len(sessions') = Len(sessions) - 1
            /\ \A j \in 1..(Len(sessions) - 1) :
                  sessions'[j] = IF j < n THEN sessions[j] ELSE sessions[j + 1]
        BY <1>1, <4>1, RemoveAtProperties
      <4>3. \A j \in 1..(Len(sessions) - 1) :
               j \in 1..Len(sessions) /\ j + 1 \in 1..Len(sessions)
        BY <1>1, LenProperties
      <4> QED
        BY <4>2, <4>3
    <3> QED
      BY <3>1, <3>2
  <2>2. CASE ~EraseSession(c)
    BY <2>2 DEF HandlerNext, HandlerSteps, LookupSsl, HandshakeOk,
       HandshakeFails, TestRunning, Read, ReadFails, Reply, FreeSsl, CloseSocket,
       Leave, UndefinedUse
  <2> QED
    BY <2>1, <2>2
<1> QED
  BY <1>4, HandlerMoves DEF Entries

LEMMA EntriesFinite ==
    ASSUME TypeOK
    PROVE  /\ DOMAIN sessions = 1..Len(sessions) /\ Len(sessions) \in Nat
           /\ \A f : IsFiniteSet(EntriesOf(f))
<1>1. DOMAIN sessions = 1..Len(sessions) /\ Len(sessions) \in Nat
  BY LenProperties DEF TypeOK
<1>2. IsFiniteSet(1..Len(sessions))
  BY <1>1, FS_Interval
<1>3. \A f : EntriesOf(f) \in SUBSET (1..Len(sessions))
  BY <1>1 DEF EntriesOf
<1>4. \A f : IsFiniteSet(EntriesOf(f))
  BY <1>2, <1>3, FS_Subset
<1> QED
  BY <1>1, <1>4

(* The list has an entry for a thread that looks one up. *)
LEMMA LookupFinds ==
    ASSUME TypeOK, Phases, Matched, NEW c \in Clients, Tracked(c), pc[c] # "none"
    PROVE  FirstWith(fd[c]) \in 1..Len(sessions)
<1>1. fd[c] \in Fds /\ c \in ThreadsOf(fd[c])
  BY DEF Phases, ThreadsOf
<1>2. Cardinality(ThreadsOf(fd[c])) # 0
  BY <1>1, FS_EmptySet DEF Matched
<1>3. EntriesOf(fd[c]) # {}
  BY <1>1, <1>2, FS_EmptySet DEF Matched
<1>4. \E i \in 1..Len(sessions) : sessions[i].fd = fd[c]
  BY <1>3, EntriesFinite DEF EntriesOf
<1>5. sessions \in Seq(Entry)
  BY DEF TypeOK, Entry
<1> QED
  BY <1>4, <1>5, FirstWithProperties

LEMMA HandlerObjects ==
    ASSUME TypeOK, Phases, Entries, Objects, Matched, NEW c \in Clients,
           HandlerNext(c)
    PROVE  Objects'
<1>1. /\ UNCHANGED useSsl /\ pc[c] # "none" /\ (misled => misled')
      /\ \A d \in Clients \ {c} : pc'[d] = pc[d]
  BY HandlerMoves
<1>2. /\ mySsl \in [Clients -> Addresses \union {Null}]
      /\ pc \in [Clients -> Using \union {"none", "erase", "leave", "ended"}]
  BY DEF TypeOK
<1>3. CASE LookupSsl(c)
  <2> DEFINE n == FirstWith(fd[c])
  <2>1. pc[c] = "lookup" /\ useSsl /\ UNCHANGED heap
    BY <1>3 DEF LookupSsl, Objects
  <2>2. n \in 1..Len(sessions)
    BY <2>1, LookupFinds DEF Tracked, Using
  <2>3. n # 0
    <3>1. n \in 1..Len(sessions) => n # 0
      BY LenProperties DEF TypeOK
    <3> QED
      BY <2>2, <3>1
  <2>4. sessions[n].ssl # Null
    BY <2>1, <2>2 DEF Entries
  <2>5. /\ mySsl' = [mySsl EXCEPT ![c] = sessions[n].ssl]
        /\ misled' = (misled \/ heap[sessions[n].ssl] # c)
    BY <1>3, <2>3 DEF LookupSsl
  <2> HIDE DEF n
  <2>6. /\ mySsl'[c] = sessions[n].ssl
        /\ \A d \in Clients \ {c} : mySsl'[d] = mySsl[d]
    BY <1>2, <2>5
  <2>7. ~misled' => ~misled /\ heap[sessions[n].ssl] = c
    BY <2>5
  <2>8. (~misled => OwnSsl)'
    BY <1>1, <2>1, <2>4, <2>6, <2>7 DEF Objects, OwnSsl
  <2> QED
    BY <1>1, <2>1, <2>8 DEF Objects
<1>4. CASE HandlerSteps(c) \/ UndefinedUse(c)
  <2>1. UNCHANGED misled
    BY <1>4 DEF HandlerNext, LookupSsl, HandlerSteps, HandshakeOk,
       HandshakeFails, TestRunning, Read, ReadFails, Reply, FreeSsl, CloseSocket,
       EraseSession, Leave, UndefinedUse
  <2>2. /\ pc'[c] # "lookup"
        /\ pc'[c] \in Using \ {"lookup", "close"} =>
              pc[c] \in Using \ {"lookup", "close"}
    BY <1>2, <1>4 DEF HandlerSteps, HandshakeOk, HandshakeFails,
       TestRunning, Read, ReadFails, Reply, FreeSsl, CloseSocket, EraseSession,
       Leave, UndefinedUse, threads, Goto, Using
  <2>3. CASE FreeSsl(c)
    <3>1. /\ heap' = [o \in Addresses |-> IF o = mySsl[c] THEN NoClient ELSE heap[o]]
          /\ mySsl'[c] = Null
          /\ \A d \in Clients \ {c} : mySsl'[d] = mySsl[d]
          /\ pc[c] = "free" /\ pc'[c] = "close"
      BY <1>2, <2>3 DEF FreeSsl, Goto
    <3>2. ASSUME ~misled, useSsl, NEW d \in Clients,
                 pc'[d] \in Using \ {"lookup", "close"}
          PROVE  mySsl'[d] # Null /\ heap'[mySsl'[d]] = d
      <4>1. d # c /\ pc'[d] = pc[d]
        BY <1>1, <3>1, <3>2
      <4>2. /\ mySsl[d] # Null /\ heap[mySsl[d]] = d
            /\ heap[mySsl[c]] = c
        BY <3>1, <3>2, <4>1 DEF Objects, OwnSsl, Using
      <4>3. mySsl[d] # mySsl[c] /\ mySsl[d] \in Addresses
        BY <1>2, <4>1, <4>2
      <4> QED
        BY <3>1, <4>1, <4>2, <4>3
    <3>3. (~misled => OwnSsl)'
      BY <1>1, <2>1, <3>2 DEF OwnSsl
    <3> QED
      BY <1>1, <2>1, <2>2, <3>1, <3>3 DEF Objects
  <2>4. CASE ~FreeSsl(c)
    <3>1. UNCHANGED <<heap, mySsl>>
      BY <1>4, <2>4 DEF HandlerSteps, HandshakeOk, HandshakeFails,
         TestRunning, Read, ReadFails, Reply, CloseSocket, EraseSession, Leave,
         UndefinedUse, threads
    <3>2. (~misled => OwnSsl)'
      BY <1>1, <2>1, <2>2, <3>1 DEF Objects, OwnSsl
    <3> QED
      BY <1>1, <2>1, <2>2, <3>1, <3>2 DEF Objects
  <2> QED
    BY <2>3, <2>4
<1> QED
  BY <1>3, <1>4 DEF HandlerNext

LEMMA HandlerCounted ==
    ASSUME TypeOK, Counted, Objects, NEW c \in Clients, HandlerNext(c)
    PROVE  Counted'
<1>1. /\ UNCHANGED <<running, shut, peer, sent>> /\ (misled => misled')
      /\ \A d \in Clients \ {c} : pc'[d] = pc[d]
  BY HandlerMoves
<1>2. \A d \in Clients : Broken(d)' <=> Broken(d)
  BY <1>1 DEF Broken
<1>3. \A d \in Clients :
         /\ unread[d] \in Nat /\ buffered[d] \in Nat /\ replies[d] \in Nat
         /\ sent[d] \in Nat /\ unread[d] <= sent[d]
         /\ buffered[d] > 0 <=> pc[d] = "process"
         /\ running /\ ~misled /\ ~Broken(d) =>
               sent[d] = unread[d] + buffered[d] + replies[d]
  BY ServerAssumption DEF TypeOK, Counted
<1>4. CASE Read(c)
  <2>1. PICK d \in Clients : d = Serves(c)
    BY <1>4, Served DEF Read
  <2>2. PICK k \in 1..unread[d] :
           /\ unread' = [unread EXCEPT ![d] = @ - k]
           /\ buffered' = [buffered EXCEPT ![c] = k]
    BY <1>4, <2>1 DEF Read
  <2>3. /\ pc[c] = "read" /\ pc'[c] = "process" /\ UNCHANGED replies
        /\ unread'[d] = unread[d] - k /\ buffered'[c] = k
        /\ \A e \in Clients \ {c} : buffered'[e] = buffered[e]
        /\ \A e \in Clients \ {d} : unread'[e] = unread[e]
    BY <1>4, <2>2 DEF Read, Goto, TypeOK
  <2>4. ~misled => d = c
    BY <2>1, <2>3, Served
  <2>5. /\ k \in Nat /\ k > 0 /\ k <= unread[d]
    BY <1>3, <2>2
  <2>6. buffered[c] = 0
    BY <1>3, <2>3
  <2>7. ASSUME NEW e \in Clients
        PROVE  /\ buffered'[e] > 0 <=> pc'[e] = "process"
               /\ unread'[e] <= sent[e]
    BY <1>1, <1>3, <2>3, <2>5
  <2>8. ASSUME NEW e \in Clients, running, ~misled, ~Broken(e)
        PROVE  sent[e] = unread'[e] + buffered'[e] + replies[e]
    <3>1. CASE e = c
      BY <1>3, <2>3, <2>4, <2>5, <2>6, <2>8, <3>1
    <3>2. CASE e # c
      BY <1>3, <2>3, <2>4, <2>8, <3>2
    <3> QED
      BY <3>1, <3>2
  <2> QED
    BY <1>1, <1>2, <2>3, <2>7, <2>8 DEF Counted
<1>5. CASE Reply(c)
  <2>1. /\ pc[c] = "process" /\ UNCHANGED unread /\ Write(Serves(c))
        /\ pc'[c] = IF buffered[c] > 1 THEN "process" ELSE "loop"
        /\ buffered'[c] = buffered[c] - 1
        /\ \A e \in Clients \ {c} : buffered'[e] = buffered[e]
    BY <1>5 DEF Reply, Goto, TypeOK, peers
  <2>2. ~misled => Serves(c) = c
    BY <2>1, Served
  <2>3. running /\ ~misled /\ ~Broken(c) =>
           /\ replies'[c] = replies[c] + 1
           /\ \A e \in Clients \ {c} : replies'[e] = replies[e]
    BY <2>1, <2>2, ServerAssumption DEF Write, TypeOK
  <2>4. ~misled /\ Broken(c) => UNCHANGED replies
    BY <2>1, <2>2 DEF Write
  <2>5. ASSUME NEW e \in Clients
        PROVE  /\ buffered'[e] > 0 <=> pc'[e] = "process"
               /\ unread'[e] <= sent[e]
    BY <1>1, <1>3, <2>1
  <2>6. ASSUME NEW e \in Clients, running, ~misled, ~Broken(e)
        PROVE  sent[e] = unread'[e] + buffered'[e] + replies'[e]
    <3>1. CASE e = c
      BY <1>3, <2>1, <2>3, <2>6, <3>1
    <3>2. CASE e # c
      BY <1>3, <2>1, <2>3, <2>4, <2>6, <3>2
    <3> QED
      BY <3>1, <3>2
  <2> QED
    BY <1>1, <1>2, <2>5, <2>6 DEF Counted
<1>6. CASE ~Read(c) /\ ~Reply(c)
  <2>1. /\ UNCHANGED <<unread, buffered, replies>>
        /\ pc[c] = "process" <=> pc'[c] = "process"
    BY <1>6 DEF TypeOK, HandlerNext, HandlerSteps, LookupSsl, HandshakeOk,
       HandshakeFails, TestRunning, ReadFails, FreeSsl, CloseSocket,
       EraseSession, Leave, UndefinedUse, threads, peers, Goto
  <2>2. \A d \in Clients : buffered[d] > 0 <=> pc'[d] = "process"
    BY <1>1, <1>3, <2>1
  <2> QED
    BY <1>1, <1>2, <1>3, <2>1, <2>2 DEF Counted
<1> QED
  BY <1>4, <1>5, <1>6

-----------------------------------------------------------------------------
(* The session list and the threads it is there for.                       *)

(* A step that leaves the list and who is in it alone.                     *)
LEMMA MatchedUnchanged ==
    ASSUME Matched, UNCHANGED sessions,
           \A c \in Clients : Tracked(c)' <=> Tracked(c),
           \A c \in Clients : Tracked(c) => fd'[c] = fd[c]
    PROVE  Matched'
<1>1. \A f \in Fds : ThreadsOf(f)' = ThreadsOf(f)
  BY DEF ThreadsOf
<1>2. \A f \in Fds : EntriesOf(f)' = EntriesOf(f)
  BY DEF EntriesOf
<1> QED
  BY <1>1, <1>2 DEF Matched

(* PushSession: one entry more, one connection more.                       *)
LEMMA PushMatched ==
    ASSUME TypeOK, Matched, NEW c \in Clients, NEW e \in Entry,
           sessions' = Append(sessions, e), e.fd = fd[c], UNCHANGED fd,
           ~Tracked(c), Tracked(c)',
           \A d \in Clients \ {c} : Tracked(d)' <=> Tracked(d)
    PROVE  Matched'
<1> SUFFICES ASSUME NEW f \in Fds
             PROVE  /\ IsFiniteSet(ThreadsOf(f)')
                    /\ Cardinality(EntriesOf(f)') = Cardinality(ThreadsOf(f)')
  BY DEF Matched
<1>1. IsFiniteSet(ThreadsOf(f)) /\ Cardinality(EntriesOf(f)) = Cardinality(ThreadsOf(f))
  BY DEF Matched
<1>2. /\ DOMAIN sessions = 1..Len(sessions) /\ Len(sessions) \in Nat
      /\ IsFiniteSet(EntriesOf(f))
  BY EntriesFinite
<1>3. /\ Len(sessions') = Len(sessions) + 1
      /\ DOMAIN sessions' = 1..(Len(sessions) + 1)
      /\ \A i \in 1..Len(sessions) : sessions'[i] = sessions[i]
      /\ sessions'[Len(sessions) + 1] = e
  <2>1. sessions \in Seq(Entry)
    BY DEF TypeOK, Entry
  <2>2. sessions' \in Seq(Entry) /\ Len(sessions') = Len(sessions) + 1
    BY <2>1, AppendProperties
  <2> QED
    BY <2>1, <2>2, AppendProperties, LenProperties
<1>4. CASE fd[c] = f
  <2>1. EntriesOf(f)' = EntriesOf(f) \union {Len(sessions) + 1}
    BY <1>2, <1>3, <1>4 DEF EntriesOf
  <2>2. Len(sessions) + 1 \notin EntriesOf(f)
    BY <1>2 DEF EntriesOf
  <2>3. ThreadsOf(f)' = ThreadsOf(f) \union {c} /\ c \notin ThreadsOf(f)
    BY <1>4 DEF ThreadsOf
  <2>4. Cardinality(EntriesOf(f)') = Cardinality(EntriesOf(f)) + 1
    BY <1>2, <2>1, <2>2, FS_AddElement
  <2>5. /\ IsFiniteSet(ThreadsOf(f)')
        /\ Cardinality(ThreadsOf(f)') = Cardinality(ThreadsOf(f)) + 1
    BY <1>1, <2>3, FS_AddElement
  <2> QED
    BY <1>1, <2>4, <2>5
<1>5. CASE fd[c] # f
  <2>1. EntriesOf(f)' = EntriesOf(f)
    BY <1>2, <1>3, <1>5 DEF EntriesOf
  <2>2. ThreadsOf(f)' = ThreadsOf(f)
    BY <1>5 DEF ThreadsOf
  <2> QED
    BY <1>1, <2>1, <2>2
<1> QED
  BY <1>4, <1>5

(* Removing an element moves those behind it down by one.                  *)
LEMMA EntriesRemoved ==
    ASSUME TypeOK, NEW n \in 1..Len(sessions), sessions' = RemoveAt(sessions, n),
           NEW f
    PROVE  Cardinality(EntriesOf(f)') = Cardinality(EntriesOf(f) \ {n})
<1> DEFINE S == EntriesOf(f) \ {n}
           T == EntriesOf(f)'
           g == [i \in S |-> IF i < n THEN i ELSE i - 1]
<1>1. /\ DOMAIN sessions = 1..Len(sessions) /\ Len(sessions) \in Nat
      /\ IsFiniteSet(EntriesOf(f))
  BY EntriesFinite
<1>2. /\ DOMAIN sessions' = 1..(Len(sessions) - 1)
      /\ \A i \in 1..(Len(sessions) - 1) :
            sessions'[i] = IF i < n THEN sessions[i] ELSE sessions[i + 1]
  <2>1. sessions \in Seq(Entry)
    BY DEF TypeOK, Entry
  <2>2. /\ sessions' \in Seq(Entry) /\ Len(sessions') = Len(sessions) - 1
        /\ \A i \in 1..(Len(sessions) - 1) :
              sessions'[i] = IF i < n THEN sessions[i] ELSE sessions[i + 1]
    BY <2>1, RemoveAtProperties
  <2> QED
    BY <2>2, LenProperties
<1>3. IsFiniteSet(S)
  BY <1>1, FS_RemoveElement
<1>4. \A i \in S : i \in 1..Len(sessions) /\ i # n /\ sessions[i].fd = f
  BY <1>1 DEF EntriesOf
<1>5. \A i \in S : (IF i < n THEN i ELSE i - 1) \in T
  <2> SUFFICES ASSUME NEW i \in S
               PROVE  (IF i < n THEN i ELSE i - 1) \in T
    OBVIOUS
  <2>1. i \in 1..Len(sessions) /\ i # n /\ sessions[i].fd = f
    BY <1>4
  <2>2. CASE i < n
    <3>1. i \in 1..(Len(sessions) - 1)
      BY <1>1, <2>1, <2>2
    <3> QED
      BY <1>2, <2>1, <2>2, <3>1 DEF EntriesOf
  <2>3. CASE ~(i < n)
    <3>1. /\ i - 1 \in 1..(Len(sessions) - 1) /\ ~(i - 1 < n)
          /\ (i - 1) + 1 = i
      BY <1>1, <2>1, <2>3
    <3> QED
      BY <1>2, <2>1, <2>3, <3>1 DEF EntriesOf
  <2> QED
    BY <2>2, <2>3
<1>6. \A j \in T : \E i \in S : j = IF i < n THEN i ELSE i - 1
  <2> SUFFICES ASSUME NEW j \in T
               PROVE  \E i \in S : j = IF i < n THEN i ELSE i - 1
    OBVIOUS
  <2>1. j \in 1..(Len(sessions) - 1) /\ sessions'[j].fd = f
    BY <1>2 DEF EntriesOf
  <2>2. CASE j < n
    <3>1. j \in S
      BY <1>1, <1>2, <2>1, <2>2 DEF EntriesOf
    <3> QED
      BY <2>2, <3>1
  <2>3. CASE ~(j < n)
    <3>1. /\ j + 1 \in 1..Len(sessions) /\ j + 1 # n /\ ~(j + 1 < n)
          /\ (j + 1) - 1 = j
      BY <1>1, <2>1, <2>3
    <3>2. j + 1 \in S
      BY <1>1, <1>2, <2>1, <2>3, <3>1 DEF EntriesOf
    <3> QED
      BY <3>1, <3>2
  <2> QED
    BY <2>2, <2>3
<1>7. \A i, j \in S : (IF i < n THEN i ELSE i - 1) = (IF j < n THEN j ELSE j - 1)
                        => i = j
  BY <1>1, <1>4
<1> HIDE DEF S, T
<1>8. g \in Bijection(S, T)
  BY <1>5, <1>6, <1>7 DEF Bijection, Injection, Surjection, IsInjective
<1>9. ExistsBijection(S, T)
  BY <1>8 DEF ExistsBijection
<1> QED
  BY <1>3, <1>9, FS_Bijection DEF S, T

LEMMA HandlerMatched ==
    ASSUME TypeOK, Phases, Matched, NEW c \in Clients, HandlerNext(c)
    PROVE  Matched'
<1>1. /\ \A d \in Clients \ {c} : Tracked(d)' <=> Tracked(d)
      /\ UNCHANGED <<fd, accepted, listenPc>>
  BY HandlerMoves DEF Tracked
<1>2. accepted # c
  BY HandlerMoves, ServerAssumption DEF Phases
<1>3. CASE EraseSession(c)
  <2>1. Tracked(c) /\ ~Tracked(c)'
    BY <1>1, <1>2, <1>3 DEF EraseSession, Goto, Tracked, Using, TypeOK
  <2>2. fd[c] \in Fds
    BY <1>3 DEF EraseSession, Phases
  <2> DEFINE n == FirstWith(fd[c])
  <2>3. c \in ThreadsOf(fd[c])
    BY <2>1 DEF ThreadsOf
  <2>4. n \in 1..Len(sessions) /\ sessions[n].fd = fd[c]
    <3>1. n \in 1..Len(sessions)
      BY <1>3, <2>1, LookupFinds DEF EraseSession
    <3>2. n # 0
      BY <3>1, LenProperties DEF TypeOK
    <3>3. sessions \in Seq(Entry)
      BY DEF TypeOK, Entry
    <3> QED
      BY <3>1, <3>2, <3>3, FirstWithProperties
  <2>5. sessions' = RemoveAt(sessions, n)
    BY <1>3, <2>4 DEF EraseSession
  <2> HIDE DEF n
  <2> SUFFICES ASSUME NEW f \in Fds
               PROVE  /\ IsFiniteSet(ThreadsOf(f)')
                      /\ Cardinality(EntriesOf(f)') = Cardinality(ThreadsOf(f)')
    BY DEF Matched
  <2>6. /\ IsFiniteSet(ThreadsOf(f)) /\ IsFiniteSet(EntriesOf(f))
        /\ Cardinality(EntriesOf(f)) = Cardinality(ThreadsOf(f))
    BY EntriesFinite DEF Matched
  <2>7. Cardinality(EntriesOf(f)') = Cardinality(EntriesOf(f) \ {n})
    BY <2>4, <2>5, EntriesRemoved
  <2>8. ThreadsOf(f)' = ThreadsOf(f) \ {c}
    BY <1>1, <2>1 DEF ThreadsOf
  <2>9. n \in EntriesOf(f) <=> c \in ThreadsOf(f)
    BY <2>1, <2>4, EntriesFinite DEF EntriesOf, ThreadsOf
  <2>10. Cardinality(EntriesOf(f) \ {n}) =
            IF n \in EntriesOf(f) THEN Cardinality(EntriesOf(f)) - 1
            ELSE Cardinality(EntriesOf(f))
    BY <2>6, FS_RemoveElement
  <2>11. /\ IsFiniteSet(ThreadsOf(f) \ {c})
         /\ Cardinality(ThreadsOf(f) \ {c}) =
               IF c \in ThreadsOf(f) THEN Cardinality(ThreadsOf(f)) - 1
               ELSE Cardinality(ThreadsOf(f))
    BY <2>6, FS_RemoveElement
  <2> QED
    BY <2>6, <2>7, <2>8, <2>9, <2>10, <2>11
<1>4. CASE ~EraseSession(c)
  <2>1. UNCHANGED sessions
    BY <1>4 DEF HandlerNext, HandlerSteps, LookupSsl, HandshakeOk,
       HandshakeFails, TestRunning, Read, ReadFails, Reply, FreeSsl, CloseSocket,
       Leave, UndefinedUse
  <2>2. pc'[c] \in Using \union {"erase"} <=> pc[c] \in Using \union {"erase"}
    BY <1>4 DEF TypeOK, HandlerNext, HandlerSteps, LookupSsl, HandshakeOk,
       HandshakeFails, TestRunning, Read, ReadFails, Reply, FreeSsl, CloseSocket,
       Leave, UndefinedUse, Goto, Using, threads
  <2>3. \A d \in Clients : Tracked(d)' <=> Tracked(d)
    BY <1>1, <1>2, <2>2 DEF Tracked
  <2> QED
    BY <1>1, <2>1, <2>3, MatchedUnchanged
<1> QED
  BY <1>3, <1>4

(* Of two connections that have the same descriptor at once, the thread    *)
(* that closed it erases an entry before the last.                         *)
LEMMA EraseKeepsLast ==
    ASSUME TypeOK, Phases, Matched, NEW c \in Clients, EraseSession(c),
           NEW d \in Clients \ {c}, LooksUp(d), fd[d] \in Fds,
           OwnEntryIsLast(d), UNCHANGED <<heap, fd>>
    PROVE  OwnEntryIsLast(d)'
<1> DEFINE n == FirstWith(fd[c])
<1>1. /\ DOMAIN sessions = 1..Len(sessions) /\ Len(sessions) \in Nat
      /\ \A f : IsFiniteSet(EntriesOf(f))
  BY EntriesFinite
<1>2. sessions \in Seq(Entry)
  BY DEF TypeOK, Entry
<1>3. n \in 1..Len(sessions) /\ sessions[n].fd = fd[c]
  <2>1. n \in 1..Len(sessions)
    BY LookupFinds DEF EraseSession, Tracked
  <2> QED
    BY <1>1, <1>2, <2>1, FirstWithProperties
<1>4. sessions' = RemoveAt(sessions, n)
  <2>1. n # 0
    BY <1>1, <1>3
  <2> QED
    BY <2>1 DEF EraseSession
<1> HIDE DEF n
<1>5. /\ DOMAIN sessions' = 1..(Len(sessions) - 1)
      /\ \A i \in 1..(Len(sessions) - 1) :
            sessions'[i] = IF i < n THEN sessions[i] ELSE sessions[i + 1]
  <2>1. /\ sessions' \in Seq(Entry) /\ Len(sessions') = Len(sessions) - 1
        /\ \A i \in 1..(Len(sessions) - 1) :
              sessions'[i] = IF i < n THEN sessions[i] ELSE sessions[i + 1]
    BY <1>2, <1>3, <1>4, RemoveAtProperties
  <2> QED
    BY <2>1, LenProperties
<1>6. PICK i \in 1..Len(sessions) :
         /\ sessions[i].fd = fd[d] /\ heap[sessions[i].ssl] = d
         /\ \A j \in 1..Len(sessions) : sessions[j].fd = fd[d] => j <= i
  BY <1>1 DEF OwnEntryIsLast
<1>7. fd[d] = fd[c] => \E k \in EntriesOf(fd[d]) : k # n
  <2> SUFFICES ASSUME fd[d] = fd[c], \A k \in EntriesOf(fd[d]) : k = n
               PROVE  FALSE
    OBVIOUS
  <2>1. EntriesOf(fd[d]) = {n}
    BY <1>1, <1>3 DEF EntriesOf
  <2>2. Cardinality(ThreadsOf(fd[d])) = 1 /\ IsFiniteSet(ThreadsOf(fd[d]))
    BY <2>1, FS_Singleton DEF Matched
  <2>3. c \in ThreadsOf(fd[d]) /\ d \in ThreadsOf(fd[d])
    BY DEF ThreadsOf, LooksUp, Tracked, Using, EraseSession
  <2>4. \E x : ThreadsOf(fd[d]) = {x}
    BY <2>2, FS_Singleton
  <2> QED
    BY <2>3, <2>4
<1>8. i # n
  <2> SUFFICES ASSUME i = n
               PROVE  FALSE
    OBVIOUS
  <2>1. fd[d] = fd[c]
    BY <1>3, <1>6
  <2>2. PICK k \in EntriesOf(fd[d]) : k # n
    BY <1>7, <2>1
  <2>3. k \in 1..Len(sessions) /\ sessions[k].fd = fd[c]
    BY <1>1, <2>1, <2>2 DEF EntriesOf
  <2>4. k < n
    BY <1>1, <1>3, <1>6, <2>1, <2>2, <2>3
  <2> QED
    BY <1>2, <1>3, <2>3, <2>4, FirstWithIsFirst DEF n
<1> DEFINE m == IF i < n THEN i ELSE i - 1
<1>9. m \in 1..(Len(sessions) - 1) /\ sessions'[m] = sessions[i]
  <2>1. CASE i < n
    <3>1. i \in 1..(Len(sessions) - 1)
      BY <1>1, <1>3, <1>6, <2>1
    <3> QED
      BY <1>5, <2>1, <3>1
  <2>2. CASE ~(i < n)
    <3>1. i - 1 \in 1..(Len(sessions) - 1) /\ ~(i - 1 < n) /\ (i - 1) + 1 = i
      BY <1>1, <1>3, <1>6, <1>8, <2>2
    <3> QED
      BY <1>5, <2>2, <3>1
  <2> QED
    BY <2>1, <2>2
<1>10. ASSUME NEW j \in 1..(Len(sessions) - 1), sessions'[j].fd = fd[d]
       PROVE  j <= m
  <2>1. CASE j < n
    <3>1. j \in 1..Len(sessions) /\ sessions[j].fd = fd[d]
      BY <1>1, <1>5, <1>10, <2>1
    <3> QED
      BY <1>1, <1>3, <1>6, <1>8, <2>1, <3>1
  <2>2. CASE ~(j < n)
    <3>1. j + 1 \in 1..Len(sessions) /\ sessions[j + 1].fd = fd[d]
      BY <1>1, <1>5, <1>10, <2>2
    <3>2. j + 1 <= i
      BY <1>6, <3>1
    <3> QED
      BY <1>1, <1>3, <1>6, <2>2, <3>2
  <2> QED
    BY <2>1, <2>2
<1> HIDE DEF m
<1> QED
  BY <1>5, <1>6, <1>9, <1>10 DEF OwnEntryIsLast

LEMMA HandlerOwnEntries ==
    ASSUME IInv, NEW c \in Clients, HandlerNext(c)
    PROVE  OwnEntries'
<1> SUFFICES ASSUME ~misled', useSsl', NEW d \in Clients, LooksUp(d)'
             PROVE  OwnEntryIsLast(d)'
  BY DEF OwnEntries
<1>1. /\ ~misled /\ useSsl /\ UNCHANGED <<fd, accepted, listenPc>>
      /\ \A e \in Clients \ {c} : pc'[e] = pc[e]
  BY HandlerMoves DEF IInv
<1>2. d # c /\ LooksUp(d)
  <2>1. accepted # c
    BY HandlerMoves, ServerAssumption DEF IInv, Phases
  <2>2. pc'[c] # "lookup"
    BY DEF IInv, TypeOK, HandlerNext, HandlerSteps, LookupSsl, HandshakeOk,
       HandshakeFails, TestRunning, Read, ReadFails, Reply, FreeSsl, CloseSocket,
       EraseSession, Leave, UndefinedUse, Undefined, threads, Goto
  <2> QED
    BY <1>1, <2>1, <2>2 DEF LooksUp
<1>3. OwnEntryIsLast(d)
  BY <1>1, <1>2 DEF IInv, OwnEntries
<1>4. fd[d] \in Fds
  BY <1>2 DEF IInv, Phases, LooksUp
<1>5. CASE EraseSession(c)
  <2>1. UNCHANGED heap
    BY <1>5 DEF EraseSession
  <2> QED
    BY <1>1, <1>2, <1>3, <1>4, <1>5, <2>1, EraseKeepsLast DEF IInv
<1>6. CASE FreeSsl(c)
  <2>1. UNCHANGED sessions /\ pc[c] = "free"
        /\ heap' = [o \in Addresses |-> IF o = mySsl[c] THEN NoClient ELSE heap[o]]
    BY <1>6 DEF FreeSsl
  <2>2. heap[mySsl[c]] = c
    BY <1>1, <2>1 DEF IInv, Objects, OwnSsl, Using
  <2>3. PICK i \in DOMAIN sessions :
           /\ sessions[i].fd = fd[d] /\ heap[sessions[i].ssl] = d
           /\ \A j \in DOMAIN sessions : sessions[j].fd = fd[d] => j <= i
    BY <1>3 DEF OwnEntryIsLast
  <2>4. sessions[i].ssl \in Addresses
    <3>1. sessions \in Seq(Entry)
      BY DEF IInv, TypeOK, Entry
    <3>2. i \in 1..Len(sessions)
      BY <3>1, LenProperties
    <3>3. sessions[i] \in Entry
      BY <3>1, <3>2, ElementOfSeq
    <3>4. sessions[i].ssl # Null
      BY <1>1, <3>2 DEF IInv, Entries
    <3> QED
      BY <3>3, <3>4 DEF Entry
  <2>5. heap'[sessions[i].ssl] = d
    BY <1>2, <2>1, <2>2, <2>3, <2>4
  <2> QED
    BY <1>1, <2>1, <2>3, <2>5 DEF OwnEntryIsLast
<1>7. CASE ~EraseSession(c) /\ ~FreeSsl(c)
  <2>1. UNCHANGED <<sessions, heap>>
    BY <1>7 DEF HandlerNext, HandlerSteps, LookupSsl, HandshakeOk,
       HandshakeFails, TestRunning, Read, ReadFails, Reply, CloseSocket, Leave,
       UndefinedUse
  <2> QED
    BY <1>1, <1>3, <2>1 DEF OwnEntryIsLast
<1> QED
  BY <1>5, <1>6, <1>7

LEMMA HandlerKeeps ==
    ASSUME IInv, NEW c \in Clients, HandlerNext(c)
    PROVE  IInv'
  BY HandlerTypes, HandlerPhases, HandlerDescriptors, HandlerEntries,
     HandlerObjects, HandlerOwnEntries, HandlerCounted, HandlerMatched DEF IInv

-----------------------------------------------------------------------------
(* The listener.                                                           *)

LEMMA ListenKeeps ==
    ASSUME IInv, ListenNext
    PROVE  IInv'
<1> USE DEF IInv
<1>1. CASE ListenTest \/ AcceptFails
  <2>1. /\ UNCHANGED <<useSsl, misled, crashed, running, listening, accepted, stopPc>>
        /\ UNCHANGED <<sessions, heap, owner, shut, threads, peers, replies>>
        /\ UNCHANGED <<pc, fd, mySsl, buffered, peer, unread, sent>>
        /\ listenPc \in {"loop", "accept"}
        /\ listenPc' \in {"loop", "accept", "ended"}
    BY <1>1 DEF ListenNext, ListenTest, AcceptFails, threads, peers
  <2>2. TypeOK'
    BY <2>1 DEF TypeOK
  <2>3. Phases' /\ Stopping'
    BY <2>1 DEF Phases, Stopping
  <2>4. FdOwned' /\ Counted'
    BY <2>1 DEF FdOwned, UsesFd, Counted, Broken
  <2>5. Entries' /\ Objects'
    BY <2>1 DEF Entries, Objects, OwnSsl
  <2>6. Matched'
    BY <2>1, MatchedUnchanged DEF Tracked
  <2>7. OwnEntries'
    <3>1. \A c \in Clients : LooksUp(c)' => LooksUp(c)
      BY <2>1 DEF LooksUp
    <3> QED
      BY <2>1, <3>1 DEF OwnEntries, OwnEntryIsLast
  <2> QED
    BY <2>2, <2>3, <2>4, <2>5, <2>6, <2>7
<1>2. ASSUME NEW c \in Clients, Accept(c)
      PROVE  IInv'
  <2>1. PICK f : /\ f = Min(FreeFds)
                 /\ owner' = [owner EXCEPT ![f] = c]
                 /\ fd' = [fd EXCEPT ![c] = f]
    BY <1>2 DEF Accept
  <2>2. f \in Fds /\ owner[f] = NoClient
    BY <1>2, <2>1, MinIsElement, ServerAssumption DEF Accept, FreeFds
  <2>3. /\ UNCHANGED <<useSsl, misled, crashed, running, listening, stopPc, sessions>>
        /\ UNCHANGED <<heap, shut, pc, mySsl, buffered, unread, sent, replies>>
        /\ listenPc = "accept" /\ listenPc' = "push" /\ accepted' = c
        /\ peer[c] = "pending" /\ peer' = [peer EXCEPT ![c] = "open"]
    BY <1>2 DEF ListenNext, Accept
  <2>4. pc[c] = "none" /\ accepted = NoClient /\ c # NoClient
    BY <2>3, ServerAssumption DEF Phases
  <2>5. TypeOK'
    BY <2>1, <2>2, <2>3 DEF TypeOK
  <2>6. Phases' /\ Stopping'
    BY <2>1, <2>2, <2>3, <2>4 DEF Phases, Stopping, TypeOK
  <2>7. FdOwned'
    <3> SUFFICES ASSUME NEW d \in Clients, UsesFd(d)'
                 PROVE  owner'[fd'[d]] = d
      BY DEF FdOwned
    <3>1. CASE d = c
      BY <2>1, <2>2, <3>1 DEF TypeOK
    <3>2. CASE d # c
      <4>1. UsesFd(d) /\ owner[fd[d]] = d /\ fd[d] \in Fds
        BY <2>3, <3>2 DEF UsesFd, Using, FdOwned, Phases
      <4>2. fd[d] # f /\ fd'[d] = fd[d]
        BY <2>1, <2>2, <3>2, <4>1, ServerAssumption DEF TypeOK
      <4> QED
        BY <2>1, <4>1, <4>2 DEF TypeOK
    <3> QED
      BY <3>1, <3>2
  <2>8. Entries'
    BY <2>3 DEF Entries
  <2>9. Objects'
    BY <2>3 DEF Objects, OwnSsl
  <2>10. Counted'
    BY <2>3 DEF Counted, Broken, TypeOK
  <2>11. Matched'
    <3>1. \A d \in Clients : Tracked(d)' <=> Tracked(d)
      BY <2>3, <2>4, ServerAssumption DEF Tracked
    <3>2. ~Tracked(c)
      BY <2>3, <2>4 DEF Tracked, Using
    <3>3. \A d \in Clients : d # c => fd'[d] = fd[d]
      BY <2>1 DEF TypeOK
    <3> QED
      BY <2>3, <3>1, <3>2, <3>3, MatchedUnchanged
  <2>12. OwnEntries'
    <3> SUFFICES ASSUME ~misled, useSsl, NEW d \in Clients, LooksUp(d)'
                 PROVE  OwnEntryIsLast(d)'
      BY <2>3 DEF OwnEntries
    <3>1. d # c /\ LooksUp(d)
      BY <2>3, <2>4 DEF LooksUp
    <3>2. fd'[d] = fd[d]
      BY <2>1, <3>1 DEF TypeOK
    <3> QED
      BY <2>3, <3>1, <3>2 DEF OwnEntries, OwnEntryIsLast
  <2> QED
    BY <2>5, <2>6, <2>7, <2>8, <2>9, <2>10, <2>11, <2>12
<1>3. CASE PushSession
  <2>1. PICK c \in Clients : c = accepted /\ c # NoClient
    BY <1>3 DEF PushSession, Phases, TypeOK
  <2>2. PICK o \in Addresses \union {Null}, e \in Entry :
           /\ e = [fd |-> fd[c], ssl |-> o] /\ sessions' = Append(sessions, e)
           /\ heap' = [a \in Addresses |-> IF a = o THEN c ELSE heap[a]]
           /\ useSsl => o # Null /\ heap[o] = NoClient
           /\ ~useSsl => o = Null
    <3>1. PICK o \in IF useSsl THEN {a \in Addresses : heap[a] = NoClient} ELSE {Null} :
             /\ sessions' = Append(sessions, [fd |-> fd[c], ssl |-> o])
             /\ heap' = [a \in Addresses |-> IF a = o THEN c ELSE heap[a]]
      BY <1>3, <2>1 DEF PushSession
    <3>2. /\ o \in Addresses \union {Null}
          /\ useSsl => o # Null /\ heap[o] = NoClient
          /\ ~useSsl => o = Null
      BY <3>1, ServerAssumption
    <3>3. fd[c] \in Fds
      BY <2>1 DEF Phases
    <3>4. [fd |-> fd[c], ssl |-> o] \in Entry
      BY <3>2, <3>3 DEF Entry
    <3> QED
      BY <3>1, <3>2, <3>4
  <2>3. /\ UNCHANGED <<useSsl, misled, crashed, running, listening, accepted, stopPc>>
        /\ UNCHANGED <<owner, shut, pc, fd, mySsl, buffered, peer, unread, sent>>
        /\ UNCHANGED replies
        /\ listenPc = "push" /\ listenPc' = "spawn"
        /\ sessions' = Append(sessions, e)
    BY <1>3, <2>1, <2>2 DEF ListenNext, PushSession, threads, peers
  <2>4. pc[c] = "none" /\ fd[c] \in Fds
    BY <2>1 DEF Phases
  <2>5. e \in Entry /\ e.fd = fd[c] /\ e.ssl = o
    BY <2>4, <2>2 DEF Entry
  <2>6. /\ sessions \in Seq(Entry) /\ sessions' \in Seq(Entry)
        /\ Len(sessions') = Len(sessions) + 1 /\ Len(sessions) \in Nat
        /\ \A i \in 1..Len(sessions) : sessions'[i] = sessions[i]
        /\ sessions'[Len(sessions) + 1] = e
    <3>1. sessions \in Seq(Entry)
      BY DEF TypeOK, Entry
    <3> QED
      BY <2>3, <2>5, <3>1, AppendProperties, LenProperties
  <2>7. TypeOK'
    <3>1. heap' \in [Addresses -> Clients \union {NoClient}]
      BY <2>2 DEF TypeOK
    <3> QED
      BY <2>3, <2>6, <3>1 DEF TypeOK, Entry
  <2>8. Phases' /\ Stopping'
    BY <2>3 DEF Phases, Stopping
  <2>9. FdOwned' /\ Counted'
    BY <2>3 DEF FdOwned, UsesFd, Counted, Broken
  <2>30. Entries'
    <3> SUFFICES ASSUME useSsl, NEW i \in 1..Len(sessions')
                 PROVE  sessions'[i].ssl # Null
      BY <2>3 DEF Entries
    <3>1. CASE i \in 1..Len(sessions)
      BY <2>6, <3>1 DEF Entries
    <3>2. CASE i = Len(sessions) + 1
      BY <2>2, <2>5, <2>6, <3>2
    <3> QED
      BY <2>6, <3>1, <3>2
  <2>31. Objects'
    <3>1. ASSUME ~misled, useSsl, NEW d \in Clients,
                 pc[d] \in Using \ {"lookup", "close"}
          PROVE  mySsl[d] # Null /\ heap'[mySsl[d]] = d
      <4>1. mySsl[d] # Null /\ heap[mySsl[d]] = d
        BY <3>1 DEF Objects, OwnSsl
      <4>2. mySsl[d] \in Addresses /\ mySsl[d] # o
        BY <2>2, <3>1, <4>1, ServerAssumption DEF TypeOK
      <4> QED
        BY <2>2, <4>1, <4>2
    <3>2. (~misled => OwnSsl)'
      BY <2>3, <3>1 DEF OwnSsl
    <3> QED
      BY <2>3, <3>2 DEF Objects
  <2>32. Matched'
    <3>1. ~Tracked(c) /\ Tracked(c)'
      BY <2>1, <2>3, <2>4 DEF Tracked, Using
    <3>2. \A d \in Clients \ {c} : Tracked(d)' <=> Tracked(d)
      BY <2>1, <2>3 DEF Tracked
    <3> QED
      BY <2>3, <2>4, <2>5, <3>1, <3>2, PushMatched
  <2>33. OwnEntries'
    <3> SUFFICES ASSUME ~misled, useSsl, NEW d \in Clients, LooksUp(d)'
                 PROVE  OwnEntryIsLast(d)'
      BY <2>3 DEF OwnEntries
    <3>1. DOMAIN sessions' = 1..(Len(sessions) + 1) /\ DOMAIN sessions = 1..Len(sessions)
      BY <2>6, LenProperties
    <3>2. CASE d = c
      <4>1. heap'[o] = c
        BY <2>2, ServerAssumption
      <4>2. \A j \in 1..(Len(sessions) + 1) : j <= Len(sessions) + 1
        BY <2>6
      <4>3. Len(sessions) + 1 \in 1..(Len(sessions) + 1)
        BY <2>6
      <4> QED
        BY <2>3, <2>5, <2>6, <3>1, <3>2, <4>1, <4>2, <4>3 DEF OwnEntryIsLast
    <3>3. CASE d # c
      <4>1. pc[d] = "lookup"
        BY <2>1, <2>3, <3>3 DEF LooksUp
      <4>2. fd[d] # fd[c]
        BY <2>1, <3>3, <4>1 DEF FdOwned, UsesFd, Using
      <4>3. PICK i \in 1..Len(sessions) :
               /\ sessions[i].fd = fd[d] /\ heap[sessions[i].ssl] = d
               /\ \A j \in 1..Len(sessions) : sessions[j].fd = fd[d] => j <= i
        BY <3>1, <4>1 DEF OwnEntries, LooksUp, OwnEntryIsLast
      <4>4. sessions[i].ssl \in Addresses
        <5>1. sessions[i] \in Entry
          BY <2>6, <4>3, ElementOfSeq
        <5>2. sessions[i].ssl # Null
          BY <4>3 DEF Entries
        <5> QED
          BY <5>1, <5>2 DEF Entry
      <4>5. heap'[sessions[i].ssl] = d
        BY <2>2, <4>3, <4>4, ServerAssumption
      <4>6. i \in 1..(Len(sessions) + 1) /\ sessions'[i] = sessions[i]
        BY <2>6, <4>3
      <4>7. ASSUME NEW j \in 1..(Len(sessions) + 1), sessions'[j].fd = fd[d]
            PROVE  j <= i
        <5>1. j # Len(sessions) + 1
          BY <2>5, <2>6, <4>2, <4>7
        <5>2. j \in 1..Len(sessions) /\ sessions'[j] = sessions[j]
          BY <2>6, <4>7, <5>1
        <5> QED
          BY <4>3, <4>7, <5>2
      <4> QED
        BY <2>3, <3>1, <4>3, <4>5, <4>6, <4>7 DEF OwnEntryIsLast
    <3> QED
      BY <3>2, <3>3
  <2> QED
    BY <2>7, <2>8, <2>9, <2>30, <2>31, <2>32, <2>33
<1>4. CASE SpawnHandler
  <2>1. PICK c \in Clients : c = accepted /\ c # NoClient
    BY <1>4 DEF SpawnHandler, Phases, TypeOK
  <2>2. /\ UNCHANGED <<useSsl, misled, crashed, running, listening, stopPc, sessions>>
        /\ UNCHANGED <<heap, owner, shut, fd, mySsl, buffered, peer, unread, sent>>
        /\ UNCHANGED replies
        /\ listenPc = "spawn" /\ listenPc' = "loop" /\ accepted' = NoClient
        /\ pc' = [pc EXCEPT ![c] = IF useSsl THEN "lookup" ELSE "loop"]
    BY <1>4, <2>1 DEF ListenNext, SpawnHandler, peers
  <2>3. pc[c] = "none" /\ fd[c] \in Fds
    BY <2>1 DEF Phases
  <2>4. /\ pc'[c] \in Using /\ pc'[c] \in {"lookup", "loop"}
        /\ pc'[c] = "lookup" => useSsl
        /\ \A d \in Clients : d # c => pc'[d] = pc[d]
        /\ pc' \in [Clients -> Using \union {"none", "erase", "leave", "ended"}]
    BY <2>2 DEF TypeOK, Using
  <2>5. TypeOK'
    BY <2>2, <2>4 DEF TypeOK
  <2>6. Phases' /\ Stopping'
    BY <2>1, <2>2, <2>3, <2>4, ServerAssumption DEF Phases, Stopping
  <2>7. FdOwned'
    <3>1. \A d \in Clients : UsesFd(d)' => UsesFd(d)
      BY <2>1, <2>2, <2>4, ServerAssumption DEF UsesFd
    <3> QED
      BY <2>2, <3>1 DEF FdOwned
  <2>8. Counted'
    BY <2>2, <2>3, <2>4 DEF Counted, Broken
  <2>9. Entries'
    BY <2>2 DEF Entries
  <2>20. Objects'
    <3>1. ASSUME NEW d \in Clients, useSsl,
                 pc'[d] \in Using \ {"lookup", "close"}
          PROVE  pc[d] = pc'[d]
      BY <2>2, <2>4, <3>1 DEF TypeOK
    <3>2. (~misled => OwnSsl)'
      BY <2>2, <3>1 DEF Objects, OwnSsl
    <3>3. ~useSsl => pc'[c] # "lookup"
      BY <2>4
    <3> QED
      BY <2>2, <2>4, <3>2, <3>3 DEF Objects
  <2>21. Matched'
    <3>1. \A d \in Clients : Tracked(d)' <=> Tracked(d)
      BY <2>1, <2>2, <2>3, <2>4, ServerAssumption DEF Tracked, Using
    <3> QED
      BY <2>2, <3>1, MatchedUnchanged
  <2>22. OwnEntries'
    <3> SUFFICES ASSUME ~misled, useSsl, NEW d \in Clients, LooksUp(d)'
                 PROVE  OwnEntryIsLast(d)'
      BY <2>2 DEF OwnEntries
    <3>1. LooksUp(d)
      BY <2>1, <2>2, <2>4 DEF LooksUp
    <3> QED
      BY <2>2, <3>1 DEF OwnEntries, OwnEntryIsLast
  <2> QED
    BY <2>5, <2>6, <2>7, <2>8, <2>9, <2>20, <2>21, <2>22
<1> QED
  BY <1>1, <1>2, <1>3, <1>4 DEF ListenNext

-----------------------------------------------------------------------------
(* stop() and the peers.                                                   *)

LEMMA StopKeeps ==
    ASSUME IInv, StopNext \/ (StopBegin /\ UNCHANGED <<useSsl, misled, crashed>>)
    PROVE  IInv'
<1> USE DEF IInv
<1>1. /\ UNCHANGED <<useSsl, misled, crashed, sessions, heap, owner, listenPc, accepted>>
      /\ UNCHANGED <<pc, fd, mySsl, buffered, peer, unread, sent, replies>>
  BY DEF StopNext, StopSteps, StopBegin, StopShutdownListener, StopCloseListener,
     StopJoinListener, StopShutdownClients, StopDrained, listener, threads, peers
<1>2. /\ running' = FALSE \/ UNCHANGED running
      /\ stopPc' \in {"shutdown", "close", "join", "clients", "drain", "done"}
  BY DEF StopNext, StopSteps, StopBegin, StopShutdownListener,
     StopCloseListener, StopJoinListener, StopShutdownClients, StopDrained
<1>3. listening' \in {"open", "shut", "closed"}
  <2>1. listening \in {"open", "shut", "closed"}
    BY DEF TypeOK
  <2> QED
    BY <2>1 DEF StopNext, StopSteps, StopBegin, StopShutdownListener,
       StopCloseListener, StopJoinListener, StopShutdownClients, StopDrained, listener
<1>4. shut \subseteq shut' /\ shut' \subseteq Clients
  <2>1. CASE StopShutdownClients
    <3>1. \A s \in Range(sessions) : s.fd \in Fds
      <4>1. sessions \in Seq(Entry)
        BY DEF TypeOK, Entry
      <4>2. DOMAIN sessions = 1..Len(sessions)
        BY <4>1, LenProperties
      <4>3. \A s \in Range(sessions) : s \in Entry
        BY <4>1, <4>2, ElementOfSeq DEF Range
      <4> QED
        BY <4>3 DEF Entry
    <3>2. {owner[s.fd] : s \in Range(sessions)} \ {NoClient} \subseteq Clients
      BY <3>1 DEF TypeOK
    <3> QED
      BY <2>1, <3>2 DEF StopShutdownClients, TypeOK
  <2>2. CASE ~StopShutdownClients
    BY <2>2 DEF TypeOK, StopNext, StopSteps, StopBegin, StopShutdownListener,
       StopCloseListener, StopJoinListener, StopDrained
  <2> QED
    BY <2>1, <2>2
<1>5. TypeOK'
  BY <1>1, <1>2, <1>3, <1>4 DEF TypeOK
<1>6. Phases' /\ FdOwned' /\ Entries' /\ Objects'
  BY <1>1 DEF Phases, FdOwned, UsesFd, Entries, Objects, OwnSsl
<1>7. Stopping'
  BY <1>1 DEF Stopping, StopNext, StopSteps, StopBegin, StopShutdownListener,
     StopCloseListener, StopJoinListener, StopShutdownClients, StopDrained
<1>8. Counted'
  BY <1>1, <1>2, <1>4 DEF Counted, Broken
<1>9. Matched'
  BY <1>1, MatchedUnchanged DEF Tracked
<1>10. OwnEntries'
  BY <1>1 DEF OwnEntries, LooksUp, OwnEntryIsLast
<1> QED
  BY <1>5, <1>6, <1>7, <1>8, <1>9, <1>10

LEMMA PeerKeeps ==
    ASSUME IInv, NEW c \in Clients, PeerSteps(c), UNCHANGED <<useSsl, misled, crashed>>
    PROVE  IInv'
<1> USE DEF IInv
<1>1. /\ UNCHANGED <<running, listening, listenPc, accepted, stopPc, sessions>>
      /\ UNCHANGED <<heap, owner, shut, pc, fd, mySsl, buffered, replies>>
  BY DEF PeerSteps, Connect, Send, Disconnect, listener, threads
<1>2. /\ MaxRequests \in Nat
      /\ \A d \in Clients : /\ unread[d] \in Nat /\ buffered[d] \in Nat
                            /\ replies[d] \in Nat /\ sent[d] \in Nat
                            /\ unread[d] <= sent[d]
  BY ServerAssumption DEF TypeOK, Counted
<1>3. CASE Connect(c) \/ Disconnect(c)
  <2>1. /\ UNCHANGED <<unread, sent>>
        /\ peer' \in [Clients -> {"idle", "pending", "open", "gone"}]
        /\ \A d \in Clients : peer'[d] = "idle" \/ peer'[d] = "pending" =>
              peer[d] = "idle" \/ peer[d] = "pending"
        /\ \A d \in Clients : peer[d] = "gone" => peer'[d] = "gone"
    BY <1>3 DEF Connect, Disconnect, TypeOK
  <2>2. TypeOK' /\ Counted'
    BY <1>1, <2>1 DEF TypeOK, Counted, Broken
  <2>3. Phases'
    BY <1>1, <2>1 DEF Phases
  <2> QED
    BY <1>1, <2>2, <2>3, MatchedUnchanged
    DEF Stopping, FdOwned, UsesFd, Entries, Objects, OwnSsl, OwnEntries, LooksUp,
        OwnEntryIsLast, Tracked
<1>4. CASE Send(c)
  <2>1. /\ UNCHANGED peer /\ sent[c] < MaxRequests
        /\ sent' = [sent EXCEPT ![c] = @ + 1]
        /\ unread' = [unread EXCEPT ![c] = @ + 1]
    BY <1>4 DEF Send
  <2>2. TypeOK'
    <3>1. sent[c] + 1 \in 0..MaxRequests /\ unread[c] + 1 \in 0..MaxRequests
      BY <1>2, <2>1
    <3> QED
      BY <1>1, <2>1, <3>1 DEF TypeOK
  <2>3. Counted'
    <3>1. /\ sent'[c] = sent[c] + 1 /\ unread'[c] = unread[c] + 1
          /\ \A d \in Clients : d # c => sent'[d] = sent[d] /\ unread'[d] = unread[d]
      BY <2>1 DEF TypeOK
    <3> SUFFICES ASSUME NEW d \in Clients
                 PROVE  /\ buffered[d] > 0 <=> pc[d] = "process"
                        /\ unread'[d] <= sent'[d]
                        /\ running /\ ~misled /\ ~Broken(d) =>
                              sent'[d] = unread'[d] + buffered[d] + replies[d]
      BY <1>1, <2>1 DEF Counted, Broken
    <3>2. /\ buffered[d] > 0 <=> pc[d] = "process"
          /\ running /\ ~misled /\ ~Broken(d) =>
                sent[d] = unread[d] + buffered[d] + replies[d]
      BY DEF Counted
    <3>3. CASE d = c
      BY <1>2, <3>1, <3>2, <3>3
    <3>4. CASE d # c
      BY <1>2, <3>1, <3>2, <3>4
    <3> QED
      BY <3>3, <3>4
  <2>4. Phases'
    BY <1>1, <2>1 DEF Phases
  <2> QED
    BY <1>1, <2>2, <2>3, <2>4, MatchedUnchanged
    DEF Stopping, FdOwned, UsesFd, Entries, Objects, OwnSsl, OwnEntries, LooksUp,
        OwnEntryIsLast, Tracked
<1> QED
  BY <1>3, <1>4 DEF PeerSteps

-----------------------------------------------------------------------------
LEMMA StutterKeeps ==
    ASSUME IInv, UNCHANGED vars
    PROVE  IInv'
<1>1. /\ UNCHANGED <<useSsl, misled, crashed, running, listening, listenPc, accepted>>
      /\ UNCHANGED <<stopPc, sessions, heap, owner, shut, pc, fd, mySsl, buffered>>
      /\ UNCHANGED <<peer, unread, sent, replies>>
  BY DEF vars, listener, threads, peers
<1>2. TypeOK' /\ Phases' /\ Stopping'
  BY <1>1 DEF IInv, TypeOK, Phases, Stopping
<1>5. OwnEntries'
  BY <1>1 DEF IInv, OwnEntries, LooksUp, OwnEntryIsLast
<1>3. FdOwned' /\ Entries' /\ Objects' /\ Counted'
  BY <1>1 DEF IInv, FdOwned, UsesFd, Entries, Objects, OwnSsl, Counted, Broken
<1>4. Matched'
  BY <1>1, MatchedUnchanged DEF IInv, Tracked
<1> QED
  BY <1>2, <1>3, <1>4, <1>5 DEF IInv

(* IInv is inductive. *)
THEOREM Inductive == Spec => []IInv
<1>1. Init => IInv
  BY Initially
<1>2. IInv /\ [Next]_vars => IInv'
  <2> SUFFICES ASSUME IInv, [Next]_vars
               PROVE  IInv'
    OBVIOUS
  <2>1. CASE ListenNext
    BY <2>1, ListenKeeps
  <2>2. CASE \E c \in Clients : HandlerNext(c)
    BY <2>2, HandlerKeeps
  <2>3. CASE /\ UNCHANGED <<useSsl, misled, crashed>>
             /\ StopBegin \/ \E c \in Clients : PeerSteps(c)
    BY <2>3, StopKeeps, PeerKeeps
  <2>4. CASE StopNext
    BY <2>4, StopKeeps
  <2>5. CASE UNCHANGED vars
    BY <2>5, StutterKeeps
  <2> QED
    BY <2>1, <2>2, <2>3, <2>4, <2>5 DEF Next
<1> QED
  BY <1>1, <1>2, PTL DEF Spec

(* The server's state keeps its types. *)
THEOREM TypeCorrect == Spec => []TypeOK
<1>1. IInv => TypeOK
  BY DEF IInv
<1> QED
  BY <1>1, Inductive, PTL

(* handleClient's descriptor is its own until it closes it.                *)
THEOREM DescriptorsOwned == Spec => []FdOwned
<1>1. IInv => FdOwned
  BY DEF IInv
<1> QED
  BY <1>1, Inductive, PTL

(* m_clientSessions has an entry for every thread that has not erased one. *)
THEOREM ListMatches == Spec => []SessionsTrack
<1>1. IInv => SessionsTrack
  BY DEF IInv, Matched, SessionsTrack, EntriesOf, ThreadsOf
<1> QED
  BY <1>1, Inductive, PTL

(* stop() leaves no thread of the server at work. *)
THEOREM Quiet == Spec => []StoppedIsQuiet
<1>1. IInv => StoppedIsQuiet
  <2> SUFFICES ASSUME IInv, stopPc = "done"
               PROVE  /\ listenPc = "ended"
                      /\ \A c \in Clients : ~Tracked(c) /\ ~UsesFd(c)
    BY DEF StoppedIsQuiet
  <2>1. listenPc = "ended" /\ sessions = <<>>
    BY DEF IInv, Stopping
  <2>2. accepted = NoClient
    BY <2>1 DEF IInv, Phases
  <2>3. \A f \in Fds : ThreadsOf(f) = {}
    <3> SUFFICES ASSUME NEW f \in Fds
                 PROVE  ThreadsOf(f) = {}
      OBVIOUS
    <3>1. EntriesOf(f) = {}
      BY <2>1, EmptySeq DEF EntriesOf
    <3>2. Cardinality(ThreadsOf(f)) = 0 /\ IsFiniteSet(ThreadsOf(f))
      BY <3>1, FS_EmptySet DEF IInv, Matched
    <3> QED
      BY <3>2, FS_EmptySet
  <2>4. ASSUME NEW c \in Clients
        PROVE  ~Tracked(c) /\ ~UsesFd(c)
    <3>1. accepted # c
      BY <2>2, ServerAssumption
    <3>2. Tracked(c) => fd[c] \in Fds
      BY <3>1 DEF Tracked, Using, IInv, Phases
    <3>3. ~Tracked(c)
      BY <2>3, <3>2 DEF ThreadsOf
    <3> QED
      BY <3>1, <3>3 DEF Tracked, UsesFd
  <2> QED
    BY <2>1, <2>4
<1> QED
  BY <1>1, Inductive, PTL

(* No request of a connected peer is lost or answered twice, until a       *)
(* thread is led to another connection's SSL object.                       *)
THEOREM RequestsCounted == Spec => []RequestsAccountedFor
<1>1. IInv => RequestsAccountedFor
  BY DEF IInv, Counted, RequestsAccountedFor
<1> QED
  BY <1>1, Inductive, PTL

(* Until the lookup hands a thread an object that is not its own, every    *)
(* thread finds its object and has it alive and to itself.                 *)
THEOREM OwnSslAlive == Spec => []SslAlive
<1>1. IInv => SslAlive
  BY DEF IInv, Objects, OwnEntries, LooksUp, SslAlive
<1> QED
  BY <1>1, Inductive, PTL
=============================================================================
