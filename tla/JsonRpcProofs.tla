--------------------------- MODULE JsonRpcProofs ---------------------------
(***************************************************************************)
(* What JsonRpc keeps for any connections, any well-formed lines and any   *)
(* numbers in them: the types of the relay table, the pairing of requests  *)
(* and responses, and the truth of what a response reports.                *)
(***************************************************************************)
EXTENDS JsonRpc, RelayControllerProofs, SequenceTheorems

Codes ==
    {Success, ParseError, InvalidRequest, MethodNotFound, InvalidParams,
     InternalError}

Reply == [id : {"null"} \union {JsonId(i) : i \in STRING}, code : Codes]

WellFormed(q) ==
    q.params = "good" /\ q.method \in Commands =>
       Len(q.args) = IF q.method = "start_blink" THEN 3 ELSE 1

-----------------------------------------------------------------------------
(* Requests.                                                               *)

LEMMA LineFacts ==
    ASSUME NEW l \in Lines
    PROVE  /\ l # NoLine
           /\ l.calls \in Seq(Request)
           /\ \A i \in DOMAIN l.calls : WellFormed(l.calls[i])
           /\ l.form \in {"garbled", "not utf8"} => l.calls = <<>>
<1>1. /\ l.form \in {"garbled", "not utf8", "single", "batch"}
      /\ l.form \in {"garbled", "not utf8"} => l.calls = <<>>
      /\ l.calls \in Seq(Request)
  BY LinesAssumption
<1>2. \A i \in DOMAIN l.calls : WellFormed(l.calls[i])
  BY LinesAssumption DEF WellFormed
<1>3. l # NoLine
  <2>1. NoLine.form = "none"
    BY DEF NoLine
  <2> QED
    BY <1>1, <2>1
<1> QED
  BY <1>1, <1>2, <1>3

LEMMA CodesKnown ==
    ASSUME NEW q \in Request
    PROVE  Code(q) \in Codes
  BY DEF Code, Codes

LEMMA ResponseType ==
    ASSUME NEW q \in Request, NEW code \in Codes
    PROVE  /\ Response(q.id, code) \in Reply
           /\ Response(q.id, code).id = JsonId(q.id)
           /\ Response(q.id, code).code = code
<1>1. q.id \in STRING
  BY DEF Request
<1> QED
  BY <1>1 DEF Response, Reply

(* A command that is reported a success has passed every check: its        *)
(* channel exists and its arguments are there.                             *)
LEMMA SuccessChecks ==
    ASSUME NEW q \in Request, WellFormed(q), q.shape # "method",
           Code(q) = Success, q.method \in Commands
    PROVE  /\ AsInt(q.relay) \in Relays
           /\ q.args[1] \in Int
           /\ q.method = "start_blink" => q.args[2] \in Int /\ q.args[3] \in Int
<1>1. q.shape = "good" /\ q.params = "good" /\ q.args \in Seq(Int)
  BY DEF Request, Code, Success, InvalidRequest, InvalidParams, InternalError,
     MethodNotFound, Methods, Commands
<1>2. AsInt(q.relay) \in Relays
  BY <1>1 DEF Code, Success, InvalidParams, MethodNotFound, Methods, Commands
<1>3. Len(q.args) = IF q.method = "start_blink" THEN 3 ELSE 1
  BY <1>1 DEF WellFormed
<1>4. \A i \in 1..Len(q.args) : q.args[i] \in Int
  BY <1>1, ElementOfSeq
<1> QED
  BY <1>2, <1>3, <1>4

LEMMA AsUintType ==
    ASSUME NEW x \in Int
    PROVE  AsUint(x) \in Nat /\ AsUint(x) < Word32
<1>1. Word32 \in Nat \ {0}
  BY ArgsAssumption
<1> QED
  BY <1>1 DEF AsUint

(* The product of a timer is cut to 64 bits, a pulse fits in fewer. *)
LEMMA LengthsFit ==
    ASSUME NEW x \in Nat
    PROVE  /\ TimerMs(x) < Word64
           /\ x < Word32 => x < Word64
<1>1. /\ MsPerSecond \in Nat /\ Word64 \in Nat \ {0}
      /\ Word32 \in Nat /\ Word32 <= Word64
  BY ArgsAssumption, ClockAssumption
<1>2. x * MsPerSecond \in Nat
  BY <1>1
<1> QED
  BY <1>1, <1>2 DEF TimerMs

-----------------------------------------------------------------------------
(* The relay table under requests.                                         *)

(* Counts and phases stay in their 32 bits, durations in their 64. *)
Fits(c) ==
    /\ c.blinkCount < Word32 /\ c.durationMs < Word64
    /\ c.blinkOnMs < Word32 /\ c.blinkOffMs < Word32

Words == \A r \in Relays : Fits(rs[r])

Table == TypeOK /\ Words /\ PinFollowsState

LEMMA CommandWords ==
    ASSUME TypeOK, Words, NEW r \in Relays, NEW c \in RelayState, Command(r, c),
           Fits(c)
    PROVE  Words'
<1>1. rs' = [rs EXCEPT ![r] = c] /\ rs \in [Relays -> RelayState]
  BY DEF Command, SetRelayInternal, TypeOK
<1>2. \A q \in Relays : rs'[q] = IF q = r THEN c ELSE rs[q]
  BY <1>1
<1> QED
  BY <1>2, Zenon DEF Words, Fits

(* Execute writes one channel, the one that is named, as the method says.  *)
LEMMA Executes ==
    ASSUME TypeOK, Words, NEW q \in Request, WellFormed(q), q.shape # "method",
           Code(q) = Success, q.method \in Commands, Execute(q)
    PROVE  \E c \in RelayState :
              /\ Command(AsInt(q.relay), c) /\ c.startTime <= clock
              /\ Fits(c)
              /\ c.mode = ModeOf(q.method)
              /\ c.state = (q.method # "set_relay" \/ q.args[1] = 1)
<1> DEFINE r == AsInt(q.relay)
<1>1. /\ r \in Relays /\ q.args[1] \in Int
      /\ q.method = "start_blink" => q.args[2] \in Int /\ q.args[3] \in Int
  BY SuccessChecks
<1>2. rs[r] \in RelayState /\ Fits(rs[r])
  BY <1>1 DEF TypeOK, Words
<1> HIDE DEF r
<1>3. CASE q.method = "set_relay"
  <2> DEFINE c == Toggled(rs[r], q.args[1] = 1)
  <2>1. Command(r, c)
    BY <1>3 DEF Execute, SetRelay, r
  <2>2. c \in RelayState /\ c.startTime <= clock
    BY <1>1, ToggledType
  <2>3. Fits(c) /\ c.mode = "TOGGLE" /\ c.state = (q.args[1] = 1)
    BY <1>2 DEF Toggled, RelayState, Fits
  <2>4. ModeOf(q.method) = "TOGGLE"
    BY <1>3 DEF ModeOf
  <2> HIDE DEF c
  <2> QED
    BY <1>2, <1>3, <2>1, <2>2, <2>3, <2>4 DEF r
<1>4. ASSUME NEW mode \in {"TIMER", "PULSE"}, NEW ms \in Nat, ms < Word64,
             Command(r, Held(rs[r], mode, ms)), ModeOf(q.method) = mode,
             q.method # "set_relay"
      PROVE  \E c \in RelayState :
                /\ Command(r, c) /\ c.startTime <= clock
                /\ Fits(c)
                /\ c.mode = ModeOf(q.method)
                /\ c.state = (q.method # "set_relay" \/ q.args[1] = 1)
  <2> DEFINE c == Held(rs[r], mode, ms)
  <2>1. c \in RelayState /\ c.startTime <= clock
    BY <1>1, <1>4, HeldType
  <2>2. Fits(c) /\ c.mode = mode /\ c.state = TRUE
    BY <1>2, <1>4 DEF Held, RelayState, Fits
  <2>3. Command(r, c)
    BY <1>4
  <2> HIDE DEF c
  <2> QED
    BY <1>2, <1>4, <2>1, <2>2, <2>3
<1>5. CASE q.method = "start_timer"
  <2>1. StartTimer(r, AsUint(q.args[1])) /\ ModeOf(q.method) = "TIMER"
    BY <1>5 DEF Execute, ModeOf, r
  <2>2. TimerMs(AsUint(q.args[1])) \in Nat /\ TimerMs(AsUint(q.args[1])) < Word64
    BY <1>1, AsUintType, TimerMsType, LengthsFit
  <2> QED
    BY <1>4, <1>5, <2>1, <2>2 DEF StartTimer, r
<1>6. CASE q.method = "start_pulse"
  <2>1. StartPulse(r, AsUint(q.args[1])) /\ ModeOf(q.method) = "PULSE"
    BY <1>6 DEF Execute, ModeOf, r
  <2>2. AsUint(q.args[1]) \in Nat /\ AsUint(q.args[1]) < Word64
    BY <1>1, AsUintType, LengthsFit
  <2> QED
    BY <1>4, <1>6, <2>1, <2>2 DEF StartPulse, r
<1>7. CASE q.method = "start_blink"
  <2>1. PICK on, off, n : /\ on = AsUint(q.args[1]) /\ off = AsUint(q.args[2])
                          /\ n = AsUint(q.args[3])
    OBVIOUS
  <2> DEFINE c == Blinked(rs[r], on, off, n)
  <2>2. /\ on \in Nat /\ off \in Nat /\ n \in Nat
        /\ on < Word32 /\ off < Word32 /\ n < Word32
    BY <1>1, <1>7, <2>1, AsUintType
  <2>3. Command(r, c)
    BY <1>7, <2>1 DEF Execute, StartBlink, r
  <2>4. c \in RelayState /\ c.startTime <= clock
    BY <1>1, <2>2, BlinkedType
  <2>5. Fits(c) /\ c.mode = "BLINK" /\ c.state = TRUE
    BY <1>2, <2>2 DEF Blinked, RelayState, Fits
  <2>6. ModeOf(q.method) = "BLINK"
    BY <1>7 DEF ModeOf
  <2> HIDE DEF c
  <2> QED
    BY <1>7, <2>2, <2>3, <2>4, <2>5, <2>6 DEF r
<1> QED
  BY <1>3, <1>5, <1>6, <1>7 DEF Commands, r

LEMMA SameTable ==
    ASSUME Table, UNCHANGED vars
    PROVE  Table'
  BY DEF vars, Table, TypeOK, Words, Fits, PinFollowsState

LEMMA ExecuteKeepsTable ==
    ASSUME Table, NEW q \in Request, WellFormed(q), q.shape # "method",
           IF Code(q) = Success THEN Execute(q) ELSE UNCHANGED vars
    PROVE  Table'
<1>0. TypeOK /\ Words /\ PinFollowsState
  BY DEF Table
<1>1. CASE UNCHANGED vars
  BY <1>1, SameTable
<1>2. CASE Code(q) = Success /\ q.method \in Commands
  <2>1. PICK c \in RelayState :
           Command(AsInt(q.relay), c) /\ c.startTime <= clock /\ Fits(c)
    BY <1>0, <1>2, Executes
  <2>2. AsInt(q.relay) \in Relays
    BY <1>2, SuccessChecks
  <2>3. PinFollowsState'
    BY <1>0, <2>1, SetRelayInternalFollows DEF Command
  <2> QED
    BY <1>0, <2>1, <2>2, <2>3, CommandType, CommandWords DEF Table
<1>3. CASE Code(q) = Success /\ q.method \notin Commands
  <2>1. UNCHANGED vars
    BY <1>3 DEF Execute, Commands
  <2> QED
    BY <1>1, <2>1
<1> QED
  BY <1>1, <1>2, <1>3

LEMMA TickKeepsTable ==
    ASSUME Table, Tick \/ Elapse
    PROVE  Table'
<1>0. TypeOK /\ Words /\ PinFollowsState
  BY DEF Table
<1>1. TypeOK' /\ PinFollowsState'
  BY <1>0, TypesKept, FollowsKept DEF Next
<1>2. CASE Tick
  <2>1. rs' = [r \in Relays |-> Ticked(rs[r], clock)]
    BY <1>2 DEF Tick, SetRelayInternal
  <2>2. ASSUME NEW r \in Relays
        PROVE  Fits(Ticked(rs[r], clock))
    <3>1. rs[r] \in RelayState /\ Word32 \in Nat \ {0} /\ Fits(rs[r])
      BY <1>0, ArgsAssumption DEF TypeOK, Words
    <3>2. Fits(HoldEnded(rs[r])) /\ Fits(Dark(rs[r], clock))
      BY <3>1 DEF Fits, HoldEnded, Dark, RelayState
    <3>3. Fits(DarkEnded(rs[r], clock))
      BY <3>1 DEF Fits, DarkEnded, RelayState
    <3> QED
      BY <3>1, <3>2, <3>3 DEF Ticked
  <2>3. \A r \in Relays : rs'[r] = Ticked(rs[r], clock)
    BY <2>1
  <2> QED
    BY <1>1, <2>2, <2>3 DEF Words, Table, Fits
<1>3. CASE Elapse
  <2>1. rs' = rs
    BY <1>3 DEF Elapse
  <2> QED
    BY <1>0, <1>1, <2>1 DEF Words, Table, Fits
<1> QED
  BY <1>2, <1>3

-----------------------------------------------------------------------------
(* One line on its way: l is the line, t what is left of it, d the         *)
(* responses so far.                                                       *)

Refused(d) == Len(d) = 1 /\ d[1].id = "null" /\ d[1].code # Success

Progress(l, t, d) ==
    IF l = NoLine THEN t = <<>> /\ d = <<>>
    ELSE IF l.calls = <<>> THEN t = <<>> /\ Refused(d)
    ELSE /\ Len(t) + Len(d) = Len(l.calls)
         /\ \A k \in 1..Len(t) : t[k] = l.calls[Len(d) + k]
         /\ \A k \in 1..Len(d) : d[k].id = JsonId(l.calls[k].id)

Written == [line : Lines, responses : Seq(Reply)]

Matches(a) ==
    IF a.line.calls = <<>> THEN Refused(a.responses)
    ELSE /\ Len(a.responses) = Len(a.line.calls)
         /\ \A k \in DOMAIN a.line.calls :
               a.responses[k].id = JsonId(a.line.calls[k].id)

LEMMA NoLineFacts == NoLine.calls = <<>> /\ <<>> \in Seq(Request) /\ Len(<<>>) = 0
  BY EmptySeq DEF NoLine

(* What TakeLine puts down for a line that can be answered. *)
LEMMA RefusalType ==
    ASSUME NEW code \in Codes, code # Success
    PROVE  <<Response("", code)>> \in Seq(Reply) /\ Refused(<<Response("", code)>>)
<1> DEFINE a == Response("", code)
<1>1. a.id = "null" /\ a.code = code /\ a \in Reply
  <2>1. JsonId("") = "null"
    BY DEF JsonId
  <2> QED
    BY <2>1 DEF Response, Reply
<1> HIDE DEF a
<1>2. <<a>> \in Seq(Reply) /\ Len(<<a>>) = 1 /\ <<a>>[1] = a
  BY <1>1
<1> QED
  BY <1>1, <1>2 DEF Refused, a

Opening(l) ==
    IF l.form = "garbled" THEN <<Response("", ParseError)>>
    ELSE IF l.calls = <<>> THEN <<Response("", InvalidRequest)>>
    ELSE <<>>

LEMMA TakenProgress ==
    ASSUME NEW l \in Lines
    PROVE  Opening(l) \in Seq(Reply) /\ Progress(l, l.calls, Opening(l))
<1> DEFINE d == Opening(l)
<1> HIDE DEF d
<1>1. /\ ParseError \in Codes /\ ParseError # Success
      /\ InvalidRequest \in Codes /\ InvalidRequest # Success
  <2>1. ParseError # Success /\ InvalidRequest # Success
    BY DEF ParseError, InvalidRequest, Success
  <2> QED
    BY <2>1 DEF Codes
<1>2. CASE l.calls = <<>>
  <2>1. d \in Seq(Reply) /\ Refused(d)
    BY <1>1, <1>2, RefusalType DEF d, Opening
  <2>2. l # NoLine
    BY LineFacts
  <2> QED
    BY <1>2, <2>1, <2>2, Zenon DEF Progress, d
<1>3. CASE l.calls # <<>>
  <2>1. d = <<>> /\ l # NoLine /\ l.calls \in Seq(Request)
    BY <1>3, LineFacts DEF d, Opening
  <2>2. d \in Seq(Reply) /\ Len(d) = 0 /\ Len(l.calls) \in Nat
    BY <2>1, EmptySeq, LenProperties
  <2>3. /\ Len(l.calls) + Len(d) = Len(l.calls)
        /\ \A k \in 1..Len(l.calls) : Len(d) + k = k
        /\ 1..Len(d) = {}
    BY <2>2
  <2>4. /\ \A k \in 1..Len(l.calls) : l.calls[k] = l.calls[Len(d) + k]
        /\ \A k \in 1..Len(d) : d[k].id = JsonId(l.calls[k].id)
    BY <2>3, Zenon
  <2> QED
    BY <1>3, <2>1, <2>2, <2>3, <2>4, Zenon DEF Progress, d
<1> QED
  BY <1>2, <1>3 DEF d

(* A request that is next is a request of the line. *)
LEMMA NextRequest ==
    ASSUME NEW l \in Lines \union {NoLine}, NEW t \in Seq(Request), t # <<>>,
           NEW d \in Seq(Reply), Progress(l, t, d)
    PROVE  /\ l \in Lines /\ l.calls # <<>> /\ l.calls \in Seq(Request)
           /\ Head(t) \in Request /\ Head(t) = t[1] /\ WellFormed(Head(t))
<1>1. l # NoLine /\ l.calls # <<>>
  BY DEF Progress
<1>2. l \in Lines /\ l.calls \in Seq(Request)
  BY <1>1, LineFacts
<1>3. /\ Len(t) \in Nat /\ Len(t) >= 1 /\ Len(d) \in Nat
      /\ Head(t) = t[1] /\ Head(t) \in Request
  BY EmptySeq, LenProperties, HeadTailProperties
<1>4. t[1] = l.calls[Len(d) + 1] /\ Len(d) + 1 \in 1..Len(l.calls)
  BY <1>1, <1>3 DEF Progress
<1>5. WellFormed(l.calls[Len(d) + 1])
  BY <1>2, <1>4, LineFacts, LenProperties
<1> QED
  BY <1>1, <1>2, <1>3, <1>4, <1>5

LEMMA DispatchedProgress ==
    ASSUME NEW l \in Lines \union {NoLine}, NEW t \in Seq(Request), t # <<>>,
           NEW d \in Seq(Reply), Progress(l, t, d),
           NEW a \in Reply, a.id = JsonId(Head(t).id)
    PROVE  /\ Tail(t) \in Seq(Request) /\ Append(d, a) \in Seq(Reply)
           /\ Append(d, a)[Len(Append(d, a))] = a
           /\ Tail(t) # t
           /\ Progress(l, Tail(t), Append(d, a))
<1> DEFINE u == Tail(t)
           e == Append(d, a)
<1>1. l # NoLine /\ l.calls # <<>> /\ l.calls \in Seq(Request) /\ Head(t) = t[1]
  BY NextRequest, LineFacts
<1>2. /\ Len(t) \in Nat /\ Len(t) >= 1 /\ Len(d) \in Nat
      /\ Len(l.calls) \in Nat
  BY <1>1, EmptySeq, LenProperties
<1>3. /\ u \in Seq(Request) /\ Len(u) = Len(t) - 1
      /\ \A k \in 1..(Len(t) - 1) : u[k] = t[k + 1]
  BY HeadTailProperties
<1>4. /\ e \in Seq(Reply) /\ Len(e) = Len(d) + 1 /\ e[Len(d) + 1] = a
      /\ \A k \in 1..Len(d) : e[k] = d[k]
  BY AppendProperties
<1>5. /\ Len(t) + Len(d) = Len(l.calls)
      /\ \A k \in 1..Len(t) : t[k] = l.calls[Len(d) + k]
      /\ \A k \in 1..Len(d) : d[k].id = JsonId(l.calls[k].id)
  BY <1>1 DEF Progress
<1> HIDE DEF u, e
<1>6. Len(u) + Len(e) = Len(l.calls)
  <2>1. Len(u) = Len(t) - 1 /\ Len(e) = Len(d) + 1
    BY <1>3, <1>4
  <2>2. Len(t) + Len(d) = Len(l.calls)
    BY <1>5
  <2> QED
    BY <1>2, <2>1, <2>2
<1>7. ASSUME NEW k \in 1..Len(u)
      PROVE  u[k] = l.calls[Len(e) + k]
  <2>1. k \in 1..(Len(t) - 1) /\ k + 1 \in 1..Len(t) /\ Len(e) + k = Len(d) + (k + 1)
    BY <1>2, <1>3, <1>4
  <2> QED
    BY <1>3, <1>5, <2>1
<1>8. ASSUME NEW k \in 1..Len(e)
      PROVE  e[k].id = JsonId(l.calls[k].id)
  <2>1. CASE k = Len(d) + 1
    <3>1. t[1] = l.calls[k]
      BY <1>2, <1>5, <2>1
    <3> QED
      BY <1>1, <1>4, <2>1, <3>1
  <2>2. CASE k # Len(d) + 1
    <3>1. k \in 1..Len(d)
      BY <1>2, <1>4, <2>2
    <3> QED
      BY <1>4, <1>5, <3>1
  <2> QED
    BY <2>1, <2>2
<1>9. Progress(l, u, e)
  BY <1>1, <1>6, <1>7, <1>8 DEF Progress
<1>10. u # t
  BY <1>2, <1>3
<1> QED
  BY <1>3, <1>4, <1>9, <1>10 DEF u, e

LEMMA FinishedMatches ==
    ASSUME NEW l \in Lines, NEW d \in Seq(Reply), Progress(l, <<>>, d)
    PROVE  Matches([line |-> l, responses |-> d])
<1>1. l # NoLine /\ l.calls \in Seq(Request)
  BY LineFacts
<1>2. CASE l.calls = <<>>
  BY <1>1, <1>2 DEF Progress, Matches
<1>3. CASE l.calls # <<>>
  <2>1. Len(d) = Len(l.calls) /\ DOMAIN l.calls = 1..Len(l.calls)
    BY <1>1, <1>3, LenProperties, EmptySeq DEF Progress
  <2> QED
    BY <1>1, <1>3, <2>1 DEF Progress, Matches
<1> QED
  BY <1>2, <1>3

LEMMA ProgressRemains ==
    ASSUME NEW l \in Lines \union {NoLine}, NEW t \in Seq(Request),
           NEW d \in Seq(Reply), Progress(l, t, d)
    PROVE  Remaining(l, t, d)
<1>1. l.calls \in Seq(Request)
  BY LineFacts, NoLineFacts
<1>2. CASE l = NoLine \/ l.calls = <<>>
  <2>1. t = <<>> /\ (d = <<>> \/ Len(d) = 1) /\ l.calls = <<>>
    BY <1>2, NoLineFacts DEF Progress, Refused
  <2>2. Len(d) = 0 \/ Len(d) = 1
    BY <2>1, NoLineFacts
  <2>3. Len(d) <= 1
    <3>1. \A n \in Nat : n = 0 \/ n = 1 => n <= 1
      OBVIOUS
    <3> QED
      BY <2>2, <3>1, LenProperties
  <2> QED
    BY <2>1, <2>3 DEF Remaining
<1>3. CASE l # NoLine /\ l.calls # <<>>
  <2> DEFINE m == Len(d) + 1
             n == Len(l.calls)
             u == SubSeq(l.calls, m, n)
  <2>1. /\ Len(t) \in Nat /\ Len(d) \in Nat /\ n \in Nat
        /\ Len(t) + Len(d) = n
        /\ \A k \in 1..Len(t) : t[k] = l.calls[Len(d) + k]
    BY <1>1, <1>3, LenProperties DEF Progress
  <2>2. /\ m \in Int /\ n \in Int /\ n - m + 1 = Len(t)
        /\ (IF m <= n THEN n - m + 1 ELSE 0) = Len(t)
        /\ \A i \in m..n : i \in 1..n
        /\ \A k \in 1..Len(t) : m + k - 1 = Len(d) + k
    BY <2>1
  <2>3. \A i \in m..n : l.calls[i] \in Request
    BY <1>1, <2>2, ElementOfSeq
  <2> HIDE DEF m
  <2>4. /\ u \in Seq(Request) /\ Len(u) = IF m <= n THEN n - m + 1 ELSE 0
        /\ \A i \in 1..(n - m + 1) : u[i] = l.calls[m + i - 1]
    BY <2>2, <2>3, SubSeqProperties
  <2> HIDE DEF u, n
  <2>5. Len(t) = Len(u) /\ \A k \in 1..Len(t) : t[k] = u[k]
    BY <2>1, <2>2, <2>4
  <2>6. t = u
    BY <2>4, <2>5, SeqEqual
  <2> QED
    BY <1>3, <2>6 DEF Remaining, u, m, n
<1> QED
  BY <1>2, <1>3

-----------------------------------------------------------------------------
(* The inductive invariant: the queues are typed, every line on its way is *)
(* paired with its responses unless the process is gone, and what was      *)
(* written back is paired for good.                                        *)

Queues ==
    /\ line \in [Conns -> Lines \union {NoLine}]
    /\ todo \in [Conns -> Seq(Request)]
    /\ done \in [Conns -> Seq(Reply)]

Suffixes == \A c \in Conns : Remaining(line[c], todo[c], done[c])

InProgress == \A c \in Conns : Progress(line[c], todo[c], done[c])

WrittenBack ==
    /\ answers \in [Conns -> Seq(Written)]
    /\ \A c \in Conns : \A i \in DOMAIN answers[c] : Matches(answers[c][i])

OnTheirWay == Queues /\ Suffixes /\ (down \/ InProgress)

RpcInv == Table /\ OnTheirWay /\ WrittenBack

(* Responses that are as many as the requests pair with them one by one. *)
LEMMA OneByOnePairs ==
    ASSUME NEW calls \in Seq(Request), NEW s \in Seq(Reply), Len(s) = Len(calls),
           \A k \in DOMAIN calls : s[k].id = JsonId(calls[k].id)
    PROVE  Pairs(calls, s)
<1> DEFINE pos == [k \in DOMAIN s |-> k]
<1>1. DOMAIN s = 1..Len(calls) /\ DOMAIN calls = 1..Len(calls) /\ Len(calls) \in Nat
  BY LenProperties
<1>2. /\ pos \in [DOMAIN s -> DOMAIN calls]
      /\ \A k \in DOMAIN s : pos[k] = k
  BY <1>1
<1> HIDE DEF pos
<1>3. \A j, k \in DOMAIN s : j < k => pos[j] < pos[k]
  BY <1>2
<1>4. \A k \in DOMAIN s : s[k].id = JsonId(calls[pos[k]].id)
  BY <1>1, <1>2
<1>5. \A i \in DOMAIN calls : \E k \in DOMAIN s : pos[k] = i
  BY <1>1, <1>2
<1> QED
  BY <1>2, <1>3, <1>4, <1>5, Zenon DEF Pairs

LEMMA MatchesMeaning ==
    WrittenBack => AnswersMatch
<1> SUFFICES ASSUME WrittenBack, NEW c \in Conns, NEW i \in DOMAIN answers[c]
             PROVE  IF answers[c][i].line.calls = <<>>
                    THEN /\ Len(answers[c][i].responses) = 1
                         /\ answers[c][i].responses[1].id = "null"
                         /\ answers[c][i].responses[1].code # Success
                    ELSE Pairs(answers[c][i].line.calls, answers[c][i].responses)
  BY Zenon DEF AnswersMatch
<1>1. PICK a : a = answers[c][i]
  OBVIOUS
<1>2. a \in Written /\ Matches(a)
  <2>1. answers[c] \in Seq(Written) /\ i \in 1..Len(answers[c])
    BY LenProperties DEF WrittenBack
  <2>2. answers[c][i] \in Written
    BY <2>1, ElementOfSeq
  <2> QED
    BY <1>1, <2>2 DEF WrittenBack
<1>3. a.line.calls \in Seq(Request) /\ a.responses \in Seq(Reply)
  BY <1>2, LineFacts DEF Written
<1>4. CASE a.line.calls = <<>>
  BY <1>1, <1>2, <1>4, Zenon DEF Matches, Refused
<1>5. CASE a.line.calls # <<>>
  <2>1. /\ Len(a.responses) = Len(a.line.calls)
        /\ \A k \in DOMAIN a.line.calls :
              a.responses[k].id = JsonId(a.line.calls[k].id)
    BY <1>2, <1>5, Zenon DEF Matches
  <2>2. Pairs(a.line.calls, a.responses)
    BY <1>3, <2>1, OneByOnePairs
  <2> QED
    BY <1>1, <1>5, <2>2
<1> QED
  BY <1>4, <1>5

LEMMA TypesMeaning ==
    TypeOK /\ Words /\ Queues /\ Suffixes => RpcTypeOK
<1> SUFFICES ASSUME TypeOK, Words, Queues, Suffixes
             PROVE  RpcTypeOK
  OBVIOUS
<1>1. ASSUME NEW c \in Conns, NEW i \in DOMAIN done[c]
      PROVE  done[c][i].code \in Codes
  <2>1. done[c] \in Seq(Reply) /\ i \in 1..Len(done[c])
    BY <1>1, LenProperties DEF Queues
  <2>2. done[c][i] \in Reply
    BY <2>1, ElementOfSeq
  <2> QED
    BY <2>2 DEF Reply
<1> QED
  BY <1>1, Zenon DEF RpcTypeOK, Words, Fits, Suffixes, Codes

(* One connection goes on with l, t and d, the others stay as they are.    *)
LEMMA OneGoesOn ==
    ASSUME OnTheirWay, ~down, NEW c \in Conns,
           NEW l \in Lines \union {NoLine},
           NEW t \in Seq(Request), NEW d \in Seq(Reply),
           line' = [line EXCEPT ![c] = l], todo' = [todo EXCEPT ![c] = t],
           done' = [done EXCEPT ![c] = d],
           Remaining(l, t, d), down' \/ Progress(l, t, d)
    PROVE  OnTheirWay'
<1>1. Queues /\ Suffixes /\ InProgress
  BY DEF OnTheirWay
<1>2. /\ line'[c] = l /\ todo'[c] = t /\ done'[c] = d
      /\ \A e \in Conns \ {c} :
            line'[e] = line[e] /\ todo'[e] = todo[e] /\ done'[e] = done[e]
  BY <1>1 DEF Queues
<1>3. Queues'
  BY <1>1 DEF Queues
<1>4. Suffixes'
  BY <1>1, <1>2, Zenon DEF Suffixes
<1>5. down' \/ InProgress'
  BY <1>1, <1>2, Zenon DEF InProgress
<1> QED
  BY <1>3, <1>4, <1>5 DEF OnTheirWay

LEMMA SameWay ==
    ASSUME OnTheirWay, UNCHANGED <<line, todo, done>>, down' \/ UNCHANGED down
    PROVE  OnTheirWay'
<1>1. Queues' /\ Suffixes'
  BY DEF OnTheirWay, Queues, Suffixes
<1>2. down' \/ InProgress'
  <2>1. CASE ~down'
    <3>1. InProgress
      BY <2>1 DEF OnTheirWay
    <3> QED
      BY <3>1, Zenon DEF InProgress
  <2> QED
    BY <2>1
<1> QED
  BY <1>1, <1>2 DEF OnTheirWay

LEMMA SameAnswers ==
    ASSUME WrittenBack, UNCHANGED answers
    PROVE  WrittenBack'
  BY Zenon DEF WrittenBack

LEMMA TakeLineKeeps ==
    ASSUME RpcInv, ~down, NEW c \in Conns, NEW l \in Lines, TakeLine(c, l)
    PROVE  RpcInv'
<1>1. /\ line' = [line EXCEPT ![c] = l] /\ todo' = [todo EXCEPT ![c] = l.calls]
      /\ done' = [done EXCEPT ![c] = Opening(l)]
      /\ UNCHANGED <<vars, answers, down>>
  BY DEF TakeLine, Opening
<1>2. l.calls \in Seq(Request)
  BY LineFacts
<1>3. Opening(l) \in Seq(Reply) /\ Progress(l, l.calls, Opening(l))
  BY TakenProgress
<1>4. Remaining(l, l.calls, Opening(l))
  BY <1>2, <1>3, ProgressRemains
<1>5. OnTheirWay'
  BY <1>1, <1>2, <1>3, <1>4, OneGoesOn DEF RpcInv
<1> QED
  BY <1>1, <1>5, SameAnswers, SameTable DEF RpcInv

LEMMA TakeLineThrowsKeeps ==
    ASSUME RpcInv, ~down, NEW c \in Conns, NEW l \in Lines, TakeLineThrows(c, l)
    PROVE  RpcInv'
<1>1. /\ line[c] = NoLine /\ line' = [line EXCEPT ![c] = l] /\ down'
      /\ UNCHANGED <<vars, todo, done, answers>> /\ l.calls = <<>>
  BY LineFacts DEF TakeLineThrows
<1>2. /\ line \in [Conns -> Lines \union {NoLine}]
      /\ todo \in [Conns -> Seq(Request)] /\ done \in [Conns -> Seq(Reply)]
      /\ todo[c] = <<>> /\ done[c] = <<>>
  BY <1>1, Zenon DEF RpcInv, OnTheirWay, InProgress, Queues, Progress
<1>3. todo' = [todo EXCEPT ![c] = <<>>] /\ done' = [done EXCEPT ![c] = <<>>]
  BY <1>1, <1>2
<1>4. <<>> \in Seq(Request) /\ <<>> \in Seq(Reply) /\ Len(<<>>) = 0
  BY EmptySeq
<1>5. Remaining(l, <<>>, <<>>)
  BY <1>1, <1>4 DEF Remaining
<1>6. OnTheirWay'
  BY <1>1, <1>3, <1>4, <1>5, OneGoesOn DEF RpcInv
<1> QED
  BY <1>1, <1>6, SameAnswers, SameTable DEF RpcInv

(* What Dispatch works on. *)
LEMMA Dispatched ==
    ASSUME RpcInv, ~down, NEW c \in Conns, Dispatch(c)
    PROVE  /\ line[c] \in Lines \union {NoLine}
           /\ todo[c] \in Seq(Request) /\ todo[c] # <<>>
           /\ done[c] \in Seq(Reply) /\ Progress(line[c], todo[c], done[c])
           /\ Head(todo[c]) \in Request /\ WellFormed(Head(todo[c]))
           /\ Head(todo[c]).shape # "method"
<1>1. /\ line[c] \in Lines \union {NoLine}
      /\ todo[c] \in Seq(Request) /\ done[c] \in Seq(Reply)
      /\ Progress(line[c], todo[c], done[c])
  BY DEF RpcInv, OnTheirWay, InProgress, Queues
<1>2. todo[c] # <<>> /\ Head(todo[c]).shape # "method"
  BY DEF Dispatch, Busy
<1> QED
  BY <1>1, <1>2, NextRequest

LEMMA DispatchKeeps ==
    ASSUME RpcInv, ~down, NEW c \in Conns, Dispatch(c)
    PROVE  RpcInv'
<1>1. PICK q : q = Head(todo[c])
  OBVIOUS
<1>2. PICK a : a = Response(q.id, Code(q))
  OBVIOUS
<1>3. /\ IF Code(q) = Success THEN Execute(q) ELSE UNCHANGED vars
      /\ done' = [done EXCEPT ![c] = Append(@, a)]
      /\ todo' = [todo EXCEPT ![c] = Tail(@)]
      /\ UNCHANGED <<line, answers, down>>
  BY <1>1, <1>2 DEF Dispatch
<1>4. a \in Reply /\ a.id = JsonId(q.id) /\ q \in Request
  BY <1>1, <1>2, Dispatched, CodesKnown, ResponseType
<1>5. /\ Tail(todo[c]) \in Seq(Request) /\ Append(done[c], a) \in Seq(Reply)
      /\ Progress(line[c], Tail(todo[c]), Append(done[c], a))
  BY <1>1, <1>4, Dispatched, DispatchedProgress
<1>6. Remaining(line[c], Tail(todo[c]), Append(done[c], a))
  BY <1>5, Dispatched, ProgressRemains
<1>7. /\ line' = [line EXCEPT ![c] = line[c]]
      /\ todo' = [todo EXCEPT ![c] = Tail(todo[c])]
      /\ done' = [done EXCEPT ![c] = Append(done[c], a)]
  BY <1>3 DEF RpcInv, OnTheirWay, Queues
<1>8. OnTheirWay'
  BY <1>5, <1>6, <1>7, Dispatched, OneGoesOn DEF RpcInv
<1>9. Table'
  BY <1>1, <1>3, Dispatched, ExecuteKeepsTable DEF RpcInv
<1> QED
  BY <1>3, <1>8, <1>9, SameAnswers DEF RpcInv

LEMMA AnswerKeeps ==
    ASSUME RpcInv, ~down, NEW c \in Conns, Answer(c)
    PROVE  RpcInv'
<1>1. PICK a : a = [line |-> line[c], responses |-> done[c]]
  OBVIOUS
<1>2. /\ line[c] # NoLine /\ todo[c] = <<>>
      /\ answers' = [answers EXCEPT ![c] = Append(@, a)]
      /\ line' = [line EXCEPT ![c] = NoLine]
      /\ done' = [done EXCEPT ![c] = <<>>]
      /\ UNCHANGED <<vars, todo, down>>
  BY <1>1 DEF Answer
<1>3. /\ line[c] \in Lines /\ done[c] \in Seq(Reply)
      /\ Progress(line[c], <<>>, done[c])
      /\ todo \in [Conns -> Seq(Request)]
  BY <1>2 DEF RpcInv, OnTheirWay, InProgress, Queues
<1>4. Matches(a) /\ a \in Written
  BY <1>1, <1>3, FinishedMatches DEF Written
<1>5. WrittenBack'
  <2>1. /\ answers \in [Conns -> Seq(Written)] /\ answers[c] \in Seq(Written)
        /\ \A e \in Conns : \A i \in DOMAIN answers[e] : Matches(answers[e][i])
    BY DEF RpcInv, WrittenBack
  <2>2. /\ Append(answers[c], a) \in Seq(Written)
        /\ Len(Append(answers[c], a)) = Len(answers[c]) + 1
        /\ Append(answers[c], a)[Len(answers[c]) + 1] = a
        /\ \A i \in 1..Len(answers[c]) : Append(answers[c], a)[i] = answers[c][i]
    BY <1>4, <2>1, AppendProperties
  <2>3. /\ DOMAIN answers[c] = 1..Len(answers[c]) /\ Len(answers[c]) \in Nat
        /\ DOMAIN Append(answers[c], a) = 1..(Len(answers[c]) + 1)
    BY <2>1, <2>2, LenProperties
  <2>4. ASSUME NEW i \in 1..(Len(answers[c]) + 1)
        PROVE  Matches(Append(answers[c], a)[i])
    <3>1. i = Len(answers[c]) + 1 \/ i \in 1..Len(answers[c])
      BY <2>3
    <3> QED
      BY <1>4, <2>1, <2>2, <2>3, <3>1, Zenon
  <2>5. /\ answers' \in [Conns -> Seq(Written)]
        /\ answers'[c] = Append(answers[c], a)
        /\ \A e \in Conns \ {c} : answers'[e] = answers[e]
    BY <1>2, <2>1, <2>2
  <2> QED
    BY <2>1, <2>3, <2>4, <2>5, Zenon DEF WrittenBack
<1>6. /\ <<>> \in Seq(Request) /\ <<>> \in Seq(Reply) /\ Len(<<>>) = 0
      /\ NoLine.calls = <<>>
  BY EmptySeq DEF NoLine
<1>7. Progress(NoLine, <<>>, <<>>) /\ Remaining(NoLine, <<>>, <<>>)
  BY <1>6 DEF Progress, Remaining
<1>8. todo' = [todo EXCEPT ![c] = <<>>]
  BY <1>2, <1>3
<1>9. OnTheirWay'
  BY <1>2, <1>6, <1>7, <1>8, OneGoesOn DEF RpcInv
<1> QED
  BY <1>2, <1>5, <1>9, SameTable DEF RpcInv

(* The lines, their responses and the relay table stay in step.            *)
THEOREM RpcInductive == RpcSpec => []RpcInv
<1>1. RpcInit => RpcInv
  <2> SUFFICES ASSUME RpcInit
               PROVE  RpcInv
    OBVIOUS
  <2>1. TypeOK /\ PinFollowsState
    BY TypesInit, FollowsInit DEF RpcInit
  <2>2. Words
    <3>1. /\ rs = [r \in Relays |-> FreshRelay]
          /\ Word32 \in Nat \ {0} /\ Word64 \in Nat /\ Word32 <= Word64
      BY ArgsAssumption DEF RpcInit, Init
    <3>2. /\ FreshRelay.blinkCount = 0 /\ FreshRelay.durationMs = 0
          /\ FreshRelay.blinkOnMs = 0 /\ FreshRelay.blinkOffMs = 0
      BY DEF FreshRelay
    <3>3. 0 < Word32 /\ 0 < Word64
      BY <3>1
    <3>4. \A r \in Relays : rs[r] = FreshRelay
      BY <3>1
    <3> QED
      BY <3>2, <3>3, <3>4, Zenon DEF Words, Fits
  <2>3. <<>> \in Seq(Request) /\ <<>> \in Seq(Reply) /\ <<>> \in Seq(Written)
    BY EmptySeq
  <2>4. Queues
    BY <2>3 DEF RpcInit, Queues
  <2>5. InProgress
    BY DEF RpcInit, InProgress, Progress
  <2>6. Suffixes
    <3>1. NoLine.calls = <<>> /\ Len(<<>>) = 0
      BY EmptySeq DEF NoLine
    <3> QED
      BY <3>1 DEF RpcInit, Suffixes, Remaining
  <2>7. WrittenBack
    <3>1. DOMAIN <<>> = {}
      OBVIOUS
    <3> QED
      BY <2>3, <3>1 DEF RpcInit, WrittenBack
  <2> QED
    BY <2>1, <2>2, <2>4, <2>5, <2>6, <2>7 DEF RpcInv, OnTheirWay, Table
<1>2. RpcInv /\ [RpcNext]_allVars => RpcInv'
  <2> SUFFICES ASSUME RpcInv, [RpcNext]_allVars
               PROVE  RpcInv'
    OBVIOUS
  <2>1. ASSUME NEW c \in Conns, DispatchThrows(c)
        PROVE  RpcInv'
    <3>1. down' /\ UNCHANGED <<vars, line, todo, done, answers>>
      BY <2>1 DEF DispatchThrows
    <3> QED
      BY <3>1, SameWay, SameAnswers, SameTable DEF RpcInv
  <2>2. CASE TickThread
    <3>1. (Tick \/ Elapse) /\ UNCHANGED <<line, todo, done, answers, down>>
      BY <2>2 DEF TickThread, rpcVars
    <3> QED
      BY <3>1, SameWay, SameAnswers, TickKeepsTable DEF RpcInv
  <2>3. CASE UNCHANGED allVars
    <3>1. UNCHANGED vars /\ UNCHANGED <<line, todo, done, answers, down>>
      BY <2>3 DEF allVars, rpcVars
    <3> QED
      BY <3>1, SameWay, SameAnswers, SameTable DEF RpcInv
  <2> QED
    BY <2>1, <2>2, <2>3, TakeLineKeeps, TakeLineThrowsKeeps, DispatchKeeps,
       AnswerKeeps DEF RpcNext
<1> QED
  BY <1>1, <1>2, PTL DEF RpcSpec

(* Whatever clients write, however large the numbers in it, the table      *)
(* stays typed, what is left of a line is a suffix of it and every         *)
(* response carries a code of the protocol.                                *)
THEOREM RpcTypeCorrect == RpcSpec => []RpcTypeOK
<1>1. RpcInv => RpcTypeOK
  BY TypesMeaning DEF RpcInv, OnTheirWay, Table
<1> QED
  BY <1>1, RpcInductive, PTL

(* Every answer that is written back has a response for each request of    *)
(* its line that has an id, with that id and in the order of the requests, *)
(* for lines of any length.                                                *)
THEOREM AnswersPaired == RpcSpec => []AnswersMatch
<1>1. RpcInv => AnswersMatch
  BY MatchesMeaning DEF RpcInv
<1> QED
  BY <1>1, RpcInductive, PTL

-----------------------------------------------------------------------------
(* The truth of a response.                                                *)

LEMMA CommandTouchesOne ==
    ASSUME TypeOK, NEW r \in Relays, NEW x \in RelayState, Command(r, x)
    PROVE  /\ rs'[r] = x
           /\ \A o \in Relays \ {r} : rs'[o] = rs[o] /\ pin'[o] = pin[o]
<1> DEFINE next == [rs EXCEPT ![r] = x]
<1>1. PICK refused \in SUBSET FaultyLines :
        /\ rs' = next
        /\ pin' = [o \in Relays |->
              IF next[o].state # rs[o].state /\ o \notin refused
              THEN next[o].state ELSE pin[o]]
  BY DEF Command, SetRelayInternal
<1>2. next[r] = x /\ \A o \in Relays \ {r} : next[o] = rs[o]
  BY DEF TypeOK
<1> HIDE DEF next
<1> QED
  BY <1>1, <1>2

LEMMA DispatchReportsTruly ==
    ASSUME RpcInv, ~down, NEW c \in Conns, Dispatch(c)
    PROVE  ReportsTruly(c)
<1>1. PICK q : q = Head(todo[c])
  OBVIOUS
<1>2. PICK a : a = Response(q.id, Code(q))
  OBVIOUS
<1>3. /\ IF Code(q) = Success THEN Execute(q) ELSE UNCHANGED vars
      /\ done' = [done EXCEPT ![c] = Append(@, a)]
  BY <1>1, <1>2 DEF Dispatch
<1>4. q \in Request /\ WellFormed(q) /\ q.shape # "method"
  BY <1>1, Dispatched
<1>5. a \in Reply /\ a.code = Code(q) /\ a.id = JsonId(q.id)
  BY <1>2, <1>4, CodesKnown, ResponseType
<1>6. Reported(c) = Code(q)
  <2>1. done'[c] = Append(done[c], a)
    BY <1>3 DEF RpcInv, OnTheirWay, Queues
  <2>2. done'[c][Len(done'[c])] = a
    BY <1>1, <1>5, <2>1, Dispatched, DispatchedProgress
  <2> QED
    BY <1>5, <2>2 DEF Reported
<1>7. CASE Code(q) # Success
  <2>1. UNCHANGED <<rs, pin>>
    BY <1>3, <1>7 DEF vars
  <2> QED
    BY <1>1, <1>6, <1>7, <2>1, Zenon DEF ReportsTruly
<1>8. CASE Code(q) = Success /\ q.method \in Commands
  <2>0. PICK r : r = AsInt(q.relay)
    OBVIOUS
  <2>1. PICK x \in RelayState :
           /\ Command(r, x)
           /\ x.mode = ModeOf(q.method)
           /\ x.state = (q.method # "set_relay" \/ q.args[1] = 1)
    BY <1>3, <1>4, <1>8, <2>0, Executes DEF RpcInv, Table
  <2>2. r \in Relays
    BY <1>4, <1>8, <2>0, SuccessChecks
  <2>3. rs'[r] = x /\ \A o \in Relays \ {r} : rs'[o] = rs[o] /\ pin'[o] = pin[o]
    BY <2>1, <2>2, CommandTouchesOne DEF RpcInv, Table
  <2>4. r \notin FaultyLines => pin'[r] = rs'[r].state
    <3>1. PinFollowsState'
      BY <2>1, SetRelayInternalFollows DEF Command, RpcInv, Table
    <3> QED
      BY <2>2, <3>1 DEF PinFollowsState
  <2> QED
    BY <1>1, <1>6, <1>8, <2>0, <2>1, <2>2, <2>3, <2>4, Zenon DEF ReportsTruly
<1>9. CASE Code(q) = Success /\ q.method \notin Commands
  BY <1>1, <1>6, <1>9, Zenon DEF ReportsTruly
<1> QED
  BY <1>7, <1>8, <1>9

(* A step that leaves what is left of a line alone reports nothing.        *)
LEMMA SilentStep ==
    ASSUME RpcInv, NEW c \in Conns,
           todo[c] = <<>> \/ todo'[c] = todo[c]
    PROVE  ReportsTruly(c)
<1>1. CASE todo[c] # <<>>
  <2>1. todo[c] \in Seq(Request)
    BY DEF RpcInv, OnTheirWay, Queues
  <2>2. Len(todo[c]) \in Nat /\ Len(todo[c]) >= 1
    BY <1>1, <2>1, LenProperties, EmptySeq
  <2>3. Len(Tail(todo[c])) = Len(todo[c]) - 1
    BY <1>1, <2>1, HeadTailProperties
  <2>4. Tail(todo[c]) # todo[c]
    <3>1. \A n \in Nat : n # n - 1
      OBVIOUS
    <3> QED
      BY <2>2, <2>3, <3>1, Zenon
  <2> QED
    BY <1>1, <2>4, Zenon DEF ReportsTruly
<1>2. CASE todo[c] = <<>>
  BY <1>2, Zenon DEF ReportsTruly
<1> QED
  BY <1>1, <1>2

(* Whatever numbers clients write, a success means that the channel the id *)
(* is cut down to is under the command and that its line drives the level  *)
(* if it is one that takes every write; an error means that no channel and *)
(* no line was touched, whatever else is in the batch and on other         *)
(* connections.                                                            *)
THEOREM SuccessIsTrue == RpcSpec => SuccessMeansDone
<1>1. RpcInv /\ [RpcNext]_allVars => [\A c \in Conns : ReportsTruly(c)]_allVars
  <2> SUFFICES ASSUME RpcInv, RpcNext, NEW c \in Conns
               PROVE  ReportsTruly(c)
    OBVIOUS
  <2>0. ~down /\ todo \in [Conns -> Seq(Request)]
    BY DEF RpcNext, RpcInv, OnTheirWay, Queues
  <2>1. ASSUME NEW d \in Conns, NEW l \in Lines, TakeLine(d, l)
        PROVE  ReportsTruly(c)
    <3>1. todo[d] = <<>>
      BY <2>0, <2>1, Zenon DEF TakeLine, RpcInv, OnTheirWay, InProgress, Progress
    <3>2. d # c => todo'[c] = todo[c]
      BY <2>0, <2>1 DEF TakeLine
    <3> QED
      BY <3>1, <3>2, SilentStep
  <2>2. ASSUME NEW d \in Conns, Dispatch(d)
        PROVE  ReportsTruly(c)
    <3>1. d # c => todo'[c] = todo[c]
      BY <2>0, <2>2 DEF Dispatch
    <3> QED
      BY <2>0, <2>2, <3>1, SilentStep, DispatchReportsTruly
  <2>3. ASSUME todo' = todo
        PROVE  ReportsTruly(c)
    BY <2>3, SilentStep
  <2> QED
    BY <2>1, <2>2, <2>3 DEF RpcNext, TakeLineThrows, DispatchThrows, Answer,
       TickThread, rpcVars
<1> QED
  BY <1>1, RpcInductive, PTL DEF RpcSpec, SuccessMeansDone
-----------------------------------------------------------------------------
(* The requests are the controller's commands.                             *)

(* Every length and count a uint32_t can hold may be asked for. *)
AnyArgument ==
    /\ Seconds = 0..Word32 - 1 /\ Millis = 0..Word32 - 1
    /\ Counts = 0..Word32 - 1

LEMMA AsUintFits ==
    ASSUME NEW x \in Int
    PROVE  AsUint(x) \in 0..Word32 - 1
<1>1. AsUint(x) \in Nat /\ AsUint(x) < Word32 /\ Word32 \in Nat
  BY AsUintType, ArgsAssumption
<1> QED
  BY <1>1

LEMMA ExecuteCommands ==
    ASSUME AnyArgument, NEW q \in Request, WellFormed(q), q.shape # "method",
           IF Code(q) = Success THEN Execute(q) ELSE UNCHANGED vars
    PROVE  AnyCommand \/ UNCHANGED vars
<1> SUFFICES ASSUME Code(q) = Success, Execute(q), q.method \in Commands
             PROVE  AnyCommand
  BY DEF Execute, Commands
<1> DEFINE r == AsInt(q.relay)
<1>1. /\ r \in Relays /\ q.args[1] \in Int
      /\ q.method = "start_blink" => q.args[2] \in Int /\ q.args[3] \in Int
  BY SuccessChecks
<1>2. CASE q.method = "set_relay"
  <2>1. SetRelay(r, q.args[1] = 1) /\ (q.args[1] = 1) \in BOOLEAN
    BY <1>2 DEF Execute
  <2> QED
    BY <1>1, <2>1, Zenon DEF AnyCommand
<1>3. CASE q.method = "start_timer"
  <2>1. StartTimer(r, AsUint(q.args[1])) /\ AsUint(q.args[1]) \in Seconds
    BY <1>1, <1>3, AsUintFits DEF Execute, AnyArgument
  <2> QED
    BY <1>1, <2>1, Zenon DEF AnyCommand
<1>4. CASE q.method = "start_pulse"
  <2>1. StartPulse(r, AsUint(q.args[1])) /\ AsUint(q.args[1]) \in Millis
    BY <1>1, <1>4, AsUintFits DEF Execute, AnyArgument
  <2> QED
    BY <1>1, <2>1, Zenon DEF AnyCommand
<1>5. CASE q.method = "start_blink"
  <2>1. StartBlink(r, AsUint(q.args[1]), AsUint(q.args[2]), AsUint(q.args[3]))
    BY <1>5 DEF Execute
  <2>2. /\ AsUint(q.args[1]) \in Millis /\ AsUint(q.args[2]) \in Millis
        /\ AsUint(q.args[3]) \in Counts
    BY <1>1, <1>5, AsUintFits DEF AnyArgument
  <2> QED
    BY <1>1, <2>1, <2>2, Zenon DEF AnyCommand
<1> QED
  BY <1>2, <1>3, <1>4, <1>5 DEF Commands

(* Behind the router, batches, conversions and checks of any mix of        *)
(* clients are commands, ticks and time of the controller, and no other    *)
(* step reaches its table.                                                 *)
THEOREM RoutesToController ==
    ASSUME AnyArgument
    PROVE  RpcSpec => Spec
<1>1. RpcInit => Init
  BY DEF RpcInit
<1>2. RpcInv /\ [RpcNext]_allVars => [Next]_vars
  <2> SUFFICES ASSUME RpcInv, [RpcNext]_allVars
               PROVE  Next \/ UNCHANGED vars
    OBVIOUS
  <2>1. ASSUME ~down, NEW c \in Conns, Dispatch(c)
        PROVE  AnyCommand \/ UNCHANGED vars
    <3>1. PICK q : q = Head(todo[c])
      OBVIOUS
    <3>2. IF Code(q) = Success THEN Execute(q) ELSE UNCHANGED vars
      BY <2>1, <3>1 DEF Dispatch
    <3>3. q \in Request /\ WellFormed(q) /\ q.shape # "method"
      BY <2>1, <3>1, Dispatched
    <3> QED
      BY <3>2, <3>3, ExecuteCommands
  <2>2. ASSUME NEW c \in Conns,
               \/ \E l \in Lines : TakeLine(c, l) \/ TakeLineThrows(c, l)
               \/ DispatchThrows(c) \/ Answer(c)
        PROVE  UNCHANGED vars
    BY <2>2, Zenon DEF TakeLine, TakeLineThrows, DispatchThrows, Answer
  <2>3. CASE TickThread
    BY <2>3, Zenon DEF TickThread, Next
  <2>4. CASE UNCHANGED allVars
    BY <2>4, Zenon DEF allVars
  <2> QED
    BY <2>1, <2>2, <2>3, <2>4, Zenon DEF RpcNext, Next
<1> QED
  BY <1>1, <1>2, RpcInductive, PTL DEF RpcSpec, Spec

(* Whatever clients write, in whatever order their requests are carried    *)
(* out, each channel does what RelayPromise says of it.                    *)
THEOREM RequestsKeepPromise ==
    ASSUME AnyArgument
    PROVE  RpcSpec => KeepsPromise
  BY RoutesToController, Implements, PTL

=============================================================================
