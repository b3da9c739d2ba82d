--------------------------- MODULE HilSystemProofs ---------------------------
(***************************************************************************)
(* What the windows send and are sent, for any number of desks, clicks,    *)
(* polls and messages under way, and that no command is ever of their own  *)
(* making.                                                                 *)
(***************************************************************************)
EXTENDS HilSystem, FiniteSetTheorems, SequenceTheorems, TLAPS

Answer == {"on", "off", "done"}

(* Where the commands of a queue of requests are. *)
CommandsOf(s) == {i \in DOMAIN s : s[i] # Query}

-----------------------------------------------------------------------------
(* Requests and answers.                                                   *)

LEMMA RequestCases ==
    ASSUME NEW q \in Request
    PROVE  \/ q = Query
           \/ \E on \in BOOLEAN : q = SetTo(on)
           \/ \E n \in HoldLengths : q = HoldFor(n)
           \/ \E on, off \in PhaseLengths, n \in BlinkCounts : q = BlinkFor(on, off, n)
  BY DEF Request

LEMMA CommandsAreRequests ==
    /\ Query \in Request
    /\ \A on \in BOOLEAN : SetTo(on) \in Request /\ SetTo(on) # Query
    /\ \A n \in HoldLengths : HoldFor(n) \in Request /\ HoldFor(n) # Query
    /\ \A on, off \in PhaseLengths, n \in BlinkCounts :
          BlinkFor(on, off, n) \in Request /\ BlinkFor(on, off, n) # Query
<1>1. /\ Query.method = "get_relays"
      /\ \A on : SetTo(on).method = "set_relay"
      /\ \A n : HoldFor(n).method = "start_hold"
      /\ \A on, off, n : BlinkFor(on, off, n).method = "start_blink"
  BY DEF Query, SetTo, HoldFor, BlinkFor
<1> QED
  BY <1>1 DEF Request

(* The server carries out what the windows may ask for.                    *)
LEMMA Executes ==
    ASSUME NEW q \in Request, Execute(q), level \in [{Relay} -> BOOLEAN]
    PROVE  /\ level' \in [{Relay} -> BOOLEAN] /\ UNCHANGED clock
           /\ Result(q) \in Answer
<1>1. level[Relay] \in BOOLEAN
  OBVIOUS
<1>2. CASE q = Query
  <2>1. q.method = "get_relays"
    BY <1>2 DEF Query
  <2>2. UNCHANGED <<level, clock>> /\ Result(q) = Shown(level[Relay])
    BY <2>1 DEF Execute, Result, server
  <2> QED
    BY <2>2 DEF Shown, Answer
<1>3. ASSUME NEW on \in BOOLEAN, q = SetTo(on)
      PROVE  /\ level' \in [{Relay} -> BOOLEAN] /\ UNCHANGED clock
             /\ Result(q) \in Answer
  <2>1. q.method = "set_relay" /\ q.state = on
    BY <1>3 DEF SetTo
  <2>2. Server!SetLevel(Relay, on) /\ Result(q) = Shown(on)
    BY <2>1 DEF Execute, Result
  <2>3. Result(q) \in Answer
    BY <2>2 DEF Shown, Answer
  <2>4. level' = [level EXCEPT ![Relay] = on] /\ UNCHANGED clock
    BY <2>2 DEF Server!SetLevel, Server!Command
  <2> QED
    BY <2>3, <2>4
<1>4. ASSUME NEW n \in HoldLengths, q = HoldFor(n)
      PROVE  /\ level' \in [{Relay} -> BOOLEAN] /\ UNCHANGED clock
             /\ Result(q) \in Answer
  <2>1. q.method = "start_hold" /\ q.length = n
    BY <1>4 DEF HoldFor
  <2>2. Server!HoldOn(Relay, n) /\ Result(q) = "done"
    BY <2>1 DEF Execute, Result
  <2>3. level' = [level EXCEPT ![Relay] = TRUE] /\ UNCHANGED clock
    BY <2>2 DEF Server!HoldOn, Server!Command
  <2> QED
    BY <2>2, <2>3 DEF Answer
<1>5. ASSUME NEW on \in PhaseLengths, NEW off \in PhaseLengths,
             NEW n \in BlinkCounts, q = BlinkFor(on, off, n)
      PROVE  /\ level' \in [{Relay} -> BOOLEAN] /\ UNCHANGED clock
             /\ Result(q) \in Answer
  <2>1. q.method = "start_blink" /\ q.on = on /\ q.off = off /\ q.count = n
    BY <1>5 DEF BlinkFor
  <2>2. Server!StartBlink(Relay, on, off, n) /\ Result(q) = "done"
    BY <2>1 DEF Execute, Result
  <2>3. level' = [level EXCEPT ![Relay] = TRUE] /\ UNCHANGED clock
    BY <2>2 DEF Server!StartBlink, Server!Command
  <2> QED
    BY <2>2, <2>3 DEF Answer
<1> QED
  BY <1>2, <1>3, <1>4, <1>5, RequestCases

-----------------------------------------------------------------------------
(* Counting the commands of a queue.                                       *)

LEMMA CommandsFinite ==
    ASSUME NEW s \in Seq(Request)
    PROVE  /\ IsFiniteSet(CommandsOf(s)) /\ CommandsOf(s) \subseteq 1..Len(s)
           /\ Cardinality(CommandsOf(s)) \in Nat
<1>1. DOMAIN s = 1..Len(s) /\ Len(s) \in Nat
  BY LenProperties
<1>2. CommandsOf(s) \in SUBSET (1..Len(s))
  BY <1>1 DEF CommandsOf
<1>3. IsFiniteSet(1..Len(s))
  BY <1>1, FS_Interval
<1>4. IsFiniteSet(CommandsOf(s))
  BY <1>2, <1>3, FS_Subset
<1> QED
  BY <1>2, <1>4, FS_CardinalityType

LEMMA AppendCommands ==
    ASSUME NEW s \in Seq(Request), NEW q \in Request
    PROVE  Cardinality(CommandsOf(Append(s, q))) =
              IF q = Query THEN Cardinality(CommandsOf(s))
              ELSE Cardinality(CommandsOf(s)) + 1
<1> DEFINE t == Append(s, q)
<1>1. DOMAIN s = 1..Len(s) /\ Len(s) \in Nat
  BY LenProperties
<1>2. /\ t \in Seq(Request) /\ Len(t) = Len(s) + 1
      /\ \A i \in 1..Len(s) : t[i] = s[i]
      /\ t[Len(s) + 1] = q
  BY AppendProperties
<1> HIDE DEF t
<1>3. DOMAIN t = 1..(Len(s) + 1)
  BY <1>2, LenProperties
<1>4. CASE q = Query
  <2>1. CommandsOf(t) = CommandsOf(s)
    BY <1>1, <1>2, <1>3, <1>4 DEF CommandsOf
  <2> QED
    BY <1>4, <2>1 DEF t
<1>5. CASE q # Query
  <2>1. CommandsOf(t) = CommandsOf(s) \union {Len(s) + 1}
    BY <1>1, <1>2, <1>3, <1>5 DEF CommandsOf
  <2>2. Len(s) + 1 \notin CommandsOf(s) /\ IsFiniteSet(CommandsOf(s))
    BY <1>1, CommandsFinite
  <2>3. Cardinality(CommandsOf(t)) = Cardinality(CommandsOf(s)) + 1
    BY <2>1, <2>2, FS_AddElement
  <2> QED
    BY <1>5, <2>3 DEF t
<1> QED
  BY <1>4, <1>5

LEMMA TailCommands ==
    ASSUME NEW s \in Seq(Request), s # <<>>
    PROVE  Cardinality(CommandsOf(Tail(s))) =
              IF Head(s) = Query THEN Cardinality(CommandsOf(s))
              ELSE Cardinality(CommandsOf(s)) - 1
<1> DEFINE t == Tail(s)
           S == CommandsOf(t)
           T == CommandsOf(s) \ {1}
           g == [i \in S |-> i + 1]
<1>1. /\ DOMAIN s = 1..Len(s) /\ Len(s) \in Nat /\ Len(s) >= 1
      /\ Head(s) = s[1]
  BY LenProperties, EmptySeq
<1>2. /\ t \in Seq(Request) /\ Len(t) = Len(s) - 1
      /\ \A i \in 1..(Len(s) - 1) : t[i] = s[i + 1]
  BY HeadTailProperties
<1> HIDE DEF t
<1>3. DOMAIN t = 1..(Len(s) - 1)
  BY <1>2, LenProperties
<1>4. IsFiniteSet(S) /\ IsFiniteSet(CommandsOf(s))
  BY <1>2, CommandsFinite
<1>5. \A i \in S : i \in 1..(Len(s) - 1) /\ i + 1 \in T
  BY <1>1, <1>2, <1>3 DEF CommandsOf
<1>6. \A j \in T : j - 1 \in S /\ (j - 1) + 1 = j
  <2> SUFFICES ASSUME NEW j \in T
               PROVE  j - 1 \in S /\ (j - 1) + 1 = j
    OBVIOUS
  <2>1. j \in 1..Len(s) /\ j # 1 /\ s[j] # Query
    BY <1>1 DEF CommandsOf
  <2>2. j - 1 \in 1..(Len(s) - 1) /\ (j - 1) + 1 = j
    BY <1>1, <2>1
  <2>3. t[j - 1] = s[j]
    BY <1>2, <2>2
  <2> QED
    BY <1>3, <2>1, <2>2, <2>3 DEF CommandsOf
<1>7. \A i, j \in S : i + 1 = j + 1 => i = j
  BY <1>1, <1>5
<1> HIDE DEF S, T
<1>8. g \in Bijection(S, T)
  BY <1>5, <1>6, <1>7 DEF Bijection, Injection, Surjection, IsInjective
<1>9. Cardinality(T) = Cardinality(S)
  BY <1>4, <1>8, FS_Bijection DEF ExistsBijection
<1>10. Cardinality(T) = IF 1 \in CommandsOf(s) THEN Cardinality(CommandsOf(s)) - 1
                        ELSE Cardinality(CommandsOf(s))
  BY <1>4, FS_RemoveElement DEF T
<1>11. 1 \in CommandsOf(s) <=> Head(s) # Query
  BY <1>1 DEF CommandsOf
<1> QED
  BY <1>9, <1>10, <1>11 DEF S, t

-----------------------------------------------------------------------------
(***************************************************************************)
(* The toggle page between two calls is not updating.  The handler of the  *)
(* switch then tells who set it: a click sends its one command, an update  *)
(* sends none.                                                             *)
(***************************************************************************)
LEMMA ClickSends ==
    ASSUME NEW d \in Desks, HilTypeOK, ~updating[d],
           PageBecomes(d, SetActive(TogglePage(d), ~switch[d]))
    PROVE  /\ Send(d, SetTo(~switch[d])) /\ UNCHANGED updating
           /\ switch' \in [Desks -> BOOLEAN]
<1> DEFINE w == [TogglePage(d) EXCEPT !.switch = ~switch[d]]
           q == SetTo(~switch[d])
<1>1. /\ updating \in [Desks -> BOOLEAN] /\ switch \in [Desks -> BOOLEAN]
      /\ requests \in [Desks -> Seq(Request)] /\ requests[d] \in Seq(Request)
  BY DEF HilTypeOK
<1>2. /\ w.switch = ~switch[d] /\ w.updating = updating[d] /\ w.toggled = <<>>
      /\ TogglePage(d).switch # ~switch[d]
  BY <1>1 DEF TogglePage
<1>3. SetActive(TogglePage(d), ~switch[d]) = [w EXCEPT !.toggled = Append(@, q)]
  BY <1>2 DEF SetActive, OnStateSet
<1>4. /\ SetActive(TogglePage(d), ~switch[d]).switch = ~switch[d]
      /\ SetActive(TogglePage(d), ~switch[d]).updating = updating[d]
      /\ SetActive(TogglePage(d), ~switch[d]).toggled = Append(w.toggled, q)
  BY <1>1, <1>2, <1>3 DEF TogglePage
<1>5. requests[d] \o Append(w.toggled, q) = Append(requests[d], q)
  <2>1. q \in Request
    BY <1>1, CommandsAreRequests
  <2>2. Append(w.toggled, q) = <<q>>
    <3>1. Append(<<>>, q) = <<>> \o <<q>> /\ <<q>> \in Seq(Request)
      BY <2>1, AppendIsConcat, EmptySeq
    <3>2. <<>> \o <<q>> = <<q>>
      BY <3>1, ConcatEmptySeq
    <3> QED
      BY <1>2, <3>1, <3>2
  <2> HIDE DEF q, w
  <2> QED
    BY <1>1, <2>1, <2>2, AppendIsConcat
<1> QED
  BY <1>1, <1>4, <1>5 DEF PageBecomes, Send

LEMMA UpdateSendsNothing ==
    ASSUME NEW d \in Desks, HilTypeOK, ~updating[d], NEW on \in BOOLEAN,
           PageBecomes(d, PageUpdated(TogglePage(d), on))
    PROVE  /\ UNCHANGED <<requests, updating>>
           /\ switch' \in [Desks -> BOOLEAN]
<1> DEFINE w == [TogglePage(d) EXCEPT !.updating = TRUE]
<1>1. /\ updating \in [Desks -> BOOLEAN] /\ switch \in [Desks -> BOOLEAN]
      /\ requests \in [Desks -> Seq(Request)] /\ requests[d] \in Seq(Request)
  BY DEF HilTypeOK
<1>2. w.switch = switch[d] /\ w.updating = TRUE /\ w.toggled = <<>>
  BY <1>1 DEF TogglePage
<1>3. /\ SetActive(w, on).switch = on
      /\ SetActive(w, on).updating = TRUE
      /\ SetActive(w, on).toggled = <<>>
  BY <1>2 DEF SetActive, OnStateSet, TogglePage
<1>4. /\ PageUpdated(TogglePage(d), on).switch = on
      /\ PageUpdated(TogglePage(d), on).updating = FALSE
      /\ PageUpdated(TogglePage(d), on).toggled = <<>>
  BY <1>3 DEF PageUpdated, SetActive, OnStateSet, TogglePage
<1>5. requests[d] \o <<>> = requests[d]
  BY <1>1, ConcatEmptySeq
<1> QED
  BY <1>1, <1>4, <1>5 DEF PageBecomes

-----------------------------------------------------------------------------
(* Types.                                                                  *)

LEMMA TypesInit == Init => HilTypeOK
<1> SUFFICES ASSUME Init
             PROVE  HilTypeOK
  OBVIOUS
<1>1. level \in [{Relay} -> BOOLEAN] /\ clock \in 0..MaxClock
  BY HilAssumption DEF Init, Server!Init
<1>2. requests \in [Desks -> Seq(Request)] /\ answers \in [Desks -> Seq(Answer)]
  BY EmptySeq DEF Init
<1>3. /\ active \in [Desks -> BOOLEAN] /\ switch \in [Desks -> BOOLEAN]
      /\ page \in [Desks -> Pages]
  BY DEF Init, Pages
<1>4. wishes \in [Desks -> Int] /\ clicks \in 0..MaxClicks
  BY HilAssumption DEF Init
<1>5. updating \in [Desks -> BOOLEAN]
  BY DEF Init
<1> QED
  BY <1>1, <1>2, <1>3, <1>4, <1>5 DEF HilTypeOK, Answer

(* No call of updateState is in progress between two of the main loop. *)
AtRest == \A d \in Desks : ~updating[d]

(* What each kind of step does to the part of the state its name says.     *)
LEMMA UserTypes ==
    ASSUME HilTypeOK, AtRest, UserNext
    PROVE  /\ UNCHANGED <<level, clock, answers, active, updating>>
           /\ switch' \in [Desks -> BOOLEAN] /\ page' \in [Desks -> Pages]
           /\ clicks' \in 0..MaxClicks
<1>1. UNCHANGED <<level, clock, answers>> /\ clicks' \in 0..MaxClicks
  <2>1. Clicked
    BY DEF UserNext, FlipSwitch, StartHold, StartBlink, ChangeMode
  <2>2. /\ UNCHANGED <<level, clock, answers>>
        /\ clicks < MaxClicks /\ clicks' = clicks + 1
    BY <2>1 DEF Clicked, server
  <2>3. clicks \in 0..MaxClicks /\ MaxClicks \in Nat
    BY HilAssumption DEF HilTypeOK
  <2> QED
    BY <2>2, <2>3
<1>2. ASSUME NEW d \in Desks, FlipSwitch(d)
      PROVE  /\ UNCHANGED <<active, updating>> /\ switch' \in [Desks -> BOOLEAN]
             /\ page' \in [Desks -> Pages]
  BY <1>2, ClickSends DEF HilTypeOK, AtRest, FlipSwitch
<1>3. CASE ~\E d \in Desks : FlipSwitch(d)
  <2>1. /\ UNCHANGED <<active, updating>> /\ switch' \in [Desks -> BOOLEAN]
        /\ page' \in [Desks -> Pages]
    BY <1>3 DEF HilTypeOK, UserNext, StartHold, StartBlink, ChangeMode, window
  <2> QED
    BY <1>1, <2>1
<1> QED
  BY <1>1, <1>2, <1>3

(* Every user's step gives one command, or none.                           *)
LEMMA UserSends ==
    ASSUME HilTypeOK, AtRest, UserNext
    PROVE  \/ UNCHANGED <<requests, wishes>>
           \/ \E d \in Desks, q \in Request \ {Query} : Command(d, q)
<1>1. ASSUME NEW d \in Desks, FlipSwitch(d)
      PROVE  \E q \in Request \ {Query} : Command(d, q)
  <2>1. SetTo(~switch[d]) \in Request \ {Query}
    BY CommandsAreRequests DEF HilTypeOK
  <2> QED
    BY <1>1, <2>1, ClickSends DEF FlipSwitch, AtRest, Command
<1>2. ASSUME NEW d \in Desks, NEW n \in HoldLengths, StartHold(d, n)
      PROVE  \E q \in Request \ {Query} : Command(d, q)
  BY <1>2, CommandsAreRequests DEF StartHold
<1>3. ASSUME NEW d \in Desks, NEW on \in PhaseLengths, NEW off \in PhaseLengths,
             NEW n \in BlinkCounts, StartBlink(d, on, off, n)
      PROVE  \E q \in Request \ {Query} : Command(d, q)
  BY <1>3, CommandsAreRequests DEF StartBlink
<1>4. ASSUME NEW d \in Desks, NEW p \in Pages, ChangeMode(d, p)
      PROVE  \/ UNCHANGED <<requests, wishes>>
             \/ \E q \in Request \ {Query} : Command(d, q)
  BY <1>4, CommandsAreRequests DEF ChangeMode
<1> QED
  BY <1>1, <1>2, <1>3, <1>4 DEF UserNext

-----------------------------------------------------------------------------
(* The two together.                                                       *)

HilInv == HilTypeOK /\ AtRest /\ OnlyUsersCommand

Counts(d) == wishes[d] = Cardinality(CommandsOf(requests[d]))

LEMMA CountsMeaning == OnlyUsersCommand <=> \A d \in Desks : Counts(d)
  BY DEF OnlyUsersCommand, Counts, CommandsOf

(* A request is added to a desk's queue. *)
LEMMA SendKeeps ==
    ASSUME HilInv, NEW d \in Desks, NEW q \in Request, Send(d, q),
           IF q = Query THEN UNCHANGED wishes ELSE Wish(d)
    PROVE  /\ requests' \in [Desks -> Seq(Request)]
           /\ wishes' \in [Desks -> Int] /\ OnlyUsersCommand'
<1>1. /\ requests[d] \in Seq(Request) /\ requests' = [requests EXCEPT ![d] = Append(@, q)]
      /\ requests \in [Desks -> Seq(Request)] /\ wishes \in [Desks -> Int]
  BY DEF HilInv, HilTypeOK, Send
<1>2. Append(requests[d], q) \in Seq(Request)
  BY <1>1, AppendProperties
<1>3. /\ requests' \in [Desks -> Seq(Request)]
      /\ requests'[d] = Append(requests[d], q)
      /\ \A e \in Desks : e # d => requests'[e] = requests[e]
  BY <1>1, <1>2
<1>4. /\ wishes' \in [Desks -> Int]
      /\ wishes'[d] = IF q = Query THEN wishes[d] ELSE wishes[d] + 1
      /\ \A e \in Desks : e # d => wishes'[e] = wishes[e]
  BY <1>1 DEF Wish
<1>5. \A e \in Desks : Counts(e)
  BY CountsMeaning DEF HilInv
<1>6. Counts(d)'
  <2>1. Cardinality(CommandsOf(requests'[d])) =
           IF q = Query THEN Cardinality(CommandsOf(requests[d]))
           ELSE Cardinality(CommandsOf(requests[d])) + 1
    BY <1>1, <1>3, AppendCommands
  <2> QED
    BY <1>4, <1>5, <2>1 DEF Counts
<1>7. \A e \in Desks : e # d => Counts(e)'
  BY <1>3, <1>4, <1>5 DEF Counts
<1>8. OnlyUsersCommand'
  BY <1>6, <1>7 DEF OnlyUsersCommand, Counts, CommandsOf
<1> QED
  BY <1>3, <1>4, <1>8

LEMMA CountUnchanged ==
    ASSUME HilInv, UNCHANGED <<requests, wishes>>
    PROVE  /\ requests' \in [Desks -> Seq(Request)]
           /\ wishes' \in [Desks -> Int] /\ OnlyUsersCommand'
  BY DEF HilInv, HilTypeOK, OnlyUsersCommand

LEMMA UserKeeps ==
    ASSUME HilInv, UserNext
    PROVE  HilInv'
<1>1. /\ requests' \in [Desks -> Seq(Request)]
      /\ wishes' \in [Desks -> Int] /\ OnlyUsersCommand'
  <2>1. CASE UNCHANGED <<requests, wishes>>
    BY <2>1, CountUnchanged
  <2>2. ASSUME NEW d \in Desks, NEW q \in Request \ {Query}, Command(d, q)
        PROVE  /\ requests' \in [Desks -> Seq(Request)]
               /\ wishes' \in [Desks -> Int] /\ OnlyUsersCommand'
    BY <2>2, SendKeeps DEF Command
  <2> QED
    BY <2>1, <2>2, UserSends DEF HilInv
<1> QED
  BY <1>1, UserTypes DEF HilInv, HilTypeOK, AtRest

LEMMA PollKeeps ==
    ASSUME HilInv, NEW d \in Desks, Poll(d)
    PROVE  HilInv'
<1>1. /\ Send(d, Query) /\ UNCHANGED <<level, clock, answers, active, switch>>
      /\ UNCHANGED <<updating, page, wishes, clicks>>
  BY DEF Poll, server, window
<1>2. /\ requests' \in [Desks -> Seq(Request)]
      /\ wishes' \in [Desks -> Int] /\ OnlyUsersCommand'
  BY <1>1, SendKeeps, CommandsAreRequests
<1> QED
  BY <1>1, <1>2 DEF HilInv, HilTypeOK, AtRest

LEMMA ShowKeeps ==
    ASSUME HilInv, NEW d \in Desks, Show(d)
    PROVE  HilInv'
<1>1. UNCHANGED <<level, clock, page, wishes, clicks>>
  BY DEF Show, server
<1>2. /\ UNCHANGED <<requests, updating>>
      /\ active' \in [Desks -> BOOLEAN] /\ switch' \in [Desks -> BOOLEAN]
  <2>1. CASE UNCHANGED <<active, switch, updating, requests>>
    BY <2>1 DEF HilInv, HilTypeOK
  <2>2. ASSUME NEW on \in BOOLEAN, UpdateState(d, on)
        PROVE  /\ UNCHANGED <<requests, updating>>
               /\ active' \in [Desks -> BOOLEAN] /\ switch' \in [Desks -> BOOLEAN]
    <3>1. active' \in [Desks -> BOOLEAN]
      BY <2>2 DEF HilInv, HilTypeOK, UpdateState
    <3> QED
      BY <2>2, <3>1, UpdateSendsNothing DEF HilInv, AtRest, UpdateState
  <2> QED
    BY <2>1, <2>2 DEF Show
<1>3. answers' \in [Desks -> Seq(Answer)]
  <2>1. /\ answers \in [Desks -> Seq(Answer)] /\ answers[d] # <<>>
        /\ answers' = [answers EXCEPT ![d] = Tail(@)]
    BY DEF HilInv, HilTypeOK, Show, Answer
  <2>2. Tail(answers[d]) \in Seq(Answer)
    BY <2>1, HeadTailProperties
  <2> QED
    BY <2>1, <2>2
<1> QED
  BY <1>1, <1>2, <1>3, CountUnchanged DEF HilInv, HilTypeOK, Answer, AtRest

LEMMA ServeKeeps ==
    ASSUME HilInv, NEW d \in Desks, Serve(d)
    PROVE  HilInv'
<1> DEFINE q == Head(requests[d])
<1>1. /\ requests \in [Desks -> Seq(Request)] /\ wishes \in [Desks -> Int]
      /\ answers \in [Desks -> Seq(Answer)]
      /\ requests[d] \in Seq(Request) /\ requests[d] # <<>>
  BY DEF HilInv, HilTypeOK, Serve, Answer
<1>2. q \in Request /\ Tail(requests[d]) \in Seq(Request)
  BY <1>1, HeadTailProperties
<1>3. /\ Execute(q) /\ UNCHANGED <<active, switch, updating, page, clicks>>
      /\ answers' = [answers EXCEPT ![d] = Append(@, Result(q))]
      /\ wishes' = [wishes EXCEPT ![d] = IF q = Query THEN @ ELSE @ - 1]
      /\ requests' = [requests EXCEPT ![d] = Tail(@)]
  BY DEF Serve, window
<1>4. /\ level' \in [{Relay} -> BOOLEAN] /\ UNCHANGED clock
      /\ Result(q) \in Answer
  BY <1>2, <1>3, Executes DEF HilInv, HilTypeOK
<1>5. answers' \in [Desks -> Seq(Answer)]
  <2>1. Append(answers[d], Result(q)) \in Seq(Answer)
    BY <1>1, <1>4, AppendProperties
  <2> QED
    BY <1>1, <1>3, <2>1
<1>6. /\ requests' \in [Desks -> Seq(Request)]
      /\ requests'[d] = Tail(requests[d])
      /\ \A e \in Desks : e # d => requests'[e] = requests[e]
  BY <1>1, <1>2, <1>3
<1>7. /\ wishes' \in [Desks -> Int]
      /\ wishes'[d] = IF q = Query THEN wishes[d] ELSE wishes[d] - 1
      /\ \A e \in Desks : e # d => wishes'[e] = wishes[e]
  BY <1>1, <1>3
<1>8. OnlyUsersCommand'
  <2>1. \A e \in Desks : Counts(e)
    BY CountsMeaning DEF HilInv
  <2>2. Counts(d)'
    <3>1. Cardinality(CommandsOf(Tail(requests[d]))) =
             IF q = Query THEN Cardinality(CommandsOf(requests[d]))
             ELSE Cardinality(CommandsOf(requests[d])) - 1
      BY <1>1, TailCommands
    <3> QED
      BY <1>6, <1>7, <2>1, <3>1 DEF Counts
  <2>3. \A e \in Desks : e # d => Counts(e)'
    BY <1>6, <1>7, <2>1 DEF Counts
  <2> QED
    BY <2>2, <2>3 DEF OnlyUsersCommand, Counts, CommandsOf
<1> QED
  BY <1>3, <1>4, <1>5, <1>6, <1>7, <1>8 DEF HilInv, HilTypeOK, Answer, AtRest

LEMMA ServerKeeps ==
    ASSUME HilInv, Proceed \/ PassTime
    PROVE  HilInv'
<1>1. /\ UNCHANGED <<requests, answers, active, switch, updating, page>>
      /\ UNCHANGED <<wishes, clicks>>
  BY DEF Proceed, PassTime, window
<1>2. level' \in [{Relay} -> BOOLEAN]
  BY DEF HilInv, HilTypeOK, Proceed, PassTime, Server!Proceed, Server!PassTime,
     Server!LevelAfter
<1>3. clock' \in 0..MaxClock
  BY HilAssumption DEF HilInv, HilTypeOK, Proceed, PassTime, Server!Proceed,
     Server!PassTime
<1> QED
  BY <1>1, <1>2, <1>3, CountUnchanged DEF HilInv, HilTypeOK, AtRest

-----------------------------------------------------------------------------
(* HilInv is inductive. *)
THEOREM Inductive == Spec => []HilInv
<1>1. Init => HilInv
  <2> SUFFICES ASSUME Init
               PROVE  OnlyUsersCommand
    BY TypesInit DEF HilInv, AtRest, Init
  <2>1. ASSUME NEW d \in Desks
        PROVE  Counts(d)
    <3>1. requests[d] = <<>> /\ wishes[d] = 0
      BY DEF Init
    <3>2. CommandsOf(<<>>) = {}
      BY DEF CommandsOf
    <3> QED
      BY <3>1, <3>2, FS_EmptySet DEF Counts
  <2> QED
    BY <2>1, CountsMeaning
<1>2. HilInv /\ [Next]_vars => HilInv'
  <2> SUFFICES ASSUME HilInv, [Next]_vars
               PROVE  HilInv'
    OBVIOUS
  <2>1. CASE UNCHANGED vars
    <3>1. /\ UNCHANGED <<level, clock, requests, answers, active, switch>>
          /\ UNCHANGED <<updating, page, wishes, clicks>>
      BY <2>1 DEF vars, server, window
    <3> QED
      BY <3>1, CountUnchanged DEF HilInv, HilTypeOK, AtRest
  <2> QED
    BY <2>1, UserKeeps, PollKeeps, ShowKeeps, ServeKeeps, ServerKeeps DEF Next
<1> QED
  BY <1>1, <1>2, PTL DEF Spec

(* What is sent is what the pages can ask for and what comes back is what  *)
(* processResponse can read, however many messages are under way.          *)
THEOREM HilTypeCorrect == Spec => []HilTypeOK
<1>1. HilInv => HilTypeOK
  BY DEF HilInv
<1> QED
  BY <1>1, Inductive, PTL

(* m_updating does its work for any number of desks, answers and clicks:   *)
(* no update that runs the handler of the switch sends a command, and no   *)
(* click finds the page updating, so the commands under way are those the  *)
(* desk's user gave and that were not carried out, one for one.            *)
THEOREM UsersCommand == Spec => []OnlyUsersCommand
<1>1. HilInv => OnlyUsersCommand
  BY DEF HilInv
<1> QED
  BY <1>1, Inductive, PTL
=============================================================================
