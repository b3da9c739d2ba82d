----------------------- MODULE RelayControllerProofs -----------------------
(***************************************************************************)
(* What RelayController keeps for every number of channels, every set of   *)
(* arguments, every word size and every bound on the clock that fits in    *)
(* Word64: its types, the coherence of a channel's fields, the agreement   *)
(* of line and table, and the promise it makes to its clients.             *)
(***************************************************************************)
EXTENDS RelayController, TLAPS

(***************************************************************************)
(* setRelayInternal writes the table it is given, and the lines it writes  *)
(* stay booleans.                                                          *)
(***************************************************************************)
LEMMA SetRelayInternalType ==
    ASSUME NEW next \in [Relays -> RelayState],
           pin \in [Relays -> BOOLEAN],
           SetRelayInternal(next)
    PROVE  rs' = next /\ pin' \in [Relays -> BOOLEAN]
<1>1. PICK refused \in SUBSET FaultyLines :
        /\ rs' = next
        /\ pin' = [r \in Relays |->
              IF next[r].state # rs[r].state /\ r \notin refused
              THEN next[r].state ELSE pin[r]]
  BY DEF SetRelayInternal
<1>2. \A r \in Relays : next[r].state \in BOOLEAN /\ pin[r] \in BOOLEAN
  BY DEF RelayState
<1> QED
  BY <1>1, <1>2, Zenon

(***************************************************************************)
(* One pass of tick() over a channel yields a channel.                     *)
(***************************************************************************)
LEMMA TickedType ==
    ASSUME NEW c \in RelayState, NEW now \in Nat
    PROVE  Ticked(c, now) \in RelayState
<1>1. HoldEnded(c) \in RelayState
  BY DEF HoldEnded, RelayState, RelayMode
<1>2. Dark(c, now) \in RelayState
  BY DEF Dark, RelayState, RelayMode
<1>3. DarkEnded(c, now) \in RelayState
  <2> DEFINE left == IF c.blinkCount > 0 THEN c.blinkCount - 1 ELSE 0
  <2>1. left \in Nat
    BY DEF RelayState
  <2>2. [c EXCEPT !.blinkCount = left, !.state = TRUE,
                  !.blinkPhase = TRUE, !.startTime = now] \in RelayState
    <3> HIDE DEF left
    <3> QED
      BY <2>1 DEF RelayState
  <2>3. [c EXCEPT !.blinkCount = 0, !.active = FALSE, !.mode = "TOGGLE"]
           \in RelayState
    BY DEF RelayState, RelayMode
  <2> QED
    BY <2>2, <2>3 DEF DarkEnded
<1> QED
  BY <1>1, <1>2, <1>3 DEF Ticked

(* The start of a channel's plan is now or what it was.                    *)
LEMMA TickedStart ==
    ASSUME NEW c \in RelayState, NEW now \in Nat, c.startTime <= now
    PROVE  Ticked(c, now).startTime <= now
  BY DEF Ticked, HoldEnded, Dark, DarkEnded, RelayState

LEMMA TimerMsType ==
    ASSUME NEW s \in Nat
    PROVE  TimerMs(s) \in Nat
<1>1. MsPerSecond \in Nat /\ Word64 \in Nat \ {0}
  BY ArgsAssumption, ClockAssumption
<1>2. s * MsPerSecond \in Nat
  BY <1>1
<1> QED
  BY <1>1, <1>2 DEF TimerMs

(***************************************************************************)
(* A command leaves the clock alone and changes one channel: what has to   *)
(* be known of the new table is what is known of that channel.             *)
(***************************************************************************)
LEMMA CommandType ==
    ASSUME TypeOK,
           NEW r \in Relays, NEW c \in RelayState, c.startTime <= clock,
           Command(r, c)
    PROVE  TypeOK'
<1> DEFINE next == [rs EXCEPT ![r] = c]
<1>1. next \in [Relays -> RelayState]
  BY DEF TypeOK
<1>2. rs' = next /\ pin' \in [Relays -> BOOLEAN]
  <2> SUFFICES SetRelayInternal(next) /\ pin \in [Relays -> BOOLEAN]
    BY <1>1, SetRelayInternalType
  <2> QED
    BY DEF TypeOK, Command
<1>3. \A q \in Relays : next[q].startTime <= clock
  BY DEF TypeOK
<1> QED
  BY <1>1, <1>2, <1>3 DEF TypeOK, Command

(* The channel each command writes is a channel that starts no later than  *)
(* now.                                                                    *)
LEMMA ToggledType ==
    ASSUME TypeOK, NEW r \in Relays, NEW on \in BOOLEAN
    PROVE  /\ Toggled(rs[r], on) \in RelayState
           /\ Toggled(rs[r], on).startTime <= clock
<1>1. rs[r] \in RelayState /\ rs[r].startTime <= clock
  BY DEF TypeOK
<1> QED
  BY <1>1 DEF Toggled, RelayState, RelayMode

LEMMA HeldType ==
    ASSUME TypeOK, NEW r \in Relays, NEW mode \in {"TIMER", "PULSE"}, NEW ms \in Nat
    PROVE  /\ Held(rs[r], mode, ms) \in RelayState
           /\ Held(rs[r], mode, ms).startTime <= clock
<1>1. rs[r] \in RelayState /\ clock \in Nat
  BY ClockAssumption DEF TypeOK
<1>2. Held(rs[r], mode, ms) \in RelayState
  BY <1>1 DEF Held, RelayState, RelayMode
<1>3. Held(rs[r], mode, ms).startTime = clock
  BY <1>1 DEF Held, RelayState
<1> QED
  BY <1>1, <1>2, <1>3

LEMMA BlinkedType ==
    ASSUME TypeOK, NEW r \in Relays,
           NEW onMs \in Nat, NEW offMs \in Nat, NEW n \in Nat
    PROVE  /\ Blinked(rs[r], onMs, offMs, n) \in RelayState
           /\ Blinked(rs[r], onMs, offMs, n).startTime <= clock
<1>1. rs[r] \in RelayState /\ clock \in Nat
  BY ClockAssumption DEF TypeOK
<1>2. Blinked(rs[r], onMs, offMs, n) \in RelayState
  BY <1>1 DEF Blinked, RelayState, RelayMode
<1>3. Blinked(rs[r], onMs, offMs, n).startTime = clock
  BY <1>1 DEF Blinked, RelayState
<1> QED
  BY <1>1, <1>2, <1>3

LEMMA ArgsNat ==
    Seconds \subseteq Nat /\ Millis \subseteq Nat /\ Counts \subseteq Nat
BY ArgsAssumption

-----------------------------------------------------------------------------
(* The first table and every step keep the types: no command and no pass   *)
(* of tick() writes a field out of its range, starts a channel in the      *)
(* future or moves the tick past the clock.                                *)
LEMMA TypesInit == Init => TypeOK
<1> SUFFICES ASSUME Init PROVE TypeOK
  OBVIOUS
<1>1. FreshRelay \in RelayState /\ FreshRelay.startTime = 0
  BY DEF FreshRelay, RelayState, RelayMode
<1> QED
  BY <1>1, ClockAssumption DEF Init, TypeOK

LEMMA TypesKept == TypeOK /\ [Next]_vars => TypeOK'
<1> SUFFICES ASSUME TypeOK, [Next]_vars PROVE TypeOK'
  OBVIOUS
<1>1. ASSUME NEW r \in Relays, NEW on \in BOOLEAN, SetRelay(r, on)
      PROVE  TypeOK'
  BY <1>1, ToggledType, CommandType DEF SetRelay
<1>2. ASSUME NEW r \in Relays, NEW s \in Seconds, StartTimer(r, s)
      PROVE  TypeOK'
  BY <1>2, ArgsNat, TimerMsType, HeldType, CommandType DEF StartTimer
<1>3. ASSUME NEW r \in Relays, NEW d \in Millis, StartPulse(r, d)
      PROVE  TypeOK'
  BY <1>3, ArgsNat, HeldType, CommandType DEF StartPulse
<1>4. ASSUME NEW r \in Relays, NEW on \in Millis, NEW off \in Millis,
             NEW n \in Counts, StartBlink(r, on, off, n)
      PROVE  TypeOK'
  BY <1>4, ArgsNat, BlinkedType, CommandType DEF StartBlink
<1>5. CASE Tick
  <2> DEFINE next == [r \in Relays |-> Ticked(rs[r], clock)]
  <2>1. clock \in Nat
    BY ClockAssumption DEF TypeOK
  <2>2. next \in [Relays -> RelayState]
    BY <2>1, TickedType DEF TypeOK
  <2>3. \A r \in Relays : next[r].startTime <= clock
    BY <2>1, TickedStart DEF TypeOK
  <2>4. rs' = next /\ pin' \in [Relays -> BOOLEAN]
    <3> SUFFICES SetRelayInternal(next) /\ pin \in [Relays -> BOOLEAN]
      BY <2>2, SetRelayInternalType
    <3> QED
      BY <1>5 DEF TypeOK, Tick
  <2> QED
    BY <1>5, <2>1, <2>2, <2>3, <2>4 DEF TypeOK, Tick
<1>6. CASE Elapse
  <2>1. \A r \in Relays : rs[r].startTime \in Nat
    BY DEF TypeOK, RelayState
  <2> QED
    BY <1>6, <2>1, ClockAssumption DEF Elapse, TypeOK
<1>7. CASE UNCHANGED vars
  BY <1>7 DEF vars, TypeOK
<1> QED
  BY <1>1, <1>2, <1>3, <1>4, <1>5, <1>6, <1>7 DEF Next, AnyCommand

(* The table keeps its types. *)
THEOREM TypeInvariant == Spec => []TypeOK
  BY TypesInit, TypesKept, PTL DEF Spec

-----------------------------------------------------------------------------
(* A pass of tick() leaves a coherent channel coherent.                    *)
LEMMA TickedCoherent ==
    ASSUME NEW c \in RelayState, NEW now \in Nat, Coherent(c)
    PROVE  Coherent(Ticked(c, now))
<1>1. c.active /\ HoldOver(c, now) => Coherent(HoldEnded(c))
  BY DEF Coherent, HoldEnded, RelayState
<1>2. c.active /\ OnPhaseOver(c, now) => Coherent(Dark(c, now))
  BY DEF Coherent, OnPhaseOver, Dark, RelayState
<1>3. c.active /\ OffPhaseOver(c, now) => Coherent(DarkEnded(c, now))
  BY DEF Coherent, OffPhaseOver, DarkEnded, RelayState
<1> QED
  BY <1>1, <1>2, <1>3 DEF Ticked

LEMMA CommandCoherent ==
    ASSUME TypeOK, ChannelCoherent,
           NEW r \in Relays, NEW c \in RelayState, Coherent(c), Command(r, c)
    PROVE  ChannelCoherent'
<1>1. rs' = [rs EXCEPT ![r] = c] /\ rs \in [Relays -> RelayState]
  BY DEF Command, SetRelayInternal, TypeOK
<1> QED
  BY <1>1 DEF ChannelCoherent, Coherent

(* A fresh table is coherent. *)
LEMMA CoherentInit == Init => ChannelCoherent
<1>1. Coherent(FreshRelay)
  BY DEF Coherent, FreshRelay
<1> QED
  BY <1>1 DEF Init, ChannelCoherent

(* Commands and ticks leave the table coherent. *)
LEMMA CoherentKept ==
    ASSUME TypeOK, ChannelCoherent, [Next]_vars
    PROVE  ChannelCoherent'
<1>0. \A r \in Relays : rs[r] \in RelayState
  BY DEF TypeOK
<1>1. ASSUME NEW r \in Relays, NEW on \in BOOLEAN, SetRelay(r, on)
      PROVE  ChannelCoherent'
  <2>1. Coherent(Toggled(rs[r], on))
    BY <1>0 DEF Coherent, Toggled, RelayState
  <2> QED
    BY <1>1, <2>1, ToggledType, CommandCoherent DEF SetRelay
<1>2. ASSUME NEW r \in Relays, NEW s \in Seconds, StartTimer(r, s)
      PROVE  ChannelCoherent'
  <2>1. Coherent(Held(rs[r], "TIMER", TimerMs(s)))
    BY <1>0 DEF Coherent, Held, RelayState
  <2> QED
    BY <1>2, <2>1, ArgsNat, TimerMsType, HeldType, CommandCoherent DEF StartTimer
<1>3. ASSUME NEW r \in Relays, NEW d \in Millis, StartPulse(r, d)
      PROVE  ChannelCoherent'
  <2>1. Coherent(Held(rs[r], "PULSE", d))
    BY <1>0 DEF Coherent, Held, RelayState
  <2> QED
    BY <1>3, <2>1, ArgsNat, HeldType, CommandCoherent DEF StartPulse
<1>4. ASSUME NEW r \in Relays, NEW on \in Millis, NEW off \in Millis,
             NEW n \in Counts, StartBlink(r, on, off, n)
      PROVE  ChannelCoherent'
  <2>1. Coherent(Blinked(rs[r], on, off, n))
    BY <1>0 DEF Coherent, Blinked, RelayState
  <2> QED
    BY <1>4, <2>1, ArgsNat, BlinkedType, CommandCoherent DEF StartBlink
<1>5. CASE Tick
  <2>1. rs' = [r \in Relays |-> Ticked(rs[r], clock)] /\ clock \in Nat
    BY <1>5, ClockAssumption DEF Tick, SetRelayInternal, TypeOK
  <2>2. \A r \in Relays : Coherent(Ticked(rs[r], clock))
    BY <1>0, <2>1, TickedCoherent DEF ChannelCoherent
  <2> QED
    BY <2>1, <2>2 DEF ChannelCoherent
<1>6. CASE Elapse \/ UNCHANGED vars
  BY <1>6 DEF Elapse, vars, ChannelCoherent
<1> QED
  BY <1>1, <1>2, <1>3, <1>4, <1>5, <1>6 DEF Next, AnyCommand

(***************************************************************************)
(* Whatever commands follow one another on a channel and however ticks     *)
(* fall between them, its fields stay coherent: active means not in        *)
(* TOGGLE, a running timer or pulse is ON, a blinking relay shows its      *)
(* phase.                                                                  *)
(***************************************************************************)
THEOREM AlwaysCoherent == Spec => []ChannelCoherent
  BY CoherentInit, CoherentKept, TypeInvariant, PTL DEF Spec

-----------------------------------------------------------------------------
(* Writing a table keeps every line that does not fail on its channel's    *)
(* state: unchanged channels were right before, changed ones are written.  *)
LEMMA SetRelayInternalFollows ==
    ASSUME NEW next, PinFollowsState, SetRelayInternal(next)
    PROVE  PinFollowsState'
<1>1. PICK refused \in SUBSET FaultyLines :
        /\ rs' = next
        /\ pin' = [r \in Relays |->
              IF next[r].state # rs[r].state /\ r \notin refused
              THEN next[r].state ELSE pin[r]]
  BY DEF SetRelayInternal
<1>2. ASSUME NEW r \in Relays \ FaultyLines
      PROVE  pin'[r] = next[r].state
  BY <1>1, <1>2 DEF PinFollowsState
<1> QED
  BY <1>1, <1>2 DEF PinFollowsState

(* The lines come up OFF. *)
LEMMA FollowsInit == Init => PinFollowsState
<1>1. FreshRelay.state = FALSE
  BY DEF FreshRelay
<1> QED
  BY <1>1 DEF Init, PinFollowsState

(* Whatever is written, the lines go on following the table. *)
LEMMA FollowsKept ==
    ASSUME PinFollowsState, [Next]_vars
    PROVE  PinFollowsState'
<1>1. CASE \E next : SetRelayInternal(next)
  BY <1>1, SetRelayInternalFollows
<1>2. CASE UNCHANGED <<rs, pin>>
  BY <1>2 DEF PinFollowsState
<1>3. ASSUME NEW r \in Relays, NEW c, Command(r, c)
      PROVE  PinFollowsState'
  BY <1>3, <1>1 DEF Command
<1>4. CASE Tick
  BY <1>4, <1>1 DEF Tick
<1>5. CASE Elapse \/ UNCHANGED vars
  BY <1>5, <1>2 DEF Elapse, vars
<1> QED
  BY <1>3, <1>4, <1>5 DEF Next, AnyCommand, SetRelay, StartTimer, StartPulse, StartBlink

(***************************************************************************)
(* The cache in front of setRelayPhysical is safe for every line whose     *)
(* writes do not fail, and so for every line of SilRelayController.        *)
(***************************************************************************)
THEOREM PinsFollowTable == Spec => []PinFollowsState
  BY FollowsInit, FollowsKept, PTL DEF Spec

-----------------------------------------------------------------------------
(* A channel that still runs after a tick, and was not started by it, has  *)
(* time left or has outlived its 32 bits: none of the three "over"         *)
(* conditions held of it, and the cast to 64 bits changes nothing, nor     *)
(* does that to 32 bits while the elapsed time fits.                       *)
LEMMA TickedNotOverdue ==
    ASSUME NEW c \in RelayState, NEW now \in 0 .. MaxClock,
           c.startTime <= now, Coherent(c),
           Ticked(c, now).active, Ticked(c, now).startTime < now
    PROVE  now < Deadline(Ticked(c, now)) \/ Outlived(Ticked(c, now), now)
<1>0. /\ now \in Nat /\ c.startTime \in Nat
      /\ c.durationMs \in Nat /\ c.blinkOnMs \in Nat /\ c.blinkOffMs \in Nat
  BY ClockAssumption DEF RelayState
<1>1. /\ Elapsed64(c, now) = now - c.startTime
      /\ now - c.startTime < Word32 => Elapsed32(c, now) = now - c.startTime
  <2>1. ASSUME NEW x \in Nat, NEW w \in Nat, x < w PROVE x % w = x
    BY <2>1
  <2>2. /\ now - c.startTime \in Nat
        /\ now - c.startTime < Word64
        /\ Word64 \in Nat /\ Word32 \in Nat
    BY <1>0, ClockAssumption, ArgsAssumption
  <2> QED
    BY <2>1, <2>2 DEF Elapsed64, Elapsed32
<1>2. c.active
  BY DEF Ticked
<1>3. ~HoldOver(c, now)
  BY <1>2 DEF Ticked, HoldEnded, RelayState
<1>4. ~OnPhaseOver(c, now)
  <2>1. Dark(c, now).startTime = now
    BY DEF Dark, RelayState
  <2> QED
    BY <1>0, <1>2, <1>3, <2>1 DEF Ticked
<1>5. ~OffPhaseOver(c, now)
  <2>1. ~DarkEnded(c, now).active \/ DarkEnded(c, now).startTime = now
    BY DEF DarkEnded, RelayState
  <2> QED
    BY <1>0, <1>2, <1>3, <1>4, <2>1 DEF Ticked
<1>6. Ticked(c, now) = c
  BY <1>3, <1>4, <1>5 DEF Ticked
<1>7. CASE c.mode \in {"TIMER", "PULSE"}
  BY <1>0, <1>1, <1>3, <1>6, <1>7 DEF HoldOver, Deadline, Limit
<1>8. CASE c.mode = "BLINK"
  <2>1. Word32 \in Nat /\ c.blinkPhase \in BOOLEAN
    BY ArgsAssumption DEF RelayState
  <2>2. CASE now - c.startTime < Word32
    BY <1>0, <1>1, <1>4, <1>5, <1>6, <1>8, <2>1, <2>2
    DEF OnPhaseOver, OffPhaseOver, Deadline, Limit
  <2>3. CASE now - c.startTime >= Word32
    BY <1>6, <1>8, <2>3 DEF Outlived
  <2> QED
    BY <1>0, <2>1, <2>2, <2>3
<1> QED
  BY <1>2, <1>7, <1>8 DEF Coherent, RelayState, RelayMode

(* A fresh table has no plans. *)
LEMMA OverdueInit == Init => NothingOverdue
  BY DEF Init, NothingOverdue, FreshRelay

(* No step passes over a plan that is due. *)
LEMMA OverdueKept ==
    ASSUME TypeOK, ChannelCoherent, NothingOverdue, [Next]_vars
    PROVE  NothingOverdue'
<1>0. /\ rs \in [Relays -> RelayState] /\ clock \in 0 .. MaxClock
      /\ lastTick \in Nat /\ lastTick <= clock
      /\ \A r \in Relays : rs[r].startTime <= clock
  BY DEF TypeOK
<1>1. ASSUME NEW r \in Relays, NEW c, Command(r, c),
             c.active => c.startTime = clock
      PROVE  NothingOverdue'
  <2>1. rs' = [rs EXCEPT ![r] = c] /\ lastTick' = lastTick
    BY <1>1 DEF Command, SetRelayInternal
  <2>2. ASSUME NEW q \in Relays, rs'[q].active, rs'[q].startTime < lastTick'
        PROVE  lastTick' < Deadline(rs'[q]) \/ Outlived(rs'[q], lastTick')
    <3>1. CASE q = r
      <4>1. rs'[q] = c
        BY <1>0, <2>1, <3>1
      <4> QED
        BY <1>0, <1>1, <2>1, <2>2, <4>1, ClockAssumption
    <3>2. CASE q # r
      BY <1>0, <2>1, <2>2, <3>2 DEF NothingOverdue
    <3> QED
      BY <3>1, <3>2
  <2> QED
    BY <2>2 DEF NothingOverdue, Deadline, Limit, Outlived
<1>2. CASE AnyCommand
  <2>1. ASSUME NEW r \in Relays, NEW on \in BOOLEAN, SetRelay(r, on)
        PROVE  NothingOverdue'
    <3>1. ~Toggled(rs[r], on).active
      BY <1>0 DEF Toggled, RelayState
    <3> QED
      BY <1>1, <2>1, <3>1 DEF SetRelay
  <2>2. ASSUME NEW r \in Relays, NEW s \in Seconds, StartTimer(r, s)
        PROVE  NothingOverdue'
    <3>1. Held(rs[r], "TIMER", TimerMs(s)).startTime = clock
      BY <1>0 DEF Held, RelayState
    <3> QED
      BY <1>1, <2>2, <3>1 DEF StartTimer
  <2>3. ASSUME NEW r \in Relays, NEW d \in Millis, StartPulse(r, d)
        PROVE  NothingOverdue'
    <3>1. Held(rs[r], "PULSE", d).startTime = clock
      BY <1>0 DEF Held, RelayState
    <3> QED
      BY <1>1, <2>3, <3>1 DEF StartPulse
  <2>4. ASSUME NEW r \in Relays, NEW on \in Millis, NEW off \in Millis,
               NEW n \in Counts, StartBlink(r, on, off, n)
        PROVE  NothingOverdue'
    <3>1. Blinked(rs[r], on, off, n).startTime = clock
      BY <1>0 DEF Blinked, RelayState
    <3> QED
      BY <1>1, <2>4, <3>1 DEF StartBlink
  <2> QED
    BY <1>2, <2>1, <2>2, <2>3, <2>4 DEF AnyCommand
<1>3. CASE Tick
  <2>1. /\ rs' = [r \in Relays |-> Ticked(rs[r], clock)]
        /\ lastTick' = clock
    BY <1>3 DEF Tick, SetRelayInternal
  <2>2. ASSUME NEW r \in Relays, Ticked(rs[r], clock).active,
               Ticked(rs[r], clock).startTime < clock
        PROVE  \/ clock < Deadline(Ticked(rs[r], clock))
               \/ Outlived(Ticked(rs[r], clock), clock)
    BY <1>0, <2>2, TickedNotOverdue DEF ChannelCoherent
  <2> QED
    BY <2>1, <2>2 DEF NothingOverdue, Deadline, Limit, Outlived
<1>4. CASE Elapse \/ UNCHANGED vars
  BY <1>4 DEF Elapse, vars, NothingOverdue, Deadline, Limit, Outlived
<1> QED
  BY <1>2, <1>3, <1>4 DEF Next

(***************************************************************************)
(* tick() passes over nothing that is due, except a blink phase that has   *)
(* lasted 2^32 ms.  A command starts its channel now, which the last tick  *)
(* cannot have missed; a tick leaves what TickedNotOverdue says.           *)
(***************************************************************************)
THEOREM NoPlanOverdue == Spec => []NothingOverdue
<1>1. TypeOK /\ ChannelCoherent /\ NothingOverdue /\ [Next]_vars => NothingOverdue'
  BY OverdueKept
<1> QED
  BY <1>1, OverdueInit, TypeInvariant, AlwaysCoherent, PTL DEF Spec

-----------------------------------------------------------------------------
(***************************************************************************)
(* The refinement.  The 64-bit subtraction of tick() is exact because no   *)
(* channel starts in the future and the clock fits the word; the 32-bit    *)
(* one may come out smaller than the time that has passed, never larger.   *)
(***************************************************************************)
LEMMA ElapsedExact ==
    ASSUME TypeOK, NEW r \in Relays
    PROVE  Elapsed64(rs[r], clock) = clock - rs[r].startTime
<1>1. /\ rs[r].startTime \in Nat /\ rs[r].startTime <= clock
      /\ clock \in Nat /\ clock < Word64 /\ Word64 \in Nat
  BY ClockAssumption, ArgsAssumption DEF TypeOK, RelayState
<1>2. ASSUME NEW x \in Nat, NEW w \in Nat, x < w PROVE x % w = x
  BY <1>2
<1>3. clock - rs[r].startTime \in Nat /\ clock - rs[r].startTime < Word64
  BY <1>1
<1> QED
  BY <1>1, <1>2, <1>3 DEF Elapsed64

LEMMA ElapsedAtMost ==
    ASSUME TypeOK, NEW r \in Relays
    PROVE  Elapsed32(rs[r], clock) <= clock - rs[r].startTime
<1>1. /\ rs[r].startTime \in Nat /\ rs[r].startTime <= clock
      /\ clock \in Nat /\ Word32 \in Nat \ {0}
  BY ClockAssumption, ArgsAssumption DEF TypeOK, RelayState
<1>2. ASSUME NEW x \in Nat, NEW w \in Nat \ {0} PROVE x % w <= x
  <2>1. CASE x < w
    BY <2>1
  <2>2. CASE x >= w
    BY <2>2
  <2> QED
    BY <2>1, <2>2
<1>3. clock - rs[r].startTime \in Nat
  BY <1>1
<1> QED
  BY <1>1, <1>2, <1>3 DEF Elapsed32

(* A command of the table is the command of the promise with the level and *)
(* the plan the written channel stands for.                                *)
LEMMA CommandRefines ==
    ASSUME TypeOK,
           NEW r \in Relays, NEW c \in RelayState, Command(r, c)
    PROVE  Promise!Command(r, c.state, Plan(c))
<1>1. rs' = [rs EXCEPT ![r] = c] /\ clock' = clock
  BY DEF Command, SetRelayInternal
<1>2. rs \in [Relays -> RelayState]
  BY DEF TypeOK
<1>3. [q \in Relays |-> rs'[q].state]
        = [[q \in Relays |-> rs[q].state] EXCEPT ![r] = c.state]
  BY <1>1, <1>2
<1>4. [q \in Relays |-> Plan(rs'[q])]
        = [[q \in Relays |-> Plan(rs[q])] EXCEPT ![r] = Plan(c)]
  BY <1>1, <1>2
<1> QED
  BY <1>1, <1>3, <1>4 DEF Promise!Command

(* The channels a pass of tick() has something to do for. *)
Over(c, now) ==
    c.active /\ (HoldOver(c, now) \/ OnPhaseOver(c, now) \/ OffPhaseOver(c, now))

(* tick() carries out exactly the planned steps of the channels that are   *)
(* over, and all of those are due.                                         *)
LEMMA TickRefines ==
    ASSUME TypeOK, ChannelCoherent, Tick
    PROVE  \E S \in SUBSET Relays : Promise!Proceed(S)
<1> DEFINE S == {r \in Relays : Over(rs[r], clock)}
<1>1. rs' = [r \in Relays |-> Ticked(rs[r], clock)] /\ clock' = clock
  BY DEF Tick, SetRelayInternal
<1>2. \A r \in Relays : rs[r] \in RelayState /\ Coherent(rs[r])
  BY DEF TypeOK, ChannelCoherent
<1>3. ASSUME NEW r \in S PROVE Promise!Due(r)
  <2>1. CASE HoldOver(rs[r], clock)
    <3>1. /\ clock - rs[r].startTime >= rs[r].durationMs
          /\ rs[r].mode \in {"TIMER", "PULSE"}
      BY <2>1, ElapsedExact DEF HoldOver
    <3>2. rs[r].startTime \in Nat /\ rs[r].durationMs \in Nat /\ clock \in Nat
      BY <1>2, ClockAssumption DEF RelayState, TypeOK
    <3>3. clock >= rs[r].startTime + rs[r].durationMs
      BY <3>1, <3>2
    <3> QED
      BY <3>1, <3>3 DEF Promise!Due, Plan, Over, Deadline, Limit
  <2>2. CASE OnPhaseOver(rs[r], clock) \/ OffPhaseOver(rs[r], clock)
    <3>1. /\ Elapsed32(rs[r], clock) >= Limit(rs[r])
          /\ rs[r].mode = "BLINK"
      BY <2>2 DEF OnPhaseOver, OffPhaseOver, Limit
    <3>2. /\ rs[r].startTime \in Nat /\ Limit(rs[r]) \in Nat /\ clock \in Nat
          /\ Elapsed32(rs[r], clock) \in Int
      <4>1. Elapsed32(rs[r], clock) \in Int
        <5>1. rs[r].startTime \in Int /\ clock \in Int /\ Word32 \in Nat \ {0}
          BY <1>2, ClockAssumption, ArgsAssumption DEF RelayState, TypeOK
        <5> QED
          BY <5>1 DEF Elapsed32
      <4> QED
        BY <1>2, <4>1, ClockAssumption DEF RelayState, TypeOK, Limit
    <3>3. clock >= Deadline(rs[r])
      <4>1. Elapsed32(rs[r], clock) <= clock - rs[r].startTime
        BY ElapsedAtMost
      <4> QED
        BY <3>1, <3>2, <4>1 DEF Deadline
    <3> QED
      BY <3>1, <3>3 DEF Promise!Due, Plan, Over
  <2> QED
    BY <2>1, <2>2 DEF Over
<1>4. ASSUME NEW r \in Relays \ S
      PROVE  rs'[r] = rs[r]
  BY <1>1, <1>4 DEF Ticked, Over
<1>5. ASSUME NEW r \in S
      PROVE  /\ rs'[r].state = Promise!LevelAfter(r)
             /\ Plan(rs'[r]) = Promise!PlanAfter(r)
  <2> DEFINE c == rs[r]
  <2>1. /\ r \in Relays /\ c \in RelayState /\ Coherent(c) /\ c.active
        /\ rs'[r] = Ticked(c, clock)
        /\ HoldOver(c, clock) \/ OnPhaseOver(c, clock) \/ OffPhaseOver(c, clock)
    BY <1>1, <1>2, <1>5 DEF Over
  <2> HIDE DEF c
  <2>2. /\ Promise!LevelAfter(r) =
             (Plan(c).kind = "blink" /\ ~c.state /\ Plan(c).cycles # 1)
        /\ Promise!PlanAfter(r) =
             IF Plan(c).kind = "hold"
                \/ (Plan(c).kind = "blink" /\ ~c.state /\ Plan(c).cycles = 1)
             THEN Promise!Manual
             ELSE IF c.state
             THEN Promise!Blinking(clock + Plan(c).off, Plan(c).cycles,
                                   Plan(c).on, Plan(c).off)
             ELSE Promise!Blinking(clock + Plan(c).on,
                     IF Plan(c).cycles = -1 THEN -1 ELSE Plan(c).cycles - 1,
                     Plan(c).on, Plan(c).off)
    BY <2>1 DEF c, Promise!LevelAfter, Promise!PlanAfter,
                Promise!LastCycleOver, Promise!Endless
  <2>3. CASE HoldOver(c, clock)
    <3>1. rs'[r] = HoldEnded(c)
      BY <2>1, <2>3 DEF Ticked
    <3>2. Plan(c).kind = "hold"
      BY <2>1, <2>3 DEF Plan, HoldOver
    <3>3. HoldEnded(c).state = FALSE /\ HoldEnded(c).active = FALSE
      BY <2>1 DEF HoldEnded, RelayState
    <3>4. Plan(HoldEnded(c)) = Promise!Manual
      BY <3>3 DEF Plan, Promise!Manual
    <3> QED
      BY <2>2, <3>1, <3>2, <3>3, <3>4
  <2>4. CASE OnPhaseOver(c, clock)
    <3>1. rs'[r] = Dark(c, clock) /\ c.mode = "BLINK" /\ c.state
      BY <2>1, <2>4 DEF Ticked, HoldOver, OnPhaseOver, Coherent
    <3>2. /\ Dark(c, clock).state = FALSE
          /\ Dark(c, clock).active = c.active
          /\ Dark(c, clock).mode = c.mode
          /\ Dark(c, clock).blinkCount = c.blinkCount
          /\ Dark(c, clock).blinkPhase = FALSE
          /\ Dark(c, clock).startTime = clock
          /\ Dark(c, clock).blinkOnMs = c.blinkOnMs
          /\ Dark(c, clock).blinkOffMs = c.blinkOffMs
      BY <2>1 DEF Dark, RelayState
    <3>3. /\ Plan(c).kind = "blink"
          /\ Plan(Dark(c, clock)) = Promise!Blinking(clock + Plan(c).off,
                 Plan(c).cycles, Plan(c).on, Plan(c).off)
      BY <2>1, <3>1, <3>2 DEF Plan, Promise!Blinking, Deadline, Limit
    <3> QED
      BY <2>2, <3>1, <3>2, <3>3
  <2>5. CASE OffPhaseOver(c, clock)
    <3>1. rs'[r] = DarkEnded(c, clock) /\ c.mode = "BLINK" /\ ~c.state
      BY <2>1, <2>5 DEF Ticked, HoldOver, OnPhaseOver, OffPhaseOver, Coherent
    <3>2. /\ Plan(c).kind = "blink" /\ c.blinkCount \in Nat
          /\ Plan(c).cycles = IF c.blinkCount = 0 THEN -1 ELSE c.blinkCount
          /\ Plan(c).on = c.blinkOnMs /\ Plan(c).off = c.blinkOffMs
      BY <2>1, <3>1 DEF Plan, RelayState
    <3>3. CASE c.blinkCount = 1
      <4>1. DarkEnded(c, clock).state = FALSE /\ DarkEnded(c, clock).active = FALSE
        BY <2>1, <3>1, <3>3 DEF DarkEnded, RelayState
      <4>2. Plan(DarkEnded(c, clock)) = Promise!Manual
        BY <4>1 DEF Plan, Promise!Manual
      <4>3. Plan(c).cycles = 1
        BY <3>2, <3>3
      <4> QED
        BY <2>2, <3>1, <3>2, <4>1, <4>2, <4>3
    <3>4. CASE c.blinkCount # 1
      <4> DEFINE left == IF c.blinkCount > 0 THEN c.blinkCount - 1 ELSE 0
      <4>1. /\ DarkEnded(c, clock).state = TRUE
            /\ DarkEnded(c, clock).active
            /\ DarkEnded(c, clock).mode = "BLINK"
            /\ DarkEnded(c, clock).blinkCount = left
            /\ DarkEnded(c, clock).blinkPhase = TRUE
            /\ DarkEnded(c, clock).startTime = clock
            /\ DarkEnded(c, clock).blinkOnMs = c.blinkOnMs
            /\ DarkEnded(c, clock).blinkOffMs = c.blinkOffMs
        BY <2>1, <3>1, <3>4 DEF DarkEnded, RelayState
      <4>2. Plan(DarkEnded(c, clock)) =
              Promise!Blinking(clock + Plan(c).on, IF left = 0 THEN -1 ELSE left,
                               Plan(c).on, Plan(c).off)
        BY <3>2, <4>1 DEF Plan, Promise!Blinking, Deadline, Limit
      <4>4. CASE c.blinkCount = 0
        <5>1. left = 0 /\ Plan(c).cycles = -1 /\ Plan(c).cycles # 1
          BY <3>2, <4>4
        <5> QED
          BY <2>2, <3>1, <3>2, <4>1, <4>2, <5>1
      <4>5. CASE c.blinkCount > 1
        <5>1. left = c.blinkCount - 1 /\ left # 0 /\ Plan(c).cycles = c.blinkCount
          BY <3>2, <4>5
        <5>2. Plan(c).cycles # -1 /\ Plan(c).cycles # 1
          BY <3>2, <4>5
        <5> QED
          BY <2>2, <3>1, <3>2, <4>1, <4>2, <5>1, <5>2
      <4> HIDE DEF left
      <4> QED
        BY <3>2, <3>4, <4>4, <4>5
    <3> QED
      BY <3>3, <3>4
  <2> QED
    BY <2>1, <2>3, <2>4, <2>5
<1>6. [r \in Relays |-> rs'[r].state] =
        [r \in Relays |-> IF r \in S THEN Promise!LevelAfter(r)
                          ELSE [q \in Relays |-> rs[q].state][r]]
  BY <1>4, <1>5
<1>7. [r \in Relays |-> Plan(rs'[r])] =
        [r \in Relays |-> IF r \in S THEN Promise!PlanAfter(r)
                          ELSE [q \in Relays |-> Plan(rs[q])][r]]
  BY <1>4, <1>5
<1> QED
  <2>1. S \in SUBSET {r \in Relays : Promise!Due(r)} /\ S \in SUBSET Relays
    BY <1>3
  <2> HIDE DEF S
  <2> QED
    BY <1>1, <1>6, <1>7, <2>1 DEF Promise!Proceed

(* A fresh table has promised nothing. *)
LEMMA PromiseInit == Init => Promise!Init
<1> SUFFICES ASSUME Init PROVE Promise!Init
  OBVIOUS
<1>1. FreshRelay.state = FALSE /\ Plan(FreshRelay) = Promise!Manual
  BY DEF FreshRelay, Plan, Promise!Manual
<1> QED
  BY <1>1 DEF Init, Promise!Init

(* Each step of the table is a step of the promise, or none. *)
LEMMA PromiseSteps ==
    ASSUME TypeOK, ChannelCoherent, [Next]_vars
    PROVE  Promise!Next \/ UNCHANGED Promise!vars
<1>0. \A r \in Relays : rs[r] \in RelayState
  BY DEF TypeOK
<1>1. ASSUME NEW r \in Relays, NEW on \in BOOLEAN, SetRelay(r, on)
      PROVE  Promise!Next
  <2>1. Toggled(rs[r], on).state = on /\ Plan(Toggled(rs[r], on)) = Promise!Manual
    BY <1>0 DEF Toggled, RelayState, Plan, Promise!Manual
  <2>2. Promise!Command(r, on, Promise!Manual)
    BY <1>1, <2>1, ToggledType, CommandRefines DEF SetRelay
  <2> QED
    BY <2>2 DEF Promise!Next, Promise!SetLevel
<1>2. ASSUME NEW r \in Relays, NEW mode \in {"TIMER", "PULSE"}, NEW d \in Nat,
             d \in {TimerMs(s) : s \in Seconds} \union Millis,
             Command(r, Held(rs[r], mode, d))
      PROVE  Promise!Next
  <2> DEFINE c == Held(rs[r], mode, d)
  <2>1. /\ c.state = TRUE /\ c.active /\ c.mode = mode
        /\ c.startTime = clock /\ c.durationMs = d
    BY <1>0 DEF Held, RelayState
  <2>2. c \in RelayState
    BY HeldType
  <2>3. Promise!Command(r, c.state, Plan(c))
    BY <1>2, <2>2, CommandRefines DEF Promise!Command
  <2> HIDE DEF c
  <2>4. Promise!Command(r, TRUE, Promise!Hold(clock + d))
    <3>1. Plan(c) = Promise!Hold(clock + d)
      BY <2>1 DEF Plan, Promise!Hold, Deadline, Limit
    <3> QED
      BY <2>1, <2>3, <3>1 DEF Promise!Command
  <2> QED
    BY <1>2, <2>4 DEF Promise!Next, Promise!HoldOn
<1>3. ASSUME NEW r \in Relays, NEW s \in Seconds, StartTimer(r, s)
      PROVE  Promise!Next
  BY <1>2, <1>3, ArgsNat, TimerMsType DEF StartTimer
<1>4. ASSUME NEW r \in Relays, NEW d \in Millis, StartPulse(r, d)
      PROVE  Promise!Next
  BY <1>2, <1>4, ArgsNat DEF StartPulse
<1>5. ASSUME NEW r \in Relays, NEW on \in Millis, NEW off \in Millis,
             NEW n \in Counts, StartBlink(r, on, off, n)
      PROVE  Promise!Next
  <2> DEFINE c == Blinked(rs[r], on, off, n)
  <2>1. /\ c.state = TRUE /\ c.active /\ c.mode = "BLINK" /\ c.blinkCount = n
        /\ c.blinkPhase = TRUE /\ c.startTime = clock
        /\ c.blinkOnMs = on /\ c.blinkOffMs = off
    BY <1>0 DEF Blinked, RelayState
  <2>2. c \in RelayState
    BY ArgsNat, BlinkedType
  <2>3. Command(r, c)
    BY <1>5 DEF StartBlink
  <2> HIDE DEF c
  <2>4. Plan(c) = Promise!Blinking(clock + on, Promise!Cycles(n), on, off)
    BY <2>1 DEF Plan, Promise!Blinking, Promise!Cycles, Promise!Endless,
                Deadline, Limit
  <2>5. Promise!Command(r, TRUE,
            Promise!Blinking(clock + on, Promise!Cycles(n), on, off))
    <3>1. Promise!Command(r, c.state, Plan(c))
      BY <2>2, <2>3, CommandRefines DEF Promise!Command
    <3> QED
      BY <2>1, <2>4, <3>1 DEF Promise!Command
  <2> QED
    BY <1>5, <2>5 DEF Promise!Next, Promise!StartBlink
<1>6. CASE Tick
  BY <1>6, TickRefines DEF Promise!Next
<1>7. CASE Elapse
  BY <1>7 DEF Elapse, Promise!Next, Promise!PassTime
<1>8. CASE UNCHANGED vars
  BY <1>8 DEF vars, Promise!vars
<1>9. CASE Next
  BY <1>1, <1>3, <1>4, <1>5, <1>6, <1>7, <1>9 DEF Next, AnyCommand
<1> QED
  BY <1>8, <1>9

(***************************************************************************)
(* The relay table implements RelayPromise: for every channel, argument    *)
(* and interleaving of commands, ticks and time, the latest command wins,  *)
(* no timer, pulse or phase of a blink is cut short, and a counted blink   *)
(* has the number of ON phases it was asked for and ends dark.             *)
(***************************************************************************)
THEOREM Implements == Spec => KeepsPromise
<1>1. TypeOK /\ ChannelCoherent /\ [Next]_vars => [Promise!Next]_(Promise!vars)
  BY PromiseSteps
<1> QED
  BY <1>1, PromiseInit, TypeInvariant, AlwaysCoherent, PTL
  DEF Spec, KeepsPromise, Promise!Spec

=============================================================================
