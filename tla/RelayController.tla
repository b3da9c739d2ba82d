-------------------------- MODULE RelayController --------------------------
(***************************************************************************)
(* BaseRelayController of the minihild daemon: the relay table, the four   *)
(* commands the RPC handlers call, and the tick thread that ends timers    *)
(* and pulses and drives blinks.  Every method holds m_mutex from its      *)
(* first statement to its last, so each is one action.                     *)
(*                                                                         *)
(* The pins behind the table are those of GpiodRelayController, where a    *)
(* write may fail, or of SilRelayController, where it cannot.  Time is the *)
(* steady clock in milliseconds, moved by Elapse; uint32_t and uint64_t    *)
(* arithmetic is taken modulo Word32 and Word64.  A relay id outside the   *)
(* table returns false before anything is touched and is not an action.    *)
(***************************************************************************)
EXTENDS Integers

CONSTANTS
    Relays,       \* the channels of the table, 1..8 in the code
    FaultyLines,  \* channels whose GPIO write may fail; {} for SIL
    Seconds,      \* arguments of startTimer
    Millis,       \* arguments of startPulse and phases of startBlink
    Counts,       \* counts of startBlink
    MsPerSecond,  \* 1000
    TickPeriod,   \* the 10 ms sleep of tickLoop
    Word32,       \* 2^32
    Word64,       \* 2^64
    MaxClock      \* bound on the clock (uptime)

ASSUME RelaysAssumption == FaultyLines \subseteq Relays
ASSUME ArgsAssumption ==
    /\ Word32 \in Nat \ {0} /\ Word64 \in Nat /\ Word32 <= Word64
    /\ Seconds \subseteq 0 .. Word32 - 1
    /\ Millis \subseteq 0 .. Word32 - 1
    /\ Counts \subseteq 0 .. Word32 - 1
ASSUME ClockAssumption ==
    /\ MsPerSecond \in Nat /\ TickPeriod \in Nat \ {0} /\ MaxClock \in Nat
    /\ MaxClock < Word64

VARIABLES
    rs,        \* m_relayStates
    pin,       \* pin[r]: the level the GPIO line really drives
    clock,     \* std::chrono::steady_clock::now(), in milliseconds
    lastTick   \* when tick() last ran; tickLoop sleeps TickPeriod after it

vars == <<rs, pin, clock, lastTick>>

RelayMode == {"TOGGLE", "TIMER", "PULSE", "BLINK"}

RelayState ==
    [mode : RelayMode, active : BOOLEAN, state : BOOLEAN, startTime : Nat,
     durationMs : Nat, blinkOnMs : Nat, blinkOffMs : Nat, blinkCount : Nat,
     blinkPhase : BOOLEAN]

FreshRelay ==
    [mode |-> "TOGGLE", active |-> FALSE, state |-> FALSE, startTime |-> 0,
     durationMs |-> 0, blinkOnMs |-> 0, blinkOffMs |-> 0, blinkCount |-> 0,
     blinkPhase |-> FALSE]

(* The lines are requested with the relay de-energised. *)
Init ==
    /\ rs = [r \in Relays |-> FreshRelay]
    /\ pin = [r \in Relays |-> FALSE]
    /\ clock = 0
    /\ lastTick = 0

(* Mutant: the cached state is assigned before it is compared. *)
SetRelayInternalLate(next) ==
    rs' = next /\ pin' = [r \in Relays |-> pin[r]]

(***************************************************************************)
(* setRelayInternal for every channel of the next table: the line is       *)
(* written only where the cached state changes, and what                   *)
(* setRelayPhysical returns for the lines that refuse the write is lost.   *)
(***************************************************************************)
SetRelayInternal(next) ==
    \E refused \in SUBSET FaultyLines :
        /\ rs' = next
        /\ pin' = [r \in Relays |->
              IF next[r].state # rs[r].state /\ r \notin refused
              THEN next[r].state ELSE pin[r]]

(***************************************************************************)
(* The commands: each writes some fields of one channel and leaves the     *)
(* others as the channel's earlier plans left them.                        *)
(***************************************************************************)
Command(r, c) ==
    /\ SetRelayInternal([rs EXCEPT ![r] = c])
    /\ UNCHANGED <<clock, lastTick>>

(* Mutant: set_relay leaves the mode of the plan it ends. *)
ToggledKeepsMode(c, on) == [c EXCEPT !.active = FALSE, !.state = on]

Toggled(c, on) ==
    [c EXCEPT !.active = FALSE, !.mode = "TOGGLE", !.state = on]

(* Mutant: a hold started over a running plan keeps its start. *)
HeldNoRestart(c, mode, ms) ==
    [c EXCEPT !.mode = mode, !.active = TRUE,
              !.startTime = IF c.active THEN @ ELSE clock,
              !.durationMs = ms, !.state = TRUE]

Held(c, mode, ms) ==
    [c EXCEPT !.mode = mode, !.active = TRUE, !.startTime = clock,
              !.durationMs = ms, !.state = TRUE]

Blinked(c, onMs, offMs, count) ==
    [c EXCEPT !.mode = "BLINK", !.active = TRUE, !.blinkOnMs = onMs,
              !.blinkOffMs = offMs, !.blinkCount = count,
              !.blinkPhase = TRUE, !.startTime = clock, !.state = TRUE]

(* uint64_t(seconds) * 1000: the product is taken in 64 bits. *)
TimerMs(seconds) == (seconds * MsPerSecond) % Word64

SetRelay(r, on)        == Command(r, Toggled(rs[r], on))
StartTimer(r, seconds) == Command(r, Held(rs[r], "TIMER", TimerMs(seconds)))
StartPulse(r, ms)      == Command(r, Held(rs[r], "PULSE", ms))
StartBlink(r, onMs, offMs, count) ==
    Command(r, Blinked(rs[r], onMs, offMs, count))

(***************************************************************************)
(* tick(): what one pass does to one channel.  Only one of the three       *)
(* "over" conditions can hold of a channel.                                *)
(***************************************************************************)
Elapsed64(c, now) == (now - c.startTime) % Word64
Elapsed32(c, now) == (now - c.startTime) % Word32

(* Mutant: tick() has no case for PULSE. *)
HoldOverTimerOnly(c, now) ==
    /\ c.mode = "TIMER"
    /\ Elapsed64(c, now) >= c.durationMs

HoldOver(c, now) ==
    /\ c.mode \in {"TIMER", "PULSE"}
    /\ Elapsed64(c, now) >= c.durationMs

OnPhaseOver(c, now) ==
    /\ c.mode = "BLINK" /\ c.blinkPhase
    /\ Elapsed32(c, now) >= c.blinkOnMs

(* Mutant: the OFF phase ends one millisecond late. *)
OffPhaseOverLate(c, now) ==
    /\ c.mode = "BLINK" /\ ~c.blinkPhase
    /\ Elapsed32(c, now) > c.blinkOffMs

OffPhaseOver(c, now) ==
    /\ c.mode = "BLINK" /\ ~c.blinkPhase
    /\ Elapsed32(c, now) >= c.blinkOffMs

HoldEnded(c) ==
    [c EXCEPT !.state = FALSE, !.active = FALSE, !.mode = "TOGGLE"]

Dark(c, now) ==
    [c EXCEPT !.state = FALSE, !.blinkPhase = FALSE, !.startTime = now]

(* Mutants: the count is decremented without looking whether it is 0; it   *)
(* is compared before it is decremented.                                   *)
DarkEndedUnderflow(c, now) ==
    IF c.blinkCount = 1
    THEN [c EXCEPT !.blinkCount = 0, !.active = FALSE, !.mode = "TOGGLE"]
    ELSE [c EXCEPT !.blinkCount = @ - 1,
                   !.state = TRUE, !.blinkPhase = TRUE, !.startTime = now]

DarkEndedOneMore(c, now) ==
    [c EXCEPT !.blinkCount = IF @ > 0 THEN @ - 1 ELSE 0,
              !.state = TRUE, !.blinkPhase = TRUE, !.startTime = now]

(* A count of 0 blinks for ever; otherwise the OFF phase uses one up, and  *)
(* the last one ends the blink with the relay left as it is.               *)
DarkEnded(c, now) ==
    IF c.blinkCount = 1
    THEN [c EXCEPT !.blinkCount = 0, !.active = FALSE, !.mode = "TOGGLE"]
    ELSE [c EXCEPT !.blinkCount = IF @ > 0 THEN @ - 1 ELSE 0,
                   !.state = TRUE, !.blinkPhase = TRUE, !.startTime = now]

Ticked(c, now) ==
    IF ~c.active THEN c
    ELSE IF HoldOver(c, now) THEN HoldEnded(c)
    ELSE IF OnPhaseOver(c, now) THEN Dark(c, now)
    ELSE IF OffPhaseOver(c, now) THEN DarkEnded(c, now)
    ELSE c

(* tickLoop slept its period.  At the bound on time it is not held back. *)
Rested == clock >= lastTick + TickPeriod \/ clock = MaxClock

Tick ==
    /\ Rested
    /\ SetRelayInternal([r \in Relays |-> Ticked(rs[r], clock)])
    /\ lastTick' = clock
    /\ UNCHANGED clock

Elapse ==
    /\ clock < MaxClock
    /\ clock' = clock + 1
    /\ UNCHANGED <<rs, pin, lastTick>>

AnyCommand ==
    \/ \E r \in Relays, on \in BOOLEAN : SetRelay(r, on)
    \/ \E r \in Relays, s \in Seconds : StartTimer(r, s)
    \/ \E r \in Relays, d \in Millis : StartPulse(r, d)
    \/ \E r \in Relays, on, off \in Millis, n \in Counts : StartBlink(r, on, off, n)

Next ==
    \/ AnyCommand
    \/ Tick
    \/ Elapse

Spec == Init /\ [][Next]_vars

(* The tick thread runs and time goes on; no client has to command.        *)
FairSpec == Spec /\ WF_vars(Tick) /\ WF_vars(Elapse)

-----------------------------------------------------------------------------
(***************************************************************************)
(* Properties.                                                             *)
(***************************************************************************)

(* Every field of the table stays in its type, no channel was started in   *)
(* the future and the tick thread has not run ahead of the clock.          *)
TypeOK ==
    /\ rs \in [Relays -> RelayState]
    /\ pin \in [Relays -> BOOLEAN]
    /\ clock \in 0 .. MaxClock
    /\ lastTick \in 0 .. clock
    /\ \A r \in Relays : rs[r].startTime <= clock

(* The three places that end a mode (setRelay, the end of a hold, the end  *)
(* of a blink) and the ones that start it agree on what mode, active,      *)
(* state and blinkPhase mean together: a channel is active exactly when it *)
(* is not in TOGGLE, so getRelayStatus never takes its default branch; a   *)
(* running timer or pulse is ON, whatever the channel did before; a        *)
(* blinking relay is ON exactly in its ON phase.                           *)
Coherent(c) ==
    /\ c.active <=> c.mode # "TOGGLE"
    /\ c.mode \in {"TIMER", "PULSE"} => c.state
    /\ c.mode = "BLINK" => c.state = c.blinkPhase

ChannelCoherent == \A r \in Relays : Coherent(rs[r])

(* Writing the line only when the cached state changes is enough: where    *)
(* setRelayPhysical cannot fail, the line always drives the cached state.  *)
PinFollowsState ==
    \A r \in Relays \ FaultyLines : pin[r] = rs[r].state

(* When the running plan of a channel is due, in unbounded arithmetic. *)
Limit(c) ==
    IF c.mode # "BLINK" THEN c.durationMs
    ELSE IF c.blinkPhase THEN c.blinkOnMs
    ELSE c.blinkOffMs

Deadline(c) == c.startTime + Limit(c)

(* The elapsed time of a blink phase no longer fits the uint32_t it is cut *)
(* to: base_relay_controller.cc:163 and 167 may then compare too little.   *)
Outlived(c, now) == c.mode = "BLINK" /\ now - c.startTime >= Word32

(* tick() passes over nothing: after each pass, every channel that was     *)
(* started before it still has time to run.  The one exception is a blink  *)
(* phase no tick met between its deadline and 2^32 ms: the cast makes such *)
(* a phase look young again, and it goes on.                               *)
NothingOverdue ==
    \A r \in Relays :
        rs[r].active /\ rs[r].startTime < lastTick =>
            lastTick < Deadline(rs[r]) \/ Outlived(rs[r], lastTick)

(* A plan whose deadline lies far enough inside the bound on time is       *)
(* carried out or replaced, or is a blink phase that outlived its 32 bits: *)
(* the tick thread forgets no other.                                       *)
PlansProgress ==
    \A r \in Relays, t \in 0 .. MaxClock - TickPeriod :
        (rs[r].active /\ Deadline(rs[r]) = t)
            ~> \/ ~(rs[r].active /\ Deadline(rs[r]) = t)
               \/ Outlived(rs[r], clock)

(***************************************************************************)
(* The table implements what RelayPromise says of a channel.               *)
(***************************************************************************)
Plan(c) ==
    IF ~c.active
    THEN [kind |-> "manual", until |-> 0, cycles |-> 0, on |-> 0, off |-> 0]
    ELSE IF c.mode = "BLINK"
    THEN [kind |-> "blink", until |-> Deadline(c),
          cycles |-> IF c.blinkCount = 0 THEN -1 ELSE c.blinkCount,
          on |-> c.blinkOnMs, off |-> c.blinkOffMs]
    ELSE [kind |-> "hold", until |-> Deadline(c), cycles |-> 0, on |-> 0, off |-> 0]

Promise == INSTANCE RelayPromise WITH
    HoldLengths <- {TimerMs(s) : s \in Seconds} \union Millis,
    PhaseLengths <- Millis,
    BlinkCounts <- Counts,
    level <- [r \in Relays |-> rs[r].state],
    plan <- [r \in Relays |-> Plan(rs[r])]

(* Whatever the tables, casts and ticks, a channel does what a client was  *)
(* promised: the latest command wins, no hold and no phase of a blink is   *)
(* cut short, a blink has the number of ON phases asked for.               *)
KeepsPromise == Promise!Spec
=============================================================================
