---------------------------- MODULE RelayPromise ----------------------------
(***************************************************************************)
(* What a relay channel of minihild promises its clients, without the      *)
(* fields, casts and ticks of BaseRelayController.  A channel has a level  *)
(* and a plan:                                                             *)
(*                                                                         *)
(*   manual   the level stays until the next command;                      *)
(*   hold     the channel is ON until a deadline and then falls OFF;       *)
(*   blink    the level alternates, each phase lasting at least as long as *)
(*            was asked; a finite blink has exactly as many ON phases as   *)
(*            were asked for and leaves the channel OFF.                   *)
(*                                                                         *)
(* How late a planned step is taken is left open (any time after it is     *)
(* due, and a phase starts when it is entered); that it is never early,    *)
(* never skipped and never repeated is not.                                *)
(***************************************************************************)
EXTENDS Integers

CONSTANTS
    Relays,       \* relay channels
    HoldLengths,  \* the lengths a hold can be asked for, in milliseconds
    PhaseLengths, \* the lengths an ON or OFF phase can be asked for
    BlinkCounts   \* the ON phases a blink can be asked for, 0 for endless

VARIABLES
    level,        \* level[r]: what get_relays reports of channel r
    plan,         \* plan[r]: what channel r will do without a command
    clock         \* steady time in milliseconds

vars == <<level, plan, clock>>

Endless == -1

Manual  == [kind |-> "manual", until |-> 0, cycles |-> 0, on |-> 0, off |-> 0]
Hold(t) == [kind |-> "hold",   until |-> t, cycles |-> 0, on |-> 0, off |-> 0]

(* A phase that lasts until t at least, and n ON phases with this one. *)
Blinking(t, n, on, off) ==
    [kind |-> "blink", until |-> t, cycles |-> n, on |-> on, off |-> off]

(* The ON phases owed by a blink asked for with count n. *)
Cycles(n) == IF n = 0 THEN Endless ELSE n

Init ==
    /\ level = [r \in Relays |-> FALSE]
    /\ plan  = [r \in Relays |-> Manual]
    /\ clock = 0

(***************************************************************************)
(* Commands: the latest one wins, whatever the channel was doing.          *)
(***************************************************************************)
Command(r, on, p) ==
    /\ level' = [level EXCEPT ![r] = on]
    /\ plan'  = [plan EXCEPT ![r] = p]
    /\ UNCHANGED clock

SetLevel(r, on) == Command(r, on, Manual)
HoldOn(r, d)    == Command(r, TRUE, Hold(clock + d))
StartBlink(r, on, off, n) ==
    Command(r, TRUE, Blinking(clock + on, Cycles(n), on, off))

(***************************************************************************)
(* The next planned step of a channel.                                     *)
(***************************************************************************)
Due(r) == plan[r].kind # "manual" /\ clock >= plan[r].until

LastCycleOver(r) == plan[r].kind = "blink" /\ ~level[r] /\ plan[r].cycles = 1

LevelAfter(r) == plan[r].kind = "blink" /\ ~level[r] /\ plan[r].cycles # 1

PlanAfter(r) ==
    LET p == plan[r] IN
    IF p.kind = "hold" \/ LastCycleOver(r) THEN Manual
    ELSE IF level[r] THEN Blinking(clock + p.off, p.cycles, p.on, p.off)
    ELSE Blinking(clock + p.on, IF p.cycles = Endless THEN Endless ELSE p.cycles - 1,
                  p.on, p.off)

(* Any set of channels that are due takes its planned step together. *)
Proceed(S) ==
    /\ S \subseteq {r \in Relays : Due(r)}
    /\ level' = [r \in Relays |-> IF r \in S THEN LevelAfter(r) ELSE level[r]]
    /\ plan'  = [r \in Relays |-> IF r \in S THEN PlanAfter(r) ELSE plan[r]]
    /\ UNCHANGED clock

PassTime ==
    /\ clock' = clock + 1
    /\ UNCHANGED <<level, plan>>

Next ==
    \/ \E r \in Relays, on \in BOOLEAN : SetLevel(r, on)
    \/ \E r \in Relays, d \in HoldLengths : HoldOn(r, d)
    \/ \E r \in Relays, on, off \in PhaseLengths, n \in BlinkCounts :
          StartBlink(r, on, off, n)
    \/ \E S \in SUBSET Relays : Proceed(S)
    \/ PassTime

Spec == Init /\ [][Next]_vars
=============================================================================
