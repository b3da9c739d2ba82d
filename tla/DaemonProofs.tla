---------------------------- MODULE DaemonProofs ----------------------------
(***************************************************************************)
(* The life of a minihild process, for any number of signals, on whatever  *)
(* thread the kernel puts a handler, other handlers included: who holds    *)
(* g_shutdownMutex, and who is left when main() returns.                   *)
(***************************************************************************)
EXTENDS Daemon, RelayControllerProofs

(* Types of the program counters and flags. *)
Control ==
    /\ mainPc \in {"certificates", "hardware", "spawn", "start", "lock", "test",
                   "wait", "asleep", "stop", "derived", "base", "join", "ended",
                   "aborted"}
    /\ tickPc \in {"none", "test", "sleep", "ended", "aborted"}
    /\ sigPc \in [Threads -> [Levels -> {"none", "lock", "set", "notify"}]]
    /\ signals \in 0 .. MaxSignals
    /\ requested \in BOOLEAN /\ running \in BOOLEAN
    /\ object \in {"whole", "base", "gone"}

MainHolds == mainPc \in {"test", "wait"}
HandlerHolds == \E t \in Threads, k \in Levels : sigPc[t][k] = "set"

(* The mutex has one holder, which is where the code locks it. *)
Mutex ==
    /\ mutex = IF MainHolds THEN "main" ELSE IF HandlerHolds THEN "handler" ELSE "free"
    /\ ~(MainHolds /\ HandlerHolds)
    /\ \A t, u \in Threads, k, j \in Levels :
           sigPc[t][k] = "set" /\ sigPc[u][j] = "set" => t = u /\ k = j

(* A handler runs on the thread or on another handler. *)
Nested == \A t \in Threads : sigPc[t][2] # "none" => sigPc[t][1] # "none"

(* The tick thread is there from init() to the join, the controller until  *)
(* its destructors run, which is when main() is on its way out.            *)
Lives ==
    /\ mainPc \in {"certificates", "hardware", "spawn"} => tickPc = "none"
    /\ tickPc = "aborted" => mainPc = "aborted"
    /\ object # "whole" => mainPc \in {"base", "join", "ended", "aborted"}
    /\ object = "gone" => mainPc = "ended"
    /\ mainPc = "ended" => tickPc \in {"none", "ended"}

DaemonInv == TypeOK /\ Control /\ Mutex /\ Nested /\ Lives

-----------------------------------------------------------------------------
LEMMA DaemonInvInit == DaemonInit => DaemonInv
<1> SUFFICES ASSUME DaemonInit
             PROVE  DaemonInv
  OBVIOUS
<1>1. TypeOK
  BY TypesInit DEF DaemonInit
<1>2. Control
  <2>1. signals \in 0..MaxSignals
    BY SignalsAssumption DEF DaemonInit
  <2>2. requested \in BOOLEAN /\ running \in BOOLEAN
    BY DEF DaemonInit
  <2> QED
    BY <2>1, <2>2 DEF DaemonInit, Control
<1>3. Mutex /\ Nested /\ Lives
  BY DEF DaemonInit, Mutex, MainHolds, HandlerHolds, Nested, Levels, Lives
<1> QED
  BY <1>1, <1>2, <1>3 DEF DaemonInv

(* What the steps of main() do, apart from the relays. *)
LEMMA MainKeeps ==
    ASSUME DaemonInv, MainNext
    PROVE  Control' /\ Mutex' /\ Nested' /\ Lives'
<1> USE DEF DaemonInv
<1>1. ASSUME NEW ok \in BOOLEAN,
             MainCertificates(ok) \/ MainHardware(ok) \/ MainStart(ok)
      PROVE  Control' /\ Mutex' /\ Nested' /\ Lives'
  BY <1>1 DEF MainCertificates, MainHardware, MainStart, MainAt, Control, Mutex,
     MainHolds, HandlerHolds, Nested, Lives
<1>2. CASE MainSpawn
  BY <1>2 DEF MainSpawn, MainAt, Control, Mutex, MainHolds, HandlerHolds, Nested, Lives
<1>3. CASE MainLock \/ MainTest \/ MainWait \/ SpuriousWakeup
  BY <1>3 DEF MainLock, MainTest, MainWait, SpuriousWakeup, MainAt, Control,
     Mutex, MainHolds, HandlerHolds, Nested, Lives
<1>4. CASE MainStop
  BY <1>4 DEF MainStop, MainAt, Control, Mutex, MainHolds, HandlerHolds, Nested,
     Lives
<1>5. CASE MainDestroyDerived
  BY <1>5 DEF MainDestroyDerived, MainAt, Control, Mutex, MainHolds, HandlerHolds,
     Nested, Lives
<1>6. CASE MainDestroyBase
  <2>1. running' \in BOOLEAN
    BY <1>6 DEF MainDestroyBase
  <2> QED
    BY <1>6, <2>1 DEF MainDestroyBase, MainAt, Control, Mutex, MainHolds,
       HandlerHolds, Nested, Lives
<1>7. CASE MainJoin
  BY <1>7 DEF MainJoin, Joinable, MainAt, Control, Mutex, MainHolds, HandlerHolds,
     Nested, Lives
<1> QED
  BY <1>1, <1>2, <1>3, <1>4, <1>5, <1>6, <1>7 DEF MainNext

(* A tick finds the derived part of the controller gone only on the way    *)
(* out, when main() does not hold the mutex.                               *)
LEMMA TickKeeps ==
    ASSUME DaemonInv, TickNext
    PROVE  Control' /\ Mutex' /\ Nested' /\ Lives'
<1> USE DEF DaemonInv
<1>1. CASE TickTest
  BY <1>1 DEF TickTest, TickAt, Control, Mutex, MainHolds, HandlerHolds, Nested,
     Lives
<1>2. CASE TickRun
  BY <1>2 DEF TickRun, TickAt, Control, Mutex, MainHolds, HandlerHolds, Nested,
     Lives
<1>3. CASE TickAborts
  BY <1>3 DEF TickAborts, TickAt, Control, Mutex, MainHolds, HandlerHolds, Nested,
     Lives
<1> QED
  BY <1>1, <1>2, <1>3 DEF TickNext

(* What a step of a handler does to the program counters of all of them.   *)
Moved(t, k, pc) ==
    /\ sigPc' \in [Threads -> [Levels -> {"none", "lock", "set", "notify"}]]
    /\ \A u \in Threads, j \in Levels :
           sigPc'[u][j] = IF u = t /\ j = k THEN pc ELSE sigPc[u][j]

LEMMA OneHandler ==
    ASSUME Control, NEW t \in Threads, NEW k \in Levels,
           NEW pc \in {"none", "lock", "set", "notify"}
    PROVE  sigPc' = [sigPc EXCEPT ![t][k] = pc] => Moved(t, k, pc)
  BY DEF Control, Moved

LEMMA SignalKeeps ==
    ASSUME DaemonInv, SigNext
    PROVE  Control' /\ Mutex' /\ Nested' /\ Lives'
<1> USE DEF DaemonInv
<1> SUFFICES ASSUME NEW t \in Threads, NEW k \in Levels,
                    \/ Deliver(t, k)
                    \/ SigLock(t, k) \/ SigSet(t, k) \/ SigNotify(t, k)
             PROVE  Control' /\ Mutex' /\ Nested' /\ Lives'
  BY DEF SigNext, SigStep
<1>1. CASE Deliver(t, k)
  <2>1. Moved(t, k, "lock")
    BY <1>1, OneHandler DEF Deliver
  <2>2. Control'
    BY <1>1, <2>1, SignalsAssumption DEF Moved, Deliver, Control
  <2>3. Mutex' /\ Nested' /\ Lives'
    BY <1>1, <2>1 DEF Moved, Deliver, Mutex, MainHolds, HandlerHolds, Nested, Levels, Lives
  <2> QED
    BY <2>2, <2>3
<1>2. CASE SigLock(t, k)
  <2>1. Moved(t, k, "set")
    BY <1>2, OneHandler DEF SigLock
  <2>2. Control'
    BY <1>2, <2>1 DEF Moved, SigLock, Control
  <2>3. Mutex' /\ Nested' /\ Lives'
    BY <1>2, <2>1 DEF Moved, SigLock, SigAt, Mutex, MainHolds, HandlerHolds, Nested,
       Levels, Lives
  <2> QED
    BY <2>2, <2>3
<1>3. CASE SigSet(t, k)
  <2>1. Moved(t, k, "notify")
    BY <1>3, OneHandler DEF SigSet
  <2>2. Control'
    <3>1. requested' \in BOOLEAN
      BY <1>3 DEF SigSet
    <3> QED
      BY <1>3, <2>1, <3>1 DEF Moved, SigSet, Control
  <2>3. Mutex' /\ Nested' /\ Lives'
    BY <1>3, <2>1 DEF Moved, SigSet, SigAt, Mutex, MainHolds, HandlerHolds, Nested,
       Levels, Lives
  <2> QED
    BY <2>2, <2>3
<1>4. CASE SigNotify(t, k)
  <2>1. Moved(t, k, "none")
    BY <1>4, OneHandler DEF SigNotify
  <2>2. Control'
    BY <1>4, <2>1 DEF Moved, SigNotify, Control
  <2>3. Mutex' /\ Nested' /\ Lives'
    BY <1>4, <2>1 DEF Moved, SigNotify, SigAt, Mutex, MainHolds, HandlerHolds, Nested,
       Levels, Lives
  <2> QED
    BY <2>2, <2>3
<1> QED
  BY <1>1, <1>2, <1>3, <1>4

LEMMA ControlUnchanged ==
    ASSUME DaemonInv, UNCHANGED control
    PROVE  Control' /\ Mutex' /\ Nested' /\ Lives'
  BY DEF DaemonInv, control, Control, Mutex, MainHolds, HandlerHolds, Nested, Lives

(* The relays take the steps of RelayController; init() notes the time.    *)
LEMMA StepOrSpawn ==
    ASSUME [DaemonNext]_daemonVars
    PROVE  [Next]_vars \/ MainSpawn
<1>1. CASE MainNext
  BY <1>1 DEF MainNext, MainCertificates, MainHardware, MainStart, MainLock,
     MainTest, MainWait, SpuriousWakeup, MainStop, MainDestroyDerived,
     MainDestroyBase, MainJoin
<1>2. CASE TickNext
  BY <1>2 DEF TickNext, TickTest, TickRun, TickAborts, Next
<1>3. CASE SigNext
  BY <1>3 DEF SigNext, SigStep, SigLock, SigSet, SigNotify, Deliver
<1>4. CASE RpcCommand \/ TimePasses
  BY <1>4 DEF RpcCommand, TimePasses, Next
<1> QED
  BY <1>1, <1>2, <1>3, <1>4 DEF DaemonNext, daemonVars

LEMMA RelaySteps ==
    ASSUME [DaemonNext]_daemonVars
    PROVE  [Next]_vars \/ (lastTick' = clock /\ UNCHANGED <<rs, pin, clock>>)
  BY StepOrSpawn DEF MainSpawn

(* DaemonInv is inductive. *)
THEOREM DaemonInductive == DaemonSpec => []DaemonInv
<1>1. DaemonInv /\ [DaemonNext]_daemonVars => DaemonInv'
  <2> SUFFICES ASSUME DaemonInv, [DaemonNext]_daemonVars
               PROVE  DaemonInv'
    OBVIOUS
  <2>1. TypeOK'
    <3>1. CASE [Next]_vars
      BY <3>1, TypesKept DEF DaemonInv
    <3>2. CASE lastTick' = clock /\ UNCHANGED <<rs, pin, clock>>
      BY <3>2, ClockAssumption DEF DaemonInv, TypeOK
    <3> QED
      BY <3>1, <3>2, RelaySteps
  <2>2. Control' /\ Mutex' /\ Nested' /\ Lives'
    BY MainKeeps, TickKeeps, SignalKeeps, ControlUnchanged
    DEF DaemonNext, RpcCommand, TimePasses, daemonVars
  <2> QED
    BY <2>1, <2>2 DEF DaemonInv
<1> QED
  BY <1>1, DaemonInvInit, PTL DEF DaemonSpec

(* g_shutdownMutex is held by main() between lock and wait, by the handler *)
(* while it sets the flag, and never by two: whatever the handlers         *)
(* interrupt.                                                              *)
THEOREM DaemonTypeCorrect == DaemonSpec => []DaemonTypeOK
<1>1. DaemonInv => DaemonTypeOK
  BY DEF DaemonInv, Control, Mutex, MainHolds, HandlerHolds, Nested,
     DaemonTypeOK
<1> QED
  BY <1>1, DaemonInductive, PTL

(* main() returns only when the tick thread has been joined or was never   *)
(* started.                                                                *)
THEOREM TickJoined == DaemonSpec => []TickThreadJoined
<1>1. DaemonInv => TickThreadJoined
  BY DEF DaemonInv, Lives, TickThreadJoined
<1> QED
  BY <1>1, DaemonInductive, PTL
-----------------------------------------------------------------------------
(* The relays in the life of the process: what RelayController shows of    *)
(* the table alone holds between start-up and tear-down, too.              *)

(* No channel runs before init() notes the time. *)
Unstarted ==
    mainPc \in {"certificates", "hardware", "spawn"} =>
        \A r \in Relays : ~rs[r].active

LEMMA UnstartedInit == DaemonInit => Unstarted
<1>1. FreshRelay.active = FALSE
  BY DEF FreshRelay
<1> QED
  BY <1>1 DEF DaemonInit, Init, Unstarted

LEMMA UnstartedKept ==
    ASSUME DaemonInv, Unstarted, [DaemonNext]_daemonVars
    PROVE  Unstarted'
<1> DEFINE Starting == {"certificates", "hardware", "spawn"}
<1> SUFFICES ASSUME mainPc' \in Starting
             PROVE  mainPc \in Starting /\ UNCHANGED rs
  BY DEF Unstarted
<1>1. CASE MainNext
  BY <1>1 DEF MainNext, MainCertificates, MainHardware, MainStart, MainSpawn,
     MainLock, MainTest, MainWait, SpuriousWakeup, MainStop, MainDestroyDerived,
     MainDestroyBase, MainJoin, MainAt, vars
<1>2. CASE TickNext
  BY <1>2 DEF TickNext, TickTest, TickRun, TickAborts, TickAt, vars, DaemonInv,
     Lives
<1>3. CASE SigNext
  BY <1>3 DEF SigNext, SigStep, SigLock, SigSet, SigNotify, Deliver, vars
<1>4. CASE RpcCommand \/ TimePasses
  BY <1>4 DEF RpcCommand, TimePasses, ServerUp, control, Elapse
<1>5. CASE UNCHANGED daemonVars
  BY <1>5 DEF daemonVars, control, vars
<1> QED
  BY <1>1, <1>2, <1>3, <1>4, <1>5 DEF DaemonNext

(* What init() notes is no part of a promise, a record or a line. *)
LEMMA NotingKeeps ==
    ASSUME UNCHANGED <<rs, pin, clock>>
    PROVE  /\ ChannelCoherent => ChannelCoherent'
           /\ PinFollowsState => PinFollowsState'
           /\ UNCHANGED Promise!vars
  BY DEF ChannelCoherent, PinFollowsState, Promise!vars

(* The records of the table stay coherent while the daemon comes up, is    *)
(* signalled and goes down.                                                *)
THEOREM DaemonCoherent == DaemonSpec => []ChannelCoherent
<1>1. DaemonInit => ChannelCoherent
  BY CoherentInit DEF DaemonInit
<1>2. DaemonInv /\ ChannelCoherent /\ [DaemonNext]_daemonVars => ChannelCoherent'
  BY RelaySteps, CoherentKept, NotingKeeps DEF DaemonInv
<1> QED
  BY <1>1, <1>2, DaemonInductive, PTL DEF DaemonSpec

(* The lines follow the table as long as there is a process, an aborted    *)
(* tear-down included.                                                     *)
THEOREM DaemonPins == DaemonSpec => []PinFollowsState
<1>1. DaemonInit => PinFollowsState
  BY FollowsInit DEF DaemonInit
<1>2. PinFollowsState /\ [DaemonNext]_daemonVars => PinFollowsState'
  BY RelaySteps, FollowsKept, NotingKeeps
<1> QED
  BY <1>1, <1>2, PTL DEF DaemonSpec

(* No tick of the process passes over a plan that is due, a blink phase    *)
(* that has outlived 32 bits excepted, although the tick thread starts     *)
(* some time after the clock and may be stopped at any time after.         *)
THEOREM DaemonNothingOverdue == DaemonSpec => []NothingOverdue
<1>1. DaemonInit => NothingOverdue
  BY OverdueInit DEF DaemonInit
<1>2. DaemonInv /\ ChannelCoherent /\ Unstarted /\ NothingOverdue
        /\ [DaemonNext]_daemonVars => NothingOverdue'
  <2> SUFFICES ASSUME DaemonInv, ChannelCoherent, Unstarted, NothingOverdue,
                      [DaemonNext]_daemonVars
               PROVE  NothingOverdue'
    OBVIOUS
  <2>1. CASE [Next]_vars
    BY <2>1, OverdueKept DEF DaemonInv
  <2>2. CASE MainSpawn
    BY <2>2 DEF MainSpawn, MainAt, Unstarted, NothingOverdue
  <2> QED
    BY <2>1, <2>2, StepOrSpawn
<1> QED
  BY <1>1, <1>2, UnstartedInit, UnstartedKept, DaemonInductive, DaemonCoherent,
     PTL DEF DaemonSpec

(* A channel does what a client was promised from the start of the process *)
(* to its end: start-up, signals and tear-down change no level and no plan.*)
THEOREM DaemonKeepsPromise == DaemonSpec => KeepsPromise
<1>1. DaemonInit => Promise!Init
  BY PromiseInit DEF DaemonInit
<1>2. DaemonInv /\ ChannelCoherent /\ [DaemonNext]_daemonVars
        => [Promise!Next]_(Promise!vars)
  BY RelaySteps, PromiseSteps, NotingKeeps DEF DaemonInv
<1> QED
  BY <1>1, <1>2, DaemonInductive, DaemonCoherent, PTL
  DEF DaemonSpec, KeepsPromise, Promise!Spec

=============================================================================
