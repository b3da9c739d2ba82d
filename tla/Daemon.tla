------------------------------- MODULE Daemon -------------------------------
(***************************************************************************)
(* The life of a minihild process: main() bringing up the relay controller *)
(* and the server, sleeping on g_shutdownCV until SIGINT or SIGTERM, and   *)
(* tearing everything down; the tick thread, which the controller's        *)
(* destructor stops and joins; and the signal handler, which runs on top   *)
(* of whatever thread the kernel interrupts, another handler included.     *)
(*                                                                         *)
(* server->start() and server->stop() are one step each here (TcpServer    *)
(* takes them apart); the RPC threads are the commands of RelayController, *)
(* possible while the server is up.  TLS start-up and the other reasons to *)
(* return 1 are outcomes of the step they belong to.                       *)
(***************************************************************************)
EXTENDS RelayController

CONSTANT MaxSignals  \* bound on the signals sent to the process

ASSUME SignalsAssumption == MaxSignals \in Nat

VARIABLES
    mainPc,     \* where main() is
    tickPc,     \* where tickLoop is; "none" before the thread exists
    sigPc,      \* where the handlers on each thread are, the lower one first
    signals,    \* signals delivered so far
    mutex,      \* holder of g_shutdownMutex
    requested,  \* g_shutdownRequested
    running,    \* m_running of the controller
    object      \* how much of the controller object is left

control == <<mainPc, tickPc, sigPc, signals, mutex, requested, running, object>>
daemonVars == <<vars, control>>

(* The threads a signal may land on; "server" stands for listenLoop and    *)
(* the connection threads.                                                 *)
Threads == {"main", "tick", "server"}

(* SIGINT and SIGTERM share the handler and each blocks only itself, so a  *)
(* thread has at most two handlers, the second on top of the first.        *)
Levels == {1, 2}

DaemonInit ==
    /\ Init
    /\ mainPc = "certificates" /\ tickPc = "none"
    /\ sigPc = [t \in Threads |-> [k \in Levels |-> "none"]] /\ signals = 0
    /\ mutex = "free" /\ requested = FALSE
    /\ running = FALSE /\ object = "whole"

(* A thread is suspended while a handler runs on its stack, and so is the  *)
(* lower handler while there is an upper one.                              *)
Undisturbed(t) == sigPc[t][1] = "none"
SigAt(t, k, pc) == sigPc[t][k] = pc /\ (k = 1 => sigPc[t][2] = "none")
MainAt(pc) == mainPc = pc /\ Undisturbed("main")
TickAt(pc) == tickPc = pc /\ Undisturbed("tick")

-----------------------------------------------------------------------------
(* main(): start-up.  A failure leaves through the destructors, too.       *)

MainCertificates(ok) ==
    /\ MainAt("certificates")
    /\ mainPc' = IF ok THEN "hardware" ELSE "ended"
    /\ UNCHANGED <<vars, tickPc, sigPc, signals, mutex, requested,
                   running, object>>

(* initHardware: the lines come up OFF, or the start-up is over. *)
MainHardware(ok) ==
    /\ MainAt("hardware")
    /\ mainPc' = IF ok THEN "spawn" ELSE "derived"
    /\ UNCHANGED <<vars, tickPc, sigPc, signals, mutex, requested,
                   running, object>>

(* The rest of BaseRelayController::init. *)
MainSpawn ==
    /\ MainAt("spawn")
    /\ running' = TRUE /\ tickPc' = "test" /\ lastTick' = clock
    /\ mainPc' = "start"
    /\ UNCHANGED <<rs, pin, clock, sigPc, signals, mutex, requested,
                   object>>

MainStart(ok) ==
    /\ MainAt("start")
    /\ mainPc' = IF ok THEN "lock" ELSE "derived"
    /\ UNCHANGED <<vars, tickPc, sigPc, signals, mutex, requested,
                   running, object>>

(* g_shutdownCV.wait(lock, predicate): test under the lock, then release   *)
(* it and sleep in one step, and lock again before the next test.          *)
MainLock ==
    /\ MainAt("lock") /\ mutex = "free"
    /\ mutex' = "main" /\ mainPc' = "test"
    /\ UNCHANGED <<vars, tickPc, sigPc, signals, requested, running,
                   object>>

(* Mutant: the lock is not given back on the way out of wait(). *)
MainTestKeepsLock ==
    /\ MainAt("test")
    /\ mainPc' = IF requested THEN "stop" ELSE "wait"
    /\ UNCHANGED <<vars, tickPc, sigPc, signals, mutex, requested,
                   running, object>>

MainTest ==
    /\ MainAt("test")
    /\ IF requested THEN mutex' = "free" /\ mainPc' = "stop"
                    ELSE mainPc' = "wait" /\ UNCHANGED mutex
    /\ UNCHANGED <<vars, tickPc, sigPc, signals, requested, running,
                   object>>

MainWait ==
    /\ MainAt("wait")
    /\ mutex' = "free" /\ mainPc' = "asleep"
    /\ UNCHANGED <<vars, tickPc, sigPc, signals, requested, running,
                   object>>

(* A condition variable may wake up for no reason. *)
SpuriousWakeup ==
    /\ MainAt("asleep")
    /\ mainPc' = "lock"
    /\ UNCHANGED <<vars, tickPc, sigPc, signals, mutex, requested,
                   running, object>>

(* main(): server->stop() and the destructors, most derived class first.   *)

(* stop() waits for every thread of the server, handlers on it included.   *)
MainStop ==
    /\ MainAt("stop") /\ Undisturbed("server")
    /\ mainPc' = "derived"
    /\ UNCHANGED <<vars, tickPc, sigPc, signals, mutex, requested,
                   running, object>>

(* ~GpiodRelayController: from here on setRelayPhysical is pure. *)
MainDestroyDerived ==
    /\ MainAt("derived")
    /\ object' = "base" /\ mainPc' = "base"
    /\ UNCHANGED <<vars, tickPc, sigPc, signals, mutex, requested,
                   running>>

MainDestroyBase ==
    /\ MainAt("base")
    /\ running' = FALSE /\ mainPc' = "join"
    /\ UNCHANGED <<vars, tickPc, sigPc, signals, mutex, requested,
                   object>>

Joinable == tickPc # "none"

(* Mutant: the destructor does not join the tick thread. *)
MainNoJoin ==
    /\ MainAt("join")
    /\ object' = "gone" /\ mainPc' = "ended"
    /\ UNCHANGED <<vars, tickPc, sigPc, signals, mutex, requested,
                   running>>

MainJoin ==
    /\ MainAt("join")
    /\ Joinable => tickPc = "ended"
    /\ object' = "gone" /\ mainPc' = "ended"
    /\ UNCHANGED <<vars, tickPc, sigPc, signals, mutex, requested,
                   running>>

MainNext ==
    \/ \E ok \in BOOLEAN :
           MainCertificates(ok) \/ MainHardware(ok) \/ MainStart(ok)
    \/ MainSpawn \/ MainLock \/ MainTest \/ MainWait \/ SpuriousWakeup
    \/ MainStop \/ MainDestroyDerived \/ MainDestroyBase \/ MainJoin

-----------------------------------------------------------------------------
(* tickLoop: test m_running, sleep, tick() - without another test.         *)

TickTest ==
    /\ TickAt("test")
    /\ tickPc' = IF running THEN "sleep" ELSE "ended"
    /\ UNCHANGED <<vars, mainPc, sigPc, signals, mutex, requested,
                   running, object>>

TickWrites == \E r \in Relays : Ticked(rs[r], clock).state # rs[r].state

TickRun ==
    /\ TickAt("sleep")
    /\ object = "whole" \/ ~TickWrites
    /\ Tick
    /\ tickPc' = "test"
    /\ UNCHANGED <<mainPc, sigPc, signals, mutex, requested, running,
                   object>>

(* tick() reaches setRelayPhysical of an object whose derived part is gone *)
(* and the runtime aborts the process.                                     *)
TickAborts ==
    /\ TickAt("sleep") /\ Rested
    /\ object # "whole" /\ TickWrites
    /\ tickPc' = "aborted" /\ mainPc' = "aborted"
    /\ UNCHANGED <<vars, sigPc, signals, mutex, requested, running,
                   object>>

TickNext == TickTest \/ TickRun \/ TickAborts

-----------------------------------------------------------------------------
(* signalHandler, on the stack of any thread, at any moment from           *)
(* std::signal() to the end of main().                                     *)

ServerUp == mainPc \in {"lock", "test", "wait", "asleep", "stop"}

Exists(t) ==
    CASE t = "main" -> mainPc \notin {"ended", "aborted"}
      [] t = "tick" -> tickPc \in {"test", "sleep"}
      [] t = "server" -> ServerUp

Deliver(t, k) ==
    /\ Exists(t) /\ signals < MaxSignals
    /\ sigPc[t][k] = "none" /\ (k = 2 => sigPc[t][1] # "none")
    /\ sigPc' = [sigPc EXCEPT ![t][k] = "lock"] /\ signals' = signals + 1
    /\ UNCHANGED <<vars, mainPc, tickPc, mutex, requested, running, object>>

(* Mutant: the handler sets the flag without taking the mutex. *)
SigSetUnlocked(t, k) ==
    /\ SigAt(t, k, "lock")
    /\ requested' = TRUE /\ sigPc' = [sigPc EXCEPT ![t][k] = "notify"]
    /\ UNCHANGED <<vars, mainPc, tickPc, signals, mutex, running, object>>

(* A handler that finds the mutex taken waits, even if by its own thread.  *)
SigLock(t, k) ==
    /\ SigAt(t, k, "lock") /\ mutex = "free"
    /\ mutex' = "handler" /\ sigPc' = [sigPc EXCEPT ![t][k] = "set"]
    /\ UNCHANGED <<vars, mainPc, tickPc, signals, requested, running, object>>

SigSet(t, k) ==
    /\ SigAt(t, k, "set")
    /\ requested' = TRUE /\ mutex' = "free"
    /\ sigPc' = [sigPc EXCEPT ![t][k] = "notify"]
    /\ UNCHANGED <<vars, mainPc, tickPc, signals, running, object>>

(* notify_one: nobody else waits, and a main() not asleep misses it. *)
SigNotify(t, k) ==
    /\ SigAt(t, k, "notify")
    /\ sigPc' = [sigPc EXCEPT ![t][k] = "none"]
    /\ mainPc' = IF mainPc = "asleep" THEN "lock" ELSE mainPc
    /\ UNCHANGED <<vars, tickPc, signals, mutex, requested, running, object>>

(* Of the handlers on a thread the upper one runs; in a process that has   *)
(* ended, none.                                                            *)
SigStep(t) ==
    /\ Exists(t)
    /\ \E k \in Levels : SigLock(t, k) \/ SigSet(t, k) \/ SigNotify(t, k)

SigNext == \E t \in Threads : SigStep(t) \/ \E k \in Levels : Deliver(t, k)

-----------------------------------------------------------------------------
RpcCommand == ServerUp /\ AnyCommand /\ UNCHANGED control

TimePasses ==
    /\ mainPc \notin {"ended", "aborted"}
    /\ Elapse
    /\ UNCHANGED control

DaemonNext ==
    \/ MainNext
    \/ TickNext
    \/ SigNext
    \/ RpcCommand
    \/ TimePasses

DaemonSpec == DaemonInit /\ [][DaemonNext]_daemonVars

(* Every thread gets to run; nobody has to send a signal or a request, and *)
(* no wakeup comes for free.  main() gives the mutex up whenever it sleeps, *)
(* so a handler that waits for it gets it in the end (SF): endless spurious *)
(* wakeups that take it back each time are left out.                       *)
MainProgress == MainNext /\ ~SpuriousWakeup

DaemonFairSpec ==
    /\ DaemonSpec
    /\ WF_daemonVars(MainProgress)
    /\ WF_daemonVars(TickNext)
    /\ \A t \in Threads :
           /\ WF_daemonVars(SigStep(t))
           /\ SF_daemonVars(Exists(t) /\ \E k \in Levels : SigLock(t, k))
    /\ WF_daemonVars(TimePasses)

-----------------------------------------------------------------------------
(* The program counters and flags keep their types; a handler is on top of *)
(* another, never under nothing; and whoever holds g_shutdownMutex is where *)
(* the code holds it: main() between lock and wait, a handler while it sets *)
(* the flag, one of them at a time.                                        *)
DaemonTypeOK ==
    /\ TypeOK
    /\ mainPc \in {"certificates", "hardware", "spawn", "start", "lock", "test",
                   "wait", "asleep", "stop", "derived", "base", "join", "ended",
                   "aborted"}
    /\ tickPc \in {"none", "test", "sleep", "ended", "aborted"}
    /\ sigPc \in [Threads -> [Levels -> {"none", "lock", "set", "notify"}]]
    /\ \A t \in Threads : sigPc[t][2] # "none" => sigPc[t][1] # "none"
    /\ signals \in 0 .. MaxSignals
    /\ requested \in BOOLEAN /\ running \in BOOLEAN
    /\ object \in {"whole", "base", "gone"}
    /\ mutex = IF mainPc \in {"test", "wait"} THEN "main"
               ELSE IF \E t \in Threads, k \in Levels : sigPc[t][k] = "set"
               THEN "handler"
               ELSE "free"

(* The tick thread never outlives the controller: when main() has returned *)
(* or is past the join, no thread is left that could tick a freed table,   *)
(* whatever way main() left through - a failed start-up included.          *)
TickThreadJoined ==
    object = "gone" \/ mainPc = "ended" => tickPc \in {"none", "ended"}

(* A handler that waits for g_shutdownMutex on top of the code that holds  *)
(* it: main() between lock and wait, or the other signal's handler.        *)
WaitsForItself(t) ==
    \E k \in Levels :
        /\ SigAt(t, k, "lock")
        /\ (t = "main" /\ mutex = "main") \/ sigPc[t][1] = "set"

(* A signal ends the process, whenever it comes - while certificates are   *)
(* made, before main() sleeps, between its test and its sleep, during the  *)
(* tear-down, together with others - but for the one case the lock in      *)
(* signalHandler makes possible: it landed on the thread that holds the    *)
(* mutex, which then waits for itself.  The lock is also what keeps the    *)
(* wakeup from being lost.                                                 *)
ShutdownCompletes ==
    (\E t \in Threads : ~Undisturbed(t))
        ~> \/ mainPc \in {"ended", "aborted"}
           \/ \E t \in Threads : WaitsForItself(t)

(* Shutting down never ends in the abort of a pure virtual call.           *)
NoPureVirtualCall == mainPc # "aborted"

=============================================================================
