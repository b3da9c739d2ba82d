# minihil: specifications, model checking and proofs

TLA+ models of `minihild`, the daemon that switches eight relays over JSON-RPC,
and of `minihildesk`, its GTK client; the TLC configurations that check them on
small instances; and proofs, checked by TLAPS, that every safety property of the
passing runs holds for every instance, but for one refinement (section 4). Paths
below are relative to `src/sw/`.

## 1. The system

### Parts, state and operations

| Part | Source | State | Operations |
|---|---|---|---|
| Relay controller | `minihil/src/core/base_relay_controller.cc` | per channel: mode, active, cached state, start time, lengths, blink count and phase, under `m_mutex` | `setRelay`, `startTimer`, `startPulse`, `startBlink`, getters, and `tick()` every 10 ms on a thread of its own |
| GPIO and SIL back ends | `minihil/src/hardware`, `minihil/src/sil` | the GPIO lines | `initHardware`, `setRelayPhysical`, which may fail |
| Daemon | `minihil/src/main.cc` | `g_shutdownRequested` with mutex and condition variable | start-up, signal handler, wait, tear-down |
| Certificates | `minihil/src/main.cc`, `TcpServer::start` | six key and certificate files; the SSL context | check of existence, `generatePki`, loading |
| TCP server | `minihil/src/network/tcp_server.cc` | `m_running`, the listening socket, the session list under `m_clientsMutex`; per connection a descriptor, an SSL object and a buffer | `start`, `stop`, `listenLoop`, one detached `handleClient` per connection |
| JSON-RPC | `minihil/src/protocol/jsonrpc_router.cc`, handlers in `main.cc` | none of its own | parse a line, single or batch, dispatch, answer |
| Desk connection | `minihildesk/src/app_controller.cc`, `network/` | `m_running`, the read thread, the socket and its SSL object | `requestConnect`, `requestDisconnect`, `sendJsonRpc`, `readLoop`; `TcpClient::connect`, `send`, `receiveLine` with its buffer |
| Desk window | `minihildesk/src/view/` | connection state, queues behind three dispatchers, LED, switch and mode page of each relay | clicks, poll every second, dispatcher callbacks |
| Desk settings | `minihildesk/src/config/`, connection bar in `view/home.cc` | IP, port, SSL and mTLS in the bar; the file `~/.minihil/config` | `load`, `save`, the check boxes |
| mTLS configurator | `minihildesk/src/network/openssl_mtls_configurator.cc` | three files copied from the daemon | `configureContext` |

### How they interact

A connection thread of the server hands each line to the router, which calls the
controller under its mutex. The tick thread calls `tick()` under the same mutex,
and `setRelayInternal` writes a line through a virtual function. `main()` sleeps
on a condition variable until the signal handler wakes it, stops the server, and
lets the destructors stop the tick thread. On the desk the UI thread sends
requests; the read thread parses answers and emits signals, which `AppHome` puts
into queues and delivers on the UI thread through `Glib::Dispatcher`. The window
learns of a relay only from the answers to `set_relay` and `get_relays`.

With `--ssl` or `--mtls` the daemon makes its certificates when one is missing;
the operator copies three of them to the desk. The desk writes its settings
after every connection that was made. The systemd unit starts the daemon again
whenever it ends (as shipped it passes no option, so TLS is the operator's
choice).

### What is hard, and what makes each part correct

* **Relay controller.** Commands interrupt plans in every combination and reuse
  one record; deadlines are compared through casts. *Correct* if the latest
  command wins, no hold is cut short or forgotten, a counted blink has its ON
  phases and ends dark, and the line follows the table.
* **Daemon.** A signal may come at any moment, and a second one on top of it; the
  handler locks a mutex; the tick thread outlives part of the object it calls.
  *Correct* if a signal ends the process, in order.
* **TCP server.** Descriptor numbers are used again while entries of their old
  owners are still in the list, and SSL objects are looked up by number; freed
  ones may have become another connection's. `stop()` meets threads at every
  point. *Correct*
  if each thread uses its own descriptor and SSL object, no request is lost or
  answered twice, and `stop()` ends and leaves nothing behind.
* **JSON-RPC.** Batches interleave with other clients and ticks, integers are cut
  to 32 bits, refused writes go unnoticed. *Correct* if answers match requests
  and tell the truth.
* **Desk connection.** Two threads around one socket; loss, click and shutdown
  race. *Correct* if nothing is freed under the reader, it is always joined,
  disconnecting never hangs and the window shows what is.
* **Framing.** TCP cuts and joins lines as it likes, `receiveLine` has one value
  for an empty line and the end. *Correct* if requests and answers come out
  whole, once, in order, and on the connection they belong to.
* **Certificates and settings.** Files are written in place, one after the
  other, and a crash may come in between. *Correct* if, while no call fails and
  nobody removes a file, a daemon that serves has keys that fit together and
  keeps those it gave away and comes up again, and if the desk starts with whole
  settings.
* **Desk window.** Late answers and other desks; setting a switch calls the
  handler of a click. *Correct* if showing a level never commands one, no click
  is swallowed, and every window converges to the relay.

The full list of hazards, each at its line and with the properties that look at
it, is in `PROJECT.json`. A hazard without a property has a note that says what
the code does there; several are cases in which what one would like to state is
not true of the code, and the properties name them as their exceptions.

## 2. Modules

```
RelayPromise        what a channel promises           <---- implemented by
RelayController     the table, commands and tick            RelayController
  Daemon            EXTENDS it: process life, tick thread, signals
  JsonRpc           EXTENDS it: routing, handlers, conversions
TcpServer           listener, connection threads, stop()
RequestChannel      what a connection promises         <---- implemented by
LineFraming         TcpClient and handleClient, byte by byte     LineFraming
PkiFiles            the daemon's six files, restarts
DeskSettings        the connection bar and the settings file
  SecureLink        EXTENDS both: copies, configurator, handshake
DeskConnection      UI thread, read thread, dispatchers
HilSystem           desks + connections + INSTANCE RelayPromise as the server
XProofs             EXTENDS X: its inductive invariant and theorems, for X =
                    RelayController, Daemon, JsonRpc, TcpServer, LineFraming,
                    SecureLink, DeskConnection, HilSystem
MC*                 constants for TLC
```

Definitions whose comment begins with "Mutant" are wrong on purpose: each is the
next definition with one plausible mistake, and breaks a property of a run when
put in its place. They are used by no specification.

**RelayPromise** has a level and a plan (`manual`, `hold` until a deadline,
`blink` with the phase lengths, the ON phases left and the earliest end of the
phase) per channel. A planned step may be taken late, never early - each phase
of a blink lasts at least as long as was asked - and never twice.

**RelayController** has the record `RelayState` as the code has it. Commands and
`Tick` are the sections under `m_mutex`. `SetRelayInternal` compares the cached
state with the new one and writes the line where they differ; a line in
`FaultyLines` may refuse, and the refusal is dropped, as in the code. `Elapse`
moves the steady clock. Elapsed times are taken modulo `Word64`, and in blink
phases modulo `Word32` too, so that a phase no tick met in time looks young again
(`Outlived`). `Promise` is the refinement mapping: `Plan(c)` reads the plan off
the fields of a record.

**Daemon** adds `main()` step by step, `tickLoop` (test, sleep, tick without
another test), the signal handler (lock, set, notify) on top of whichever thread
the kernel picks, and how much of the controller object is left during its
destruction. `std::signal` blocks only the signal being handled, so SIGTERM may
run over a SIGINT handler on the same stack: handlers have two levels per thread
(`Levels`), and what is underneath is suspended. Signals may come from the
certificates on (`main.cc:287`). A handler that waits for the mutex on top of its
holder waits for ever (`WaitsForItself`): `main()` between lock and sleep, or the
other signal's handler. `TickAborts` is the tick that needs to write a line when only the
base class is left. The server is one step up and one step down here.

**TcpServer** has one action per system call, OpenSSL call or section under
`m_clientsMutex`. Descriptors come from the kernel lowest first. SSL objects live
at `Addresses`: `SSL_new` takes any free one, sessions and threads hold
addresses, and `heap` says for which connection the object at an address was
made, if there is one. So a pointer found under an old entry (`LookupSsl`) may be
to freed memory, to an object a third connection has got there since, or to the
thread's own, put at the same address; `misled` notes that it was not its own.
From then on the thread's calls act on the connection whose object is there
(`Serves`): it reads that connection's requests, answers it, and frees its
object. Where the object is freed, another's or in use by another thread
(`Undefined`), a call may also fail or end the process (`UndefinedUse`).
Peers connect, send, stay silent or leave; whether the server uses TLS is chosen
at the start. A request is whole here; how many are in one read and how many are
left in the buffer is the model's choice, which `LineFraming` refines to bytes.

**RequestChannel** is what a client may rely on, per connection: requests served
once and in order, answers delivered once and in order, only the end of a stream
lost, and only when the connection breaks.

**LineFraming** has both ends of it: `send` in as many pieces as the kernel takes,
`receiveLine` with `m_readBuffer`, `readLoop`, and `handleClient` with its
`requestBuffer`. A message is one byte and a newline; a chunk is any prefix of
what is under way. `Channel` is the refinement mapping: cut into lines, the
buffers and the bytes under way are the channel's queues. Blank lines, which the
desk never sends but a person at `nc` does, are skipped by the daemon and are no
requests of the channel.

**PkiFiles** gives each file the number of the call of `generatePki` it belongs
to; a file that was opened and not filled, or cut off, is `Broken`. `OpenFile`
and `FillFile` take the six in the order of the code, with a crash (`End`) or a
failing call (`OpenFails`, `FillFails`) between any two; a write may also fail
without notice, in the `fclose` nobody checks. `AllExist` is the check at start,
`LoadContext` what OpenSSL accepts.

**DeskSettings** has the bar with its two check boxes and the file, truncated by
`OpenConfig` and filled by `WriteConfig`, with the end of the application or a
failure in between. `m_config` equals the bar wherever it is read.

**SecureLink** puts the two together with the operator's copies. The handshake
succeeds or fails by generations: a certificate is accepted by whoever holds the
CA certificate of its generation. With TLS 1.3 `SSL_connect` returns before the
daemon has looked at the client's certificate, so a desk may believe it is
connected (`link = "refused"`) and save its settings.

**JsonRpc** has a line per connection, executed one request at a time; what the
handlers check, and in which order, decides between codes. Integers in requests
are unbounded, `AsInt` and `AsUint` cut them down. A request without an id (a
notification) gets a response with id null, as `processSingleRequest` makes it;
the comments of the router (`jsonrpc_router.cc:36`, 41, 47) foresee none, and
`AnswersMatch` asks nothing of notifications. A line in `FaultyLines` may refuse a
write; the answer is a success all the same, because `setRelay` always returns
true, and the error of `main.cc:323-325` is never sent. Two exceptions leave a
connection thread and end the process: a method that is not a string
(`DispatchThrows`), and an answer that quotes bytes which are not UTF-8
(`TakeLineThrows`).

**DeskConnection** has the UI thread's callbacks as sequences of steps
(`Exchange`, `ShutdownSocket`, `Join`, `Free`, `Tell`, then connecting), the
read thread's loop, and one FIFO for the dispatchers, which share one pipe in
glibmm. A dispatched connection change shows `m_connectionState` as it is at
that time, not as it was emitted.

**HilSystem** has, per desk, a FIFO each way, LED, switch and page. A `Gtk::Switch`
whose state changes calls its handler before `set_active` returns, for a click and
for an update alike; `SetActive`, `OnStateSet` and `PageUpdated` are that nested
call as functions on the toggle page, its `m_updating` and the signals it emits,
and the signals become commands. `wishes` counts what the user asked for. `Execute`
applies a request to `RelayPromise`; `Result` says whether the answer carries a
level. It relies on `RelayController` implementing `RelayPromise`, which is
checked and proved, and on whole lines delivered in order, which is what
`RequestChannel` says and `LineFraming` is checked to implement.

## 3. Runs

| Run | Configuration | What it shows |
|---|---|---|
| `relay_promise` | 1 channel, clock to 8 units, words of 6 | the channel under every sequence of commands, ticks and time: coherent fields, line = table, nothing overdue but a phase that outlived its word, every other plan carried out, refinement of `RelayPromise` |
| `daemon_shutdown` | 1 channel, 3 signals, nested on any thread | mutex discipline, tick thread joined on every way out, a signal ends the process unless it landed on the holder of the mutex |
| `daemon_abort` | same | **violation**: the tick between `~GpiodRelayController` and the join calls a pure virtual function |
| `server` | 2 clients, 1 descriptor, 2 addresses, plain or TLS | descriptors, sessions and a quiet end in every run; until a thread is led to an SSL object not its own, each has its own alive and to itself, requests are counted and taken up, and `stop()` ends, whatever handshakes stay silent |
| `server_ssl_reuse` | 2 clients, 1 descriptor, 2 addresses, TLS | **violation**: the new connection finds the old connection's SSL object, which is freed |
| `rpc_routing` | 2 connections, 12 kinds of lines, 1 faulty line | answers match requests, success means done on a line that takes writes, every line is answered unless an exception ends the process |
| `desk_connection` | 2 requests, backlog 2 | reader and socket, tear-down, noticing a loss, a dark window after it, a running connection shown |
| `desk_lost` | same | **violation**: a lost connection stays open for the poll and the button |
| `hil_windows` | 2 desks, 3 user actions | commands under way are the users', none sent by an update, no click lost; windows converge |
| `hil_mode` | 1 desk | **violation**: a change of mode right after starting a timer turns nothing off |
| `line_framing` | 2 connections, 2 requests | lines come out whole, an empty line never ends a connection, requests are answered, refinement of `RequestChannel` |
| `secure_link` | 3 ends of the daemon, 1 fault, with and without mTLS | without faults, one generation serves, paired desks stay paired and no crash keeps the daemon down; settings are whole and proven, mTLS implies TLS (in `LinkTypeOK`) |

What the finding runs show is described in `PROJECT.json` under `findings`.

### Bounds, and why they are enough

* *Channels do not share anything* (each operation and the tick treat one record
  at a time), so one channel is enough where only the table matters; the proofs
  cover any number. `rpc_routing` has two, so that the wrong one can be switched.
* *Time*: one unit is 5 ms and a tick 2 units. A second is 3 units, so that a
  timer ends between ticks. Eight units hold a timer, its replacement and a
  blink of two cycles. `Millis` contains 0, the shortest pulse and phase, and 5,
  the longest a word holds.
* *Words*: in `relay_promise` `Word32` is 6, above every length and below the
  bound on time, so that the cut of elapsed times to 32 bits is taken and a
  phase can outlive it; `Word64` lies above every time reached. In `rpc_routing`
  words are 16 values, and lengths, counts and a relay id lie on both sides of
  that.
* *Descriptors and addresses*: one descriptor for two clients is the least number
  that is used again, and two addresses let a new object be put where the freed
  one was or elsewhere. That a thread is led to a third connection's live object
  takes three clients; the theorems of `TcpServerProofs` are for any number, and
  the same invariants were once checked with three clients, two descriptors,
  three addresses and one request each (6,090,012 states, without liveness).
* *Requests*: two per connection can be read together or apart.
* *Signals*: three, so that two can nest on one thread while a third lands on
  another or comes during the tear-down.
* *Desk*: two requests under way let an answer, a loss and a click meet in every
  order; new UI work waits while two emissions are undelivered.
* *Framing*: two connections let one be abandoned with bytes under way; two
  requests of two bytes can be cut anywhere and joined with one another.
* *Ends of the daemon*: three stop it while it writes its files, while it writes
  them again, and after it has served. One fault (a failing call or a file
  removed) reaches every action; the promises about the files are for runs
  without any, because after one the code keeps none of them.
* *Addresses*: the daemon's and one where nobody answers.
* *Users*: three actions are a command, the command of the other desk that
  overtakes it, and a change of mode.

The bounds `MaxClock`, `MaxSignals`, `MaxRequests`, `MaxLines`, `MaxAsked`,
`MaxPipe`, `MaxClicks`, `MaxInFlight`, `MaxConns`, `MaxCrashes` and `MaxFaults` are
guards of the actions they name. Deadlock is checked where the system cannot
stop (`relay_promise`, `hil_windows`, `hil_mode`, `secure_link`); a process that has ended,
a stopped server, a client that has sent all it may and an application that has
quit have no next step.

### Fairness

* Threads run: weak fairness for the tick thread, `listenLoop`, `stop()`,
  `handleClient`, the read thread, connection threads, and for the UI thread *once
  it is inside a callback* or has something to deliver. Time passes.
* Nobody owes anything else. There is no fairness for users, signals, requests,
  accept errors or peers; a peer need not even finish its handshake
  (`HandlerProgress` excludes it). The poll timer is fair in `HilSystem`:
  GLib fires it every second.
* In `LineFraming` the daemon's and the desk's threads run, and `send` goes on once
  it has begun; connections break, or not, without fairness. In `SecureLink` only
  the daemon's own steps are fair, with the start that `Restart=always` gives
  (`minihil/minihil.service:7`); users, operator and desk owe nothing.
* `SF(SigLock)` in `Daemon`, for each thread: `main()` takes the mutex again after
  each wakeup, so the handler's chance comes and goes; a mutex that starves a
  waiter for ever is left out. Spurious wakeups get no fairness. No fairness
  hides the handler that waits for its own thread: `ShutdownCompletes` names it.
* Likewise the liveness properties of `TcpServer` name `misled` as the case in
  which they promise nothing: such a thread may end the process, or sit in a
  read on a connection `stop()` has no entry for.

## 4. Proofs

`RelayControllerProofs` proves, for every set of channels and faulty lines,
every set of arguments, tick period, length of a second and word size, and every
clock bound below `Word64` (the assumptions `RelaysAssumption`,
`ArgsAssumption`, `ClockAssumption`):

* `TypeInvariant` (`Spec => []TypeOK`). `TypeOK` is inductive: it contains
  `startTime <= clock`, without which the unsigned subtraction of `tick()` would
  wrap.
* `AlwaysCoherent` (`Spec => []ChannelCoherent`). Inductive with `TypeOK`; the
  three places that end a plan and the four that start one are shown to write
  coherent records (`CommandCoherent`, `TickedCoherent`).
* `PinsFollowTable` (`Spec => []PinFollowsState`): comparing with the cached
  state is enough wherever writes cannot fail.
* `NoPlanOverdue` (`Spec => []NothingOverdue`): no tick passes over a deadline, but
  for a blink phase that no tick met before it was `Word32` old, which the
  property names. No bound relates the clock to `Word32`.
* `Implements` (`Spec => KeepsPromise`): initial states map to initial states,
  and each step to a step of `RelayPromise` or a stutter. A command is a
  `Command` of the promise with the level and plan of the record it writes
  (`CommandRefines`); a tick is `Proceed` for the channels whose record it
  changes (`TickRefines`), by cases on mode, phase and count. Both use `TypeOK`
  (for `ElapsedExact`: the 64-bit subtraction is the difference, and
  `ElapsedAtMost`: the 32-bit one never exceeds it, so no phase ends early) and
  `ChannelCoherent` (which mode and phase a level stands for) as invariants.

`DaemonProofs`, on top of it, for every number of signals
(`SignalsAssumption`):

* `DaemonInductive` (`DaemonSpec => []DaemonInv`). `DaemonInv` says of every
  program counter who holds `g_shutdownMutex`, one holder at a time (`Mutex`), that
  a handler lies on another or on its thread (`Nested`), and from where to where
  the tick thread and the controller live (`Lives`): the tick thread exists from
  `init()` to the join, so no path out of `main()` can leave it behind.
* `DaemonTypeCorrect` and `TickJoined` follow from it.
* `DaemonKeepsPromise`, `DaemonCoherent`, `DaemonPins` and `DaemonNothingOverdue`:
  what `RelayControllerProofs` shows of the table holds for the whole process.
  Each step is one of `RelayController` or `MainSpawn` (`StepOrSpawn`), which
  notes the time in `lastTick`; no channel runs before it (`Unstarted`), so that
  cannot make a plan overdue.

`JsonRpcProofs`, also on top of `RelayControllerProofs`, for every set of
connections and of lines (`LinesAssumption`), batches of any length and numbers
of any size among them:

* `RpcInductive` (`RpcSpec => []RpcInv`). `Progress` relates the three places a
  line in execution is in: the requests taken so far are answered, one by one
  and in order, by the responses so far, and the requests to do are the rest.
  `RpcTypeCorrect` (with `Suffixes`, and `Words` for the 32-bit fields) and
  `AnswersPaired` follow. The code answers one by one, which is more than
  `AnswersMatch` asks (`OneByOnePairs`).
* `SuccessIsTrue` (`RpcSpec => SuccessMeansDone`): a request whose code is a
  success passed every check of its handler (`SuccessChecks`), and its command
  writes the one channel `get<int>()` makes of its id (`CommandTouchesOne`); with
  `PinFollowsState` the line follows unless it may refuse writes. What the
  property does not say, because it is false: that an id too wide for an `int` is
  refused, and that a refused write is reported.
* `RoutesToController` (`RpcSpec => Spec`): a request that passed its checks is a
  command of the controller, and no other step reaches the table; so
  `RequestsKeepPromise` follows from `Implements`. The hypothesis `AnyArgument`
  gives the controller every argument a `uint32_t` holds, as in the code; a run
  gives it a few.

`DeskConnectionProofs`, for every bound on requests and backlog
(`DeskAssumption`):

* `Inductive` (`Spec => []IInv`). `SocketHeldWhileReading` is not inductive by
  itself: that the UI thread frees nothing the reader uses needs to know where
  the UI thread has joined it (`Joined`) and where it holds an open socket
  (`Opened`). The bound on requests needs that a new connection starts with none,
  and reading a line that the line is there (`Threads`). One lemma per part of
  `Next`.
* `DeskTypeCorrect`, `SocketHeld` and `ReaderAlwaysJoined` follow from it.
* `DarkWhenDisconnected` and `RunningIsShown` speak of a window at rest; what is
  inductive speaks of the emissions under way (`Shown`): a label that is not
  `m_connectionState` has news coming, queued levels have an emission coming,
  and while there is no connection the last emission is that of its end, or the
  window is dark already. `Emitted` says when `m_connectionState` is TRUE: the
  report of a loss is the reader's last step, and the next reader is started
  only after it was joined.

`LineFramingProofs`, for every number of connections and requests and every set
of blank lines (`FramingAssumption`):

* `FramingInductive` (`Spec => []FramingInv`). Neither property is inductive over
  chunks, because a chunk may be any prefix. What is inductive is about the
  buffers and the bytes under way put together (`ToServe`, `ToDeliver`): lines of
  at most one byte, ended by a newline as long as the connection stands, and
  towards the desk whole answers, none empty. Moving a chunk changes neither
  concatenation (`ChunkMoves`). `Fresh` says that a connection starts empty.
* `WholeLines` and `EmptyLineIsEnd` follow.

`SecureLinkProofs`, over `LinkSpec` and so for `PkiFiles` and `DeskSettings` too,
for every number of crashes, faults and addresses:

* `LinkInductive` (`LinkSpec => []LinkInv`). `generatePki` opens the client's
  certificate last, so that file exists only when the other five are of the
  latest generation (`Kept`), the check at the start then finds all six, and no
  further generation is made; this is why any number of crashes does no harm.
  Copies belong to a file of that generation, and settings are defaults or what
  a connection was made with.
* `LinkTypeCorrect`, `ServesOneGeneration`, `PairingLasts` and the action property
  `SettingsAreProven` follow. `ServesOneGeneration` and `PairingLasts` say something
  only while no call has failed and no file was removed (`faults = 0`), as the
  properties do, and the former allows a `client.crt` that was cut off: after
  `ca.crt` is removed and the daemon crashes while it writes the files anew, the
  code serves a mixture.

`TcpServerProofs`, for every set of clients and descriptors
(`ServerAssumption`):

* `Inductive` (`Spec => []IInv`). A thread goes through its phases once
  (`Phases`); with TLS every entry has an object (`Entries`). `SessionsTrack`
  counts entries and threads per descriptor: a connection adds one of each, and
  erasing by number takes one of each, even if the entry is another thread's
  (`Matched`).
* While no thread is misled, every thread that is past its lookup has its own
  object (`Objects`), so only it can free it, whatever addresses are used again:
  `SSL_new` gives out free ones. A thread that is still to look up has its object
  under the last entry with its descriptor (`OwnEntries`): the older entries with
  it go first, because erasing takes the first (`EraseKeepsLast`). Finding a first
  entry that is not the last is what sets `misled`.
* `TypeCorrect`, `DescriptorsOwned`, `ListMatches`, `Quiet`, `RequestsCounted` and
  `OwnSslAlive` follow; the last two are about what comes before `misled`, the
  others hold after it too. `Quiet` needs `Stopping` and the counting: no entry is
  left, so no thread is left that has not erased its own.

`HilSystemProofs`, for every set of desks, lengths and counts and every bound on
actions and messages:

* `Inductive` (`Spec => []HilInv`): the commands in a desk's queue are counted by
  position; an action of the user adds one, the poll none, and the server takes
  the first message away. Between two calls of the main loop no page is being
  updated (`AtRest`); therefore a click on the switch sends its command
  (`ClickSends`), while an update, which goes through the same handler with
  `m_updating` set, sends none (`UpdateSendsNothing`). `HilTypeCorrect` and
  `UsersCommand` follow.

### Assumptions on the constants

They are named in the modules, and TLC evaluates them in the runs of those
modules. Beyond types they say: a tick period and words of at least one value;
`Word32 <= Word64` and `MaxClock < Word64`; `NoClient` is no client and `Null` no
address (addresses are as many as clients, so that `SSL_new` never fails, in the
runs), and no settings look like a missing
or a truncated file; a single request is one request, and one that passes its
handler's checks has all the parameters it asks for
(`minihil/src/main.cc:311-402`); a blank line is newlines, each alone or after a
carriage return.

### Model-checked only

* Every liveness property (`PlansProgress`, `ShutdownCompletes`, `StopTerminates`,
  `RequestsTakenUp`, `EveryLineAnswered`, `DisconnectEnds`, `LossNoticed`,
  `WindowsConverge`, `Answered`, `ComesUp`): fairness and `ENABLED` are beyond this
  prover.
* `ImplementsChannel`: its mapping cuts whole streams into lines (`Lines`, a
  fold), and what a fold computes for every sequence is an induction over data.
  What the proof would rest on, that streams consist of whole lines on every
  step, is `FramingInductive`.
* What the violation runs show: a counterexample needs no proof.

No module uses a `RECURSIVE` operator.

## 5. Not modelled, and why

* Signals before `std::signal` (`main.cc:283`), which end the process at once, and
  after `main()` has returned.
* Inside OpenSSL, libgpiod, GTK and JSON text: outcomes only. Concurrent
  `SSL_read` and `SSL_write` on one object (`openssl_session.cc:102-114`) is
  undefined inside OpenSSL and is listed as a hazard.
* Names, validity periods and extensions of certificates, and every other reason
  for OpenSSL to refuse one: a file is whole and of a generation, or broken.
* Loss of power: nothing calls `fsync`, so what a host loses is up to its file
  system; `End` is the end of the process, after which written data stay.
* Settings and certificates edited by hand, other than removing a file.
* In `receiveLine` an error may be reported before bytes that had arrived; how
  SSL records split lines is a chunk like any other.
* Logging, the traffic log's queue, layout, styles, generated resources.
* The Python test script, packaging, Yocto layer, CI; of the systemd unit all but
  `Restart=always`.

## 6. Plan

1. *Done*: `RelayPromise`, `RelayController` and its proofs; `Daemon`;
   `TcpServer`; `JsonRpc`; `DeskConnection` and its proofs; `HilSystem`.
2. *Done*: `RequestChannel` and `LineFraming`; `PkiFiles`, `DeskSettings` and
   `SecureLink`; `TcpServer` with and without TLS in one run; `ConnectedIsShown`;
   the second exception of `JsonRpc`.
3. *Done*: an inductive invariant for each component, and from it every invariant
   and every action property the runs check; the refinement of `RelayPromise`, and
   that `Daemon` and `JsonRpc` keep that promise.
4. *Done*: SSL objects at addresses that are used again, handlers nested on a
   thread, phases of a blink in the promise, the switch's handler run by updates,
   refused writes and wide ids in what a success means.
5. *Prove next*: the steps of `ImplementsChannel` that leave the cutting into lines
   alone, and that a command a window sends is a request `JsonRpc` carries out as
   `HilSystem` says.
