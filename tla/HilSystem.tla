------------------------------ MODULE HilSystem ------------------------------
(***************************************************************************)
(* A relay as its users meet it: windows of minihildesk on several desks,  *)
(* the connections between them and minihild, and the relay.  The server   *)
(* is RelayPromise, which RelayController implements; the connections stay *)
(* up (DeskConnection models how they come and go) and deliver in order.   *)
(*                                                                         *)
(* What is at stake is the picture a desk has of the relay.  It is         *)
(* refreshed by the answers to set_relay and to the poll, and by nothing   *)
(* else: timers and blinks end at the server, other desks send commands,   *)
(* and the answers to start_timer, start_pulse and start_blink carry no    *)
(* level.  One relay stands for the eight, which share nothing.            *)
(***************************************************************************)
EXTENDS Integers, Sequences, FiniteSets

CONSTANTS
    Desks,          \* windows connected to the server
    HoldLengths,    \* lengths a timer or a pulse is started with
    PhaseLengths,   \* lengths of the ON and OFF phases of a blink
    BlinkCounts,    \* counts a blink is started with, 0 for endless
    MaxClicks,      \* bound on what the users do, all together
    MaxInFlight,    \* bound on requests and answers under way for a poll
    MaxClock        \* bound on the server's time

ASSUME HilAssumption ==
    /\ HoldLengths \subseteq Nat /\ PhaseLengths \subseteq Nat
    /\ BlinkCounts \subseteq Nat
    /\ MaxClicks \in Nat /\ MaxInFlight \in Nat \ {0} /\ MaxClock \in Nat

Relay == "relay"

VARIABLES
    level, plan, clock, \* the server: see RelayPromise
    requests,           \* requests[d]: sent by desk d, not yet executed
    answers,            \* answers[d]: sent to desk d, not yet shown
    active,             \* active[d]: RelayWidget::m_active, the LED
    switch,             \* switch[d]: where the switch of the toggle page is
    updating,           \* updating[d]: ToggleModePage::m_updating
    page,               \* page[d]: the mode page the window shows
    wishes,             \* wishes[d]: commands of its user not yet executed
    clicks              \* what the users have done so far

Server == INSTANCE RelayPromise WITH Relays <- {Relay}

server == <<level, plan, clock>>
window == <<active, switch, updating, page>>
vars == <<server, requests, answers, window, wishes, clicks>>

Pages == {"toggle", "timer", "pulse", "blink"}

Query       == [method |-> "get_relays"]
SetTo(on)   == [method |-> "set_relay", state |-> on]
HoldFor(n)  == [method |-> "start_hold", length |-> n]
BlinkFor(on, off, n) ==
    [method |-> "start_blink", on |-> on, off |-> off, count |-> n]

Request ==
    {Query} \union {SetTo(on) : on \in BOOLEAN}
    \union {HoldFor(n) : n \in HoldLengths}
    \union {BlinkFor(on, off, n) : on \in PhaseLengths, off \in PhaseLengths,
                                  n \in BlinkCounts}

(* What an answer tells the window: a level, or nothing. *)
Shown(on) == IF on THEN "on" ELSE "off"

Init ==
    /\ Server!Init
    /\ requests = [d \in Desks |-> <<>>] /\ answers = [d \in Desks |-> <<>>]
    /\ active = [d \in Desks |-> FALSE] /\ switch = [d \in Desks |-> FALSE]
    /\ updating = [d \in Desks |-> FALSE] /\ page = [d \in Desks |-> "toggle"]
    /\ wishes = [d \in Desks |-> 0] /\ clicks = 0

-----------------------------------------------------------------------------
(***************************************************************************)
(* The toggle page.  A Gtk::Switch whose active property changes emits     *)
(* state-set before set_active returns, for a click and for a call alike,  *)
(* so one call of the main loop is a composition of functions on the page: *)
(* its switch, its m_updating, and what m_signalToggled was emitted with,  *)
(* which is a set_relay command each.                                      *)
(***************************************************************************)
TogglePage(d) == [switch |-> switch[d], updating |-> updating[d], toggled |-> <<>>]

(* Mutant: without m_updating, a switch that is set sends a command. *)
OnStateSetUnguarded(w, on) == [w EXCEPT !.toggled = Append(@, SetTo(on))]

(* ToggleModePage::onStateSet. *)
OnStateSet(w, on) ==
    IF w.updating THEN w ELSE [w EXCEPT !.toggled = Append(@, SetTo(on))]

(* Gtk::Switch: nothing happens to a switch that is there already. *)
SetActive(w, on) ==
    IF w.switch = on THEN w ELSE OnStateSet([w EXCEPT !.switch = on], on)

(* Mutant: the LED is updated, the switch of the toggle page is not. *)
PageKept(w, on) == w

(* ToggleModePage::updateState. *)
PageUpdated(w, on) ==
    [SetActive([w EXCEPT !.updating = TRUE], on) EXCEPT !.updating = FALSE]

(* The page is w after the call, and its signals have become requests.     *)
PageBecomes(d, w) ==
    /\ switch' = [switch EXCEPT ![d] = w.switch]
    /\ updating' = [updating EXCEPT ![d] = w.updating]
    /\ requests' = [requests EXCEPT ![d] = @ \o w.toggled]

-----------------------------------------------------------------------------
(* The users.                                                              *)

Send(d, q) == requests' = [requests EXCEPT ![d] = Append(@, q)]

(* The user has done something that commands the relay. *)
Wish(d) == wishes' = [wishes EXCEPT ![d] = @ + 1]

Command(d, q) == Send(d, q) /\ Wish(d)

Clicked ==
    /\ clicks < MaxClicks /\ clicks' = clicks + 1
    /\ UNCHANGED <<server, answers>>

(* A click on the switch sets it, and GTK calls onStateSet. *)
FlipSwitch(d) ==
    /\ page[d] = "toggle"
    /\ Clicked
    /\ Wish(d)
    /\ PageBecomes(d, SetActive(TogglePage(d), ~switch[d]))
    /\ UNCHANGED <<active, page>>

StartHold(d, n) ==
    /\ page[d] \in {"timer", "pulse"}
    /\ Clicked
    /\ Command(d, HoldFor(n))
    /\ UNCHANGED window

(* Mutant: the count of the last cycle instead of the number of cycles. *)
StartBlinkFromZero(d, on, off, n) ==
    /\ page[d] = "blink"
    /\ Clicked
    /\ Command(d, BlinkFor(on, off, n - 1))
    /\ UNCHANGED window

StartBlink(d, on, off, n) ==
    /\ page[d] = "blink"
    /\ Clicked
    /\ Command(d, BlinkFor(on, off, n))
    /\ UNCHANGED window

(* RelayWidget::onModeChanged decides on the LED, not on the relay. *)
ChangeMode(d, p) ==
    /\ p # page[d]
    /\ Clicked
    /\ page' = [page EXCEPT ![d] = p]
    /\ IF active[d] THEN Command(d, SetTo(FALSE))
                    ELSE UNCHANGED <<requests, wishes>>
    /\ UNCHANGED <<active, switch, updating>>

UserNext ==
    \E d \in Desks :
        \/ FlipSwitch(d)
        \/ \E n \in HoldLengths : StartHold(d, n)
        \/ \E on, off \in PhaseLengths, n \in BlinkCounts : StartBlink(d, on, off, n)
        \/ \E p \in Pages : ChangeMode(d, p)

-----------------------------------------------------------------------------
(* The desks, on their own.                                                *)

(* AppHome::onPollTimeout, every second. *)
Poll(d) ==
    /\ Len(requests[d]) + Len(answers[d]) < MaxInFlight
    /\ Send(d, Query)
    /\ UNCHANGED <<server, answers, window, wishes, clicks>>

(* RelayWidget::updateState. *)
UpdateState(d, on) ==
    /\ active' = [active EXCEPT ![d] = on]
    /\ PageBecomes(d, PageUpdated(TogglePage(d), on))

(* processResponse and onRelayDispatcher. *)
Show(d) ==
    /\ answers[d] # <<>>
    /\ answers' = [answers EXCEPT ![d] = Tail(@)]
    /\ IF Head(answers[d]) = "done"
       THEN UNCHANGED <<active, switch, updating, requests>>
       ELSE UpdateState(d, Head(answers[d]) = "on")
    /\ UNCHANGED <<server, page, wishes, clicks>>

-----------------------------------------------------------------------------
(* The server.                                                             *)

Execute(q) ==
    CASE q.method = "get_relays"  -> UNCHANGED server
      [] q.method = "set_relay"   -> Server!SetLevel(Relay, q.state)
      [] q.method = "start_hold"  -> Server!HoldOn(Relay, q.length)
      [] q.method = "start_blink" -> Server!StartBlink(Relay, q.on, q.off, q.count)

(* The "result" of the answer, as far as processResponse looks at it. *)
Result(q) ==
    CASE q.method = "get_relays" -> Shown(level[Relay])
      [] q.method = "set_relay"  -> Shown(q.state)
      [] OTHER                   -> "done"

Serve(d) ==
    /\ requests[d] # <<>>
    /\ LET q == Head(requests[d]) IN
       /\ Execute(q)
       /\ answers' = [answers EXCEPT ![d] = Append(@, Result(q))]
       /\ wishes' = [wishes EXCEPT ![d] = IF q = Query THEN @ ELSE @ - 1]
    /\ requests' = [requests EXCEPT ![d] = Tail(@)]
    /\ UNCHANGED <<window, clicks>>

(* The tick takes the step a timer, a pulse or a blink has planned. *)
Proceed ==
    /\ Server!Proceed({Relay})
    /\ UNCHANGED <<requests, answers, window, wishes, clicks>>

PassTime ==
    /\ clock < MaxClock /\ Server!PassTime
    /\ UNCHANGED <<requests, answers, window, wishes, clicks>>

Next ==
    \/ UserNext
    \/ \E d \in Desks : Poll(d) \/ Show(d) \/ Serve(d)
    \/ Proceed \/ PassTime

Spec == Init /\ [][Next]_vars

(* The poll timer, the handler thread and the main loop of every desk, the *)
(* tick thread and time go on.  The users owe nothing.                     *)
Fairness ==
    /\ \A d \in Desks : WF_vars(Poll(d)) /\ WF_vars(Show(d)) /\ WF_vars(Serve(d))
    /\ WF_vars(Proceed) /\ WF_vars(PassTime)

FairSpec == Spec /\ Fairness

-----------------------------------------------------------------------------
(* Types: what goes over the wire is what the pages can ask for, and what  *)
(* comes back is what processResponse knows how to read.                   *)
HilTypeOK ==
    /\ level \in [{Relay} -> BOOLEAN] /\ clock \in 0..MaxClock
    /\ requests \in [Desks -> Seq(Request)]
    /\ answers \in [Desks -> Seq({"on", "off", "done"})]
    /\ active \in [Desks -> BOOLEAN] /\ switch \in [Desks -> BOOLEAN]
    /\ updating \in [Desks -> BOOLEAN] /\ page \in [Desks -> Pages]
    /\ wishes \in [Desks -> Int] /\ clicks \in 0..MaxClicks

(* Setting the switch runs the handler of a click.  m_updating keeps the   *)
(* two apart, both ways: a level that is shown commands nothing, however   *)
(* late it comes, and no click is taken for an update and lost.  The       *)
(* commands under way are those the desk's user gave and the server has    *)
(* not carried out (mode_page_toggle.cc:52-69).                            *)
OnlyUsersCommand ==
    \A d \in Desks :
        wishes[d] = Cardinality({i \in DOMAIN requests[d] : requests[d][i] # Query})

Agrees(d) == active[d] = level[Relay] /\ switch[d] = level[Relay]

(* When the users leave it alone and the relay has come to rest, every     *)
(* window ends up showing it: late answers, the poll and other desks'      *)
(* commands cannot leave a LED or a switch wrong for good.                 *)
WindowsConverge ==
    <>[](plan[Relay].kind = "blink" \/ \A d \in Desks : Agrees(d))

(* "switching modes on an active channel immediately turns the relay OFF   *)
(* on the server before entering the new mode" (README.md:83): a change of *)
(* mode with nothing under way and the relay ON sends the command.         *)
ModeChangeTurnsOff ==
    [][\A d \in Desks, p \in Pages :
         ChangeMode(d, p) /\ level[Relay] /\ requests[d] = <<>> /\ answers[d] = <<>>
            => SetTo(FALSE) \in {requests'[d][i] : i \in DOMAIN requests'[d]}]_vars
=============================================================================
