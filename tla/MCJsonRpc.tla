----------------------------- MODULE MCJsonRpc -----------------------------
(* Channels 1 and 2 of a table that ends there; words of 16 values.        *)
EXTENDS JsonRpc

TwoRelays == {1, 2}

Call(id, method, relay, args) ==
    [id |-> id, shape |-> "good", method |-> method, params |-> "good",
     relay |-> relay, args |-> args]

Single(q) == [form |-> "single", calls |-> <<q>>]
Batch(s)  == [form |-> "batch", calls |-> s]

On      == Call("a", "set_relay", 1, <<1>>)
Off     == Call("b", "set_relay", 1, <<0>>)
Timer   == Call("c", "start_timer", 2, <<1>>)
Pulse   == Call("d", "start_pulse", 1, <<2>>)
Blink   == Call("e", "start_blink", 1, <<2, 2, 18>>)
List    == Call("f", "get_relays", 0, <<>>)
Status  == Call("g", "get_relay_status", 3, <<>>)
Beyond  == Call("h", "start_pulse", 3, <<2>>)
Unknown == Call("i", "reset", 1, <<>>)
Quiet   == [On EXCEPT !.id = ""]
Missing == [Timer EXCEPT !.params = "missing"]
Typed   == [Blink EXCEPT !.params = "type"]
Invalid == [Off EXCEPT !.shape = "invalid"]
BadName == [Off EXCEPT !.shape = "method"]
Wide    == Call("j", "set_relay", 17, <<1>>)  \* 17 is congruent with 1

AllLines ==
    {Single(On), Single(Wide), Single(List), Single(Beyond),
     Batch(<<On, Typed, Blink>>), Batch(<<Timer, Unknown, Off>>),
     Batch(<<Status, Pulse, Invalid>>), Batch(<<Missing, Quiet>>), Batch(<<>>),
     Batch(<<Off, BadName>>),
     [form |-> "garbled", calls |-> <<>>], [form |-> "not utf8", calls |-> <<>>]}
=============================================================================
