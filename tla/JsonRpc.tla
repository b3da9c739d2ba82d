------------------------------ MODULE JsonRpc ------------------------------
(***************************************************************************)
(* JsonRpcRouter and the handlers main() registers with it, on top of      *)
(* RelayController.  The thread of each connection takes a line, runs      *)
(* processSingleRequest for the request or for each request of the batch,  *)
(* and writes one line back.  A request validates its parameters and calls *)
(* the controller once, under its mutex: one step.  Other connections and  *)
(* the tick thread get between the requests of a batch.                    *)
(*                                                                         *)
(* A line is what the parser makes of it: [form, calls], where form is     *)
(* "garbled" or "not utf8" (a parse error), "single" or "batch".  A        *)
(* request tells the well-formedness checks apart ("shape"), its numbers   *)
(* are the integers the client wrote, which nlohmann::json::get<int> and   *)
(* get<uint32_t> cut down to 32 bits.                                      *)
(***************************************************************************)
EXTENDS RelayController, Sequences

CONSTANTS
    Conns,     \* connections
    Lines,     \* the lines clients send
    MaxLines   \* bound on the lines of one connection

(* A request: id "" when it has none (a notification); shape "invalid"     *)
(* when it fails the check of lines 61-64, "method" when its method is not *)
(* a string; params "missing" a required one, or "type" of the wrong type. *)
Request ==
    [id : STRING, shape : {"good", "invalid", "method"},
     method : STRING, params : {"good", "missing", "type"},
     relay : Int, args : Seq(Int)]

Commands == {"set_relay", "start_timer", "start_pulse", "start_blink"}
Methods == Commands \union {"get_relays", "get_relay_status"}

(* Parameters that are all there: each command has its own number of them. *)
ASSUME LinesAssumption ==
    /\ MaxLines \in Nat
    /\ \A l \in Lines :
          /\ l.form \in {"garbled", "not utf8", "single", "batch"}
          /\ l.form \in {"garbled", "not utf8"} => l.calls = <<>>
          /\ l.form = "single" => Len(l.calls) = 1
          /\ l.calls \in Seq(Request)
          /\ \A i \in DOMAIN l.calls :
                LET q == l.calls[i]
                IN  q.params = "good" /\ q.method \in Commands =>
                       Len(q.args) = IF q.method = "start_blink" THEN 3 ELSE 1

VARIABLES
    line,      \* line[c]: the line thread c works on, or NoLine
    todo,      \* requests of it not yet dispatched
    done,      \* responses to those that were
    answers,   \* the lines written back, with the lines they answer
    down       \* an exception has left a thread: the process is gone

rpcVars == <<line, todo, done, answers, down>>
allVars == <<vars, rpcVars>>

NoLine == [form |-> "none", calls |-> <<>>]

ParseError     == -32700
InvalidRequest == -32600
MethodNotFound == -32601
InvalidParams  == -32602
InternalError  == -32603
Success        == 0

JsonId(id) == IF id = "" THEN "null" ELSE id

(* Mutant: the value is not cut down to the type of the parameter. *)
AsUintWide(x) == x

(* get<int>() and get<uint32_t>() of a JSON integer. *)
AsInt(x)  == ((x + Word32 \div 2) % Word32) - Word32 \div 2
AsUint(x) == x % Word32

RpcInit ==
    /\ Init
    /\ line = [c \in Conns |-> NoLine]
    /\ todo = [c \in Conns |-> <<>>]
    /\ done = [c \in Conns |-> <<>>]
    /\ answers = [c \in Conns |-> <<>>]
    /\ down = FALSE

-----------------------------------------------------------------------------
(* Mutant: an error response does not carry the id of its request. *)
ResponseErrorNoId(id, code) ==
    [id |-> IF code = Success THEN JsonId(id) ELSE "null", code |-> code]

(* makeErrorResponse / makeSuccessResponse, reduced to id and code. *)
Response(id, code) == [id |-> JsonId(id), code |-> code]

(* processSingleRequest and the checks at the head of each handler, in     *)
(* their order: presence, types (which throw), range.                      *)
Code(q) ==
    CASE q.shape = "invalid"                                  -> InvalidRequest
      [] q.shape = "good" /\ q.method \notin Methods          -> MethodNotFound
      [] q.shape = "good" /\ q.method = "get_relays"          -> Success
      [] q.shape = "good" /\ q.params = "missing"             -> InvalidParams
      [] q.shape = "good" /\ q.params = "type"                -> InternalError
      [] q.shape = "good" /\ AsInt(q.relay) \notin Relays     -> InvalidParams
      [] OTHER                                                -> Success

(* Mutant: start_pulse calls startTimer. *)
ExecutePulseAsTimer(q) ==
    LET r == AsInt(q.relay) IN
    CASE q.method = "set_relay"   -> SetRelay(r, q.args[1] = 1)
      [] q.method \in {"start_timer", "start_pulse"} ->
            StartTimer(r, AsUint(q.args[1]))
      [] q.method = "start_blink" ->
            StartBlink(r, AsUint(q.args[1]), AsUint(q.args[2]), AsUint(q.args[3]))
      [] OTHER                    -> UNCHANGED vars

(* The call of the controller a request that passed its checks makes. *)
Execute(q) ==
    LET r == AsInt(q.relay) IN
    CASE q.method = "set_relay"   -> SetRelay(r, q.args[1] = 1)
      [] q.method = "start_timer" -> StartTimer(r, AsUint(q.args[1]))
      [] q.method = "start_pulse" -> StartPulse(r, AsUint(q.args[1]))
      [] q.method = "start_blink" ->
            StartBlink(r, AsUint(q.args[1]), AsUint(q.args[2]), AsUint(q.args[3]))
      [] OTHER                    -> UNCHANGED vars

(* A line arrives.  One that does not parse and an empty batch are         *)
(* answered at once.                                                       *)
TakeLine(c, l) ==
    /\ line[c] = NoLine /\ Len(answers[c]) < MaxLines /\ l.form # "not utf8"
    /\ line' = [line EXCEPT ![c] = l]
    /\ todo' = [todo EXCEPT ![c] = l.calls]
    /\ done' = [done EXCEPT ![c] =
          IF l.form = "garbled" THEN <<Response("", ParseError)>>
          ELSE IF l.calls = <<>> THEN <<Response("", InvalidRequest)>>
          ELSE <<>>]
    /\ UNCHANGED <<vars, answers, down>>

(* The error of a line that does not parse quotes the bytes it stopped at; *)
(* if they are not UTF-8, dump() throws, outside the try block.            *)
TakeLineThrows(c, l) ==
    /\ line[c] = NoLine /\ Len(answers[c]) < MaxLines /\ l.form = "not utf8"
    /\ line' = [line EXCEPT ![c] = l] /\ down' = TRUE
    /\ UNCHANGED <<vars, todo, done, answers>>

Busy(c) == line[c] # NoLine /\ todo[c] # <<>>

Dispatch(c) ==
    /\ Busy(c) /\ Head(todo[c]).shape # "method"
    /\ LET q == Head(todo[c]) IN
          /\ IF Code(q) = Success THEN Execute(q) ELSE UNCHANGED vars
          /\ done' = [done EXCEPT ![c] = Append(@, Response(q.id, Code(q)))]
    /\ todo' = [todo EXCEPT ![c] = Tail(@)]
    /\ UNCHANGED <<line, answers, down>>

(* The conversion of "method" to a string throws outside the try block. *)
DispatchThrows(c) ==
    /\ Busy(c) /\ Head(todo[c]).shape = "method"
    /\ down' = TRUE
    /\ UNCHANGED <<vars, line, todo, done, answers>>

(* Mutant: a line with an error in it is not answered. *)
AnswerOnlySuccess(c) ==
    /\ line[c] # NoLine /\ todo[c] = <<>>
    /\ \A i \in DOMAIN done[c] : done[c][i].code = Success
    /\ answers' = [answers EXCEPT ![c] =
          Append(@, [line |-> line[c], responses |-> done[c]])]
    /\ line' = [line EXCEPT ![c] = NoLine]
    /\ done' = [done EXCEPT ![c] = <<>>]
    /\ UNCHANGED <<vars, todo, down>>

(* The response line is written: a list for a batch that has requests. *)
Answer(c) ==
    /\ line[c] # NoLine /\ todo[c] = <<>>
    /\ answers' = [answers EXCEPT ![c] =
          Append(@, [line |-> line[c], responses |-> done[c]])]
    /\ line' = [line EXCEPT ![c] = NoLine]
    /\ done' = [done EXCEPT ![c] = <<>>]
    /\ UNCHANGED <<vars, todo, down>>

TickThread == (Tick \/ Elapse) /\ UNCHANGED rpcVars

RpcNext ==
    /\ ~down
    /\ \/ \E c \in Conns, l \in Lines : TakeLine(c, l) \/ TakeLineThrows(c, l)
       \/ \E c \in Conns : Dispatch(c) \/ DispatchThrows(c) \/ Answer(c)
       \/ TickThread

RpcSpec == RpcInit /\ [][RpcNext]_allVars

RpcFairSpec ==
    /\ RpcSpec
    /\ \A c \in Conns :
          WF_allVars(~down /\ (Dispatch(c) \/ DispatchThrows(c) \/ Answer(c)))

-----------------------------------------------------------------------------
(* What is left of a line is what follows the requests responded to; a     *)
(* line without requests has nothing left and one response at most.        *)
Remaining(l, t, d) ==
    IF l.calls = <<>> THEN t = <<>> /\ Len(d) <= 1
    ELSE t = SubSeq(l.calls, Len(d) + 1, Len(l.calls))

(* What the routing keeps: the relay table stays typed and every number in *)
(* it in its word under arguments of any size, what is left of a line is a *)
(* suffix of it, one request shorter with each response, and every         *)
(* response carries a known code.                                          *)
RpcTypeOK ==
    /\ TypeOK
    /\ \A r \in Relays :
          /\ rs[r].blinkCount < Word32 /\ rs[r].durationMs < Word64
          /\ rs[r].blinkOnMs < Word32 /\ rs[r].blinkOffMs < Word32
    /\ \A c \in Conns :
          /\ Remaining(line[c], todo[c], done[c])
          /\ \A i \in DOMAIN done[c] : done[c][i].code \in
                {Success, ParseError, InvalidRequest, MethodNotFound,
                 InvalidParams, InternalError}

(* The responses s answer the requests calls: each belongs to one of them  *)
(* and carries its id, they come in the order of the requests, and no      *)
(* request that has an id goes without.  A notification may or may not     *)
(* have one.                                                               *)
Pairs(calls, s) ==
    \E pos \in [DOMAIN s -> DOMAIN calls] :
        /\ \A j, k \in DOMAIN s : j < k => pos[j] < pos[k]
        /\ \A k \in DOMAIN s : s[k].id = JsonId(calls[pos[k]].id)
        /\ \A i \in DOMAIN calls :
              calls[i].id # "" => \E k \in DOMAIN s : pos[k] = i

(* The requests of a batch are answered one by one, in their order and     *)
(* with their own ids, whatever other connections and the tick thread do   *)
(* in between and whichever of them fail; a line that cannot be dispatched *)
(* gets exactly one error without an id.  Nothing is asked of              *)
(* notifications: jsonrpc_router.cc:36-47 is prepared to write nothing for *)
(* them, but processSingleRequest (54-87) returns a response with id null  *)
(* for each, which Dispatch has.                                           *)
AnswersMatch ==
    \A c \in Conns : \A i \in DOMAIN answers[c] :
        LET a == answers[c][i]
        IN  IF a.line.calls = <<>>
            THEN /\ Len(a.responses) = 1
                 /\ a.responses[1].id = "null" /\ a.responses[1].code # Success
            ELSE Pairs(a.line.calls, a.responses)

(* A response tells the truth: success is reported for a command exactly   *)
(* when the channel get<int>() makes of the id is afterwards under the     *)
(* command's mode, its line drives the level unless the line may refuse    *)
(* writes, and no other channel and line is touched; an error leaves all   *)
(* of them alone.  For a line that refuses, success is reported as well:   *)
(* setRelay returns true whatever the write did, and the error of          *)
(* main.cc:323-325 is never sent.                                          *)
ModeOf(method) ==
    CASE method = "set_relay"   -> "TOGGLE"
      [] method = "start_timer" -> "TIMER"
      [] method = "start_pulse" -> "PULSE"
      [] method = "start_blink" -> "BLINK"

Reported(c) == done'[c][Len(done'[c])].code

ReportsTruly(c) ==
    todo[c] # <<>> /\ todo'[c] = Tail(todo[c]) =>
      LET q == Head(todo[c])
          r == AsInt(q.relay)
      IN
        IF Reported(c) # Success THEN UNCHANGED <<rs, pin>>
        ELSE q.method \in Commands =>
               /\ r \in Relays
               /\ rs'[r].mode = ModeOf(q.method)
               /\ rs'[r].state = (q.method # "set_relay" \/ q.args[1] = 1)
               /\ r \notin FaultyLines => pin'[r] = rs'[r].state
               /\ \A o \in Relays \ {r} : rs'[o] = rs[o] /\ pin'[o] = pin[o]

SuccessMeansDone == [][\A c \in Conns : ReportsTruly(c)]_allVars

(* A line that was taken is answered, unless the process is gone.          *)
EveryLineAnswered ==
    \A c \in Conns : line[c] # NoLine ~> (line[c] = NoLine \/ down)

=============================================================================
