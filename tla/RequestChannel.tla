--------------------------- MODULE RequestChannel ---------------------------
(***************************************************************************)
(* What a client of minihild may rely on, connection by connection:        *)
(* requests are served once and in the order they were sent, answers come  *)
(* back once and in that order, and what is lost is lost at the end, when  *)
(* the connection is broken.  An answer bears its request.                 *)
(*                                                                         *)
(* A connection that is left behind may still have requests that the       *)
(* daemon serves, but none of its answers is delivered any more.           *)
(***************************************************************************)
EXTENDS Naturals, Sequences

CONSTANTS
    Conns,      \* connections, numbered in the order they are made
    Messages    \* requests

VARIABLES
    current,    \* the connection the client has, 0 before the first
    whole,      \* connections that are not broken
    requests,   \* requests[k]: sent on k and not served
    answers,    \* answers[k]: served and not delivered
    delivered   \* <<connection, answer>>, in the order of delivery

cvars == <<current, whole, requests, answers, delivered>>

CInit ==
    /\ current = 0 /\ whole = {}
    /\ requests = [k \in Conns |-> <<>>]
    /\ answers = [k \in Conns |-> <<>>]
    /\ delivered = <<>>

(* The client gives up its connection, if it has one, before it connects. *)
Connect(k) ==
    /\ k > current /\ current \notin whole
    /\ current' = k /\ whole' = whole \union {k}
    /\ UNCHANGED <<requests, answers, delivered>>

Ask(m) ==
    /\ current \in whole
    /\ requests' = [requests EXCEPT ![current] = Append(@, m)]
    /\ UNCHANGED <<current, whole, answers, delivered>>

Serve(k) ==
    /\ requests[k] # <<>>
    /\ requests' = [requests EXCEPT ![k] = Tail(@)]
    /\ \/ answers' = [answers EXCEPT ![k] = Append(@, Head(requests[k]))]
       \/ k \notin whole /\ UNCHANGED answers
    /\ UNCHANGED <<current, whole, delivered>>

Deliver ==
    /\ current \in Conns /\ answers[current] # <<>>
    /\ delivered' = Append(delivered, <<current, Head(answers[current])>>)
    /\ answers' = [answers EXCEPT ![current] = Tail(@)]
    /\ UNCHANGED <<current, whole, requests>>

(* A connection breaks, or is broken: the end of what was under way is     *)
(* lost, on either way.                                                    *)
Break(k) ==
    /\ whole' = whole \ {k}
    /\ \E i \in 0 .. Len(requests[k]), j \in 0 .. Len(answers[k]) :
          /\ requests' = [requests EXCEPT ![k] = SubSeq(@, 1, i)]
          /\ answers' = [answers EXCEPT ![k] = SubSeq(@, 1, j)]
    /\ UNCHANGED <<current, delivered>>

CNext ==
    \/ \E k \in Conns : Connect(k) \/ Serve(k) \/ Break(k)
    \/ \E m \in Messages : Ask(m)
    \/ Deliver

CSpec == CInit /\ [][CNext]_cvars
=============================================================================
