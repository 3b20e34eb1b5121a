--------------------------- MODULE ExchangeContract ---------------------------
(***************************************************************************)
(* What exchangePcscFunction (Driver/persoSimConnect.cpp) promises to the  *)
(* handlers and polling threads that call it: the simulator sees each      *)
(* request at most once, and an exchange returns what the simulator has    *)
(* said to this very request, or an error.  After an error the simulator   *)
(* may have served the request, may still serve it, or may never see it.   *)
(*                                                                         *)
(* Connections, the mutex, the handshake and the server's life are not to  *)
(* be seen from here.                                                      *)
(***************************************************************************)
EXTENDS Naturals

CONSTANT Threads

VARIABLES
  calls,    \* the number of exchanges each thread has begun
  stage,    \* where its latest exchange stands
  outcome,  \* what that exchange has returned, "none" before it has
  asked,    \* exchanges whose request is on its way to the simulator
  served    \* exchanges whose reply is on its way to the driver

vars == <<calls, stage, outcome, asked, served>>

Stages == {"idle", "begun", "sent"}

Outcomes == {"none", "reply", "error"}

Latest(t) == <<t, calls[t]>>

Init ==
  /\ calls = [t \in Threads |-> 0]
  /\ stage = [t \in Threads |-> "idle"]
  /\ outcome = [t \in Threads |-> "none"]
  /\ asked = {} /\ served = {}

(* A call, which begins an exchange or is refused at once.                 *)
Call(t) ==
  /\ stage[t] = "idle"
  /\ calls' = [calls EXCEPT ![t] = @ + 1]
  /\ \/ /\ stage' = [stage EXCEPT ![t] = "begun"]
        /\ outcome' = [outcome EXCEPT ![t] = "none"]
     \/ /\ outcome' = [outcome EXCEPT ![t] = "error"]
        /\ UNCHANGED stage
  /\ UNCHANGED <<asked, served>>

(* The request is sent, once; the network may have lost its peer.          *)
Send(t) ==
  /\ stage[t] = "begun"
  /\ stage' = [stage EXCEPT ![t] = "sent"]
  /\ asked' \in {asked, asked \cup {Latest(t)}}
  /\ UNCHANGED <<calls, outcome, served>>

(* The simulator serves a request and replies.                             *)
Serve(e) ==
  /\ e \in asked
  /\ asked' = asked \ {e}
  /\ served' = served \cup {e}
  /\ UNCHANGED <<calls, stage, outcome>>

(* The simulator goes, with the requests it has not served.                *)
Lose ==
  /\ asked' \in SUBSET asked
  /\ UNCHANGED <<calls, stage, outcome, served>>

ReturnReply(t) ==
  /\ stage[t] = "sent"
  /\ Latest(t) \in served
  /\ served' = served \ {Latest(t)}
  /\ stage' = [stage EXCEPT ![t] = "idle"]
  /\ outcome' = [outcome EXCEPT ![t] = "reply"]
  /\ UNCHANGED <<calls, asked>>

ReturnError(t) ==
  /\ stage[t] # "idle"
  /\ stage' = [stage EXCEPT ![t] = "idle"]
  /\ outcome' = [outcome EXCEPT ![t] = "error"]
  /\ UNCHANGED <<calls, asked, served>>

Next ==
  \/ \E t \in Threads : Call(t) \/ Send(t) \/ ReturnReply(t) \/ ReturnError(t)
  \/ \E e \in asked : Serve(e)
  \/ Lose

Spec == Init /\ [][Next]_vars
=============================================================================
