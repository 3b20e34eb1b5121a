---------------------------- MODULE RequestLedger ----------------------------
(***************************************************************************)
(* What the sender of a tracking request (IS_PRESENT, IS_ABSENT) may rely  *)
(* on, whatever lists and threads the driver uses: a request that the      *)
(* driver has accepted is answered at most once; it is answered            *)
(* "cancelled" only if its sender has asked for that; and once the         *)
(* framework has turned to OnCancel for it, it is not answered "success".  *)
(* Driver/device.cpp is written against this contract of the framework;    *)
(* PendingRequests implements it.                                          *)
(***************************************************************************)
EXTENDS Sequences

CONSTANT Requests

VARIABLES
  accepted,         \* the requests the driver has been given
  cancelRequested,  \* the requests whose sender has asked for cancellation
  handedOver,       \* the requests the framework has turned to OnCancel for
  replies           \* the answers given to each request

vars == <<accepted, cancelRequested, handedOver, replies>>

Init ==
  /\ accepted = {}
  /\ cancelRequested = {}
  /\ handedOver = {}
  /\ replies = [r \in Requests |-> <<>>]

Accept(r) ==
  /\ r \notin accepted
  /\ accepted' = accepted \cup {r}
  /\ UNCHANGED <<cancelRequested, handedOver, replies>>

Open(r) == r \in accepted /\ replies[r] = <<>>

(* The sender cancels; OnCancel may become responsible in the same step.   *)
AskCancel(r) ==
  /\ Open(r)
  /\ r \notin cancelRequested
  /\ cancelRequested' = cancelRequested \cup {r}
  /\ handedOver' \in {handedOver, handedOver \cup {r}}
  /\ UNCHANGED <<accepted, replies>>

HandOver(r) ==
  /\ Open(r)
  /\ r \in cancelRequested \ handedOver
  /\ handedOver' = handedOver \cup {r}
  /\ UNCHANGED <<accepted, cancelRequested, replies>>

Succeed(r) ==
  /\ Open(r)
  /\ r \notin handedOver
  /\ replies' = [replies EXCEPT ![r] = <<"success">>]
  /\ UNCHANGED <<accepted, cancelRequested, handedOver>>

ReportCancelled(r) ==
  /\ Open(r)
  /\ r \in handedOver
  /\ replies' = [replies EXCEPT ![r] = <<"cancelled">>]
  /\ UNCHANGED <<accepted, cancelRequested, handedOver>>

Next == \E r \in Requests :
  Accept(r) \/ AskCancel(r) \/ HandOver(r) \/ Succeed(r) \/ ReportCancelled(r)

Spec == Init /\ [][Next]_vars
=============================================================================
