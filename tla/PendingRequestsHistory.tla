----------------------- MODULE PendingRequestsHistory -----------------------
(***************************************************************************)
(* PendingRequests with a history variable that its code does not have:    *)
(* the requests for which the card has been as wanted at some time since   *)
(* they were dispatched.                                                   *)
(***************************************************************************)
EXTENDS PendingRequests

VARIABLE satisfied

Satisfied(r) == io[r] # "new" /\ Wanted(Kind(r), present)

HInit == Init /\ satisfied = {}

HNext ==
  /\ Next
  /\ satisfied' = satisfied \cup {r \in Requests : Satisfied(r) \/ Satisfied(r)'}

HSpec == HInit /\ [][HNext]_<<vars, satisfied>>

(* A success tells the sender what was the case at some time since it      *)
(* asked: the thread is started "to handle the request when the card is    *)
(* inserted" (device.cpp:95), "when the card is removed" (168).  But the   *)
(* inner loop goes on to complete what is pushed after its PSIMICCPresent  *)
(* (device.cpp:61-68, 134-141).                                            *)
SuccessIsTrue ==
  \A r \in Requests : replies[r] = <<"success">> => r \in satisfied
=============================================================================
