------------------------ MODULE PendingRequestsProofs ------------------------
(***************************************************************************)
(* What holds of PendingRequests for any sets of requests and whatever     *)
(* CreateThread and Sleep do: its types, that a request is answered at     *)
(* most once, and that it implements RequestLedger.                        *)
(***************************************************************************)
EXTENDS PendingRequests, SequenceTheorems, TLAPS

(* Removing a request from a list leaves a list of requests.               *)
LEMMA WithoutType ==
  ASSUME NEW list \in Seq(Requests), NEW r
  PROVE  Without(list, r) \in Seq(Requests)
<1>1. CASE r \notin ToSet(list)
  BY <1>1 DEF Without
<1>2. CASE r \in ToSet(list)
  <2> DEFINE i == CHOOSE j \in DOMAIN list : list[j] = r
  <2>1. i \in DOMAIN list
    BY <1>2 DEF ToSet
  <2>2. i \in 1 .. Len(list) /\ Len(list) \in Nat
    BY <2>1, LenProperties
  <2>3. SubSeq(list, 1, i - 1) \in Seq(Requests)
    <3>1. \A j \in 1 .. i - 1 : list[j] \in Requests
      BY <2>2, ElementOfSeq
    <3> QED
      BY <2>2, <3>1, SubSeqProperties
  <2>4. SubSeq(list, i + 1, Len(list)) \in Seq(Requests)
    <3>1. \A j \in i + 1 .. Len(list) : list[j] \in Requests
      BY <2>2, ElementOfSeq
    <3> QED
      BY <2>2, <3>1, SubSeqProperties
  <2>5. RemoveAt(list, i) \in Seq(Requests)
    BY <2>3, <2>4, ConcatProperties DEF RemoveAt
  <2> QED
    BY <1>2, <2>5 DEF Without
<1> QED
  BY <1>1, <1>2

(* A waiting list's front is a request, and what is behind it is a list.   *)
LEMMA FrontOfList ==
  ASSUME TypeOK, NEW k \in Kinds, waitIpr[k] # <<>>
  PROVE  /\ Head(waitIpr[k]) \in Requests
         /\ Tail(waitIpr[k]) \in Seq(Requests)
<1>1. waitIpr[k] \in Seq(Requests)
  BY DEF TypeOK
<1> QED
  BY <1>1, HeadTailProperties

(* Every request belongs to one of the two lists.                          *)
LEMMA KindType == \A r : Kind(r) \in Kinds
BY DEF Kind, Kinds

-----------------------------------------------------------------------------
(* Types.                                                                  *)

(* The initial state is well typed.                                        *)
LEMMA InitType == Init => TypeOK
<1> SUFFICES ASSUME Init
             PROVE  TypeOK
  OBVIOUS
<1>1. <<>> \in Seq(Requests) /\ <<>> \in Seq(Statuses)
  BY EmptySeq
<1>2. /\ waitIpr \in [Kinds -> Seq(Requests)]
      /\ replies \in [Requests -> Seq(Statuses)]
  BY <1>1 DEF Init
<1>3. callback \in [at : CallbackSteps, request : Requests \cup {NoRequest},
                    newThread : BOOLEAN]
      /\ callback.at = "idle"
  BY DEF Init, Idle, CallbackSteps
<1>4. io \in [Requests -> IoStates] /\ pc \in [Requests -> PollerSteps]
  BY DEF Init, IoStates, PollerSteps
<1> QED
  BY <1>2, <1>3, <1>4 DEF Init, TypeOK

(* What completing a request does to the types of io and replies.          *)
LEMMA CompleteType ==
  ASSUME TypeOK, NEW r \in Requests, NEW s \in Statuses, Complete(r, s)
  PROVE  /\ io' \in [Requests -> IoStates]
         /\ replies' \in [Requests -> Seq(Statuses)]
<1>1. Append(replies[r], s) \in Seq(Statuses)
  BY AppendProperties DEF TypeOK
<1> QED
  BY <1>1 DEF Complete, TypeOK, IoStates

(* Using the answer of an exchange, whatever it is: in a handler...        *)
LEMMA HandlerAnswerType ==
  ASSUME TypeOK, NEW card, AnswerAtOnce(card) \/ MarkCancelable(card)
  PROVE  TypeOK'
<1> USE DEF TypeOK
<1>1. CASE AnswerAtOnce(card)
  <2>1. callback.request \in Requests /\ "success" \in Statuses
    BY <1>1 DEF AnswerAtOnce, Statuses
  <2> QED
    BY <1>1, <2>1, CompleteType DEF AnswerAtOnce, Idle, CallbackSteps
<1>2. CASE MarkCancelable(card)
  BY <1>2 DEF MarkCancelable, IoStates, CallbackSteps
<1> QED
  BY <1>1, <1>2

(* ... and in a thread.                                                    *)
LEMMA QueryCardType ==
  ASSUME TypeOK, NEW card, NEW p \in Requests, QueryCard(p, card)
  PROVE  TypeOK'
BY DEF TypeOK, QueryCard, FallAsleep, HandlerInWindow, Goto, PollerSteps,
       CallbackSteps

(* Every step leads from well-typed states to well-typed states.           *)
LEMMA NextType == TypeOK /\ [Next]_vars => TypeOK'
<1> SUFFICES ASSUME TypeOK, [Next]_vars
             PROVE  TypeOK'
  OBVIOUS
<1> USE DEF TypeOK
<1>1. ASSUME NEW r \in Requests, Dispatch(r)
      PROVE  TypeOK'
  BY <1>1 DEF Dispatch, Idle, IoStates, CallbackSteps
<1>2. CASE AnswerAtOnce(present)
  BY <1>2, HandlerAnswerType
<1>3. CASE MarkCancelable(present)
  BY <1>3, HandlerAnswerType
<1>4. CASE TestEmpty
  BY <1>4 DEF TestEmpty, CallbackSteps
<1>5. CASE PushAndCreateThread
  <2>1. callback.request \in Requests /\ Kind(callback.request) \in Kinds
    BY <1>5, KindType DEF PushAndCreateThread
  <2>2. Append(waitIpr[Kind(callback.request)], callback.request)
          \in Seq(Requests)
    BY <2>1, AppendProperties
  <2>3. waitIpr' \in [Kinds -> Seq(Requests)]
    BY <1>5, <2>1, <2>2 DEF PushAndCreateThread
  <2>4. /\ pc' \in [Requests -> PollerSteps]
        /\ \A p \in Requests : pc'[p] \in {"unmark", "complete", "pop"}
                                => cur'[p] \in Requests
    BY <1>5, <2>1 DEF PushAndCreateThread, PollerSteps
  <2> QED
    BY <1>5, <2>3, <2>4 DEF PushAndCreateThread, Idle, CallbackSteps
<1>6. ASSUME NEW r \in Requests, OnCancel(r)
      PROVE  TypeOK'
  BY <1>6 DEF OnCancel, Idle, IoStates, CallbackSteps
<1>7. CASE CompleteCancelled
  <2>1. callback.request \in Requests /\ Kind(callback.request) \in Kinds
    BY <1>7, KindType DEF CompleteCancelled
  <2>2. Without(waitIpr[Kind(callback.request)], callback.request)
          \in Seq(Requests)
    BY <2>1, WithoutType
  <2>3. waitIpr' \in [Kinds -> Seq(Requests)]
    BY <1>7, <2>1, <2>2 DEF CompleteCancelled
  <2>4. "cancelled" \in Statuses
    BY DEF Statuses
  <2>5. /\ io' \in [Requests -> IoStates]
        /\ replies' \in [Requests -> Seq(Statuses)]
    BY <1>7, <2>1, <2>4, CompleteType DEF CompleteCancelled
  <2> QED
    BY <1>7, <2>3, <2>5 DEF CompleteCancelled, Idle, CallbackSteps
<1>8. ASSUME NEW p \in Requests, TestOuter(p)
      PROVE  TypeOK'
  BY <1>8 DEF TestOuter, Goto, PollerSteps
<1>9. ASSUME NEW p \in Requests, QueryCard(p, present) \/ TestInner(p)
      PROVE  TypeOK'
  BY <1>9, QueryCardType DEF TestInner, FallAsleep, HandlerInWindow, Goto,
              PollerSteps, CallbackSteps
<1>10. ASSUME NEW p \in Requests, TakeFront(p)
       PROVE  TypeOK'
  <2>1. CASE waitIpr[Kind(p)] = <<>>
    BY <1>10, <2>1 DEF TakeFront
  <2>2. CASE waitIpr[Kind(p)] # <<>>
    <3>1. Head(waitIpr[Kind(p)]) \in Requests
      BY <2>2, FrontOfList, KindType
    <3>2. /\ pc' = [pc EXCEPT ![p] = "unmark"]
          /\ cur' = [cur EXCEPT ![p] = Head(waitIpr[Kind(p)])]
          /\ UNCHANGED <<present, waitIpr, io, cancelRequested, replies,
                         callback, window, undefined>>
      BY <1>10, <2>2 DEF TakeFront, Goto
    <3> QED
      BY <3>1, <3>2 DEF PollerSteps
  <2> QED
    BY <2>1, <2>2
<1>11. ASSUME NEW p \in Requests, UnmarkCancelable(p)
       PROVE  TypeOK'
  <2>1. cur[p] \in Requests
    BY <1>11 DEF UnmarkCancelable
  <2>2. /\ UNCHANGED <<present, waitIpr, cancelRequested, replies, callback,
                      cur, window>>
        /\ undefined' \in BOOLEAN
    BY <1>11 DEF UnmarkCancelable
  <2>3. io' \in [Requests -> IoStates]
    BY <1>11, <2>1 DEF UnmarkCancelable, IoStates
  <2>4. \/ pc' = [pc EXCEPT ![p] = "complete"]
        \/ pc' = [pc EXCEPT ![p] = "pop"]
        \/ pc' = pc
    BY <1>11 DEF UnmarkCancelable, Goto
  <2>5. /\ pc' \in [Requests -> PollerSteps]
        /\ \A q \in Requests : pc'[q] \in {"unmark", "complete", "pop"}
                                => cur'[q] \in Requests
    BY <2>1, <2>2, <2>4 DEF PollerSteps
  <2> QED
    BY <2>2, <2>3, <2>5
<1>12. ASSUME NEW p \in Requests, CompleteRequest(p)
       PROVE  TypeOK'
  <2>1. cur[p] \in Requests /\ "success" \in Statuses
    BY <1>12 DEF CompleteRequest, Statuses
  <2> QED
    BY <1>12, <2>1, CompleteType DEF CompleteRequest, Goto, PollerSteps
<1>13. ASSUME NEW p \in Requests, PopFront(p)
       PROVE  TypeOK'
  <2>1. CASE waitIpr[Kind(p)] = <<>>
    BY <1>13, <2>1 DEF PopFront
  <2>2. CASE waitIpr[Kind(p)] # <<>>
    <3>1. Kind(p) \in Kinds /\ Tail(waitIpr[Kind(p)]) \in Seq(Requests)
      BY <2>2, FrontOfList, KindType
    <3>2. /\ waitIpr' = [waitIpr EXCEPT ![Kind(p)] = Tail(waitIpr[Kind(p)])]
          /\ pc' = [pc EXCEPT ![p] = "inner"]
          /\ cur' = [cur EXCEPT ![p] = NoRequest]
          /\ UNCHANGED <<present, io, cancelRequested, replies, callback,
                         window, undefined>>
      BY <1>13, <2>2 DEF PopFront, Goto
    <3> QED
      BY <3>1, <3>2 DEF PollerSteps
  <2> QED
    BY <2>1, <2>2
<1>14. ASSUME NEW p \in Requests, WakeUp(p)
       PROVE  TypeOK'
  BY <1>14 DEF WakeUp, Goto, PollerSteps
<1>15. CASE ListRace
  BY <1>15 DEF ListRace
<1>16. CASE CardChanges
  BY <1>16 DEF CardChanges
<1>17. ASSUME NEW r \in Requests, Cancel(r)
       PROVE  TypeOK'
  BY <1>17 DEF Cancel, IoStates
<1>18. CASE UNCHANGED vars
  BY <1>18 DEF vars
<1> QED
  BY <1>1, <1>2, <1>3, <1>4, <1>5, <1>6, <1>7, <1>8, <1>9, <1>10, <1>11,
     <1>12, <1>13, <1>14, <1>15, <1>16, <1>17, <1>18
  DEF Next, Callback, Poller

(* The variables keep their types; a thread inside its inner loop always   *)
(* has a request in hand (device.cpp:59-180, 541-561).                     *)
THEOREM PendingRequestsType == Spec => []TypeOK
<1>1. Init => TypeOK
  BY InitType
<1>2. TypeOK /\ [Next]_vars => TypeOK'
  BY NextType
<1> QED
  BY <1>1, <1>2, PTL DEF Spec

-----------------------------------------------------------------------------
(* The right to complete.                                                  *)

Inv == TypeOK /\ OneCompleter

(* Initially nobody may complete anything, and nothing is answered.        *)
LEMMA InitOneCompleter == Init => OneCompleter
BY DEF Init, OneCompleter, Idle

(* A request whose completer answers it has exactly that answer.           *)
LEMMA CompleteOpen ==
  ASSUME TypeOK, NEW r \in Requests, NEW s \in Statuses,
         replies[r] = <<>>, Complete(r, s)
  PROVE  /\ replies' = [replies EXCEPT ![r] = <<s>>]
         /\ io' = [io EXCEPT ![r] = "done"]
         /\ Len(replies'[r]) = 1
<1>1. Append(replies[r], s) = <<s>>
  OBVIOUS
<1>2. Len(<<s>>) = 1
  OBVIOUS
<1> QED
  BY <1>1, <1>2 DEF Complete, TypeOK

(* Using the answer of an exchange, whatever it is: in a handler...        *)
LEMMA HandlerAnswerOneCompleter ==
  ASSUME TypeOK, OneCompleter, NEW card,
         AnswerAtOnce(card) \/ MarkCancelable(card)
  PROVE  OneCompleter'
<1> DEFINE r == callback.request
<1>1. callback.at = "query" /\ r \in Requests /\ io[r] = "owned"
  BY DEF AnswerAtOnce, MarkCancelable, OneCompleter, TypeOK
<1>2. \A p \in Requests : pc[p] = "complete" => cur[p] # r
  BY <1>1 DEF OneCompleter
<1>3. CASE AnswerAtOnce(card)
  <2>1. replies[r] = <<>>
    BY <1>1 DEF OneCompleter
  <2>2. /\ replies' = [replies EXCEPT ![r] = <<"success">>]
        /\ io' = [io EXCEPT ![r] = "done"]
        /\ Len(replies'[r]) = 1
    BY <1>1, <1>3, <2>1, CompleteOpen DEF AnswerAtOnce, Statuses
  <2> QED
    BY <1>1, <1>2, <1>3, <2>1, <2>2 DEF AnswerAtOnce, Idle, OneCompleter, TypeOK
<1>4. CASE MarkCancelable(card)
  BY <1>1, <1>2, <1>4 DEF MarkCancelable, OneCompleter, TypeOK
<1> QED
  BY <1>3, <1>4

(* ... and in a thread.                                                    *)
LEMMA QueryCardOneCompleter ==
  ASSUME TypeOK, OneCompleter, NEW card, NEW p \in Requests, QueryCard(p, card)
  PROVE  OneCompleter'
BY DEF QueryCard, FallAsleep, Goto, OneCompleter, TypeOK

(* Every step keeps it so.                                                 *)
LEMMA NextOneCompleter == Inv /\ [Next]_vars => OneCompleter'
<1> SUFFICES ASSUME TypeOK, OneCompleter, [Next]_vars
             PROVE  OneCompleter'
  BY DEF Inv
<1>1. ASSUME NEW r \in Requests, Dispatch(r)
      PROVE  OneCompleter'
  BY <1>1 DEF Dispatch, Idle, OneCompleter, TypeOK
<1>2. CASE AnswerAtOnce(present)
  BY <1>2, HandlerAnswerOneCompleter
<1>3. CASE MarkCancelable(present)
  BY <1>3, HandlerAnswerOneCompleter
<1>4. CASE TestEmpty
  BY <1>4 DEF TestEmpty, OneCompleter, TypeOK
<1>5. CASE PushAndCreateThread
  BY <1>5 DEF PushAndCreateThread, Idle, OneCompleter, TypeOK
<1>6. ASSUME NEW r \in Requests, OnCancel(r)
      PROVE  OneCompleter'
  <2>1. callback.at = "idle" /\ io[r] = "canceling" /\ replies[r] = <<>>
    BY <1>6 DEF OnCancel, Idle, OneCompleter
  <2>2. \A p \in Requests : pc[p] = "complete" => cur[p] # r
    BY <1>6 DEF OnCancel, OneCompleter
  <2>3. CASE callback' = [Idle EXCEPT !.at = "cancel", !.request = r]
             /\ UNCHANGED io
    BY <1>6, <2>1, <2>3 DEF OnCancel, Idle, OneCompleter
  <2>4. CASE io' = [io EXCEPT ![r] = "ignored"] /\ UNCHANGED callback
    BY <1>6, <2>1, <2>2, <2>4 DEF OnCancel, OneCompleter, TypeOK
  <2> QED
    BY <1>6, <2>3, <2>4 DEF OnCancel
<1>7. CASE CompleteCancelled
  <2> DEFINE r == callback.request
  <2>1. r \in Requests /\ io[r] = "canceling" /\ replies[r] = <<>>
    BY <1>7 DEF CompleteCancelled, OneCompleter, TypeOK
  <2>2. /\ replies' = [replies EXCEPT ![r] = <<"cancelled">>]
        /\ io' = [io EXCEPT ![r] = "done"]
        /\ Len(replies'[r]) = 1
    BY <1>7, <2>1, CompleteOpen DEF CompleteCancelled, Statuses
  <2> QED
    BY <1>7, <2>1, <2>2 DEF CompleteCancelled, Idle, OneCompleter, TypeOK
<1>8. ASSUME NEW p \in Requests, \/ TestOuter(p) \/ QueryCard(p, present)
                               \/ TestInner(p) \/ WakeUp(p)
      PROVE  OneCompleter'
  <2>1. CASE QueryCard(p, present)
    BY <2>1, QueryCardOneCompleter
  <2>2. CASE TestOuter(p) \/ TestInner(p) \/ WakeUp(p)
    <3>1. UNCHANGED <<io, replies, callback, cur>>
      BY <2>2 DEF TestOuter, TestInner, WakeUp
    <3>2. \A q \in Requests : pc'[q] = "complete" => pc[q] = "complete"
      BY <2>2 DEF TestOuter, TestInner, WakeUp, FallAsleep, Goto, TypeOK
    <3> QED
      BY <3>1, <3>2 DEF OneCompleter
  <2> QED
    BY <1>8, <2>1, <2>2
<1>9. ASSUME NEW p \in Requests, TakeFront(p) \/ PopFront(p)
      PROVE  OneCompleter'
  <2>1. UNCHANGED <<io, replies, callback>>
    BY <1>9 DEF TakeFront, PopFront
  <2>2. pc'[p] # "complete"
    BY <1>9 DEF TakeFront, PopFront, Goto, TypeOK
  <2>3. \A q \in Requests \ {p} : pc'[q] = pc[q] /\ cur'[q] = cur[q]
    BY <1>9 DEF TakeFront, PopFront, Goto, TypeOK
  <2> QED
    BY <2>1, <2>2, <2>3 DEF OneCompleter
<1>10. ASSUME NEW p \in Requests, UnmarkCancelable(p)
       PROVE  OneCompleter'
  <2>1. CASE io[cur[p]] = "cancelable"
    <3>1. cur[p] \in Requests
      BY <1>10 DEF UnmarkCancelable, TypeOK
    <3>2. io' = [io EXCEPT ![cur[p]] = "owned"]
          /\ pc' = [pc EXCEPT ![p] = "complete"]
      BY <1>10, <2>1 DEF UnmarkCancelable, Goto
    <3>3. \A q \in Requests : pc[q] = "complete" => cur[q] # cur[p]
      BY <2>1 DEF OneCompleter
    <3> QED
      BY <1>10, <2>1, <3>1, <3>2, <3>3
      DEF UnmarkCancelable, OneCompleter, TypeOK
  <2>2. CASE io[cur[p]] # "cancelable"
    BY <1>10, <2>2 DEF UnmarkCancelable, Goto, OneCompleter, TypeOK
  <2> QED
    BY <2>1, <2>2
<1>11. ASSUME NEW p \in Requests, CompleteRequest(p)
       PROVE  OneCompleter'
  <2>1. cur[p] \in Requests /\ io[cur[p]] = "owned" /\ replies[cur[p]] = <<>>
    BY <1>11 DEF CompleteRequest, OneCompleter, TypeOK
  <2>2. /\ replies' = [replies EXCEPT ![cur[p]] = <<"success">>]
        /\ io' = [io EXCEPT ![cur[p]] = "done"]
        /\ Len(replies'[cur[p]]) = 1
    BY <1>11, <2>1, CompleteOpen DEF CompleteRequest, Statuses
  <2>3. \A q \in Requests \ {p} : pc[q] = "complete" => cur[q] # cur[p]
    BY <1>11 DEF CompleteRequest, OneCompleter
  <2> QED
    BY <1>11, <2>1, <2>2, <2>3 DEF CompleteRequest, Goto, OneCompleter, TypeOK
<1>12. CASE ListRace \/ CardChanges \/ UNCHANGED vars
  BY <1>12 DEF ListRace, CardChanges, vars, OneCompleter
<1>13. ASSUME NEW r \in Requests, Cancel(r)
       PROVE  OneCompleter'
  BY <1>13 DEF Cancel, OneCompleter, TypeOK
<1> QED
  BY <1>1, <1>2, <1>3, <1>4, <1>5, <1>6, <1>7, <1>8, <1>9, <1>10, <1>11,
     <1>12, <1>13
  DEF Next, Callback, Poller

(* Inv is an invariant.                                                    *)
LEMMA InvHolds == Spec => []Inv
<1>1. Init => Inv
  BY InitType, InitOneCompleter DEF Inv
<1>2. Inv /\ [Next]_vars => Inv'
  BY NextType, NextOneCompleter DEF Inv
<1> QED
  BY <1>1, <1>2, PTL DEF Spec

(* At any time at most one of handler, OnCancel and threads may complete a *)
(* request, and nobody once it is answered.                                *)
THEOREM OneCompleterHolds == Spec => []OneCompleter
BY InvHolds, PTL DEF Inv

(* One completer means at most one answer.                                 *)
LEMMA OneAnswer == Inv => AnsweredOnce
<1> SUFFICES ASSUME Inv, NEW r \in Requests
             PROVE  Len(replies[r]) <= 1
  BY DEF AnsweredOnce
<1>1. \A n \in {0, 1} : n <= 1
  OBVIOUS
<1>2. replies[r] = <<>> => Len(replies[r]) = 0
  OBVIOUS
<1>3. Len(replies[r]) \in {0, 1}
  BY <1>2 DEF Inv, OneCompleter
<1> QED
  BY <1>1, <1>3, Zenon

(* No request is completed twice (device.cpp:64-66, 87, 137-139, 160, 560). *)
THEOREM AnsweredOnceHolds == Spec => []AnsweredOnce
BY InvHolds, OneAnswer, PTL

(* What is handed over to OnCancel stays so, or is answered "cancelled".   *)
(* No thread that still holds the pointer reports success for it           *)
(* (device.cpp:63-67, 136-140 against 541-560).                            *)
THEOREM CancelIsFinalHolds == Spec => CancelIsFinal
<1> DEFINE Final(r) == io[r] \in {"canceling", "ignored"} =>
             replies'[r] \in {replies[r], Append(replies[r], "cancelled")}
<1>1. ASSUME Inv, Next, NEW r \in Requests
      PROVE  Final(r)
  <2> USE DEF Inv
  <2>1. CASE AnswerAtOnce(present)
    <3>1. callback.request \in Requests /\ io[callback.request] = "owned"
      BY <1>1, <2>1 DEF AnswerAtOnce, OneCompleter, TypeOK
    <3>2. \A q \in Requests : q # callback.request => replies'[q] = replies[q]
      BY <1>1, <2>1 DEF AnswerAtOnce, Complete, TypeOK
    <3> QED
      BY <3>1, <3>2
  <2>2. CASE CompleteCancelled
    BY <1>1, <2>2 DEF CompleteCancelled, Complete, TypeOK
  <2>3. ASSUME NEW p \in Requests, CompleteRequest(p)
        PROVE  Final(r)
    <3>1. cur[p] \in Requests /\ io[cur[p]] = "owned"
      BY <1>1, <2>3 DEF CompleteRequest, OneCompleter, TypeOK
    <3>2. \A q \in Requests : q # cur[p] => replies'[q] = replies[q]
      BY <1>1, <2>3 DEF CompleteRequest, Complete, TypeOK
    <3> QED
      BY <3>1, <3>2
  <2>4. CASE UNCHANGED replies
    BY <2>4
  <2> QED
    BY <1>1, <2>1, <2>2, <2>3, <2>4
    DEF Next, Callback, Poller, Dispatch, MarkCancelable, TestEmpty,
        PushAndCreateThread, OnCancel, TestOuter, QueryCard, TestInner,
        TakeFront, UnmarkCancelable, PopFront, WakeUp, ListRace, CardChanges,
        Cancel
<1>2. Inv /\ [Next]_vars =>
        [\A r \in Requests :
           io[r] \in {"canceling", "ignored"} =>
             replies'[r] \in {replies[r], Append(replies[r], "cancelled")}]_vars
  BY <1>1
<1> QED
  BY <1>2, InvHolds, PTL DEF Spec, CancelIsFinal

-----------------------------------------------------------------------------
(* The refinement.                                                         *)

(* The set of the statuses of a request with one answer...                 *)
LEMMA OneReplySet == \A s : ToSet(<<s>>) = {s}
BY DEF ToSet

(* ... and of one without.                                                 *)
LEMMA NoReplySet == ToSet(<<>>) = {}
BY DEF ToSet

(* A step that leaves io and replies alone, or moves a request between     *)
(* states of io that the ledger does not tell apart, is a stutter.         *)
LEMMA LedgerStutter ==
  ASSUME UNCHANGED <<cancelRequested, replies>>,
         \A r \in Requests :
           /\ io[r] = "new" <=> io'[r] = "new"
           /\ io[r] \in {"canceling", "ignored"}
                <=> io'[r] \in {"canceling", "ignored"}
  PROVE  UNCHANGED Ledger!vars
<1>1. Accepted' = Accepted
  BY DEF Accepted
<1>2. HandedOver' = HandedOver
  BY DEF HandedOver
<1> QED
  BY <1>1, <1>2 DEF Ledger!vars, Accepted, HandedOver

(* The driver's initial state is the ledger's.                             *)
LEMMA InitLedger == Init => Ledger!Init
BY NoReplySet DEF Init, Ledger!Init, Accepted, HandedOver

(* Dispatching a request is the ledger's Accept step.                      *)
LEMMA LedgerAccept ==
  ASSUME Inv, NEW r \in Requests, Dispatch(r)
  PROVE  Ledger!Accept(r)
<1>1. io[r] = "new" /\ io' = [io EXCEPT ![r] = "owned"]
      /\ UNCHANGED <<cancelRequested, replies>>
  BY DEF Dispatch
<1>2. r \notin Accepted /\ Accepted' = Accepted \cup {r}
  BY <1>1 DEF Accepted, Inv, TypeOK
<1>3. HandedOver' = HandedOver
  BY <1>1 DEF HandedOver, Inv, TypeOK
<1> QED
  BY <1>1, <1>2, <1>3 DEF Ledger!Accept

(* Whoever owns a request and completes it takes the ledger's Succeed step. *)
LEMMA LedgerSucceed ==
  ASSUME Inv, NEW r \in Requests, io[r] = "owned", Complete(r, "success"),
         UNCHANGED cancelRequested
  PROVE  Ledger!Succeed(r)
<1>1. replies[r] = <<>>
  BY DEF Inv, OneCompleter
<1>2. /\ replies' = [replies EXCEPT ![r] = <<"success">>]
      /\ io' = [io EXCEPT ![r] = "done"]
  BY <1>1, CompleteOpen DEF Inv, Statuses
<1>3. r \in Accepted /\ r \notin HandedOver
  BY <1>1, NoReplySet DEF Accepted, HandedOver
<1>4. Accepted' = Accepted
  BY <1>2, <1>3 DEF Accepted, Inv, TypeOK
<1>5. HandedOver' = HandedOver
  <2>1. ToSet(replies'[r]) = {"success"}
    BY <1>2, OneReplySet DEF Inv, TypeOK
  <2>2. r \notin HandedOver'
    BY <1>2, <2>1 DEF HandedOver, Inv, TypeOK
  <2>3. \A q \in Requests \ {r} : q \in HandedOver' <=> q \in HandedOver
    BY <1>2 DEF HandedOver, Inv, TypeOK
  <2> QED
    BY <1>3, <2>2, <2>3 DEF HandedOver
<1> QED
  BY <1>1, <1>2, <1>3, <1>4, <1>5 DEF Ledger!Succeed, Ledger!Open

(* The answer "cancelled" by OnCancel is the ledger's ReportCancelled step. *)
LEMMA LedgerCancelled ==
  ASSUME Inv, NEW r \in Requests, io[r] = "canceling",
         Complete(r, "cancelled"), UNCHANGED cancelRequested
  PROVE  Ledger!ReportCancelled(r)
<1>1. replies[r] = <<>>
  BY DEF Inv, OneCompleter
<1>2. /\ replies' = [replies EXCEPT ![r] = <<"cancelled">>]
      /\ io' = [io EXCEPT ![r] = "done"]
  BY <1>1, CompleteOpen DEF Inv, Statuses
<1>3. r \in Accepted /\ r \in HandedOver
  BY DEF Accepted, HandedOver
<1>4. Accepted' = Accepted
  BY <1>2, <1>3 DEF Accepted, Inv, TypeOK
<1>5. HandedOver' = HandedOver
  <2>1. ToSet(replies'[r]) = {"cancelled"}
    BY <1>2, OneReplySet DEF Inv, TypeOK
  <2>2. r \in HandedOver'
    BY <2>1 DEF HandedOver
  <2>3. \A q \in Requests \ {r} : q \in HandedOver' <=> q \in HandedOver
    BY <1>2 DEF HandedOver, Inv, TypeOK
  <2> QED
    BY <1>3, <2>2, <2>3 DEF HandedOver
<1> QED
  BY <1>1, <1>2, <1>3, <1>4, <1>5 DEF Ledger!ReportCancelled, Ledger!Open

(* A sender's cancellation, with or without the framework's next move.     *)
LEMMA LedgerAskCancel ==
  ASSUME Inv, NEW r \in Requests, Cancel(r)
  PROVE  Ledger!AskCancel(r)
<1>1. /\ r \notin cancelRequested
      /\ io[r] \in {"owned", "cancelable"}
      /\ cancelRequested' = cancelRequested \cup {r}
      /\ io' \in {io, [io EXCEPT ![r] = "canceling"]}
      /\ UNCHANGED replies
  BY DEF Cancel, Inv, TypeOK
<1>2. replies[r] = <<>> /\ r \in Accepted
  BY <1>1 DEF Inv, OneCompleter, Accepted
<1>3. Accepted' = Accepted
  BY <1>1 DEF Accepted, Inv, TypeOK
<1>4. HandedOver' \in {HandedOver, HandedOver \cup {r}}
  <2>1. CASE io' = io
    BY <1>1, <2>1 DEF HandedOver
  <2>2. CASE io' = [io EXCEPT ![r] = "canceling"]
    BY <1>1, <2>2 DEF HandedOver, Inv, TypeOK
  <2> QED
    BY <1>1, <2>1, <2>2
<1> QED
  BY <1>1, <1>2, <1>3, <1>4 DEF Ledger!AskCancel, Ledger!Open

(* MarkCancelable of a request whose sender has cancelled already.         *)
LEMMA LedgerMark ==
  ASSUME Inv, NEW card, MarkCancelable(card)
  PROVE  Ledger!HandOver(callback.request) \/ UNCHANGED Ledger!vars
<1> DEFINE r == callback.request
<1>1. r \in Requests /\ io[r] = "owned" /\ replies[r] = <<>>
  BY DEF MarkCancelable, Inv, OneCompleter, TypeOK
<1>2. UNCHANGED <<cancelRequested, replies>>
  BY DEF MarkCancelable
<1>3. CASE r \in cancelRequested
  <2>1. \E s \in {"ignored", "canceling"} : io' = [io EXCEPT ![r] = s]
    BY <1>3 DEF MarkCancelable
  <2>2. r \in Accepted /\ r \notin HandedOver
    BY <1>1, NoReplySet DEF Accepted, HandedOver
  <2>3. Accepted' = Accepted
    BY <1>1, <2>1 DEF Accepted, Inv, TypeOK
  <2>4. HandedOver' = HandedOver \cup {r}
    BY <1>1, <1>2, <2>1 DEF HandedOver, Inv, TypeOK
  <2> QED
    BY <1>1, <1>2, <1>3, <2>2, <2>3, <2>4 DEF Ledger!HandOver, Ledger!Open
<1>4. CASE r \notin cancelRequested
  <2>1. io' = [io EXCEPT ![r] = "cancelable"]
    BY <1>4 DEF MarkCancelable
  <2> QED
    BY <1>1, <1>2, <2>1, LedgerStutter DEF Inv, TypeOK
<1> QED
  BY <1>3, <1>4

(* Using the answer of an exchange in a handler, whatever it is.           *)
LEMMA LedgerHandlerAnswer ==
  ASSUME Inv, NEW card, AnswerAtOnce(card) \/ MarkCancelable(card)
  PROVE  Ledger!Next \/ UNCHANGED Ledger!vars
<1>1. callback.request \in Requests /\ io[callback.request] = "owned"
  BY DEF AnswerAtOnce, MarkCancelable, Inv, OneCompleter, TypeOK
<1>2. CASE AnswerAtOnce(card)
  <2>1. Ledger!Succeed(callback.request)
    BY <1>1, <1>2, LedgerSucceed DEF AnswerAtOnce
  <2> QED
    BY <1>1, <2>1 DEF Ledger!Next
<1>3. CASE MarkCancelable(card)
  BY <1>1, <1>3, LedgerMark DEF Ledger!Next
<1> QED
  BY <1>2, <1>3

(* Every step of the driver is a step of the ledger, or a stutter.         *)
LEMMA NextLedger == Inv /\ [Next]_vars => [Ledger!Next]_Ledger!vars
<1> SUFFICES ASSUME Inv, [Next]_vars
             PROVE  Ledger!Next \/ UNCHANGED Ledger!vars
  OBVIOUS
<1>1. ASSUME NEW r \in Requests, Dispatch(r) \/ Cancel(r)
      PROVE  Ledger!Next
  BY <1>1, LedgerAccept, LedgerAskCancel DEF Ledger!Next
<1>2. CASE AnswerAtOnce(present)
  BY <1>2, LedgerHandlerAnswer
<1>3. CASE MarkCancelable(present)
  BY <1>3, LedgerHandlerAnswer
<1>4. CASE CompleteCancelled
  <2>1. callback.request \in Requests /\ io[callback.request] = "canceling"
    BY <1>4 DEF CompleteCancelled, Inv, OneCompleter, TypeOK
  <2>2. Ledger!ReportCancelled(callback.request)
    BY <1>4, <2>1, LedgerCancelled DEF CompleteCancelled
  <2> QED
    BY <2>1, <2>2 DEF Ledger!Next
<1>5. ASSUME NEW p \in Requests, CompleteRequest(p)
      PROVE  Ledger!Next
  <2>1. cur[p] \in Requests /\ io[cur[p]] = "owned"
    BY <1>5 DEF CompleteRequest, Inv, OneCompleter, TypeOK
  <2>2. Ledger!Succeed(cur[p])
    BY <1>5, <2>1, LedgerSucceed DEF CompleteRequest
  <2> QED
    BY <2>1, <2>2 DEF Ledger!Next
<1>6. ASSUME NEW r \in Requests, OnCancel(r)
      PROVE  UNCHANGED Ledger!vars
  <2>1. io[r] = "canceling" /\ io' \in {io, [io EXCEPT ![r] = "ignored"]}
        /\ UNCHANGED <<cancelRequested, replies>>
    BY <1>6 DEF OnCancel
  <2> QED
    BY <2>1, LedgerStutter DEF Inv, TypeOK
<1>7. ASSUME NEW p \in Requests, UnmarkCancelable(p)
      PROVE  UNCHANGED Ledger!vars
  <2>1. /\ \/ io' = io
           \/ /\ io[cur[p]] = "cancelable"
              /\ io' = [io EXCEPT ![cur[p]] = "owned"]
        /\ UNCHANGED <<cancelRequested, replies>>
    BY <1>7 DEF UnmarkCancelable
  <2> QED
    BY <2>1, LedgerStutter DEF Inv, TypeOK
<1>8. CASE UNCHANGED <<io, cancelRequested, replies>>
  BY <1>8, LedgerStutter
<1> QED
  BY <1>1, <1>2, <1>3, <1>4, <1>5, <1>6, <1>7, <1>8
  DEF Next, Callback, Poller, TestEmpty, PushAndCreateThread, TestOuter,
      QueryCard, TestInner, TakeFront, PopFront, WakeUp, ListRace,
      CardChanges, vars

(* The handlers, OnCancel and the threads together keep the contract of    *)
(* RequestLedger (device.cpp:59-108, 131-180, 541-561).                    *)
THEOREM PendingRequestsImplementLedger == Spec => ImplementsLedger
<1>1. Init => Ledger!Init
  BY InitLedger
<1>2. Inv /\ [Next]_vars => [Ledger!Next]_Ledger!vars
  BY NextLedger
<1> QED
  BY <1>1, <1>2, InvHolds, PTL DEF Spec, ImplementsLedger, Ledger!Spec
=============================================================================
