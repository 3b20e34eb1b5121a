--------------------------- MODULE PendingRequests ---------------------------
(***************************************************************************)
(* The tracking requests of the reader: IOCTL_SMARTCARD_IS_PRESENT and     *)
(* IOCTL_SMARTCARD_IS_ABSENT (Driver/device.cpp).  A request that cannot   *)
(* be answered at once is marked cancelable and put into waitInsertIpr or  *)
(* waitRemoveIpr; a thread polls the card and completes what waits.        *)
(*                                                                         *)
(* Two worlds meet here.  The ioctl handlers and OnCancel are framework    *)
(* callbacks, one at a time under the device lock that CreateInstance asks *)
(* for.  The polling threads come from CreateThread and take no lock.  So  *)
(* a thread is interleaved statement by statement, with the callbacks and  *)
(* with the other threads.                                                 *)
(***************************************************************************)
EXTENDS Naturals, Sequences, SequencesExt

CONSTANTS
  InsertRequests,       \* the IS_PRESENT requests: they wait for a card
  RemoveRequests,       \* the IS_ABSENT requests: they wait for its removal
  NoRequest,            \* no request
  ThreadCreationFails,  \* may CreateThread fail (its result is not looked at)?
  SleepOutlastsHandler  \* is Sleep(SLEEP_TIME) longer than the few
                        \* instructions between a handler's empty() and its
                        \* push_back()?

Requests == InsertRequests \cup RemoveRequests

ASSUME RequestsAssumption ==
  /\ InsertRequests \cap RemoveRequests = {}
  /\ NoRequest \notin Requests

ASSUME SwitchesAssumption ==
  /\ ThreadCreationFails \in BOOLEAN
  /\ SleepOutlastsHandler \in BOOLEAN

VARIABLES
  present,          \* would PSIMICCPresent() answer PCSC_ICC_PRESENT?
  waitIpr,          \* waitInsertIpr and waitRemoveIpr
  io,               \* what the framework knows of a request
  cancelRequested,  \* the requests whose sender has asked for cancellation
  replies,          \* the statuses a request has been completed with
  callback,         \* the framework callback that holds the device lock
  pc,               \* where the thread created for a request stands
  cur,              \* that thread's curRequest
  window,           \* the handler inside its empty()/push_back() window when
                    \* the thread began to sleep
  undefined         \* has the process done something C++ leaves undefined?

vars == <<present, waitIpr, io, cancelRequested, replies, callback, pc, cur,
          window, undefined>>

Kinds == {"Insert", "Remove"}

Kind(r) == IF r \in InsertRequests THEN "Insert" ELSE "Remove"

(* The framework's view of a request.                                      *)
(*   "new"        not yet dispatched to the driver                         *)
(*   "owned"      the driver's alone: dispatched, or taken back by         *)
(*                UnmarkCancelable                                         *)
(*   "cancelable" marked cancelable                                        *)
(*   "canceling"  cancelled while cancelable: OnCancel is to run or runs   *)
(*   "ignored"    OnCancel has returned without completing the request     *)
(*   "done"       completed; the object may be gone                        *)
IoStates == {"new", "owned", "cancelable", "canceling", "ignored", "done"}

Statuses == {"success", "cancelled"}

PollerSteps == {"none", "outer", "query", "inner", "front", "unmark",
                "complete", "pop", "sleep"}

CallbackSteps == {"idle", "query", "test", "push", "cancel"}

Idle == [at |-> "idle", request |-> NoRequest, newThread |-> FALSE]

(* Is this answer of PSIMICCPresent() what requests of this kind wait for? *)
Wanted(k, card) == IF k = "Insert" THEN card ELSE ~card

(* CompleteWithInformation.                                                *)
Complete(r, status) ==
  /\ replies' = [replies EXCEPT ![r] = Append(@, status)]
  /\ io' = [io EXCEPT ![r] = "done"]

(* std::list::remove of a request, which is in a list at most once.        *)
Without(list, r) ==
  IF r \in ToSet(list)
  THEN RemoveAt(list, CHOOSE i \in DOMAIN list : list[i] = r)
  ELSE list

Init ==
  /\ present \in BOOLEAN
  /\ waitIpr = [k \in Kinds |-> <<>>]
  /\ io = [r \in Requests |-> "new"]
  /\ cancelRequested = {}
  /\ replies = [r \in Requests |-> <<>>]
  /\ callback = Idle
  /\ pc = [r \in Requests |-> "none"]
  /\ cur = [r \in Requests |-> NoRequest]
  /\ window = [r \in Requests |-> NoRequest]
  /\ undefined = FALSE

-----------------------------------------------------------------------------
(* Callbacks: IoSmartCardIsPresent, IoSmartCardIsAbsent, OnCancel.         *)

(* The framework dispatches a request; the handler asks for the card.      *)
Dispatch(r) ==
  /\ callback = Idle
  /\ io[r] = "new"
  /\ io' = [io EXCEPT ![r] = "owned"]
  /\ callback' = [Idle EXCEPT !.at = "query", !.request = r]
  /\ UNCHANGED <<present, waitIpr, cancelRequested, replies, pc, cur, window,
                 undefined>>

(* The card is as wanted: the request is completed and the handler returns. *)
AnswerAtOnce(card) ==
  /\ callback.at = "query"
  /\ Wanted(Kind(callback.request), card)
  /\ Complete(callback.request, "success")
  /\ callback' = Idle
  /\ UNCHANGED <<present, waitIpr, cancelRequested, pc, cur, window,
                 undefined>>

(* MarkCancelable.  If the sender has cancelled already, the framework     *)
(* calls OnCancel there and then, which finds the request in no list and   *)
(* ignores it, or it calls OnCancel once the lock is free.                 *)
MarkCancelable(card) ==
  /\ callback.at = "query"
  /\ ~Wanted(Kind(callback.request), card)
  /\ \E s \in IF callback.request \in cancelRequested
              THEN {"ignored", "canceling"} ELSE {"cancelable"} :
       io' = [io EXCEPT ![callback.request] = s]
  /\ callback' = [callback EXCEPT !.at = "test"]
  /\ UNCHANGED <<present, waitIpr, cancelRequested, replies, pc, cur, window,
                 undefined>>

(* Mutant: empty() is asked after the push_back, when it is always false.  *)
TestEmptyAfterPush ==
  /\ callback.at = "test"
  /\ callback' = [callback EXCEPT !.at = "push", !.newThread = FALSE]
  /\ UNCHANGED <<present, waitIpr, io, cancelRequested, replies, pc, cur,
                 window, undefined>>

(* bool requireNewThread = list.empty().                                   *)
TestEmpty ==
  /\ callback.at = "test"
  /\ callback' = [callback EXCEPT
                    !.at = "push",
                    !.newThread = waitIpr[Kind(callback.request)] = <<>>]
  /\ UNCHANGED <<present, waitIpr, io, cancelRequested, replies, pc, cur,
                 window, undefined>>

(* Mutant: push_front instead of push_back.                                *)
PushFrontAndCreateThread ==
  /\ callback.at = "push"
  /\ waitIpr' = [waitIpr EXCEPT ![Kind(callback.request)] =
                   <<callback.request>> \o @]
  /\ pc' = IF callback.newThread
           THEN [pc EXCEPT ![callback.request] = "outer"] ELSE pc
  /\ callback' = Idle
  /\ UNCHANGED <<present, io, cancelRequested, replies, cur, window,
                 undefined>>

(* push_back, and CreateThread if the list was seen empty.                 *)
PushAndCreateThread ==
  /\ callback.at = "push"
  /\ waitIpr' = [waitIpr EXCEPT ![Kind(callback.request)] =
                   Append(@, callback.request)]
  /\ \/ /\ callback.newThread
        /\ pc' = [pc EXCEPT ![callback.request] = "outer"]
     \/ /\ callback.newThread => ThreadCreationFails
        /\ UNCHANGED pc
  /\ callback' = Idle
  /\ UNCHANGED <<present, io, cancelRequested, replies, cur, window,
                 undefined>>

(* OnCancel takes the lock and looks the request up in both lists.         *)
OnCancel(r) ==
  /\ callback = Idle
  /\ io[r] = "canceling"
  /\ \/ /\ r \in ToSet(waitIpr["Remove"]) \cup ToSet(waitIpr["Insert"])
        /\ callback' = [Idle EXCEPT !.at = "cancel", !.request = r]
        /\ UNCHANGED io
     \/ /\ r \notin ToSet(waitIpr["Remove"]) \cup ToSet(waitIpr["Insert"])
        /\ io' = [io EXCEPT ![r] = "ignored"]
        /\ UNCHANGED callback
  /\ UNCHANGED <<present, waitIpr, cancelRequested, replies, pc, cur, window,
                 undefined>>

(* Mutant: OnCancel reports STATUS_SUCCESS.                                *)
CompleteCancelledAsSuccess ==
  /\ callback.at = "cancel"
  /\ waitIpr' = [waitIpr EXCEPT ![Kind(callback.request)] =
                   Without(@, callback.request)]
  /\ Complete(callback.request, "success")
  /\ callback' = Idle
  /\ UNCHANGED <<present, cancelRequested, pc, cur, window, undefined>>

(* remove, UnmarkCancelable (which now fails) and completion.              *)
CompleteCancelled ==
  /\ callback.at = "cancel"
  /\ waitIpr' = [waitIpr EXCEPT ![Kind(callback.request)] =
                   Without(@, callback.request)]
  /\ Complete(callback.request, "cancelled")
  /\ callback' = Idle
  /\ UNCHANGED <<present, cancelRequested, pc, cur, window, undefined>>

Callback ==
  /\ ~undefined
  /\ \/ AnswerAtOnce(present)
     \/ MarkCancelable(present)
     \/ TestEmpty
     \/ PushAndCreateThread
     \/ CompleteCancelled

-----------------------------------------------------------------------------
(* The threads: waitForCardPresence and waitForCardAbsence.  A thread is   *)
(* named by the request whose handler created it.                          *)

Goto(p, step) == pc' = [pc EXCEPT ![p] = step]

(* The outer while: the thread ends when nothing waits.                    *)
TestOuter(p) ==
  /\ pc[p] = "outer"
  /\ Goto(p, IF waitIpr[Kind(p)] = <<>> THEN "none" ELSE "query")
  /\ UNCHANGED <<present, waitIpr, io, cancelRequested, replies, callback, cur,
                 window, undefined>>

(* The handler that stands between its empty() and its push_back().        *)
HandlerInWindow == IF callback.at = "push" THEN callback.request ELSE NoRequest

FallAsleep(p) ==
  /\ Goto(p, "sleep")
  /\ window' = [window EXCEPT ![p] = HandlerInWindow]

(* PSIMICCPresent() decides whether the waiting requests are completed.    *)
QueryCard(p, card) ==
  /\ pc[p] = "query"
  /\ \/ Wanted(Kind(p), card) /\ Goto(p, "inner") /\ UNCHANGED window
     \/ ~Wanted(Kind(p), card) /\ FallAsleep(p)
  /\ UNCHANGED <<present, waitIpr, io, cancelRequested, replies, callback, cur,
                 undefined>>

(* The inner while.                                                        *)
TestInner(p) ==
  /\ pc[p] = "inner"
  /\ \/ waitIpr[Kind(p)] # <<>> /\ Goto(p, "front") /\ UNCHANGED window
     \/ waitIpr[Kind(p)] = <<>> /\ FallAsleep(p)
  /\ UNCHANGED <<present, waitIpr, io, cancelRequested, replies, callback, cur,
                 undefined>>

(* Mutant: curRequest is not assigned.                                     *)
TakeFrontForgotten(p) ==
  /\ pc[p] = "front"
  /\ Goto(p, "unmark")
  /\ UNCHANGED <<present, waitIpr, io, cancelRequested, replies, callback, cur,
                 window, undefined>>

(* curRequest = front(), undefined if the list has become empty.           *)
TakeFront(p) ==
  /\ pc[p] = "front"
  /\ \/ /\ waitIpr[Kind(p)] # <<>>
        /\ cur' = [cur EXCEPT ![p] = Head(waitIpr[Kind(p)])]
        /\ Goto(p, "unmark")
        /\ UNCHANGED undefined
     \/ /\ waitIpr[Kind(p)] = <<>>
        /\ undefined' = TRUE
        /\ UNCHANGED <<cur, pc>>
  /\ UNCHANGED <<present, waitIpr, io, cancelRequested, replies, callback,
                 window>>

(* Mutant: the result of UnmarkCancelable is not looked at.                *)
UnmarkCancelableUnchecked(p) ==
  /\ pc[p] = "unmark"
  /\ io' = [io EXCEPT ![cur[p]] = IF @ = "cancelable" THEN "owned" ELSE @]
  /\ Goto(p, "complete")
  /\ UNCHANGED <<present, waitIpr, cancelRequested, replies, callback, cur,
                 window, undefined>>

(* Mutant: the result of UnmarkCancelable is tested the wrong way round.   *)
UnmarkCancelableInverted(p) ==
  /\ pc[p] = "unmark"
  /\ io' = [io EXCEPT ![cur[p]] = IF @ = "cancelable" THEN "owned" ELSE @]
  /\ Goto(p, IF io[cur[p]] = "cancelable" THEN "pop" ELSE "complete")
  /\ UNCHANGED <<present, waitIpr, cancelRequested, replies, callback, cur,
                 window, undefined>>

(* curRequest->UnmarkCancelable(): S_OK takes the request back from the    *)
(* framework.  No reference is held, so after a completion the pointer may *)
(* dangle: the call fails, or the process is lost.                         *)
UnmarkCancelable(p) ==
  /\ pc[p] = "unmark"
  /\ \/ /\ io[cur[p]] = "cancelable"
        /\ io' = [io EXCEPT ![cur[p]] = "owned"]
        /\ Goto(p, "complete")
        /\ UNCHANGED undefined
     \/ /\ io[cur[p]] # "cancelable"
        /\ Goto(p, "pop")
        /\ UNCHANGED <<io, undefined>>
     \/ /\ io[cur[p]] = "done"
        /\ undefined' = TRUE
        /\ UNCHANGED <<io, pc>>
  /\ UNCHANGED <<present, waitIpr, cancelRequested, replies, callback, cur,
                 window>>

CompleteRequest(p) ==
  /\ pc[p] = "complete"
  /\ Complete(cur[p], "success")
  /\ Goto(p, "pop")
  /\ UNCHANGED <<present, waitIpr, cancelRequested, callback, cur, window,
                 undefined>>

(* pop_front(), whatever is at the front by now; undefined on an empty     *)
(* list.                                                                   *)
PopFront(p) ==
  /\ pc[p] = "pop"
  /\ \/ /\ waitIpr[Kind(p)] # <<>>
        /\ waitIpr' = [waitIpr EXCEPT ![Kind(p)] = Tail(@)]
        /\ Goto(p, "inner")
        /\ cur' = [cur EXCEPT ![p] = NoRequest]
        /\ UNCHANGED undefined
     \/ /\ waitIpr[Kind(p)] = <<>>
        /\ undefined' = TRUE
        /\ UNCHANGED <<waitIpr, pc, cur>>
  /\ UNCHANGED <<present, io, cancelRequested, replies, callback, window>>

(* Sleep returns.  With SleepOutlastsHandler a handler that was inside its *)
(* window when the sleep began has left it by now.                         *)
WakeUp(p) ==
  /\ pc[p] = "sleep"
  /\ SleepOutlastsHandler =>
       (window[p] = NoRequest \/ window[p] # HandlerInWindow)
  /\ Goto(p, "outer")
  /\ window' = [window EXCEPT ![p] = NoRequest]
  /\ UNCHANGED <<present, waitIpr, io, cancelRequested, replies, callback, cur,
                 undefined>>

Poller(p) ==
  /\ ~undefined
  /\ \/ TestOuter(p)
     \/ QueryCard(p, present)
     \/ TestInner(p)
     \/ TakeFront(p)
     \/ UnmarkCancelable(p)
     \/ CompleteRequest(p)
     \/ PopFront(p)
     \/ WakeUp(p)

-----------------------------------------------------------------------------
(* The threads that are inside front() or pop_front() of a list, and the   *)
(* callback inside push_back(), remove() or, when OnCancel begins, find(). *)
(* std::list has no lock: two of them at once on one list, not both        *)
(* reading, are a data race on its nodes.  (empty() reads one word.)       *)
ReadsList(k) == {p \in Requests : Kind(p) = k /\ pc[p] = "front"}
PopsList(k) == {p \in Requests : Kind(p) = k /\ pc[p] = "pop"}
CallbackWritesList(k) ==
  callback.at \in {"push", "cancel"} /\ Kind(callback.request) = k
CallbackSearches == callback = Idle /\ \E r \in Requests : io[r] = "canceling"

ListRace ==
  /\ ~undefined
  /\ \E k \in Kinds :
       \/ \E p \in PopsList(k), q \in PopsList(k) \cup ReadsList(k) : p # q
       \/ CallbackWritesList(k) /\ PopsList(k) \cup ReadsList(k) # {}
       \/ CallbackSearches /\ PopsList(k) # {}
  /\ undefined' = TRUE
  /\ UNCHANGED <<present, waitIpr, io, cancelRequested, replies, callback, pc,
                 cur, window>>

-----------------------------------------------------------------------------
(* The world around the driver.                                            *)

(* The card is inserted or removed, or the simulator goes or comes back.   *)
CardChanges ==
  /\ present' = ~present
  /\ UNCHANGED <<waitIpr, io, cancelRequested, replies, callback, pc, cur,
                 window, undefined>>

(* The sender of a request cancels it.  A request that is cancelable       *)
(* becomes the business of OnCancel.                                       *)
Cancel(r) ==
  /\ r \notin cancelRequested
  /\ io[r] \in {"owned", "cancelable"}
  /\ cancelRequested' = cancelRequested \cup {r}
  /\ io' = [io EXCEPT ![r] = IF @ = "cancelable" THEN "canceling" ELSE @]
  /\ UNCHANGED <<present, waitIpr, replies, callback, pc, cur, window,
                 undefined>>

Next ==
  \/ \E r \in Requests : ~undefined /\ Dispatch(r)
  \/ \E r \in Requests : ~undefined /\ OnCancel(r)
  \/ \E r \in Requests : ~undefined /\ Cancel(r)
  \/ Callback
  \/ \E p \in Requests : Poller(p)
  \/ ListRace
  \/ CardChanges

Spec == Init /\ [][Next]_vars

-----------------------------------------------------------------------------
(* Properties.                                                             *)

(* The types of the variables; and a thread inside the body of its inner   *)
(* loop has a request in hand, a callback that runs has one too.           *)
TypeOK ==
  /\ present \in BOOLEAN
  /\ waitIpr \in [Kinds -> Seq(Requests)]
  /\ io \in [Requests -> IoStates]
  /\ cancelRequested \in SUBSET Requests
  /\ replies \in [Requests -> Seq(Statuses)]
  /\ callback \in [at : CallbackSteps, request : Requests \cup {NoRequest},
                   newThread : BOOLEAN]
  /\ pc \in [Requests -> PollerSteps]
  /\ cur \in [Requests -> Requests \cup {NoRequest}]
  /\ window \in [Requests -> Requests \cup {NoRequest}]
  /\ undefined \in BOOLEAN
  /\ \A p \in Requests :
       pc[p] \in {"unmark", "complete", "pop"} => cur[p] \in Requests
  /\ callback.at # "idle" => callback.request \in Requests

(* The right to complete a request has one holder, and only while it is    *)
(* unanswered: the handler before MarkCancelable, the one thread that got  *)
(* S_OK from UnmarkCancelable, or OnCancel (device.cpp:64, 85-92, 137,     *)
(* 158-165, 559).  This is the inductive invariant behind the properties   *)
(* of the answers.                                                         *)
OneCompleter ==
  /\ \A r \in Requests :
       IF io[r] = "done" THEN Len(replies[r]) = 1 ELSE replies[r] = <<>>
  /\ callback.at = "query" => io[callback.request] = "owned"
  /\ callback.at = "cancel" => io[callback.request] = "canceling"
  /\ \A p \in Requests : pc[p] = "complete" =>
       /\ io[cur[p]] = "owned"
       /\ ~(callback.at = "query" /\ callback.request = cur[p])
       /\ \A q \in Requests : pc[q] = "complete" /\ cur[q] = cur[p] => q = p

(* No request is completed twice, although a handler, OnCancel and any     *)
(* number of polling threads may have it in hand at the same time: the     *)
(* S_OK of UnmarkCancelable is what lets one thread alone go on            *)
(* (device.cpp:64, 137).                                                   *)
AnsweredOnce == \A r \in Requests : Len(replies[r]) <= 1

(* A completed request, whose object may be gone, stays in a list only     *)
(* until the thread that completed it has executed its pop_front()         *)
(* (device.cpp:64-67, 137-140): no list keeps a dangling pointer while no  *)
(* thread is inside its loop body.                                         *)
NoDanglingPointer ==
  \A k \in Kinds, r \in Requests :
    r \in ToSet(waitIpr[k]) /\ io[r] = "done" =>
      \E p \in Requests : pc[p] = "pop" /\ cur[p] = r

(* Whenever a request waits, a thread that looks after its list is alive   *)
(* or is about to be created (device.cpp:96-100, 169-173): the test of     *)
(* empty() never relies on a thread that has already left its outer while. *)
(* It holds if CreateThread succeeds and Sleep outlasts a handler's        *)
(* window.                                                                 *)
WaitersAreWatched ==
  \A k \in Kinds :
    waitIpr[k] # <<>> => \E p \in Requests : Kind(p) = k /\ pc[p] # "none"

(* What the framework has handed to OnCancel is never reported as          *)
(* success, however late a polling thread still holds the pointer          *)
(* (device.cpp:63-67, 136-140 against 541-560).                            *)
CancelIsFinal ==
  [][\A r \in Requests :
       io[r] \in {"canceling", "ignored"} =>
         replies'[r] \in {replies[r], Append(replies[r], "cancelled")}]_vars

(* RequestLedger's view of this state.                                     *)
Accepted == {r \in Requests : io[r] # "new"}
HandedOver == {r \in Requests : io[r] \in {"canceling", "ignored"}
                               \/ "cancelled" \in ToSet(replies[r])}

Ledger == INSTANCE RequestLedger WITH
  accepted <- Accepted, handedOver <- HandedOver

(* The driver keeps the contract that RequestLedger states: at most one    *)
(* answer, "cancelled" only on demand, no "success" once OnCancel is       *)
(* responsible, whichever of handler, OnCancel and threads answers         *)
(* (device.cpp:59-108, 131-180, 541-561).                                  *)
ImplementsLedger == Ledger!Spec

(* Where a request is that somebody can still complete: in its list, with  *)
(* a callback, or with the thread that has taken it back.                  *)
Attended(r) ==
  \/ r \in ToSet(waitIpr[Kind(r)])
  \/ callback.request = r
  \/ \E p \in Requests : pc[p] = "complete" /\ cur[p] = r

(* A request that is neither completed nor with the framework, so that not *)
(* even its sender can cancel it, is with the one who completes it next:   *)
(* its handler, or a thread whose UnmarkCancelable returned S_OK           *)
(* (device.cpp:64-65, 85-92, 137-138).                                     *)
OwnedHasCompleter ==
  \A r \in Requests : io[r] = "owned" =>
    \/ callback.at = "query" /\ callback.request = r
    \/ \E p \in Requests : pc[p] = "complete" /\ cur[p] = r

(* The pop_front() of p removes r, but it was due to another request,      *)
(* which OnCancel or another thread has removed before.                    *)
PoppedInPlace(p, r) ==
  /\ pc[p] = "pop" /\ pc'[p] = "inner"
  /\ cur[p] # r /\ r = Head(waitIpr[Kind(p)])
  /\ cur[p] \notin ToSet(waitIpr[Kind(p)])

(* There are two ways only to lose the last hold of a request that is not  *)
(* completed: its sender has cancelled it, and OnCancel did not complete   *)
(* it; or it is popped in the place of another one (device.cpp:64-67, 92,  *)
(* 137-140, 556).                                                          *)
ForgottenWithCause ==
  [][\A r \in Requests :
       Attended(r) /\ ~Attended(r)' /\ io'[r] # "done" =>
         \/ r \in cancelRequested
         \/ \E p \in Requests : PoppedInPlace(p, r)]_vars

(* Every request the driver has taken and not completed is in the hands of *)
(* somebody who can still complete it: "leave the request pending; it will *)
(* be completed later" (device.cpp:89, 162).                               *)
NothingForgotten ==
  \A r \in Requests : io[r] \in {"new", "done"} \/ Attended(r)

(* The same where nobody has cancelled anything (device.cpp:89, 162).      *)
NothingForgottenUncancelled == cancelRequested = {} => NothingForgotten
=============================================================================
