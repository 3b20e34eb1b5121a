----------------------------- MODULE DeviceProofs -----------------------------
(***************************************************************************)
(* What holds of Device for any number of requests and threads: the        *)
(* references to the device object are enough and none is left over, the   *)
(* contract of the requests is kept, no list keeps a completed request and *)
(* none goes unwatched, and the mutex has the owner and the waiters it may *)
(* have.                                                                   *)
(***************************************************************************)
EXTENDS Device, PendingRequestsListsProofs

(* The references there are, by who holds them: CreateInstance, its smart  *)
(* pointer, the framework's device and the queue's wrapper.                *)
Count ==
  CASE pnp \in {"none", "gone"} -> 0
    [] pnp = "new" -> 2
    [] pnp = "device" -> 3
    [] pnp = "added" -> 1
    [] pnp = "wrapper" -> 2
    [] OTHER -> IF queue THEN 2 ELSE 1

(* Where in the life of the device there is a queue.                       *)
QueueInTime ==
  /\ queue \in BOOLEAN
  /\ pnp \in Phases
  /\ pnp \in {"working", "stopping", "removing"} => queue
  /\ queue => pnp \in {"start", "working", "stopping", "removing", "released"}

(* Without a queue the driver has no request in hand.                      *)
QuietWithoutQueue ==
  /\ DOMAIN io = Requests
  /\ ~queue => /\ callback = Idle
               /\ \A r \in Requests : io[r] \in {"new", "done"}

Held == refCount = Count /\ QueueInTime /\ QuietWithoutQueue

(* The steps of the device's life count as Count does.                     *)
LEMMA LifeHeld == Held /\ (Life \/ Removal) => Held'
<1> SUFFICES ASSUME Held, Life \/ Removal
             PROVE  Held'
  OBVIOUS
<1> USE DEF Held, QueueInTime, Count, Phases
<1>1. QuietWithoutQueue /\ UNCHANGED <<io, callback>> /\ (queue => queue')
        => QuietWithoutQueue'
  BY DEF QuietWithoutQueue
<1>2. CASE NewDevice
  BY <1>1, <1>2 DEF NewDevice, vars
<1>3. CASE CreateDevice
  BY <1>1, <1>3 DEF CreateDevice
<1>4. CASE LeaveCreateInstance
  BY <1>1, <1>4 DEF LeaveCreateInstance, vars
<1>5. CASE NewQueueWrapper
  BY <1>1, <1>5 DEF NewQueueWrapper, vars
<1>6. CASE CreateIoQueue
  <2>1. QuietWithoutQueue' /\ QueueInTime'
    BY <1>1, <1>6 DEF CreateIoQueue, vars
  <2>2. refCount = 2 /\ ~queue /\ pnp' = "start"
    BY <1>6 DEF CreateIoQueue
  <2>3. CASE queue' = TRUE /\ UNCHANGED refCount
    BY <2>1, <2>2, <2>3
  <2>4. CASE refCount' = refCount - 1 /\ UNCHANGED queue
    <3>1. refCount' = 1
      BY <2>2, <2>4
    <3> QED
      BY <2>1, <2>2, <2>4, <3>1
  <2> QED
    BY <1>6, <2>3, <2>4 DEF CreateIoQueue
<1>7. CASE StartServer
  BY <1>1, <1>7 DEF StartServer, vars, counts
<1>8. CASE CloseMutex
  BY <1>1, <1>8 DEF CloseMutex, vars, counts
<1>9. CASE StopServer
  BY <1>1, <1>9 DEF StopServer, counts
<1>10. CASE OnReleaseHardware
  BY <1>1, <1>10 DEF OnReleaseHardware, vars
<1>11. CASE DeleteQueue
  <2>1. QuietWithoutQueue'
    BY <1>11 DEF DeleteQueue, QuietWithoutQueue, vars
  <2>2. pnp = "released" /\ queue /\ UNCHANGED pnp /\ queue' = FALSE
    BY <1>11 DEF DeleteQueue
  <2>3. refCount' = 1
    <3>1. refCount = 2
      BY <2>2
    <3> QED
      BY <1>11, <3>1 DEF DeleteQueue
  <2> QED
    BY <2>1, <2>2, <2>3
<1>12. CASE DeleteDevice
  BY <1>1, <1>12 DEF DeleteDevice, vars
<1> QED
  BY <1>2, <1>3, <1>4, <1>5, <1>6, <1>7, <1>8, <1>9, <1>10, <1>11, <1>12
     DEF Life, Removal

(* PSIMICCPresent returns to its caller.                                   *)
Answered(a) == Exchange(a) \/ HangUp(a) \/ ExchangeFails(a)

(* The steps of PendingRequests that Device takes over.                    *)
RequestStep ==
  \/ Callback
  \/ \E p \in Requests : Poller(p)
  \/ \E r \in Requests : Cancel(r) \/ OnCancel(r)
  \/ \E a \in Actors : \E card : UseAnswer(a, card)
  \/ CardChanges \/ ListRace

(* They complete, mark and cancel the requests there are.                  *)
LEMMA DomainOfIo ==
  ASSUME DOMAIN io = Requests, RequestStep
  PROVE  DOMAIN io' = Requests
<1> USE DEF Complete
<1>1. CASE Callback
  BY <1>1 DEF Callback, AnswerAtOnce, MarkCancelable, TestEmpty,
     PushAndCreateThread, CompleteCancelled
<1>2. CASE \E p \in Requests : Poller(p)
  BY <1>2 DEF Poller, TestOuter, QueryCard, TestInner, TakeFront,
     UnmarkCancelable, CompleteRequest, PopFront, WakeUp
<1>3. CASE \E r \in Requests : Cancel(r) \/ OnCancel(r)
  BY <1>3 DEF Cancel, OnCancel
<1>4. CASE \E a \in Actors : \E card : UseAnswer(a, card)
  BY <1>4 DEF UseAnswer, AnswerAtOnce, MarkCancelable, QueryCard
<1>5. CASE CardChanges \/ ListRace
  BY <1>5 DEF CardChanges, ListRace
<1> QED
  BY <1>1, <1>2, <1>3, <1>4, <1>5 DEF RequestStep

(* Without a queue there is nothing for a callback, a thread or a          *)
(* canceller to do to a request.                                           *)
LEMMA RequestsQuiet ==
  ASSUME Held, ~queue, RequestStep
  PROVE  /\ callback' = Idle
         /\ \A r \in Requests : io'[r] \in {"new", "done"}
<1> USE DEF Held, QuietWithoutQueue
<1>1. callback = Idle /\ callback.at = "idle"
  BY DEF Idle
<1>2. CASE Callback
  BY <1>1, <1>2 DEF Callback, AnswerAtOnce, MarkCancelable, TestEmpty,
     PushAndCreateThread, CompleteCancelled
<1>3. ASSUME NEW p \in Requests, Poller(p)
      PROVE  /\ UNCHANGED callback
             /\ \A r \in Requests : io'[r] \in {io[r], "done"}
  <2>1. CASE UnmarkCancelable(p)
    <3>1. UNCHANGED callback
      BY <2>1 DEF UnmarkCancelable
    <3>2. CASE cur[p] \in Requests
      <4>1. io[cur[p]] # "cancelable"
        BY <3>2
      <4> QED
        BY <2>1, <3>1, <4>1 DEF UnmarkCancelable
    <3>3. CASE cur[p] \notin Requests
      <4>1. \A r \in Requests : [io EXCEPT ![cur[p]] = "owned"][r] = io[r]
        BY <3>3
      <4> QED
        BY <2>1, <3>1, <4>1 DEF UnmarkCancelable
    <3> QED
      BY <3>2, <3>3
  <2>2. CASE CompleteRequest(p)
    BY <2>2 DEF CompleteRequest, Complete
  <2>3. CASE \/ TestOuter(p) \/ QueryCard(p, present) \/ TestInner(p)
             \/ TakeFront(p) \/ PopFront(p) \/ WakeUp(p)
    BY <2>3 DEF TestOuter, QueryCard, TestInner, TakeFront, PopFront, WakeUp
  <2> QED
    BY <1>3, <2>1, <2>2, <2>3 DEF Poller
<1>4. CASE \E p \in Requests : Poller(p)
  BY <1>1, <1>3, <1>4
<1>5. CASE \E r \in Requests : Cancel(r) \/ OnCancel(r)
  BY <1>1, <1>5 DEF Cancel, OnCancel
<1>6. CASE \E a \in Actors : \E card : UseAnswer(a, card)
  <2>1. PICK a \in Actors : \E card : UseAnswer(a, card)
    BY <1>6
  <2>2. PICK card : UseAnswer(a, card)
    BY <2>1
  <2>3. ~AnswerAtOnce(card) /\ ~MarkCancelable(card)
    BY <1>1 DEF AnswerAtOnce, MarkCancelable
  <2>4. QueryCard(a, card)
    BY <2>2, <2>3 DEF UseAnswer
  <2> QED
    BY <1>1, <2>4 DEF QueryCard
<1>7. CASE CardChanges \/ ListRace
  BY <1>1, <1>7 DEF CardChanges, ListRace
<1> QED
  BY <1>2, <1>4, <1>5, <1>6, <1>7 DEF RequestStep

(* The other steps do not count, and need a queue to hand out requests.    *)
LEMMA RestHeld == Held /\ DNext /\ ~(Life \/ Removal) => Held'
<1> SUFFICES ASSUME Held, DNext, ~(Life \/ Removal)
             PROVE  Held'
  OBVIOUS
<1> USE DEF deviceVars, counts
<1>1. /\ UNCHANGED <<pnp, refCount, queue>>
      /\ \/ RequestStep
         \/ UNCHANGED <<io, callback>>
         \/ \E r \in Requests : Dispatch(r) /\ pnp \in {"working", "stopping"}
  <2>1. CASE \E a \in Actors : Acquire(a) \/ Hang(a)
    BY <2>1 DEF Acquire, Hang, vars
  <2>2. CASE \E a \in Actors : Answered(a)
    <3>1. PICK a \in Actors : Answered(a)
      BY <2>2
    <3>2. PICK card : UseAnswer(a, card)
      BY <3>1 DEF Answered, Exchange, HangUp, ExchangeFails
    <3>3. UNCHANGED <<pnp, refCount, queue>>
      BY <3>1 DEF Answered, Exchange, HangUp, ExchangeFails, Release
    <3> QED
      BY <3>2, <3>3 DEF RequestStep
  <2>3. CASE \E p \in Requests : UseFreedDevice(p) \/ PollerStep(p)
    BY <2>3 DEF UseFreedDevice, PollerStep, RequestStep
  <2>4. CASE CallbackStep \/ World
    BY <2>4 DEF CallbackStep, World, RequestStep
  <2>5. CASE \E r \in Requests :
               DispatchRequest(r) \/ CancelRequest(r) \/ CallOnCancel(r)
    BY <2>5 DEF DispatchRequest, CancelRequest, CallOnCancel, RequestStep
  <2> QED
    BY <2>1, <2>2, <2>3, <2>4, <2>5 DEF DNext, Answered
<1>2. QuietWithoutQueue'
  <2>1. CASE RequestStep
    BY <1>1, <2>1, DomainOfIo, RequestsQuiet DEF Held, QuietWithoutQueue
  <2>2. CASE UNCHANGED <<io, callback>>
    BY <1>1, <2>2 DEF Held, QuietWithoutQueue
  <2>3. CASE \E r \in Requests : Dispatch(r) /\ pnp \in {"working", "stopping"}
    BY <1>1, <2>3 DEF Dispatch, Held, QuietWithoutQueue, QueueInTime
  <2> QED
    BY <1>1, <2>1, <2>2, <2>3
<1> QED
  BY <1>1, <1>2 DEF Held, Count, QueueInTime

(* Every step keeps the references in order.                               *)
LEMMA StepHeld == Held /\ [DNext]_dvars => Held'
<1>1. UNCHANGED dvars /\ Held => Held'
  BY DEF dvars, vars, deviceVars, counts, Held, Count, QueueInTime,
     QuietWithoutQueue
<1> QED
  BY <1>1, LifeHeld, RestHeld

(* Initially there are none, and nothing to hold.                          *)
LEMMA InitHeld == DInit => Held
BY DEF DInit, Init, Held, Count, QueueInTime, Phases, QuietWithoutQueue, Idle

(* The device object is there for whoever the framework may call, and goes *)
(* in the end, whichever step of creation and preparation fails            *)
(* (device.cpp:30-54, Queue.cpp:12-66, device.cpp:486-500).                *)
THEOREM HeldWhileCalledHolds == DSpec => []HeldWhileCalled
<1>1. Held => HeldWhileCalled
  BY DEF Held, Count, QueueInTime, Phases, QuietWithoutQueue, HeldWhileCalled
<1> QED
  BY <1>1, InitHeld, StepHeld, PTL DEF DSpec

-----------------------------------------------------------------------------
(* The requests: their types and their answers.                            *)

(* Somebody uses the answer of an exchange, whatever it is.                *)
AnswerUsed ==
  \E card : \/ AnswerAtOnce(card) \/ MarkCancelable(card)
            \/ \E p \in Requests : QueryCard(p, card)

(* Nothing but the card, or the end of defined behaviour.                  *)
RequestsStay ==
  /\ UNCHANGED <<waitIpr, io, cancelRequested, replies, callback, pc, cur,
                 window>>
  /\ present' \in BOOLEAN /\ undefined' \in BOOLEAN

(* What a step of Device is to the requests.                               *)
LEMMA StepForRequests ==
  TypeOK /\ [DNext]_dvars => [Next]_vars \/ AnswerUsed \/ RequestsStay
<1> SUFFICES ASSUME TypeOK, [DNext]_dvars
             PROVE  [Next]_vars \/ AnswerUsed \/ RequestsStay
  OBVIOUS
<1>1. present \in BOOLEAN /\ undefined \in BOOLEAN
  BY DEF TypeOK
<1>2. CASE UNCHANGED dvars
  BY <1>2 DEF dvars
<1>3. CASE Life \/ Removal
  <2>1. CASE CreateDevice \/ StopServer
    BY <1>1, <2>1 DEF CreateDevice, StopServer, RequestsStay
  <2>2. CASE \/ NewDevice \/ LeaveCreateInstance \/ NewQueueWrapper
             \/ CreateIoQueue \/ StartServer \/ CloseMutex
             \/ OnReleaseHardware \/ DeleteQueue \/ DeleteDevice
    BY <2>2 DEF NewDevice, LeaveCreateInstance, NewQueueWrapper,
       CreateIoQueue, StartServer, CloseMutex, OnReleaseHardware, DeleteQueue,
       DeleteDevice
  <2> QED
    BY <1>3, <2>1, <2>2 DEF Life, Removal
<1>4. ASSUME NEW a \in Actors, Acquire(a) \/ Hang(a)
      PROVE  UNCHANGED vars
  BY <1>4 DEF Acquire, Hang
<1>5. ASSUME NEW a \in Actors, Answered(a)
      PROVE  AnswerUsed
  <2>1. PICK card : UseAnswer(a, card)
    BY <1>5 DEF Answered, Exchange, HangUp, ExchangeFails
  <2> QED
    BY <2>1 DEF UseAnswer, Actors, AnswerUsed
<1>6. ASSUME NEW p \in Requests, UseFreedDevice(p)
      PROVE  RequestsStay
  BY <1>1, <1>6 DEF UseFreedDevice, RequestsStay
<1>7. ASSUME NEW p \in Requests, PollerStep(p)
      PROVE  Next
  BY <1>7 DEF PollerStep, Next
<1>8. CASE CallbackStep \/ World
  BY <1>8 DEF CallbackStep, World, Next
<1>9. ASSUME NEW r \in Requests,
             DispatchRequest(r) \/ CancelRequest(r) \/ CallOnCancel(r)
      PROVE  Next
  BY <1>9 DEF DispatchRequest, CancelRequest, CallOnCancel, Next
<1> QED
  BY <1>2, <1>3, <1>4, <1>5, <1>6, <1>7, <1>8, <1>9 DEF DNext, Answered

(* So the invariant of PendingRequests holds in Device.                    *)
LEMMA StepInv == Inv /\ [DNext]_dvars => Inv'
<1> SUFFICES ASSUME TypeOK, OneCompleter, [DNext]_dvars
             PROVE  Inv'
  BY DEF Inv
<1>1. CASE [Next]_vars
  BY <1>1, NextType, NextOneCompleter DEF Inv
<1>2. CASE AnswerUsed
  BY <1>2, HandlerAnswerType, QueryCardType, HandlerAnswerOneCompleter,
     QueryCardOneCompleter DEF AnswerUsed, Inv
<1>3. CASE RequestsStay
  BY <1>3 DEF RequestsStay, Inv, TypeOK, OneCompleter
<1> QED
  BY <1>1, <1>2, <1>3, StepForRequests

(* One completer, and the types, in all of Device.                         *)
LEMMA DeviceInv == DSpec => []Inv
<1>1. DInit => Inv
  BY InitType, InitOneCompleter DEF DInit, Inv
<1> QED
  BY <1>1, StepInv, PTL DEF DSpec

(* A request is answered at most once in Device too, where an exchange on  *)
(* a closed mutex says that there is no card whatever there is             *)
(* (device.cpp:63-107, 136-180, 541-561, persoSimConnect.cpp:192).         *)
THEOREM DeviceAnsweredOnce == DSpec => []AnsweredOnce
BY DeviceInv, OneAnswer, PTL

(* The device as a whole keeps the contract of RequestLedger: callbacks,   *)
(* threads, exchanges that fail and a removal at any time answer a request *)
(* at most once, and as its sender may expect (device.cpp:59-180,          *)
(* 486-561).                                                               *)
THEOREM DeviceImplementsLedger == DSpec => ImplementsLedger
<1>1. DInit => Ledger!Init
  BY InitLedger DEF DInit
<1>2. Inv /\ [DNext]_dvars => [Ledger!Next]_Ledger!vars
  <2> SUFFICES ASSUME Inv, [DNext]_dvars
               PROVE  Ledger!Next \/ UNCHANGED Ledger!vars
    OBVIOUS
  <2>1. CASE [Next]_vars
    BY <2>1, NextLedger
  <2>2. CASE AnswerUsed
    <3>1. PICK card : \/ AnswerAtOnce(card) \/ MarkCancelable(card)
                      \/ \E p \in Requests : QueryCard(p, card)
      BY <2>2 DEF AnswerUsed
    <3>2. CASE AnswerAtOnce(card) \/ MarkCancelable(card)
      BY <3>2, LedgerHandlerAnswer
    <3>3. CASE \E p \in Requests : QueryCard(p, card)
      BY <3>3, LedgerStutter DEF QueryCard
    <3> QED
      BY <3>1, <3>2, <3>3
  <2>3. CASE RequestsStay
    BY <2>3, LedgerStutter DEF RequestsStay
  <2> QED
    BY <2>1, <2>2, <2>3, StepForRequests DEF Inv
<1> QED
  BY <1>1, <1>2, DeviceInv, PTL DEF DSpec, ImplementsLedger, Ledger!Spec

(* Every step of Device preserves the invariant of the lists.              *)
LEMMA StepLists == ListsInv /\ [DNext]_dvars => ListsInv'
<1> SUFFICES ASSUME ListsInv, [DNext]_dvars
             PROVE  Lists' /\ Fresh' /\ FrontInHand' /\ NoDanglingPointer'
  BY StepInv DEF ListsInv
<1>1. CASE [Next]_vars
  BY <1>1, NextLists DEF ListsInv
<1>2. CASE AnswerUsed
  BY <1>2, HandlerAnswerLists, OutsideLoopBodyLists DEF AnswerUsed
<1>3. CASE RequestsStay
  <2>1. UNCHANGED <<waitIpr, io, callback, pc, cur>>
    BY <1>3 DEF RequestsStay
  <2>2. \A p \in Requests : InLoopBody(p)' <=> InLoopBody(p)
    BY <2>1 DEF InLoopBody
  <2>3. Fresh'
    BY <2>1, <2>2, HandsKept DEF ListsInv, Fresh
  <2> QED
    BY <2>1, <2>2, <2>3, HandsKept, NothingDangles
<1> QED
  BY <1>1, <1>2, <1>3, StepForRequests DEF ListsInv, Inv

(* The lists, and who has a request, in all of Device.                     *)
LEMMA DeviceHold == DSpec => []HoldInv
<1>1. DInit => HoldInv
  BY InitHold DEF DInit
<1>2. HoldInv /\ [DNext]_dvars => HoldInv'
  <2> SUFFICES ASSUME HoldInv, [DNext]_dvars
               PROVE  OwnedHasCompleter' /\ NotLeftCancelable' /\ OnlyOnDemand'
    BY StepLists DEF HoldInv
  <2>1. CASE [Next]_vars
    BY <2>1, NextHold DEF HoldInv
  <2>2. CASE AnswerUsed
    BY <2>2, CallbackHold, PollerHold DEF AnswerUsed
  <2>3. CASE RequestsStay
    BY <2>3 DEF RequestsStay, HoldInv, OwnedHasCompleter, NotLeftCancelable,
                OnlyOnDemand
  <2> QED
    BY <2>1, <2>2, <2>3, StepForRequests DEF HoldInv, ListsInv, Inv
<1> QED
  BY <1>1, <1>2, PTL DEF DSpec

(* A completed request is in a list only until its completer has popped it *)
(* in Device too, where the device may be removed below the threads        *)
(* (device.cpp:64-67, 137-140).                                            *)
THEOREM DeviceNoDanglingPointer == DSpec => []NoDanglingPointer
BY DeviceHold, PTL DEF HoldInv, ListsInv

(* In Device too, where a removal cancels what is pending and exchanges    *)
(* fail below handlers and threads, a request that is not completed loses  *)
(* its last hold only because it was cancelled or popped in the place of   *)
(* another one (device.cpp:64-67, 92, 137-140, 515-539, 556).              *)
THEOREM DeviceForgottenWithCause == DSpec => ForgottenWithCause
<1>1. ASSUME HoldInv, [DNext]_dvars, NEW r \in Requests,
             Attended(r), ~Attended(r)', io'[r] # "done"
      PROVE  r \in cancelRequested \/ \E p \in Requests : PoppedInPlace(p, r)
  <2>1. CASE [Next]_vars
    BY <1>1, <2>1, NextLoses
  <2>2. CASE AnswerUsed
    BY <1>1, <2>2, CallbackKeeps, PollerKeeps DEF AnswerUsed
  <2>3. CASE RequestsStay
    BY <1>1, <2>3 DEF RequestsStay, Attended
  <2> QED
    BY <1>1, <2>1, <2>2, <2>3, StepForRequests DEF HoldInv, ListsInv, Inv
<1>2. HoldInv /\ [DNext]_dvars =>
        [\A r \in Requests :
           Attended(r) /\ ~Attended(r)' /\ io'[r] # "done" =>
             \/ r \in cancelRequested
             \/ \E p \in Requests : PoppedInPlace(p, r)]_vars
  BY <1>1
<1> QED
  BY <1>2, DeviceHold, PTL DEF DSpec, ForgottenWithCause

(* Whenever a request waits in Device, a thread looks after its list, also *)
(* while handlers and threads wait for each other's exchanges              *)
(* (device.cpp:60, 96-100, 133, 169-173), given CreationAndSleep.          *)
THEOREM DeviceWaitersAreWatched ==
  ASSUME CreationAndSleep
  PROVE  DSpec => []WaitersAreWatched
<1>1. DInit => WatchInv
  BY InitWatch DEF DInit
<1>2. ASSUME WatchInv, Inv, [DNext]_dvars
      PROVE  WatchInv'
  <2>1. CASE [Next]_vars
    BY <1>2, <2>1, NextWatch
  <2>2. TypeOK'
    BY <1>2, StepInv DEF Inv
  <2>3. CASE AnswerUsed
    <3>1. PICK card : \/ AnswerAtOnce(card) \/ MarkCancelable(card)
                      \/ \E p \in Requests : QueryCard(p, card)
      BY <2>3 DEF AnswerUsed
    <3>2. CASE AnswerAtOnce(card) \/ MarkCancelable(card)
      <4>1. UNCHANGED <<waitIpr, pc>> /\ callback'.at # "push"
        BY <1>2, <3>2 DEF AnswerAtOnce, MarkCancelable, Idle, WatchInv, TypeOK
      <4> QED
        BY <1>2, <2>2, <4>1, CallbackWatch DEF WatchInv
    <3>3. CASE \E p \in Requests : QueryCard(p, card)
      BY <1>2, <2>2, <3>3, PollerWatch DEF WatchInv
    <3> QED
      BY <3>1, <3>2, <3>3
  <2>4. CASE RequestsStay
    <3>1. UNCHANGED <<waitIpr, callback, pc, window>>
      BY <2>4 DEF RequestsStay
    <3> QED
      BY <1>2, <2>2, <3>1, ThreadWatch DEF WatchInv, Stays
  <2> QED
    BY <1>2, <2>1, <2>3, <2>4, StepForRequests DEF Inv
<1>3. WatchInv => WaitersAreWatched
  BY DEF WatchInv
<1> QED
  BY <1>1, <1>2, <1>3, DeviceInv, PTL DEF DSpec

-----------------------------------------------------------------------------
(* The mutex: its owner and its waiters are where the mutex is asked for.  *)

(* A handler that creates a thread does not find one running in its        *)
(* request's name.                                                         *)
NoThreadYet ==
  /\ \A r \in Requests : io[r] = "new" => pc[r] = "none"
  /\ callback.at # "idle" => io[callback.request] # "new"
  /\ callback.at \in {"query", "test", "push"}
       => pc[callback.request] = "none"

(* There is no mutex before the server is started.                         *)
MutexInTime ==
  pnp \in {"none", "new", "device", "added", "wrapper", "start"}
    => ~mutexOpen /\ waiting = {} /\ owner = Nobody

MutexOK ==
  /\ {wdfDevice, mutexOpen, unreleased, hung} \subseteq BOOLEAN
  /\ owner \in Actors \cup {Nobody}
  /\ owner # Nobody /\ ~unreleased => Asks(owner)
  /\ unreleased => owner # Nobody /\ ~mutexOpen
  /\ hung => owner # Nobody /\ ~unreleased
  /\ \A a \in waiting : a \in Actors /\ Asks(a) /\ a # owner /\ ~mutexOpen

(* The steps of PendingRequests start a thread for a request once.         *)
LEMMA NextNoThreadYet == TypeOK /\ NoThreadYet /\ [Next]_vars => NoThreadYet'
<1> SUFFICES ASSUME TypeOK, NoThreadYet, [Next]_vars
             PROVE  NoThreadYet'
  OBVIOUS
<1> USE DEF NoThreadYet, TypeOK, Idle
<1>1. ASSUME NEW r \in Requests, Dispatch(r)
      PROVE  NoThreadYet'
  <2>1. pc[r] = "none" /\ io' = [io EXCEPT ![r] = "owned"]
    BY <1>1 DEF Dispatch
  <2>2. callback'.request = r /\ UNCHANGED pc
    BY <1>1 DEF Dispatch
  <2> QED
    BY <2>1, <2>2
<1>2. ASSUME NEW r \in Requests, OnCancel(r) \/ Cancel(r)
      PROVE  NoThreadYet'
  <2>1. \A q \in Requests : io'[q] = "new" => io[q] = "new"
    BY <1>2 DEF OnCancel, Cancel
  <2>2. /\ UNCHANGED pc
        /\ \/ UNCHANGED callback
           \/ callback' = [Idle EXCEPT !.at = "cancel", !.request = r]
              /\ io[r] # "new"
    BY <1>2 DEF OnCancel, Cancel
  <2> QED
    BY <2>1, <2>2
<1>3. CASE Callback
  <2>1. \A r \in Requests : io'[r] = "new" => io[r] = "new"
    BY <1>3 DEF Callback, AnswerAtOnce, MarkCancelable, TestEmpty,
       PushAndCreateThread, CompleteCancelled, Complete
  <2>2. CASE PushAndCreateThread
    BY <2>1, <2>2 DEF PushAndCreateThread
  <2>3. CASE AnswerAtOnce(present) \/ CompleteCancelled
    BY <2>1, <2>3 DEF AnswerAtOnce, CompleteCancelled
  <2>4. CASE MarkCancelable(present) \/ TestEmpty
    <3>1. /\ callback.at \in {"query", "test"}
          /\ callback'.request = callback.request
          /\ UNCHANGED pc
      BY <2>4 DEF MarkCancelable, TestEmpty
    <3> QED
      BY <2>1, <3>1
  <2> QED
    BY <1>3, <2>2, <2>3, <2>4 DEF Callback
<1>4. ASSUME NEW p \in Requests, Poller(p)
      PROVE  NoThreadYet'
  <2>1. pc[p] # "none" /\ UNCHANGED callback
    BY <1>4 DEF Poller, TestOuter, QueryCard, TestInner, TakeFront,
       UnmarkCancelable, CompleteRequest, PopFront, WakeUp
  <2>2. \A r \in Requests : r # p => pc'[r] = pc[r]
    BY <1>4 DEF Poller, TestOuter, QueryCard, TestInner, TakeFront,
       UnmarkCancelable, CompleteRequest, PopFront, WakeUp, FallAsleep, Goto
  <2>3. \A r \in Requests : io'[r] = "new" => io[r] = "new"
    BY <1>4 DEF Poller, TestOuter, QueryCard, TestInner, TakeFront,
       UnmarkCancelable, CompleteRequest, PopFront, WakeUp, Complete
  <2> QED
    BY <2>1, <2>2, <2>3
<1>5. CASE ListRace \/ CardChanges
  BY <1>5 DEF ListRace, CardChanges
<1>6. CASE UNCHANGED vars
  BY <1>6 DEF vars
<1> QED
  BY <1>1, <1>2, <1>3, <1>4, <1>5, <1>6 DEF Next

(* So do those of Device.                                                  *)
LEMMA StepNoThreadYet ==
  TypeOK /\ NoThreadYet /\ [DNext]_dvars => NoThreadYet'
<1> SUFFICES ASSUME TypeOK, NoThreadYet, [DNext]_dvars
             PROVE  NoThreadYet'
  OBVIOUS
<1>1. CASE AnswerUsed
  <2>1. PICK card : \/ AnswerAtOnce(card) \/ MarkCancelable(card)
                    \/ \E p \in Requests : QueryCard(p, card)
    BY <1>1 DEF AnswerUsed
  <2>2. CASE AnswerAtOnce(card) \/ MarkCancelable(card)
    <3>1. \A r \in Requests : io'[r] = "new" => io[r] = "new"
      BY <2>2 DEF AnswerAtOnce, MarkCancelable, Complete, TypeOK
    <3>2. /\ UNCHANGED pc
          /\ callback.at = "query"
          /\ \/ callback' = Idle
             \/ callback'.request = callback.request
      BY <2>2 DEF AnswerAtOnce, MarkCancelable, TypeOK
    <3> QED
      BY <3>1, <3>2 DEF Idle, NoThreadYet, TypeOK
  <2>3. ASSUME NEW p \in Requests, QueryCard(p, card)
        PROVE  NoThreadYet'
    <3>1. /\ UNCHANGED <<io, callback>>
          /\ pc[p] # "none"
          /\ \A r \in Requests : r # p => pc'[r] = pc[r]
      BY <2>3 DEF QueryCard, FallAsleep, Goto, TypeOK
    <3> QED
      BY <3>1 DEF NoThreadYet, TypeOK
  <2> QED
    BY <2>1, <2>2, <2>3
<1>2. CASE RequestsStay
  BY <1>2 DEF RequestsStay, NoThreadYet
<1> QED
  BY <1>1, <1>2, StepForRequests, NextNoThreadYet

(* Nobody gets hold of the mutex before the server is started.             *)
LEMMA StepMutexInTime ==
  MutexInTime /\ [DNext]_dvars => MutexInTime'
<1> SUFFICES ASSUME MutexInTime, [DNext]_dvars
             PROVE  MutexInTime'
  OBVIOUS
<1> USE DEF MutexInTime, mutex, deviceVars, counts
<1>1. CASE Life
  BY <1>1 DEF Life, NewDevice, CreateDevice, LeaveCreateInstance,
     NewQueueWrapper, CreateIoQueue, StartServer, CloseMutex
<1>2. CASE Removal
  BY <1>2 DEF Removal, StopServer, OnReleaseHardware, DeleteQueue,
     DeleteDevice
<1>3. CASE \E a \in Actors : Acquire(a) \/ Hang(a) \/ Answered(a)
  BY <1>3, DeviceAssumption DEF Acquire, Hang, Answered, Exchange, HangUp,
     ExchangeFails, Release
<1>4. CASE \E p \in Requests : UseFreedDevice(p) \/ PollerStep(p)
  BY <1>4 DEF UseFreedDevice, PollerStep
<1>5. CASE CallbackStep \/ World
  BY <1>5 DEF CallbackStep, World
<1>6. CASE \E r \in Requests :
             DispatchRequest(r) \/ CancelRequest(r) \/ CallOnCancel(r)
  BY <1>6 DEF DispatchRequest, CancelRequest, CallOnCancel
<1>7. CASE UNCHANGED dvars
  BY <1>7 DEF dvars
<1> QED
  BY <1>1, <1>2, <1>3, <1>4, <1>5, <1>6, <1>7 DEF DNext, Answered

(* A step of somebody else does not end that one asks for the card.        *)
LEMMA StillAsks ==
  ASSUME TypeOK, NoThreadYet, [DNext]_dvars, NEW a \in Actors, Asks(a),
         ~Answered(a)
  PROVE  Asks(a)'
<1> USE DEF TypeOK
<1>1. a \in Requests => a # Handler
  BY DeviceAssumption
<1>2. CASE UNCHANGED <<pc, callback>>
  BY <1>2 DEF Asks
<1>3. CASE \/ Life \/ Removal \/ World
           \/ \E b \in Actors : Acquire(b) \/ Hang(b)
  <2>1. UNCHANGED <<pc, callback>>
    BY <1>3 DEF Life, NewDevice, CreateDevice, LeaveCreateInstance,
       NewQueueWrapper, CreateIoQueue, StartServer, CloseMutex, Removal,
       StopServer, OnReleaseHardware, DeleteQueue, DeleteDevice, World,
       CardChanges, ListRace, Acquire, Hang, vars
  <2> QED
    BY <1>2, <2>1
<1>4. ASSUME NEW b \in Actors, Answered(b)
      PROVE  Asks(a)'
  <2>1. a # b
    BY <1>4
  <2>2. PICK card : UseAnswer(b, card)
    BY <1>4 DEF Answered, Exchange, HangUp, ExchangeFails
  <2>3. CASE b = Handler
    BY <2>1, <2>2, <2>3 DEF UseAnswer, AnswerAtOnce, MarkCancelable, Asks
  <2>4. CASE b # Handler
    BY <2>1, <2>2, <2>4 DEF UseAnswer, QueryCard, FallAsleep, Goto, Asks, Actors
  <2> QED
    BY <2>3, <2>4
<1>5. ASSUME NEW p \in Requests, PollerStep(p)
      PROVE  Asks(a)'
  <2>1. a # p /\ UNCHANGED callback
    BY <1>5 DEF PollerStep, Poller, TestOuter, QueryCard, TestInner, TakeFront,
       UnmarkCancelable, CompleteRequest, PopFront, WakeUp
  <2>2. \A r \in Requests : r # p => pc'[r] = pc[r]
    BY <1>5 DEF PollerStep, Poller, TestOuter, QueryCard, TestInner, TakeFront,
       UnmarkCancelable, CompleteRequest, PopFront, WakeUp, FallAsleep, Goto
  <2> QED
    BY <2>1, <2>2 DEF Asks, Actors
<1>6. CASE CallbackStep
  <2>1. callback.at # "query" /\ a # Handler
    BY <1>6 DEF CallbackStep, Asks
  <2>2. CASE PushAndCreateThread
    BY <2>1, <2>2 DEF PushAndCreateThread, NoThreadYet, Asks, Actors
  <2>3. CASE TestEmpty \/ CompleteCancelled
    BY <2>1, <2>3 DEF TestEmpty, CompleteCancelled, Asks
  <2> QED
    BY <1>6, <2>1, <2>2, <2>3
       DEF CallbackStep, Callback, AnswerAtOnce, MarkCancelable
<1>7. ASSUME NEW r \in Requests,
             DispatchRequest(r) \/ CancelRequest(r) \/ CallOnCancel(r)
      PROVE  Asks(a)'
  <2>1. UNCHANGED pc /\ (callback.at = "query" => UNCHANGED callback)
    BY <1>7 DEF DispatchRequest, CancelRequest, CallOnCancel, Dispatch, Cancel,
       OnCancel, Idle
  <2> QED
    BY <2>1 DEF Asks
<1>8. ASSUME NEW p \in Requests, UseFreedDevice(p)
      PROVE  Asks(a)'
  BY <1>8, <1>2 DEF UseFreedDevice
<1>9. CASE UNCHANGED dvars
  BY <1>2, <1>9 DEF dvars, vars
<1> QED
  BY <1>3, <1>4, <1>5, <1>6, <1>7, <1>8, <1>9 DEF DNext, Answered

(* Every step leaves the mutex with an owner and waiters that ask for it.  *)
LEMMA StepMutexOK ==
  ASSUME TypeOK, NoThreadYet, MutexInTime, MutexOK, [DNext]_dvars
  PROVE  MutexOK'
<1> USE DEF MutexOK, mutex, deviceVars, counts
<1>1. Nobody \notin Actors /\ Handler \in Actors /\ Handler \notin Requests
  BY DeviceAssumption DEF Actors
<1>2. \A a \in waiting : a \in Actors /\ Asks(a)'
  BY StillAsks DEF Answered, Exchange, HangUp, ExchangeFails
<1>3. \A a \in Actors :
        a = owner /\ ~unreleased /\ ~Exchange(a) /\ ~HangUp(a) => Asks(a)'
  BY <1>1, StillAsks DEF Answered, ExchangeFails
<1>4. CASE /\ UNCHANGED <<mutexOpen, owner, unreleased, waiting>>
           /\ wdfDevice' \in BOOLEAN /\ hung' \in BOOLEAN
           /\ hung' => owner # Nobody /\ ~unreleased
  <2>1. \A a \in Actors : a = owner /\ (Exchange(a) \/ HangUp(a)) => unreleased'
    BY <1>1, <1>4 DEF Exchange, HangUp, Release
  <2>2. \A a \in Actors : a = owner' /\ ~unreleased' => Asks(a)'
    BY <1>3, <1>4, <2>1
  <2> QED
    BY <1>1, <1>2, <1>4, <2>2
<1>5. CASE StartServer
  <2>1. waiting = {} /\ owner = Nobody /\ ~unreleased
    BY <1>5 DEF StartServer, MutexInTime
  <2> QED
    BY <1>5, <2>1 DEF StartServer
<1>6. CASE CloseMutex
  <2>1. \A a \in Actors : Asks(a)' = Asks(a)
    BY <1>6 DEF CloseMutex, Asks, vars
  <2>2. \A a \in waiting' : a \in Actors /\ Asks(a) /\ a # owner
    BY <1>6 DEF CloseMutex
  <2> QED
    BY <1>6, <2>1, <2>2 DEF CloseMutex
<1>7. ASSUME NEW a \in Actors, Acquire(a)
      PROVE  MutexOK'
  <2>1. Asks(a)'
    BY <1>7 DEF Acquire, Asks, vars
  <2>2. ~unreleased /\ owner' = a /\ a # Nobody
    BY <1>1, <1>7 DEF Acquire
  <2> QED
    BY <1>2, <1>7, <2>1, <2>2 DEF Acquire
<1>8. ASSUME NEW a \in Actors, Exchange(a) \/ HangUp(a)
      PROVE  MutexOK'
  <2>1. owner = a /\ Release(a) /\ UNCHANGED wdfDevice
    BY <1>8 DEF Exchange, HangUp, Release
  <2> QED
    BY <1>1, <1>2, <2>1 DEF Release
<1>9. ASSUME NEW p \in Requests, PollerStep(p)
      PROVE  MutexOK'
  <2>1. CASE UNCHANGED mutex
    BY <1>4, <1>9, <2>1 DEF PollerStep
  <2>2. CASE owner' = Nobody /\ unreleased' = FALSE
    BY <1>1, <1>2, <1>9, <2>2 DEF PollerStep
  <2> QED
    BY <1>9, <2>1, <2>2 DEF PollerStep
<1>10. CASE Life \/ Removal
  <2>1. CASE \/ NewDevice \/ CreateDevice \/ LeaveCreateInstance
             \/ NewQueueWrapper \/ CreateIoQueue
    BY <1>4, <2>1 DEF NewDevice, CreateDevice, LeaveCreateInstance,
       NewQueueWrapper, CreateIoQueue
  <2>2. CASE Removal
    <3>1. CASE StopServer
      BY <1>4, <3>1 DEF StopServer
    <3>2. CASE OnReleaseHardware
      BY <1>4, <3>2 DEF OnReleaseHardware
    <3>3. CASE DeleteQueue \/ DeleteDevice
      BY <1>4, <3>3 DEF DeleteQueue, DeleteDevice
    <3> QED
      BY <2>2, <3>1, <3>2, <3>3 DEF Removal
  <2> QED
    BY <1>5, <1>6, <1>10, <2>1, <2>2 DEF Life
<1>11. CASE \/ CallbackStep \/ World
            \/ \E a \in Actors : Hang(a) \/ ExchangeFails(a)
            \/ \E p \in Requests : UseFreedDevice(p)
            \/ \E r \in Requests :
                 DispatchRequest(r) \/ CancelRequest(r) \/ CallOnCancel(r)
  BY <1>1, <1>4, <1>11 DEF CallbackStep, World, Hang, ExchangeFails,
     UseFreedDevice, DispatchRequest, CancelRequest, CallOnCancel
<1>12. CASE UNCHANGED dvars
  BY <1>4, <1>12 DEF dvars
<1> QED
  BY <1>7, <1>8, <1>9, <1>10, <1>11, <1>12 DEF DNext

(* The types hold, and the mutex, once somebody asks for it, is released,  *)
(* abandoned or waited for only by who may: whatever the callbacks, the    *)
(* threads and the closing of its handle do in between                     *)
(* (persoSimConnect.cpp:18, 192, 239, device.cpp:67, 78, 91).              *)
THEOREM DeviceTypeOKHolds == DSpec => []DeviceTypeOK
<1> DEFINE DInv == Inv /\ Held /\ NoThreadYet /\ MutexInTime /\ MutexOK
<1>1. DInit => DInv
  <2> SUFFICES ASSUME DInit
               PROVE  DInv
    OBVIOUS
  <2>1. Inv /\ Held
    BY InitType, InitOneCompleter, InitHeld DEF DInit, Inv
  <2> QED
    BY <2>1 DEF DInit, Init, Idle, NoThreadYet, MutexInTime, MutexOK
<1>2. DInv /\ [DNext]_dvars => DInv'
  BY StepInv, StepHeld, StepNoThreadYet, StepMutexInTime, StepMutexOK DEF Inv
<1>3. DInv => DeviceTypeOK
  BY DEF Inv, Held, Count, QueueInTime, MutexOK, DeviceTypeOK
<1> QED
  BY <1>1, <1>2, <1>3, PTL DEF DSpec
=============================================================================
