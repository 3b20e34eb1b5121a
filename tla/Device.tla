-------------------------------- MODULE Device --------------------------------
(***************************************************************************)
(* The device from its creation to its end (Driver/device.cpp, Queue.cpp,  *)
(* driver.cpp), around the tracking requests of PendingRequests.           *)
(*                                                                         *)
(* Three things meet here that PendingRequests leaves apart.  Handlers and *)
(* polling threads ask for the card in exchanges under one mutex, and a    *)
(* handler that waits for it keeps the device lock, so that OnCancel       *)
(* waits too.  The plug-and-play callbacks, which take no lock, close that *)
(* mutex below them.  And the device object lives as long as somebody      *)
(* counts a reference to it, which the threads do not.                     *)
(*                                                                         *)
(* An exchange is one step under the mutex, or hangs: Connector has its    *)
(* parts, and why it may hang.  The server is started once: Connector has  *)
(* restarts.                                                               *)
(***************************************************************************)
EXTENDS PendingRequests

CONSTANTS
  Handler,  \* the framework's thread, in whichever handler it is
  Nobody

Actors == Requests \cup {Handler}

ASSUME DeviceAssumption ==
  /\ Handler \notin Requests \cup {NoRequest}
  /\ Nobody \notin Actors

VARIABLES
  pnp,        \* where plug and play has got to
  refCount,   \* references to the VirtualReaderDevice
  queue,      \* is there a QueueWrapper, known to the framework?
  wdfDevice,  \* does the member wdfDevice hold the framework's device?
  mutexOpen,  \* is the handle in ghMutex open?
  owner,      \* of the mutex
  unreleased, \* has its ReleaseMutex failed?
  waiting,    \* who still waits for it although its handle is closed
  hung        \* does the owner's recv wait for what will not come?

counts == <<refCount, queue, wdfDevice>>
mutex == <<mutexOpen, owner, unreleased, waiting, hung>>
deviceVars == <<pnp, counts, mutex>>
dvars == <<vars, deviceVars>>

(* In the order of a device's life.  "failed": OnPrepareHardware has       *)
(* returned an error.  "stopping": within shutDown.                        *)
Phases == {"none", "new", "device", "added", "wrapper", "start", "failed",
           "working", "stopping", "removing", "released", "gone"}

Freed == pnp # "none" /\ refCount = 0

DInit ==
  /\ Init /\ ~present
  /\ pnp = "none"
  /\ refCount = 0 /\ queue = FALSE /\ wdfDevice = FALSE
  /\ mutexOpen = FALSE /\ owner = Nobody /\ unreleased = FALSE
  /\ waiting = {} /\ hung = FALSE

-----------------------------------------------------------------------------
(* VirtualReaderDevice::CreateInstance, called by OnDeviceAdd.             *)

(* CComObject::CreateInstance, AddRef and QueryInterface; or no memory.    *)
NewDevice ==
  /\ pnp = "none"
  /\ \/ pnp' = "new" /\ refCount' = 2
     \/ pnp' = "gone" /\ UNCHANGED refCount
  /\ UNCHANGED <<vars, queue, wdfDevice, mutex>>

(* The framework's device counts a reference.  If it cannot be created,    *)
(* CreateDeviceInterface is called on a NULL pointer.                      *)
CreateDevice ==
  /\ pnp = "new"
  /\ \/ pnp' = "device" /\ refCount' = refCount + 1 /\ UNCHANGED undefined
     \/ undefined' = TRUE /\ UNCHANGED <<pnp, refCount>>
  /\ UNCHANGED <<present, waitIpr, io, cancelRequested, replies, callback, pc,
                 cur, window, queue, wdfDevice, mutex>>

(* SAFE_RELEASE(device), and the end of spCallback.                        *)
LeaveCreateInstance ==
  /\ pnp = "device"
  /\ pnp' = "added"
  /\ refCount' = refCount - 2
  /\ UNCHANGED <<vars, queue, wdfDevice, mutex>>

-----------------------------------------------------------------------------
(* OnPrepareHardware.                                                      *)

(* Mutant: the queue's wrapper does not count its reference.               *)
NewQueueWrapperUncounted ==
  /\ pnp = "added"
  /\ wdfDevice' = TRUE
  /\ \/ pnp' = "wrapper"
     \/ pnp' = "start"
  /\ UNCHANGED <<vars, refCount, queue, mutex>>

(* wdfDevice is assigned, and QueueWrapper::CreateInstance makes a wrapper *)
(* that counts a reference to its parentDevice; or there is no memory.     *)
NewQueueWrapper ==
  /\ pnp = "added"
  /\ wdfDevice' = TRUE
  /\ \/ pnp' = "wrapper" /\ refCount' = refCount + 1
     \/ pnp' = "start" /\ UNCHANGED refCount
  /\ UNCHANGED <<vars, queue, mutex>>

(* CreateIoQueue; if it fails, ~QueueWrapper releases the parentDevice.    *)
CreateIoQueue ==
  /\ pnp = "wrapper"
  /\ pnp' = "start"
  /\ \/ queue' = TRUE /\ UNCHANGED refCount
     \/ refCount' = refCount - 1 /\ UNCHANGED queue
  /\ UNCHANGED <<vars, wdfDevice, mutex>>

(* PSIMStartHandshakeServer, whatever has become of the queue; the result  *)
(* of OnPrepareHardware is that of the queue.                              *)
StartServer ==
  /\ pnp = "start"
  /\ mutexOpen' = TRUE
  /\ pnp' = IF queue THEN "working" ELSE "failed"
  /\ UNCHANGED <<vars, counts, owner, unreleased, waiting, hung>>

-----------------------------------------------------------------------------
(* OnQueryRemove, OnQueryStop and OnSurpriseRemoval: shutDown.             *)

(* Who asks for the card: it waits for the mutex, holds it, or is about to *)
(* call WaitForSingleObject.                                               *)
Asks(a) == IF a = Handler THEN callback.at = "query" ELSE pc[a] = "query"

(* CloseHandle(ghMutex).  Who waits goes on waiting.                       *)
CloseMutex ==
  /\ pnp = "working"
  /\ pnp' = "stopping"
  /\ \/ /\ mutexOpen
        /\ waiting' \in SUBSET {a \in Actors \ {owner} : Asks(a)}
        /\ owner = Nobody => waiting' = {}
     \/ ~mutexOpen /\ UNCHANGED waiting
  /\ mutexOpen' = FALSE
  /\ UNCHANGED <<vars, counts, owner, unreleased, hung>>

(* The sockets go, and every recv returns.  A query may be refused by      *)
(* another driver, and then the device works on without its server.        *)
StopServer ==
  /\ pnp = "stopping"
  /\ present' = FALSE /\ hung' = FALSE
  /\ pnp' \in {"working", "removing"}
  /\ UNCHANGED <<waitIpr, io, cancelRequested, replies, callback, pc, cur,
                 window, undefined, counts, mutexOpen, owner, unreleased,
                 waiting>>

-----------------------------------------------------------------------------
(* The end.                                                                *)

(* Mutant: OnReleaseHardware keeps wdfDevice.                              *)
OnReleaseHardwareKeeps ==
  /\ pnp \in {"removing", "failed"}
  /\ pnp' = "released"
  /\ UNCHANGED <<vars, counts, mutex>>

(* OnReleaseHardware: wdfDevice.Release().                                 *)
OnReleaseHardware ==
  /\ pnp \in {"removing", "failed"}
  /\ pnp' = "released"
  /\ wdfDevice' = FALSE
  /\ UNCHANGED <<vars, refCount, queue, mutex>>

(* The framework deletes the queue when every request it has handed out is *)
(* completed; ~QueueWrapper releases the parentDevice.                     *)
DeleteQueue ==
  /\ pnp = "released" /\ queue
  /\ callback = Idle
  /\ \A r \in Requests : io[r] \in {"new", "done"}
  /\ queue' = FALSE
  /\ refCount' = refCount - 1
  /\ UNCHANGED <<vars, pnp, wdfDevice, mutex>>

(* The framework's device goes with the last reference to it, and lets go  *)
(* of its callback object.                                                 *)
DeleteDevice ==
  /\ pnp = "released" /\ ~queue /\ ~wdfDevice
  /\ pnp' = "gone"
  /\ refCount' = refCount - 1
  /\ UNCHANGED <<vars, queue, wdfDevice, mutex>>

Life ==
  /\ ~undefined
  /\ \/ NewDevice \/ CreateDevice \/ LeaveCreateInstance
     \/ NewQueueWrapper \/ CreateIoQueue \/ StartServer
     \/ CloseMutex

(* What goes on by itself once it has begun.                               *)
Removal ==
  /\ ~undefined
  /\ StopServer \/ OnReleaseHardware \/ DeleteQueue \/ DeleteDevice

-----------------------------------------------------------------------------
(* PSIMICCPresent in handlers and threads.                                 *)

(* WaitForSingleObject.                                                    *)
Acquire(a) ==
  /\ ~undefined
  /\ Asks(a)
  /\ owner = Nobody
  /\ mutexOpen \/ a \in waiting
  /\ owner' = a
  /\ waiting' = waiting \ {a}
  /\ UNCHANGED <<vars, pnp, counts, mutexOpen, unreleased, hung>>

(* What the statement after PSIMICCPresent() does with its answer.         *)
UseAnswer(a, card) ==
  IF a = Handler THEN AnswerAtOnce(card) \/ MarkCancelable(card)
                 ELSE QueryCard(a, card)

(* The reply does not come: the connection was replaced between transmit   *)
(* and receive, or it was closed in the middle of a line (Connector has    *)
(* both).  Once the handle is closed the sockets soon go too, and it makes *)
(* no difference any more.                                                 *)
Hang(a) ==
  /\ ~undefined
  /\ owner = a /\ mutexOpen
  /\ ~hung /\ hung' = TRUE
  /\ UNCHANGED <<vars, pnp, counts, mutexOpen, owner, unreleased, waiting>>

(* Mutant: an exchange that fails leaves without the __finally.            *)
ExchangeFailsEarly(a) ==
  /\ ~undefined
  /\ owner = a /\ ~unreleased /\ ~hung
  /\ UseAnswer(a, present)
  /\ unreleased' = ~mutexOpen
  /\ owner' = IF mutexOpen /\ present THEN Nobody ELSE a
  /\ UNCHANGED <<pnp, counts, mutexOpen, waiting, hung>>

(* __finally, ReleaseMutex: on a closed handle it fails, and the thread    *)
(* stays the owner.                                                        *)
Release(a) ==
  /\ unreleased' = ~mutexOpen
  /\ owner' = IF mutexOpen THEN Nobody ELSE a
  /\ hung' = FALSE
  /\ UNCHANGED <<pnp, counts, mutexOpen, waiting>>

(* The exchange under the mutex, answered or failed.                       *)
Exchange(a) ==
  /\ ~undefined
  /\ owner = a /\ ~unreleased /\ ~hung
  /\ UseAnswer(a, present)
  /\ Release(a)

(* The simulator closes the connection on which an exchange hangs.         *)
HangUp(a) ==
  /\ ~undefined
  /\ owner = a /\ hung
  /\ UseAnswer(a, FALSE)
  /\ Release(a)

(* Mutant: the wait is repeated until it succeeds.                         *)
ExchangeFailsRepeats(a) ==
  /\ ~undefined
  /\ ~mutexOpen /\ a \notin waiting /\ (owner = a => unreleased)
  /\ Asks(a)
  /\ UNCHANGED dvars

(* WaitForSingleObject fails at once on a closed handle; the error means   *)
(* no card to the caller.                                                  *)
ExchangeFails(a) ==
  /\ ~undefined
  /\ ~mutexOpen /\ a \notin waiting /\ (owner = a => unreleased)
  /\ UseAnswer(a, FALSE)
  /\ UNCHANGED deviceVars

-----------------------------------------------------------------------------
(* The other steps of PendingRequests.                                     *)

(* The statements of the polling threads that use the device object.       *)
UsesDevice(p) == pc[p] \in {"outer", "inner", "front", "pop"}

UseFreedDevice(p) ==
  /\ ~undefined
  /\ Freed /\ UsesDevice(p)
  /\ undefined' = TRUE
  /\ UNCHANGED <<present, waitIpr, io, cancelRequested, replies, callback, pc,
                 cur, window, deviceVars>>

(* A thread that ends abandons the mutex it still owns (WAIT_ABANDONED).   *)
PollerStep(p) ==
  /\ ~Asks(p) /\ ~(Freed /\ UsesDevice(p))
  /\ Poller(p)
  /\ \/ pc'[p] = "none" /\ owner = p
        /\ owner' = Nobody /\ unreleased' = FALSE
     \/ (pc'[p] = "none" => owner # p) /\ UNCHANGED <<owner, unreleased>>
  /\ UNCHANGED <<pnp, counts, mutexOpen, waiting, hung>>

CallbackStep ==
  /\ ~Asks(Handler)
  /\ Callback
  /\ UNCHANGED deviceVars

(* The queue is not power managed: it hands out requests as long as the    *)
(* device is there.                                                        *)
DispatchRequest(r) ==
  /\ pnp \in {"working", "stopping"} /\ ~undefined
  /\ Dispatch(r)
  /\ UNCHANGED deviceVars

CancelRequest(r) == ~undefined /\ Cancel(r) /\ UNCHANGED deviceVars

(* A removal has the pending requests cancelled.                           *)
RemovalCancels(r) == pnp \in {"removing", "released"} /\ CancelRequest(r)

CallOnCancel(r) == ~undefined /\ OnCancel(r) /\ UNCHANGED deviceVars

(* Without the server no card is seen.                                     *)
World ==
  /\ \/ mutexOpen /\ CardChanges
     \/ ListRace
  /\ UNCHANGED deviceVars

DNext ==
  \/ Life
  \/ Removal
  \/ \E a \in Actors :
       Acquire(a) \/ Exchange(a) \/ Hang(a) \/ HangUp(a) \/ ExchangeFails(a)
  \/ \E p \in Requests : UseFreedDevice(p) \/ PollerStep(p)
  \/ CallbackStep
  \/ \E r \in Requests :
       DispatchRequest(r) \/ CancelRequest(r) \/ CallOnCancel(r)
  \/ World

(* Threads and callbacks are scheduled, an exchange that does not hang     *)
(* returns, the mutex does not pass over a waiter for ever, the framework  *)
(* calls OnCancel and brings a removal to its end.  Nobody has to end an   *)
(* exchange that hangs.                                                    *)
DFairness ==
  /\ \A p \in Requests : WF_dvars(UseFreedDevice(p) \/ PollerStep(p))
  /\ \A a \in Actors : /\ SF_dvars(Acquire(a))
                       /\ WF_dvars(Exchange(a) \/ ExchangeFails(a))
  /\ WF_dvars(CallbackStep)
  /\ \A r \in Requests : /\ WF_dvars(CallOnCancel(r))
                         /\ WF_dvars(RemovalCancels(r))
  /\ WF_dvars(Removal)

DSpec == DInit /\ [][DNext]_dvars /\ DFairness

-----------------------------------------------------------------------------
(* Properties.                                                             *)

(* Types; and who holds the mutex, or waits for one that is closed, is     *)
(* within PSIMICCPresent, apart from one whose ReleaseMutex has failed.    *)
DeviceTypeOK ==
  /\ TypeOK
  /\ pnp \in Phases
  /\ refCount \in Nat
  /\ {queue, wdfDevice, mutexOpen, unreleased, hung} \subseteq BOOLEAN
  /\ owner \in Actors \cup {Nobody}
  /\ owner # Nobody /\ ~unreleased => Asks(owner)
  /\ unreleased => owner # Nobody /\ ~mutexOpen
  /\ hung => owner # Nobody /\ ~unreleased
  /\ \A a \in waiting : a \in Actors /\ Asks(a) /\ a # owner /\ ~mutexOpen

(* The device object is there as long as the framework may call it, on     *)
(* every path through creation, preparation and removal and whichever of   *)
(* their steps fails, and no reference is left over in the end             *)
(* (device.cpp:30-54, Queue.cpp:12-66, device.cpp:486-500).                *)
HeldWhileCalled ==
  /\ refCount = 0 =>
       /\ pnp \in {"none", "gone"}
       /\ ~queue /\ callback = Idle
       /\ \A r \in Requests : io[r] \notin {"cancelable", "canceling"}
  /\ pnp = "gone" => refCount = 0

(* A callback that holds the device lock gives it back: no handler waits   *)
(* for ever for the polling threads, although they share a mutex.  The     *)
(* exceptions are a mutex whose handle was closed in the middle of an      *)
(* exchange, which cannot be released any more, and an exchange that hangs *)
(* for ever, the handler's own or one it waits for, which nobody ends but  *)
(* a stop or the simulator (persoSimConnect.cpp:18, 137-140, 192, 239).    *)
DeviceLockComesBack ==
  callback # Idle ~>
    (callback = Idle \/ undefined \/ [](Handler \in waiting) \/ []hung)


(* A request nobody will answer: OnCancel has ignored it, or it has been   *)
(* popped unanswered.                                                      *)
Forgotten(r) ==
  \/ io[r] = "ignored"
  \/ /\ io[r] \notin {"new", "done"}
     /\ r \notin ToSet(waitIpr[Kind(r)])
     /\ callback.request # r
     /\ \A p \in Requests : ~(pc[p] = "complete" /\ cur[p] = r)

(* A removal ends, with OnCancel answering what waits: cards that change,  *)
(* threads that poll a stopped server and exchanges, which no longer hang  *)
(* when the sockets are gone, do not keep it.  What can keep it is a       *)
(* forgotten request, or a handler that waits for ever                     *)
(* (device.cpp:486-500, 516-561).                                          *)
RemovalEnds ==
  pnp = "removing" ~>
    \/ pnp = "gone" \/ undefined
    \/ [](Handler \in waiting)
    \/ \E r \in Requests : Forgotten(r)
=============================================================================
