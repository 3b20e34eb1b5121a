------------------------------ MODULE Connector ------------------------------
(***************************************************************************)
(* The connector of the driver (Driver/persoSimConnect.cpp): the handshake *)
(* server a simulator connects to, the socket it publishes, the mutex that *)
(* makes an exchange of request and reply exclusive, and the plug-and-play *)
(* callbacks that start and stop it all (Driver/device.cpp).               *)
(*                                                                         *)
(* Nothing but the exchanges takes the mutex.  The handshake thread        *)
(* replaces ClientSocket, and the plug-and-play callbacks close and        *)
(* recreate mutex, sockets and Winsock, in the middle of what the others   *)
(* do: each step below is what happens between two points where another    *)
(* thread can be noticed.                                                  *)
(*                                                                         *)
(* A message is whole here; LineReceive has the bytes.                     *)
(***************************************************************************)
EXTENDS Naturals, Sequences, SequencesExt

CONSTANTS
  Threads,       \* threads that exchange: the callbacks' and the pollers'
  Connections,   \* connections a simulator may open, each once
  NoThread,
  NoSocket,      \* INVALID_SOCKET as a client
  StartMayFail,  \* may a Winsock call of the start, or CreateThread, fail?
  MaxStarts,     \* bounds: calls of PSIMStartHandshakeServer,
  MaxStops,      \* calls of PSIMStopHandshakeServer,
  MaxExchanges   \* exchanges by each thread

ASSUME ConnectorAssumption ==
  /\ NoThread \notin Threads
  /\ NoSocket \notin Connections
  /\ StartMayFail \in BOOLEAN
  /\ MaxStarts \in Nat /\ MaxStops \in Nat /\ MaxExchanges \in Nat

VARIABLES
  (* the process's globals *)
  ghMutex,       \* number of the start that created the mutex, 0 for NULL
  ListenSocket,  \* number of the start that created it, 0 for INVALID_SOCKET
  ClientSocket,
  acceptHandshakeConnections,
  (* the operating system *)
  mutexOpen,     \* is the handle in ghMutex open?
  owner,         \* the owner of each mutex
  wsa,           \* calls of WSAStartup without their WSACleanup
  listening,     \* the listening sockets that are open
  link,          \* state of each connection
  toSimulator, toDriver,  \* messages under way on each connection
  greeted,       \* connections whose simulator has sent its hello
  (* the threads *)
  pnp,           \* where the plug-and-play callback stands
  started, starts, stops,
  hs, acceptsOn, tmpSocket,      \* the handshake thread of each start
  pc, waitsFor, sock, exchanges, \* the exchange of each thread
  outcome,       \* what the last exchange of each thread has returned
  releaseFailed  \* has ReleaseMutex ever failed?

globals == <<ghMutex, ListenSocket, ClientSocket, acceptHandshakeConnections>>
system == <<mutexOpen, owner, wsa, listening, link>>
network == <<toSimulator, toDriver, greeted>>
lifecycle == <<pnp, started, starts, stops>>
handshake == <<hs, acceptsOn, tmpSocket>>
exchange == <<pc, waitsFor, sock, exchanges, outcome, releaseFailed>>
vars == <<globals, system, network, lifecycle, handshake, exchange>>

Starts == 1 .. MaxStarts

(* "backlog" until accepted; "closed" by the simulator after a whole line, *)
(* "cut" in the middle of one; "dead" when the driver's socket is gone.    *)
LinkStates == {"unused", "backlog", "open", "closed", "cut", "dead"}

(* The connections whose socket the driver still has.                      *)
Live(c) == link[c] \in {"open", "closed", "cut"}

(* A request is named by its thread and number; its reply is named alike.  *)
Message(kind, t, n) == [kind |-> kind, thread |-> t, number |-> n]
Plain(kind) == Message(kind, NoThread, 0)
Request(t) == Message("request", t, exchanges[t])

Init ==
  /\ ghMutex = 0 /\ ListenSocket = 0 /\ ClientSocket = NoSocket
  /\ acceptHandshakeConnections = TRUE
  /\ mutexOpen = FALSE
  /\ owner = [g \in Starts |-> NoThread]
  /\ wsa = 0
  /\ listening = {}
  /\ link = [c \in Connections |-> "unused"]
  /\ toSimulator = [c \in Connections |-> <<>>]
  /\ toDriver = [c \in Connections |-> <<>>]
  /\ greeted = {}
  /\ pnp = "idle" /\ started = FALSE /\ starts = 0 /\ stops = 0
  /\ hs = [g \in Starts |-> "none"]
  /\ acceptsOn = [g \in Starts |-> 0]
  /\ tmpSocket = [g \in Starts |-> NoSocket]
  /\ pc = [t \in Threads |-> "idle"]
  /\ waitsFor = [t \in Threads |-> 0]
  /\ sock = [t \in Threads |-> NoSocket]
  /\ exchanges = [t \in Threads |-> 0]
  /\ outcome = [t \in Threads |-> Plain("none")]
  /\ releaseFailed = FALSE

-----------------------------------------------------------------------------
(* Winsock.                                                                *)

(* closesocket(ListenSocket) resets what waits in its backlog.             *)
CloseListenSocket ==
  /\ listening' = listening \ {ListenSocket}
  /\ link' = [c \in Connections |->
                IF link[c] = "backlog" /\ ListenSocket \in listening
                THEN "dead" ELSE link[c]]

(* The last WSACleanup takes every socket of the process with it; one more *)
(* is an error without effect.                                             *)
WSACleanup ==
  /\ wsa' = IF wsa = 0 THEN 0 ELSE wsa - 1
  /\ IF wsa = 1
     THEN /\ listening' = {}
          /\ link' = [c \in Connections |->
                        IF link[c] = "unused" THEN "unused" ELSE "dead"]
     ELSE UNCHANGED <<listening, link>>

-----------------------------------------------------------------------------
(* PSIMStartHandshakeServer, called by OnPrepareHardware.                  *)

StartMutex ==
  /\ pnp = "idle" /\ ~started /\ starts < MaxStarts
  /\ starts' = starts + 1
  /\ started' = TRUE
  /\ ghMutex' = starts + 1
  /\ mutexOpen' = TRUE
  /\ pnp' = "winsock"
  /\ UNCHANGED <<ListenSocket, ClientSocket, acceptHandshakeConnections,
                 owner, wsa, listening, link, stops>>
  /\ UNCHANGED <<network, handshake, exchange>>

StartWinsock ==
  /\ pnp = "winsock"
  /\ \/ wsa' = wsa + 1 /\ pnp' = "listen"
     \/ StartMayFail /\ pnp' = "idle" /\ UNCHANGED wsa
  /\ UNCHANGED <<mutexOpen, owner, listening, link, started, starts, stops>>
  /\ UNCHANGED <<globals, network, handshake, exchange>>

(* socket, bind, listen: the port is free only if nobody listens, and an   *)
(* older handshake thread may have ended Winsock by now.                   *)
StartListen ==
  /\ pnp = "listen" /\ listening = {} /\ wsa > 0
  /\ ListenSocket' = starts
  /\ listening' = {starts}
  /\ pnp' = "fork"
  /\ UNCHANGED <<ghMutex, ClientSocket, acceptHandshakeConnections, mutexOpen,
                 owner, wsa, link, started, starts, stops>>
  /\ UNCHANGED <<network, handshake, exchange>>

(* getaddrinfo, socket, bind or listen fails.                              *)
StartListenFails ==
  /\ pnp = "listen" /\ (StartMayFail \/ listening # {} \/ wsa = 0)
  /\ ListenSocket' \in {ListenSocket, 0, starts}
  /\ WSACleanup
  /\ pnp' = "idle"
  /\ UNCHANGED <<ghMutex, ClientSocket, acceptHandshakeConnections, mutexOpen,
                 owner, started, starts, stops>>
  /\ UNCHANGED <<network, handshake, exchange>>

StartThread ==
  /\ pnp = "fork"
  /\ ClientSocket' = NoSocket
  /\ \/ hs' = [hs EXCEPT ![starts] = "test"]
     \/ StartMayFail /\ UNCHANGED hs
  /\ pnp' = "idle"
  /\ UNCHANGED <<ghMutex, ListenSocket, acceptHandshakeConnections, started,
                 starts, stops, acceptsOn, tmpSocket>>
  /\ UNCHANGED <<system, network, exchange>>

-----------------------------------------------------------------------------
(* PSIMStopHandshakeServer, called by shutDown for OnQueryRemove,          *)
(* OnQueryStop and OnSurpriseRemoval: a query may be refused and another   *)
(* callback follow, so a stop may follow a stop.                           *)

StopAccepting ==
  /\ pnp = "idle" /\ starts > 0 /\ stops < MaxStops
  /\ stops' = stops + 1
  /\ acceptHandshakeConnections' = FALSE
  /\ pnp' = "closeMutex"
  /\ UNCHANGED <<ghMutex, ListenSocket, ClientSocket, started, starts>>
  /\ UNCHANGED <<system, network, handshake, exchange>>

StopMutex ==
  /\ pnp = "closeMutex"
  /\ mutexOpen' = FALSE
  /\ pnp' = "closeSocket"
  /\ UNCHANGED <<owner, wsa, listening, link, started, starts, stops>>
  /\ UNCHANGED <<globals, network, handshake, exchange>>

StopListening ==
  /\ pnp = "closeSocket"
  /\ CloseListenSocket
  /\ pnp' = "cleanup"
  /\ UNCHANGED <<mutexOpen, owner, wsa, started, starts, stops>>
  /\ UNCHANGED <<globals, network, handshake, exchange>>

(* Mutant: the stop forgets WSACleanup.                                    *)
StopWithoutCleanup ==
  /\ pnp = "cleanup"
  /\ started' = FALSE
  /\ pnp' = "idle"
  /\ UNCHANGED <<starts, stops>>
  /\ UNCHANGED <<globals, system, network, handshake, exchange>>

StopWinsock ==
  /\ pnp = "cleanup"
  /\ WSACleanup
  /\ started' = FALSE
  /\ pnp' = "idle"
  /\ UNCHANGED <<mutexOpen, owner, starts, stops>>
  /\ UNCHANGED <<globals, network, handshake, exchange>>

(* A callback that has begun goes on.                                      *)
PnpStep ==
  \/ StartWinsock \/ StartListen \/ StartListenFails \/ StartThread
  \/ StopMutex \/ StopListening \/ StopWinsock

-----------------------------------------------------------------------------
(* transmit and receive on a connection.                                   *)

Working(c) == link[c] = "open"

(* A send fails without a connection and on a dead socket; on one the      *)
(* simulator has closed it may still seem to succeed.                      *)
CanSend == {c \in Connections : Live(c)}
CannotSend ==
  {NoSocket} \cup {c \in Connections : link[c] \in {"closed", "cut", "dead"}}

Sent(c, message) ==
  toSimulator' = [toSimulator EXCEPT ![c] =
                    IF Working(c) THEN Append(@, message) ELSE @]

(* Mutant: a receive of nothing from a closed connection is tried again.   *)
ReceiveFailsOnlyIfDead(c) == link[c] = "dead"

(* Two exchanges receive on c: the part of a line goes to one of them.     *)
Shared(c) ==
  \E t, u \in Threads :
    t # u /\ pc[t] = "recv" /\ pc[u] = "recv" /\ sock[t] = c /\ sock[u] = c

(* A receive returns a line that has arrived, fails at the end of the      *)
(* connection if it has read nothing, and goes on for ever if it has read  *)
(* part of a line: recv returns 0 and the loop looks at the sum of its     *)
(* results.  Once the socket is gone the errors bring that sum to 0.       *)
CanReceive(c) == toDriver[c] # <<>> /\ link[c] # "dead"
ReceiveFails(c) ==
  \/ link[c] = "dead"
  \/ /\ toDriver[c] = <<>>
     /\ link[c] = "closed" \/ (link[c] = "cut" /\ Shared(c))

Received(c) == toDriver' = [toDriver EXCEPT ![c] = Tail(@)]

-----------------------------------------------------------------------------
(* handleHandshakeConnections, in the thread of the g-th start.            *)

HsGoto(g, step) == hs' = [hs EXCEPT ![g] = step]

(* The loop's test of the flag.                                            *)
HsTest(g) ==
  /\ hs[g] = "test"
  /\ HsGoto(g, IF acceptHandshakeConnections THEN "listen" ELSE "none")
  /\ UNCHANGED <<acceptsOn, tmpSocket>>
  /\ UNCHANGED <<globals, system, network, lifecycle, exchange>>

(* accept(ListenSocket, ...): whichever that is by now, and whatever has   *)
(* become of the flag.                                                     *)
HsListen(g) ==
  /\ hs[g] = "listen"
  /\ acceptsOn' = [acceptsOn EXCEPT ![g] = ListenSocket]
  /\ HsGoto(g, "accept")
  /\ UNCHANGED tmpSocket
  /\ UNCHANGED <<globals, system, network, lifecycle, exchange>>

(* It returns a connection from the backlog, or fails.                     *)
HsAccept(g) ==
  /\ hs[g] = "accept"
  /\ \/ /\ acceptsOn[g] \in listening
        /\ \E c \in Connections :
             /\ link[c] = "backlog"
             /\ link' = [link EXCEPT ![c] = "open"]
             /\ tmpSocket' = [tmpSocket EXCEPT ![g] = c]
        /\ HsGoto(g, "hello")
     \/ /\ acceptsOn[g] \notin listening
        /\ HsGoto(g, "failed")
        /\ UNCHANGED <<link, tmpSocket>>
  /\ UNCHANGED <<mutexOpen, owner, wsa, listening, acceptsOn>>
  /\ UNCHANGED <<globals, network, lifecycle, exchange>>

(* accept has failed: closesocket(ListenSocket), whichever that is by now, *)
HsClose(g) ==
  /\ hs[g] = "failed"
  /\ CloseListenSocket
  /\ HsGoto(g, "cleanup")
  /\ UNCHANGED <<mutexOpen, owner, wsa, acceptsOn, tmpSocket>>
  /\ UNCHANGED <<globals, network, lifecycle, exchange>>

(* WSACleanup, and the thread returns.                                     *)
HsCleanup(g) ==
  /\ hs[g] = "cleanup"
  /\ WSACleanup
  /\ HsGoto(g, "none")
  /\ UNCHANGED <<mutexOpen, owner, acceptsOn, tmpSocket>>
  /\ UNCHANGED <<globals, network, lifecycle, exchange>>

(* The two receives of the handshake; nobody looks at their results.       *)
HsReceive(g) ==
  /\ hs[g] \in {"hello", "answer"}
  /\ \/ CanReceive(tmpSocket[g]) /\ Received(tmpSocket[g])
     \/ ReceiveFails(tmpSocket[g]) /\ UNCHANGED toDriver
  /\ HsGoto(g, IF hs[g] = "hello" THEN "command" ELSE "publish")
  /\ UNCHANGED <<toSimulator, greeted, acceptsOn, tmpSocket>>
  /\ UNCHANGED <<globals, system, lifecycle, exchange>>

(* Mutant: the simulator's answer to the hello is not read.                *)
HsCommandOnly(g) ==
  /\ hs[g] = "command"
  /\ Sent(tmpSocket[g], Plain("IFD_HELLO"))
  /\ HsGoto(g, "publish")
  /\ UNCHANGED <<toDriver, greeted, acceptsOn, tmpSocket>>
  /\ UNCHANGED <<globals, system, lifecycle, exchange>>

(* transmit(tmpSocket, "05|00000000"), and nobody looks at its result.     *)
HsCommand(g) ==
  /\ hs[g] = "command"
  /\ Sent(tmpSocket[g], Plain("IFD_HELLO"))
  /\ HsGoto(g, "answer")
  /\ UNCHANGED <<toDriver, greeted, acceptsOn, tmpSocket>>
  /\ UNCHANGED <<globals, system, lifecycle, exchange>>

(* Mutant: the server serves one simulator only.                           *)
HsPublishOnce(g) ==
  /\ hs[g] = "publish"
  /\ ClientSocket' = tmpSocket[g]
  /\ HsGoto(g, "none")
  /\ UNCHANGED <<ghMutex, ListenSocket, acceptHandshakeConnections, acceptsOn,
                 tmpSocket>>
  /\ UNCHANGED <<system, network, lifecycle, exchange>>

(* ClientSocket = tmpSocket: from now on exchanges use this connection.    *)
HsPublish(g) ==
  /\ hs[g] = "publish"
  /\ ClientSocket' = tmpSocket[g]
  /\ HsGoto(g, "test")
  /\ UNCHANGED <<ghMutex, ListenSocket, acceptHandshakeConnections, acceptsOn,
                 tmpSocket>>
  /\ UNCHANGED <<system, network, lifecycle, exchange>>

Handshake(g) ==
  \/ HsTest(g) \/ HsListen(g) \/ HsAccept(g) \/ HsClose(g) \/ HsCleanup(g)
  \/ HsReceive(g) \/ HsCommand(g) \/ HsPublish(g)

-----------------------------------------------------------------------------
(* exchangePcscFunction.                                                   *)

Goto(t, step) == pc' = [pc EXCEPT ![t] = step]
Returns(t, result) == outcome' = [outcome EXCEPT ![t] = result]

(* WaitForSingleObject fails at once on NULL or a closed handle.           *)
Call(t) ==
  /\ pc[t] = "idle" /\ exchanges[t] < MaxExchanges
  /\ exchanges' = [exchanges EXCEPT ![t] = @ + 1]
  /\ \/ /\ mutexOpen
        /\ Goto(t, "wait")
        /\ waitsFor' = [waitsFor EXCEPT ![t] = ghMutex]
        /\ Returns(t, Plain("none"))
     \/ /\ ~mutexOpen
        /\ Returns(t, Plain("error"))
        /\ UNCHANGED <<pc, waitsFor>>
  /\ UNCHANGED <<sock, releaseFailed>>
  /\ UNCHANGED <<globals, system, network, lifecycle, handshake>>

(* Mutant: the result of the wait is not looked at.                        *)
AcquireAnyway(t) ==
  /\ pc[t] = "wait"
  /\ owner' = [owner EXCEPT ![waitsFor[t]] = t]
  /\ Goto(t, "transmit")
  /\ UNCHANGED <<mutexOpen, wsa, listening, link, waitsFor, sock, exchanges,
                 outcome, releaseFailed>>
  /\ UNCHANGED <<globals, network, lifecycle, handshake>>

(* A wait that has begun goes on after CloseHandle.                        *)
Acquire(t) ==
  /\ pc[t] = "wait"
  /\ owner[waitsFor[t]] = NoThread
  /\ owner' = [owner EXCEPT ![waitsFor[t]] = t]
  /\ Goto(t, "transmit")
  /\ UNCHANGED <<mutexOpen, wsa, listening, link, waitsFor, sock, exchanges,
                 outcome, releaseFailed>>
  /\ UNCHANGED <<globals, network, lifecycle, handshake>>

(* Mutant: a failed transmit returns without the __finally.                *)
TransmitReturns(t) ==
  /\ pc[t] = "transmit"
  /\ \/ /\ ClientSocket \in CanSend
        /\ Sent(ClientSocket, Request(t))
        /\ Goto(t, "receive")
        /\ UNCHANGED outcome
     \/ /\ ClientSocket \in CannotSend
        /\ Returns(t, Plain("error"))
        /\ Goto(t, "idle")
        /\ UNCHANGED toSimulator
  /\ UNCHANGED <<toDriver, greeted, waitsFor, sock, exchanges, releaseFailed>>
  /\ UNCHANGED <<globals, system, lifecycle, handshake>>

(* transmit(ClientSocket, ...), or PSIM_NO_CONNECTION.                     *)
Transmit(t) ==
  /\ pc[t] = "transmit"
  /\ \/ /\ ClientSocket \in CanSend
        /\ Sent(ClientSocket, Request(t))
        /\ Goto(t, "receive")
        /\ UNCHANGED outcome
     \/ /\ ClientSocket \in CannotSend
        /\ Returns(t, Plain("error"))
        /\ Goto(t, "release")
        /\ UNCHANGED toSimulator
  /\ UNCHANGED <<toDriver, greeted, waitsFor, sock, exchanges, releaseFailed>>
  /\ UNCHANGED <<globals, system, lifecycle, handshake>>

(* Mutant: receive does not look for INVALID_SOCKET.                       *)
ReceiveUnchecked(t) ==
  /\ pc[t] = "receive"
  /\ sock' = [sock EXCEPT ![t] = ClientSocket]
  /\ Goto(t, "recv")
  /\ UNCHANGED <<waitsFor, exchanges, outcome, releaseFailed>>
  /\ UNCHANGED <<globals, system, network, lifecycle, handshake>>

(* receive(ClientSocket, ...) reads the global once more...                *)
Receive(t) ==
  /\ pc[t] = "receive"
  /\ \/ /\ ClientSocket # NoSocket
        /\ sock' = [sock EXCEPT ![t] = ClientSocket]
        /\ Goto(t, "recv")
        /\ UNCHANGED outcome
     \/ /\ ClientSocket = NoSocket
        /\ Returns(t, Plain("error"))
        /\ Goto(t, "release")
        /\ UNCHANGED sock
  /\ UNCHANGED <<waitsFor, exchanges, releaseFailed>>
  /\ UNCHANGED <<globals, system, network, lifecycle, handshake>>

(* ... and blocks until a reply or a failure.                              *)
Recv(t) ==
  /\ pc[t] = "recv"
  /\ \/ /\ CanReceive(sock[t])
        /\ Returns(t, Head(toDriver[sock[t]]))
        /\ Received(sock[t])
     \/ /\ ReceiveFails(sock[t])
        /\ Returns(t, Plain("error"))
        /\ UNCHANGED toDriver
  /\ Goto(t, "release")
  /\ sock' = [sock EXCEPT ![t] = NoSocket]
  /\ UNCHANGED <<toSimulator, greeted, waitsFor, exchanges, releaseFailed>>
  /\ UNCHANGED <<globals, system, lifecycle, handshake>>

(* __finally: ReleaseMutex of what ghMutex is by now.                      *)
Release(t) ==
  /\ pc[t] = "release"
  /\ \/ /\ mutexOpen /\ owner[ghMutex] = t
        /\ owner' = [owner EXCEPT ![ghMutex] = NoThread]
        /\ UNCHANGED releaseFailed
     \/ /\ ~(mutexOpen /\ owner[ghMutex] = t)
        /\ releaseFailed' = TRUE
        /\ UNCHANGED owner
  /\ Goto(t, "idle")
  /\ waitsFor' = [waitsFor EXCEPT ![t] = 0]
  /\ UNCHANGED <<mutexOpen, wsa, listening, link, sock, exchanges, outcome>>
  /\ UNCHANGED <<globals, network, lifecycle, handshake>>

Exchange(t) ==
  Acquire(t) \/ Transmit(t) \/ Receive(t) \/ Recv(t) \/ Release(t)

-----------------------------------------------------------------------------
(* The simulator: it connects, sends its hello, answers each message in    *)
(* turn, and may end a connection at any time.                             *)

Connect(c) ==
  /\ link[c] = "unused" /\ listening # {}
  /\ link' = [link EXCEPT ![c] = "backlog"]
  /\ UNCHANGED <<mutexOpen, owner, wsa, listening>>
  /\ UNCHANGED <<globals, network, lifecycle, handshake, exchange>>

Greet(c) ==
  /\ link[c] \in {"backlog", "open"} /\ c \notin greeted
  /\ greeted' = greeted \cup {c}
  /\ toDriver' = [toDriver EXCEPT ![c] = Append(@, Plain("ICC_HELLO"))]
  /\ UNCHANGED toSimulator
  /\ UNCHANGED <<globals, system, lifecycle, handshake, exchange>>

Answer(c) ==
  /\ Working(c) /\ toSimulator[c] # <<>>
  /\ toDriver' = [toDriver EXCEPT ![c] = Append(@, Head(toSimulator[c]))]
  /\ toSimulator' = [toSimulator EXCEPT ![c] = Tail(@)]
  /\ UNCHANGED greeted
  /\ UNCHANGED <<globals, system, lifecycle, handshake, exchange>>

Close(c) ==
  /\ Working(c)
  /\ link' = [link EXCEPT ![c] = "closed"]
  /\ toSimulator' = [toSimulator EXCEPT ![c] = <<>>]
  /\ UNCHANGED <<mutexOpen, owner, wsa, listening, toDriver, greeted>>
  /\ UNCHANGED <<globals, lifecycle, handshake, exchange>>

(* It ends in the middle of a line that the simulator was to send.         *)
Cut(c) ==
  /\ Working(c) /\ (c \notin greeted \/ toSimulator[c] # <<>>)
  /\ link' = [link EXCEPT ![c] = "cut"]
  /\ toSimulator' = [toSimulator EXCEPT ![c] = <<>>]
  /\ UNCHANGED <<mutexOpen, owner, wsa, listening, toDriver, greeted>>
  /\ UNCHANGED <<globals, lifecycle, handshake, exchange>>

Simulator(c) == Greet(c) \/ Answer(c)

Next ==
  \/ StartMutex \/ StopAccepting \/ PnpStep
  \/ \E g \in Starts : Handshake(g)
  \/ \E t \in Threads : Call(t) \/ Exchange(t)
  \/ \E c \in Connections : Connect(c) \/ Simulator(c) \/ Close(c) \/ Cut(c)

(* Threads and callbacks are scheduled; the mutex does not pass over a     *)
(* waiter for ever; the simulator greets and answers.  Nobody need start,  *)
(* stop, connect, close, cut or call.                                      *)
Fairness ==
  /\ WF_vars(PnpStep)
  /\ \A g \in Starts : WF_vars(Handshake(g))
  /\ \A t \in Threads :
       /\ SF_vars(Acquire(t))
       /\ WF_vars(Transmit(t) \/ Receive(t) \/ Recv(t) \/ Release(t))
  /\ \A c \in Connections : WF_vars(Simulator(c))

Spec == Init /\ [][Next]_vars

FairSpec == Spec /\ Fairness

-----------------------------------------------------------------------------
(* Properties.                                                             *)

Messages == [kind : {"none", "error", "request", "IFD_HELLO", "ICC_HELLO"},
             thread : Threads \cup {NoThread}, number : 0 .. MaxExchanges]

(* The types of the variables; a thread that blocks in recv has a socket.  *)
TypeOK ==
  /\ ghMutex \in 0 .. MaxStarts /\ ListenSocket \in 0 .. MaxStarts
  /\ ClientSocket \in Connections \cup {NoSocket}
  /\ acceptHandshakeConnections \in BOOLEAN
  /\ mutexOpen \in BOOLEAN
  /\ owner \in [Starts -> Threads \cup {NoThread}]
  /\ wsa \in Nat
  /\ listening \in SUBSET Starts
  /\ link \in [Connections -> LinkStates]
  /\ toSimulator \in [Connections -> Seq(Messages)]
  /\ toDriver \in [Connections -> Seq(Messages)]
  /\ greeted \in SUBSET Connections
  /\ pnp \in {"idle", "winsock", "listen", "fork", "closeMutex",
              "closeSocket", "cleanup"}
  /\ started \in BOOLEAN /\ starts \in 0 .. MaxStarts /\ stops \in 0 .. MaxStops
  /\ hs \in [Starts -> {"none", "test", "listen", "accept", "failed", "cleanup",
                       "hello", "command", "answer", "publish"}]
  /\ acceptsOn \in [Starts -> 0 .. MaxStarts]
  /\ tmpSocket \in [Starts -> Connections \cup {NoSocket}]
  /\ pc \in [Threads -> {"idle", "wait", "transmit", "receive", "recv",
                        "release"}]
  /\ waitsFor \in [Threads -> 0 .. MaxStarts]
  /\ sock \in [Threads -> Connections \cup {NoSocket}]
  /\ exchanges \in [Threads -> 0 .. MaxExchanges]
  /\ outcome \in [Threads -> Messages]
  /\ releaseFailed \in BOOLEAN
  /\ \A t \in Threads : pc[t] = "recv" => sock[t] \in Connections

(* A handshake thread has tested the flag before a stop and called accept  *)
(* after the start that followed: on the new server's socket.  From here   *)
(* on threads under the old mutex and under the new one may use the same   *)
(* connection; nothing in the code prevents it                             *)
(* (persoSimConnect.cpp:16, 30-32, 61).                                    *)
Overtaken == \E g \in Starts : acceptsOn[g] > g

(* A reply goes to the thread and the request it answers, however threads, *)
(* reconnecting simulators, stops and restarts interleave, unless a        *)
(* handshake thread has been overtaken (persoSimConnect.cpp:30-32,         *)
(* 190-249).                                                               *)
ReplyIsOwn ==
  \A t \in Threads :
    outcome[t].kind \in {"none", "error"} \/ outcome[t] = Request(t) \/ Overtaken

(* ExchangeContract's view of this state.                                  *)
Stage(t) ==
  CASE pc[t] \in {"idle", "release"} -> "idle"
    [] pc[t] \in {"wait", "transmit"} -> "begun"
    [] pc[t] \in {"receive", "recv"} -> "sent"

Result(t) ==
  CASE outcome[t].kind \in {"none", "error"} -> outcome[t].kind
    [] outcome[t] = Request(t) -> "reply"
    [] OTHER -> "wrong"

UnderWay(messages) ==
  {<<m.thread, m.number>> :
     m \in {m \in UNION {ToSet(messages[c]) : c \in Connections} :
             m.kind = "request"}}

Contract == INSTANCE ExchangeContract WITH
  calls <- exchanges,
  stage <- [t \in Threads |-> Stage(t)],
  outcome <- [t \in Threads |-> Result(t)],
  asked <- UnderWay(toSimulator),
  served <- UnderWay(toDriver)

(* The connector keeps the contract that ExchangeContract states, across   *)
(* reconnections, failures, stops and restarts: a request is sent once, a  *)
(* reply is the simulator's to this request and was made during this       *)
(* exchange, and nobody else (the handshake, a thread under another mutex) *)
(* takes it from the connection.  It may break it once a handshake thread  *)
(* has been overtaken by a restart (persoSimConnect.cpp:30-51, 190-249).   *)
ImplementsExchanges ==
  Contract!Init /\ [][Contract!Next \/ Overtaken']_(Contract!vars)

(* Between two exchanges nothing is left on the connection in use, so the  *)
(* next reply to be read is that of the next request                       *)
(* (persoSimConnect.cpp:46-51, 218-234).                                   *)
InStep ==
  \A c \in Connections :
    /\ c = ClientSocket /\ Working(c)
    /\ \A t \in Threads : pc[t] \notin {"receive", "recv"}
    => toSimulator[c] = <<>> /\ toDriver[c] = <<>>

(* Two threads wait for a reply on one connection only when it is dead,    *)
(* or when they hold the mutexes of two starts and the handshake thread of *)
(* the first was overtaken: a restart makes a new mutex while a thread may *)
(* still be inside the old one's exchange, and it is the stop's WSACleanup *)
(* that keeps the two apart (persoSimConnect.cpp:15-22, 30-32, 61,         *)
(* 192-199).                                                               *)
ExclusiveSocket ==
  \A t, u \in Threads :
    t # u /\ pc[t] = "recv" /\ pc[u] = "recv" /\ sock[t] = sock[u] =>
      link[sock[t]] = "dead" \/ (waitsFor[t] # waitsFor[u] /\ Overtaken)

(* Every way out of an exchange gives the mutex back as long as its handle *)
(* is open (persoSimConnect.cpp:221-248).                                  *)
MutexIsGivenBack ==
  mutexOpen => LET t == owner[ghMutex] IN
    t # NoThread =>
      /\ pc[t] \in {"transmit", "receive", "recv", "release"}
      /\ waitsFor[t] = ghMutex

(* A thread waits on a working connection for a reply to a request that    *)
(* went to another one: ClientSocket changed between transmit and receive  *)
(* (persoSimConnect.cpp:51, 218, 227).                                     *)
Misdirected(t) ==
  /\ pc[t] = "recv" /\ Working(sock[t])
  /\ toSimulator[sock[t]] = <<>> /\ toDriver[sock[t]] = <<>>

(* It has read part of a line, and no more will come: recv returns 0 again *)
(* and again (persoSimConnect.cpp:137-140).                                *)
CutOff(c) == link[c] = "cut" /\ toDriver[c] = <<>>

(* An exchange returns, given a simulator that answers or hangs up between *)
(* two lines.  Three things keep it: a reconnection that misdirects the    *)
(* exchange that holds the mutex, a simulator that goes in the middle of   *)
(* its reply, and a ReleaseMutex that failed since a stop had closed the   *)
(* handle (persoSimConnect.cpp:18, 51, 137-140, 190-249).                  *)
ExchangeReturns ==
  \A t \in Threads :
    pc[t] # "idle" ~>
      \/ pc[t] = "idle" \/ releaseFailed
      \/ \E u \in Threads : Misdirected(u) \/ (pc[u] = "recv" /\ CutOff(sock[u]))

(* A simulator that connects becomes the one in use, or has been, unless   *)
(* the server is stopped: one that hangs up during its handshake does not  *)
(* keep the others out, as long as it does so between two lines; in the    *)
(* middle of one it keeps the handshake thread (persoSimConnect.cpp:30-52, *)
(* 137-140).                                                               *)
SimulatorIsServed ==
  \A c \in Connections :
    link[c] = "backlog" ~>
      \/ ClientSocket = c \/ stops > 0
      \/ \E g \in Starts : hs[g] \in {"hello", "answer"} /\ CutOff(tmpSocket[g])

(* OnPrepareHardware is to "start the handshake server" (device.cpp:480),  *)
(* which is to listen on its port (persoSimConnect.h:71): as long as it is *)
(* started, a thread of it accepts or serves a simulator.                  *)
StartedServerListens ==
  started /\ pnp = "idle" =>
    \E g \in Starts : hs[g] \notin {"none", "failed", "cleanup"}
=============================================================================
