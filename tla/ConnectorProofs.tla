--------------------------- MODULE ConnectorProofs ---------------------------
(***************************************************************************)
(* What holds of Connector for any number of threads, connections, starts, *)
(* stops and exchanges: the types, the mutex that comes back, and the one  *)
(* reader of a socket.  ConnectorExchangeProofs builds on the invariants   *)
(* found here.                                                             *)
(***************************************************************************)
EXTENDS Connector, SequenceTheorems, TLAPS

-----------------------------------------------------------------------------
(* Types, by the groups of variables that actions leave alone.             *)

GlobalsOK ==
  /\ ghMutex \in 0 .. MaxStarts /\ ListenSocket \in 0 .. MaxStarts
  /\ ClientSocket \in Connections \cup {NoSocket}
  /\ acceptHandshakeConnections \in BOOLEAN

SystemOK ==
  /\ mutexOpen \in BOOLEAN
  /\ owner \in [Starts -> Threads \cup {NoThread}]
  /\ wsa \in Nat
  /\ listening \in SUBSET Starts
  /\ link \in [Connections -> LinkStates]

NetworkOK ==
  /\ toSimulator \in [Connections -> Seq(Messages)]
  /\ toDriver \in [Connections -> Seq(Messages)]
  /\ greeted \in SUBSET Connections

LifecycleOK ==
  /\ pnp \in {"idle", "winsock", "listen", "fork", "closeMutex",
              "closeSocket", "cleanup"}
  /\ started \in BOOLEAN /\ starts \in 0 .. MaxStarts /\ stops \in 0 .. MaxStops

HandshakeOK ==
  /\ hs \in [Starts -> {"none", "test", "listen", "accept", "failed", "cleanup", "hello",
                       "command", "answer", "publish"}]
  /\ acceptsOn \in [Starts -> 0 .. MaxStarts]
  /\ tmpSocket \in [Starts -> Connections \cup {NoSocket}]

ExchangeOK ==
  /\ pc \in [Threads -> {"idle", "wait", "transmit", "receive", "recv",
                        "release"}]
  /\ waitsFor \in [Threads -> 0 .. MaxStarts]
  /\ sock \in [Threads -> Connections \cup {NoSocket}]
  /\ exchanges \in [Threads -> 0 .. MaxExchanges]
  /\ outcome \in [Threads -> Messages]
  /\ releaseFailed \in BOOLEAN
  /\ \A t \in Threads : pc[t] = "recv" => sock[t] \in Connections

(* Where threads, handshakes and callbacks stand fits what they work on: a *)
(* thread that waits or exchanges has a mutex, a handshake a socket, and   *)
(* the latest start made the mutex in ghMutex.                             *)
InHandshake == {"hello", "command", "answer", "publish"}

Positions ==
  /\ ghMutex = starts
  /\ mutexOpen \/ pnp # "idle" => starts > 0
  /\ \A t \in Threads : pc[t] # "idle" => waitsFor[t] \in 1 .. starts
  /\ \A g \in Starts : hs[g] \in InHandshake => tmpSocket[g] \in Connections

Groups == /\ GlobalsOK /\ SystemOK /\ NetworkOK
          /\ LifecycleOK /\ HandshakeOK /\ ExchangeOK

Typed == Groups /\ Positions

(* They are TypeOK.                                                        *)
LEMMA TypeOfGroups == Groups <=> TypeOK
BY DEF Groups, GlobalsOK, SystemOK, NetworkOK, LifecycleOK, HandshakeOK,
       ExchangeOK, TypeOK

(* A group that does not change keeps its types.                           *)
LEMMA GroupsStay ==
  /\ GlobalsOK /\ UNCHANGED globals => GlobalsOK'
  /\ SystemOK /\ UNCHANGED system => SystemOK'
  /\ NetworkOK /\ UNCHANGED network => NetworkOK'
  /\ LifecycleOK /\ UNCHANGED lifecycle => LifecycleOK'
  /\ HandshakeOK /\ UNCHANGED handshake => HandshakeOK'
  /\ ExchangeOK /\ UNCHANGED exchange => ExchangeOK'
<1>1. GlobalsOK /\ UNCHANGED globals => GlobalsOK'
  BY DEF GlobalsOK, globals
<1>2. SystemOK /\ UNCHANGED system => SystemOK'
  BY DEF SystemOK, system
<1>3. NetworkOK /\ UNCHANGED network => NetworkOK'
  BY DEF NetworkOK, network
<1>4. LifecycleOK /\ UNCHANGED lifecycle => LifecycleOK'
  BY DEF LifecycleOK, lifecycle
<1>5. HandshakeOK /\ UNCHANGED handshake => HandshakeOK'
  BY DEF HandshakeOK, handshake
<1>6. ExchangeOK /\ UNCHANGED exchange => ExchangeOK'
  BY DEF ExchangeOK, exchange
<1> QED
  BY <1>1, <1>2, <1>3, <1>4, <1>5, <1>6

(* The messages there are.                                                 *)
LEMMA PlainType ==
  \A k \in {"none", "error", "IFD_HELLO", "ICC_HELLO"} : Plain(k) \in Messages
<1>1. 0 \in 0 .. MaxExchanges
  BY ConnectorAssumption
<1> QED
  BY <1>1 DEF Messages, Plain, Message

(* A request is a message.                                                 *)
LEMMA RequestType ==
  ASSUME ExchangeOK, NEW t \in Threads
  PROVE  Request(t) \in Messages
BY DEF ExchangeOK, Messages, Request, Message

(* Sending and receiving keep the types of what is under way.              *)
LEMMA SentType ==
  ASSUME NetworkOK, NEW c \in Connections, NEW m \in Messages, Sent(c, m)
  PROVE  toSimulator' \in [Connections -> Seq(Messages)]
<1>1. Append(toSimulator[c], m) \in Seq(Messages)
  BY AppendProperties DEF NetworkOK
<1> QED
  BY <1>1 DEF Sent, NetworkOK

(* The first message that is under way, and the rest, have their types.    *)
LEMMA HeadType ==
  ASSUME NetworkOK, NEW c \in Connections
  PROVE  /\ toDriver[c] # <<>> => /\ Head(toDriver[c]) \in Messages
                                  /\ Tail(toDriver[c]) \in Seq(Messages)
         /\ toSimulator[c] # <<>> => /\ Head(toSimulator[c]) \in Messages
                                     /\ Tail(toSimulator[c]) \in Seq(Messages)
<1>1. toDriver[c] \in Seq(Messages) /\ toSimulator[c] \in Seq(Messages)
  BY DEF NetworkOK
<1> QED
  BY <1>1, HeadTailProperties

(* Receiving keeps the types of what is under way.                         *)
LEMMA ReceivedType ==
  ASSUME NetworkOK, NEW c \in Connections, CanReceive(c), Received(c)
  PROVE  toDriver' \in [Connections -> Seq(Messages)]
BY HeadType DEF Received, CanReceive, NetworkOK

(* Closing sockets keeps the types of the system's variables.              *)
LEMMA WSACleanupType ==
  ASSUME SystemOK, WSACleanup, UNCHANGED <<mutexOpen, owner>>
  PROVE  SystemOK'
<1>1. wsa' \in Nat
  BY DEF WSACleanup, SystemOK
<1>2. CASE wsa = 1
  BY <1>1, <1>2 DEF WSACleanup, SystemOK, LinkStates
<1>3. CASE wsa # 1
  BY <1>1, <1>3 DEF WSACleanup, SystemOK
<1> QED
  BY <1>2, <1>3

(* So does closing the listening socket.                                   *)
LEMMA CloseListenSocketType ==
  ASSUME SystemOK, CloseListenSocket, UNCHANGED <<mutexOpen, owner, wsa>>
  PROVE  SystemOK'
BY DEF CloseListenSocket, SystemOK, LinkStates

(* Initially everything is well typed.                                     *)
LEMMA InitTyped == Init => Typed
<1> SUFFICES ASSUME Init
             PROVE  Typed
  OBVIOUS
<1> USE DEF Init
<1>1. 0 \in 0 .. MaxStarts /\ 0 \in 0 .. MaxStops /\ 0 \in 0 .. MaxExchanges
  BY ConnectorAssumption
<1>2. GlobalsOK /\ LifecycleOK
  BY <1>1 DEF GlobalsOK, LifecycleOK
<1>3. SystemOK /\ HandshakeOK
  BY <1>1 DEF SystemOK, LinkStates, HandshakeOK
<1>4. NetworkOK
  <2>1. <<>> \in Seq(Messages)
    BY EmptySeq
  <2> QED
    BY <2>1 DEF NetworkOK
<1>5. ExchangeOK
  BY <1>1, PlainType DEF ExchangeOK
<1>6. Positions
  BY DEF Positions, InHandshake
<1> QED
  BY <1>2, <1>3, <1>4, <1>5, <1>6 DEF Groups, Typed

(* Every step leads from well-typed states to well-typed states.           *)
LEMMA NextGroups == Typed /\ [Next]_vars => Groups'
<1> SUFFICES ASSUME Typed, [Next]_vars
             PROVE  Groups'
  OBVIOUS
<1> USE DEF Typed, Groups
<1>1. CASE StartMutex
  <2>1. starts + 1 \in 0 .. MaxStarts
    <3>1. starts \in Nat /\ MaxStarts \in Nat /\ starts < MaxStarts
      BY <1>1, ConnectorAssumption DEF StartMutex, LifecycleOK
    <3> QED
      BY <3>1
  <2>2. GlobalsOK'
    BY <1>1, <2>1 DEF StartMutex, GlobalsOK
  <2>3. SystemOK'
    BY <1>1 DEF StartMutex, SystemOK
  <2>4. LifecycleOK'
    BY <1>1, <2>1 DEF StartMutex, LifecycleOK
  <2> QED
    BY <1>1, GroupsStay, <2>2, <2>3, <2>4 DEF StartMutex
<1>2. CASE StartWinsock
  <2>1. SystemOK'
    BY <1>2
       DEF StartWinsock, SystemOK, LinkStates
  <2>2. LifecycleOK'
    BY <1>2
       DEF StartWinsock, LifecycleOK
  <2> QED
    BY <1>2, GroupsStay, <2>1, <2>2 DEF StartWinsock
<1>3. CASE StartListen
  <2>1. GlobalsOK'
    BY <1>3
       DEF StartListen, GlobalsOK, LifecycleOK
  <2>2. SystemOK'
    BY <1>3
       DEF StartListen, SystemOK, LifecycleOK, Positions, Starts
  <2>3. LifecycleOK'
    BY <1>3
       DEF StartListen, LifecycleOK
  <2> QED
    BY <1>3, GroupsStay, <2>1, <2>2, <2>3 DEF StartListen
<1>4. CASE StartListenFails
  <2>1. GlobalsOK'
    <3>1. 0 \in 0 .. MaxStarts /\ starts \in 0 .. MaxStarts
      BY ConnectorAssumption DEF LifecycleOK
    <3> QED
      BY <1>4, <3>1 DEF StartListenFails, GlobalsOK
  <2>2. SystemOK'
    BY <1>4, WSACleanupType
       DEF StartListenFails, SystemOK, LinkStates
  <2>3. LifecycleOK'
    BY <1>4
       DEF StartListenFails, LifecycleOK
  <2> QED
    BY <1>4, GroupsStay, <2>1, <2>2, <2>3 DEF StartListenFails
<1>5. CASE StartThread
  <2>1. GlobalsOK'
    BY <1>5
       DEF StartThread, GlobalsOK
  <2>2. LifecycleOK'
    BY <1>5
       DEF StartThread, LifecycleOK
  <2>3. HandshakeOK'
    BY <1>5
       DEF StartThread, HandshakeOK, HsGoto
  <2> QED
    BY <1>5, GroupsStay, <2>1, <2>2, <2>3 DEF StartThread
<1>6. CASE StopAccepting
  <2>1. GlobalsOK'
    BY <1>6
       DEF StopAccepting, GlobalsOK
  <2>2. LifecycleOK'
    <3>1. stops + 1 \in 0 .. MaxStops
      <4>1. stops \in Nat /\ MaxStops \in Nat /\ stops < MaxStops
        BY <1>6, ConnectorAssumption DEF StopAccepting, LifecycleOK
      <4> QED
        BY <4>1
    <3> QED
      BY <1>6, <3>1 DEF StopAccepting, LifecycleOK
  <2> QED
    BY <1>6, GroupsStay, <2>1, <2>2 DEF StopAccepting
<1>7. CASE StopMutex
  <2>1. SystemOK'
    BY <1>7
       DEF StopMutex, SystemOK, LinkStates
  <2>2. LifecycleOK'
    BY <1>7
       DEF StopMutex, LifecycleOK
  <2> QED
    BY <1>7, GroupsStay, <2>1, <2>2 DEF StopMutex
<1>8. CASE StopListening
  <2>1. SystemOK'
    BY <1>8, CloseListenSocketType
       DEF StopListening, SystemOK, LinkStates
  <2>2. LifecycleOK'
    BY <1>8
       DEF StopListening, LifecycleOK
  <2> QED
    BY <1>8, GroupsStay, <2>1, <2>2 DEF StopListening
<1>9. CASE StopWinsock
  <2>1. SystemOK'
    BY <1>9, WSACleanupType
       DEF StopWinsock, SystemOK, LinkStates
  <2>2. LifecycleOK'
    BY <1>9
       DEF StopWinsock, LifecycleOK
  <2> QED
    BY <1>9, GroupsStay, <2>1, <2>2 DEF StopWinsock
<1>10. ASSUME NEW g \in Starts, HsTest(g)
       PROVE  Groups'
  <2>1. HandshakeOK'
    BY <1>10
       DEF HsTest, HsListen, HandshakeOK, HsGoto, GlobalsOK
  <2> QED
    BY <1>10, GroupsStay, <2>1 DEF HsTest
<1>28. ASSUME NEW g \in Starts, HsListen(g)
       PROVE  Groups'
  <2>1. HandshakeOK'
    BY <1>28
       DEF HsListen, HandshakeOK, HsGoto, GlobalsOK
  <2> QED
    BY <1>28, GroupsStay, <2>1 DEF HsListen
<1>11. ASSUME NEW g \in Starts, HsAccept(g)
       PROVE  Groups'
  <2>1. SystemOK'
    BY <1>11
       DEF HsAccept, SystemOK, LinkStates
  <2>2. HandshakeOK'
    BY <1>11
       DEF HsAccept, HandshakeOK, HsGoto
  <2> QED
    BY <1>11, GroupsStay, <2>1, <2>2 DEF HsAccept
<1>12. ASSUME NEW g \in Starts, HsClose(g)
       PROVE  Groups'
  <2>1. SystemOK'
    BY <1>12, CloseListenSocketType
       DEF HsClose, SystemOK, LinkStates
  <2>2. HandshakeOK'
    BY <1>12
       DEF HsClose, HandshakeOK, HsGoto
  <2> QED
    BY <1>12, GroupsStay, <2>1, <2>2 DEF HsClose
<1>13. ASSUME NEW g \in Starts, HsCleanup(g)
       PROVE  Groups'
  <2>1. SystemOK'
    BY <1>13, WSACleanupType
       DEF HsCleanup, SystemOK, LinkStates
  <2>2. HandshakeOK'
    BY <1>13
       DEF HsCleanup, HandshakeOK, HsGoto
  <2> QED
    BY <1>13, GroupsStay, <2>1, <2>2 DEF HsCleanup
<1>14. ASSUME NEW g \in Starts, HsReceive(g)
       PROVE  Groups'
  <2>1. NetworkOK'
    BY <1>14, ReceivedType
       DEF HsReceive, NetworkOK, Positions, InHandshake
  <2>2. HandshakeOK'
    BY <1>14
       DEF HsReceive, HandshakeOK, HsGoto
  <2> QED
    BY <1>14, GroupsStay, <2>1, <2>2 DEF HsReceive
<1>15. ASSUME NEW g \in Starts, HsCommand(g)
       PROVE  Groups'
  <2>1. NetworkOK'
    BY <1>15, SentType, PlainType
       DEF HsCommand, NetworkOK, Positions, InHandshake
  <2>2. HandshakeOK'
    BY <1>15
       DEF HsCommand, HandshakeOK, HsGoto
  <2> QED
    BY <1>15, GroupsStay, <2>1, <2>2 DEF HsCommand
<1>16. ASSUME NEW g \in Starts, HsPublish(g)
       PROVE  Groups'
  <2>1. GlobalsOK'
    BY <1>16
       DEF HsPublish, GlobalsOK, Positions, InHandshake
  <2>2. HandshakeOK'
    BY <1>16
       DEF HsPublish, HandshakeOK, HsGoto
  <2> QED
    BY <1>16, GroupsStay, <2>1, <2>2 DEF HsPublish
<1>17. ASSUME NEW t \in Threads, Call(t)
       PROVE  Groups'
  <2>1. ExchangeOK'
    <3>1. exchanges[t] + 1 \in 0 .. MaxExchanges
      BY <1>17, ConnectorAssumption DEF Call, ExchangeOK
    <3>2. exchanges' \in [Threads -> 0 .. MaxExchanges]
      BY <1>17, <3>1 DEF Call, ExchangeOK
    <3>3. outcome' \in [Threads -> Messages]
      BY <1>17, PlainType DEF Call, ExchangeOK, Returns
    <3>4. UNCHANGED <<sock, releaseFailed>>
      BY <1>17 DEF Call
    <3>5. CASE UNCHANGED <<pc, waitsFor>>
      BY <3>2, <3>3, <3>4, <3>5 DEF ExchangeOK
    <3>6. CASE Goto(t, "wait") /\ waitsFor' = [waitsFor EXCEPT ![t] = ghMutex]
      BY <3>2, <3>3, <3>4, <3>6 DEF ExchangeOK, GlobalsOK, Goto
    <3> QED
      BY <1>17, <3>5, <3>6 DEF Call
  <2> QED
    BY <1>17, GroupsStay, <2>1 DEF Call
<1>18. ASSUME NEW t \in Threads, Acquire(t)
       PROVE  Groups'
  <2>1. SystemOK'
    BY <1>18
       DEF Acquire, SystemOK, LinkStates
  <2>2. ExchangeOK'
    BY <1>18
       DEF Acquire, ExchangeOK, Goto, Returns
  <2> QED
    BY <1>18, GroupsStay, <2>1, <2>2 DEF Acquire
<1>19. ASSUME NEW t \in Threads, Transmit(t)
       PROVE  Groups'
  <2>1. NetworkOK'
    BY <1>19, SentType, RequestType
       DEF Transmit, NetworkOK, CanSend
  <2>2. ExchangeOK'
    BY <1>19, PlainType
       DEF Transmit, ExchangeOK, Goto, Returns
  <2> QED
    BY <1>19, GroupsStay, <2>1, <2>2 DEF Transmit
<1>20. ASSUME NEW t \in Threads, Receive(t)
       PROVE  Groups'
  <2>1. ExchangeOK'
    <3>1. CASE ClientSocket # NoSocket
      BY <1>20, <3>1 DEF Receive, ExchangeOK, Goto, GlobalsOK
    <3>2. CASE ClientSocket = NoSocket
      BY <1>20, <3>2, PlainType DEF Receive, ExchangeOK, Goto, Returns
    <3> QED
      BY <3>1, <3>2
  <2> QED
    BY <1>20, GroupsStay, <2>1 DEF Receive
<1>21. ASSUME NEW t \in Threads, Recv(t)
       PROVE  Groups'
  <2>1. NetworkOK'
    <3>1. sock[t] \in Connections
      BY <1>21 DEF Recv, ExchangeOK
    <3> QED
      BY <1>21, <3>1, ReceivedType DEF Recv, NetworkOK
  <2>2. ExchangeOK'
    <3>1. sock[t] \in Connections
      BY <1>21 DEF Recv, ExchangeOK
    <3>2. outcome' \in [Threads -> Messages]
      BY <1>21, <3>1, PlainType, HeadType
         DEF Recv, ExchangeOK, Returns, CanReceive
    <3> QED
      BY <1>21, <3>2 DEF Recv, ExchangeOK, Goto
  <2> QED
    BY <1>21, GroupsStay, <2>1, <2>2 DEF Recv
<1>22. ASSUME NEW t \in Threads, Release(t)
       PROVE  Groups'
  <2>1. SystemOK'
    BY <1>22
       DEF Release, SystemOK, LinkStates
  <2>2. ExchangeOK'
    <3>1. 0 \in 0 .. MaxStarts
      BY ConnectorAssumption
    <3> QED
      BY <1>22, <3>1 DEF Release, ExchangeOK, Goto
  <2> QED
    BY <1>22, GroupsStay, <2>1, <2>2 DEF Release
<1>23. ASSUME NEW c \in Connections, Connect(c)
       PROVE  Groups'
  <2>1. SystemOK'
    BY <1>23
       DEF Connect, SystemOK, LinkStates
  <2> QED
    BY <1>23, GroupsStay, <2>1 DEF Connect
<1>24. ASSUME NEW c \in Connections, Greet(c)
       PROVE  Groups'
  <2>1. NetworkOK'
    BY <1>24, AppendProperties, PlainType
       DEF Greet, NetworkOK
  <2> QED
    BY <1>24, GroupsStay, <2>1 DEF Greet
<1>25. ASSUME NEW c \in Connections, Answer(c)
       PROVE  Groups'
  <2>1. NetworkOK'
    BY <1>25, AppendProperties, HeadType
       DEF Answer, NetworkOK
  <2> QED
    BY <1>25, GroupsStay, <2>1 DEF Answer
<1>26. ASSUME NEW c \in Connections, Close(c)
       PROVE  Groups'
  <2>1. SystemOK'
    BY <1>26
       DEF Close, SystemOK, LinkStates
  <2>2. NetworkOK'
    BY <1>26, EmptySeq
       DEF Close, NetworkOK
  <2> QED
    BY <1>26, GroupsStay, <2>1, <2>2 DEF Close
<1>29. ASSUME NEW c \in Connections, Cut(c)
       PROVE  Groups'
  <2>1. SystemOK'
    BY <1>29
       DEF Cut, SystemOK, LinkStates
  <2>2. NetworkOK'
    BY <1>29, EmptySeq
       DEF Cut, NetworkOK
  <2> QED
    BY <1>29, GroupsStay, <2>1, <2>2 DEF Cut
<1>27. CASE UNCHANGED vars
  BY <1>27, GroupsStay DEF vars
<1> QED
  BY <1>1, <1>2, <1>3, <1>4, <1>5, <1>6, <1>7, <1>8, <1>9, <1>10, <1>11,
     <1>12, <1>13, <1>14, <1>15, <1>16, <1>17, <1>18, <1>19, <1>20, <1>21,
     <1>22, <1>23, <1>24, <1>25, <1>26, <1>27, <1>28, <1>29
  DEF Next, PnpStep, Handshake, Exchange, Simulator

(* Positions stay in order.                                                *)
LEMMA NextPositions == Typed /\ [Next]_vars => Positions'
<1> SUFFICES ASSUME Groups, Positions, [Next]_vars
             PROVE  Positions'
  BY DEF Typed
<1>1. starts \in Nat
  BY ConnectorAssumption DEF Groups, LifecycleOK
<1> DEFINE Same == UNCHANGED <<ghMutex, starts, mutexOpen>>
<1>2. ASSUME Same, UNCHANGED <<hs, tmpSocket, pc, waitsFor>>,
             pnp' # "idle" => starts > 0
      PROVE  Positions'
  BY <1>2 DEF Positions
<1>3. CASE StartMutex
  BY <1>1, <1>3 DEF StartMutex, Positions, handshake, exchange
<1>4. CASE \/ StartWinsock \/ StartListen \/ StartListenFails
           \/ StopAccepting \/ StopListening \/ StopWinsock
  BY <1>2, <1>4
     DEF StartWinsock, StartListen, StartListenFails, StopAccepting,
         StopListening, StopWinsock, WSACleanup, CloseListenSocket, Positions,
         globals, system, handshake, exchange
<1>5. CASE StartThread
  BY <1>5
     DEF StartThread, Positions, InHandshake, Groups, HandshakeOK, system,
         exchange
<1>6. CASE StopMutex
  BY <1>6 DEF StopMutex, Positions, globals, handshake, exchange
<1>7. ASSUME NEW g \in Starts, Handshake(g)
      PROVE  Positions'
  <2>1. Same /\ UNCHANGED <<pnp, pc, waitsFor>>
    BY <1>7
       DEF Handshake, HsTest, HsListen, HsAccept, HsClose, HsCleanup, HsReceive,
           HsCommand, HsPublish, globals, system, lifecycle, exchange
  <2>2. \A h \in Starts : h # g => hs'[h] = hs[h] /\ tmpSocket'[h] = tmpSocket[h]
    BY <1>7
       DEF Handshake, HsTest, HsListen, HsAccept, HsClose, HsCleanup, HsReceive,
           HsCommand, HsPublish, HsGoto, Groups, HandshakeOK
  <2>3. hs'[g] \in InHandshake => tmpSocket'[g] \in Connections
    BY <1>7
       DEF Handshake, HsTest, HsListen, HsAccept, HsClose, HsCleanup, HsReceive,
           HsCommand, HsPublish, HsGoto, Groups, HandshakeOK, InHandshake,
           Positions
  <2> QED
    BY <2>1, <2>2, <2>3 DEF Positions
<1>8. ASSUME NEW t \in Threads, Call(t)
      PROVE  Positions'
  BY <1>1, <1>8
     DEF Call, Goto, Positions, Groups, ExchangeOK, globals, system, lifecycle,
         handshake
<1>9. ASSUME NEW t \in Threads, Exchange(t)
      PROVE  Positions'
  <2>1. Same /\ UNCHANGED <<pnp, hs, tmpSocket>>
    BY <1>9
       DEF Exchange, Acquire, Transmit, Receive, Recv, Release, globals,
           system, lifecycle, handshake
  <2>2. \A u \in Threads : u # t => pc'[u] = pc[u] /\ waitsFor'[u] = waitsFor[u]
    BY <1>9
       DEF Exchange, Acquire, Transmit, Receive, Recv, Release, Goto, Groups,
           ExchangeOK
  <2>3. pc'[t] # "idle" => pc[t] # "idle" /\ waitsFor'[t] = waitsFor[t]
    BY <1>9
       DEF Exchange, Acquire, Transmit, Receive, Recv, Release, Goto, Groups,
           ExchangeOK
  <2> QED
    BY <2>1, <2>2, <2>3 DEF Positions
<1>10. ASSUME NEW c \in Connections, Connect(c) \/ Simulator(c) \/ Close(c) \/ Cut(c)
       PROVE  Positions'
  BY <1>2, <1>10
     DEF Connect, Simulator, Greet, Answer, Close, Cut, Positions, globals, system,
         lifecycle, handshake, exchange
<1>11. CASE UNCHANGED vars
  BY <1>2, <1>11
     DEF vars, Positions, globals, system, lifecycle, handshake, exchange
<1> QED
  BY <1>3, <1>4, <1>5, <1>6, <1>7, <1>8, <1>9, <1>10, <1>11 DEF Next, PnpStep

(* Well-typed states are all there are.                                    *)
LEMMA TypedHolds == Spec => []Typed
<1>1. Typed /\ [Next]_vars => Typed'
  BY NextGroups, NextPositions DEF Typed
<1> QED
  BY <1>1, InitTyped, PTL DEF Spec

(* The variables keep their types, and a thread that blocks in recv has a  *)
(* socket (persoSimConnect.cpp:227-234).                                   *)
THEOREM ConnectorType == Spec => []TypeOK
BY TypedHolds, TypeOfGroups, PTL DEF Typed

-----------------------------------------------------------------------------
(* The mutex.                                                              *)

Inside == {"transmit", "receive", "recv", "release"}

(* Who is inside an exchange owns the mutex it has waited for.  Who owns   *)
(* the mutex in ghMutex is inside, as long as its handle is open: a mutex  *)
(* that is closed may have an owner that has left.                         *)
MutexHeld ==
  /\ \A t \in Threads : pc[t] \in Inside => owner[waitsFor[t]] = t
  /\ \A g \in Starts : owner[g] # NoThread => g <= starts
  /\ \A t \in Threads : mutexOpen /\ owner[ghMutex] = t =>
       pc[t] \in Inside /\ waitsFor[t] = ghMutex

(* Every step keeps the mutex with who is inside an exchange.              *)
LEMMA NextMutexHeld == Typed /\ MutexHeld /\ [Next]_vars => MutexHeld'
<1> SUFFICES ASSUME Groups, Positions, MutexHeld, [Next]_vars
             PROVE  MutexHeld'
  BY DEF Typed
<1> USE DEF MutexHeld, Inside
<1>1. ASSUME UNCHANGED <<owner, pc, waitsFor, mutexOpen, ghMutex, starts>>
      PROVE  MutexHeld'
  BY <1>1
<1>2. /\ starts \in Nat /\ ghMutex = starts
      /\ owner \in [Starts -> Threads \cup {NoThread}]
      /\ pc \in [Threads -> {"idle", "wait", "transmit", "receive", "recv",
                             "release"}]
      /\ waitsFor \in [Threads -> 0 .. MaxStarts]
      /\ \A t \in Threads : pc[t] # "idle" => waitsFor[t] \in 1 .. starts
      /\ NoThread \notin Threads
      /\ 1 .. starts \subseteq Starts
      /\ mutexOpen => starts \in 1 .. starts
  BY ConnectorAssumption
     DEF Groups, LifecycleOK, SystemOK, ExchangeOK, Positions, Starts
<1>3. CASE StartMutex
  <2>1. starts + 1 \in Starts /\ owner[starts + 1] = NoThread
    BY <1>2, <1>3, ConnectorAssumption DEF StartMutex, Starts
  <2>2. ghMutex' = starts + 1 /\ starts' = starts + 1
    BY <1>3 DEF StartMutex
  <2>3. UNCHANGED <<owner, pc, waitsFor>>
    BY <1>3 DEF StartMutex, exchange
  <2>4. \A g \in Starts : g \in Nat
    BY DEF Starts
  <2> QED
    BY <1>2, <2>1, <2>2, <2>3, <2>4
<1>4. CASE StopMutex
  BY <1>4 DEF StopMutex, globals, exchange
<1>5. CASE \/ StartWinsock \/ StartListen \/ StartListenFails \/ StartThread
           \/ StopAccepting \/ StopListening \/ StopWinsock
  BY <1>1, <1>5
     DEF StartWinsock, StartListen, StartListenFails, StartThread,
         StopAccepting, StopListening, StopWinsock, globals, system, exchange
<1>6. ASSUME NEW g \in Starts, Handshake(g)
      PROVE  MutexHeld'
  BY <1>1, <1>6
     DEF Handshake, HsTest, HsListen, HsAccept, HsClose, HsCleanup, HsReceive, HsCommand,
         HsPublish, globals, system, lifecycle, exchange
<1>7. ASSUME NEW t \in Threads, Call(t)
      PROVE  MutexHeld'
  <2>1. /\ UNCHANGED <<owner, mutexOpen, ghMutex, starts>>
        /\ pc[t] = "idle" /\ pc'[t] \in {"idle", "wait"}
        /\ \A u \in Threads : u # t => pc'[u] = pc[u] /\ waitsFor'[u] = waitsFor[u]
    BY <1>2, <1>7 DEF Call, Goto, globals, system, lifecycle
  <2> QED
    BY <1>2, <2>1
<1>8. ASSUME NEW t \in Threads, Acquire(t)
      PROVE  MutexHeld'
  <2> DEFINE g == waitsFor[t]
  <2>1. g \in 1 .. starts /\ g \in Starts /\ owner[g] = NoThread
    BY <1>2, <1>8 DEF Acquire
  <2>2. owner' = [owner EXCEPT ![g] = t] /\ pc' = [pc EXCEPT ![t] = "transmit"]
    BY <1>8 DEF Acquire, Goto
  <2>3. UNCHANGED <<waitsFor, mutexOpen, ghMutex, starts>>
    BY <1>8 DEF Acquire, globals, lifecycle
  <2>4. pc[t] = "wait"
    BY <1>8 DEF Acquire
  <2> QED
    BY <1>2, <2>1, <2>2, <2>3, <2>4
<1>9. ASSUME NEW t \in Threads, Transmit(t) \/ Receive(t) \/ Recv(t)
      PROVE  MutexHeld'
  <2>1. /\ UNCHANGED <<owner, waitsFor, mutexOpen, ghMutex, starts>>
        /\ pc[t] \in Inside /\ pc'[t] \in Inside
        /\ \A u \in Threads : u # t => pc'[u] = pc[u]
    BY <1>2, <1>9
       DEF Transmit, Receive, Recv, Goto, globals, system, lifecycle
  <2> QED
    BY <1>2, <2>1
<1>10. ASSUME NEW t \in Threads, Release(t)
       PROVE  MutexHeld'
  <2>1. /\ UNCHANGED <<mutexOpen, ghMutex, starts>>
        /\ pc[t] = "release" /\ pc'[t] = "idle"
        /\ \A u \in Threads : u # t => pc'[u] = pc[u] /\ waitsFor'[u] = waitsFor[u]
    BY <1>2, <1>10 DEF Release, Goto, globals, lifecycle
  <2>2. CASE mutexOpen /\ owner[ghMutex] = t
    <3>1. owner' = [owner EXCEPT ![ghMutex] = NoThread]
      BY <1>10, <2>2 DEF Release
    <3> QED
      BY <1>2, <2>1, <2>2, <3>1
  <2>3. CASE ~(mutexOpen /\ owner[ghMutex] = t)
    <3>1. UNCHANGED owner
      BY <1>10, <2>3 DEF Release
    <3> QED
      BY <1>2, <2>1, <2>3, <3>1
  <2> QED
    BY <2>2, <2>3
<1>11. ASSUME NEW c \in Connections, Connect(c) \/ Simulator(c) \/ Close(c) \/ Cut(c)
       PROVE  MutexHeld'
  BY <1>1, <1>11
     DEF Connect, Simulator, Greet, Answer, Close, Cut, globals, system, lifecycle,
         exchange
<1>12. CASE UNCHANGED vars
  BY <1>1, <1>12 DEF vars, globals, system, lifecycle, exchange
<1> QED
  BY <1>3, <1>4, <1>5, <1>6, <1>7, <1>8, <1>9, <1>10, <1>11, <1>12
     DEF Next, PnpStep, Exchange

(* Initially no mutex has an owner.                                        *)
LEMMA InitMutexHeld == Init => MutexHeld
BY DEF Init, MutexHeld, Inside, Starts

(* The mutex is always with who is inside an exchange.                     *)
LEMMA MutexHolds == Spec => [](Typed /\ MutexHeld)
<1>1. Typed /\ MutexHeld /\ [Next]_vars => (Typed /\ MutexHeld)'
  BY NextGroups, NextPositions, NextMutexHeld DEF Typed
<1> QED
  BY <1>1, InitTyped, InitMutexHeld, PTL DEF Spec

(* Every way out of an exchange gives the mutex back as long as its handle *)
(* is open (persoSimConnect.cpp:221-248).                                  *)
THEOREM MutexIsGivenBackHolds == Spec => []MutexIsGivenBack
<1>1. Typed /\ MutexHeld => MutexIsGivenBack
  <2> SUFFICES ASSUME Groups, Positions, MutexHeld, mutexOpen,
                      owner[ghMutex] # NoThread
               PROVE  /\ pc[owner[ghMutex]] \in Inside
                      /\ waitsFor[owner[ghMutex]] = ghMutex
    BY DEF Typed, MutexIsGivenBack, Inside
  <2>1. ghMutex \in Starts
    BY ConnectorAssumption DEF Groups, GlobalsOK, Positions, Starts, LifecycleOK
  <2>2. owner[ghMutex] \in Threads
    BY <2>1 DEF Groups, SystemOK
  <2> QED
    BY <2>2 DEF MutexHeld
<1> QED
  BY <1>1, MutexHolds, PTL

-----------------------------------------------------------------------------
(* Starts, stops and sockets.                                              *)

(* A start finds Winsock ended and every socket gone, and none but the     *)
(* first one has a handshake thread that accepts: live connections belong  *)
(* to the first start, unless that thread is overtaken by a later one.  It *)
(* is so once at most, since the flag is FALSE by then.                    *)
Lifecycle ==
  /\ wsa \in {0, 1}
  /\ wsa = 0 => listening = {} /\ \A c \in Connections : link[c] \in {"unused", "dead"}
  /\ ~started \/ pnp = "winsock" => wsa = 0
  /\ pnp \in {"winsock", "listen", "fork"} => started /\ hs[starts] = "none"
  /\ listening \subseteq {starts} /\ ListenSocket <= starts
  /\ acceptHandshakeConnections => starts <= 1 /\ (starts = 1 => started)
  /\ pnp \in {"closeMutex", "closeSocket", "cleanup"} => ~acceptHandshakeConnections
  /\ \A g \in Starts : hs[g] \notin {"none", "test"} => g = 1
  /\ \A g \in Starts : hs[g] # "none" => g <= starts
  /\ \A g \in Starts : acceptsOn[g] > g =>
       ~acceptHandshakeConnections /\ hs[g] # "listen"
  /\ \A c \in Connections : Live(c) => starts = 1 \/ Overtaken

(* What the socket functions do to them.                                   *)
LEMMA WSACleanupLifecycle ==
  ASSUME Lifecycle, WSACleanup
  PROVE  /\ wsa' = 0 /\ listening' = {}
         /\ \A c \in Connections : link'[c] \in {"unused", "dead"}
<1>1. CASE wsa = 1
  BY <1>1 DEF Lifecycle, WSACleanup
<1>2. CASE wsa = 0
  BY <1>2 DEF Lifecycle, WSACleanup
<1> QED
  BY <1>1, <1>2 DEF Lifecycle

(* closesocket opens nothing.                                              *)
LEMMA CloseListenSocketLifecycle ==
  ASSUME Groups, CloseListenSocket
  PROVE  /\ listening' \subseteq listening
         /\ \A c \in Connections : link'[c] \in {link[c], "dead"}
BY DEF CloseListenSocket, Groups, SystemOK

(* What a thread accepts on changes only when it calls accept.             *)
LEMMA AcceptsOnSteps ==
  ASSUME Groups, [Next]_vars
  PROVE  \/ UNCHANGED acceptsOn
         \/ \E g \in Starts : /\ hs[g] = "listen"
                              /\ acceptsOn' = [acceptsOn EXCEPT ![g] = ListenSocket]
<1>1. CASE StartMutex \/ StopAccepting \/ PnpStep
  BY <1>1
     DEF StartMutex, StopAccepting, PnpStep, StartWinsock, StartListen,
         StartThread, StartListenFails, StopMutex, StopListening, StopWinsock,
         handshake
<1>2. ASSUME NEW g \in Starts, Handshake(g)
      PROVE  \/ UNCHANGED acceptsOn
             \/ /\ hs[g] = "listen"
                /\ acceptsOn' = [acceptsOn EXCEPT ![g] = ListenSocket]
  BY <1>2
     DEF Handshake, HsTest, HsListen, HsAccept, HsClose, HsCleanup, HsReceive,
         HsCommand, HsPublish
<1>3. ASSUME NEW t \in Threads, Call(t) \/ Exchange(t)
      PROVE  UNCHANGED acceptsOn
  BY <1>3
     DEF Call, Exchange, Acquire, Transmit, Receive, Recv, Release, handshake
<1>4. ASSUME NEW c \in Connections, Connect(c) \/ Simulator(c) \/ Close(c) \/ Cut(c)
      PROVE  UNCHANGED acceptsOn
  BY <1>4 DEF Connect, Simulator, Greet, Answer, Close, Cut, handshake
<1>5. CASE UNCHANGED vars
  BY <1>5 DEF vars, handshake
<1> QED
  BY <1>1, <1>2, <1>3, <1>4, <1>5 DEF Next

(* An overtaken thread does not call accept again.                         *)
LEMMA OvertakenStays ==
  ASSUME Groups, Lifecycle, [Next]_vars, Overtaken
  PROVE  Overtaken'
<1>1. PICK h \in Starts : acceptsOn[h] > h
  BY DEF Overtaken
<1>2. hs[h] # "listen" /\ acceptsOn \in [Starts -> 0 .. MaxStarts]
  BY <1>1 DEF Lifecycle, Groups, HandshakeOK
<1>3. acceptsOn'[h] = acceptsOn[h]
  BY <1>2, AcceptsOnSteps
<1> QED
  BY <1>1, <1>3 DEF Overtaken, Starts

(* Every step keeps live connections to the first start.                   *)
LEMMA NextLifecycle == Typed /\ Lifecycle /\ [Next]_vars => Lifecycle'
<1> SUFFICES ASSUME Groups, Positions, Lifecycle, [Next]_vars
             PROVE  Lifecycle'
  BY DEF Typed
<1> USE DEF Live
<1>0. Overtaken => Overtaken'
  BY OvertakenStays
<1>1. /\ starts \in Nat /\ starts \in 0 .. MaxStarts /\ MaxStarts \in Nat
      /\ ListenSocket \in Nat /\ started \in BOOLEAN
      /\ hs \in [Starts -> {"none", "test", "listen", "accept", "failed", "cleanup",
                            "hello", "command", "answer", "publish"}]
      /\ acceptsOn \in [Starts -> 0 .. MaxStarts]
      /\ link \in [Connections -> LinkStates]
      /\ \A g \in Starts : g \in Nat /\ g >= 1
  BY ConnectorAssumption
     DEF Groups, GlobalsOK, SystemOK, LifecycleOK, HandshakeOK, Starts
<1>2. ASSUME UNCHANGED <<ListenSocket, acceptHandshakeConnections, started,
                         starts, hs, acceptsOn, pnp>>,
             wsa' = 0, listening' = {},
             \A c \in Connections : link'[c] \in {"unused", "dead"}
      PROVE  Lifecycle'
  BY <1>2, <1>0 DEF Lifecycle
<1>3. CASE StartMutex
  <2>1. /\ starts' = starts + 1 /\ started' = TRUE /\ pnp' = "winsock"
        /\ ~started /\ pnp = "idle"
        /\ UNCHANGED <<wsa, listening, link, ListenSocket, hs, acceptsOn,
                       acceptHandshakeConnections>>
    BY <1>3 DEF StartMutex, handshake
  <2>2. starts + 1 \in Starts /\ hs[starts + 1] = "none"
    BY <1>0, <1>1, <1>3 DEF StartMutex, Lifecycle, Starts
  <2>3. wsa = 0 /\ listening = {}
    BY <2>1 DEF Lifecycle
  <2>4. acceptHandshakeConnections => starts + 1 = 1
    BY <1>0, <1>1, <2>1 DEF Lifecycle
  <2> QED
    BY <1>0, <1>1, <2>1, <2>2, <2>3, <2>4 DEF Lifecycle
<1>4. CASE StartWinsock
  BY <1>0, <1>1, <1>4 DEF StartWinsock, Lifecycle, globals, handshake
<1>5. CASE StartListen
  BY <1>0, <1>1, <1>5 DEF StartListen, Lifecycle, handshake
<1>6. CASE StartListenFails
  BY <1>0, <1>1, <1>6, WSACleanupLifecycle DEF StartListenFails, Lifecycle, handshake
<1>7. CASE StartThread
  <2>1. /\ pnp = "fork" /\ pnp' = "idle"
        /\ UNCHANGED <<ListenSocket, acceptHandshakeConnections, started,
                       starts, acceptsOn, wsa, listening, link>>
        /\ hs' = [hs EXCEPT ![starts] = "test"] \/ UNCHANGED hs
    BY <1>7 DEF StartThread, system
  <2> QED
    BY <1>0, <1>1, <2>1 DEF Lifecycle
<1>8. CASE StopAccepting
  BY <1>0, <1>1, <1>8 DEF StopAccepting, Lifecycle, system, handshake
<1>9. CASE StopMutex
  BY <1>0, <1>1, <1>9 DEF StopMutex, Lifecycle, globals, handshake
<1>10. CASE StopListening
  BY <1>0, <1>1, <1>10, CloseListenSocketLifecycle
     DEF StopListening, Lifecycle, globals, handshake
<1>11. CASE StopWinsock
  BY <1>0, <1>1, <1>11, WSACleanupLifecycle
     DEF StopWinsock, Lifecycle, globals, handshake
<1>12. ASSUME NEW g \in Starts, HsTest(g)
       PROVE  Lifecycle'
  <2>1. /\ UNCHANGED <<ListenSocket, acceptHandshakeConnections, started,
                       starts, wsa, listening, link, pnp, acceptsOn>>
        /\ hs[g] = "test"
        /\ hs' = [hs EXCEPT ![g] = IF acceptHandshakeConnections
                                   THEN "listen" ELSE "none"]
    BY <1>12 DEF HsTest, HsGoto, globals, system, lifecycle
  <2>2. acceptHandshakeConnections => g = 1
    BY <1>0, <1>1, <2>1 DEF Lifecycle
  <2> QED
    BY <1>0, <1>1, <2>1, <2>2 DEF Lifecycle
<1>20. ASSUME NEW g \in Starts, HsListen(g)
       PROVE  Lifecycle'
  <2>1. /\ UNCHANGED <<ListenSocket, acceptHandshakeConnections, started,
                       starts, wsa, listening, link, pnp>>
        /\ hs[g] = "listen" /\ g = 1
        /\ hs' = [hs EXCEPT ![g] = "accept"]
        /\ acceptsOn' = [acceptsOn EXCEPT ![g] = ListenSocket]
    BY <1>20 DEF HsListen, HsGoto, globals, system, lifecycle, Lifecycle
  <2>2. ListenSocket > 1 => ~acceptHandshakeConnections
    BY <1>1 DEF Lifecycle
  <2>3. \A h \in Starts : acceptsOn'[h] > h =>
          ~acceptHandshakeConnections /\ hs'[h] # "listen"
    BY <1>0, <1>1, <2>1, <2>2 DEF Lifecycle
  <2>4. /\ pnp \in {"winsock", "listen", "fork"} => hs'[starts] = "none"
        /\ \A h \in Starts : /\ hs'[h] \notin {"none", "test"} => h = 1
                            /\ hs'[h] # "none" => h <= starts
    BY <1>0, <1>1, <2>1 DEF Lifecycle
  <2>5. \A c \in Connections : Live(c)' => starts = 1 \/ Overtaken'
    BY <1>0, <2>1 DEF Lifecycle
  <2> QED
    BY <2>1, <2>3, <2>4, <2>5 DEF Lifecycle
<1>13. ASSUME NEW g \in Starts, HsAccept(g)
       PROVE  Lifecycle'
  <2>1. /\ UNCHANGED <<ListenSocket, acceptHandshakeConnections, started,
                       starts, wsa, listening, pnp, acceptsOn>>
        /\ hs[g] = "accept" /\ g = 1
    BY <1>13 DEF HsAccept, globals, lifecycle, Lifecycle
  <2>2. CASE acceptsOn[g] \in listening
    <3>1. wsa = 1 /\ (starts = 1 \/ acceptsOn[g] > g)
      BY <1>0, <1>1, <2>1, <2>2 DEF Lifecycle, Starts
    <3>2. starts = 1 \/ Overtaken
      BY <3>1 DEF Overtaken
    <3>3. hs' = [hs EXCEPT ![g] = "hello"]
      BY <1>13, <2>2 DEF HsAccept, HsGoto
    <3> QED
      BY <1>0, <1>1, <2>1, <3>1, <3>2, <3>3 DEF Lifecycle
  <2>3. CASE acceptsOn[g] \notin listening
    <3>1. hs' = [hs EXCEPT ![g] = "failed"] /\ UNCHANGED link
      BY <1>13, <2>3 DEF HsAccept, HsGoto
    <3> QED
      BY <1>0, <1>1, <2>1, <3>1 DEF Lifecycle
  <2> QED
    BY <2>2, <2>3
<1>14. ASSUME NEW g \in Starts, HsClose(g)
       PROVE  Lifecycle'
  <2>1. /\ UNCHANGED <<ListenSocket, acceptHandshakeConnections, started,
                       starts, wsa, pnp, acceptsOn>>
        /\ hs[g] = "failed" /\ g = 1
        /\ hs' = [hs EXCEPT ![g] = "cleanup"]
    BY <1>14 DEF HsClose, HsGoto, globals, lifecycle, Lifecycle
  <2>2. /\ listening' \subseteq listening
        /\ \A c \in Connections : link'[c] \in {link[c], "dead"}
    BY <1>14, CloseListenSocketLifecycle DEF HsClose
  <2>3. pnp \in {"winsock", "listen", "fork"} => hs'[starts] = "none"
    BY <1>0, <1>1, <2>1 DEF Lifecycle
  <2>4. \A h \in Starts : /\ hs'[h] \notin {"none", "test"} => h = 1
                          /\ hs'[h] # "none" => hs[h] # "none"
                          /\ hs'[h] = "listen" => hs[h] = "listen"
    BY <1>0, <1>1, <2>1 DEF Lifecycle
  <2>5. \A h \in Starts : hs'[h] # "none" => h <= starts
    BY <2>4 DEF Lifecycle
  <2>6. \A h \in Starts : acceptsOn[h] > h =>
          ~acceptHandshakeConnections /\ hs'[h] # "listen"
    BY <2>4 DEF Lifecycle
  <2>7. \A c \in Connections : Live(c)' => starts = 1 \/ Overtaken'
    BY <1>0, <2>2 DEF Lifecycle
  <2> QED
    BY <2>1, <2>2, <2>3, <2>4, <2>5, <2>6, <2>7 DEF Lifecycle
<1>15. ASSUME NEW g \in Starts, HsCleanup(g)
       PROVE  Lifecycle'
  BY <1>0, <1>1, <1>15, WSACleanupLifecycle
     DEF HsCleanup, HsGoto, Lifecycle, globals, lifecycle
<1>16. ASSUME NEW g \in Starts, HsReceive(g) \/ HsCommand(g) \/ HsPublish(g)
       PROVE  Lifecycle'
  <2>1. /\ UNCHANGED <<ListenSocket, acceptHandshakeConnections, started,
                       starts, wsa, listening, link, pnp, acceptsOn>>
        /\ hs[g] \notin {"none", "test"}
    BY <1>16
       DEF HsReceive, HsCommand, HsPublish, HsGoto, globals, system, lifecycle
  <2>2. PICK step \in {"command", "publish", "answer", "test"} :
          hs' = [hs EXCEPT ![g] = step]
    BY <1>16 DEF HsReceive, HsCommand, HsPublish, HsGoto
  <2>3. g = 1
    BY <2>1 DEF Lifecycle
  <2>4. pnp \in {"winsock", "listen", "fork"} => hs'[starts] = "none"
    BY <1>0, <1>1, <2>1, <2>2 DEF Lifecycle
  <2>5. \A h \in Starts : /\ hs'[h] \notin {"none", "test"} => h = 1
                          /\ hs'[h] # "none" => hs[h] # "none"
                          /\ hs'[h] = "listen" => hs[h] = "listen"
    BY <1>0, <1>1, <2>1, <2>2, <2>3 DEF Lifecycle
  <2>6. \A h \in Starts : hs'[h] # "none" => h <= starts
    BY <2>5 DEF Lifecycle
  <2>7. \A h \in Starts : acceptsOn[h] > h =>
          ~acceptHandshakeConnections /\ hs'[h] # "listen"
    BY <2>5 DEF Lifecycle
  <2>8. \A c \in Connections : Live(c)' => starts = 1 \/ Overtaken'
    BY <1>0, <2>1 DEF Lifecycle
  <2> QED
    BY <2>1, <2>4, <2>5, <2>6, <2>7, <2>8 DEF Lifecycle
<1>17. ASSUME NEW t \in Threads, Call(t) \/ Exchange(t)
       PROVE  Lifecycle'
  BY <1>0, <1>17
     DEF Call, Exchange, Acquire, Transmit, Receive, Recv, Release, Lifecycle,
         globals, system, lifecycle, handshake
<1>18. ASSUME NEW c \in Connections, Connect(c) \/ Simulator(c) \/ Close(c) \/ Cut(c)
       PROVE  Lifecycle'
  <2>1. UNCHANGED <<ListenSocket, acceptHandshakeConnections, started,
                    starts, wsa, listening, hs, acceptsOn, pnp>>
    BY <1>18
       DEF Connect, Simulator, Greet, Answer, Close, Cut, globals, system,
           lifecycle, handshake
  <2>2. \A d \in Connections : Live(d)' => Live(d)
    BY <1>0, <1>1, <1>18 DEF Connect, Simulator, Greet, Answer, Close, Cut, Working, system
  <2>3. wsa = 0 => UNCHANGED link
    BY <1>18 DEF Connect, Simulator, Greet, Answer, Close, Cut, Working, system,
       Lifecycle
  <2> QED
    BY <2>1, <2>2, <2>3, <1>0 DEF Lifecycle
<1>19. CASE UNCHANGED vars
  BY <1>0, <1>19 DEF Lifecycle, vars, globals, system, lifecycle, handshake
<1> QED
  BY <1>3, <1>4, <1>5, <1>6, <1>7, <1>8, <1>9, <1>10, <1>11, <1>12, <1>13,
     <1>14, <1>15, <1>16, <1>17, <1>18, <1>19, <1>20 DEF Next, PnpStep, Handshake

(* Initially nothing is started.                                           *)
LEMMA InitLifecycle == Init => Lifecycle
<1> SUFFICES ASSUME Init
             PROVE  Lifecycle
  OBVIOUS
<1> QED
  BY DEF Init, Lifecycle, Live, Starts

-----------------------------------------------------------------------------
(* One reader per socket.                                                  *)

Accepted(c) == link[c] \in {"open", "closed", "cut", "dead"}

(* A handshake thread still works on c.                                    *)
Handshaking(c) == \E g \in Starts : hs[g] \in InHandshake /\ tmpSocket[g] = c

Published(c) == Accepted(c) /\ ~Handshaking(c)

(* Exchanges use connections whose handshake is over.                      *)
Sockets ==
  /\ ClientSocket # NoSocket => Published(ClientSocket)
  /\ \A t \in Threads : pc[t] = "recv" => Published(sock[t])
  /\ \A g \in Starts : hs[g] \in InHandshake => Accepted(tmpSocket[g])

(* What a step can do to a connection.                                     *)
LEMMA LinkSteps ==
  ASSUME Groups, [Next]_vars, NEW c \in Connections
  PROVE  \/ link'[c] = link[c]
         \/ link[c] # "unused" /\ link'[c] = "dead"
         \/ link[c] = "unused" /\ link'[c] = "backlog"
         \/ link[c] = "backlog" /\ link'[c] = "open"
         \/ link[c] = "open" /\ link'[c] \in {"closed", "cut"}
<1>1. link \in [Connections -> LinkStates]
  BY DEF Groups, SystemOK
<1>2. CASE StartListenFails \/ StopWinsock \/ \E g \in Starts : HsCleanup(g)
  <2>1. WSACleanup
    BY <1>2 DEF StartListenFails, StopWinsock, HsCleanup
  <2> QED
    BY <1>1, <2>1 DEF WSACleanup
<1>3. CASE StopListening \/ \E g \in Starts : HsClose(g)
  <2>1. CloseListenSocket
    BY <1>3 DEF StopListening, HsClose
  <2> QED
    BY <1>1, <2>1 DEF CloseListenSocket
<1>4. CASE \/ StartMutex \/ StopAccepting \/ StartWinsock \/ StartListen
           \/ StartThread \/ StopMutex
  BY <1>4
     DEF StartMutex, StopAccepting, StartWinsock, StartListen, StartThread,
         StopMutex, system
<1>5. ASSUME NEW g \in Starts, HsAccept(g)
      PROVE  link'[c] = link[c] \/ (link[c] = "backlog" /\ link'[c] = "open")
  BY <1>1, <1>5 DEF HsAccept
<1>6. ASSUME NEW g \in Starts,
             HsTest(g) \/ HsListen(g) \/ HsReceive(g) \/ HsCommand(g) \/ HsPublish(g)
      PROVE  link' = link
  BY <1>6 DEF HsTest, HsListen, HsReceive, HsCommand, HsPublish, system
<1>7. ASSUME NEW t \in Threads, Call(t) \/ Exchange(t)
      PROVE  link' = link
  BY <1>7
     DEF Call, Exchange, Acquire, Transmit, Receive, Recv, Release, system
<1>8. ASSUME NEW d \in Connections, Simulator(d)
      PROVE  link' = link
  BY <1>8 DEF Simulator, Greet, Answer, system
<1>9. ASSUME NEW d \in Connections, Connect(d)
      PROVE  link'[c] = link[c] \/ (link[c] = "unused" /\ link'[c] = "backlog")
  BY <1>1, <1>9 DEF Connect
<1>10. ASSUME NEW d \in Connections, Close(d) \/ Cut(d)
       PROVE  \/ link'[c] = link[c]
              \/ link[c] = "open" /\ link'[c] \in {"closed", "cut"}
  BY <1>1, <1>10 DEF Close, Cut, Working
<1>11. CASE UNCHANGED vars
  BY <1>11 DEF vars, system
<1> QED
  BY <1>2, <1>3, <1>4, <1>5, <1>6, <1>7, <1>8, <1>9, <1>10, <1>11
     DEF Next, PnpStep, Handshake

(* A handshake begins with accept on a connection from the backlog, and    *)
(* keeps its socket.                                                       *)
LEMMA HandshakeSteps ==
  ASSUME Groups, [Next]_vars, NEW g \in Starts, hs'[g] \in InHandshake
  PROVE  \/ hs[g] \in InHandshake /\ tmpSocket'[g] = tmpSocket[g]
         \/ /\ hs[g] = "accept" /\ tmpSocket'[g] \in Connections
            /\ link[tmpSocket'[g]] = "backlog" /\ link'[tmpSocket'[g]] = "open"
<1> USE DEF InHandshake
<1>1. /\ hs \in [Starts -> {"none", "test", "listen", "accept", "failed", "cleanup",
                            "hello", "command", "answer", "publish"}]
      /\ tmpSocket \in [Starts -> Connections \cup {NoSocket}]
      /\ link \in [Connections -> LinkStates]
  BY DEF Groups, HandshakeOK, SystemOK
<1>2. CASE StartThread
  BY <1>1, <1>2 DEF StartThread
<1>3. CASE \/ StartMutex \/ StopAccepting \/ StartWinsock \/ StartListen
           \/ StartListenFails \/ StopMutex \/ StopListening \/ StopWinsock
  BY <1>3
     DEF StartMutex, StopAccepting, StartWinsock, StartListen,
         StartListenFails, StopMutex, StopListening, StopWinsock, handshake
<1>4. ASSUME NEW h \in Starts, HsAccept(h)
      PROVE  \/ hs[g] \in InHandshake /\ tmpSocket'[g] = tmpSocket[g]
             \/ /\ hs[g] = "accept" /\ tmpSocket'[g] \in Connections
                /\ link[tmpSocket'[g]] = "backlog"
                /\ link'[tmpSocket'[g]] = "open"
  BY <1>1, <1>4 DEF HsAccept, HsGoto
<1>5. ASSUME NEW h \in Starts, Handshake(h), ~HsAccept(h)
      PROVE  hs[g] \in InHandshake /\ tmpSocket'[g] = tmpSocket[g]
  <2>1. UNCHANGED tmpSocket
    BY <1>5
       DEF Handshake, HsTest, HsListen, HsClose, HsCleanup, HsReceive, HsCommand,
           HsPublish
  <2>2. hs[g] \in InHandshake
    BY <1>1, <1>5
       DEF Handshake, HsTest, HsListen, HsClose, HsCleanup, HsReceive, HsCommand,
           HsPublish, HsGoto
  <2> QED
    BY <2>1, <2>2
<1>6. ASSUME NEW t \in Threads, Call(t) \/ Exchange(t)
      PROVE  UNCHANGED handshake
  BY <1>6 DEF Call, Exchange, Acquire, Transmit, Receive, Recv, Release
<1>7. ASSUME NEW c \in Connections, Connect(c) \/ Simulator(c) \/ Close(c) \/ Cut(c)
      PROVE  UNCHANGED handshake
  BY <1>7 DEF Connect, Simulator, Greet, Answer, Close, Cut
<1>8. CASE UNCHANGED vars
  BY <1>8 DEF vars, handshake
<1> QED
  BY <1>2, <1>3, <1>4, <1>5, <1>6, <1>7, <1>8 DEF Next, PnpStep, handshake

(* ClientSocket changes when a handshake ends, and a start clears it.      *)
LEMMA ClientSteps ==
  ASSUME Groups, [Next]_vars
  PROVE  \/ ClientSocket' = ClientSocket
         \/ ClientSocket' = NoSocket
         \/ \E g \in Starts : /\ hs[g] = "publish" /\ hs'[g] = "test"
                              /\ ClientSocket' = tmpSocket[g]
<1>1. CASE \/ StartMutex \/ StopAccepting \/ StartWinsock \/ StartListen
           \/ StartListenFails \/ StartThread \/ StopMutex \/ StopListening
           \/ StopWinsock
  BY <1>1
     DEF StartMutex, StopAccepting, StartWinsock, StartListen, StartThread,
         StartListenFails, StopMutex, StopListening, StopWinsock, globals
<1>2. ASSUME NEW g \in Starts, HsPublish(g)
      PROVE  /\ hs[g] = "publish" /\ hs'[g] = "test"
             /\ ClientSocket' = tmpSocket[g]
  BY <1>2 DEF HsPublish, HsGoto, Groups, HandshakeOK
<1>3. ASSUME NEW g \in Starts, Handshake(g), ~HsPublish(g)
      PROVE  ClientSocket' = ClientSocket
  BY <1>3
     DEF Handshake, HsTest, HsListen, HsAccept, HsClose, HsCleanup, HsReceive, HsCommand,
         globals
<1>4. ASSUME NEW t \in Threads, Call(t) \/ Exchange(t)
      PROVE  ClientSocket' = ClientSocket
  BY <1>4
     DEF Call, Exchange, Acquire, Transmit, Receive, Recv, Release, globals
<1>5. ASSUME NEW c \in Connections, Connect(c) \/ Simulator(c) \/ Close(c) \/ Cut(c)
      PROVE  ClientSocket' = ClientSocket
  BY <1>5 DEF Connect, Simulator, Greet, Answer, Close, Cut, globals
<1>6. CASE UNCHANGED vars
  BY <1>6 DEF vars, globals
<1> QED
  BY <1>1, <1>2, <1>3, <1>4, <1>5, <1>6 DEF Next, PnpStep

(* A thread blocks in recv on the socket that ClientSocket had then.       *)
LEMMA ReaderSteps ==
  ASSUME Groups, [Next]_vars, NEW t \in Threads, pc'[t] = "recv"
  PROVE  \/ pc[t] = "recv" /\ sock'[t] = sock[t]
         \/ sock'[t] = ClientSocket /\ ClientSocket # NoSocket
<1>1. /\ pc \in [Threads -> {"idle", "wait", "transmit", "receive", "recv",
                             "release"}]
      /\ sock \in [Threads -> Connections \cup {NoSocket}]
  BY DEF Groups, ExchangeOK
<1>2. CASE StartMutex \/ StopAccepting \/ PnpStep
  BY <1>2
     DEF StartMutex, StopAccepting, PnpStep, StartWinsock, StartListen,
         StartThread, StartListenFails, StopMutex, StopListening, StopWinsock,
         exchange
<1>3. ASSUME NEW g \in Starts, Handshake(g)
      PROVE  UNCHANGED exchange
  BY <1>3
     DEF Handshake, HsTest, HsListen, HsAccept, HsClose, HsCleanup, HsReceive, HsCommand,
         HsPublish
<1>4. ASSUME NEW u \in Threads, Call(u) \/ Acquire(u) \/ Transmit(u) \/ Release(u)
      PROVE  pc[t] = "recv" /\ sock'[t] = sock[t]
  BY <1>1, <1>4 DEF Call, Acquire, Transmit, Release, Goto
<1>5. ASSUME NEW u \in Threads, Receive(u)
      PROVE  \/ pc[t] = "recv" /\ sock'[t] = sock[t]
             \/ sock'[t] = ClientSocket /\ ClientSocket # NoSocket
  <2>1. CASE ClientSocket # NoSocket
    BY <1>1, <1>5, <2>1 DEF Receive, Goto
  <2>2. CASE ClientSocket = NoSocket
    BY <1>1, <1>5, <2>2 DEF Receive, Goto
  <2> QED
    BY <2>1, <2>2
<1>6. ASSUME NEW u \in Threads, Recv(u)
      PROVE  pc[t] = "recv" /\ sock'[t] = sock[t]
  BY <1>1, <1>6 DEF Recv, Goto
<1>7. ASSUME NEW c \in Connections, Connect(c) \/ Simulator(c) \/ Close(c) \/ Cut(c)
      PROVE  UNCHANGED exchange
  BY <1>7 DEF Connect, Simulator, Greet, Answer, Close, Cut
<1>8. CASE UNCHANGED vars
  BY <1>8 DEF vars, exchange
<1> QED
  BY <1>2, <1>3, <1>4, <1>5, <1>6, <1>7, <1>8 DEF Next, Exchange, exchange

(* A connection whose handshake is over stays so.                          *)
LEMMA PublishedStays ==
  ASSUME Groups, [Next]_vars, NEW c \in Connections, Published(c)
  PROVE  Published(c)'
<1>1. Accepted(c)'
  BY LinkSteps DEF Published, Accepted
<1>2. ASSUME NEW g \in Starts, hs'[g] \in InHandshake, tmpSocket'[g] = c
      PROVE  FALSE
  BY <1>2, HandshakeSteps DEF Published, Accepted, Handshaking
<1> QED
  BY <1>1, <1>2 DEF Published, Handshaking

(* Every step keeps exchanges and handshakes on different connections.     *)
LEMMA NextSockets ==
  ASSUME Groups, Positions, Lifecycle, Sockets, [Next]_vars
  PROVE  Sockets'
<1>0. Groups'
  BY NextGroups DEF Typed
<1>1. \A g \in Starts : hs'[g] \in InHandshake => Accepted(tmpSocket[g])' 
  BY HandshakeSteps, LinkSteps DEF Accepted, Sockets, Positions
<1>2. ClientSocket' # NoSocket => Published(ClientSocket)'
  <2>1. CASE ClientSocket' = ClientSocket
    BY <2>1, PublishedStays DEF Sockets, Groups, GlobalsOK, Published,
       Accepted, Handshaking
  <2>2. ASSUME NEW g \in Starts, hs[g] = "publish", hs'[g] = "test",
               ClientSocket' = tmpSocket[g]
        PROVE  Published(ClientSocket)'
    <3>1. tmpSocket[g] \in Connections /\ Accepted(tmpSocket[g])
      BY <2>2 DEF InHandshake, Positions, Sockets
    <3>2. link'[tmpSocket[g]] \in {"open", "closed", "cut", "dead"}
      BY <3>1, LinkSteps DEF Accepted
    <3>3. ASSUME NEW h \in Starts, hs'[h] \in InHandshake,
                 tmpSocket'[h] = tmpSocket[g]
          PROVE  FALSE
      <4>1. h # g
        BY <2>2, <3>3 DEF InHandshake
      <4>2. hs[h] \in InHandshake \/ hs[h] = "accept"
        BY <3>3, HandshakeSteps
      <4> QED
        BY <2>2, <4>1, <4>2 DEF Lifecycle, InHandshake
    <3> QED
      BY <2>2, <3>2, <3>3 DEF Published, Accepted, Handshaking
  <2> QED
    BY <2>1, <2>2, ClientSteps
<1>3. ASSUME NEW t \in Threads, pc'[t] = "recv"
      PROVE  Published(sock[t])'
  <2>1. PICK c \in Connections : sock'[t] = c /\ Published(c)
    BY <1>3, ReaderSteps DEF Sockets, Groups, GlobalsOK, ExchangeOK
  <2>2. Published(c)'
    BY <2>1, PublishedStays
  <2> QED
    BY <2>1, <2>2 DEF Published, Accepted, Handshaking
<1> QED
  BY <1>1, <1>2, <1>3 DEF Sockets

(* Initially there are no sockets.                                         *)
LEMMA InitSockets == Init => Sockets
BY DEF Init, Sockets, InHandshake

(* The invariants so far.                                                  *)
Exclusive == Typed /\ MutexHeld /\ Lifecycle /\ Sockets

(* They hold in every state.                                               *)
LEMMA ExclusiveHolds == Spec => []Exclusive
<1>1. Init => Exclusive
  BY InitTyped, InitMutexHeld, InitLifecycle, InitSockets DEF Exclusive
<1>2. Exclusive /\ [Next]_vars => Exclusive'
  BY NextGroups, NextPositions, NextMutexHeld, NextLifecycle, NextSockets
     DEF Exclusive, Typed
<1> QED
  BY <1>1, <1>2, PTL DEF Spec

(* A thread inside an exchange with a live connection is alone there, as   *)
(* long as no handshake thread was overtaken.                              *)
LEMMA AloneWhenLive ==
  ASSUME Exclusive, ~Overtaken, NEW c \in Connections, Live(c),
         NEW t \in Threads, NEW u \in Threads,
         pc[t] \in Inside, pc[u] \in Inside
  PROVE  t = u
<1>1. starts = 1
  BY DEF Exclusive, Lifecycle
<1>2. waitsFor[t] = 1 /\ waitsFor[u] = 1
  BY <1>1 DEF Exclusive, Typed, Positions, Inside
<1> QED
  BY <1>2 DEF Exclusive, MutexHeld

(* Two threads wait for a reply on one connection only when it is dead,    *)
(* or when they hold the mutexes of two starts and the handshake thread of *)
(* the first was overtaken: a restart makes a new mutex while a thread may *)
(* still be inside the old one's exchange, and it is the stop's WSACleanup *)
(* that keeps the two apart (persoSimConnect.cpp:15-22, 30-32, 61,         *)
(* 192-199).                                                               *)
THEOREM ExclusiveSocketHolds == Spec => []ExclusiveSocket
<1>1. Exclusive => ExclusiveSocket
  <2> SUFFICES ASSUME Exclusive, NEW t \in Threads, NEW u \in Threads,
                      t # u, pc[t] = "recv", pc[u] = "recv", sock[t] = sock[u],
                      link[sock[t]] # "dead"
               PROVE  waitsFor[t] # waitsFor[u] /\ Overtaken
    BY DEF ExclusiveSocket
  <2>1. sock[t] \in Connections /\ Accepted(sock[t])
    BY DEF Exclusive, Typed, Groups, ExchangeOK, Sockets, Published
  <2>2. Live(sock[t])
    BY <2>1 DEF Accepted, Live
  <2>3. Overtaken
    BY <2>1, <2>2, AloneWhenLive DEF Inside
  <2>4. waitsFor[t] # waitsFor[u]
    BY DEF Exclusive, MutexHeld, Inside
  <2> QED
    BY <2>3, <2>4
<1> QED
  BY <1>1, ExclusiveHolds, PTL
=============================================================================
