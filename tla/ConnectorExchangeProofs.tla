----------------------- MODULE ConnectorExchangeProofs -----------------------
(***************************************************************************)
(* What the exchanges of Connector promise for any number of threads,      *)
(* connections, starts, stops and exchanges: a reply is the reader's own,  *)
(* nothing is left between two exchanges, and the connector keeps          *)
(* ExchangeContract.  ConnectorProofs has the mutex and the sockets.       *)
(***************************************************************************)
EXTENDS ConnectorProofs, FiniteSetTheorems

-----------------------------------------------------------------------------
(* What is under way on a connection.                                      *)

Quiet(c) == toSimulator[c] = <<>> /\ toDriver[c] = <<>>
Asked(c, m) == toSimulator[c] = <<m>> /\ toDriver[c] = <<>>
Answered(c, m) == toSimulator[c] = <<>> /\ toDriver[c] = <<m>>
Carries(c, m) == Asked(c, m) \/ Answered(c, m)

OneMessage(c) == Quiet(c) \/ \E m \in Messages : Carries(c, m)

(* Before the handshake's first receive there is a hello or nothing.       *)
Fresh(c) == IF c \in greeted THEN Answered(c, Plain("ICC_HELLO")) ELSE Quiet(c)

(* Driver and simulator take turns from the hello on, so that nothing is   *)
(* left when the handshake is over.                                        *)
Turns(c) ==
  /\ link[c] = "unused" => Quiet(c) /\ c \notin greeted
  /\ link[c] = "backlog" => Fresh(c)
  /\ \A g \in Starts : Live(c) /\ tmpSocket[g] = c =>
       /\ hs[g] = "hello" => Fresh(c)
       /\ hs[g] \in {"command", "publish"} => Quiet(c)
       /\ hs[g] = "answer" => Carries(c, Plain("IFD_HELLO"))
                             \/ (Quiet(c) /\ link[c] \in {"closed", "cut"})
  /\ link[c] = "open" /\ c \notin greeted =>
       \E g \in Starts : hs[g] = "hello" /\ tmpSocket[g] = c
  /\ link[c] \in {"closed", "cut"} => toSimulator[c] = <<>>

(* A live connection carries nothing but the request, or its reply, of the *)
(* thread that reads from it; on the one in use that thread is on its way. *)
Own(c) ==
  Live(c) =>
    /\ \A t \in Threads :
         pc[t] = "recv" /\ sock[t] = c => Quiet(c) \/ Carries(c, Request(t))
    /\ c = ClientSocket => Quiet(c) \/
         \E t \in Threads : /\ pc[t] \in {"receive", "recv"}
                            /\ pc[t] = "recv" => sock[t] = c
                            /\ Carries(c, Request(t))

AllTurns == \A c \in Connections : Turns(c)

Conversation == \A c \in Connections : OneMessage(c) /\ Own(c)

(* A sequence of one message.                                              *)
LEMMA Single ==
  ASSUME NEW m
  PROVE  /\ <<m>> # <<>> /\ Head(<<m>>) = m /\ Tail(<<m>>) = <<>>
         /\ Append(<<>>, m) = <<m>>
OBVIOUS

(* Steps of messages along connections.                                    *)
LEMMA SentSteps ==
  ASSUME NetworkOK, NEW c \in Connections, NEW m, Sent(c, m)
  PROVE  /\ \A d \in Connections : d # c => toSimulator'[d] = toSimulator[d]
         /\ link[c] = "open" => toSimulator'[c] = Append(toSimulator[c], m)
         /\ link[c] # "open" => toSimulator'[c] = toSimulator[c]
BY DEF NetworkOK, Sent, Working

(* A receive takes the first message of one connection.                    *)
LEMMA ReceivedSteps ==
  ASSUME NetworkOK, NEW c \in Connections, Received(c)
  PROVE  /\ \A d \in Connections : d # c => toDriver'[d] = toDriver[d]
         /\ toDriver'[c] = Tail(toDriver[c])
BY DEF NetworkOK, Received

(* What is asked on a quiet connection is alone there.                     *)
LEMMA AskOnQuiet ==
  ASSUME NetworkOK, NEW c \in Connections, NEW m, Sent(c, m), Quiet(c),
         UNCHANGED toDriver
  PROVE  /\ link[c] = "open" => Asked(c, m)'
         /\ link[c] # "open" => Quiet(c)'
BY SentSteps, Single DEF Quiet, Asked

(* What is received from a connection was the only message there.          *)
LEMMA TakeAnswer ==
  ASSUME NetworkOK, NEW c \in Connections, NEW m, Received(c), CanReceive(c),
         Carries(c, m), UNCHANGED toSimulator
  PROVE  Head(toDriver[c]) = m /\ Quiet(c)'
BY ReceivedSteps, Single DEF Quiet, Asked, Answered, Carries, CanReceive

(* The simulator's steps.                                                  *)
LEMMA AnswerSteps ==
  ASSUME NetworkOK, NEW c \in Connections, NEW m, Answer(c), Carries(c, m)
  PROVE  Asked(c, m) /\ Answered(c, m)'
BY Single DEF NetworkOK, Answer, Asked, Answered, Carries

(* A hello on a quiet connection is alone there.                           *)
LEMMA GreetSteps ==
  ASSUME NetworkOK, NEW c \in Connections, Greet(c), Quiet(c)
  PROVE  Answered(c, Plain("ICC_HELLO"))'
BY Single DEF NetworkOK, Greet, Quiet, Answered

(* Hanging up loses what the simulator has not read, and nothing else.     *)
LEMMA CloseSteps ==
  ASSUME NetworkOK, SystemOK, NEW c \in Connections, Close(c) \/ Cut(c)
  PROVE  /\ link[c] = "open" /\ link'[c] \in {"closed", "cut"} /\ toSimulator'[c] = <<>>
         /\ Quiet(c) => Quiet(c)'
         /\ \A m : Carries(c, m) => Quiet(c)' \/ Answered(c, m)'
BY DEF NetworkOK, SystemOK, Close, Cut, Working, Quiet, Carries, Asked, Answered

(* Nothing moves on c.                                                     *)
Still(c) == toSimulator'[c] = toSimulator[c] /\ toDriver'[c] = toDriver[c]

(* What is under way where nothing moves is what was.                      *)
LEMMA StillStays ==
  ASSUME NEW c, Still(c)
  PROVE  /\ Quiet(c)' <=> Quiet(c)
         /\ \A m :
              /\ Asked(c, m)' <=> Asked(c, m)
              /\ Answered(c, m)' <=> Answered(c, m)
              /\ Carries(c, m)' <=> Carries(c, m)
         /\ OneMessage(c)' <=> OneMessage(c)
<1>1. OneMessage(c)' <=> OneMessage(c)
  BY DEF Still, Quiet, Asked, Answered, Carries, OneMessage, Messages
<1>2. Quiet(c)' <=> Quiet(c)
  BY DEF Still, Quiet
<1>3. ASSUME NEW m
      PROVE  /\ Asked(c, m)' <=> Asked(c, m)
             /\ Answered(c, m)' <=> Answered(c, m)
             /\ Carries(c, m)' <=> Carries(c, m)
  BY DEF Still, Asked, Answered, Carries
<1> QED
  BY <1>1, <1>2, <1>3

(* A step that does not advance the handshake of c keeps the turns.        *)
LEMMA TurnsFrame ==
  ASSUME NEW c \in Connections, Turns(c), Still(c),
         c \in greeted' <=> c \in greeted,
         \/ link'[c] = link[c]
         \/ link[c] # "unused" /\ link'[c] = "dead",
         \A g \in Starts :
           \/ hs[g] \in InHandshake /\ tmpSocket[g] = c
           \/ hs'[g] \in InHandshake /\ tmpSocket'[g] = c
           => hs'[g] = hs[g] /\ tmpSocket'[g] = tmpSocket[g]
  PROVE  Turns(c)'
<1>1. Fresh(c)' <=> Fresh(c)
  BY DEF Still, Fresh, Quiet, Answered, Plain, Message
<1>2. \A g \in Starts : tmpSocket'[g] = c /\ hs'[g] \in InHandshake =>
        hs'[g] = hs[g] /\ tmpSocket[g] = c
  OBVIOUS
<1>3. \A g \in Starts : tmpSocket[g] = c /\ hs[g] = "hello" =>
        hs'[g] = hs[g] /\ tmpSocket'[g] = c
  BY DEF InHandshake
<1>4. Live(c)' => Live(c) /\ link'[c] = link[c]
  BY DEF Live
<1>5. Carries(c, Plain("IFD_HELLO"))' <=> Carries(c, Plain("IFD_HELLO"))
  BY DEF Still, Carries, Asked, Answered, Plain, Message
<1>6. Quiet(c)' <=> Quiet(c)
  BY StillStays
<1>7. ASSUME NEW g \in Starts, Live(c)', tmpSocket'[g] = c
      PROVE  /\ hs'[g] = "hello" => Fresh(c)'
             /\ hs'[g] \in {"command", "publish"} => Quiet(c)'
             /\ hs'[g] = "answer" => Carries(c, Plain("IFD_HELLO"))'
                               \/ (Quiet(c)' /\ link'[c] \in {"closed", "cut"})
  BY <1>1, <1>2, <1>4, <1>5, <1>6, <1>7 DEF Turns, InHandshake
<1>8. link'[c] = "open" /\ c \notin greeted' =>
        \E g \in Starts : hs'[g] = "hello" /\ tmpSocket'[g] = c
  BY <1>3 DEF Turns
<1>9. link'[c] \in {"closed", "cut"} => toSimulator'[c] = <<>>
  BY DEF Turns, Still
<1>10. /\ link'[c] = "unused" => Quiet(c)' /\ c \notin greeted'
       /\ link'[c] = "backlog" => Fresh(c)'
  BY <1>1, <1>6 DEF Turns
<1> QED
  BY <1>7, <1>8, <1>9, <1>10 DEF Turns

(* The connection of a handshake thread is not yet anybody's to exchange   *)
(* on, and there is one such thread only.                                  *)
LEMMA HandshakesConnection ==
  ASSUME Exclusive, NEW g \in Starts, hs[g] \in InHandshake
  PROVE  /\ tmpSocket[g] \in Connections
         /\ ClientSocket # tmpSocket[g]
         /\ \A t \in Threads : ~(pc[t] = "recv" /\ sock[t] = tmpSocket[g])
         /\ \A h \in Starts : hs[h] \in InHandshake => h = g
<1>1. tmpSocket[g] \in Connections
  BY DEF Exclusive, Typed, Positions
<1>2. ~Published(tmpSocket[g])
  BY DEF Published, Handshaking
<1>3. \A h \in Starts : hs[h] \in InHandshake => h = 1
  BY DEF Exclusive, Lifecycle, InHandshake
<1> QED
  BY <1>1, <1>2, <1>3, ConnectorAssumption DEF Exclusive, Sockets

(* A connection that is in use or read from has nothing else going on, and *)
(* its simulator has said hello.                                           *)
LEMMA PublishedGreeted ==
  ASSUME AllTurns, NEW c \in Connections, Published(c),
         link[c] = "open"
  PROVE  c \in greeted
BY DEF AllTurns, Turns, Published, Handshaking, InHandshake

(* An exchange on a published connection c does not concern the turns of a *)
(* handshake.                                                              *)
LEMMA TurnsOfPublished ==
  ASSUME Exclusive, NEW c \in Connections, Turns(c), Published(c),
         UNCHANGED <<link, greeted, hs, tmpSocket>>,
         link[c] \in {"closed", "cut"} => toSimulator'[c] = <<>>
  PROVE  Turns(c)'
BY DEF Turns, Published, Accepted, Handshaking, InHandshake, Live

(* Plug-and-play callbacks, and what a handshake thread does without a     *)
(* connection.                                                             *)
Aside ==
  \/ StartMutex \/ StopAccepting \/ PnpStep
  \/ \E g \in Starts : HsTest(g) \/ HsListen(g) \/ HsClose(g) \/ HsCleanup(g)

(* They touch no message and no socket but to close it.                    *)
LEMMA AsideSteps ==
  ASSUME Exclusive, Aside
  PROVE  /\ UNCHANGED <<network, exchange, tmpSocket>>
         /\ ClientSocket' \in {ClientSocket, NoSocket}
         /\ \A c \in Connections :
              link'[c] = link[c] \/ (link[c] # "unused" /\ link'[c] = "dead")
         /\ \A g \in Starts : hs[g] \in InHandshake \/ hs'[g] \in InHandshake =>
              hs'[g] = hs[g]
<1> USE DEF Aside
<1>1. UNCHANGED <<network, exchange>>
  BY DEF StartMutex, StopAccepting, PnpStep, StartWinsock, StartListen,
         StartThread, StartListenFails, StopMutex, StopListening, StopWinsock,
         HsTest, HsListen, HsClose, HsCleanup
<1>2. ClientSocket' \in {ClientSocket, NoSocket}
  BY DEF StartMutex, StopAccepting, PnpStep, StartWinsock, StartListen,
         StartThread, StartListenFails, StopMutex, StopListening, StopWinsock,
         HsTest, HsListen, HsClose, HsCleanup, globals
<1>3. \A c \in Connections :
        link'[c] = link[c] \/ (link[c] # "unused" /\ link'[c] = "dead")
  <2>1. CASE WSACleanup
    BY <2>1 DEF WSACleanup
  <2>2. CASE CloseListenSocket
    BY <2>2 DEF CloseListenSocket
  <2>3. CASE UNCHANGED link
    BY <2>3
  <2> QED
    BY <2>1, <2>2, <2>3
       DEF StartMutex, StopAccepting, PnpStep, StartWinsock, StartListen,
           StartThread, StartListenFails, StopMutex, StopListening,
           StopWinsock, HsTest, HsListen, HsClose, HsCleanup, system
<1>4. UNCHANGED tmpSocket
  BY DEF StartMutex, StopAccepting, PnpStep, StartWinsock, StartListen,
         StartThread, StartListenFails, StopMutex, StopListening, StopWinsock,
         HsTest, HsListen, HsClose, HsCleanup, handshake
<1>5. \A g \in Starts : hs[g] \in InHandshake \/ hs'[g] \in InHandshake =>
        hs'[g] = hs[g]
  <2>1. hs \in [Starts -> {"none", "test", "listen", "accept", "failed",
                          "cleanup", "hello", "command", "answer", "publish"}]
    BY DEF Exclusive, Typed, Groups, HandshakeOK
  <2>2. CASE StartThread
    <3>1. hs[starts] = "none"
      BY <2>2 DEF Exclusive, Lifecycle, StartThread
    <3> QED
      BY <2>1, <2>2, <3>1 DEF StartThread, InHandshake
  <2>3. CASE UNCHANGED hs
    BY <2>3
  <2>4. ASSUME NEW g \in Starts,
               HsTest(g) \/ HsListen(g) \/ HsClose(g) \/ HsCleanup(g),
               NEW h \in Starts, hs[h] \in InHandshake \/ hs'[h] \in InHandshake
        PROVE  hs'[h] = hs[h]
    BY <2>1, <2>4 DEF HsTest, HsListen, HsClose, HsCleanup, HsGoto, InHandshake
  <2> QED
    BY <2>2, <2>3, <2>4
       DEF StartMutex, StopAccepting, PnpStep, StartWinsock, StartListen,
           StartListenFails, StopMutex, StopListening, StopWinsock, handshake
<1> QED
  BY <1>1, <1>2, <1>3, <1>4, <1>5

(* accept opens a connection for the handshake, or fails.                  *)
LEMMA AcceptSteps ==
  ASSUME Exclusive, NEW g \in Starts, HsAccept(g)
  PROVE  /\ UNCHANGED <<network, exchange, ClientSocket>>
         /\ \/ UNCHANGED <<link, tmpSocket>> /\ hs' = [hs EXCEPT ![g] = "failed"]
            \/ \E d \in Connections :
                 /\ link[d] = "backlog"
                 /\ link' = [link EXCEPT ![d] = "open"]
                 /\ tmpSocket' = [tmpSocket EXCEPT ![g] = d]
                 /\ hs' = [hs EXCEPT ![g] = "hello"]
         /\ hs[g] = "accept"
         /\ hs \in [Starts -> {"none", "test", "listen", "accept", "failed",
                              "cleanup", "hello", "command", "answer", "publish"}]
         /\ tmpSocket \in [Starts -> Connections \cup {NoSocket}]
         /\ link \in [Connections -> LinkStates]
BY DEF HsAccept, HsGoto, globals, Exclusive, Typed, Groups, HandshakeOK, SystemOK

(* accept finds a fresh connection.                                        *)
LEMMA TurnsAccept ==
  ASSUME Exclusive, AllTurns, NEW g \in Starts, HsAccept(g)
  PROVE  AllTurns'
<1>1. \A c \in Connections : Still(c) /\ (c \in greeted' <=> c \in greeted)
  BY AcceptSteps DEF Still, network
<1>2. /\ hs[g] = "accept"
      /\ hs \in [Starts -> {"none", "test", "listen", "accept", "failed",
                           "cleanup", "hello", "command", "answer", "publish"}]
      /\ tmpSocket \in [Starts -> Connections \cup {NoSocket}]
      /\ link \in [Connections -> LinkStates]
  BY AcceptSteps
<1>3. ASSUME NEW d \in Connections, link[d] = "backlog",
             link' = [link EXCEPT ![d] = "open"],
             tmpSocket' = [tmpSocket EXCEPT ![g] = d],
             hs' = [hs EXCEPT ![g] = "hello"],
             NEW c \in Connections
      PROVE  Turns(c)'
  <2>1. CASE c # d
    BY <1>1, <1>2, <1>3, <2>1, TurnsFrame DEF AllTurns, InHandshake
  <2>2. CASE c = d
    <3>1. Fresh(c)'
      <4>1. Fresh(c)
        BY <1>3, <2>2 DEF AllTurns, Turns
      <4> QED
        BY <1>1, <4>1 DEF Still, Fresh, Quiet, Answered, Plain, Message
    <3>2. ASSUME NEW h \in Starts, tmpSocket'[h] = c, hs'[h] \in InHandshake
          PROVE  hs'[h] = "hello"
      <4>1. CASE h = g
        BY <1>2, <1>3, <4>1
      <4>2. CASE h # g
        BY <1>2, <1>3, <2>2, <3>2, <4>2
           DEF Exclusive, Lifecycle, InHandshake
      <4> QED
        BY <4>1, <4>2
    <3>3. hs'[g] = "hello" /\ tmpSocket'[g] = c /\ link'[c] = "open"
      BY <1>2, <1>3, <2>2
    <3> QED
      BY <3>1, <3>2, <3>3 DEF Turns, InHandshake
  <2> QED
    BY <2>1, <2>2
<1>4. ASSUME UNCHANGED <<link, tmpSocket>>, hs' = [hs EXCEPT ![g] = "failed"],
             NEW c \in Connections
      PROVE  Turns(c)'
  BY <1>1, <1>2, <1>4, TurnsFrame DEF AllTurns, InHandshake
<1> QED
  BY <1>3, <1>4, AcceptSteps DEF AllTurns

(* A step of the handshake on its own connection c leaves the others       *)
(* alone.                                                                  *)
LEMMA TurnsHandshake ==
  ASSUME Exclusive, AllTurns,
         NEW g \in Starts, hs[g] \in InHandshake,
         NEW c \in Connections, c = tmpSocket[g],
         UNCHANGED <<link, greeted, tmpSocket>>,
         NEW step, hs' = [hs EXCEPT ![g] = step], step # "hello",
         \A d \in Connections : d # c => Still(d),
         link[c] \in {"closed", "cut"} => toSimulator'[c] = <<>>,
         link[c] = "open" => c \in greeted,
         Live(c) /\ step \in {"command", "publish"} => Quiet(c)',
         Live(c) /\ step = "answer" =>
           \/ Carries(c, Plain("IFD_HELLO"))'
           \/ Quiet(c)' /\ link[c] \in {"closed", "cut"}
  PROVE  AllTurns'
<1>1. \A h \in Starts : hs[h] \in InHandshake => h = g
  BY HandshakesConnection
<1>2. hs \in [Starts -> {"none", "test", "listen", "accept", "failed", "cleanup",
                         "hello", "command", "answer", "publish"}]
  BY DEF Exclusive, Typed, Groups, HandshakeOK
<1>3. ASSUME NEW d \in Connections, d # c
      PROVE  Turns(d)'
  BY <1>2, <1>3, TurnsFrame DEF AllTurns
<1>4. Turns(c)'
  <2>1. \A h \in Starts : h # g => hs'[h] \notin InHandshake
    BY <1>1, <1>2
  <2>2. hs'[g] = step
    BY <1>2
  <2>3. Accepted(c)
    BY DEF Exclusive, Sockets
  <2> QED
    BY <2>1, <2>2, <2>3 DEF Turns, InHandshake, Accepted, Live
<1> QED
  BY <1>3, <1>4 DEF AllTurns

(* The two receives of the handshake take the one message there is, or     *)
(* find the connection at its end.                                         *)
LEMMA HsReceiveSteps ==
  ASSUME Exclusive, AllTurns, NEW g \in Starts, HsReceive(g),
         NEW c \in Connections, c = tmpSocket[g]
  PROVE  /\ \A d \in Connections : d # c => Still(d)
         /\ UNCHANGED toSimulator
         /\ link[c] = "open" => c \in greeted
         /\ link[c] \in {"closed", "cut"} => toSimulator'[c] = <<>>
         /\ Live(c) => Quiet(c)'
<1>1. /\ UNCHANGED toSimulator
      /\ hs[g] \in {"hello", "answer"} /\ NetworkOK /\ Turns(c)
  BY DEF HsReceive, Exclusive, Typed, Groups, AllTurns
<1>2. link[c] \in {"closed", "cut"} => toSimulator'[c] = <<>>
  BY <1>1 DEF Turns
<1>3. CASE CanReceive(c) /\ Received(c)
  <2>1. \A d \in Connections : d # c => Still(d)
    BY <1>1, <1>3, ReceivedSteps DEF Still
  <2>2. link[c] = "open" => c \in greeted
    <3>1. CASE hs[g] = "hello"
      BY <1>1, <1>3, <3>1 DEF Turns, Live, Fresh, Quiet, CanReceive
    <3>2. CASE hs[g] = "answer"
      BY <1>1, <3>2, HandshakesConnection DEF Turns, InHandshake
    <3> QED
      BY <1>1, <3>1, <3>2
  <2>3. ASSUME Live(c)
        PROVE  Quiet(c)'
    <3>1. PICK k \in {"IFD_HELLO", "ICC_HELLO"} : Carries(c, Plain(k))
      BY <1>1, <1>3, <2>3 DEF Turns, Fresh, CanReceive, Quiet, Carries
    <3> QED
      BY <1>1, <1>3, <3>1, TakeAnswer
  <2> QED
    BY <1>1, <1>2, <2>1, <2>2, <2>3
<1>4. CASE ReceiveFails(c) /\ UNCHANGED toDriver
  <2>1. \A d \in Connections : Still(d)
    BY <1>1, <1>4 DEF Still
  <2>2. Live(c) => Quiet(c)'
    BY <1>1, <1>2, <1>4 DEF ReceiveFails, Live, Quiet
  <2>3. link[c] # "open"
    BY <1>4 DEF ReceiveFails
  <2> QED
    BY <1>1, <1>2, <2>1, <2>2, <2>3
<1> QED
  BY <1>3, <1>4 DEF HsReceive

(* The command is asked on a quiet connection.                             *)
LEMMA HsCommandSteps ==
  ASSUME Exclusive, AllTurns, NEW g \in Starts, HsCommand(g),
         NEW c \in Connections, c = tmpSocket[g]
  PROVE  /\ \A d \in Connections : d # c => Still(d)
         /\ link[c] = "open" => c \in greeted /\ Quiet(c)
                                /\ Carries(c, Plain("IFD_HELLO"))'
         /\ link[c] # "open" => Still(c)
         /\ link[c] \in {"closed", "cut"} => toSimulator'[c] = <<>> /\ Quiet(c)'
<1>1. /\ NetworkOK /\ Turns(c) /\ UNCHANGED toDriver
      /\ Sent(c, Plain("IFD_HELLO")) /\ hs[g] = "command"
  BY DEF HsCommand, Exclusive, Typed, Groups, AllTurns
<1>2. \A d \in Connections : d # c => Still(d)
  BY <1>1, SentSteps DEF Still
<1>3. link[c] = "open" => c \in greeted
  BY <1>1, HandshakesConnection DEF Turns, InHandshake
<1>4. Live(c) => Quiet(c)
  BY <1>1 DEF Turns
<1>5. link[c] = "open" => Carries(c, Plain("IFD_HELLO"))'
  <2>1. PICK m : m = Plain("IFD_HELLO")
    OBVIOUS
  <2>2. link[c] = "open" => Asked(c, m)'
    BY <1>1, <1>4, <2>1, AskOnQuiet DEF Live
  <2> QED
    BY <2>1, <2>2 DEF Carries, Plain, Message
<1>6. link[c] # "open" => Still(c)
  BY <1>1, SentSteps DEF Still
<1>7. link[c] \in {"closed", "cut"} => toSimulator'[c] = <<>> /\ Quiet(c)'
  BY <1>4, <1>6, StillStays DEF Live, Quiet
<1> QED
  BY <1>2, <1>3, <1>4, <1>5, <1>6, <1>7 DEF Live

(* The receives of the handshake leave its connection quiet.               *)
LEMMA TurnsHsReceive ==
  ASSUME Exclusive, AllTurns, NEW g \in Starts, HsReceive(g)
  PROVE  AllTurns'
<1>1. PICK c \in Connections : c = tmpSocket[g]
  BY HandshakesConnection DEF HsReceive, InHandshake
<1>2. PICK step \in {"command", "publish"} : hs' = [hs EXCEPT ![g] = step]
  BY DEF HsReceive, HsGoto
<1>3. UNCHANGED <<link, greeted, tmpSocket>> /\ hs[g] \in InHandshake
  BY DEF HsReceive, system, InHandshake
<1> QED
  BY <1>1, <1>2, <1>3, HsReceiveSteps, TurnsHandshake

(* So it is for the driver to ask.                                         *)
LEMMA TurnsHsCommand ==
  ASSUME Exclusive, AllTurns, NEW g \in Starts, HsCommand(g)
  PROVE  AllTurns'
<1>1. PICK c \in Connections : c = tmpSocket[g]
  BY HandshakesConnection DEF HsCommand, InHandshake
<1>2. /\ UNCHANGED <<link, greeted, tmpSocket>> /\ hs[g] \in InHandshake
      /\ hs' = [hs EXCEPT ![g] = "answer"]
  BY DEF HsCommand, HsGoto, system, InHandshake
<1>3. /\ \A d \in Connections : d # c => Still(d)
      /\ link[c] = "open" => c \in greeted
      /\ link[c] \in {"closed", "cut"} => toSimulator'[c] = <<>>
      /\ Live(c) => \/ Carries(c, Plain("IFD_HELLO"))'
                    \/ Quiet(c)' /\ link[c] \in {"closed", "cut"}
  BY <1>1, HsCommandSteps DEF Live
<1> QED
  BY <1>1, <1>2, <1>3, TurnsHandshake

(* A handshake that is over leaves its connection quiet.                   *)
LEMMA HsPublishSteps ==
  ASSUME Exclusive, AllTurns, NEW g \in Starts, HsPublish(g),
         NEW c \in Connections, c = tmpSocket[g]
  PROVE  /\ \A d \in Connections : Still(d)
         /\ ClientSocket' = c
         /\ Live(c) => Quiet(c)'
         /\ link[c] = "open" => c \in greeted
         /\ link[c] \in {"closed", "cut"} => toSimulator'[c] = <<>>
<1>1. \A d \in Connections : Still(d)
  BY DEF HsPublish, network, Still
<1>2. Turns(c) /\ hs[g] = "publish" /\ ClientSocket' = c
  BY DEF AllTurns, HsPublish
<1>3. Live(c) => Quiet(c)'
  BY <1>1, <1>2, StillStays DEF Turns
<1>4. link[c] = "open" => c \in greeted
  BY <1>2, HandshakesConnection DEF Turns, InHandshake
<1>5. link[c] \in {"closed", "cut"} => toSimulator'[c] = <<>>
  BY <1>1, <1>2 DEF Turns, Still
<1> QED
  BY <1>1, <1>2, <1>3, <1>4, <1>5

(* So its turns are over.                                                  *)
LEMMA TurnsHsPublish ==
  ASSUME Exclusive, AllTurns, NEW g \in Starts, HsPublish(g)
  PROVE  AllTurns'
<1>1. PICK c \in Connections : c = tmpSocket[g]
  BY HandshakesConnection DEF HsPublish, InHandshake
<1>2. /\ UNCHANGED <<link, greeted, tmpSocket>> /\ hs[g] \in InHandshake
      /\ hs' = [hs EXCEPT ![g] = "test"]
  BY DEF HsPublish, HsGoto, system, network, InHandshake
<1> QED
  BY <1>1, <1>2, HsPublishSteps, TurnsHandshake

(* Exchanges use published connections only.                               *)
LEMMA TurnsExchange ==
  ASSUME Exclusive, AllTurns, NEW t \in Threads, Call(t) \/ Exchange(t)
  PROVE  AllTurns'
<1>1. UNCHANGED <<link, greeted, hs, tmpSocket>>
  BY DEF Call, Exchange, Acquire, Transmit, Receive, Recv, Release, network,
         handshake, system
<1>2. ASSUME NEW c \in Connections, Still(c)
      PROVE  Turns(c)'
  BY <1>1, <1>2, TurnsFrame DEF AllTurns
<1>3. ASSUME NEW c \in Connections, Published(c),
             link[c] \in {"closed", "cut"} => toSimulator'[c] = <<>>
      PROVE  Turns(c)'
  BY <1>1, <1>3, TurnsOfPublished DEF AllTurns
<1>4. NetworkOK
  BY DEF Exclusive, Typed, Groups
<1>5. CASE Transmit(t)
  <2>1. UNCHANGED toDriver
    BY <1>5 DEF Transmit
  <2>2. CASE UNCHANGED toSimulator
    BY <1>2, <2>1, <2>2 DEF Still, AllTurns
  <2>3. CASE ClientSocket \in CanSend /\ Sent(ClientSocket, Request(t))
    <3>1. PICK c \in Connections : c = ClientSocket /\ Published(c)
      BY <2>3, ConnectorAssumption DEF CanSend, Exclusive, Sockets
    <3>2. \A d \in Connections : d # c => Still(d)
      BY <1>4, <2>1, <2>3, <3>1, SentSteps DEF Still
    <3>3. link[c] \in {"closed", "cut"} => toSimulator'[c] = <<>>
      BY <1>4, <2>3, <3>1, SentSteps DEF AllTurns, Turns
    <3> QED
      BY <1>2, <1>3, <3>1, <3>2, <3>3 DEF AllTurns
  <2> QED
    BY <1>5, <2>2, <2>3 DEF Transmit
<1>6. CASE Recv(t)
  <2>1. PICK c \in Connections : c = sock[t] /\ Published(c)
    BY <1>6 DEF Recv, Exclusive, Typed, Groups, ExchangeOK, Sockets
  <2>2. UNCHANGED toSimulator /\ \A d \in Connections : d # c => Still(d)
    BY <1>4, <1>6, <2>1, ReceivedSteps DEF Recv, Still
  <2>3. link[c] \in {"closed", "cut"} => toSimulator'[c] = <<>>
    BY <2>2 DEF AllTurns, Turns
  <2> QED
    BY <1>2, <1>3, <2>1, <2>2, <2>3 DEF AllTurns
<1>7. CASE Call(t) \/ Acquire(t) \/ Receive(t) \/ Release(t)
  <2>1. \A c \in Connections : Still(c)
    BY <1>7 DEF Call, Acquire, Receive, Release, network, Still
  <2> QED
    BY <1>2, <2>1 DEF AllTurns
<1> QED
  BY <1>5, <1>6, <1>7 DEF Exchange

(* The simulator's hello is for the handshake.                             *)
LEMMA GreetFinds ==
  ASSUME Exclusive, AllTurns, NEW d \in Connections, Greet(d)
  PROVE  /\ link[d] = "open" => \E g \in Starts : hs[g] = "hello" /\ tmpSocket[g] = d
         /\ Quiet(d) /\ ~Published(d)
<1>1. link[d] \in {"backlog", "open"} /\ d \notin greeted /\ Turns(d)
  BY DEF Greet, AllTurns
<1>2. ~Published(d)
  BY <1>1, PublishedGreeted DEF Published, Accepted
<1> QED
  BY <1>1, <1>2 DEF Turns, Fresh, Live

(* The simulator's steps keep the turns.                                   *)
LEMMA TurnsSimulator ==
  ASSUME Exclusive, AllTurns, NEW d \in Connections,
         Connect(d) \/ Simulator(d) \/ Close(d) \/ Cut(d)
  PROVE  AllTurns'
<1>1. UNCHANGED handshake /\ NetworkOK /\ SystemOK /\ Turns(d)
  BY DEF Connect, Simulator, Greet, Answer, Close, Cut, Exclusive, Typed,
         Groups, AllTurns
<1>2. ASSUME NEW c \in Connections, c # d
      PROVE  Turns(c)'
  <2>1. Still(c) /\ (c \in greeted' <=> c \in greeted) /\ link'[c] = link[c]
    BY <1>1, <1>2
       DEF Connect, Simulator, Greet, Answer, Close, Cut, NetworkOK, SystemOK,
           network, system, Still
  <2> QED
    BY <1>1, <2>1, TurnsFrame DEF AllTurns, handshake
<1>3. CASE Connect(d)
  <2>1. link[d] = "unused" /\ link'[d] = "backlog" /\ Still(d) /\ UNCHANGED greeted
    BY <1>1, <1>3 DEF Connect, SystemOK, network, Still
  <2>2. Quiet(d)' /\ d \notin greeted'
    BY <1>1, <2>1, StillStays DEF Turns
  <2> QED
    BY <1>2, <2>1, <2>2 DEF AllTurns, Turns, Fresh, Live
<1>4. CASE Greet(d)
  <2>1. PICK m : m = Plain("ICC_HELLO")
    OBVIOUS
  <2>2. Answered(d, m)' /\ d \in greeted' /\ UNCHANGED <<link, toSimulator>>
    BY <1>1, <1>4, <2>1, GreetFinds, GreetSteps DEF Greet, system, Plain, Message
  <2>3. Fresh(d)'
    BY <2>1, <2>2 DEF Fresh, Answered, Plain, Message
  <2>4. \A g \in Starts : Live(d) /\ hs[g] \in InHandshake /\ tmpSocket[g] = d =>
          hs[g] = "hello"
    BY <1>4, GreetFinds, HandshakesConnection DEF Greet, Live, InHandshake
  <2>5. link[d] \in {"backlog", "open"}
    BY <1>4 DEF Greet
  <2> QED
    BY <1>1, <1>2, <2>2, <2>3, <2>4, <2>5
       DEF AllTurns, Turns, Live, InHandshake, handshake
<1>5. CASE Answer(d)
  <2>1. link[d] = "open" /\ ~Quiet(d) /\ ~Fresh(d) /\ UNCHANGED <<link, greeted>>
    BY <1>5 DEF Answer, Working, Quiet, Fresh, Answered, system
  <2>2. Carries(d, Plain("IFD_HELLO")) => Carries(d, Plain("IFD_HELLO"))'
    <3>1. PICK m : m = Plain("IFD_HELLO")
      OBVIOUS
    <3>2. Carries(d, m) => Answered(d, m)'
      BY <1>1, <1>5, AnswerSteps
    <3> QED
      BY <3>1, <3>2 DEF Carries, Answered, Asked, Plain, Message
  <2> QED
    BY <1>1, <1>2, <2>1, <2>2 DEF AllTurns, Turns, Live, handshake
<1>6. CASE Close(d) \/ Cut(d)
  <2>1. /\ link[d] = "open" /\ link'[d] \in {"closed", "cut"}
        /\ toSimulator'[d] = <<>> /\ UNCHANGED <<greeted, toDriver>>
        /\ Quiet(d) => Quiet(d)'
    BY <1>1, <1>6, CloseSteps DEF Close, Cut
  <2>2. Fresh(d) => Fresh(d)'
    BY <2>1 DEF Fresh, Answered, Quiet, Plain, Message
  <2>3. Carries(d, Plain("IFD_HELLO")) =>
          Carries(d, Plain("IFD_HELLO"))' \/ Quiet(d)'
    BY <2>1 DEF Carries, Asked, Answered, Plain, Message, Quiet
  <2> QED
    BY <1>1, <1>2, <2>1, <2>2, <2>3 DEF AllTurns, Turns, Live, handshake
<1> QED
  BY <1>3, <1>4, <1>5, <1>6 DEF Simulator

(* Every step keeps the turns.                                             *)
LEMMA NextTurns ==
  ASSUME Exclusive, AllTurns, [Next]_vars
  PROVE  AllTurns'
<1>1. CASE UNCHANGED vars \/ Aside
  <2>1. /\ UNCHANGED <<network, tmpSocket>>
        /\ \A c \in Connections :
             link'[c] = link[c] \/ (link[c] # "unused" /\ link'[c] = "dead")
        /\ \A g \in Starts : hs[g] \in InHandshake \/ hs'[g] \in InHandshake =>
             hs'[g] = hs[g]
    BY <1>1, AsideSteps DEF vars, system, handshake
  <2>2. \A c \in Connections : Still(c) /\ (c \in greeted' <=> c \in greeted)
    BY <2>1 DEF Still, network
  <2> QED
    BY <2>1, <2>2, TurnsFrame DEF AllTurns
<1> QED
  BY <1>1, TurnsAccept, TurnsHsReceive, TurnsHsCommand, TurnsHsPublish,
     TurnsExchange, TurnsSimulator
     DEF Next, Handshake, Aside

(* Initially there are no connections.                                     *)
LEMMA InitTurns == Init => AllTurns
BY DEF Init, AllTurns, Turns, Quiet, Live

-----------------------------------------------------------------------------
(* How much is under way, even when a handshake thread was overtaken and   *)
(* two exchanges use one connection: no more than there are exchanges to   *)
(* read it.                                                                *)

Reading == {t \in Threads : pc[t] \in {"receive", "recv"}}

(* Who will read from c, as long as it is the connection in use.           *)
Readers(c) == {t \in Reading : pc[t] = "recv" => sock[t] = c}

Load(c) == Len(toSimulator[c]) + Len(toDriver[c])

Counted ==
  /\ IsFiniteSet(Reading)
  /\ \A c \in Connections :
       c = ClientSocket /\ Working(c) => Load(c) <= Cardinality(Readers(c))

(* Loads and readers can be counted.                                       *)
LEMMA CountTypes ==
  ASSUME NetworkOK, IsFiniteSet(Reading), NEW c \in Connections
  PROVE  /\ IsFiniteSet(Readers(c)) /\ Cardinality(Readers(c)) \in Nat
         /\ Load(c) \in Nat
         /\ Quiet(c) => Load(c) = 0
         /\ Load(c) = 0 => Quiet(c)
<1>1. IsFiniteSet(Readers(c)) /\ Cardinality(Readers(c)) \in Nat
  <2>1. Readers(c) \subseteq Reading
    BY DEF Readers
  <2> QED
    BY <2>1, FS_Subset, FS_CardinalityType
<1>2. toSimulator[c] \in Seq(Messages) /\ toDriver[c] \in Seq(Messages)
  BY DEF NetworkOK
<1>3. PICK x \in Nat, y \in Nat :
        /\ x = Len(toSimulator[c]) /\ y = Len(toDriver[c])
        /\ x = 0 <=> toSimulator[c] = <<>>
        /\ y = 0 <=> toDriver[c] = <<>>
  BY <1>2, EmptySeq
<1>4. PICK l \in Nat : l = x + y
  OBVIOUS
<1>5. Load(c) = l
  BY <1>3, <1>4 DEF Load
<1>6. (x = 0 /\ y = 0) <=> l = 0
  BY <1>4
<1>7. Quiet(c) <=> Load(c) = 0
  BY <1>3, <1>5, <1>6, Zenon DEF Quiet
<1>8. Load(c) \in Nat
  BY <1>5, Zenon
<1> QED
  BY <1>1, <1>7, <1>8, Zenon

(* A step of nobody who exchanges leaves the connection in use as it is,   *)
(* or finds it quiet.                                                      *)
LEMMA CountedAside ==
  ASSUME Counted, NetworkOK', UNCHANGED <<pc, sock>>,
         \A c \in Connections : c = ClientSocket' /\ Working(c)' =>
           Quiet(c)' \/ (c = ClientSocket /\ Working(c) /\ Load(c)' = Load(c))
  PROVE  Counted'
<1>1. Reading' = Reading
  BY DEF Reading
<1>2. IsFiniteSet(Reading)'
  BY <1>1 DEF Counted
<1>3. ASSUME NEW c \in Connections, c = ClientSocket', Working(c)'
      PROVE  Load(c)' <= Cardinality(Readers(c))'
  <2>1. CASE Quiet(c)'
    <3>1. Cardinality(Readers(c)') \in Nat
      <4>1. Readers(c)' \subseteq Reading' /\ IsFiniteSet(Reading')
        BY <1>2 DEF Readers
      <4> QED
        BY <4>1, FS_Subset, FS_CardinalityType
    <3>2. Load(c)' = 0
      BY <2>1 DEF Quiet, Load
    <3> QED
      BY <3>1, <3>2
  <2>2. CASE c = ClientSocket /\ Working(c) /\ Load(c)' = Load(c)
    <3>1. Readers(c)' = Readers(c)
      BY <1>1 DEF Readers
    <3> QED
      BY <2>2, <3>1 DEF Counted
  <2> QED
    BY <1>3, <2>1, <2>2
<1> QED
  BY <1>2, <1>3 DEF Counted

(* transmit adds a message and its reader.                                 *)
LEMMA CountedTransmit ==
  ASSUME Exclusive, Counted, NEW t \in Threads, Transmit(t)
  PROVE  Counted'
<1>1. /\ pc[t] = "transmit" /\ UNCHANGED <<ClientSocket, link, sock, toDriver>>
      /\ pc \in [Threads -> {"idle", "wait", "transmit", "receive", "recv",
                             "release"}]
      /\ NetworkOK
  BY DEF Transmit, globals, system, Exclusive, Typed, Groups, ExchangeOK
<1>2. CASE Goto(t, "receive") /\ Sent(ClientSocket, Request(t))
  <2>1. Reading' = Reading \cup {t} /\ t \notin Reading
    BY <1>1, <1>2 DEF Reading, Goto
  <2>2. IsFiniteSet(Reading)'
    BY <2>1, FS_AddElement DEF Counted
  <2>3. ASSUME NEW c \in Connections, c = ClientSocket, Working(c)
        PROVE  Load(c)' <= Cardinality(Readers(c))'
    <3>1. Readers(c)' = Readers(c) \cup {t} /\ t \notin Readers(c)
      BY <1>1, <1>2, <2>1 DEF Readers, Goto
    <3>2. /\ IsFiniteSet(Readers(c)) /\ Cardinality(Readers(c)) \in Nat
          /\ Load(c) \in Nat /\ Load(c) <= Cardinality(Readers(c))
      BY <1>1, <2>3, CountTypes DEF Counted
    <3>3. Cardinality(Readers(c))' = Cardinality(Readers(c)) + 1
      BY <3>1, <3>2, FS_AddElement
    <3>4. Load(c)' = Load(c) + 1
      <4>1. toSimulator'[c] = Append(toSimulator[c], Request(t))
        BY <1>1, <1>2, <2>3, SentSteps DEF Working
      <4>2. Len(toSimulator'[c]) = Len(toSimulator[c]) + 1
        BY <1>1, <4>1 DEF NetworkOK
      <4>3. PICK x \in Nat, y \in Nat :
              x = Len(toSimulator[c]) /\ y = Len(toDriver[c])
        BY <1>1 DEF NetworkOK
      <4>4. PICK l \in Int, k \in Int : l = x + y /\ k = (x + 1) + y
        OBVIOUS
      <4>5. Load(c) = l /\ Load(c)' = k
        BY <1>1, <4>2, <4>3, <4>4 DEF Load
      <4>6. k = l + 1
        BY <4>4
      <4> QED
        BY <4>5, <4>6, Zenon
    <3> QED
      BY <3>2, <3>3, <3>4
  <2> QED
    BY <1>1, <2>2, <2>3 DEF Counted, Working
<1>3. CASE Goto(t, "release") /\ UNCHANGED toSimulator
  <2>1. Reading' = Reading
    BY <1>1, <1>3 DEF Reading, Goto
  <2>2. \A c \in Connections : Readers(c)' = Readers(c) /\ Load(c)' = Load(c)
    BY <1>1, <1>3, <2>1 DEF Reading, Readers, Load, Goto
  <2> QED
    BY <1>1, <2>1, <2>2 DEF Counted, Working
<1> QED
  BY <1>2, <1>3 DEF Transmit

(* receive goes on to read from the connection in use, if there is one.    *)
LEMMA CountedReceive ==
  ASSUME Exclusive, Counted, NEW t \in Threads, Receive(t)
  PROVE  Counted'
<1>1. /\ pc[t] = "receive" /\ UNCHANGED <<ClientSocket, link, network>>
      /\ pc \in [Threads -> {"idle", "wait", "transmit", "receive", "recv",
                             "release"}]
      /\ sock \in [Threads -> Connections \cup {NoSocket}]
  BY DEF Receive, globals, system, Exclusive, Typed, Groups, ExchangeOK
<1>2. \A c \in Connections : Load(c)' = Load(c)
  BY <1>1 DEF network, Load
<1>3. CASE Goto(t, "recv") /\ sock' = [sock EXCEPT ![t] = ClientSocket]
  <2>1. Reading' = Reading
    BY <1>1, <1>3 DEF Reading, Goto
  <2>2. \A c \in Connections : c = ClientSocket => Readers(c)' = Readers(c)
    BY <1>1, <1>3, <2>1 DEF Reading, Readers, Goto
  <2> QED
    BY <1>1, <1>2, <2>1, <2>2 DEF Counted, Working
<1>4. CASE Goto(t, "release") /\ ClientSocket = NoSocket
  <2>1. Reading' = Reading \ {t}
    BY <1>1, <1>4 DEF Reading, Goto
  <2>2. IsFiniteSet(Reading)'
    BY <2>1, FS_RemoveElement DEF Counted
  <2> QED
    BY <1>1, <1>4, <2>2, ConnectorAssumption DEF Counted
<1> QED
  BY <1>3, <1>4 DEF Receive

(* recv takes a message and its reader away.                               *)
LEMMA CountedRecv ==
  ASSUME Exclusive, Counted, NEW t \in Threads, Recv(t)
  PROVE  Counted'
<1>1. /\ pc[t] = "recv" /\ Goto(t, "release")
      /\ sock' = [sock EXCEPT ![t] = NoSocket]
      /\ UNCHANGED <<ClientSocket, link, toSimulator>>
      /\ pc \in [Threads -> {"idle", "wait", "transmit", "receive", "recv",
                             "release"}]
      /\ sock \in [Threads -> Connections \cup {NoSocket}]
      /\ sock[t] \in Connections /\ NetworkOK
  BY DEF Recv, globals, system, Exclusive, Typed, Groups, ExchangeOK
<1>2. Reading' = Reading \ {t} /\ t \in Reading
  BY <1>1 DEF Reading, Goto
<1>3. IsFiniteSet(Reading)'
  BY <1>2, FS_RemoveElement DEF Counted
<1>4. ASSUME NEW c \in Connections, c = ClientSocket, Working(c)
      PROVE  Load(c)' <= Cardinality(Readers(c))'
  <2>1. /\ IsFiniteSet(Readers(c)) /\ Cardinality(Readers(c)) \in Nat
        /\ Load(c) \in Nat /\ Load(c) <= Cardinality(Readers(c))
    BY <1>1, <1>4, CountTypes DEF Counted
  <2>2. CASE c = sock[t]
    <3>1. Readers(c)' = Readers(c) \ {t} /\ t \in Readers(c)
      BY <1>1, <1>2, <2>2 DEF Readers, Goto
    <3>2. Cardinality(Readers(c))' = Cardinality(Readers(c)) - 1
      BY <2>1, <3>1, FS_RemoveElement
    <3>3. CanReceive(c) /\ Received(c)
      BY <1>4, <2>2 DEF Recv, ReceiveFails, Working
    <3>4. Load(c)' = Load(c) - 1
      <4>1. toDriver'[c] = Tail(toDriver[c]) /\ toDriver[c] # <<>>
        BY <1>1, <3>3, ReceivedSteps DEF CanReceive
      <4>2. Len(toDriver'[c]) = Len(toDriver[c]) - 1
        BY <1>1, <4>1 DEF NetworkOK
      <4>3. Len(toSimulator[c]) \in Nat /\ Len(toDriver[c]) \in Nat
        BY <1>1 DEF NetworkOK
      <4> QED
        BY <1>1, <4>2, <4>3 DEF Load
    <3> QED
      BY <2>1, <3>2, <3>4
  <2>3. CASE c # sock[t]
    <3>1. Readers(c)' = Readers(c)
      BY <1>1, <1>2, <2>3 DEF Readers, Goto
    <3>2. Load(c)' = Load(c)
      BY <1>1, <2>3, ReceivedSteps DEF Recv, Load
    <3> QED
      BY <2>1, <3>1, <3>2
  <2> QED
    BY <2>2, <2>3
<1> QED
  BY <1>1, <1>3, <1>4 DEF Counted, Working

(* The other steps of an exchange.                                         *)
LEMMA CountedMutex ==
  ASSUME Exclusive, Counted, NEW t \in Threads,
         Call(t) \/ Acquire(t) \/ Release(t)
  PROVE  Counted'
<1>1. /\ UNCHANGED <<ClientSocket, link, network, sock>>
      /\ pc[t] \notin {"receive", "recv"} /\ pc'[t] \notin {"receive", "recv"}
      /\ \A u \in Threads : u # t => pc'[u] = pc[u]
  BY DEF Call, Acquire, Release, globals, system, Goto, Exclusive, Typed,
     Groups, ExchangeOK
<1>2. Reading' = Reading
  BY <1>1 DEF Reading
<1>3. \A c \in Connections : Readers(c)' = Readers(c) /\ Load(c)' = Load(c)
  BY <1>1, <1>2 DEF Readers, Reading, Load, network
<1> QED
  BY <1>1, <1>2, <1>3 DEF Counted, Working

(* A handshake works on another connection, until it is over.              *)
LEMMA CountedHandshake ==
  ASSUME Exclusive, AllTurns, Counted, NetworkOK', NEW g \in Starts,
         HsReceive(g) \/ HsCommand(g) \/ HsPublish(g)
  PROVE  Counted'
<1>1. /\ hs[g] \in InHandshake /\ UNCHANGED <<pc, sock, link>>
      /\ ~HsPublish(g) => UNCHANGED ClientSocket
  BY DEF HsReceive, HsCommand, HsPublish, globals, system, exchange, InHandshake
<1>2. PICK c \in Connections : c = tmpSocket[g] /\ c # ClientSocket
  BY <1>1, HandshakesConnection
<1>3. \A d \in Connections : d # c => Still(d)
  BY <1>2, HsReceiveSteps, HsCommandSteps, HsPublishSteps
<1>4. HsPublish(g) => ClientSocket' = c /\ (Live(c) => Quiet(c)')
  BY <1>2, HsPublishSteps
<1>5. \A d \in Connections : d = ClientSocket' /\ Working(d)' =>
        Quiet(d)' \/ (d = ClientSocket /\ Working(d) /\ Load(d)' = Load(d))
  BY <1>1, <1>2, <1>3, <1>4 DEF Still, Load, Working, Live
<1> QED
  BY <1>1, <1>5, CountedAside

(* The simulator answers one message with one.                             *)
LEMMA CountedSimulator ==
  ASSUME Exclusive, AllTurns, Counted, NetworkOK', NEW d \in Connections,
         Connect(d) \/ Simulator(d) \/ Close(d) \/ Cut(d)
  PROVE  Counted'
<1>1. UNCHANGED <<pc, sock, ClientSocket>> /\ NetworkOK /\ SystemOK
  BY DEF Connect, Simulator, Greet, Answer, Close, Cut, globals, exchange,
     Exclusive, Typed, Groups
<1>2. ASSUME NEW c \in Connections, c = ClientSocket, Working(c)'
      PROVE  Working(c) /\ Load(c)' = Load(c)
  <2>1. c # d => Still(c) /\ link'[c] = link[c]
    BY <1>1 DEF Connect, Simulator, Greet, Answer, Close, Cut, NetworkOK,
       SystemOK, network, system, Still
  <2>2. ~Connect(d) \/ c # d
    BY <1>1, <1>2 DEF Connect, Working, SystemOK
  <2>3. ~Greet(d) \/ c # d
    BY <1>2, GreetFinds, ConnectorAssumption DEF Exclusive, Sockets
  <2>4. ~(Close(d) \/ Cut(d)) \/ c # d
    BY <1>1, <1>2, CloseSteps DEF Working
  <2>5. ASSUME Answer(d), c = d
        PROVE  Working(c) /\ Load(c)' = Load(c)
    <3>1. /\ Working(c) /\ toSimulator[c] # <<>>
          /\ toDriver'[c] = Append(toDriver[c], Head(toSimulator[c]))
          /\ toSimulator'[c] = Tail(toSimulator[c])
          /\ toSimulator[c] \in Seq(Messages) /\ toDriver[c] \in Seq(Messages)
      BY <1>1, <2>5 DEF Answer, NetworkOK
    <3>2. PICK x \in Nat, y \in Nat :
            /\ x = Len(toSimulator[c]) /\ y = Len(toDriver[c])
            /\ Len(toDriver'[c]) = y + 1 /\ Len(toSimulator'[c]) = x - 1
      BY <3>1
    <3>3. PICK l \in Int, k \in Int : l = x + y /\ k = (x - 1) + (y + 1)
      OBVIOUS
    <3>4. Load(c) = l /\ Load(c)' = k
      BY <3>2, <3>3 DEF Load
    <3>5. k = l
      BY <3>3
    <3> QED
      BY <3>1, <3>4, <3>5, Zenon
  <2> QED
    BY <1>2, <2>1, <2>2, <2>3, <2>4, <2>5 DEF Simulator, Still, Load, Working
<1> QED
  BY <1>1, <1>2, CountedAside

(* Every step keeps the count.                                             *)
LEMMA NextCounted ==
  ASSUME Exclusive, Exclusive', AllTurns, Counted, [Next]_vars
  PROVE  Counted'
<1>1. NetworkOK'
  BY DEF Exclusive, Typed, Groups
<1>2. CASE UNCHANGED vars
  <2>1. UNCHANGED <<pc, sock, ClientSocket, link, network>>
    BY <1>2 DEF vars, exchange, globals, system
  <2> QED
    BY <1>1, <2>1, CountedAside DEF Working, Load, network
<1>3. CASE Aside
  <2>1. /\ UNCHANGED <<network, pc, sock>>
        /\ ClientSocket' \in {ClientSocket, NoSocket}
        /\ \A c \in Connections : Working(c)' => Working(c)
    BY <1>3, AsideSteps DEF exchange, Working
  <2>2. \A c \in Connections : c = ClientSocket' /\ Working(c)' =>
          c = ClientSocket /\ Working(c) /\ Load(c)' = Load(c)
    BY <2>1, ConnectorAssumption DEF network, Load
  <2> QED
    BY <1>1, <2>1, <2>2, CountedAside
<1>4. ASSUME NEW g \in Starts, HsAccept(g)
      PROVE  Counted'
  <2>1. UNCHANGED <<network, pc, sock, ClientSocket>>
    BY <1>4, AcceptSteps DEF exchange
  <2>2. ASSUME NEW c \in Connections, c = ClientSocket, Working(c)'
        PROVE  Working(c)
    <3>1. Accepted(c)
      BY <2>2, ConnectorAssumption DEF Exclusive, Sockets, Published
    <3> QED
      BY <1>4, <2>2, <3>1, AcceptSteps DEF Accepted, Working
  <2> QED
    BY <1>1, <2>1, <2>2, CountedAside DEF network, Load
<1> QED
  BY <1>1, <1>2, <1>3, <1>4, CountedHandshake, CountedMutex, CountedTransmit,
     CountedReceive, CountedRecv, CountedSimulator
     DEF Next, Handshake, Exchange, Aside

(* Initially nobody reads.                                                 *)
LEMMA InitCounted == Init => Counted
<1> SUFFICES ASSUME Init
             PROVE  Counted
  OBVIOUS
<1>1. Reading = {}
  BY DEF Init, Reading
<1> QED
  BY <1>1, FS_EmptySet, ConnectorAssumption DEF Counted, Init

(* What holds whatever a handshake thread has been overtaken by.           *)
Steady == Exclusive /\ AllTurns /\ Counted

(* Every step keeps it.                                                    *)
LEMMA NextSteady == Steady /\ [Next]_vars => Steady'
<1>1. Steady /\ [Next]_vars => Exclusive'
  BY NextGroups, NextPositions, NextMutexHeld, NextLifecycle, NextSockets
     DEF Steady, Exclusive, Typed
<1> QED
  BY <1>1, NextTurns, NextCounted DEF Steady

(* Initially nothing has begun.                                            *)
LEMMA InitSteady == Init => Steady
BY InitTyped, InitMutexHeld, InitLifecycle, InitSockets, InitTurns, InitCounted
   DEF Steady, Exclusive

(* Between two exchanges nothing is left on the connection in use, so the  *)
(* next reply to be read is that of the next request                       *)
(* (persoSimConnect.cpp:46-51, 218-234).                                   *)
THEOREM InStepHolds == Spec => []InStep
<1>1. Steady => InStep
  <2> SUFFICES ASSUME Steady, NEW c \in Connections, c = ClientSocket,
                      Working(c), \A t \in Threads : pc[t] \notin {"receive", "recv"}
               PROVE  Quiet(c)
    BY DEF InStep, Quiet
  <2>1. Readers(c) = {}
    BY DEF Readers, Reading
  <2>2. Load(c) <= 0
    BY <2>1, FS_EmptySet DEF Steady, Counted
  <2>3. NetworkOK /\ IsFiniteSet(Reading)
    BY DEF Steady, Exclusive, Typed, Groups, Counted
  <2> QED
    BY <2>2, <2>3, CountTypes
<1> QED
  BY <1>1, InitSteady, NextSteady, PTL DEF Spec

-----------------------------------------------------------------------------
(* Who reads what, as long as no handshake thread was overtaken.           *)

(* A step outside the exchanges keeps what is the reader's own.            *)
LEMMA OwnFrame ==
  ASSUME NEW c \in Connections, Own(c), Still(c), Live(c)' => Live(c),
         ClientSocket' = c => ClientSocket = c,
         \A t \in Threads :
           pc'[t] = "recv" /\ sock'[t] = c => pc[t] = "recv" /\ sock[t] = c,
         \A t \in Threads : pc[t] \in {"receive", "recv"} =>
           pc'[t] = pc[t] /\ sock'[t] = sock[t] /\ exchanges'[t] = exchanges[t]
  PROVE  Own(c)'
<1>1. \A t \in Threads : pc[t] \in {"receive", "recv"} =>
        (Carries(c, Request(t))' <=> Carries(c, Request(t)))
  BY DEF Still, Carries, Asked, Answered, Request, Message
<1>2. Quiet(c)' <=> Quiet(c)
  BY StillStays
<1>3. ASSUME Live(c)', NEW t \in Threads, pc'[t] = "recv", sock'[t] = c
      PROVE  Quiet(c)' \/ Carries(c, Request(t))'
  BY <1>1, <1>2, <1>3 DEF Own
<1>4. ASSUME Live(c)', c = ClientSocket'
      PROVE  Quiet(c)' \/
               \E t \in Threads : /\ pc'[t] \in {"receive", "recv"}
                                  /\ pc'[t] = "recv" => sock'[t] = c
                                  /\ Carries(c, Request(t))'
  BY <1>1, <1>2, <1>4 DEF Own
<1> QED
  BY <1>3, <1>4 DEF Own

(* Where nothing moves and no thread does either, all stays as it is.      *)
LEMMA ConversationFrame ==
  ASSUME Conversation, UNCHANGED <<pc, sock, exchanges>>,
         NEW c \in Connections, Still(c), Live(c)' => Live(c),
         ClientSocket' = c => ClientSocket = c
  PROVE  OneMessage(c)' /\ Own(c)'
<1>1. Own(c)'
  BY OwnFrame DEF Conversation
<1> QED
  BY <1>1, StillStays DEF Conversation

(* Callbacks and the handshake's steps without a connection.               *)
LEMMA ConversationAside ==
  ASSUME Exclusive, Conversation, Aside
  PROVE  Conversation'
<1>1. /\ UNCHANGED <<network, exchange>>
      /\ ClientSocket' \in {ClientSocket, NoSocket}
      /\ \A c \in Connections : Live(c)' => Live(c)
  BY AsideSteps DEF Live
<1>2. UNCHANGED <<pc, sock, exchanges>>
  BY <1>1 DEF exchange
<1>3. \A c \in Connections : Still(c)
  BY <1>1 DEF Still, network
<1>4. \A c \in Connections : ClientSocket' = c => ClientSocket = c
  BY <1>1, ConnectorAssumption
<1>5. ASSUME NEW c \in Connections
      PROVE  OneMessage(c)' /\ Own(c)'
  BY <1>1, <1>2, <1>3, <1>4, ConversationFrame
<1> QED
  BY <1>5 DEF Conversation

(* An accepted connection is nobody's to exchange on.                      *)
LEMMA ConversationAccept ==
  ASSUME Exclusive, Conversation, NEW g \in Starts, HsAccept(g)
  PROVE  Conversation'
<1>1. UNCHANGED <<network, exchange, ClientSocket>>
  BY AcceptSteps
<1>2. UNCHANGED <<pc, sock, exchanges>>
  BY <1>1 DEF exchange
<1>3. \A c \in Connections : Still(c)
  BY <1>1 DEF Still, network
<1>4. ASSUME NEW c \in Connections, link[c] # "backlog"
      PROVE  OneMessage(c)' /\ Own(c)'
  <2>1. Live(c)' => Live(c)
    BY <1>4, AcceptSteps DEF Live
  <2> QED
    BY <1>1, <1>2, <1>3, <2>1, ConversationFrame
<1>5. ASSUME NEW c \in Connections, link[c] = "backlog"
      PROVE  OneMessage(c)' /\ Own(c)'
  <2>1. ClientSocket # c /\ ~\E t \in Threads : pc[t] = "recv" /\ sock[t] = c
    BY <1>5, ConnectorAssumption DEF Exclusive, Sockets, Published, Accepted
  <2>2. Own(c)'
    BY <1>1, <1>2, <2>1 DEF Own
  <2> QED
    BY <1>3, <2>2, StillStays DEF Conversation
<1> QED
  BY <1>4, <1>5 DEF Conversation

(* A step of the handshake on its own connection c leaves the others and   *)
(* the exchanges alone.                                                    *)
LEMMA ConversationHandshake ==
  ASSUME Exclusive, Conversation,
         NEW g \in Starts, hs[g] \in InHandshake,
         NEW c \in Connections, c = tmpSocket[g],
         UNCHANGED <<link, pc, sock, exchanges>>,
         \A d \in Connections : d # c => Still(d),
         OneMessage(c)',
         ClientSocket' = c /\ Live(c) => Quiet(c)',
         ClientSocket' # c => ClientSocket' = ClientSocket
  PROVE  Conversation'
<1>1. ASSUME NEW d \in Connections, d # c
      PROVE  OneMessage(d)' /\ Own(d)'
  <2>1. Still(d) /\ (ClientSocket' = d => ClientSocket = d)
    BY <1>1
  <2>2. Live(d)' => Live(d)
    BY DEF Live
  <2> QED
    BY <2>1, <2>2, ConversationFrame
<1>2. Own(c)'
  <2>1. \A t \in Threads : ~(pc'[t] = "recv" /\ sock'[t] = c)
    BY HandshakesConnection
  <2>2. Live(c)' /\ c = ClientSocket' => Quiet(c)'
    BY DEF Live
  <2> QED
    BY <2>1, <2>2 DEF Own
<1> QED
  BY <1>1, <1>2 DEF Conversation

(* A message on a live connection, or none.                                *)
LEMMA QuietIsOne ==
  ASSUME NEW c
  PROVE  Quiet(c)' => OneMessage(c)'
BY DEF OneMessage

(* The receives of the handshake.                                          *)
LEMMA ConversationHsReceive ==
  ASSUME Exclusive, AllTurns, Conversation, NEW g \in Starts, HsReceive(g)
  PROVE  Conversation'
<1>1. PICK c \in Connections : c = tmpSocket[g]
  BY HandshakesConnection DEF HsReceive, InHandshake
<1>2. /\ UNCHANGED <<link, pc, sock, exchanges, ClientSocket>>
      /\ hs[g] \in InHandshake /\ ClientSocket # c
  BY <1>1, HandshakesConnection
     DEF HsReceive, system, globals, exchange, InHandshake
<1>3. (\A d \in Connections : d # c => Still(d)) /\ (Live(c) => Quiet(c)')
  BY <1>1, HsReceiveSteps
<1>4. OneMessage(c)'
  <2>1. CASE Live(c)
    BY <1>3, <2>1, QuietIsOne
  <2>2. CASE ~Live(c)
    <3>1. ~CanReceive(c)
      BY <1>1, <1>2, <2>2 DEF CanReceive, Live, Exclusive, Sockets, Accepted
    <3>2. Still(c)
      BY <1>1, <3>1 DEF HsReceive, Still
    <3> QED
      BY <3>2, StillStays DEF Conversation
  <2> QED
    BY <2>1, <2>2
<1> QED
  BY <1>1, <1>2, <1>3, <1>4, ConversationHandshake

(* The driver's command of the handshake.                                  *)
LEMMA ConversationHsCommand ==
  ASSUME Exclusive, AllTurns, Conversation, NEW g \in Starts, HsCommand(g)
  PROVE  Conversation'
<1>1. PICK c \in Connections : c = tmpSocket[g]
  BY HandshakesConnection DEF HsCommand, InHandshake
<1>2. /\ UNCHANGED <<link, pc, sock, exchanges, ClientSocket>>
      /\ hs[g] \in InHandshake /\ ClientSocket # c
  BY <1>1, HandshakesConnection
     DEF HsCommand, system, globals, exchange, InHandshake
<1>3. \A d \in Connections : d # c => Still(d)
  BY <1>1, HsCommandSteps
<1>4. OneMessage(c)'
  <2>1. CASE link[c] = "open"
    <3>1. PICK m \in Messages : m = Plain("IFD_HELLO")
      BY PlainType
    <3>2. Carries(c, m)'
      BY <1>1, <2>1, <3>1, HsCommandSteps
         DEF Carries, Asked, Answered, Plain, Message
    <3> QED
      BY <3>2 DEF OneMessage, Messages
  <2>2. CASE link[c] # "open"
    <3>1. Still(c)
      BY <1>1, <2>2, HsCommandSteps
    <3> QED
      BY <3>1, StillStays DEF Conversation
  <2> QED
    BY <2>1, <2>2
<1> QED
  BY <1>1, <1>2, <1>3, <1>4, ConversationHandshake

(* ClientSocket = tmpSocket.                                               *)
LEMMA ConversationHsPublish ==
  ASSUME Exclusive, AllTurns, Conversation, NEW g \in Starts, HsPublish(g)
  PROVE  Conversation'
<1>1. PICK c \in Connections : c = tmpSocket[g]
  BY HandshakesConnection DEF HsPublish, InHandshake
<1>2. UNCHANGED <<link, pc, sock, exchanges>> /\ hs[g] \in InHandshake
  BY DEF HsPublish, system, exchange, InHandshake
<1>3. /\ \A d \in Connections : Still(d)
      /\ ClientSocket' = c
      /\ Live(c) => Quiet(c)'
  BY <1>1, HsPublishSteps
<1>4. OneMessage(c)'
  BY <1>3, StillStays DEF Conversation
<1> QED
  BY <1>1, <1>2, <1>3, <1>4, ConversationHandshake

(* Call, Acquire and Release touch no connection.                          *)
LEMMA ConversationMutex ==
  ASSUME Exclusive, Conversation, NEW t \in Threads,
         Call(t) \/ Acquire(t) \/ Release(t)
  PROVE  Conversation'
<1>1. /\ UNCHANGED <<network, ClientSocket, link, sock>>
      /\ pc[t] \in {"idle", "wait", "release"}
      /\ pc'[t] \in {"idle", "wait", "transmit"}
      /\ \A u \in Threads :
           u # t => pc'[u] = pc[u] /\ exchanges'[u] = exchanges[u]
  BY DEF Call, Acquire, Release, globals, system, Goto, Exclusive, Typed,
     Groups, ExchangeOK
<1>2. ASSUME NEW c \in Connections
      PROVE  OneMessage(c)' /\ Own(c)'
  <2>1. Still(c)
    BY <1>1 DEF Still, network
  <2>2. Own(c)'
    BY <1>1, <2>1, OwnFrame DEF Conversation, Live
  <2> QED
    BY <2>1, <2>2, StillStays DEF Conversation
<1> QED
  BY <1>2 DEF Conversation

(* While a thread is about to transmit, the connection in use is quiet.    *)
LEMMA QuietToTransmit ==
  ASSUME Exclusive, ~Overtaken, NEW c \in Connections, Own(c), Live(c),
         c = ClientSocket, NEW t \in Threads, pc[t] = "transmit"
  PROVE  Quiet(c)
<1>1. \A u \in Threads : pc[u] \notin {"receive", "recv"}
  BY AloneWhenLive DEF Inside
<1> QED
  BY <1>1 DEF Own

(* The reader of a live connection finds nothing but the reply to its own  *)
(* request.                                                                *)
LEMMA OwnToRead ==
  ASSUME Exclusive, Conversation, NEW t \in Threads, pc[t] = "recv",
         link[sock[t]] # "dead"
  PROVE  /\ sock[t] \in Connections /\ Live(sock[t]) /\ Published(sock[t])
         /\ Quiet(sock[t]) \/ Carries(sock[t], Request(t))
<1>1. sock[t] \in Connections /\ Published(sock[t])
  BY DEF Exclusive, Typed, Groups, ExchangeOK, Sockets
<1>2. Live(sock[t])
  BY <1>1 DEF Published, Accepted, Live
<1> QED
  BY <1>1, <1>2 DEF Conversation, Own

(* transmit sends the request on a quiet connection, or not at all.        *)
LEMMA ConversationTransmit ==
  ASSUME Exclusive, ~Overtaken, Conversation, NEW t \in Threads, Transmit(t)
  PROVE  Conversation'
<1>1. /\ UNCHANGED <<link, toDriver, ClientSocket, sock, exchanges>>
      /\ pc[t] = "transmit"
      /\ pc \in [Threads -> {"idle", "wait", "transmit", "receive", "recv",
                             "release"}]
      /\ exchanges \in [Threads -> 0 .. MaxExchanges]
      /\ NetworkOK
  BY DEF Transmit, globals, system, Exclusive, Typed, Groups, ExchangeOK
<1>2. /\ \A u \in Threads : pc'[u] = "recv" => pc[u] = "recv"
      /\ \A u \in Threads : pc[u] \in {"receive", "recv"} => pc'[u] = pc[u]
  BY <1>1 DEF Transmit, Goto
<1>3. ASSUME NEW d \in Connections, Still(d)
      PROVE  OneMessage(d)' /\ Own(d)'
  <2>1. Own(d)'
    BY <1>1, <1>2, <1>3, OwnFrame DEF Conversation, Live
  <2> QED
    BY <1>3, <2>1, StillStays DEF Conversation
<1>4. CASE Sent(ClientSocket, Request(t)) /\ Goto(t, "receive")
           /\ ClientSocket \in CanSend
  <2>1. PICK c \in Connections : c = ClientSocket /\ Live(c)
    BY <1>4 DEF CanSend
  <2>2. Quiet(c)
    BY <1>1, <2>1, QuietToTransmit DEF Conversation
  <2>3. PICK m \in Messages : m = Request(t) /\ m = Request(t)'
    BY <1>1, RequestType DEF Exclusive, Typed, Groups, Request
  <2>4. /\ link[c] = "open" => Asked(c, m)'
        /\ link[c] # "open" => Quiet(c)'
    BY <1>1, <1>4, <2>1, <2>2, <2>3, AskOnQuiet
  <2>5. \A u \in Threads : pc[u] \in Inside => u = t
    BY <1>1, <2>1, AloneWhenLive DEF Inside
  <2>6. \A d \in Connections : d # c => Still(d)
    BY <1>1, <1>4, <2>1, SentSteps DEF Still
  <2>7. OneMessage(c)'
    BY <2>1, <2>4 DEF OneMessage, Carries, Messages
  <2>8. Own(c)'
    <3>1. pc'[t] = "receive" /\ \A u \in Threads : pc'[u] # "recv"
      BY <1>1, <1>4, <2>5 DEF Goto, Inside
    <3>2. Quiet(c)' \/ Carries(c, Request(t))'
      BY <2>3, <2>4 DEF Carries, Asked
    <3> QED
      BY <3>1, <3>2 DEF Own
  <2> QED
    BY <1>3, <2>6, <2>7, <2>8 DEF Conversation
<1>5. CASE UNCHANGED toSimulator
  BY <1>1, <1>3, <1>5 DEF Conversation, Still
<1> QED
  BY <1>4, <1>5 DEF Transmit

(* receive looks at ClientSocket again: whose request is under way there   *)
(* becomes its reader.                                                     *)
LEMMA ConversationReceive ==
  ASSUME Exclusive, ~Overtaken, Conversation, NEW t \in Threads, Receive(t)
  PROVE  Conversation'
<1>1. /\ UNCHANGED <<link, network, ClientSocket, exchanges>>
      /\ pc[t] = "receive"
      /\ pc \in [Threads -> {"idle", "wait", "transmit", "receive", "recv",
                             "release"}]
      /\ sock \in [Threads -> Connections \cup {NoSocket}]
      /\ \A u \in Threads : u # t => pc'[u] = pc[u] /\ sock'[u] = sock[u]
      /\ \/ pc'[t] = "recv" /\ sock'[t] = ClientSocket
         \/ pc'[t] = "release" /\ ClientSocket = NoSocket
  BY DEF Receive, Goto, globals, system, Exclusive, Typed, Groups, ExchangeOK
<1>2. ASSUME NEW c \in Connections
      PROVE  OneMessage(c)' /\ Own(c)'
  <2>1. Still(c)
    BY <1>1 DEF Still, network
  <2>2. \A u \in Threads : Carries(c, Request(u))' <=> Carries(c, Request(u))
    BY <1>1 DEF network, Carries, Asked, Answered, Request, Message
  <2>3. Quiet(c)' <=> Quiet(c)
    BY <2>1, StillStays
  <2>4. Live(c)' <=> Live(c)
    BY <1>1 DEF Live
  <2>5. ASSUME Live(c), NEW u \in Threads, pc'[u] = "recv", sock'[u] = c
        PROVE  Quiet(c)' \/ Carries(c, Request(u))'
    <3>1. CASE u # t
      BY <1>1, <2>2, <2>3, <2>5, <3>1 DEF Conversation, Own
    <3>2. CASE u = t
      <4>1. c = ClientSocket
        BY <1>1, <2>5, <3>2
      <4>2. \A v \in Threads : pc[v] \in {"receive", "recv"} => v = t
        BY <1>1, <2>5, AloneWhenLive DEF Inside
      <4> QED
        BY <2>2, <2>3, <2>5, <3>2, <4>1, <4>2 DEF Conversation, Own
    <3> QED
      BY <3>1, <3>2
  <2>6. ASSUME Live(c), c = ClientSocket'
        PROVE  Quiet(c)' \/
                 \E u \in Threads : /\ pc'[u] \in {"receive", "recv"}
                                    /\ pc'[u] = "recv" => sock'[u] = c
                                    /\ Carries(c, Request(u))'
    <3>1. c = ClientSocket /\ pc'[t] = "recv" /\ sock'[t] = c
      BY <1>1, <2>6, ConnectorAssumption
    <3>2. \A u \in Threads : pc[u] \in {"receive", "recv"} => u = t
      BY <1>1, <2>6, AloneWhenLive DEF Inside
    <3> QED
      BY <2>2, <2>3, <2>6, <3>1, <3>2 DEF Conversation, Own
  <2>7. Own(c)'
    BY <2>4, <2>5, <2>6 DEF Own
  <2> QED
    BY <2>1, <2>7, StillStays DEF Conversation
<1> QED
  BY <1>2 DEF Conversation

(* recv takes the reply, the only message there was.                       *)
LEMMA ConversationRecv ==
  ASSUME Exclusive, AllTurns, Conversation, NEW t \in Threads, Recv(t)
  PROVE  Conversation'
<1>1. /\ UNCHANGED <<link, toSimulator, ClientSocket, exchanges>>
      /\ pc[t] = "recv" /\ pc'[t] = "release"
      /\ NetworkOK
      /\ \A u \in Threads : u # t => pc'[u] = pc[u] /\ sock'[u] = sock[u]
  BY DEF Recv, Goto, globals, system, Exclusive, Typed, Groups, ExchangeOK
<1>2. PICK c \in Connections : c = sock[t]
  BY <1>1 DEF Exclusive, Typed, Groups, ExchangeOK
<1>3. \A d \in Connections : d # c => Still(d)
  BY <1>1, <1>2, ReceivedSteps DEF Recv, Still
<1>4. Accepted(c)
  BY <1>1, <1>2 DEF Exclusive, Sockets, Published
<1>5. Live(c) => Quiet(c) \/ Carries(c, Request(t))
  BY <1>1, <1>2 DEF Conversation, Own
<1>6. Live(c) => Quiet(c)'
  <2>1. CASE CanReceive(c) /\ Received(c)
    BY <1>1, <1>5, <2>1, TakeAnswer DEF CanReceive, Quiet
  <2>2. CASE ReceiveFails(c) /\ UNCHANGED toDriver
    BY <1>1, <2>2 DEF ReceiveFails, Live, AllTurns, Turns, Quiet
  <2> QED
    BY <1>2, <2>1, <2>2 DEF Recv
<1>7. ASSUME NEW d \in Connections, d # c
      PROVE  OneMessage(d)' /\ Own(d)'
  <2>1. Still(d)
    BY <1>3, <1>7
  <2>2. Live(d)' <=> Live(d)
    BY <1>1 DEF Live
  <2>3. Quiet(d)' <=> Quiet(d)
    BY <2>1, StillStays
  <2>4. \A u \in Threads : Carries(d, Request(u))' <=> Carries(d, Request(u))
    BY <1>1, <2>1 DEF Still, Carries, Asked, Answered, Request, Message
  <2>5. Own(d)'
    BY <1>1, <1>2, <1>7, <2>2, <2>3, <2>4 DEF Conversation, Own
  <2> QED
    BY <2>1, <2>5, StillStays DEF Conversation
<1>8. OneMessage(c)'
  <2>1. CASE CanReceive(c) /\ Received(c)
    BY <1>4, <1>6, <2>1 DEF CanReceive, OneMessage, Live, Accepted
  <2>2. CASE UNCHANGED toDriver
    BY <1>1, <2>2 DEF Conversation, OneMessage, Quiet, Carries, Asked, Answered,
       Messages
  <2> QED
    BY <1>2, <2>1, <2>2 DEF Recv
<1>9. Own(c)'
  BY <1>1, <1>6 DEF Own, Live
<1> QED
  BY <1>7, <1>8, <1>9 DEF Conversation

(* A new connection is nobody's.                                           *)
LEMMA ConversationConnect ==
  ASSUME Exclusive, Conversation, NEW d \in Connections, Connect(d)
  PROVE  Conversation'
<1>1. /\ UNCHANGED <<network, exchange, ClientSocket>>
      /\ link \in [Connections -> LinkStates]
      /\ link[d] = "unused" /\ link' = [link EXCEPT ![d] = "backlog"]
  BY DEF Connect, globals, Exclusive, Typed, Groups, SystemOK
<1>2. UNCHANGED <<pc, sock, exchanges>>
  BY <1>1 DEF exchange
<1>3. ASSUME NEW c \in Connections
      PROVE  OneMessage(c)' /\ Own(c)'
  <2>1. Still(c)
    BY <1>1 DEF Still, network
  <2>2. Live(c)' => Live(c)
    BY <1>1 DEF Live
  <2> QED
    BY <1>1, <1>2, <2>1, <2>2, ConversationFrame
<1> QED
  BY <1>3 DEF Conversation

(* The simulator says hello on a connection that is fresh.                 *)
LEMMA ConversationGreet ==
  ASSUME Exclusive, AllTurns, Conversation, NEW d \in Connections, Greet(d)
  PROVE  Conversation'
<1>1. /\ UNCHANGED <<link, exchange, ClientSocket>> /\ NetworkOK
      /\ \A c \in Connections : c # d => Still(c)
      /\ Accepted(d) \/ link[d] = "backlog"
  BY DEF Greet, globals, system, NetworkOK, Exclusive, Typed, Groups, Still,
     Accepted
<1>2. UNCHANGED <<pc, sock, exchanges>>
  BY <1>1 DEF exchange
<1>3. ASSUME NEW c \in Connections, c # d
      PROVE  OneMessage(c)' /\ Own(c)'
  <2>1. Still(c) /\ (Live(c)' => Live(c))
    BY <1>1, <1>3 DEF Live
  <2> QED
    BY <1>1, <1>2, <2>1, ConversationFrame
<1>4. PICK m \in Messages : m = Plain("ICC_HELLO")
  BY PlainType
<1>5. Answered(d, m)'
  BY <1>1, <1>4, GreetFinds, GreetSteps DEF Answered, Plain, Message
<1>6. OneMessage(d)'
  BY <1>5 DEF OneMessage, Carries, Messages
<1>7. Own(d)'
  <2>1. ClientSocket # d /\ \A t \in Threads : ~(pc[t] = "recv" /\ sock[t] = d)
    BY GreetFinds, ConnectorAssumption DEF Exclusive, Sockets
  <2> QED
    BY <1>1, <1>2, <2>1 DEF Own
<1> QED
  BY <1>3, <1>6, <1>7 DEF Conversation

(* The simulator turns what it is asked into what it answers, or hangs up. *)
LEMMA ConversationAnswer ==
  ASSUME Exclusive, Conversation, NEW d \in Connections, Answer(d)
  PROVE  Conversation'
<1>1. /\ UNCHANGED <<link, exchange, ClientSocket>>
      /\ ~Quiet(d)
      /\ NetworkOK
      /\ \A c \in Connections : c # d => Still(c)
  BY DEF Answer, globals, system, NetworkOK, Exclusive, Typed, Groups, Still,
     Quiet
<1>2. UNCHANGED <<pc, sock, exchanges>>
  BY <1>1 DEF exchange
<1>3. ASSUME NEW c \in Connections, c # d
      PROVE  OneMessage(c)' /\ Own(c)'
  <2>1. Still(c) /\ (Live(c)' => Live(c))
    BY <1>1, <1>3 DEF Live
  <2> QED
    BY <1>1, <1>2, <2>1, ConversationFrame
<1>4. PICK m \in Messages : Carries(d, m)
  BY <1>1 DEF Conversation, OneMessage
<1>5. Asked(d, m) /\ Answered(d, m)'
  BY <1>1, <1>4, AnswerSteps
<1>6. OneMessage(d)'
  BY <1>5 DEF OneMessage, Carries, Messages
<1>7. Own(d)'
  <2>1. \A n : Carries(d, n) => n = m
    BY <1>5, Single DEF Carries, Asked, Answered
  <2>2. \A t \in Threads : Carries(d, Request(t)) => Carries(d, Request(t))'
    BY <1>2, <1>5, <2>1 DEF Carries, Asked, Answered, Request, Message
  <2> QED
    BY <1>1, <1>2, <2>2 DEF Conversation, Own, Live
<1> QED
  BY <1>3, <1>6, <1>7 DEF Conversation

(* Hanging up leaves the reader its reply, or nothing.                     *)
LEMMA ConversationClose ==
  ASSUME Exclusive, Conversation, NEW d \in Connections, Close(d) \/ Cut(d)
  PROVE  Conversation'
<1>1. /\ UNCHANGED <<exchange, ClientSocket>>
      /\ NetworkOK /\ SystemOK
      /\ \A c \in Connections : c # d => Still(c) /\ link'[c] = link[c]
  BY DEF Close, Cut, globals, NetworkOK, SystemOK, Exclusive, Typed, Groups,
     Still
<1>2. UNCHANGED <<pc, sock, exchanges>>
  BY <1>1 DEF exchange
<1>3. ASSUME NEW c \in Connections, c # d
      PROVE  OneMessage(c)' /\ Own(c)'
  <2>1. Still(c) /\ (Live(c)' => Live(c))
    BY <1>1, <1>3 DEF Live
  <2> QED
    BY <1>1, <1>2, <2>1, ConversationFrame
<1>4. /\ link[d] = "open" /\ link'[d] \in {"closed", "cut"}
      /\ Quiet(d) => Quiet(d)'
      /\ \A m : Carries(d, m) => Quiet(d)' \/ Answered(d, m)'
  BY <1>1, CloseSteps
<1>5. OneMessage(d)'
  <2>1. CASE Quiet(d)
    BY <1>4, <2>1 DEF OneMessage
  <2>2. ASSUME NEW m \in Messages, Carries(d, m)
        PROVE  OneMessage(d)'
    BY <1>4, <2>2 DEF OneMessage, Carries, Messages
  <2> QED
    BY <2>1, <2>2 DEF Conversation, OneMessage
<1>6. Own(d)'
  <2>1. \A t \in Threads : Carries(d, Request(t)) =>
          Quiet(d)' \/ Carries(d, Request(t))'
    BY <1>2, <1>4 DEF Carries, Asked, Answered, Request, Message, Quiet
  <2> QED
    BY <1>1, <1>2, <1>4, <2>1 DEF Conversation, Own, Live
<1> QED
  BY <1>3, <1>5, <1>6 DEF Conversation

(* Every step keeps each connection to its reader.                         *)
LEMMA NextConversation ==
  ASSUME Exclusive, ~Overtaken, AllTurns, Conversation, [Next]_vars
  PROVE  Conversation'
<1>1. CASE UNCHANGED vars
  <2>1. UNCHANGED <<pc, sock, exchanges, ClientSocket, link, network>>
    BY <1>1 DEF vars, exchange, globals, system
  <2>2. \A c \in Connections : Still(c) /\ (Live(c)' => Live(c))
    BY <2>1 DEF Still, network, Live
  <2> QED
    BY <2>1, <2>2, ConversationFrame DEF Conversation
<1> QED
  BY <1>1, ConversationAside, ConversationAccept, ConversationHsReceive,
     ConversationHsCommand, ConversationHsPublish, ConversationMutex,
     ConversationTransmit, ConversationReceive, ConversationRecv,
     ConversationConnect, ConversationGreet, ConversationAnswer,
     ConversationClose
     DEF Next, Handshake, Exchange, Simulator, Aside

(* Initially nothing is under way.                                         *)
LEMMA InitConversation == Init => Conversation
BY DEF Init, Conversation, OneMessage, Own, Quiet, Live

(* An outcome is set by the exchange's own steps, and a reply is the one   *)
(* that its thread's socket carries.                                       *)
LEMMA NextReplyIsOwn ==
  ASSUME Exclusive, ~Overtaken, Conversation, ReplyIsOwn, [Next]_vars
  PROVE  ReplyIsOwn'
<1>1. /\ outcome \in [Threads -> Messages]
      /\ exchanges \in [Threads -> 0 .. MaxExchanges]
  BY DEF Exclusive, Typed, Groups, ExchangeOK
<1>2. ASSUME UNCHANGED <<outcome, exchanges>>
      PROVE  ReplyIsOwn'
  BY <1>2 DEF ReplyIsOwn, Request, Message
<1>3. ASSUME NEW t \in Threads, NEW result, Returns(t, result),
             result.kind \in {"none", "error"} \/ result = Request(t)',
             \A u \in Threads : u # t => exchanges'[u] = exchanges[u]
      PROVE  ReplyIsOwn'
  <2>1. outcome'[t] = result
    BY <1>1, <1>3 DEF Returns
  <2>2. \A u \in Threads : u # t => outcome'[u] = outcome[u]
    BY <1>1, <1>3 DEF Returns
  <2> QED
    BY <1>3, <2>1, <2>2 DEF ReplyIsOwn, Request, Message
<1>4. Plain("error").kind = "error" /\ Plain("none").kind = "none"
  BY DEF Plain, Message
<1>5. CASE StartMutex \/ StopAccepting \/ PnpStep
  BY <1>2, <1>5
     DEF StartMutex, StopAccepting, PnpStep, StartWinsock, StartListen,
         StartListenFails, StartThread, StopMutex, StopListening, StopWinsock,
         exchange
<1>6. ASSUME NEW g \in Starts, Handshake(g)
      PROVE  ReplyIsOwn'
  BY <1>2, <1>6
     DEF Handshake, HsTest, HsListen, HsAccept, HsClose, HsCleanup, HsReceive,
         HsCommand, HsPublish, exchange
<1>7. ASSUME NEW t \in Threads, Call(t)
      PROVE  ReplyIsOwn'
  <2>1. \A u \in Threads : u # t => exchanges'[u] = exchanges[u]
    BY <1>1, <1>7 DEF Call
  <2> QED
    BY <1>3, <1>4, <1>7, <2>1 DEF Call
<1>8. ASSUME NEW t \in Threads, Acquire(t) \/ Release(t)
      PROVE  ReplyIsOwn'
  BY <1>2, <1>8 DEF Acquire, Release
<1>9. ASSUME NEW t \in Threads, Transmit(t) \/ Receive(t)
      PROVE  ReplyIsOwn'
  <2>1. UNCHANGED exchanges
    BY <1>9 DEF Transmit, Receive
  <2>2. UNCHANGED outcome \/ Returns(t, Plain("error"))
    BY <1>9 DEF Transmit, Receive
  <2> QED
    BY <1>2, <1>3, <1>4, <2>1, <2>2
<1>10. ASSUME NEW t \in Threads, Recv(t)
       PROVE  ReplyIsOwn'
  <2>1. UNCHANGED exchanges /\ Request(t)' = Request(t)
    BY <1>10 DEF Recv, Request, Message
  <2>2. CASE CanReceive(sock[t]) /\ Returns(t, Head(toDriver[sock[t]]))
    <3>1. /\ pc[t] = "recv" /\ link[sock[t]] # "dead"
          /\ toDriver[sock[t]] # <<>>
      BY <1>10, <2>2 DEF Recv, CanReceive
    <3>2. toDriver[sock[t]] = <<Request(t)>>
      BY <3>1, OwnToRead DEF Quiet, Carries, Asked, Answered
    <3>3. Head(toDriver[sock[t]]) = Request(t)
      BY <3>2, Single
    <3> QED
      BY <1>3, <2>1, <2>2, <3>3
  <2>3. CASE Returns(t, Plain("error"))
    BY <1>3, <1>4, <2>1, <2>3
  <2> QED
    BY <1>10, <2>2, <2>3 DEF Recv
<1>11. ASSUME NEW c \in Connections, Connect(c) \/ Simulator(c) \/ Close(c) \/ Cut(c)
       PROVE  ReplyIsOwn'
  BY <1>2, <1>11 DEF Connect, Simulator, Greet, Answer, Close, Cut, exchange
<1>12. CASE UNCHANGED vars
  BY <1>2, <1>12 DEF vars, exchange
<1> QED
  BY <1>5, <1>6, <1>7, <1>8, <1>9, <1>10, <1>11, <1>12 DEF Next, Exchange

(* Initially nothing has been returned.                                    *)
LEMMA InitReplyIsOwn == Init => ReplyIsOwn
BY DEF Init, ReplyIsOwn, Plain, Message

-----------------------------------------------------------------------------
(* Requests and replies, as ExchangeContract sees them.                    *)

(* A request under way was sent by its thread's latest exchange or an      *)
(* earlier one, and is to be found on one connection, once.                *)
Once ==
  \A c \in Connections, m \in Messages :
    Carries(c, m) /\ m.kind = "request" =>
      /\ m.thread \in Threads
      /\ m.number <= exchanges[m.thread]
      /\ m.number = exchanges[m.thread] => pc[m.thread] \notin {"wait", "transmit"}
      /\ \A d \in Connections : Carries(d, m) => d = c

(* The exchanges that Contract has as asked and served.                    *)
LEMMA UnderWayRequests ==
  ASSUME NEW f,
         \A c \in Connections : f[c] = <<>> \/ \E m \in Messages : f[c] = <<m>>
  PROVE  \A e : e \in UnderWay(f) <=>
           \E c \in Connections, m \in Messages :
             f[c] = <<m>> /\ m.kind = "request" /\ e = <<m.thread, m.number>>
<1>1. ASSUME NEW m
      PROVE  ToSet(<<m>>) = {m}
  BY DEF ToSet
<1>2. ToSet(<<>>) = {}
  BY DEF ToSet
<1>3. ASSUME NEW m
      PROVE  m \in UNION {ToSet(f[c]) : c \in Connections} <=>
               \E c \in Connections : f[c] = <<m>>
  <2>1. ASSUME NEW c \in Connections, m \in ToSet(f[c])
        PROVE  f[c] = <<m>>
    BY <1>1, <1>2, <2>1
  <2>2. ASSUME NEW c \in Connections, f[c] = <<m>>
        PROVE  m \in ToSet(f[c])
    BY <1>1, <2>2
  <2> QED
    BY <2>1, <2>2
<1>4. ASSUME NEW m, NEW c \in Connections, f[c] = <<m>>
      PROVE  m \in Messages
  <2>1. PICK n \in Messages : f[c] = <<n>>
    BY <1>4
  <2> QED
    BY <1>4, <2>1, Single
<1> QED
  BY <1>3, <1>4 DEF UnderWay

(* Asked are the requests on their way to the simulator, before and after  *)
(* a step.                                                                 *)
LEMMA AskedRequests ==
  ASSUME \A c \in Connections : OneMessage(c) /\ OneMessage(c)'
  PROVE  /\ \A e : e \in UnderWay(toSimulator) <=>
              \E c \in Connections, m \in Messages :
                Asked(c, m) /\ m.kind = "request" /\ e = <<m.thread, m.number>>
         /\ \A e : e \in UnderWay(toSimulator)' <=>
              \E c \in Connections, m \in Messages :
                Asked(c, m)' /\ m.kind = "request" /\ e = <<m.thread, m.number>>
<1>1. \A e : e \in UnderWay(toSimulator) <=>
        \E c \in Connections, m \in Messages :
          Asked(c, m) /\ m.kind = "request" /\ e = <<m.thread, m.number>>
  <2>1. PICK f : f = toSimulator
    OBVIOUS
  <2>2. \A c \in Connections : f[c] = <<>> \/ \E m \in Messages : f[c] = <<m>>
    BY <2>1 DEF OneMessage, Quiet, Carries, Asked, Answered
  <2>3. \A e : e \in UnderWay(f) <=>
          \E c \in Connections, m \in Messages :
            f[c] = <<m>> /\ m.kind = "request" /\ e = <<m.thread, m.number>>
    BY <2>2, UnderWayRequests
  <2>4. \A c \in Connections, m \in Messages : f[c] = <<m>> <=> Asked(c, m)
    BY <2>1, Single DEF OneMessage, Quiet, Carries, Asked, Answered
  <2> QED
    BY <2>1, <2>3, <2>4
<1>2. \A e : e \in UnderWay(toSimulator)' <=>
        \E c \in Connections, m \in Messages :
          Asked(c, m)' /\ m.kind = "request" /\ e = <<m.thread, m.number>>
  <2>1. PICK f : f = toSimulator'
    OBVIOUS
  <2>2. \A c \in Connections : f[c] = <<>> \/ \E m \in Messages : f[c] = <<m>>
    BY <2>1 DEF OneMessage, Quiet, Carries, Asked, Answered, Messages
  <2>3. \A e : e \in UnderWay(f) <=>
          \E c \in Connections, m \in Messages :
            f[c] = <<m>> /\ m.kind = "request" /\ e = <<m.thread, m.number>>
    BY <2>2, UnderWayRequests
  <2>4. \A c \in Connections, m \in Messages : f[c] = <<m>> <=> Asked(c, m)'
    BY <2>1, Single DEF OneMessage, Quiet, Carries, Asked, Answered, Messages
  <2>5. UnderWay(toSimulator)' = UnderWay(f)
    BY <2>1 DEF UnderWay
  <2> QED
    BY <2>3, <2>4, <2>5
<1> QED
  BY <1>1, <1>2

(* Served are those on their way back, before and after a step.            *)
LEMMA ServedRequests ==
  ASSUME \A c \in Connections : OneMessage(c) /\ OneMessage(c)'
  PROVE  /\ \A e : e \in UnderWay(toDriver) <=>
              \E c \in Connections, m \in Messages :
                Answered(c, m) /\ m.kind = "request" /\ e = <<m.thread, m.number>>
         /\ \A e : e \in UnderWay(toDriver)' <=>
              \E c \in Connections, m \in Messages :
                Answered(c, m)' /\ m.kind = "request" /\ e = <<m.thread, m.number>>
<1>1. \A e : e \in UnderWay(toDriver) <=>
        \E c \in Connections, m \in Messages :
          Answered(c, m) /\ m.kind = "request" /\ e = <<m.thread, m.number>>
  <2>1. PICK f : f = toDriver
    OBVIOUS
  <2>2. \A c \in Connections : f[c] = <<>> \/ \E m \in Messages : f[c] = <<m>>
    BY <2>1 DEF OneMessage, Quiet, Carries, Asked, Answered
  <2>3. \A e : e \in UnderWay(f) <=>
          \E c \in Connections, m \in Messages :
            f[c] = <<m>> /\ m.kind = "request" /\ e = <<m.thread, m.number>>
    BY <2>2, UnderWayRequests
  <2>4. \A c \in Connections, m \in Messages : f[c] = <<m>> <=> Answered(c, m)
    BY <2>1, Single DEF OneMessage, Quiet, Carries, Asked, Answered
  <2> QED
    BY <2>1, <2>3, <2>4
<1>2. \A e : e \in UnderWay(toDriver)' <=>
        \E c \in Connections, m \in Messages :
          Answered(c, m)' /\ m.kind = "request" /\ e = <<m.thread, m.number>>
  <2>1. PICK f : f = toDriver'
    OBVIOUS
  <2>2. \A c \in Connections : f[c] = <<>> \/ \E m \in Messages : f[c] = <<m>>
    BY <2>1 DEF OneMessage, Quiet, Carries, Asked, Answered, Messages
  <2>3. \A e : e \in UnderWay(f) <=>
          \E c \in Connections, m \in Messages :
            f[c] = <<m>> /\ m.kind = "request" /\ e = <<m.thread, m.number>>
    BY <2>2, UnderWayRequests
  <2>4. \A c \in Connections, m \in Messages : f[c] = <<m>> <=> Answered(c, m)'
    BY <2>1, Single DEF OneMessage, Quiet, Carries, Asked, Answered, Messages
  <2>5. UnderWay(toDriver)' = UnderWay(f)
    BY <2>1 DEF UnderWay
  <2> QED
    BY <2>3, <2>4, <2>5
<1> QED
  BY <1>1, <1>2

(* Steps that move no request.                                             *)
SameRequests ==
  \A c \in Connections, m \in Messages : m.kind = "request" =>
    /\ Asked(c, m)' <=> Asked(c, m)
    /\ Answered(c, m)' <=> Answered(c, m)

(* Where nothing moves no request moves.                                   *)
LEMMA StillRequests ==
  ASSUME \A c \in Connections : Still(c)
  PROVE  SameRequests
BY StillStays DEF SameRequests

(* Hellos are no requests.                                                 *)
LEMMA HelloIsNoRequest ==
  ASSUME NEW c, NEW k \in {"IFD_HELLO", "ICC_HELLO"}, NEW m, m.kind = "request"
  PROVE  ~Carries(c, Plain(k)) \/ ~Carries(c, m)
<1>1. m # Plain(k)
  BY DEF Plain, Message
<1> QED
  BY <1>1, Single DEF Carries, Asked, Answered

(* The receives of a handshake take no request.                            *)
LEMMA HsReceiveRequests ==
  ASSUME Exclusive, AllTurns, NEW g \in Starts, HsReceive(g)
  PROVE  SameRequests
<1>1. PICK c \in Connections : c = tmpSocket[g]
  BY HandshakesConnection DEF HsReceive, InHandshake
<1>2. CASE UNCHANGED toDriver
  BY <1>2, StillRequests DEF HsReceive, Still
<1>3. CASE CanReceive(c) /\ Received(c)
  <2>1. NetworkOK /\ UNCHANGED toSimulator
    BY DEF HsReceive, Exclusive, Typed, Groups
  <2>2. \A d \in Connections : d # c => Still(d)
    BY <1>3, <2>1, ReceivedSteps DEF Still
  <2>3. Live(c)
    BY <1>1, <1>3
       DEF HsReceive, InHandshake, CanReceive, Exclusive, Sockets, Accepted, Live
  <2>4. PICK k \in {"IFD_HELLO", "ICC_HELLO"} : Carries(c, Plain(k))
    BY <1>1, <1>3, <2>3
       DEF HsReceive, AllTurns, Turns, Fresh, CanReceive, Quiet, Carries
  <2>5. Quiet(c)'
    BY <1>3, <2>1, <2>4, TakeAnswer
  <2>6. ASSUME NEW m \in Messages, m.kind = "request"
        PROVE  ~Carries(c, m) /\ ~Carries(c, m)'
    BY <2>4, <2>5, <2>6, HelloIsNoRequest, Single
       DEF Quiet, Carries, Asked, Answered
  <2> QED
    BY <2>2, <2>6, StillStays DEF SameRequests, Carries
<1> QED
  BY <1>1, <1>2, <1>3 DEF HsReceive

(* The command of a handshake is no request.                               *)
LEMMA HsCommandRequests ==
  ASSUME Exclusive, AllTurns, NEW g \in Starts, HsCommand(g)
  PROVE  SameRequests
<1>1. PICK c \in Connections : c = tmpSocket[g]
  BY HandshakesConnection DEF HsCommand, InHandshake
<1>2. NetworkOK /\ UNCHANGED toDriver /\ Sent(c, Plain("IFD_HELLO"))
  BY <1>1 DEF HsCommand, Exclusive, Typed, Groups
<1>3. \A d \in Connections : d # c => Still(d)
  BY <1>2, SentSteps DEF Still
<1>4. CASE link[c] # "open"
  BY <1>2, <1>3, <1>4, SentSteps, StillRequests DEF Still
<1>5. CASE link[c] = "open"
  <2>1. Quiet(c)
    BY <1>1, <1>5 DEF HsCommand, AllTurns, Turns, Live
  <2>2. PICK h : h = Plain("IFD_HELLO")
    OBVIOUS
  <2>3. Asked(c, h)'
    BY <1>2, <1>5, <2>1, <2>2, AskOnQuiet
  <2>4. ASSUME NEW m \in Messages, m.kind = "request"
        PROVE  ~Carries(c, m) /\ ~Carries(c, m)'
    <3>1. m # h
      BY <2>2, <2>4 DEF Plain, Message
    <3> QED
      BY <2>1, <2>3, <3>1, Single DEF Quiet, Carries, Asked, Answered
  <2> QED
    BY <1>3, <2>4, StillStays DEF SameRequests, Carries
<1> QED
  BY <1>4, <1>5

(* The simulator's hello is no request.                                    *)
LEMMA GreetRequests ==
  ASSUME Exclusive, AllTurns, NEW c \in Connections, Greet(c)
  PROVE  SameRequests
<1>1. /\ NetworkOK
      /\ \A d \in Connections : d # c => Still(d)
  BY DEF Greet, Exclusive, Typed, Groups, NetworkOK, Still
<1>2. Quiet(c)
  BY GreetFinds
<1>3. PICK h : h = Plain("ICC_HELLO")
  OBVIOUS
<1>4. Answered(c, h)'
  BY <1>1, <1>2, <1>3, GreetSteps DEF Plain, Message
<1>5. ASSUME NEW m \in Messages, m.kind = "request"
      PROVE  ~Carries(c, m) /\ ~Carries(c, m)'
  <2>1. m # h
    BY <1>3, <1>5 DEF Plain, Message
  <2> QED
    BY <1>2, <1>4, <2>1, Single DEF Quiet, Carries, Asked, Answered
<1> QED
  BY <1>1, <1>5, StillStays DEF SameRequests, Carries

(* What the others do to requests.                                         *)
LEMMA TransmitRequests ==
  ASSUME Exclusive, ~Overtaken, Conversation, NEW t \in Threads, Transmit(t)
  PROVE  \/ SameRequests
         \/ /\ ClientSocket \in CanSend /\ Goto(t, "receive") /\ UNCHANGED outcome
            /\ \A d \in Connections, m \in Messages :
                 /\ Asked(d, m)' <=>
                      Asked(d, m) \/ (d = ClientSocket /\ m = Request(t))
                 /\ Answered(d, m)' <=> Answered(d, m)
<1>1. NetworkOK /\ UNCHANGED toDriver
  BY DEF Transmit, Exclusive, Typed, Groups
<1>2. CASE UNCHANGED toSimulator
  BY <1>1, <1>2, StillRequests DEF Still
<1>3. CASE /\ ClientSocket \in CanSend /\ Sent(ClientSocket, Request(t))
           /\ Goto(t, "receive") /\ UNCHANGED outcome
  <2>1. PICK c \in Connections : c = ClientSocket /\ Live(c)
    BY <1>3 DEF CanSend, Live
  <2>2. \A d \in Connections : d # c => Still(d)
    BY <1>1, <1>3, <2>1, SentSteps DEF Still
  <2>3. CASE link[c] # "open"
    BY <1>1, <1>3, <2>1, <2>2, <2>3, SentSteps, StillRequests DEF Still
  <2>4. CASE link[c] = "open"
    <3>1. Quiet(c)
      BY <2>1, QuietToTransmit DEF Transmit, Conversation
    <3>2. PICK n : n = Request(t)
      OBVIOUS
    <3>3. Asked(c, n)'
      BY <1>1, <1>3, <2>1, <2>4, <3>1, <3>2, AskOnQuiet
    <3>4. \A m \in Messages : /\ Asked(c, m)' <=> m = n
                              /\ ~Asked(c, m)
                              /\ ~Answered(c, m)' /\ ~Answered(c, m)
      BY <3>1, <3>3, Single DEF Quiet, Asked, Answered
    <3> QED
      BY <1>3, <2>1, <2>2, <3>2, <3>4, StillStays
  <2> QED
    BY <2>3, <2>4
<1> QED
  BY <1>2, <1>3 DEF Transmit

(* recv takes its thread's reply, or returns an error.                     *)
LEMMA RecvRequests ==
  ASSUME Exclusive, Conversation, NEW t \in Threads, Recv(t)
  PROVE  \/ SameRequests /\ Returns(t, Plain("error"))
         \/ \E c \in Connections :
              /\ Returns(t, Request(t)) /\ Answered(c, Request(t))
              /\ \A d \in Connections, m \in Messages :
                   /\ Asked(d, m)' <=> Asked(d, m)
                   /\ Answered(d, m)' <=> Answered(d, m) /\ d # c
<1>1. NetworkOK /\ UNCHANGED toSimulator
  BY DEF Recv, Exclusive, Typed, Groups
<1>2. CASE UNCHANGED toDriver /\ Returns(t, Plain("error"))
  BY <1>1, <1>2, StillRequests DEF Still
<1>3. CASE /\ CanReceive(sock[t]) /\ Received(sock[t])
           /\ Returns(t, Head(toDriver[sock[t]]))
  <2>1. PICK c \in Connections : c = sock[t]
    BY OwnToRead, <1>3 DEF Recv, CanReceive
  <2>2. Answered(c, Request(t))
    BY OwnToRead, <1>3, <2>1
       DEF Recv, CanReceive, Quiet, Carries, Asked, Answered
  <2>3. Head(toDriver[c]) = Request(t) /\ Quiet(c)'
    BY <1>1, <1>3, <2>1, <2>2, TakeAnswer DEF Carries
  <2>4. \A d \in Connections : d # c => Still(d)
    BY <1>1, <1>3, <2>1, ReceivedSteps DEF Still
  <2>5. \A m \in Messages : ~Asked(c, m)' /\ ~Asked(c, m) /\ ~Answered(c, m)'
    BY <2>2, <2>3, Single DEF Quiet, Asked, Answered
  <2>6. Returns(t, Request(t))
    BY <1>3, <2>1, <2>3
  <2> QED
    BY <2>2, <2>4, <2>5, <2>6, StillStays
<1> QED
  BY <1>2, <1>3 DEF Recv

(* An answer turns one message round.                                      *)
LEMMA AnswerRequests ==
  ASSUME Exclusive, Conversation, NEW c \in Connections, Answer(c)
  PROVE  \E n \in Messages :
           /\ Asked(c, n)
           /\ \A d \in Connections, m \in Messages :
                /\ Asked(d, m)' <=> Asked(d, m) /\ d # c
                /\ Answered(d, m)' <=> Answered(d, m) \/ (d = c /\ m = n)
<1>1. /\ NetworkOK /\ ~Quiet(c)
      /\ \A d \in Connections : d # c => Still(d)
  BY DEF Answer, NetworkOK, Exclusive, Typed, Groups, Still, Quiet
<1>2. PICK n \in Messages : Carries(c, n)
  BY <1>1 DEF Conversation, OneMessage
<1>3. Asked(c, n) /\ Answered(c, n)'
  BY <1>1, <1>2, AnswerSteps
<1>4. \A m \in Messages : /\ ~Asked(c, m)' /\ ~Answered(c, m)
                          /\ Answered(c, m)' <=> m = n
  BY <1>3, Single DEF Asked, Answered
<1> QED
  BY <1>1, <1>3, <1>4, StillStays

(* Hanging up sends no request and takes no reply.                         *)
LEMMA CloseRequests ==
  ASSUME Exclusive, Conversation, NEW c \in Connections, Close(c) \/ Cut(c)
  PROVE  \A d \in Connections, m \in Messages : m.kind = "request" =>
           /\ Asked(d, m)' => Asked(d, m)
           /\ Answered(d, m)' <=> Answered(d, m)
<1>1. /\ NetworkOK /\ UNCHANGED toDriver
      /\ \A d \in Connections : d # c => Still(d)
      /\ toSimulator'[c] = <<>>
  BY DEF Close, Cut, NetworkOK, Exclusive, Typed, Groups, Still
<1>2. ASSUME NEW m \in Messages
      PROVE  /\ ~Asked(c, m)'
             /\ Answered(c, m)' <=> Answered(c, m)
  BY <1>1, Single DEF Conversation, OneMessage, Quiet, Carries, Asked, Answered
<1> QED
  BY <1>1, <1>2, StillStays

(* Every step keeps the requests it does not send; only transmit sends.    *)
LEMMA RequestSteps ==
  ASSUME Exclusive, ~Overtaken, AllTurns, Conversation, [Next]_vars,
         NEW c \in Connections, NEW m \in Messages, m.kind = "request",
         Carries(c, m)'
  PROVE  \/ Carries(c, m)
         \/ \E t \in Threads : /\ Transmit(t) /\ Goto(t, "receive")
                               /\ c = ClientSocket /\ m = Request(t)
<1>1. SameRequests => Carries(c, m)
  BY DEF SameRequests, Carries
<1>2. UNCHANGED network => SameRequests
  BY StillRequests DEF network, Still
<1>3. CASE StartMutex \/ StopAccepting \/ PnpStep
  BY <1>1, <1>2, <1>3
     DEF StartMutex, StopAccepting, PnpStep, StartWinsock, StartListen,
         StartListenFails, StartThread, StopMutex, StopListening, StopWinsock
<1>4. ASSUME NEW g \in Starts, Handshake(g)
      PROVE  Carries(c, m)
  <2>1. CASE HsReceive(g)
    BY <1>1, <2>1, HsReceiveRequests
  <2>2. CASE HsCommand(g)
    BY <1>1, <2>2, HsCommandRequests
  <2>3. CASE HsTest(g) \/ HsListen(g) \/ HsAccept(g) \/ HsClose(g) \/ HsCleanup(g) \/ HsPublish(g)
    BY <1>1, <1>2, <2>3 DEF HsTest, HsListen, HsAccept, HsClose, HsCleanup, HsPublish
  <2> QED
    BY <1>4, <2>1, <2>2, <2>3 DEF Handshake
<1>5. ASSUME NEW t \in Threads, Call(t) \/ Acquire(t) \/ Receive(t) \/ Release(t)
      PROVE  Carries(c, m)
  BY <1>1, <1>2, <1>5 DEF Call, Acquire, Receive, Release
<1>6. ASSUME NEW t \in Threads, Transmit(t)
      PROVE  \/ Carries(c, m)
             \/ Goto(t, "receive") /\ c = ClientSocket /\ m = Request(t)
  <2>1. CASE SameRequests
    BY <1>1, <2>1
  <2>2. CASE /\ Goto(t, "receive")
             /\ \A d \in Connections, n \in Messages :
                  /\ Asked(d, n)' <=>
                       Asked(d, n) \/ (d = ClientSocket /\ n = Request(t))
                  /\ Answered(d, n)' <=> Answered(d, n)
    BY <2>2 DEF Carries
  <2> QED
    BY <1>6, <2>1, <2>2, TransmitRequests
<1>7. ASSUME NEW t \in Threads, Recv(t)
      PROVE  Carries(c, m)
  <2>1. CASE SameRequests
    BY <1>1, <2>1
  <2>2. ASSUME NEW d \in Connections,
               \A e \in Connections, n \in Messages :
                 /\ Asked(e, n)' <=> Asked(e, n)
                 /\ Answered(e, n)' <=> Answered(e, n) /\ e # d
        PROVE  Carries(c, m)
    BY <2>2 DEF Carries
  <2> QED
    BY <1>7, <2>1, <2>2, RecvRequests
<1>8. ASSUME NEW d \in Connections, Connect(d)
      PROVE  Carries(c, m)
  BY <1>1, <1>2, <1>8 DEF Connect
<1>9. ASSUME NEW d \in Connections, Greet(d)
      PROVE  Carries(c, m)
  BY <1>1, <1>9, GreetRequests
<1>10. ASSUME NEW d \in Connections, Answer(d)
       PROVE  Carries(c, m)
  <2>1. PICK n \in Messages :
          /\ Asked(d, n)
          /\ \A e \in Connections, k \in Messages :
               /\ Asked(e, k)' <=> Asked(e, k) /\ e # d
               /\ Answered(e, k)' <=> Answered(e, k) \/ (e = d /\ k = n)
    BY <1>10, AnswerRequests
  <2> QED
    BY <2>1 DEF Carries
<1>11. ASSUME NEW d \in Connections, Close(d) \/ Cut(d)
       PROVE  Carries(c, m)
  BY <1>11, CloseRequests DEF Carries
<1>12. CASE UNCHANGED vars
  BY <1>1, <1>2, <1>12 DEF vars
<1> QED
  BY <1>3, <1>4, <1>5, <1>6, <1>7, <1>8, <1>9, <1>10, <1>11, <1>12
     DEF Next, Exchange, Simulator

(* Only a new exchange brings its thread back to where it has sent nothing.*)
LEMMA ThreadSteps ==
  ASSUME Groups, [Next]_vars, NEW t \in Threads
  PROVE  \/ exchanges'[t] = exchanges[t] + 1
         \/ /\ exchanges'[t] = exchanges[t]
            /\ pc'[t] \in {"wait", "transmit"} => pc[t] \in {"wait", "transmit"}
<1>1. /\ pc \in [Threads -> {"idle", "wait", "transmit", "receive", "recv",
                             "release"}]
      /\ exchanges \in [Threads -> 0 .. MaxExchanges]
  BY DEF Groups, ExchangeOK
<1>2. UNCHANGED exchange =>
        exchanges'[t] = exchanges[t] /\ pc'[t] = pc[t]
  BY DEF exchange
<1>3. CASE StartMutex \/ StopAccepting \/ PnpStep
  BY <1>2, <1>3
     DEF StartMutex, StopAccepting, PnpStep, StartWinsock, StartListen,
         StartListenFails, StartThread, StopMutex, StopListening, StopWinsock
<1>4. ASSUME NEW g \in Starts, Handshake(g)
      PROVE  UNCHANGED exchange
  BY <1>4
     DEF Handshake, HsTest, HsListen, HsAccept, HsClose, HsCleanup, HsReceive, HsCommand,
         HsPublish
<1>5. ASSUME NEW u \in Threads, Call(u)
      PROVE  \/ exchanges'[t] = exchanges[t] + 1
             \/ exchanges'[t] = exchanges[t] /\ pc'[t] = pc[t]
  BY <1>1, <1>5 DEF Call, Goto
<1>6. ASSUME NEW u \in Threads, Exchange(u)
      PROVE  /\ exchanges'[t] = exchanges[t]
             /\ pc'[t] \in {"wait", "transmit"} => pc[t] \in {"wait", "transmit"}
  BY <1>1, <1>6 DEF Exchange, Acquire, Transmit, Receive, Recv, Release, Goto
<1>7. ASSUME NEW c \in Connections, Connect(c) \/ Simulator(c) \/ Close(c) \/ Cut(c)
      PROVE  UNCHANGED exchange
  BY <1>7 DEF Connect, Simulator, Greet, Answer, Close, Cut
<1>8. CASE UNCHANGED vars
  BY <1>2, <1>8 DEF vars
<1> QED
  BY <1>2, <1>3, <1>4, <1>5, <1>6, <1>7, <1>8 DEF Next

(* A request is sent once.                                                 *)
LEMMA NextOnce ==
  ASSUME Exclusive, ~Overtaken, AllTurns, Conversation, Once, [Next]_vars
  PROVE  Once'
<1>1. /\ Groups
      /\ pc \in [Threads -> {"idle", "wait", "transmit", "receive", "recv",
                             "release"}]
      /\ exchanges \in [Threads -> 0 .. MaxExchanges]
  BY DEF Exclusive, Typed, Groups, ExchangeOK
<1>2. ASSUME NEW t \in Threads, Transmit(t)
      PROVE  /\ pc[t] = "transmit" /\ UNCHANGED exchanges
             /\ Request(t).thread = t /\ Request(t).number = exchanges[t]
             /\ \A c \in Connections : ~Carries(c, Request(t))
  <2>1. /\ pc[t] = "transmit" /\ UNCHANGED exchanges
        /\ Request(t).thread = t /\ Request(t).number = exchanges[t]
        /\ Request(t).kind = "request" /\ Request(t) \in Messages
    BY <1>1, <1>2, RequestType DEF Transmit, Request, Message, Groups
  <2> QED
    BY <2>1 DEF Once
<1>3. ASSUME NEW c \in Connections, NEW m \in Messages, m.kind = "request",
             Carries(c, m)'
      PROVE  /\ m.thread \in Threads
             /\ m.number <= exchanges'[m.thread]
             /\ m.number = exchanges'[m.thread] =>
                  pc'[m.thread] \notin {"wait", "transmit"}
  <2>1. CASE Carries(c, m)
    <3>1. /\ m.thread \in Threads
          /\ m.number <= exchanges[m.thread]
          /\ m.number = exchanges[m.thread] =>
               pc[m.thread] \notin {"wait", "transmit"}
      BY <1>3, <2>1 DEF Once
    <3>2. m.number \in Nat /\ exchanges[m.thread] \in Nat
      BY <1>1, <3>1, ConnectorAssumption DEF Messages
    <3> QED
      BY <1>1, <3>1, <3>2, ThreadSteps
  <2>2. ASSUME NEW t \in Threads, Transmit(t), Goto(t, "receive"), m = Request(t)
        PROVE  /\ m.thread = t /\ m.number = exchanges'[t]
               /\ m.number <= exchanges'[t] /\ pc'[t] = "receive"
    BY <1>1, <1>2, <2>2, ConnectorAssumption DEF Goto
  <2> QED
    BY <1>3, <2>1, <2>2, RequestSteps
<1>4. ASSUME NEW c \in Connections, NEW m \in Messages, m.kind = "request",
             Carries(c, m)', NEW d \in Connections, Carries(d, m)'
      PROVE  d = c
  <2>1. CASE Carries(c, m)
    BY <1>2, <1>4, <2>1, RequestSteps DEF Once
  <2>2. CASE ~Carries(c, m)
    <3>1. c = ClientSocket /\ \E t \in Threads : Transmit(t) /\ m = Request(t)
      BY <1>4, <2>2, RequestSteps
    <3>2. ~Carries(d, m)
      BY <1>2, <3>1
    <3> QED
      BY <1>4, <3>1, <3>2, RequestSteps
  <2> QED
    BY <2>1, <2>2
<1>5. Messages' = Messages
  BY DEF Messages
<1> QED
  BY <1>3, <1>4, <1>5 DEF Once

(* Initially no request is under way.                                      *)
LEMMA InitOnce == Init => Once
<1> SUFFICES ASSUME Init, NEW c \in Connections, NEW m
             PROVE  ~Carries(c, m)
  BY DEF Once
<1> QED
  BY Single DEF Init, Carries, Asked, Answered

(* As long as no handshake thread was overtaken.                           *)
Undisturbed == Steady /\ ~Overtaken /\ Conversation /\ Once

(* The invariants that the contract rests on.                              *)
Inv == Steady /\ ReplyIsOwn /\ (Overtaken \/ (Conversation /\ Once))

(* Every step keeps the invariants.                                        *)
LEMMA NextInv == Inv /\ [Next]_vars => Inv'
<1> SUFFICES ASSUME Inv, [Next]_vars
             PROVE  Inv'
  OBVIOUS
<1>1. Steady'
  BY NextSteady DEF Inv
<1>2. CASE Overtaken
  <2>1. Overtaken'
    BY <1>2, OvertakenStays DEF Inv, Steady, Exclusive, Typed
  <2>2. ReplyIsOwn'
    BY <2>1 DEF ReplyIsOwn
  <2> QED
    BY <1>1, <2>1, <2>2 DEF Inv
<1>3. CASE ~Overtaken
  BY <1>1, <1>3, NextConversation, NextReplyIsOwn, NextOnce DEF Inv, Steady
<1> QED
  BY <1>2, <1>3

(* They hold in every state.                                               *)
LEMMA InvHolds == Spec => []Inv
<1>1. Init => Inv
  BY InitSteady, InitConversation, InitReplyIsOwn, InitOnce DEF Inv
<1> QED
  BY <1>1, NextInv, PTL DEF Spec

(* A reply goes to the thread and the request it answers, however threads, *)
(* reconnecting simulators, stops and restarts interleave, unless a        *)
(* handshake thread has been overtaken (persoSimConnect.cpp:30-32,         *)
(* 190-249).                                                               *)
THEOREM ReplyIsOwnHolds == Spec => []ReplyIsOwn
<1>1. Inv => ReplyIsOwn
  BY DEF Inv
<1> QED
  BY <1>1, InvHolds, PTL

(* The contract's view, and how it changes.                                *)
StageMap == [t \in Threads |-> Stage(t)]
ResultMap == [t \in Threads |-> Result(t)]

(* Where a thread goes is where the contract's exchange stands.            *)
LEMMA StageSteps ==
  ASSUME Groups, NEW t \in Threads, NEW step, Goto(t, step)
  PROVE  /\ step \in {"idle", "release"} =>
              StageMap' = [StageMap EXCEPT ![t] = "idle"]
         /\ step \in {"wait", "transmit"} =>
              StageMap' = [StageMap EXCEPT ![t] = "begun"]
         /\ step \in {"receive", "recv"} =>
              StageMap' = [StageMap EXCEPT ![t] = "sent"]
<1>1. pc \in [Threads -> {"idle", "wait", "transmit", "receive", "recv",
                          "release"}]
  BY DEF Groups, ExchangeOK
<1>2. /\ pc'[t] = step
      /\ \A u \in Threads : u # t => pc'[u] = pc[u]
  BY <1>1 DEF Goto
<1>3. \A u \in Threads : u # t => Stage(u)' = Stage(u)
  BY <1>2 DEF Stage
<1>4. /\ step \in {"idle", "release"} => Stage(t)' = "idle"
      /\ step \in {"wait", "transmit"} => Stage(t)' = "begun"
      /\ step \in {"receive", "recv"} => Stage(t)' = "sent"
  BY <1>2 DEF Stage
<1> QED
  BY <1>3, <1>4 DEF StageMap

(* Where a thread is, likewise.                                            *)
LEMMA StageNow ==
  ASSUME NEW t \in Threads
  PROVE  /\ pc[t] \in {"idle", "release"} => StageMap[t] = "idle"
         /\ pc[t] \in {"wait", "transmit"} => StageMap[t] = "begun"
         /\ pc[t] \in {"receive", "recv"} => StageMap[t] = "sent"
BY DEF StageMap, Stage

(* What an exchange returns is the contract's outcome.                     *)
LEMMA ResultSteps ==
  ASSUME Groups, NEW t \in Threads, NEW m, Returns(t, m),
         \A u \in Threads : u # t => exchanges'[u] = exchanges[u]
  PROVE  /\ m.kind = "none" => ResultMap' = [ResultMap EXCEPT ![t] = "none"]
         /\ m.kind = "error" => ResultMap' = [ResultMap EXCEPT ![t] = "error"]
         /\ m = Request(t) /\ exchanges'[t] = exchanges[t] =>
              ResultMap' = [ResultMap EXCEPT ![t] = "reply"]
<1>1. outcome \in [Threads -> Messages]
  BY DEF Groups, ExchangeOK
<1>2. /\ outcome'[t] = m
      /\ \A u \in Threads : u # t => outcome'[u] = outcome[u]
  BY <1>1 DEF Returns
<1>3. \A u \in Threads : u # t => Result(u)' = Result(u)
  BY <1>2 DEF Result, Request, Message
<1>4. /\ m.kind = "none" => Result(t)' = "none"
      /\ m.kind = "error" => Result(t)' = "error"
      /\ m = Request(t) /\ exchanges'[t] = exchanges[t] => Result(t)' = "reply"
  BY <1>2 DEF Result, Request, Message
<1> QED
  BY <1>3, <1>4 DEF ResultMap

(* An outcome stays until the next one.                                    *)
LEMMA ResultStays ==
  ASSUME UNCHANGED <<outcome, exchanges>>
  PROVE  ResultMap' = ResultMap
<1>1. \A t \in Threads : Result(t)' = Result(t)
  BY DEF Result, Request, Message
<1> QED
  BY <1>1 DEF ResultMap

(* An exchange stands where its thread does.                               *)
LEMMA StageStays ==
  ASSUME UNCHANGED pc
  PROVE  StageMap' = StageMap
<1>1. \A t \in Threads : Stage(t)' = Stage(t)
  BY DEF Stage
<1> QED
  BY <1>1 DEF StageMap

SameUnderWay == /\ UnderWay(toSimulator)' = UnderWay(toSimulator)
                /\ UnderWay(toDriver)' = UnderWay(toDriver)

(* Where nothing is sent or received nothing is asked or served.           *)
LEMMA NetworkUnderWay ==
  ASSUME UNCHANGED network
  PROVE  SameUnderWay
BY DEF network, SameUnderWay, UnderWay

(* Where no request moves nothing is asked or served.                      *)
LEMMA RequestsUnderWay ==
  ASSUME Conversation, Conversation', SameRequests
  PROVE  SameUnderWay
<1>1. \A c \in Connections : OneMessage(c) /\ OneMessage(c)'
  BY DEF Conversation
<1>2. \A e : e \in UnderWay(toSimulator)' <=> e \in UnderWay(toSimulator)
  BY <1>1, AskedRequests DEF SameRequests
<1>3. \A e : e \in UnderWay(toDriver)' <=> e \in UnderWay(toDriver)
  BY <1>1, ServedRequests DEF SameRequests
<1>4. PICK a, b, d, e : /\ a = UnderWay(toSimulator)' /\ b = UnderWay(toSimulator)
                        /\ d = UnderWay(toDriver)' /\ e = UnderWay(toDriver)
  OBVIOUS
<1>5. a = b /\ d = e
  BY <1>2, <1>3, <1>4
<1> QED
  BY <1>4, <1>5 DEF SameUnderWay

(* The connector's steps as the contract's.                                *)
LEMMA ContractStutters ==
  ASSUME UNCHANGED exchanges, StageMap' = StageMap, ResultMap' = ResultMap,
         SameUnderWay
  PROVE  UNCHANGED Contract!vars
BY DEF Contract!vars, StageMap, ResultMap, SameUnderWay

(* The connector's initial states are the contract's.                      *)
LEMMA ContractInit == Init => Contract!Init
<1> SUFFICES ASSUME Init
             PROVE  Contract!Init
  OBVIOUS
<1>1. StageMap = [t \in Threads |-> "idle"]
  BY DEF Init, StageMap, Stage
<1>2. ResultMap = [t \in Threads |-> "none"]
  <2>1. Plain("none").kind = "none"
    BY DEF Plain, Message
  <2>2. \A t \in Threads : outcome[t] = Plain("none")
    BY DEF Init
  <2>3. \A t \in Threads : Result(t) = "none"
    BY <2>1, <2>2 DEF Result, Request, Message
  <2> QED
    BY <2>3 DEF ResultMap
<1>3. UnderWay(toSimulator) = {} /\ UnderWay(toDriver) = {}
  <2>1. \A c \in Connections : toSimulator[c] = <<>> /\ toDriver[c] = <<>>
    BY DEF Init
  <2>2. ToSet(<<>>) = {}
    BY DEF ToSet
  <2> QED
    BY <2>1, <2>2 DEF UnderWay
<1>4. exchanges = [t \in Threads |-> 0]
  BY DEF Init
<1> QED
  BY <1>1, <1>2, <1>3, <1>4 DEF Contract!Init, StageMap, ResultMap

(* A call is a call.                                                       *)
LEMMA ContractCall ==
  ASSUME Undisturbed, NEW t \in Threads, Call(t)
  PROVE  Contract!Call(t)
<1>1. /\ Groups /\ SameUnderWay
      /\ exchanges' = [exchanges EXCEPT ![t] = @ + 1]
      /\ pc[t] = "idle"
      /\ \A u \in Threads : u # t => exchanges'[u] = exchanges[u]
  BY NetworkUnderWay
     DEF Call, Undisturbed, Steady, Exclusive, Typed, Groups, ExchangeOK
<1>2. Plain("none").kind = "none" /\ Plain("error").kind = "error"
  BY DEF Plain, Message
<1>3. StageMap[t] = "idle"
  BY <1>1, StageNow
<1>4. \/ /\ StageMap' = [StageMap EXCEPT ![t] = "begun"]
         /\ ResultMap' = [ResultMap EXCEPT ![t] = "none"]
      \/ /\ ResultMap' = [ResultMap EXCEPT ![t] = "error"]
         /\ UNCHANGED StageMap
  <2>1. CASE Goto(t, "wait") /\ Returns(t, Plain("none"))
    BY <1>1, <1>2, <2>1, StageSteps, ResultSteps
  <2>2. CASE Returns(t, Plain("error")) /\ UNCHANGED pc
    BY <1>1, <1>2, <2>2, StageStays, ResultSteps
  <2> QED
    BY <2>1, <2>2 DEF Call
<1> QED
  BY <1>1, <1>3, <1>4 DEF Contract!Call, StageMap, ResultMap, SameUnderWay

(* An error that ends an exchange is one of the contract.                  *)
LEMMA ContractError ==
  ASSUME Undisturbed, NEW t \in Threads, pc[t] \in {"transmit", "receive", "recv"},
         Goto(t, "release"), Returns(t, Plain("error")), UNCHANGED exchanges,
         SameUnderWay
  PROVE  Contract!ReturnError(t)
<1>1. Groups /\ Plain("error").kind = "error"
  BY DEF Undisturbed, Steady, Exclusive, Typed, Plain, Message
<1>2. StageMap[t] # "idle"
  BY StageNow
<1>3. /\ StageMap' = [StageMap EXCEPT ![t] = "idle"]
      /\ ResultMap' = [ResultMap EXCEPT ![t] = "error"]
  BY <1>1, StageSteps, ResultSteps
<1> QED
  BY <1>2, <1>3 DEF Contract!ReturnError, StageMap, ResultMap, SameUnderWay

(* transmit sends the request, or ends the exchange.                       *)
LEMMA ContractTransmit ==
  ASSUME Undisturbed, Undisturbed', NEW t \in Threads, Transmit(t)
  PROVE  Contract!Send(t) \/ Contract!ReturnError(t)
<1>1. /\ Groups /\ pc[t] = "transmit" /\ UNCHANGED exchanges
      /\ Conversation /\ Conversation' /\ Exclusive /\ ~Overtaken
      /\ \A c \in Connections : OneMessage(c) /\ OneMessage(c)'
  BY DEF Transmit, Undisturbed, Steady, Exclusive, Typed, Conversation
<1>2. CASE Goto(t, "release")
  <2>1. Returns(t, Plain("error")) /\ SameRequests
    <3>1. pc'[t] = "release"
      BY <1>1, <1>2 DEF Goto, Groups, ExchangeOK
    <3>2. ~Goto(t, "receive")
      BY <1>1, <3>1 DEF Goto, Groups, ExchangeOK
    <3> QED
      BY <1>1, <3>2, TransmitRequests DEF Transmit
  <2> QED
    BY <1>1, <1>2, <2>1, RequestsUnderWay, ContractError
<1>3. CASE Goto(t, "receive") /\ UNCHANGED outcome
  <2>1. StageMap[t] = "begun" /\ StageMap' = [StageMap EXCEPT ![t] = "sent"]
    BY <1>1, <1>3, StageNow, StageSteps
  <2>2. ResultMap' = ResultMap
    BY <1>1, <1>3, ResultStays
  <2>3. /\ UnderWay(toDriver)' = UnderWay(toDriver)
        /\ UnderWay(toSimulator)' \in
             {UnderWay(toSimulator),
              UnderWay(toSimulator) \cup {<<t, exchanges[t]>>}}
    <3>1. CASE SameRequests
      BY <1>1, <3>1, RequestsUnderWay DEF SameUnderWay
    <3>2. CASE /\ ClientSocket \in CanSend
               /\ \A d \in Connections, m \in Messages :
                    /\ Asked(d, m)' <=>
                         Asked(d, m) \/ (d = ClientSocket /\ m = Request(t))
                    /\ Answered(d, m)' <=> Answered(d, m)
      <4>1. /\ Request(t) \in Messages /\ Request(t).kind = "request"
            /\ Request(t).thread = t /\ Request(t).number = exchanges[t]
            /\ ClientSocket \in Connections
        BY <1>1, <3>2, RequestType DEF Groups, Request, Message, CanSend
      <4>2. \A e : e \in UnderWay(toDriver)' <=> e \in UnderWay(toDriver)
        BY <1>1, <3>2, ServedRequests
      <4>3. \A e : e \in UnderWay(toSimulator)' <=>
                     e \in UnderWay(toSimulator) \/ e = <<t, exchanges[t]>>
        BY <1>1, <3>2, <4>1, AskedRequests
      <4>4. PICK a, b, d, e :
              /\ a = UnderWay(toSimulator)' /\ b = UnderWay(toSimulator)
              /\ d = UnderWay(toDriver)' /\ e = UnderWay(toDriver)
        OBVIOUS
      <4>5. a = b \cup {<<t, exchanges[t]>>} /\ d = e
        BY <4>2, <4>3, <4>4
      <4> QED
        BY <4>4, <4>5
    <3> QED
      BY <1>1, <3>1, <3>2, TransmitRequests
  <2> QED
    BY <1>1, <2>1, <2>2, <2>3
       DEF Contract!Send, Contract!Latest, StageMap, ResultMap
<1> QED
  BY <1>2, <1>3 DEF Transmit

(* recv returns the reply, or ends the exchange.                           *)
LEMMA ContractRecv ==
  ASSUME Undisturbed, Undisturbed', NEW t \in Threads, Recv(t)
  PROVE  Contract!ReturnReply(t) \/ Contract!ReturnError(t)
<1>1. /\ Groups /\ pc[t] = "recv" /\ Goto(t, "release") /\ UNCHANGED exchanges
      /\ Conversation /\ Conversation' /\ Exclusive /\ Once
      /\ \A c \in Connections : OneMessage(c) /\ OneMessage(c)'
  BY DEF Recv, Undisturbed, Steady, Exclusive, Typed, Conversation
<1>2. CASE SameRequests /\ Returns(t, Plain("error"))
  BY <1>1, <1>2, RequestsUnderWay, ContractError
<1>3. ASSUME NEW c \in Connections, Returns(t, Request(t)),
             Answered(c, Request(t)),
             \A d \in Connections, m \in Messages :
               /\ Asked(d, m)' <=> Asked(d, m)
               /\ Answered(d, m)' <=> Answered(d, m) /\ d # c
      PROVE  Contract!ReturnReply(t)
  <2>1. StageMap[t] = "sent" /\ StageMap' = [StageMap EXCEPT ![t] = "idle"]
    BY <1>1, StageNow, StageSteps
  <2>2. ResultMap' = [ResultMap EXCEPT ![t] = "reply"]
    BY <1>1, <1>3, ResultSteps
  <2>3. /\ Request(t) \in Messages /\ Request(t).kind = "request"
        /\ Request(t).thread = t /\ Request(t).number = exchanges[t]
    BY <1>1, RequestType DEF Groups, Request, Message
  <2>4. <<t, exchanges[t]>> \in UnderWay(toDriver)
    BY <1>1, <1>3, <2>3, ServedRequests
  <2>5. ASSUME NEW d \in Connections, NEW m \in Messages, Answered(d, m),
               m.kind = "request", m.thread = t, m.number = exchanges[t]
        PROVE  d = c
    <3>1. m = Request(t)
      BY <2>5 DEF Messages, Request, Message
    <3> QED
      BY <1>1, <1>3, <2>3, <2>5, <3>1 DEF Once, Carries
  <2>6. ASSUME NEW m \in Messages, Answered(c, m)
        PROVE  m = Request(t)
    BY <1>3, <2>6, Single DEF Answered
  <2>7. \A e : e \in UnderWay(toSimulator)' <=> e \in UnderWay(toSimulator)
    BY <1>1, <1>3, AskedRequests
  <2>8. ASSUME NEW e
        PROVE  e \in UnderWay(toDriver)' <=>
                 e \in UnderWay(toDriver) /\ e # <<t, exchanges[t]>>
    <3>1. ASSUME e \in UnderWay(toDriver)'
          PROVE  e \in UnderWay(toDriver) /\ e # <<t, exchanges[t]>>
      <4>1. PICK d \in Connections, m \in Messages :
              /\ Answered(d, m)' /\ m.kind = "request"
              /\ e = <<m.thread, m.number>>
        BY <1>1, <3>1, ServedRequests
      <4>2. Answered(d, m) /\ d # c
        BY <1>3, <4>1
      <4> QED
        BY <1>1, <2>5, <4>1, <4>2, ServedRequests
    <3>2. ASSUME e \in UnderWay(toDriver), e # <<t, exchanges[t]>>
          PROVE  e \in UnderWay(toDriver)'
      <4>1. PICK d \in Connections, m \in Messages :
              /\ Answered(d, m) /\ m.kind = "request"
              /\ e = <<m.thread, m.number>>
        BY <1>1, <3>2, ServedRequests
      <4>2. Answered(d, m)'
        BY <1>3, <2>3, <2>6, <3>2, <4>1
      <4> QED
        BY <1>1, <4>1, <4>2, ServedRequests
    <3> QED
      BY <3>1, <3>2
  <2>9. PICK a, b, d, e : /\ a = UnderWay(toSimulator)' /\ b = UnderWay(toSimulator)
                          /\ d = UnderWay(toDriver)' /\ e = UnderWay(toDriver)
    OBVIOUS
  <2>10. a = b /\ d = e \ {<<t, exchanges[t]>>}
    BY <2>7, <2>8, <2>9
  <2> QED
    BY <1>1, <2>1, <2>2, <2>4, <2>9, <2>10
       DEF Contract!ReturnReply, Contract!Latest, StageMap, ResultMap
<1> QED
  BY <1>1, <1>2, <1>3, RecvRequests

(* The simulator serves a request, or takes its turn in a handshake.       *)
LEMMA ContractAnswer ==
  ASSUME Undisturbed, Undisturbed', NEW c \in Connections, Answer(c)
  PROVE  (\E e \in UnderWay(toSimulator) : Contract!Serve(e))
         \/ UNCHANGED Contract!vars
<1>1. /\ Groups /\ UNCHANGED exchange
      /\ Conversation /\ Conversation' /\ Exclusive /\ Once
      /\ \A d \in Connections : OneMessage(d) /\ OneMessage(d)'
  BY DEF Answer, Undisturbed, Steady, Exclusive, Typed, Conversation
<1>2. StageMap' = StageMap /\ ResultMap' = ResultMap /\ UNCHANGED exchanges
  BY <1>1, StageStays, ResultStays DEF exchange
<1>3. PICK n \in Messages :
        /\ Asked(c, n)
        /\ \A d \in Connections, m \in Messages :
             /\ Asked(d, m)' <=> Asked(d, m) /\ d # c
             /\ Answered(d, m)' <=> Answered(d, m) \/ (d = c /\ m = n)
  BY <1>1, AnswerRequests
<1>4. \A m \in Messages : Asked(c, m) => m = n
  BY <1>3, Single DEF Asked
<1>5. CASE n.kind # "request"
  <2>1. SameRequests
    BY <1>3, <1>4, <1>5 DEF SameRequests
  <2> QED
    BY <1>1, <1>2, <2>1, RequestsUnderWay, ContractStutters
<1>6. CASE n.kind = "request"
  <2> DEFINE s == <<n.thread, n.number>>
  <2>1. s \in UnderWay(toSimulator)
    BY <1>1, <1>3, <1>6, AskedRequests
  <2>2. ASSUME NEW d \in Connections, NEW m \in Messages, Asked(d, m),
               m.kind = "request", <<m.thread, m.number>> = s
        PROVE  d = c
    <3>1. m = n
      BY <1>6, <2>2 DEF Messages
    <3> QED
      BY <1>1, <1>3, <1>6, <2>2, <3>1 DEF Once, Carries
  <2>3. ASSUME NEW e
        PROVE  e \in UnderWay(toSimulator)' <=>
                 e \in UnderWay(toSimulator) /\ e # s
    <3>1. ASSUME e \in UnderWay(toSimulator)'
          PROVE  e \in UnderWay(toSimulator) /\ e # s
      <4>1. PICK d \in Connections, m \in Messages :
              /\ Asked(d, m)' /\ m.kind = "request"
              /\ e = <<m.thread, m.number>>
        BY <1>1, <3>1, AskedRequests
      <4>2. Asked(d, m) /\ d # c
        BY <1>3, <4>1
      <4> QED
        BY <1>1, <2>2, <4>1, <4>2, AskedRequests
    <3>2. ASSUME e \in UnderWay(toSimulator), e # s
          PROVE  e \in UnderWay(toSimulator)'
      <4>1. PICK d \in Connections, m \in Messages :
              /\ Asked(d, m) /\ m.kind = "request"
              /\ e = <<m.thread, m.number>>
        BY <1>1, <3>2, AskedRequests
      <4>2. Asked(d, m)'
        BY <1>3, <1>4, <3>2, <4>1
      <4> QED
        BY <1>1, <4>1, <4>2, AskedRequests
    <3> QED
      BY <3>1, <3>2
  <2>4. \A e : e \in UnderWay(toDriver)' <=> e \in UnderWay(toDriver) \/ e = s
    BY <1>1, <1>3, <1>6, ServedRequests
  <2>5. PICK a, b, d, e : /\ a = UnderWay(toSimulator)' /\ b = UnderWay(toSimulator)
                          /\ d = UnderWay(toDriver)' /\ e = UnderWay(toDriver)
    OBVIOUS
  <2> HIDE DEF s
  <2>6. a = b \ {s} /\ d = e \cup {s}
    BY <2>3, <2>4, <2>5
  <2>7. Contract!Serve(s)
    BY <1>2, <2>1, <2>5, <2>6 DEF Contract!Serve, StageMap, ResultMap
  <2> QED
    BY <2>1, <2>7
<1> QED
  BY <1>5, <1>6

(* Hanging up loses requests that are not yet served.                      *)
LEMMA ContractClose ==
  ASSUME Undisturbed, Undisturbed', NEW c \in Connections, Close(c) \/ Cut(c)
  PROVE  Contract!Lose
<1>1. /\ Groups /\ UNCHANGED exchange /\ Conversation /\ Exclusive
      /\ \A d \in Connections : OneMessage(d) /\ OneMessage(d)'
  BY DEF Close, Cut, Undisturbed, Steady, Exclusive, Typed, Conversation
<1>2. StageMap' = StageMap /\ ResultMap' = ResultMap /\ UNCHANGED exchanges
  BY <1>1, StageStays, ResultStays DEF exchange
<1>3. \A e : e \in UnderWay(toSimulator)' => e \in UnderWay(toSimulator)
  BY <1>1, CloseRequests, AskedRequests
<1>4. \A e : e \in UnderWay(toDriver)' <=> e \in UnderWay(toDriver)
  BY <1>1, CloseRequests, ServedRequests
<1>5. PICK a, b, d, e : /\ a = UnderWay(toSimulator)' /\ b = UnderWay(toSimulator)
                        /\ d = UnderWay(toDriver)' /\ e = UnderWay(toDriver)
  OBVIOUS
<1>6. a \in SUBSET b /\ d = e
  BY <1>3, <1>4, <1>5
<1> QED
  BY <1>2, <1>5, <1>6 DEF Contract!Lose, StageMap, ResultMap

(* Every step of the connector is a step of the contract, or is not to be  *)
(* seen there.                                                             *)
LEMMA ContractStep ==
  ASSUME Undisturbed, Undisturbed', [Next]_vars
  PROVE  [Contract!Next]_(Contract!vars)
<1>1. ASSUME UNCHANGED exchange, SameUnderWay
      PROVE  UNCHANGED Contract!vars
  <2>1. StageMap' = StageMap /\ ResultMap' = ResultMap /\ UNCHANGED exchanges
    BY <1>1, StageStays, ResultStays DEF exchange
  <2> QED
    BY <1>1, <2>1, ContractStutters
<1>2. Groups /\ Exclusive /\ AllTurns /\ Conversation /\ Conversation'
  BY DEF Undisturbed, Steady, Exclusive, Typed
<1>3. CASE StartMutex \/ StopAccepting \/ PnpStep
  BY <1>1, <1>3, NetworkUnderWay
     DEF StartMutex, StopAccepting, PnpStep, StartWinsock, StartListen,
         StartListenFails, StartThread, StopMutex, StopListening, StopWinsock
<1>4. ASSUME NEW g \in Starts, Handshake(g)
      PROVE  UNCHANGED Contract!vars
  <2>1. CASE HsReceive(g)
    BY <1>1, <1>2, <2>1, HsReceiveRequests, RequestsUnderWay DEF HsReceive
  <2>2. CASE HsCommand(g)
    BY <1>1, <1>2, <2>2, HsCommandRequests, RequestsUnderWay DEF HsCommand
  <2>3. CASE HsTest(g) \/ HsListen(g) \/ HsAccept(g) \/ HsClose(g) \/ HsCleanup(g) \/ HsPublish(g)
    BY <1>1, <2>3, NetworkUnderWay
       DEF HsTest, HsListen, HsAccept, HsClose, HsCleanup, HsPublish
  <2> QED
    BY <1>4, <2>1, <2>2, <2>3 DEF Handshake
<1>5. ASSUME NEW t \in Threads, Acquire(t)
      PROVE  UNCHANGED Contract!vars
  <2>1. pc[t] = "wait" /\ Goto(t, "transmit") /\ SameUnderWay
        /\ UNCHANGED <<outcome, exchanges>>
    BY <1>5, NetworkUnderWay DEF Acquire
  <2>2. StageMap[t] = "begun" /\ StageMap' = [StageMap EXCEPT ![t] = "begun"]
    BY <1>2, <2>1, StageNow, StageSteps
  <2>3. StageMap' = StageMap
    BY <2>2 DEF StageMap
  <2> QED
    BY <2>1, <2>3, ResultStays, ContractStutters
<1>6. ASSUME NEW t \in Threads, Release(t)
      PROVE  UNCHANGED Contract!vars
  <2>1. pc[t] = "release" /\ Goto(t, "idle") /\ SameUnderWay
        /\ UNCHANGED <<outcome, exchanges>>
    BY <1>6, NetworkUnderWay DEF Release
  <2>2. StageMap[t] = "idle" /\ StageMap' = [StageMap EXCEPT ![t] = "idle"]
    BY <1>2, <2>1, StageNow, StageSteps
  <2>3. StageMap' = StageMap
    BY <2>2 DEF StageMap
  <2> QED
    BY <2>1, <2>3, ResultStays, ContractStutters
<1>7. ASSUME NEW t \in Threads, Receive(t)
      PROVE  UNCHANGED Contract!vars \/ Contract!ReturnError(t)
  <2>1. pc[t] = "receive" /\ SameUnderWay /\ UNCHANGED exchanges
    BY <1>7, NetworkUnderWay DEF Receive
  <2>2. CASE Goto(t, "recv") /\ UNCHANGED outcome
    <3>1. StageMap[t] = "sent" /\ StageMap' = [StageMap EXCEPT ![t] = "sent"]
      BY <1>2, <2>1, <2>2, StageNow, StageSteps
    <3>2. StageMap' = StageMap
      BY <3>1 DEF StageMap
    <3> QED
      BY <2>1, <2>2, <3>2, ResultStays, ContractStutters
  <2>3. CASE Goto(t, "release") /\ Returns(t, Plain("error"))
    BY <2>1, <2>3, ContractError
  <2> QED
    BY <1>7, <2>2, <2>3 DEF Receive
<1>8. ASSUME NEW c \in Connections, Greet(c)
      PROVE  UNCHANGED Contract!vars
  BY <1>1, <1>2, <1>8, GreetRequests, RequestsUnderWay DEF Greet
<1>9. ASSUME NEW c \in Connections, Connect(c)
      PROVE  UNCHANGED Contract!vars
  BY <1>1, <1>9, NetworkUnderWay DEF Connect
<1>10. CASE UNCHANGED vars
  BY <1>1, <1>10, NetworkUnderWay DEF vars
<1>11. ASSUME NEW c \in Connections, Answer(c)
       PROVE  Contract!Next \/ UNCHANGED Contract!vars
  BY <1>11, ContractAnswer DEF Contract!Next
<1> QED
  BY <1>3, <1>4, <1>5, <1>6, <1>7, <1>8, <1>9, <1>10, <1>11, ContractCall,
     ContractTransmit, ContractRecv, ContractClose
     DEF Next, Handshake, Exchange, Simulator, Contract!Next

(* The connector keeps the contract that ExchangeContract states, across   *)
(* reconnections, failures, stops and restarts: a request is sent once, a  *)
(* reply is the simulator's to this request and was made during this       *)
(* exchange, and nobody else (the handshake, a thread under another mutex) *)
(* takes it from the connection.  It may break it once a handshake thread  *)
(* has been overtaken by a restart (persoSimConnect.cpp:30-51, 190-249).   *)
THEOREM ConnectorImplementsExchanges == Spec => ImplementsExchanges
<1>1. Inv /\ Inv' /\ [Next]_vars =>
        [Contract!Next \/ Overtaken']_(Contract!vars)
  <2> SUFFICES ASSUME Inv, Inv', [Next]_vars, ~Overtaken'
               PROVE  [Contract!Next]_(Contract!vars)
    OBVIOUS
  <2>1. ~Overtaken
    BY OvertakenStays DEF Inv, Steady, Exclusive, Typed
  <2>2. Undisturbed /\ Undisturbed'
    BY <2>1 DEF Inv, Undisturbed
  <2> QED
    BY <2>2, ContractStep
<1> QED
  BY <1>1, ContractInit, InvHolds, PTL DEF Spec, ImplementsExchanges
=============================================================================
