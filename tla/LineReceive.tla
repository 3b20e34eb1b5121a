----------------------------- MODULE LineReceive -----------------------------
(***************************************************************************)
(* receive of Driver/persoSimConnect.cpp, byte by byte, under the calls    *)
(* that rely on it: the handshake, PSIMICCPresent, PSIMPowerICC,           *)
(* PSIMTransmitICC and IoSmartCardControl.                                 *)
(*                                                                         *)
(* A reply is a line: a response code of 8 digits, a divider and two       *)
(* digits per byte of payload if there is one, "\r\n".  TCP delivers it in *)
(* pieces of any size.  receive collects pieces until the last byte is     *)
(* '\n' or the buffer is full, and cuts the line end off.  It knows no     *)
(* other line end: what it leaves unread is the start of the next reply.   *)
(***************************************************************************)
EXTENDS Integers, Sequences, SequencesExt

CONSTANTS
  AtrSizes,     \* lengths of the ATRs the card may have
  RxLength,     \* the room for a response APDU in PSIMTransmitICC
  ApduSizes,    \* lengths of the response APDUs that come
  OutBufSizes,  \* rooms for the answer to a control code
  ControlSizes, \* lengths of the answers that come
  MaxCalls      \* bound on the exchanges

ASSUME LineReceiveAssumption ==
  /\ AtrSizes \subseteq Nat /\ ApduSizes \subseteq Nat
  /\ ControlSizes \subseteq Nat
  /\ RxLength \in Nat /\ OutBufSizes \subseteq Nat /\ MaxCalls \in Nat

VARIABLES
  peer,      \* "open", "closed" in order, or "reset"
  stream,    \* what the simulator has sent and recv has not returned
  pc,        \* "idle", or where receive stands: "recv", "trim"
  respLength,
  room,      \* the size of the buffer, of which respLength are offered
  response,  \* the bytes stored so far: offset is the length of this
  calls,     \* the number of exchanges begun
  reply,     \* the body of the reply that is due
  overlong,  \* has a line been longer than what its caller offered?
  result     \* what the last exchange has returned

buffer == <<respLength, room>>
vars ==
  <<peer, stream, pc, buffer, response, calls, reply, overlong, result>>

(* A byte carries the number of the line it belongs to.                    *)
Byte(char, line) == [char |-> char, line |-> line]
Body(size, line) == [i \in 1 .. size |-> Byte("x", line)]
LineEnd(line) == <<Byte("\r", line), Byte("\n", line)>>

Error == [ok |-> FALSE, text |-> <<>>]
Success(text) == [ok |-> TRUE, text |-> text]

(* 8 digits, and "|" and the payload if any.                               *)
BodySize(payload) == IF payload = 0 THEN 8 ELSE 8 + 1 + 2 * payload

(* The buffers of the callers, and the lines they may get.                 *)
Caller(offered, size, body) ==
  [respLength |-> offered, room |-> size, body |-> body]

(* Either end's messages have a code and a lun, in two digits or in eight. *)
Handshake == {Caller(19, 19, n) : n \in {11, 17}}

PSIMICCPresent == {Caller(20, 20, BodySize(0))}
PSIMPowerICC == {Caller(74, 74, BodySize(n)) : n \in AtrSizes}

PSIMTransmitICC ==
  LET respBufferSize == RxLength * 2 + 10 IN
    {Caller(respBufferSize, respBufferSize, BodySize(n)) : n \in ApduSizes}

(* Mutant: the buffer has no room for two digits per byte.                 *)
ControlBufferOnce ==
  {Caller(m, m + 1, BodySize(n)) : m \in OutBufSizes, n \in ControlSizes}

(* The buffer is twice as long as what is offered of it.                   *)
IoSmartCardControl ==
  {Caller(m, m * 2 + 1, BodySize(n)) : m \in OutBufSizes, n \in ControlSizes}

Functions ==
  Handshake \cup PSIMICCPresent \cup PSIMPowerICC \cup PSIMTransmitICC
    \cup IoSmartCardControl

Init ==
  /\ peer = "open"
  /\ stream = <<>>
  /\ pc = "idle"
  /\ respLength = 0 /\ room = 0
  /\ response = <<>>
  /\ calls = 0
  /\ reply = <<>>
  /\ overlong = FALSE
  /\ result = Error

-----------------------------------------------------------------------------
(* exchangePcscFunction has transmitted, and the simulator sends its reply *)
(* if it is still there; or the simulator sends its part of a handshake.   *)
Exchange ==
  /\ pc = "idle" /\ calls < MaxCalls
  /\ \E f \in Functions :
       /\ respLength' = f.respLength /\ room' = f.room
       /\ reply' = Body(f.body, calls + 1)
       /\ stream' = IF peer = "open"
                    THEN stream \o reply' \o LineEnd(calls + 1)
                    ELSE stream
       /\ overlong' = (overlong \/ f.body + 2 > f.respLength)
  /\ calls' = calls + 1
  /\ response' = <<>>
  /\ pc' = "recv"
  /\ UNCHANGED <<peer, result>>

(* Mutant: the last byte is kept for the terminating zero.                 *)
ContinuesForZero(bytes) ==
  /\ bytes # <<>>
  /\ Len(bytes) < respLength - 1
  /\ Last(bytes).char # "\n"

(* Mutant: the loop does not look for offset > 0.                          *)
ContinuesAtZero(bytes) ==
  /\ Len(bytes) < respLength
  /\ bytes # <<>> => Last(bytes).char # "\n"

(* while (offset > 0 && offset < respLength && response[offset - 1] != '\n') *)
Continues(bytes) ==
  /\ bytes # <<>>
  /\ Len(bytes) < respLength
  /\ Last(bytes).char # "\n"

WhileAt(bytes) == IF Continues(bytes) THEN "recv" ELSE "trim"

(* recv returns some of what has arrived, at most respLength bytes, which  *)
(* is more than the room that is left.                                     *)
RecvData ==
  /\ pc = "recv" /\ peer # "reset"
  /\ \E n \in 1 .. Len(stream) :
       /\ n <= respLength
       /\ response' = response \o SubSeq(stream, 1, n)
       /\ stream' = SubSeq(stream, n + 1, Len(stream))
  /\ pc' = WhileAt(response')
  /\ UNCHANGED <<peer, buffer, calls, reply, overlong, result>>

(* recv returns 0, as the stream has ended or no room is offered:          *)
(* offset += 0.                                                            *)
RecvClosed ==
  /\ pc = "recv"
  /\ \/ peer = "closed" /\ stream = <<>>
     \/ peer # "reset" /\ respLength = 0
  /\ pc' = WhileAt(response)
  /\ UNCHANGED <<peer, stream, buffer, response, calls, reply, overlong,
                 result>>

(* recv returns SOCKET_ERROR: offset += -1.                                *)
RecvError ==
  /\ pc = "recv" /\ peer = "reset"
  /\ response' = IF response = <<>> THEN <<>> ELSE Front(response)
  /\ pc' = WhileAt(response')
  /\ UNCHANGED <<peer, stream, buffer, calls, reply, overlong, result>>

(* response[offset - 2]: with an offset below 2 that lies before the       *)
(* buffer and may be anything.                                             *)
SeesCarriageReturn ==
  IF Len(response) < 2 THEN {TRUE, FALSE}
  ELSE {response[Len(response) - 1].char = "\r"}

(* Mutant: the string ends behind the last byte.                           *)
TrimOffByOne ==
  /\ pc = "trim"
  /\ \E cr \in SeesCarriageReturn :
       LET offset == IF cr THEN Len(response) - 1 ELSE Len(response) IN
         result' = IF offset > 0 THEN Success(SubSeq(response, 1, offset + 1))
                   ELSE Error
  /\ pc' = "idle"
  /\ UNCHANGED <<peer, stream, buffer, response, calls, reply, overlong>>

(* Mutant: only '\n' is cut off.                                           *)
TrimNewlineOnly ==
  /\ pc = "trim"
  /\ result' = IF response # <<>> THEN Success(Front(response)) ELSE Error
  /\ pc' = "idle"
  /\ UNCHANGED <<peer, stream, buffer, response, calls, reply, overlong>>

(* Cut off "\r\n", or whatever the last byte is.                           *)
Trim ==
  /\ pc = "trim"
  /\ \E cr \in SeesCarriageReturn :
       LET offset == IF cr THEN Len(response) - 1 ELSE Len(response) IN
         result' = IF offset > 0 THEN Success(SubSeq(response, 1, offset - 1))
                   ELSE Error
  /\ pc' = "idle"
  /\ UNCHANGED <<peer, stream, buffer, response, calls, reply, overlong>>

(* The simulator goes away in order, after some part of what it wanted to  *)
(* send; or the connection breaks and takes with it what was under way.    *)
Disconnect ==
  /\ peer = "open"
  /\ \/ /\ peer' = "closed"
        /\ \E n \in 0 .. Len(stream) : stream' = SubSeq(stream, 1, n)
     \/ /\ peer' = "reset"
        /\ stream' = <<>>
  /\ UNCHANGED <<pc, buffer, response, calls, reply, overlong, result>>

Receive == RecvData \/ RecvClosed \/ RecvError \/ Trim

Next == Exchange \/ Receive \/ Disconnect

Spec == Init /\ [][Next]_vars

(* The thread inside receive goes on.                                      *)
FairSpec == Spec /\ WF_vars(Receive)

-----------------------------------------------------------------------------
(* Properties.                                                             *)

Bytes == [char : {"x", "\r", "\n"}, line : 1 .. MaxCalls]

(* The types of the variables; and what is returned has no line feed in it *)
(* as long as every line had room.                                         *)
TypeOK ==
  /\ peer \in {"open", "closed", "reset"}
  /\ stream \in Seq(Bytes)
  /\ pc \in {"idle", "recv", "trim"}
  /\ respLength \in Nat /\ room \in Nat
  /\ response \in Seq(Bytes)
  /\ calls \in 0 .. MaxCalls
  /\ reply \in Seq(Bytes)
  /\ overlong \in BOOLEAN
  /\ result \in [ok : BOOLEAN, text : Seq(Bytes)]
  /\ \A i \in DOMAIN result.text : result.text[i].char = "\n" => overlong

(* receive succeeds only with the whole of the reply that is due, however  *)
(* TCP cuts it up and wherever the connection ends                         *)
(* (persoSimConnect.cpp:136-154).                                          *)
WholeReplyOrError == pc = "idle" /\ result.ok => result.text = reply

(* It does so for as long as no line has been longer than what its caller  *)
(* offered.  One that was is what line_full is about.                      *)
WholeReplyUnlessOverlong == overlong \/ WholeReplyOrError

(* When it returns, nothing of a reply is left for the next exchange to    *)
(* read, unless a line was longer than what its caller offered             *)
(* (persoSimConnect.cpp:137-140).                                          *)
NothingLeftOver == pc = "idle" => stream = <<>> \/ overlong

(* receive offers recv respLength bytes in every round, though part of     *)
(* them is used (persoSimConnect.cpp:138).  It writes behind the buffer    *)
(* only once a line has been too long, and never behind the one of         *)
(* IoSmartCardControl, whose answers are most likely to be: it is longer   *)
(* than what is offered of it (device.cpp:315-316).                        *)
StaysInBuffer ==
  pc # "idle" /\ Len(response) > room => overlong /\ room = respLength

(* "if len == 0 after the first loop the connection was closed"            *)
(* (persoSimConnect.cpp:139): receive then returns.                        *)
ReceiveReturns == pc = "recv" /\ peer # "open" ~> pc = "idle"

(* It does unless the simulator closes in the middle of a line.            *)
ReceiveReturnsUnlessCut ==
  pc = "recv" /\ peer # "open" ~>
    (pc = "idle" \/ (peer = "closed" /\ stream = <<>> /\ response # <<>>))
=============================================================================
