-------------------------- MODULE LineReceiveProofs --------------------------
(***************************************************************************)
(* Proofs about LineReceive, for replies and buffers of any size.  As long *)
(* as no line is longer than what its caller offers, receive returns the   *)
(* whole reply or an error and leaves nothing behind, however TCP cuts it  *)
(* up and wherever the connection ends.  Afterwards it still never writes  *)
(* more than twice what is offered.                                        *)
(***************************************************************************)
EXTENDS LineReceive, SequenceTheorems, TLAPS

LineLength == Len(reply) + 2

(* The types, which hold whatever the lengths of the lines.                *)
Types ==
  /\ peer \in {"open", "closed", "reset"}
  /\ stream \in Seq(Bytes)
  /\ pc \in {"idle", "recv", "trim"}
  /\ respLength \in Nat /\ room \in Nat
  /\ response \in Seq(Bytes)
  /\ calls \in 0 .. MaxCalls
  /\ reply \in Seq(Bytes)
  /\ overlong \in BOOLEAN
  /\ result \in [ok : BOOLEAN, text : Seq(Bytes)]

(* receive goes on only while less than respLength bytes are stored, and   *)
(* stores respLength bytes more at most.                                   *)
Bounded ==
  /\ room = respLength \/ room = respLength * 2 + 1
  /\ pc = "recv" => response = <<>> \/ Len(response) < respLength
  /\ pc = "trim" => Len(response) <= respLength * 2

(* The bytes of a line with a body of the given size.                      *)
LineAt(i, size, line) ==
  Byte(IF i <= size THEN "x" ELSE IF i = size + 1 THEN "\r" ELSE "\n", line)

NoLineFeed == {b \in Bytes : b.char # "\n"}

(* The reply is digits of the current line, and has room in the buffer.    *)
ReplyFits ==
  /\ reply \in Seq(NoLineFeed)
  /\ \A i \in 1 .. Len(reply) : reply[i] = Byte("x", calls)
  /\ pc # "idle" => /\ calls > 0 /\ Len(reply) > 0
                    /\ LineLength <= respLength

(* What has been stored is a beginning of the line, what is unread goes on *)
(* from there; only the end of the connection takes bytes away.            *)
Underway ==
  pc # "idle" =>
    /\ Len(response) + Len(stream) <= LineLength
    /\ peer = "open" => Len(response) + Len(stream) = LineLength
    /\ \A i \in 1 .. Len(response) :
         response[i] = LineAt(i, Len(reply), calls)
    /\ \A i \in 1 .. Len(stream) :
         stream[i] = LineAt(Len(response) + i, Len(reply), calls)

(* receive leaves its loop with all or nothing.                            *)
AllOrNothing ==
  /\ pc = "recv" => Len(response) < LineLength
  /\ pc = "trim" => Len(response) \in {0, LineLength}
  /\ pc # "recv" => stream = <<>>
  /\ peer = "reset" => stream = <<>>

(* No line has been longer than what its caller offered.                   *)
AllFit ==
  /\ result.text \in Seq(NoLineFeed)
  /\ ReplyFits /\ Underway /\ AllOrNothing /\ WholeReplyOrError

Inv == Types /\ Bounded /\ (overlong \/ AllFit)

(* The body of a reply, and its line (persoSimConnect.cpp:130-136).        *)
LEMMA BodyProperties ==
  ASSUME NEW size \in Nat, NEW line \in 1 .. MaxCalls
  PROVE  /\ Body(size, line) \in Seq(NoLineFeed)
         /\ Len(Body(size, line)) = size
         /\ \A i \in 1 .. size : Body(size, line)[i] = Byte("x", line)
<1>1. Byte("x", line) \in NoLineFeed
  BY DEF Byte, NoLineFeed, Bytes
<1>2. Body(size, line) \in [1 .. size -> NoLineFeed]
  BY <1>1 DEF Body
<1>3. Body(size, line) \in Seq(NoLineFeed)
  BY <1>2
<1>4. Len(Body(size, line)) = size
  BY <1>2, <1>3, LenProperties
<1> QED
  BY <1>3, <1>4 DEF Body

(* The line end is two bytes (persoSimConnect.cpp:145).                    *)
LEMMA LineEndProperties ==
  ASSUME NEW line \in 1 .. MaxCalls
  PROVE  /\ LineEnd(line) \in Seq(Bytes)
         /\ Len(LineEnd(line)) = 2
         /\ LineEnd(line)[1] = Byte("\r", line)
         /\ LineEnd(line)[2] = Byte("\n", line)
BY DEF LineEnd, Byte, Bytes

(* A sequence without line feeds is one of bytes.                          *)
LEMMA NoLineFeedBytes == Seq(NoLineFeed) \subseteq Seq(Bytes)
<1>1. NoLineFeed \subseteq Bytes
  BY DEF NoLineFeed
<1> QED
  BY <1>1, SeqMonotonic

(* A line is LineAt, byte by byte.                                         *)
LEMMA LineProperties ==
  ASSUME NEW size \in Nat, NEW line \in 1 .. MaxCalls
  PROVE  /\ Body(size, line) \o LineEnd(line) \in Seq(Bytes)
         /\ Len(Body(size, line) \o LineEnd(line)) = size + 2
         /\ \A i \in 1 .. size + 2 :
              (Body(size, line) \o LineEnd(line))[i] = LineAt(i, size, line)
<1> DEFINE body == Body(size, line)
           end == LineEnd(line)
<1>1. /\ body \in Seq(Bytes) /\ Len(body) = size
      /\ \A i \in 1 .. size : body[i] = Byte("x", line)
  BY BodyProperties, NoLineFeedBytes
<1>2. /\ end \in Seq(Bytes) /\ Len(end) = 2
      /\ end[1] = Byte("\r", line) /\ end[2] = Byte("\n", line)
  BY LineEndProperties
<1> HIDE DEF body, end
<1>3. /\ body \o end \in Seq(Bytes)
      /\ Len(body \o end) = size + 2
      /\ \A i \in 1 .. size + 2 :
           (body \o end)[i] = IF i <= size THEN body[i] ELSE end[i - size]
  <2>1. /\ body \o end \in Seq(Bytes)
        /\ Len(body \o end) = Len(body) + Len(end)
        /\ \A i \in 1 .. Len(body) + Len(end) :
             (body \o end)[i] = IF i <= Len(body) THEN body[i]
                                ELSE end[i - Len(body)]
    BY <1>1, <1>2, ConcatProperties
  <2> QED
    BY <1>1, <1>2, <2>1
<1>4. ASSUME NEW i \in 1 .. size + 2
      PROVE  (body \o end)[i] = LineAt(i, size, line)
  <2>1. CASE i <= size
    BY <1>1, <1>3, <2>1 DEF LineAt
  <2>2. CASE i = size + 1
    BY <1>2, <1>3, <2>2 DEF LineAt
  <2>3. CASE i = size + 2
    BY <1>2, <1>3, <2>3 DEF LineAt
  <2>4. i <= size \/ i = size + 1 \/ i = size + 2
    OBVIOUS
  <2> QED
    BY <2>1, <2>2, <2>3, <2>4, Zenon
<1> QED
  BY <1>3, <1>4 DEF body, end

(* Only the last byte of a line is a line feed, and a carriage return      *)
(* precedes it.                                                            *)
LEMMA LineFeedEnds ==
  ASSUME NEW size \in Nat, NEW line, NEW i \in 1 .. size + 2
  PROVE  /\ LineAt(i, size, line).char = "\n" <=> i = size + 2
         /\ LineAt(size + 1, size, line).char = "\r"
BY DEF LineAt, Byte

(* A caller offers its whole buffer, or less than half of it               *)
(* (persoSimConnect.cpp:42-49, 252-343, device.cpp:315-316).               *)
LEMMA FunctionsType ==
  ASSUME NEW f \in Functions
  PROVE  /\ f.respLength \in Nat
         /\ f.room = f.respLength \/ f.room = f.respLength * 2 + 1
         /\ f.body \in Nat /\ f.body > 0
<1> USE LineReceiveAssumption DEF Caller
<1>1. ASSUME NEW n \in Nat
      PROVE  BodySize(n) \in Nat /\ BodySize(n) > 0
  BY DEF BodySize
<1>2. CASE f \in Handshake
  BY <1>2 DEF Handshake
<1>3. CASE f \in PSIMICCPresent
  BY <1>1, <1>3 DEF PSIMICCPresent
<1>4. CASE f \in PSIMPowerICC
  BY <1>1, <1>4 DEF PSIMPowerICC
<1>5. CASE f \in PSIMTransmitICC
  BY <1>1, <1>5 DEF PSIMTransmitICC
<1>6. CASE f \in IoSmartCardControl
  BY <1>1, <1>6 DEF IoSmartCardControl
<1> QED
  BY <1>2, <1>3, <1>4, <1>5, <1>6 DEF Functions

(* The loop of receive ends or goes on within what is offered.             *)
LEMMA WhileBounded ==
  ASSUME NEW bytes \in Seq(Bytes), respLength \in Nat,
         Len(bytes) <= respLength * 2
  PROVE  /\ WhileAt(bytes) \in {"recv", "trim"}
         /\ WhileAt(bytes) = "recv" => Len(bytes) < respLength
BY DEF WhileAt, Continues

(* Every step keeps the types and the bound, however long the lines are.   *)
LEMMA NextTypes ==
  ASSUME Types, Bounded, [Next]_vars
  PROVE  Types' /\ Bounded'
<1> USE DEF Types, Bounded, buffer
<1>1. CASE Exchange
  <2>1. PICK f \in Functions :
          /\ respLength' = f.respLength /\ room' = f.room
          /\ reply' = Body(f.body, calls + 1)
          /\ stream' = IF peer = "open"
                       THEN stream \o reply' \o LineEnd(calls + 1)
                       ELSE stream
          /\ overlong' = (overlong \/ f.body + 2 > f.respLength)
    BY <1>1 DEF Exchange
  <2>2. /\ calls' = calls + 1 /\ calls' \in 1 .. MaxCalls
        /\ pc' = "recv" /\ response' = <<>> /\ UNCHANGED <<peer, result>>
    BY <1>1, LineReceiveAssumption DEF Exchange
  <2>3. reply' \in Seq(Bytes) /\ LineEnd(calls + 1) \in Seq(Bytes)
    BY <2>1, <2>2, FunctionsType, BodyProperties, NoLineFeedBytes,
       LineEndProperties
  <2>4. stream' \in Seq(Bytes)
    BY <2>1, <2>3
  <2> QED
    BY <2>1, <2>2, <2>3, <2>4, FunctionsType
<1>2. CASE RecvData
  <2>1. PICK n \in 1 .. Len(stream) :
          /\ n <= respLength
          /\ response' = response \o SubSeq(stream, 1, n)
          /\ stream' = SubSeq(stream, n + 1, Len(stream))
    BY <1>2 DEF RecvData
  <2>2. pc = "recv" /\ pc' = WhileAt(response')
        /\ UNCHANGED <<peer, respLength, room, calls, reply, overlong, result>>
    BY <1>2 DEF RecvData
  <2>3. \A i \in 1 .. Len(stream) : stream[i] \in Bytes
    BY ElementOfSeq
  <2>4. /\ SubSeq(stream, 1, n) \in Seq(Bytes)
        /\ Len(SubSeq(stream, 1, n)) = n
        /\ stream' \in Seq(Bytes)
    BY <2>1, <2>3, SubSeqProperties
  <2>5. /\ response' \in Seq(Bytes)
        /\ Len(response') = Len(response) + n
    BY <2>1, <2>4, ConcatProperties
  <2>6. Len(response') <= respLength * 2
    BY <2>1, <2>2, <2>5
  <2>7. /\ pc' \in {"recv", "trim"}
        /\ pc' = "recv" => Len(response') < respLength
    BY <2>2, <2>5, <2>6, WhileBounded
  <2> QED
    BY <2>2, <2>4, <2>5, <2>6, <2>7
<1>3. CASE RecvClosed \/ RecvError
  <2>1. /\ pc = "recv" /\ pc' = WhileAt(response')
        /\ response' = response
             \/ response' = (IF response = <<>> THEN <<>> ELSE Front(response))
        /\ UNCHANGED <<peer, stream, buffer, room, calls, reply, overlong,
                       result>>
    BY <1>3 DEF RecvClosed, RecvError
  <2>2. response' \in Seq(Bytes) /\ Len(response') <= Len(response)
    <3>1. CASE response # <<>> /\ response' = Front(response)
      <4>1. Len(response) \in Nat \ {0}
        BY <3>1, EmptySeq
      <4>2. \A i \in 1 .. Len(response) - 1 : response[i] \in Bytes
        BY <4>1, ElementOfSeq
      <4> QED
        BY <3>1, <4>1, <4>2, SubSeqProperties DEF Front
    <3> QED
      BY <2>1, <3>1
  <2>3. Len(response') <= respLength * 2
    BY <2>1, <2>2
  <2>4. /\ pc' \in {"recv", "trim"}
        /\ pc' = "recv" => Len(response') < respLength
    BY <2>1, <2>2, <2>3, WhileBounded
  <2> QED
    BY <2>1, <2>2, <2>3, <2>4
<1>4. CASE Trim
  <2>1. PICK n \in Int : \/ result' = Success(SubSeq(response, 1, n))
                             /\ n <= Len(response)
                         \/ result' = Error
    <3>1. PICK cr \in SeesCarriageReturn :
            result' = IF (IF cr THEN Len(response) - 1
                          ELSE Len(response)) > 0
                      THEN Success(SubSeq(response, 1,
                             (IF cr THEN Len(response) - 1
                              ELSE Len(response)) - 1))
                      ELSE Error
      BY <1>4 DEF Trim
    <3> QED
      BY <3>1
  <2>2. \A i \in 1 .. Len(response) : response[i] \in Bytes
    BY ElementOfSeq
  <2>3. result' \in [ok : BOOLEAN, text : Seq(Bytes)]
    <3>1. <<>> \in Seq(Bytes)
      OBVIOUS
    <3>2. n <= Len(response) => SubSeq(response, 1, n) \in Seq(Bytes)
      BY <2>2, SubSeqProperties
    <3>3. Success(SubSeq(response, 1, n)) \in [ok : BOOLEAN, text : Seq(Bytes)]
            \/ n > Len(response)
      BY <3>2 DEF Success
    <3>4. Error \in [ok : BOOLEAN, text : Seq(Bytes)]
      BY <3>1 DEF Error
    <3> QED
      BY <2>1, <3>3, <3>4
  <2> QED
    BY <1>4, <2>3 DEF Trim
<1>5. CASE Disconnect
  <2>1. \A i \in 1 .. Len(stream) : stream[i] \in Bytes
    BY ElementOfSeq
  <2>2. stream' \in Seq(Bytes)
    <3>1. ASSUME NEW n \in 0 .. Len(stream)
          PROVE  SubSeq(stream, 1, n) \in Seq(Bytes)
      BY <2>1, SubSeqProperties
    <3>2. <<>> \in Seq(Bytes)
      OBVIOUS
    <3>3. \/ stream' = <<>>
          \/ \E n \in 0 .. Len(stream) : stream' = SubSeq(stream, 1, n)
      BY <1>5 DEF Disconnect
    <3> QED
      BY <3>1, <3>2, <3>3
  <2> QED
    BY <1>5, <2>2 DEF Disconnect
<1>6. CASE UNCHANGED vars
  BY <1>6 DEF vars
<1> QED
  BY <1>1, <1>2, <1>3, <1>4, <1>5, <1>6 DEF Next, Receive

(* The driver starts with no reply due.                                    *)
LEMMA InitInv == Init => Inv
<1> SUFFICES ASSUME Init PROVE Inv
  OBVIOUS
<1>1. <<>> \in Seq(NoLineFeed) /\ <<>> \in Seq(Bytes) /\ Len(<<>>) = 0
  OBVIOUS
<1>2. Types
  <2>1. Error \in [ok : BOOLEAN, text : Seq(Bytes)]
    BY <1>1 DEF Error
  <2>2. 0 \in 0 .. MaxCalls
    BY LineReceiveAssumption
  <2> QED
    BY <1>1, <2>1, <2>2 DEF Init, Types
<1>3. Bounded
  BY DEF Init, Bounded
<1>4. AllFit
  BY <1>1 DEF Init, AllFit, ReplyFits, Underway, AllOrNothing, Error,
     WholeReplyOrError
<1> QED
  BY <1>2, <1>3, <1>4 DEF Inv

(* The simulator sends a line, of which nothing has been read yet.         *)
LEMMA ExchangeInv ==
  ASSUME Types, AllFit, Exchange, ~overlong'
  PROVE  AllFit'
<1>1. PICK f \in Functions :
        /\ respLength' = f.respLength
        /\ reply' = Body(f.body, calls + 1)
        /\ stream' = IF peer = "open"
                     THEN stream \o reply' \o LineEnd(calls + 1)
                     ELSE stream
        /\ overlong' = (overlong \/ f.body + 2 > f.respLength)
  BY DEF Exchange
<1>2. /\ f.respLength \in Nat /\ f.body \in Nat /\ f.body > 0
      /\ f.body + 2 <= f.respLength
  <2>1. f.respLength \in Nat /\ f.body \in Nat /\ f.body > 0
    BY FunctionsType
  <2>2. ~(f.body + 2 > f.respLength)
    BY <1>1
  <2> QED
    BY <2>1, <2>2
<1>3. /\ calls' = calls + 1 /\ calls' \in 1 .. MaxCalls /\ calls' > 0
      /\ pc = "idle" /\ pc' = "recv" /\ response' = <<>>
      /\ peer' = peer /\ result' = result
  BY LineReceiveAssumption DEF Exchange, AllFit, Types
<1>4. /\ reply' \in Seq(NoLineFeed) /\ reply' \in Seq(Bytes)
      /\ Len(reply') = f.body
      /\ \A i \in 1 .. Len(reply') : reply'[i] = Byte("x", calls')
  BY <1>1, <1>2, <1>3, BodyProperties, NoLineFeedBytes
<1>5. ReplyFits'
  BY <1>1, <1>2, <1>3, <1>4 DEF ReplyFits, LineLength
<1>6. stream = <<>>
  BY <1>3 DEF AllFit, AllOrNothing
<1>7. Len(response') = 0 /\ Len(stream) = 0
  BY <1>3, <1>6
<1>8. /\ stream' \in Seq(Bytes)
      /\ Len(stream') <= Len(reply') + 2
      /\ peer = "open" => Len(stream') = Len(reply') + 2
      /\ peer # "open" => stream' = <<>>
      /\ \A i \in 1 .. Len(stream') : stream'[i] = LineAt(i, Len(reply'), calls')
  <2>1. CASE peer = "open"
    <3>1. stream' = Body(f.body, calls') \o LineEnd(calls')
      BY <1>1, <1>3, <1>4, <1>6, <2>1, ConcatEmptySeq
    <3>2. /\ stream' \in Seq(Bytes)
          /\ Len(stream') = f.body + 2
          /\ \A i \in 1 .. f.body + 2 : stream'[i] = LineAt(i, f.body, calls')
      BY <1>2, <1>3, <3>1, LineProperties
    <3>3. Len(stream') <= Len(reply') + 2
      BY <1>2, <1>4, <3>2
    <3> QED
      BY <1>4, <2>1, <3>2, <3>3
  <2>2. CASE peer # "open"
    BY <1>1, <1>2, <1>4, <1>6, <1>7, <2>2
  <2> QED
    BY <2>1, <2>2
<1>9. Underway'
  <2>1. ASSUME NEW i \in 1 .. Len(stream')
        PROVE  stream'[i] = LineAt(Len(response') + i, Len(reply'), calls')
    <3>1. Len(response') + i = i
      BY <1>7
    <3> QED
      BY <1>8, <3>1
  <2> QED
    BY <1>2, <1>3, <1>4, <1>7, <1>8, <2>1 DEF Underway, LineLength
<1>10. AllOrNothing'
  BY <1>2, <1>3, <1>4, <1>7, <1>8
     DEF AllOrNothing, LineLength, AllFit, Types
<1> QED
  BY <1>3, <1>5, <1>9, <1>10 DEF AllFit, WholeReplyOrError

(* Within the line the loop goes on, unless nothing has come               *)
(* (persoSimConnect.cpp:136).                                              *)
LEMMA WhileWithinLine ==
  ASSUME NEW bytes \in Seq(Bytes), Len(reply) \in Nat, respLength \in Nat,
         Len(bytes) < LineLength, LineLength <= respLength,
         \A i \in 1 .. Len(bytes) : bytes[i] = LineAt(i, Len(reply), calls)
  PROVE  WhileAt(bytes) = IF bytes = <<>> THEN "trim" ELSE "recv"
<1>1. Len(bytes) \in Nat /\ Len(bytes) < respLength
  BY LenProperties DEF LineLength
<1>2. CASE bytes # <<>>
  <2>1. /\ Len(bytes) \in 1 .. Len(bytes)
        /\ Len(bytes) \in 1 .. Len(reply) + 2 /\ Len(bytes) # Len(reply) + 2
    BY <1>1, <1>2, EmptySeq DEF LineLength
  <2>2. Last(bytes) = LineAt(Len(bytes), Len(reply), calls)
    BY <2>1 DEF Last
  <2>3. Last(bytes).char # "\n"
    BY <2>1, <2>2, LineFeedEnds
  <2> QED
    BY <1>1, <1>2, <2>3 DEF WhileAt, Continues
<1> QED
  BY <1>2 DEF WhileAt, Continues

(* What recv returns continues what has been stored; the loop ends with    *)
(* the line.                                                               *)
LEMMA RecvDataInv ==
  ASSUME Types, AllFit, RecvData
  PROVE  AllFit'
<1>1. PICK n \in 1 .. Len(stream) :
        /\ response' = response \o SubSeq(stream, 1, n)
        /\ stream' = SubSeq(stream, n + 1, Len(stream))
  BY DEF RecvData, buffer
<1>2. /\ pc = "recv" /\ pc' = WhileAt(response') /\ peer # "reset"
      /\ UNCHANGED <<peer, respLength, calls, reply, result>>
  BY DEF RecvData, buffer
<1>3. /\ stream \in Seq(Bytes) /\ response \in Seq(Bytes)
      /\ Len(stream) \in Nat /\ Len(response) \in Nat /\ Len(reply) \in Nat
      /\ respLength \in Nat /\ n \in Nat /\ n > 0 /\ n <= Len(stream)
  BY <1>1 DEF AllFit, Types
<1>4. /\ SubSeq(stream, 1, n) \in Seq(Bytes)
      /\ Len(SubSeq(stream, 1, n)) = n
      /\ \A i \in 1 .. n : SubSeq(stream, 1, n)[i] = stream[i]
  <2>1. \A i \in 1 .. n : stream[i] \in Bytes
    BY <1>3, ElementOfSeq
  <2> QED
    BY <1>3, <2>1, SubSeqProperties
<1>5. /\ stream' \in Seq(Bytes)
      /\ Len(stream') = Len(stream) - n
      /\ \A i \in 1 .. Len(stream) - n : stream'[i] = stream[n + i]
  <2>1. \A i \in n + 1 .. Len(stream) : stream[i] \in Bytes
    BY <1>3, ElementOfSeq
  <2> QED
    BY <1>1, <1>3, <2>1, SubSeqProperties
<1>6. /\ response' \in Seq(Bytes)
      /\ Len(response') = Len(response) + n
      /\ \A i \in 1 .. Len(response) + n :
           response'[i] = IF i <= Len(response) THEN response[i]
                          ELSE stream[i - Len(response)]
  BY <1>1, <1>3, <1>4, ConcatProperties
<1>7. \A i : LineAt(i, Len(reply'), calls') = LineAt(i, Len(reply), calls)
  BY <1>2 DEF LineAt
<1>8. Underway'
  <2>1. ASSUME NEW i \in 1 .. Len(response')
        PROVE  response'[i] = LineAt(i, Len(reply), calls)
    <3>1. CASE i <= Len(response)
      BY <1>2, <1>3, <1>6, <3>1 DEF AllFit, Underway
    <3>2. CASE i > Len(response)
      <4> DEFINE j == i - Len(response)
      <4>1. j \in 1 .. Len(stream) /\ Len(response) + j = i
        BY <1>3, <1>6, <3>2
      <4>2. response'[i] = stream[j]
        BY <1>3, <1>6, <3>2
      <4> QED
        BY <1>2, <4>1, <4>2 DEF AllFit, Underway
    <3> QED
      BY <1>3, <1>6, <3>1, <3>2
  <2>2. ASSUME NEW i \in 1 .. Len(stream')
        PROVE  stream'[i] = LineAt(Len(response') + i, Len(reply), calls)
    <3>1. n + i \in 1 .. Len(stream) /\ i \in 1 .. Len(stream) - n
      BY <1>3, <1>5
    <3>2. stream'[i] = LineAt(Len(response) + (n + i), Len(reply), calls)
      BY <1>2, <1>5, <3>1 DEF AllFit, Underway
    <3>3. Len(response) + (n + i) = Len(response') + i
      BY <1>3, <1>6, <3>1
    <3> QED
      BY <3>2, <3>3
  <2>3. /\ Len(response') + Len(stream') <= LineLength'
        /\ peer' = "open" => Len(response') + Len(stream') = LineLength'
    <3>1. Len(response') + Len(stream') = Len(response) + Len(stream)
      BY <1>3, <1>5, <1>6
    <3>2. /\ Len(response) + Len(stream) <= LineLength
          /\ peer = "open" => Len(response) + Len(stream) = LineLength
      BY <1>2 DEF AllFit, Underway
    <3>3. LineLength' = LineLength
      BY <1>2 DEF LineLength
    <3> QED
      BY <1>2, <3>1, <3>2, <3>3
  <2> QED
    BY <1>2, <1>7, <2>1, <2>2, <2>3 DEF Underway
<1>9. /\ Len(response') > 0 /\ response' # <<>>
      /\ Last(response') = LineAt(Len(response'), Len(reply), calls)
      /\ Len(response') <= LineLength /\ LineLength <= respLength
      /\ LineLength = Len(reply) + 2
  <2>1. Len(response') \in 1 .. Len(response')
    BY <1>3, <1>6
  <2>2. pc' # "idle"
    BY <1>2 DEF WhileAt
  <2>3. response'[Len(response')] = LineAt(Len(response'), Len(reply), calls)
    BY <1>7, <1>8, <2>1, <2>2 DEF Underway
  <2>4. Len(response') <= LineLength
    BY <1>2, <1>3, <1>5, <1>6 DEF AllFit, Underway, LineLength
  <2>5. LineLength <= respLength /\ LineLength = Len(reply) + 2
    BY <1>2 DEF AllFit, ReplyFits, LineLength
  <2>6. Len(response') > 0 /\ response' # <<>>
    BY <1>3, <1>6
  <2> QED
    BY <2>3, <2>4, <2>5, <2>6 DEF Last
<1>10. AllOrNothing'
  <2>1. CASE Len(response') = LineLength
    <3>1. Last(response').char = "\n"
      BY <1>3, <1>9, <2>1, LineFeedEnds
    <3>2. pc' = "trim"
      BY <1>2, <3>1 DEF WhileAt, Continues
    <3>3. Len(stream') = 0
      BY <1>2, <1>3, <1>5, <1>6, <2>1 DEF AllFit, Underway, LineLength
    <3>4. stream' = <<>>
      BY <1>5, <3>3, EmptySeq
    <3>5. LineLength' = LineLength
      BY <1>2 DEF LineLength
    <3> QED
      BY <2>1, <3>2, <3>4, <3>5 DEF AllOrNothing
  <2>2. CASE Len(response') < LineLength
    <3>1. \A i \in 1 .. Len(response') :
            response'[i] = LineAt(i, Len(reply), calls)
      BY <1>2, <1>7, <1>8 DEF Underway, WhileAt
    <3>2. pc' = "recv"
      BY <1>2, <1>3, <1>6, <1>9, <2>2, <3>1, WhileWithinLine
    <3>3. LineLength' = LineLength
      BY <1>2 DEF LineLength
    <3> QED
      BY <1>2, <2>2, <3>2, <3>3 DEF AllOrNothing
  <2> QED
    BY <1>3, <1>6, <1>9, <2>1, <2>2
<1>11. pc' \in {"recv", "trim"}
  BY <1>2 DEF WhileAt
<1>13. ReplyFits'
  BY <1>2, <1>11 DEF AllFit, ReplyFits, LineLength
<1> QED
  BY <1>2, <1>8, <1>10, <1>11, <1>13 DEF AllFit, WholeReplyOrError

(* While receive is in its loop, what it has is a beginning of the line.   *)
LEMMA InsideLine ==
  ASSUME Types, AllFit, pc = "recv"
  PROVE  /\ response \in Seq(Bytes) /\ Len(response) \in Nat
         /\ Len(reply) \in Nat /\ respLength \in Nat
         /\ Len(response) < LineLength /\ LineLength <= respLength
         /\ \A i \in 1 .. Len(response) :
              response[i] = LineAt(i, Len(reply), calls)
BY DEF AllFit, Types, ReplyFits, Underway, AllOrNothing

(* An ended stream brings nothing more: without a byte the loop ends, with *)
(* a part of a line it goes on for ever.                                   *)
LEMMA RecvClosedInv ==
  ASSUME Types, AllFit, RecvClosed
  PROVE  AllFit'
<1>1. /\ pc = "recv" /\ stream = <<>> /\ pc' = WhileAt(response)
      /\ UNCHANGED <<peer, stream, respLength, response, calls, reply, result>>
  <2>1. pc = "recv"
    BY DEF RecvClosed
  <2>2. respLength # 0
    BY <2>1, InsideLine DEF LineLength
  <2> QED
    BY <2>2 DEF RecvClosed, buffer
<1>2. WhileAt(response) = IF response = <<>> THEN "trim" ELSE "recv"
  BY <1>1, InsideLine, WhileWithinLine
<1>3. /\ pc' \in {"recv", "trim"}
      /\ pc' = "trim" => response' = <<>>
  BY <1>1, <1>2
<1>5. ReplyFits'
  BY <1>1, <1>3 DEF AllFit, ReplyFits, LineLength
<1>6. Underway'
  BY <1>1, <1>3 DEF AllFit, Underway, LineLength
<1>7. AllOrNothing'
  BY <1>1, <1>3 DEF AllFit, AllOrNothing, LineLength
<1> QED
  BY <1>1, <1>3, <1>5, <1>6, <1>7 DEF AllFit, WholeReplyOrError

(* An error takes a byte back each time, until there is none left.         *)
LEMMA RecvErrorInv ==
  ASSUME Types, AllFit, RecvError
  PROVE  AllFit'
<1>1. /\ pc = "recv" /\ peer = "reset" /\ pc' = WhileAt(response')
      /\ response' = IF response = <<>> THEN <<>> ELSE Front(response)
      /\ UNCHANGED <<peer, stream, respLength, calls, reply, result>>
  BY DEF RecvError, buffer
<1>2. stream = <<>> /\ stream' = <<>> /\ Len(stream) = 0
  BY <1>1 DEF AllFit, AllOrNothing
<1>3. /\ response' \in Seq(Bytes) /\ Len(response') \in Nat
      /\ Len(response') <= Len(response)
      /\ \A i \in 1 .. Len(response') : response'[i] = response[i]
  <2>1. CASE response = <<>>
    BY <1>1, <2>1, InsideLine
  <2>2. CASE response # <<>>
    <3>1. response \in Seq(Bytes) /\ Len(response) \in Nat \ {0}
      BY <1>1, <2>2, InsideLine, EmptySeq
    <3>2. response' = SubSeq(response, 1, Len(response) - 1)
      BY <1>1, <2>2 DEF Front
    <3>3. \A i \in 1 .. Len(response) - 1 : response[i] \in Bytes
      BY <3>1, ElementOfSeq
    <3> QED
      BY <3>1, <3>2, <3>3, SubSeqProperties
  <2> QED
    BY <2>1, <2>2
<1>4. /\ Len(response') < LineLength /\ LineLength <= respLength
      /\ \A i \in 1 .. Len(response') :
           response'[i] = LineAt(i, Len(reply), calls)
  BY <1>1, <1>3, InsideLine DEF LineLength
<1>5. WhileAt(response') = IF response' = <<>> THEN "trim" ELSE "recv"
  BY <1>1, <1>3, <1>4, InsideLine, WhileWithinLine
<1>6. /\ pc' \in {"recv", "trim"}
      /\ pc' = "trim" => Len(response') = 0
  BY <1>1, <1>5
<1>8. ReplyFits'
  BY <1>1, <1>6 DEF AllFit, ReplyFits, LineLength
<1>9. Underway'
  <2>1. Len(response') + Len(stream') <= LineLength'
    BY <1>1, <1>2, <1>3, <1>4, InsideLine DEF LineLength
  <2> QED
    BY <1>1, <1>2, <1>4, <2>1 DEF Underway
<1>10. AllOrNothing'
  BY <1>1, <1>2, <1>4, <1>6 DEF AllOrNothing, LineLength
<1> QED
  BY <1>1, <1>6, <1>8, <1>9, <1>10 DEF AllFit, WholeReplyOrError

(* The line end is cut off a whole line, and nothing else is a success     *)
(* (persoSimConnect.cpp:143-154).                                          *)
LEMMA TrimInv ==
  ASSUME Types, AllFit, Trim
  PROVE  AllFit'
<1>1. PICK cr \in SeesCarriageReturn :
        result' = IF (IF cr THEN Len(response) - 1 ELSE Len(response)) > 0
                  THEN Success(SubSeq(response, 1,
                         (IF cr THEN Len(response) - 1
                          ELSE Len(response)) - 1))
                  ELSE Error
  BY DEF Trim, buffer
<1>2. /\ pc = "trim" /\ pc' = "idle"
      /\ UNCHANGED <<peer, stream, respLength, response, calls, reply>>
  BY DEF Trim, buffer
<1>3. /\ response \in Seq(Bytes) /\ Len(response) \in Nat
      /\ reply \in Seq(NoLineFeed) /\ Len(reply) \in Nat /\ Len(reply) > 0
      /\ \A i \in 1 .. Len(reply) : reply[i] = Byte("x", calls)
      /\ \A i \in 1 .. Len(response) :
           response[i] = LineAt(i, Len(reply), calls)
      /\ Len(response) \in {0, Len(reply) + 2}
  BY <1>2 DEF AllFit, Types, ReplyFits, Underway, AllOrNothing, LineLength
<1>4. /\ result' \in [ok : BOOLEAN, text : Seq(NoLineFeed)]
      /\ result'.ok => result'.text = reply
  <2>1. CASE Len(response) = 0
    <3>1. result' = Error
      BY <1>1, <2>1
    <3>2. <<>> \in Seq(NoLineFeed)
      OBVIOUS
    <3> QED
      BY <3>1, <3>2 DEF Error
  <2>2. CASE Len(response) = Len(reply) + 2
    <3>1. /\ Len(reply) + 1 \in 1 .. Len(response)
          /\ Len(response) - 1 = Len(reply) + 1
      BY <1>3, <2>2
    <3>2. response[Len(response) - 1].char = "\r"
      <4>1. Len(reply) + 1 \in 1 .. Len(reply) + 2
        BY <1>3
      <4>2. LineAt(Len(reply) + 1, Len(reply), calls).char = "\r"
        BY <1>3, <4>1, LineFeedEnds
      <4> QED
        BY <1>3, <3>1, <4>2
    <3>3. cr
      <4>1. ~(Len(response) < 2)
        BY <1>3, <2>2
      <4>2. SeesCarriageReturn = {response[Len(response) - 1].char = "\r"}
        BY <4>1, Zenon DEF SeesCarriageReturn
      <4>3. cr = (response[Len(response) - 1].char = "\r")
        BY <1>1, <4>2, Zenon
      <4> QED
        BY <3>2, <4>3, Zenon
    <3>4. result' = Success(SubSeq(response, 1, Len(reply)))
      BY <1>1, <1>3, <2>2, <3>3
    <3>5. ASSUME NEW i \in 1 .. Len(reply)
          PROVE  response[i] = reply[i]
      BY <1>3, <2>2 DEF LineAt
    <3>6. \A i \in 1 .. Len(reply) : response[i] \in NoLineFeed
      BY <1>3, <3>5, ElementOfSeq
    <3>7. /\ SubSeq(response, 1, Len(reply)) \in Seq(NoLineFeed)
          /\ Len(SubSeq(response, 1, Len(reply))) = Len(reply)
          /\ \A i \in 1 .. Len(reply) :
               SubSeq(response, 1, Len(reply))[i] = reply[i]
      BY <1>3, <3>5, <3>6, SubSeqProperties
    <3>8. SubSeq(response, 1, Len(reply)) = reply
      BY <1>3, <3>7, SeqEqual
    <3> QED
      BY <1>3, <3>4, <3>8 DEF Success
  <2> QED
    BY <1>3, <2>1, <2>2
<1>6. ReplyFits'
  BY <1>2 DEF AllFit, ReplyFits
<1>7. Underway' /\ AllOrNothing'
  BY <1>2 DEF AllFit, Underway, AllOrNothing
<1> QED
  BY <1>2, <1>4, <1>6, <1>7 DEF AllFit, WholeReplyOrError

(* The end of the connection takes bytes from the end of what is unread,   *)
(* or all of them.                                                         *)
LEMMA DisconnectInv ==
  ASSUME Types, AllFit, Disconnect
  PROVE  AllFit'
<1>1. /\ peer' \in {"closed", "reset"}
      /\ UNCHANGED <<pc, respLength, response, calls, reply, result>>
  BY DEF Disconnect, buffer
<1>2. /\ stream \in Seq(Bytes) /\ Len(stream) \in Nat
      /\ response \in Seq(Bytes) /\ Len(response) \in Nat
      /\ Len(reply) \in Nat
  BY DEF AllFit, Types
<1>3. /\ stream' \in Seq(Bytes) /\ Len(stream') <= Len(stream)
      /\ \A i \in 1 .. Len(stream') : stream'[i] = stream[i]
      /\ stream = <<>> => stream' = <<>>
      /\ peer' = "reset" => stream' = <<>>
  <2>1. CASE peer' = "reset"
    <3>1. stream' = <<>>
      BY <2>1 DEF Disconnect
    <3> QED
      BY <1>2, <3>1
  <2>2. CASE peer' = "closed"
    <3>1. PICK n \in 0 .. Len(stream) : stream' = SubSeq(stream, 1, n)
      BY <2>2 DEF Disconnect
    <3>2. \A i \in 1 .. n : stream[i] \in Bytes
      BY <1>2, ElementOfSeq
    <3>3. /\ stream' \in Seq(Bytes) /\ Len(stream') = n
          /\ \A i \in 1 .. n : stream'[i] = stream[i]
      BY <1>2, <3>1, <3>2, SubSeqProperties
    <3>4. stream = <<>> => stream' = <<>>
      BY <1>2, <3>3, EmptySeq
    <3> QED
      BY <1>2, <2>2, <3>1, <3>3, <3>4
  <2> QED
    BY <1>1, <2>1, <2>2
<1>5. ReplyFits'
  BY <1>1 DEF AllFit, ReplyFits, LineLength
<1>6. Underway'
  BY <1>1, <1>2, <1>3 DEF AllFit, Underway, LineLength
<1>7. AllOrNothing'
  BY <1>1, <1>3 DEF AllFit, AllOrNothing, LineLength
<1> QED
  BY <1>1, <1>5, <1>6, <1>7 DEF AllFit, WholeReplyOrError

(* Every step keeps what holds of lines that fit, as long as they fit.     *)
LEMMA NextAllFit ==
  ASSUME Types, AllFit, [Next]_vars, ~overlong'
  PROVE  AllFit'
<1>1. CASE UNCHANGED vars
  BY <1>1 DEF vars, buffer, AllFit, ReplyFits, Underway, AllOrNothing,
              LineLength, WholeReplyOrError
<1>2. CASE Next
  BY <1>2, ExchangeInv, RecvDataInv, RecvClosedInv, RecvErrorInv, TrimInv,
     DisconnectInv
     DEF Next, Receive
<1> QED
  BY <1>1, <1>2

(* Once a line has been too long, the types and the bound are what is      *)
(* left.                                                                   *)
LEMMA SpecInv == Spec => []Inv
<1>1. Init => Inv
  BY InitInv
<1>2. Inv /\ [Next]_vars => Inv'
  <2> SUFFICES ASSUME Inv, [Next]_vars, ~overlong'
               PROVE  AllFit'
    BY NextTypes DEF Inv
  <2>1. ~overlong
    <3>1. overlong => overlong'
      BY DEF Next, Exchange, Receive, RecvData, RecvClosed, RecvError, Trim,
         Disconnect, vars
    <3> QED
      BY <3>1
  <2> QED
    BY <2>1, NextAllFit DEF Inv
<1> QED
  BY <1>1, <1>2, PTL DEF Spec

(* The types of the variables; what receive returns has no line feed in it *)
(* as long as every line had room (persoSimConnect.cpp:130-155).           *)
THEOREM LineReceiveType == Spec => []TypeOK
<1>1. Inv => TypeOK
  <2> SUFFICES ASSUME Inv, ~overlong, NEW i \in DOMAIN result.text
               PROVE  result.text[i].char # "\n"
    BY DEF Inv, Types, TypeOK
  <2>1. result.text \in Seq(NoLineFeed)
    BY DEF Inv, AllFit
  <2>2. result.text[i] \in NoLineFeed
    BY <2>1, ElementOfSeq
  <2> QED
    BY <2>2 DEF NoLineFeed
<1> QED
  BY <1>1, SpecInv, PTL

(* receive succeeds only with the whole of the reply that is due, in       *)
(* whatever pieces it comes and wherever the connection ends, as long as   *)
(* every line had room (persoSimConnect.cpp:136-154).                      *)
THEOREM WholeReplyUnlessOverlongHolds == Spec => []WholeReplyUnlessOverlong
<1>1. Inv => WholeReplyUnlessOverlong
  BY DEF Inv, AllFit, WholeReplyUnlessOverlong
<1> QED
  BY <1>1, SpecInv, PTL

(* When receive returns, the next exchange finds nothing of this reply, as *)
(* long as every line had room (persoSimConnect.cpp:137-140).              *)
THEOREM NothingLeftOverHolds == Spec => []NothingLeftOver
<1>1. Inv => NothingLeftOver
  BY DEF Inv, AllFit, AllOrNothing, NothingLeftOver
<1> QED
  BY <1>1, SpecInv, PTL

(* receive writes behind its buffer only when a line has been too long,    *)
(* and never behind that of IoSmartCardControl, whatever arrives           *)
(* (persoSimConnect.cpp:138, device.cpp:315-316).                          *)
THEOREM StaysInBufferHolds == Spec => []StaysInBuffer
<1>1. Inv => StaysInBuffer
  <2> SUFFICES ASSUME Inv, pc # "idle", Len(response) > room
               PROVE  overlong /\ room = respLength
    BY DEF StaysInBuffer
  <2>1. /\ respLength \in Nat /\ Len(response) \in Nat /\ room \in Nat
        /\ room = respLength \/ room = respLength * 2 + 1
    BY DEF Inv, Types, Bounded
  <2>2. Len(response) <= respLength * 2
    BY <2>1 DEF Inv, Types, Bounded
  <2>3. room = respLength
    BY <2>1, <2>2
  <2>4. AllFit => Len(response) <= respLength
    BY <2>1 DEF AllFit, Inv, Types, ReplyFits, Underway, LineLength
  <2> QED
    BY <2>1, <2>3, <2>4 DEF Inv
<1> QED
  BY <1>1, SpecInv, PTL
=============================================================================
