--------------------------- MODULE MCPcscMessages ---------------------------
(***************************************************************************)
(* The conversions over bounded inputs: a state is one input, and a step   *)
(* makes it longer.                                                        *)
(***************************************************************************)
EXTENDS PcscMessages

CONSTANTS
  SampleBytes, MaxBytes,  \* byte arrays
  SampleChars, MaxChars,  \* strings
  SampleCodes             \* response codes

Words == 0 .. Weight[WordBytes] - 1

ASSUME SamplesAssumption ==
  /\ SampleBytes \subseteq Byte /\ SampleChars \subseteq Char
  /\ SampleCodes \subseteq Words
  /\ MaxBytes \in Nat /\ MaxChars \in Nat

VARIABLES bytes, text, word

vars == <<bytes, text, word>>

Init == bytes = <<>> /\ text = <<>> /\ word = 0

LongerArray ==
  /\ text = <<>> /\ word = 0 /\ Len(bytes) < MaxBytes
  /\ \E b \in SampleBytes : bytes' = Append(bytes, b)
  /\ UNCHANGED <<text, word>>

LongerString ==
  /\ bytes = <<>> /\ word = 0 /\ Len(text) < MaxChars
  /\ \E c \in SampleChars : text' = Append(text, c)
  /\ UNCHANGED <<bytes, word>>

NextWord ==
  /\ bytes = <<>> /\ text = <<>> /\ word + 1 \in Words
  /\ word' = word + 1
  /\ UNCHANGED <<bytes, text>>

Next == LongerArray \/ LongerString \/ NextWord

Spec == Init /\ [][Next]_vars

(* What HexByteArray2String writes, HexString2CharArray reads back: an     *)
(* APDU or an ATR arrives as it was sent (hexString.cpp:68-77, 79-109).    *)
ArrayRoundTrip == HexString2CharArray(HexByteArray2String(bytes)) = bytes

(* The same for an int (hexString.cpp:56-66, 111-125).                     *)
IntRoundTrip == HexString2Int(HexInt2String(word)) = word

(* A string of odd length means the same as with a '0' in front            *)
(* (hexString.cpp:85-94).                                                  *)
OddLengthIsPadded ==
  Len(text) % 2 = 1 =>
    HexString2CharArray(text) = HexString2CharArray(<<Zero>> \o text)

(* The value of an array of bytes, its first byte the most significant.    *)
BigEndian(array) ==
  LET value[i \in 0 .. Len(array)] ==
        IF i = 0 THEN 0 ELSE value[i - 1] * 256 + array[i]
  IN value[Len(array)]

(* The two ways to read a string agree: the int is what the last bytes of  *)
(* the array make, whatever the case of the digits and also where there is *)
(* no digit at all (hexString.cpp:79-125).                                 *)
IntAgreesWithArray ==
  HexString2Int(text) =
    BigEndian(HexString2CharArray(text)) % Weight[WordBytes]

(* A reply is taken apart into the code and the payload it was made of,    *)
(* with a payload and without (persoSimConnect.cpp:252-258, 281-290,       *)
(* 334-341).                                                               *)
ReplyIsUnderstood ==
  \A code \in SampleCodes :
    LET response == Reply(code, bytes) IN
      /\ extractPcscResponseCode(response) = code
      /\ Payload(response) = bytes

(* The buffers of a request hold it and its '\0', and the early '\0' is    *)
(* written inside (persoSimConnect.cpp:202-216, 263-267, 318-321,          *)
(* device.cpp:303-310).                                                    *)
RequestFits ==
  LET function == <<Zero + 1, Zero + 5>>
      fits(params) ==
        /\ Len(RequestMessage(function, params)) + 1
             <= MsgBufferSize(function, params)
        /\ TerminatedAt(params) < MsgBufferSize(function, params)
  IN /\ Len(TransmitParams(bytes, word)) + 1 <= TransmitParamsSize(bytes)
     /\ Len(PowerParams(word, word)) + 1 <= PowerParamsSize
     /\ fits(<<>>)
     /\ Len(ControlParams(word, bytes, word)) + 1 <= ControlParamsSize(bytes)
     /\ fits(TransmitParams(bytes, word))
     /\ fits(ControlParams(word, bytes, word))
=============================================================================
