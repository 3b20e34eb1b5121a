---------------------------- MODULE PcscMessages ----------------------------
(***************************************************************************)
(* The messages that Driver/persoSimConnect.cpp exchanges with the         *)
(* simulator, as strings: how requests are put together, in buffers of     *)
(* which size, and how replies are taken apart.                            *)
(***************************************************************************)
EXTENDS HexString

Divider == 124  \* '|'

(* A code, a lun or a length in a message: the digits of an int.           *)
Digits == 2 * WordBytes

LunField == [i \in 1 .. Digits |-> Zero]

-----------------------------------------------------------------------------
(* Requests.                                                               *)

(* PSIMTransmitICC: the command APDU and the room for the response.        *)
TransmitParams(TxBuffer, RxLength) ==
  HexByteArray2String(TxBuffer) \o <<Divider>> \o HexInt2String(RxLength)

TransmitParamsSize(TxBuffer) == Len(TxBuffer) * 2 + 1 + 1 + Digits

(* PSIMPowerICC: the action and the room for the ATR, in params[18].       *)
PowerParams(action, ATRsize) ==
  HexInt2String(action) \o <<Divider>> \o HexInt2String(ATRsize)

PowerParamsSize == 2 * Digits + 2

(* IoSmartCardControl: the control code, the caller's data and the room    *)
(* for the answer.                                                         *)
ControlParams(controlCode, APDU, outBufSize) ==
  HexInt2String(controlCode) \o <<Divider>> \o HexByteArray2String(APDU)
    \o <<Divider>> \o HexInt2String(outBufSize)

ControlParamsSize(APDU) == Digits + 1 + Len(APDU) * 2 + 1 + Digits + 1

(* exchangePcscFunction: function, lun and, if there are any, parameters.  *)
RequestMessage(function, params) ==
  function \o <<Divider>> \o LunField
    \o (IF params = <<>> THEN <<>> ELSE <<Divider>> \o params)

(* Mutant: one divider is forgotten.                                       *)
MsgBufferSizeOneDivider(function, params) ==
  Len(function) + 1 + 1 + Digits + Len(params)

MsgBufferSize(function, params) ==
  Len(function) + 1 + 2 + Digits + Len(params)

(* The place that is set to '\0' before the parameters are appended.       *)
TerminatedAt(params) ==
  LET minLength == 2 + 1 + Digits + 1
  IN (IF params = <<>> THEN minLength ELSE minLength + 1 + Len(params)) - 1

-----------------------------------------------------------------------------
(* Replies.                                                                *)

(* The simulator's: a response code, and the payload if there is one.      *)
Reply(code, payload) ==
  HexInt2String(code)
    \o (IF payload = <<>> THEN <<>>
        ELSE <<Divider>> \o HexByteArray2String(payload))

extractPcscResponseCode(response) ==
  HexString2Int(SubSeq(response, 1,
                       IF Len(response) < Digits THEN Len(response) ELSE Digits))

(* Mutant: the divider is taken for a digit.                               *)
PayloadFromDivider(response) ==
  IF Len(response) > Digits + 1
  THEN HexString2CharArray(SubSeq(response, Digits + 1, Len(response)))
  ELSE <<>>

(* strlen(response) > 9: what begins at response[9].                       *)
Payload(response) ==
  IF Len(response) > Digits + 1
  THEN HexString2CharArray(SubSeq(response, Digits + 2, Len(response)))
  ELSE <<>>
=============================================================================
