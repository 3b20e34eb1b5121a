------------------------------ MODULE CardState ------------------------------
(***************************************************************************)
(* The ioctls of the reader that answer at once (Driver/device.cpp):       *)
(* GET_STATE, POWER, GET_ATTRIBUTE, SET_ATTRIBUTE, TRANSMIT and the        *)
(* control codes; the memory of their requests (Driver/memory.cpp); and    *)
(* the member state, in which the driver remembers what it believes of the *)
(* card.                                                                   *)
(*                                                                         *)
(* The handlers run one at a time under the device lock.  But the card     *)
(* lives in the simulator: it comes and goes between two requests and      *)
(* between the two exchanges of a cold reset, and a reply may be lost      *)
(* after the simulator has done what it was asked to do.  And a reply for  *)
(* which there is no room stays in the connection, where the next exchange *)
(* takes it for its own (LineReceive has this byte by byte).               *)
(***************************************************************************)
EXTENDS Naturals, Sequences

VARIABLES
  card,       \* the card in the simulator
  connected,  \* does an exchange reach the simulator?
  behind,     \* is a reply, or the rest of one, unread in the connection?
  state,      \* VirtualReaderDevice::state
  request,    \* the request in progress, or the last one
  memory,     \* which memory of it exists: NULL for a length of zero
  pc,         \* "idle", "begin" of the handler, "up" within a cold reset
  ATR,        \* the first ATRsize bytes of the handler's buffer
  replies,    \* the completions of the request
  undefined   \* has the process done something C++ leaves undefined?

vars == <<card, connected, behind, state, request, memory, pc, ATR, replies,
          undefined>>

Cards == {"absent", "unpowered", "powered"}

States == {"SCARD_UNKNOWN", "SCARD_ABSENT", "SCARD_PRESENT", "SCARD_SPECIFIC"}

Results == {"PSIM_SUCCESS", "code", "PSIM_COMMUNICATION_ERROR"}

Ioctl(ioctl, codes) == [ioctl : {ioctl}, code : codes]

(* "known" stands for the attributes that have a constant value.           *)
Requests ==
  Ioctl("GET_STATE", {"none"})
    \cup Ioctl("POWER", {"COLD_RESET", "WARM_RESET", "POWER_DOWN", "unknown"})
    \cup Ioctl("GET_ATTRIBUTE", {"ATR_STRING", "known", "unknown"})
    \cup Ioctl("SET_ATTRIBUTE", {"DEVICE_IN_USE", "unknown"})
    \cup Ioctl("TRANSMIT", {"none"})
    \cup Ioctl("CONTROL", {"none"})

NoRequest == [ioctl |-> "none", code |-> "none"]

Memories == [input : BOOLEAN, output : BOOLEAN]

(* What a reply carries: "garbage" are bytes nobody has written, "stale"   *)
(* what the simulator has sent for an earlier exchange.                    *)
Contents ==
  {"nothing", "garbage", "stale", "ATR", "response", "constant"} \cup States

Statuses == {"SUCCESS", "NO_MEDIA", "NOT_SUPPORTED", "ERROR_GEN_FAILURE"}

Reply(status, data) == [status |-> status, data |-> data]

Init ==
  /\ card \in Cards
  /\ connected \in BOOLEAN
  /\ behind = FALSE
  /\ state = "SCARD_ABSENT"
  /\ request = NoRequest
  /\ memory = [input |-> TRUE, output |-> TRUE]
  /\ pc = "idle"
  /\ ATR = "garbage"
  /\ replies = <<>>
  /\ undefined = FALSE

-----------------------------------------------------------------------------
(* Requests and their memory.                                              *)

(* ProcessIoControl: the handler's buffer for the ATR is fresh.            *)
Dispatch ==
  /\ pc = "idle" /\ ~undefined
  /\ request' \in Requests
  /\ memory' \in Memories
  /\ pc' = "begin"
  /\ ATR' = "garbage"
  /\ replies' = <<>>
  /\ UNCHANGED <<card, connected, behind, state, undefined>>

Complete(status, data) == replies' = Append(replies, Reply(status, data))

(* The end of a handler that completes its request.                        *)
Answer(status, data) == Complete(status, data) /\ pc' = "idle"

(* setBuffer, setInt, setString.                                           *)
SetBuffer(data) ==
  IF memory.output THEN Answer("SUCCESS", data)
                   ELSE Answer("ERROR_GEN_FAILURE", "nothing")

(* getInt: 0xffffffff without memory.                                      *)
Code == IF memory.input THEN request.code ELSE "unknown"

Begins(ioctl) == pc = "begin" /\ request.ioctl = ioctl

-----------------------------------------------------------------------------
(* Exchanges with the simulator.                                           *)

(* What may come of an exchange that asks for something and finds the card *)
(* like this: the simulator does it or refuses, and its reply arrives or   *)
(* is lost with the connection.  An exchange may also not get there.  One  *)
(* that is behind returns what an earlier one was to return.               *)
Outcome(rv, after, alive) == [rv |-> rv, card |-> after, connected |-> alive]

Outcomes(done) ==
  LET lost(after) == Outcome("PSIM_COMMUNICATION_ERROR", after, FALSE)
      after == done \cup {card}
  IN IF ~connected THEN {lost(card)}
     ELSE {lost(c) : c \in after}
          \cup IF behind
               THEN [rv : Results, card : after, connected : {TRUE}]
               ELSE {Outcome("PSIM_SUCCESS", c, TRUE) : c \in done}
                    \cup {Outcome("code", card, TRUE)}

(* A reply that arrives and does not fit the caller's buffer leaves its    *)
(* rest behind.                                                            *)
Exchanged(outcome) ==
  /\ card' = outcome.card
  /\ connected' = outcome.connected
  /\ behind' \in (IF outcome.connected THEN {behind, TRUE} ELSE {behind})

(* What the simulator does for an action: it cannot give power to a card   *)
(* that is not there.                                                      *)
PowerDone(action) ==
  IF card = "absent"
  THEN IF action = "PSIM_POWER_DOWN" THEN {"absent"} ELSE {}
  ELSE IF action = "PSIM_POWER_DOWN" THEN {"unpowered"} ELSE {"powered"}

(* Mutant: a failure of the exchange is returned as 0.                     *)
PSIMPowerICCNoError(action) ==
  {[o EXCEPT !.rv = "PSIM_SUCCESS"] : o \in Outcomes(PowerDone(action))}

(* PSIMPowerICC.                                                           *)
PSIMPowerICC(action) == Outcomes(PowerDone(action))

(* The ATR is written and its size set when a reply has arrived.           *)
WrittenATR(outcome) ==
  IF ~outcome.connected \/ outcome.rv = "PSIM_COMMUNICATION_ERROR" THEN ATR
  ELSE IF behind THEN "stale"
  ELSE IF outcome.rv = "PSIM_SUCCESS" /\ outcome.card = "powered" THEN "ATR"
  ELSE "nothing"

-----------------------------------------------------------------------------
(* IoSmartCardGetState.                                                    *)

(* PSIMICCPresent() = PCSC_ICC_PRESENT; an answer that is lost says no,    *)
(* one to an earlier request may say anything.                             *)
ICCPresent(says) ==
  \/ /\ connected /\ UNCHANGED connected
     /\ behind \/ says = (card # "absent")
  \/ ~says /\ connected' = FALSE

NewState(present) ==
  IF ~present THEN "SCARD_ABSENT"
  ELSE IF state \in {"SCARD_UNKNOWN", "SCARD_ABSENT"} THEN "SCARD_PRESENT"
  ELSE state

IoSmartCardGetState ==
  /\ Begins("GET_STATE")
  /\ \E present \in BOOLEAN :
       ICCPresent(present) /\ state' = NewState(present)
  /\ SetBuffer(state')
  /\ UNCHANGED <<card, behind, request, memory, ATR, undefined>>

-----------------------------------------------------------------------------
(* IoSmartCardPower.                                                       *)

(* Mutant: a return is missing.                                            *)
FinishWithoutReturn(outcome, newState) ==
  /\ ATR' = WrittenATR(outcome)
  /\ IF outcome.rv = "PSIM_SUCCESS"
     THEN SetBuffer(ATR')
     ELSE /\ replies' = replies \o <<Reply("NO_MEDIA", "nothing"),
                                     Reply("SUCCESS", ATR')>>
          /\ pc' = "idle"
  /\ state' = newState

(* The end of all three cases: STATUS_NO_MEDIA, or the new state.          *)
Finish(outcome, newState) ==
  /\ ATR' = WrittenATR(outcome)
  /\ \/ /\ outcome.rv # "PSIM_SUCCESS"
        /\ Answer("NO_MEDIA", "nothing")
        /\ UNCHANGED state
     \/ /\ outcome.rv = "PSIM_SUCCESS"
        /\ SetBuffer(ATR')
        /\ state' = newState

(* A case that makes one exchange.                                         *)
OneExchange(action, newState) ==
  /\ \E o \in PSIMPowerICC(action) : Exchanged(o) /\ Finish(o, newState)
  /\ UNCHANGED <<request, memory, undefined>>

(* Mutant: a failed first exchange is answered, and the reset goes on.     *)
ColdResetDownAnswers ==
  /\ Begins("POWER") /\ Code = "COLD_RESET"
  /\ \E o \in PSIMPowerICC("PSIM_POWER_DOWN") :
       /\ Exchanged(o)
       /\ o.rv # "PSIM_SUCCESS" => Complete("NO_MEDIA", "nothing")
       /\ o.rv = "PSIM_SUCCESS" => UNCHANGED replies
  /\ ATR' = "garbage"
  /\ pc' = "up"
  /\ UNCHANGED <<state, request, memory, undefined>>

(* SCARD_COLD_RESET: what the first exchange returns is dropped, and       *)
(* ATRsize is 33 again...                                                  *)
ColdResetDown ==
  /\ Begins("POWER") /\ Code = "COLD_RESET"
  /\ \E o \in PSIMPowerICC("PSIM_POWER_DOWN") : Exchanged(o)
  /\ ATR' = "garbage"
  /\ pc' = "up"
  /\ UNCHANGED <<state, request, memory, replies, undefined>>

(* ... before the second one.                                              *)
ColdResetUp == pc = "up" /\ OneExchange("PSIM_POWER_UP", "SCARD_SPECIFIC")

WarmReset ==
  /\ Begins("POWER") /\ Code = "WARM_RESET"
  /\ OneExchange("PSIM_POWER_RESET", "SCARD_SPECIFIC")

(* Mutant: state is not set.                                               *)
PowerDownKeepsState ==
  /\ Begins("POWER") /\ Code = "POWER_DOWN"
  /\ OneExchange("PSIM_POWER_DOWN", state)

PowerDown ==
  /\ Begins("POWER") /\ Code = "POWER_DOWN"
  /\ OneExchange("PSIM_POWER_DOWN", "SCARD_PRESENT")

PowerUnknown ==
  /\ Begins("POWER") /\ Code = "unknown"
  /\ Answer("NO_MEDIA", "nothing")
  /\ UNCHANGED <<card, connected, behind, state, request, memory, ATR,
                 undefined>>

-----------------------------------------------------------------------------
(* IoSmartCardGetAttribute and IoSmartCardSetAttribute.                    *)

(* The ATR: the card is powered up, and nobody looks at the result or      *)
(* touches state.                                                          *)
GetATRString ==
  /\ Begins("GET_ATTRIBUTE") /\ Code = "ATR_STRING"
  /\ \E o \in PSIMPowerICC("PSIM_POWER_UP") :
       Exchanged(o) /\ ATR' = WrittenATR(o)
  /\ SetBuffer(ATR')
  /\ UNCHANGED <<state, request, memory, undefined>>

GetAttribute ==
  /\ Begins("GET_ATTRIBUTE")
  /\ \/ Code = "known" /\ SetBuffer("constant")
     \/ Code = "unknown" /\ Answer("NOT_SUPPORTED", "nothing")
  /\ UNCHANGED <<card, connected, behind, state, request, memory, ATR,
                 undefined>>

(* The code is read without looking for NULL.                              *)
SetAttribute ==
  /\ Begins("SET_ATTRIBUTE") /\ memory.input
  /\ \/ request.code = "DEVICE_IN_USE" /\ Answer("SUCCESS", "nothing")
     \/ request.code = "unknown" /\ Answer("NOT_SUPPORTED", "nothing")
  /\ UNCHANGED <<card, connected, behind, state, request, memory, ATR,
                 undefined>>

-----------------------------------------------------------------------------
(* IoSmartCardTransmit and IoSmartCardControl.                             *)

(* What the reply of such an exchange is to the caller.                    *)
Response == IF behind THEN "stale" ELSE "response"

(* PSIMTransmitICC: STATUS_NO_MEDIA unless the response code is 0.         *)
IoSmartCardTransmit ==
  /\ Begins("TRANSMIT") /\ memory.input /\ memory.output
  /\ \E o \in Outcomes({card} \ {"absent"}) :
       /\ Exchanged(o)
       /\ \/ o.rv = "PSIM_SUCCESS" /\ Answer("SUCCESS", Response)
          \/ o.rv # "PSIM_SUCCESS" /\ Answer("NO_MEDIA", "nothing")
  /\ UNCHANGED <<state, request, memory, ATR, undefined>>

(* A response code other than 0 is not looked at.  Without room for an     *)
(* answer receive fails, and the whole reply stays behind.                 *)
IoSmartCardControl ==
  /\ Begins("CONTROL") /\ memory.input
  /\ \E o \in Outcomes({card}) :
       /\ Exchanged(o)
       /\ o.connected /\ ~memory.output => behind'
       /\ \/ /\ o.rv # "PSIM_COMMUNICATION_ERROR" /\ memory.output
             /\ Answer("SUCCESS", Response)
          \/ /\ o.rv = "PSIM_COMMUNICATION_ERROR" \/ ~memory.output
             /\ Answer("NO_MEDIA", "nothing")
  /\ UNCHANGED <<state, request, memory, ATR, undefined>>

(* Without input SetAttribute reads through NULL and the others go on with *)
(* an APDUSize nobody has set; without room for the header of its answer   *)
(* Transmit computes a negative size.                                      *)
Misses ==
  \/ request.ioctl \in {"SET_ATTRIBUTE", "TRANSMIT", "CONTROL"} /\ ~memory.input
  \/ request.ioctl = "TRANSMIT" /\ ~memory.output

MissingMemory ==
  /\ pc = "begin" /\ Misses
  /\ undefined' = TRUE
  /\ UNCHANGED <<card, connected, behind, state, request, memory, pc, ATR,
                 replies>>

Handler ==
  /\ ~undefined
  /\ \/ IoSmartCardGetState
     \/ ColdResetDown \/ ColdResetUp \/ WarmReset \/ PowerDown \/ PowerUnknown
     \/ GetATRString \/ GetAttribute \/ SetAttribute
     \/ IoSmartCardTransmit \/ IoSmartCardControl
     \/ MissingMemory

-----------------------------------------------------------------------------
(* The simulator: a card comes, without power, or goes; a connection comes *)
(* or goes, with what is unread in it.                                     *)

CardChanges ==
  /\ card' = IF card = "absent" THEN "unpowered" ELSE "absent"
  /\ UNCHANGED <<connected, behind, state, request, memory, pc, ATR, replies,
                 undefined>>

ConnectionChanges ==
  /\ connected' = ~connected /\ behind' = FALSE
  /\ UNCHANGED <<card, state, request, memory, pc, ATR, replies, undefined>>

Next == Dispatch \/ Handler \/ CardChanges \/ ConnectionChanges

Spec == Init /\ [][Next]_vars

-----------------------------------------------------------------------------
(* Properties.                                                             *)

(* The types of the variables; a handler under way has not answered yet.   *)
TypeOK ==
  /\ card \in Cards
  /\ connected \in BOOLEAN /\ behind \in BOOLEAN
  /\ state \in States
  /\ request \in Requests \cup {NoRequest}
  /\ memory \in Memories
  /\ pc \in {"idle", "begin", "up"}
  /\ ATR \in {"garbage", "stale", "nothing", "ATR"}
  /\ replies \in Seq([status : Statuses, data : Contents])
  /\ undefined \in BOOLEAN
  /\ pc # "idle" => replies = <<>>

(* A handler that returns has completed its request exactly once, on every *)
(* path and whatever becomes of its exchanges; POWER, GET_STATE and        *)
(* GET_ATTRIBUTE also without the memory they need (device.cpp:182-387,    *)
(* memory.cpp:21-79).  What does not return is SET_ATTRIBUTE, TRANSMIT or  *)
(* a control code without its memory: there the code goes on with a NULL   *)
(* pointer or an unset size (device.cpp:245, 269-274, 299-307), and its    *)
(* request is not completed.                                               *)
EveryPathAnswers ==
  /\ Len(replies) <= 1
  /\ pc = "idle" /\ request # NoRequest => Len(replies) = 1
  /\ undefined => Misses /\ replies = <<>>

(* POWER returns bytes only if the simulator has sent them; the buffer is  *)
(* uninitialised, and a cold reset sets ATRsize to its full size again     *)
(* (device.cpp:188-232, persoSimConnect.cpp:329-341).  GET_ATTRIBUTE does  *)
(* not look at the result of its exchange and may return what nobody has   *)
(* written (device.cpp:372-376).                                           *)
ReturnsWrittenBytes ==
  \A i \in DOMAIN replies :
    replies[i].data = "garbage" => request.code = "ATR_STRING"

(* What the driver believes: SCARD_SPECIFIC, a card that has been reset.   *)
BeliefIsTrue == state = "SCARD_SPECIFIC" => card = "powered"

(* The belief goes wrong in four ways only: the card is taken out, a reply *)
(* is lost after the simulator has acted, a cold reset has powered the     *)
(* card down and may fail to power it up, or the reply that is read is     *)
(* that of an earlier exchange.  No handler that gets its own reply makes  *)
(* it wrong (device.cpp:115-124, 193-224).  It may stay wrong: a GET_STATE *)
(* that finds the card, or another one, in its place again changes         *)
(* nothing.                                                                *)
BeliefFailsWithCause ==
  [][BeliefIsTrue /\ ~BeliefIsTrue' =>
       \/ card' = "absent"
       \/ connected /\ ~connected'
       \/ pc' = "up"
       \/ behind]_vars
=============================================================================
