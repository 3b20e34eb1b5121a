---------------------------- MODULE CardStateProofs ----------------------------
(***************************************************************************)
(* What holds of the ioctls that answer at once after any number of        *)
(* requests: a handler that returns has completed its request exactly      *)
(* once, POWER returns only bytes of the simulator, and the belief about   *)
(* the card goes wrong for a known cause.                                  *)
(***************************************************************************)
EXTENDS CardState, SequenceTheorems, TLAPS

(* The properties together are inductive: that a handler under way has not *)
(* answered yet (the last part of TypeOK) is what the others rest on.      *)
Inv == TypeOK /\ EveryPathAnswers /\ ReturnsWrittenBytes

-----------------------------------------------------------------------------
(* What an exchange may come to.                                           *)

(* An exchange that succeeds and is not behind has had the simulator do    *)
(* what it was asked to do; a card is changed without the driver knowing   *)
(* only if the reply is lost with the connection, or not the next to be    *)
(* read.                                                                   *)
IsOutcome(o, done) ==
  /\ o.rv \in Results /\ o.card \in Cards /\ o.connected \in BOOLEAN
  /\ o.rv = "PSIM_SUCCESS" => o.connected /\ (behind \/ o.card \in done)
  /\ o.rv # "PSIM_SUCCESS" /\ o.card # card =>
       behind \/ (connected /\ ~o.connected)
  /\ o.card # card => o.card \in done
  /\ o.connected => connected

LEMMA OutcomesAre ==
  ASSUME TypeOK, NEW done \in SUBSET Cards, NEW o \in Outcomes(done)
  PROVE  IsOutcome(o, done)
<1>1. card \in Cards /\ connected \in BOOLEAN
  BY DEF TypeOK
<1>2. CASE ~connected
  <2>1. o = Outcome("PSIM_COMMUNICATION_ERROR", card, FALSE)
    BY <1>2 DEF Outcomes
  <2> QED
    BY <1>1, <1>2, <2>1 DEF IsOutcome, Outcome, Results
<1>3. ASSUME connected,
             NEW c \in done \cup {card},
             o = Outcome("PSIM_COMMUNICATION_ERROR", c, FALSE)
      PROVE  IsOutcome(o, done)
  BY <1>1, <1>3 DEF IsOutcome, Outcome, Results
<1>4. CASE connected /\ behind
  <2> DEFINE lost == {Outcome("PSIM_COMMUNICATION_ERROR", c, FALSE) :
                        c \in done \cup {card}}
             stale == [rv : Results, card : done \cup {card},
                       connected : {TRUE}]
  <2>1. Outcomes(done) = lost \cup stale
    BY <1>4 DEF Outcomes
  <2>2. CASE o \in lost
    BY <1>3, <1>4, <2>2
  <2>3. CASE o \in stale
    BY <1>1, <1>4, <2>3 DEF IsOutcome
  <2> HIDE DEF lost, stale
  <2> QED
    BY <2>1, <2>2, <2>3
<1>5. CASE connected /\ ~behind
  <2> DEFINE lost == {Outcome("PSIM_COMMUNICATION_ERROR", c, FALSE) :
                        c \in done \cup {card}}
             success == {Outcome("PSIM_SUCCESS", c, TRUE) : c \in done}
  <2>1. Outcomes(done) = lost \cup (success \cup {Outcome("code", card, TRUE)})
    BY <1>5 DEF Outcomes
  <2>2. CASE o \in lost
    BY <1>3, <1>5, <2>2
  <2>3. CASE o \in success
    <3>1. PICK c \in done : o = Outcome("PSIM_SUCCESS", c, TRUE)
      BY <2>3
    <3> QED
      BY <1>5, <3>1 DEF IsOutcome, Outcome, Results
  <2>4. CASE o = Outcome("code", card, TRUE)
    BY <1>1, <1>5, <2>4 DEF IsOutcome, Outcome, Results
  <2> HIDE DEF lost, success
  <2> QED
    BY <2>1, <2>2, <2>3, <2>4
<1> QED
  BY <1>2, <1>4, <1>5

(* What the simulator does for the actions (persoSimConnect.cpp:313-332).  *)
LEMMA PowerIsDone ==
  ASSUME TypeOK
  PROVE  /\ PowerDone("PSIM_POWER_DOWN") \subseteq {"absent", "unpowered"}
         /\ PowerDone("PSIM_POWER_UP") \subseteq {"powered"}
         /\ PowerDone("PSIM_POWER_RESET") \subseteq {"powered"}
BY DEF PowerDone

-----------------------------------------------------------------------------
(* Completions.                                                            *)

IsReply(r) == r.status \in Statuses /\ r.data \in Contents

(* Completing a request that has not been completed leaves one reply.      *)
LEMMA OneReply ==
  ASSUME replies = <<>>,
         NEW status \in Statuses, NEW data \in Contents,
         Answer(status, data)
  PROVE  /\ replies' = <<Reply(status, data)>>
         /\ replies' \in Seq([status : Statuses, data : Contents])
         /\ Len(replies') = 1 /\ pc' = "idle"
         /\ \A i \in DOMAIN replies' : replies'[i].data = data
<1>1. replies' = <<Reply(status, data)>> /\ pc' = "idle"
  BY DEF Answer, Complete
<1>2. Reply(status, data) \in [status : Statuses, data : Contents]
  BY DEF Reply
<1>3. <<Reply(status, data)>> \in Seq([status : Statuses, data : Contents])
  BY <1>2
<1>4. \A i \in DOMAIN <<Reply(status, data)>> :
        <<Reply(status, data)>>[i].data = data
  BY DEF Reply
<1> QED
  BY <1>1, <1>3, <1>4

(* An action that completes the request of a handler under way, with bytes *)
(* that have been written, preserves what depends on the replies.          *)
Answered(data) ==
  /\ replies' \in Seq([status : Statuses, data : Contents])
  /\ Len(replies') = 1 /\ pc' = "idle"
  /\ \A i \in DOMAIN replies' : replies'[i].data = data

LEMMA AnswerAnswers ==
  ASSUME replies = <<>>,
         NEW status \in Statuses, NEW data \in Contents,
         Answer(status, data)
  PROVE  Answered(data)
BY OneReply DEF Answered

LEMMA SetBufferAnswers ==
  ASSUME replies = <<>>, NEW data \in Contents, SetBuffer(data)
  PROVE  \E d \in {data, "nothing"} : Answered(d)
<1>1. CASE memory.output
  BY <1>1, AnswerAnswers DEF SetBuffer, Statuses
<1>2. CASE ~memory.output
  <2>1. "nothing" \in Contents /\ "ERROR_GEN_FAILURE" \in Statuses
    BY DEF Contents, Statuses
  <2> QED
    BY <1>2, <2>1, AnswerAnswers DEF SetBuffer
<1> QED
  BY <1>1, <1>2

(* The rest of Inv after an answer.                                        *)
LEMMA AfterAnswer ==
  ASSUME Inv,
         card' \in Cards, connected' \in BOOLEAN, state' \in States,
         behind' \in BOOLEAN,
         ~undefined, UNCHANGED <<request, memory, undefined>>,
         ATR' \in {"garbage", "stale", "nothing", "ATR"},
         NEW data \in Contents, Answered(data),
         data = "garbage" => request.code = "ATR_STRING"
  PROVE  Inv'
<1>1. TypeOK'
  BY DEF Inv, TypeOK, Answered
<1>2. EveryPathAnswers'
  BY DEF EveryPathAnswers, Answered
<1>3. ReturnsWrittenBytes'
  BY DEF ReturnsWrittenBytes, Answered
<1> QED
  BY <1>1, <1>2, <1>3 DEF Inv

(* The ATR of an exchange that has succeeded was sent by the simulator.    *)
LEMMA ATRWritten ==
  ASSUME TypeOK, NEW done \in SUBSET Cards, NEW o, IsOutcome(o, done)
  PROVE  /\ WrittenATR(o) \in {"garbage", "stale", "nothing", "ATR"}
         /\ WrittenATR(o) \in Contents
         /\ o.rv = "PSIM_SUCCESS" => WrittenATR(o) # "garbage"
BY DEF TypeOK, WrittenATR, IsOutcome, Contents

-----------------------------------------------------------------------------
(* The steps.                                                              *)

(* WarmReset, PowerDown and the second half of a cold reset                *)
(* (device.cpp:197-224).                                                   *)
LEMMA OneExchangeStep ==
  ASSUME Inv, ~undefined, pc # "idle",
         NEW action, PowerDone(action) \subseteq Cards,
         NEW newState \in States, OneExchange(action, newState)
  PROVE  Inv'
<1>1. TypeOK /\ replies = <<>> /\ state \in States
  BY DEF Inv, TypeOK
<1>2. PICK o \in PSIMPowerICC(action) : Exchanged(o) /\ Finish(o, newState)
  BY DEF OneExchange
<1>3. IsOutcome(o, PowerDone(action))
  BY <1>1, <1>2, OutcomesAre DEF PSIMPowerICC
<1>4. /\ card' \in Cards /\ connected' \in BOOLEAN /\ behind' \in BOOLEAN
      /\ ATR' = WrittenATR(o)
      /\ ATR' \in {"garbage", "stale", "nothing", "ATR"}
      /\ ATR' \in Contents
      /\ o.rv = "PSIM_SUCCESS" => ATR' # "garbage"
  BY <1>1, <1>2, <1>3, ATRWritten
  DEF Exchanged, Finish, IsOutcome, TypeOK
<1>5. CASE o.rv # "PSIM_SUCCESS"
  <2>1. Answer("NO_MEDIA", "nothing") /\ state' \in States
    BY <1>1, <1>2, <1>5 DEF Finish
  <2>2. "nothing" \in Contents /\ Answered("nothing")
    BY <1>1, <2>1, AnswerAnswers DEF Statuses, Contents
  <2> QED
    BY <1>4, <2>1, <2>2, AfterAnswer DEF OneExchange
<1>6. CASE o.rv = "PSIM_SUCCESS"
  <2>1. SetBuffer(ATR') /\ state' \in States
    BY <1>2, <1>6 DEF Finish
  <2>2. PICK d \in {ATR', "nothing"} : Answered(d)
    BY <1>1, <1>4, <2>1, SetBufferAnswers
  <2>3. d \in Contents /\ d # "garbage"
    BY <1>4, <1>6, <2>2 DEF Contents
  <2> QED
    BY <1>4, <2>1, <2>2, <2>3, AfterAnswer DEF OneExchange
<1> QED
  BY <1>5, <1>6

(* The first half of a cold reset (device.cpp:193-196).                    *)
LEMMA ColdResetDownStep ==
  ASSUME Inv, ~undefined, ColdResetDown
  PROVE  Inv'
<1>1. TypeOK /\ replies = <<>> /\ pc = "begin"
  BY DEF Inv, TypeOK, ColdResetDown, Begins
<1>2. PICK o \in PSIMPowerICC("PSIM_POWER_DOWN") : Exchanged(o)
  BY DEF ColdResetDown
<1>3. PowerDone("PSIM_POWER_DOWN") \subseteq Cards
  BY <1>1, PowerIsDone DEF Cards
<1>4. IsOutcome(o, PowerDone("PSIM_POWER_DOWN"))
  BY <1>1, <1>2, <1>3, OutcomesAre DEF PSIMPowerICC
<1>5. card' \in Cards /\ connected' \in BOOLEAN /\ behind' \in BOOLEAN
  BY <1>1, <1>2, <1>4 DEF Exchanged, IsOutcome, TypeOK
<1>6. TypeOK'
  BY <1>1, <1>5 DEF TypeOK, ColdResetDown
<1>7. EveryPathAnswers'
  BY <1>1 DEF EveryPathAnswers, ColdResetDown
<1>8. ReturnsWrittenBytes'
  BY <1>1 DEF ReturnsWrittenBytes, ColdResetDown
<1> QED
  BY <1>6, <1>7, <1>8 DEF Inv

(* IoSmartCardGetState (device.cpp:110-128).                               *)
LEMMA GetStateStep ==
  ASSUME Inv, ~undefined, IoSmartCardGetState
  PROVE  Inv'
<1>1. TypeOK /\ replies = <<>>
  BY DEF Inv, TypeOK, IoSmartCardGetState, Begins
<1>2. connected' \in BOOLEAN /\ state' \in States
  BY <1>1 DEF IoSmartCardGetState, ICCPresent, NewState, TypeOK, States
<1>3. state' \in Contents /\ state' # "garbage"
  BY <1>2 DEF Contents, States
<1>4. PICK d \in {state', "nothing"} : Answered(d)
  BY <1>1, <1>3, SetBufferAnswers DEF IoSmartCardGetState
<1>5. d \in Contents /\ d # "garbage"
  BY <1>3, <1>4 DEF Contents
<1> QED
  BY <1>1, <1>2, <1>4, <1>5, AfterAnswer DEF IoSmartCardGetState, TypeOK

(* GetATRString, the one that may return what nobody has written           *)
(* (device.cpp:372-376).                                                   *)
LEMMA GetATRStringStep ==
  ASSUME Inv, ~undefined, GetATRString
  PROVE  Inv'
<1>1. TypeOK /\ replies = <<>> /\ state' \in States
  BY DEF Inv, TypeOK, GetATRString, Begins
<1>2. PICK o \in PSIMPowerICC("PSIM_POWER_UP") :
        Exchanged(o) /\ ATR' = WrittenATR(o)
  BY DEF GetATRString
<1>3. PowerDone("PSIM_POWER_UP") \subseteq Cards
  BY <1>1, PowerIsDone DEF Cards
<1>4. IsOutcome(o, PowerDone("PSIM_POWER_UP"))
  BY <1>1, <1>2, <1>3, OutcomesAre DEF PSIMPowerICC
<1>5. /\ card' \in Cards /\ connected' \in BOOLEAN /\ behind' \in BOOLEAN
      /\ ATR' \in {"garbage", "stale", "nothing", "ATR"} /\ ATR' \in Contents
  BY <1>1, <1>2, <1>3, <1>4, ATRWritten
  DEF Exchanged, IsOutcome, TypeOK
<1>6. PICK d \in {ATR', "nothing"} : Answered(d)
  BY <1>1, <1>5, SetBufferAnswers DEF GetATRString
<1>7. d \in Contents
  BY <1>5, <1>6 DEF Contents
<1>8. request.code = "ATR_STRING"
  BY DEF GetATRString, Code
<1> QED
  BY <1>1, <1>5, <1>6, <1>7, <1>8, AfterAnswer DEF GetATRString

(* The ioctls that make no exchange (device.cpp:225-228, 236-263,          *)
(* 342-387).                                                               *)
LEMMA LocalStep ==
  ASSUME Inv, ~undefined, PowerUnknown \/ GetAttribute \/ SetAttribute
  PROVE  Inv'
<1>1. /\ TypeOK /\ replies = <<>>
      /\ UNCHANGED <<card, connected, behind, state, request, memory, ATR,
                     undefined>>
  BY DEF Inv, TypeOK, PowerUnknown, GetAttribute, SetAttribute, Begins
<1>2. \E d \in {"constant", "nothing"} : Answered(d)
  <2>1. {"constant", "nothing"} \subseteq Contents
        /\ {"SUCCESS", "NO_MEDIA", "NOT_SUPPORTED"} \subseteq Statuses
    BY DEF Contents, Statuses
  <2>2. CASE GetAttribute /\ Code = "known"
    BY <1>1, <2>1, <2>2, SetBufferAnswers DEF GetAttribute
  <2>3. CASE ~(GetAttribute /\ Code = "known")
    <3>1. \E s \in {"SUCCESS", "NO_MEDIA", "NOT_SUPPORTED"} :
            Answer(s, "nothing")
      BY <2>3 DEF PowerUnknown, GetAttribute, SetAttribute
    <3> QED
      BY <1>1, <2>1, <3>1, AnswerAnswers
  <2> QED
    BY <2>2, <2>3
<1>3. PICK d \in {"constant", "nothing"} : Answered(d)
  BY <1>2
<1>4. d \in Contents /\ d # "garbage"
  BY <1>3 DEF Contents
<1> QED
  BY <1>1, <1>3, <1>4, AfterAnswer DEF TypeOK

(* IoSmartCardTransmit and IoSmartCardControl (device.cpp:265-340).        *)
LEMMA DataStep ==
  ASSUME Inv, ~undefined, IoSmartCardTransmit \/ IoSmartCardControl
  PROVE  Inv'
<1>1. /\ TypeOK /\ replies = <<>>
      /\ UNCHANGED <<state, request, memory, ATR, undefined>>
  BY DEF Inv, TypeOK, IoSmartCardTransmit, IoSmartCardControl, Begins
<1>2. \E done \in SUBSET Cards : \E o \in Outcomes(done) : Exchanged(o)
  <2>1. {card} \in SUBSET Cards /\ {card} \ {"absent"} \in SUBSET Cards
    BY <1>1 DEF TypeOK
  <2>2. \/ \E o \in Outcomes({card} \ {"absent"}) : Exchanged(o)
        \/ \E o \in Outcomes({card}) : Exchanged(o)
    BY DEF IoSmartCardTransmit, IoSmartCardControl
  <2> QED
    BY <2>1, <2>2
<1>3. PICK done \in SUBSET Cards : \E o \in Outcomes(done) : Exchanged(o)
  BY <1>2
<1>4. card' \in Cards /\ connected' \in BOOLEAN /\ behind' \in BOOLEAN
  BY <1>1, <1>3, OutcomesAre DEF Exchanged, IsOutcome, TypeOK
<1>5. \/ Answer("SUCCESS", "response")
      \/ Answer("SUCCESS", "stale")
      \/ Answer("NO_MEDIA", "nothing")
  BY DEF IoSmartCardTransmit, IoSmartCardControl, Response
<1>6. \E d \in {"response", "stale", "nothing"} : Answered(d)
  BY <1>1, <1>5, AnswerAnswers DEF Contents, Statuses
<1>7. PICK d \in {"response", "stale", "nothing"} : Answered(d)
  BY <1>6
<1>8. d \in Contents /\ d # "garbage"
  BY <1>7 DEF Contents
<1> QED
  BY <1>1, <1>4, <1>7, <1>8, AfterAnswer DEF TypeOK

(* A new request, the simulator's steps and what ends the process.         *)
LEMMA OtherStep ==
  ASSUME Inv,
         Dispatch \/ MissingMemory \/ CardChanges \/ ConnectionChanges
           \/ UNCHANGED vars
  PROVE  Inv'
<1> USE DEF Inv, TypeOK, EveryPathAnswers, ReturnsWrittenBytes, Misses
<1>1. CASE Dispatch
  BY <1>1 DEF Dispatch
<1>2. CASE MissingMemory
  BY <1>2 DEF MissingMemory
<1>3. CASE CardChanges
  BY <1>3 DEF CardChanges, Cards
<1>4. CASE ConnectionChanges
  BY <1>4 DEF ConnectionChanges
<1>5. CASE UNCHANGED vars
  BY <1>5 DEF vars
<1> QED
  BY <1>1, <1>2, <1>3, <1>4, <1>5

(* Any step.                                                               *)
LEMMA Step ==
  ASSUME Inv, [Next]_vars
  PROVE  Inv'
<1>1. CASE Handler
  <2>1. CASE ColdResetUp \/ WarmReset \/ PowerDown
    <3>1. TypeOK /\ ~undefined
      BY <1>1 DEF Inv, Handler
    <3>2. /\ PowerDone("PSIM_POWER_UP") \subseteq Cards
          /\ PowerDone("PSIM_POWER_RESET") \subseteq Cards
          /\ PowerDone("PSIM_POWER_DOWN") \subseteq Cards
      BY <3>1, PowerIsDone DEF Cards
    <3>3. {"SCARD_SPECIFIC", "SCARD_PRESENT"} \subseteq States
      BY DEF States
    <3>4. CASE ColdResetUp
      BY <3>1, <3>2, <3>3, <3>4, OneExchangeStep DEF ColdResetUp
    <3>5. CASE WarmReset
      BY <3>1, <3>2, <3>3, <3>5, OneExchangeStep DEF WarmReset, Begins
    <3>6. CASE PowerDown
      BY <3>1, <3>2, <3>3, <3>6, OneExchangeStep DEF PowerDown, Begins
    <3> QED
      BY <2>1, <3>4, <3>5, <3>6
  <2> QED
    BY <1>1, <2>1, ColdResetDownStep, GetStateStep, GetATRStringStep, LocalStep,
       DataStep, OtherStep DEF Handler
<1>2. CASE ~Handler
  BY <1>2, OtherStep DEF Next
<1> QED
  BY <1>1, <1>2

LEMMA Start == Init => Inv
<1> SUFFICES ASSUME Init PROVE Inv
  OBVIOUS
<1>1. replies = <<>> /\ replies \in Seq([status : Statuses, data : Contents])
  BY DEF Init
<1>2. TypeOK
  BY <1>1 DEF Init, TypeOK, States, Memories
<1>3. EveryPathAnswers
  BY <1>1 DEF Init, EveryPathAnswers
<1>4. ReturnsWrittenBytes
  BY <1>1 DEF Init, ReturnsWrittenBytes
<1> QED
  BY <1>2, <1>3, <1>4 DEF Inv

LEMMA InvHolds == Spec => []Inv
BY Start, Step, PTL DEF Spec

-----------------------------------------------------------------------------
(* The theorems.                                                           *)

(* The types of the variables; a handler under way has not answered yet.   *)
THEOREM TypeCorrect == Spec => []TypeOK
<1>1. Inv => TypeOK
  BY DEF Inv
<1> QED
  BY <1>1, InvHolds, PTL

(* A handler that returns has completed its request exactly once, also     *)
(* when POWER, GET_STATE and GET_ATTRIBUTE lack the memory they need; a    *)
(* request whose handler does not return, for want of the memory of        *)
(* SET_ATTRIBUTE, TRANSMIT or a control code, has not been completed       *)
(* (device.cpp:182-387, memory.cpp:21-79).                                 *)
THEOREM EveryPathAnswersHolds == Spec => []EveryPathAnswers
<1>1. Inv => EveryPathAnswers
  BY DEF Inv
<1> QED
  BY <1>1, InvHolds, PTL

(* POWER returns bytes only if the simulator has sent them                 *)
(* (device.cpp:188-232, persoSimConnect.cpp:329-341).                      *)
THEOREM ReturnsWrittenBytesHolds == Spec => []ReturnsWrittenBytes
<1>1. Inv => ReturnsWrittenBytes
  BY DEF Inv
<1> QED
  BY <1>1, InvHolds, PTL

(* No handler that gets its own reply makes the driver's belief about the  *)
(* card wrong (device.cpp:115-124, 193-224).                               *)
THEOREM BeliefFailsWithCauseHolds == Spec => BeliefFailsWithCause
<1> DEFINE Cause ==
      BeliefIsTrue /\ ~BeliefIsTrue' =>
        \/ card' = "absent"
        \/ connected /\ ~connected'
        \/ pc' = "up"
        \/ behind
<1>1. ASSUME Inv, Next
      PROVE  Cause
  <2>1. TypeOK
    BY <1>1 DEF Inv
  <2>2. ASSUME NEW action \in {"PSIM_POWER_UP", "PSIM_POWER_RESET"},
               OneExchange(action, "SCARD_SPECIFIC")
        PROVE  Cause
    <3>1. PICK o \in PSIMPowerICC(action) :
            Exchanged(o) /\ Finish(o, "SCARD_SPECIFIC")
      BY <2>2 DEF OneExchange
    <3>2. PowerDone(action) \subseteq {"powered"}
      BY <2>1, <2>2, PowerIsDone
    <3>3. IsOutcome(o, PowerDone(action))
      BY <2>1, <3>1, <3>2, OutcomesAre DEF PSIMPowerICC, Cards
    <3> QED
      BY <3>1, <3>2, <3>3 DEF Exchanged, Finish, IsOutcome, BeliefIsTrue
  <2>3. ASSUME OneExchange("PSIM_POWER_DOWN", "SCARD_PRESENT")
        PROVE  Cause
    <3>1. PICK o \in PSIMPowerICC("PSIM_POWER_DOWN") :
            Exchanged(o) /\ Finish(o, "SCARD_PRESENT")
      BY <2>3 DEF OneExchange
    <3>2. PowerDone("PSIM_POWER_DOWN") \subseteq Cards
      BY <2>1, PowerIsDone DEF Cards
    <3>3. IsOutcome(o, PowerDone("PSIM_POWER_DOWN"))
      BY <2>1, <3>1, <3>2, OutcomesAre DEF PSIMPowerICC
    <3> QED
      BY <3>1, <3>3 DEF Exchanged, Finish, IsOutcome, BeliefIsTrue
  <2>4. CASE GetATRString
    <3>1. PICK o \in PSIMPowerICC("PSIM_POWER_UP") : Exchanged(o)
      BY <2>4 DEF GetATRString
    <3>2. PowerDone("PSIM_POWER_UP") \subseteq {"powered"}
      BY <2>1, PowerIsDone
    <3>3. IsOutcome(o, PowerDone("PSIM_POWER_UP"))
      BY <2>1, <3>1, <3>2, OutcomesAre DEF PSIMPowerICC, Cards
    <3> QED
      BY <2>4, <3>1, <3>2, <3>3
      DEF GetATRString, Exchanged, IsOutcome, BeliefIsTrue
  <2>5. CASE IoSmartCardTransmit \/ IoSmartCardControl
    <3>1. {card} \in SUBSET Cards /\ {card} \ {"absent"} \in SUBSET Cards
      BY <2>1 DEF TypeOK
    <3>2. PICK done \in SUBSET {card} : \E o \in Outcomes(done) : Exchanged(o)
      BY <2>5 DEF IoSmartCardTransmit, IoSmartCardControl
    <3>3. PICK o \in Outcomes(done) : Exchanged(o)
      BY <3>2
    <3>4. IsOutcome(o, done)
      BY <2>1, <3>1, <3>2, <3>3, OutcomesAre
    <3> QED
      BY <2>5, <3>2, <3>3, <3>4
      DEF IoSmartCardTransmit, IoSmartCardControl, Exchanged, IsOutcome,
          BeliefIsTrue
  <2>6. CASE IoSmartCardGetState
    BY <2>6 DEF IoSmartCardGetState, NewState, BeliefIsTrue
  <2>7. CASE CardChanges
    BY <2>1, <2>7 DEF CardChanges, BeliefIsTrue
  <2>8. CASE \/ Dispatch \/ PowerUnknown \/ GetAttribute \/ SetAttribute
             \/ MissingMemory \/ ConnectionChanges
    BY <2>8 DEF Dispatch, PowerUnknown, GetAttribute, SetAttribute,
                MissingMemory, ConnectionChanges, BeliefIsTrue
  <2>9. CASE ColdResetDown
    BY <2>9 DEF ColdResetDown
  <2> QED
    BY <1>1, <2>2, <2>3, <2>4, <2>5, <2>6, <2>7, <2>8, <2>9
    DEF Next, Handler, ColdResetUp, WarmReset, PowerDown
<1>2. Inv /\ [Next]_vars => [Cause]_vars
  BY <1>1
<1> QED
  BY <1>2, InvHolds, PTL DEF Spec, BeliefFailsWithCause
=============================================================================
