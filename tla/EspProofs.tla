------------------------------ MODULE EspProofs ------------------------------
(***************************************************************************)
(* The tasks of the ESP with an unconstrained Pico and any restarts        *)
(* (EspAlone), for every set of commands and every size of the queues.     *)
(***************************************************************************)
EXTENDS EspAlone, TaskProofs

(* TypeOK in the form TaskProofs speaks of.                                *)
LEMMA TypeIsCarried ==
  TypeOK <=> Carried(Message, Message, Requests) /\ FlagTypeOK /\ TableTypeOK
BY DEF TypeOK, EspTypeOK, Carried, FlagTypeOK

(* Any message and any request will do: nothing is asked of the Pico.      *)
LEMMA AnythingFits == Fits(Message, Message, Requests, {0}, {NOW})
BY DEF Fits, Message, Requests, MessageTypes, RequestTypes, report, diagnosis,
       Request, response, device_status, Msg, Stale, NOW

(* The types hold when the ESP is switched on.                             *)
LEMMA TypeInitially == Init => TypeOK
<1> SUFFICES ASSUME Init PROVE TypeOK
  OBVIOUS
<1> USE DEF Init, EspInit, LinkInit, TableInit
<1>1. Carried(Message, Message, Requests)
  BY EspAssumption, ProtocolAssumption, EmptySeq
     DEF Carried, Nothing, Msg, Message, MessageTypes, RequestTypes
<1>2. FlagTypeOK
  BY NoAttempts DEF FlagTypeOK, Responses
<1>3. TableTypeOK
  BY DEF TableTypeOK, Queued
<1> QED
  BY <1>1, <1>2, <1>3, TypeIsCarried

(* Every step keeps them, those of the Pico, the timers and a restart      *)
(* included.                                                               *)
LEMMA TypeStep ==
  ASSUME TypeOK, [Next]_allVars
  PROVE  TypeOK'
<1>0. Carried(Message, Message, Requests) /\ FlagTypeOK /\ TableTypeOK
  BY TypeIsCarried
<1>1. (Carried(Message, Message, Requests) /\ FlagTypeOK /\ TableTypeOK)' => TypeOK'
  BY DEF TypeOK, EspTypeOK, Carried, FlagTypeOK
<1>2. CASE EspAction({0}, {NOW})
  BY <1>0, <1>1, <1>2, AnythingFits, EspCarries, FlagsStep, StatusStep
<1>3. ASSUME NEW m \in PicoMessages, PicoSends(m)
      PROVE  TypeOK'
  <2>1. m \in Message
    BY <1>3 DEF PicoMessages, Message, MessageTypes, Msg, datetime_request,
       device_status, diagnostics, response, cmd_status, picture, Calculated, Impossible
  <2>2. to_esp \in Seq(Message) /\ Len(to_esp) < LinkCapacity /\ LinkCapacity \in Nat
    BY <1>3, ProtocolAssumption DEF PicoSends, TypeOK
  <2>3. to_esp' = Append(to_esp, m)
    BY <1>3 DEF PicoSends, Transmit
  <2>4. to_esp' \in Seq(Message) /\ Len(to_esp') <= LinkCapacity
    BY <2>1, <2>2, <2>3, AppendProperties, LenProperties
  <2>5. UNCHANGED <<espVars, from_esp>>
    BY <1>3 DEF PicoSends
  <2>6. EspTypeOK'
    BY <2>5 DEF TypeOK, EspTypeOK, TableTypeOK, espVars, sendVars, handlerVars, webVars
  <2> QED
    BY <2>4, <2>5, <2>6 DEF TypeOK
<1>4. CASE EspRestarts
  <2>1. to_esp \in Seq(Message) /\ Len(to_esp) \in Nat /\ Len(to_esp) <= LinkCapacity
    BY LenProperties DEF TypeOK
  <2>2. PICK k \in 1 .. Len(to_esp) + 1 : to_esp' = SubSeq(to_esp, k, Len(to_esp))
    BY <1>4 DEF EspRestarts
  <2>3. \A i \in k .. Len(to_esp) : to_esp[i] \in Message
    BY <2>1, ElementOfSeq
  <2>4. /\ to_esp' \in Seq(Message)
        /\ Len(to_esp') = IF k <= Len(to_esp) THEN Len(to_esp) - k + 1 ELSE 0
    BY <2>1, <2>2, <2>3, SubSeqProperties
  <2>5. to_esp' \in Seq(Message) /\ Len(to_esp') <= LinkCapacity
    BY <2>1, <2>4, ProtocolAssumption
  <2>6. Nothing \in Message
    BY DEF Nothing, Msg, Message, MessageTypes
  <2>7. FlagTypeOK'
    BY <1>4, NoAttempts DEF EspRestarts, FlagTypeOK, Responses
  <2>8. EspTypeOK'
    BY <1>4, <2>6, <2>7, EspAssumption, EmptySeq
       DEF EspRestarts, EspTypeOK, TableTypeOK, TypeOK, RequestTypes, FlagTypeOK
  <2> QED
    BY <1>4, <2>5, <2>8 DEF TypeOK, EspRestarts
<1>5. CASE UNCHANGED allVars
  BY <1>5 DEF TypeOK, EspTypeOK, TableTypeOK, allVars, espVars, sendVars,
     handlerVars, webVars, linkVars
<1> QED
  BY <1>2, <1>3, <1>4, <1>5 DEF Next, EspAction, TimerRings

(* Every queue keeps to its size, and the flags and the waits of the tasks *)
(* to the values the code gives them, whatever the Pico sends and whenever *)
(* the ESP restarts (requestHandler.cpp:48,                                *)
(* espPicoUartCommHandler.cpp:24).                                         *)
THEOREM EspTypeCorrect == Spec => []TypeOK
<1> QED
  BY TypeInitially, TypeStep, PTL DEF Spec

(* A command that is finished stays finished: no late or repeated report   *)
(* and no left-over request reopens it (commands.rs:168-221).              *)
THEOREM EndIsFinalAlways == Spec => EndIsFinal
<1>1. TypeOK /\ [Next]_allVars =>
        [\A id \in Ids : status[id] \notin 0 .. 2 => status[id]' \notin 0 .. 2]_allVars
  <2> SUFFICES ASSUME TypeOK, Next, NEW id \in Ids, status[id] \notin 0 .. 2
               PROVE  status'[id] \notin 0 .. 2
    OBVIOUS
  <2>1. CASE EspAction({0}, {NOW})
    <3>1. StatusChanges(id)
      BY <2>1, StatusStep DEF TypeOK, EspTypeOK
    <3> QED
      BY <3>1 DEF StatusChanges, Queued, Uploaded
  <2>2. CASE ~EspAction({0}, {NOW})
    <3>1. UNCHANGED status
      BY <2>2 DEF Next, EspAction, TimerRings, EspRestarts, PicoSends, espVars, webVars
    <3> QED
      BY <3>1
  <2> QED
    BY <2>1, <2>2
<1> QED
  BY <1>1, EspTypeCorrect, PTL DEF Spec, EndIsFinal
=============================================================================
