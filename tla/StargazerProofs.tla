--------------------------- MODULE StargazerProofs ---------------------------
(***************************************************************************)
(* The whole system (Stargazer), for every set of commands, every size of  *)
(* the queues and of the line, with and without faults and restarts of the *)
(* Pico.  What the server shows is followed back to the history of what    *)
(* the Pico has said: through the send queue of the Pico, the line, the    *)
(* two queues of the ESP and the two tasks in between.                     *)
(***************************************************************************)
EXTENDS Stargazer, ControllerProofs, TaskProofs

----------------------------------------------------------------------------
(* The messages and the requests that repeat what the Pico has said.       *)
Honest(said) ==
  {m \in Message : /\ m.type = "CMD_STATUS" => m.val \in said[m.id]
                   /\ m.type = "PICTURE" => Requested \in said[m.id]}

HonestRequests(said) ==
  {r \in Requests :
     r.id \in Ids => /\ r.type = "POST" => r.val \in said[r.id]
                     /\ r.type = "POST_IMAGE" => Requested \in said[r.id]}

(* The strengthening: nothing else is on its way to the server.            *)
OnTheWay ==
  /\ send_msg_queue \in Seq(Honest(told))
  /\ Carried(Honest(told), Incoming, HonestRequests(told))

SystemInv ==
  /\ ControllerTypeOK /\ FlagTypeOK /\ TableTypeOK
  /\ WaitsForMotors
  /\ OnTheWay
  /\ Truthful

----------------------------------------------------------------------------
(* What a step of the Pico does to its side of the line: it may empty it.  *)
LEMMA PicoReads ==
  ASSUME Loop \/ Hardware
  PROVE  from_esp' \in {from_esp, <<>>}
<1> USE DEF linkVars
<1>1. CASE InitRead \/ InitLocate
  BY <1>1 DEF InitRead, InitLocate
<1>2. CASE ReceiveAny
  BY <1>2 DEF ReceiveAny, ReceiveResponse, ReceiveDatetime, ReceiveDeviceStatus,
     ReceiveInstructions, ReceiveUnexpected, Receive
<1>3. CASE Sanitize
  BY <1>3 DEF Sanitize, SanitizeSkip, SanitizeDiscard, SanitizeArm, SanitizeUnchanged
<1>4. CASE CommRead
  BY <1>4 DEF CommRead
<1>5. CASE CommProcess \/ ConfigAnswered \/ ConfigGivenUp
  BY <1>5 DEF CommProcess, ConfigAnswered, ConfigGivenUp
<1>6. CASE InstrAny
  BY <1>6 DEF InstrAny, InstrIgnored, InstrRejected, InstrImpossible, InstrNow,
     InstrTimed, InstrProcess
<1>7. CASE MotorCalibrate \/ MotorWait \/ MotorOff \/ Sleep
  BY <1>7 DEF MotorCalibrate, MotorWait, MotorOff, Sleep
<1>8. CASE MotorControlAny
  BY <1>8 DEF MotorControlAny, MotorControlEarly, MotorControlLate,
     MotorControlTurn, MotorControlEmpty, MotorControlStep
<1>9. CASE Trace
  BY <1>9 DEF Trace, TraceStart, TraceHold, TraceTurn, TraceEnd, TraceStep
<1>10. CASE Hardware
  BY <1>10 DEF Hardware, Second, AlarmIrq, OptoIrq, MotorsReach
<1> QED
  BY <1>1, <1>2, <1>3, <1>4, <1>5, <1>6, <1>7, <1>8, <1>9, <1>10 DEF Loop

(* What a step of the Pico does to its send queue, to the ESP's side of    *)
(* the line and to the history: it queues a report and remembers it, a     *)
(* picture only of the command the motors have turned for, queues what is  *)
(* no report, puts an answer or a question on the line past the queue, or  *)
(* sends the first message of the queue off.                               *)
Answers == {response(TRUE), response(FALSE), datetime_request}
Answered == UNCHANGED to_esp \/ \E m \in Answers : Transmit(m)

(* What a step of the Pico says: nothing new, a message that names no      *)
(* command, or a report, which is then in the history; PICTURE is said of  *)
(* the command the motors turned for.                                      *)
LEMMA PicoSays ==
  ASSUME ControllerTypeOK, WaitsForMotors, Loop \/ Hardware
  PROVE  \/ UNCHANGED <<send_msg_queue, told>> /\ Answered
         \/ (\E m \in {device_status, diagnostics} : Send(m)) /\ UNCHANGED told /\ Answered
         \/ \E id \in Ids \cup {NoId}, s \in Statuses :
              /\ Report(id, s)
              /\ s = Requested => check_motor /\ current_command = id
              /\ UNCHANGED to_esp
         \/ /\ send_msg_queue # <<>>
            /\ send_msg_queue' = Tail(send_msg_queue)
            /\ Transmit(Head(send_msg_queue))
            /\ UNCHANGED told
<1> USE DEF SilentCommands, Statuses, linkVars, Answered, Answers
<1>0. /\ commands \in Seq(Command) /\ instr_msg_queue \in Seq(Instruction)
      /\ current_command \in Ids \cup {NoId}
  BY DEF ControllerTypeOK, QueueTypeOK, LoopTypeOK
<1>a. \A s \in {Calculated, Impossible, Rejected, PictureFailed} : s # Requested
  BY DEF Calculated, Impossible, Rejected, PictureFailed, Requested
<1>1. CASE InitRead \/ InitLocate
  BY <1>1 DEF InitRead, InitLocate
<1>2. CASE ReceiveAny
  BY <1>2 DEF ReceiveAny, ReceiveResponse, ReceiveDatetime, ReceiveDeviceStatus,
     ReceiveInstructions, ReceiveUnexpected, Receive
<1>3. CASE SanitizeSkip \/ SanitizeArm
  BY <1>3 DEF SanitizeSkip, SanitizeArm, SanitizeUnchanged
<1>4. CASE SanitizeDiscard
  <2>1. PICK s \in Sorted(commands) :
          commands # <<>> /\ Report(Head(s).id, Impossible)
    BY <1>4 DEF SanitizeDiscard
  <2>2. s \in Seq(Command) /\ s # <<>>
    BY <1>0, <2>1, SortedProperties, EmptySeq
  <2>3. Head(s) \in Command
    BY <2>2, HeadTypeCorrect
  <2>4. Head(s).id \in Ids
    BY <2>3 DEF Command
  <2>5. UNCHANGED to_esp
    BY <1>4 DEF SanitizeDiscard, SanitizeUnchanged
  <2> QED
    BY <1>a, <2>1, <2>4, <2>5
<1>5. CASE CommRead
  BY <1>5 DEF CommRead
<1>6. CASE CommProcess \/ ConfigAnswered \/ ConfigGivenUp
  BY <1>6 DEF CommProcess, ConfigAnswered, ConfigGivenUp
<1>7. CASE InstrAny
  <2>1. instr_msg_queue # <<>> /\ UNCHANGED to_esp
    BY <1>7 DEF InstrAny, InstrIgnored, InstrRejected, InstrImpossible, InstrNow,
       InstrTimed, InstrProcess
  <2>2. Head(instr_msg_queue) \in Instruction
    BY <1>0, <2>1, HeadTypeCorrect
  <2>3. Head(instr_msg_queue).id \in Ids
    BY <2>2 DEF Instruction
  <2> QED
    BY <1>7, <1>a, <2>1, <2>3 DEF InstrAny, InstrIgnored, InstrRejected,
       InstrImpossible, InstrNow, InstrTimed
<1>8. CASE MotorCalibrate \/ MotorOff \/ Sleep
  BY <1>8 DEF MotorCalibrate, MotorOff, Sleep
<1>9. CASE MotorWait
  BY <1>0, <1>9 DEF MotorWait, Case, WaitsForMotors
<1>10. CASE MotorControlAny
  BY <1>0, <1>a, <1>10 DEF MotorControlAny, MotorControlEarly, MotorControlLate,
     MotorControlTurn, MotorControlEmpty, MotorControlStep
<1>11. CASE Trace
  BY <1>11 DEF Trace, TraceStart, TraceHold, TraceTurn, TraceEnd, TraceStep
<1>12. CASE Hardware
  BY <1>12 DEF Hardware, Second, AlarmIrq, OptoIrq, MotorsReach, Unmoved
<1> QED
  BY <1>1, <1>2, <1>3, <1>4, <1>5, <1>6, <1>7, <1>8, <1>9, <1>10, <1>11, <1>12
     DEF Loop, Sanitize

----------------------------------------------------------------------------
(* Honest messages make honest requests, and what is no report is honest.  *)
LEMMA HonestFits ==
  ASSUME NEW said
  PROVE  Fits(Honest(said), Incoming, HonestRequests(said), Times, Offered)
<1>1. /\ Honest(said) \subseteq Message /\ HonestRequests(said) \subseteq Requests
      /\ Times \subseteq Int
  BY MaxTimeAssumption DEF Honest, HonestRequests, Times
<1>2. \A m \in Honest(said) :
        /\ m.type = "CMD_STATUS" => report(m.id, m.val) \in HonestRequests(said)
        /\ m.type = "PICTURE" => Request("POST_IMAGE", m.id, 0) \in HonestRequests(said)
  BY DEF Honest, HonestRequests, Message, Requests, RequestTypes, report, Request
<1>3. /\ diagnosis \in HonestRequests(said)
      /\ \A type \in RequestTypes :
           /\ Request(type, NoId, 0) \in HonestRequests(said)
           /\ Request(type, NoId, Stale) \in HonestRequests(said)
  BY ProtocolAssumption
     DEF HonestRequests, Requests, RequestTypes, diagnosis, Request, Stale
<1>4. /\ response(TRUE) \in Incoming /\ response(FALSE) \in Incoming
      /\ device_status \in Incoming
      /\ \A t \in Times : Msg("DATETIME", NoId, t) \in Incoming
  BY DEF Incoming, Instruction, response, device_status, Msg, MessageTypes
<1>5. \A id \in Ids, p \in Offered : Msg("INSTRUCTIONS", id, p) \in Incoming
  BY StargazerAssumption DEF Incoming, Instruction, Msg
<1> QED
  BY <1>1, <1>2, <1>3, <1>4, <1>5 DEF Fits

(* Messages that name no status of a command are honest.                   *)
LEMMA HonestByNature ==
  ASSUME NEW said
  PROVE  /\ Answers \subseteq Honest(said)
         /\ device_status \in Honest(said) /\ diagnostics \in Honest(said)
BY DEF Answers, Honest, Message, MessageTypes, Msg, response, datetime_request,
       device_status, diagnostics

(* What was honest stays honest when more is said.                         *)
LEMMA HonestGrows ==
  ASSUME NEW said, NEW more, \A i \in Ids \cup {NoId} : said[i] \subseteq more[i]
  PROVE  /\ Honest(said) \subseteq Honest(more)
         /\ HonestRequests(said) \subseteq HonestRequests(more)
BY DEF Honest, HonestRequests, Message, Requests

----------------------------------------------------------------------------
(* The strengthening is kept, by the Pico, by the ESP and by a restart.    *)

(* The Pico says more, and what it says is in its history.                 *)
LEMMA PicoKeeps ==
  ASSUME SystemInv, Loop \/ Hardware, UNCHANGED espVars
  PROVE  SystemInv'
<1>1. ControllerTypeOK'
  BY ControllerTypeStep DEF SystemInv, ControllerAction
<1>2. PICK M : M = Honest(told)
  OBVIOUS
<1>3. PICK N : N = Honest(told')
  OBVIOUS
<1>4. PICK R : R = HonestRequests(told)
  OBVIOUS
<1>5. PICK S : S = HonestRequests(told')
  OBVIOUS
<1>6. ToldTypeOK /\ Carried(M, Incoming, R) /\ send_msg_queue \in Seq(M)
  BY <1>2, <1>4 DEF SystemInv, OnTheWay, ControllerTypeOK
<1>7. \A i \in Ids \cup {NoId} : told[i] \subseteq told'[i]
  <2>1. ASSUME NEW id \in Ids \cup {NoId}, NEW s \in Statuses, Report(id, s)
        PROVE  \A i \in Ids \cup {NoId} : told[i] \subseteq told'[i]
    BY <1>6, <2>1 DEF Report, ToldTypeOK
  <2>2. \/ \E id \in Ids \cup {NoId}, s \in Statuses : Report(id, s)
        \/ told' = told
    BY PicoSays DEF SystemInv
  <2> QED
    BY <2>1, <2>2
<1>8. M \subseteq N /\ R \subseteq S
  BY <1>2, <1>3, <1>4, <1>5, <1>7, HonestGrows
<1>9. /\ send_msg_queue \in Seq(N)
      /\ to_esp \in Seq(N) /\ received \in Seq(N) /\ web_queue \in Seq(S)
  BY <1>6, <1>8, SeqMonotonic DEF Carried
<1>10. Answers \subseteq N /\ device_status \in N /\ diagnostics \in N
  BY <1>3, HonestByNature
<1>11. send_msg_queue' \in Seq(N)
  <2>1. ASSUME NEW m \in N, Send(m)
        PROVE  send_msg_queue' \in Seq(N)
    BY <1>9, <2>1, AppendProperties DEF Send
  <2>2. CASE \E id \in Ids \cup {NoId}, s \in Statuses : Report(id, s)
    <3>1. PICK id \in Ids \cup {NoId}, s \in Statuses : Report(id, s)
      BY <2>2
    <3>2. s \in told'[id]
      BY <1>6, <3>1 DEF Report, ToldTypeOK
    <3>3. (IF s = Requested THEN picture(id) ELSE cmd_status(id, s)) \in N
      BY <1>3, <3>2 DEF Honest, picture, cmd_status, Msg, Message, MessageTypes,
         Statuses, Calculated, Impossible, Rejected, PictureFailed, Requested
    <3> QED
      BY <2>1, <3>1, <3>3 DEF Report
  <2>3. CASE send_msg_queue # <<>> /\ send_msg_queue' = Tail(send_msg_queue)
    BY <1>9, <2>3, Popped
  <2> QED
    BY <1>9, <1>10, <2>1, <2>2, <2>3, PicoSays DEF SystemInv
<1>12. to_esp' \in Seq(N) /\ Len(to_esp') <= LinkCapacity
  <2>1. Len(to_esp) <= LinkCapacity
    BY <1>6 DEF Carried
  <2>2. ASSUME NEW m \in N, Transmit(m)
        PROVE  to_esp' \in Seq(N) /\ Len(to_esp') <= LinkCapacity
    BY <1>9, <2>1, <2>2, ProtocolAssumption, AppendProperties, LenProperties DEF Transmit
  <2>3. send_msg_queue # <<>> => Head(send_msg_queue) \in N
    BY <1>9, Popped
  <2> QED
    BY <1>9, <1>10, <2>1, <2>2, <2>3, PicoSays DEF SystemInv, Answered
<1>13. from_esp' \in Seq(Incoming) /\ Len(from_esp') <= PicoBuffer
  <2>1. <<>> \in Seq(Incoming) /\ Len(<<>>) <= PicoBuffer
    BY EspAssumption
  <2> QED
    BY <1>6, <2>1, PicoReads DEF Carried
<1>14. /\ UNCHANGED <<received, web_queue, handling, serving, request_type>>
       /\ UNCHANGED status
  BY DEF espVars, handlerVars, webVars
<1>15. Carried(N, Incoming, S)'
  <2>1. /\ Len(received) <= ReceivedCapacity /\ Len(web_queue) <= WebCapacity
        /\ handling \in Message /\ request_type \in RequestTypes
        /\ handling.type = "PICTURE" => handling \in N
        /\ handling.type \in {"DATETIME", "DEVICE_STATUS"} => handling \in Incoming
        /\ serving \in S \cup {Idle}
    BY <1>6, <1>8 DEF Carried
  <2> QED
    BY <1>9, <1>12, <1>13, <1>14, <2>1 DEF Carried
<1>16. OnTheWay'
  BY <1>3, <1>5, <1>11, <1>15 DEF OnTheWay, Carried
<1>17. FlagTypeOK' /\ TableTypeOK'
  BY DEF SystemInv, FlagTypeOK, TableTypeOK, espVars, sendVars, handlerVars, webVars
<1>18. Truthful'
  BY <1>7, <1>14 DEF SystemInv, Truthful
<1>19. WaitsForMotors'
  BY WaitsForMotorsStep DEF SystemInv, ControllerAction
<1> QED
  BY <1>1, <1>16, <1>17, <1>18, <1>19 DEF SystemInv

(* The ESP and the server pass on what is honest, and a status changes to  *)
(* what an honest request says.                                            *)
LEMMA EspKeeps ==
  ASSUME SystemInv, EspAction(Times, Offered), EspOnly
  PROVE  SystemInv'
<1>1. PICK M : M = Honest(told)
  OBVIOUS
<1>2. PICK R : R = HonestRequests(told)
  OBVIOUS
<1>3. UNCHANGED <<told, send_msg_queue>>
  BY DEF EspOnly, Unmoved
<1>4. M = Honest(told') /\ R = HonestRequests(told')
  BY <1>1, <1>2, <1>3
<1>5. Carried(M, Incoming, R)'
  BY <1>1, <1>2, HonestFits, EspCarries DEF SystemInv, OnTheWay
<1>6. OnTheWay'
  BY <1>1, <1>3, <1>4, <1>5 DEF SystemInv, OnTheWay, Carried
<1>7. FlagTypeOK' /\ TableTypeOK' /\ \A id \in Ids : StatusChanges(id)
  BY FlagsStep, StatusStep DEF SystemInv
<1>8. ControllerTypeOK'
  <2>1. from_esp' \in Seq(Incoming) /\ to_esp' \in Seq(M) /\ M \subseteq Message
    BY <1>1, <1>5 DEF Carried, Honest
  <2>2. to_esp' \in Seq(Message)
    BY <2>1, SeqMonotonic
  <2> QED
    BY <2>1, <2>2 DEF SystemInv, ControllerTypeOK, LoopTypeOK, QueueTypeOK,
       ToldTypeOK, ClockTypeOK, MotorTypeOK, EspOnly, Unmoved, loopVars,
       captureVars, traceVars, clockVars, motorVars
<1>9. ASSUME NEW id \in Ids
      PROVE  /\ status'[id] \notin {Queued, Fetched, Uploaded} => status'[id] \in told[id]
             /\ status'[id] = Uploaded => Requested \in told[id]
  <2>1. serving.type \in {"POST", "POST_IMAGE"} => serving \in HonestRequests(told)
    BY DEF SystemInv, OnTheWay, Carried, Idle, Request
  <2>2. /\ status[id] \notin {Queued, Fetched, Uploaded} => status[id] \in told[id]
        /\ status[id] = Uploaded => Requested \in told[id]
    BY DEF SystemInv, Truthful
  <2>3. StatusChanges(id)
    BY <1>7
  <2> QED
    BY <2>1, <2>2, <2>3 DEF StatusChanges, HonestRequests, Queued, Fetched, Uploaded
<1>10. Truthful'
  BY <1>3, <1>9 DEF Truthful
<1>11. WaitsForMotors'
  BY DEF SystemInv, WaitsForMotors, EspOnly, Unmoved, loopVars, captureVars
<1> QED
  BY <1>6, <1>7, <1>8, <1>10, <1>11 DEF SystemInv

(* A restart of the Pico forgets, and says nothing.                        *)
LEMMA RestartKeeps ==
  ASSUME SystemInv, PicoRestarts
  PROVE  SystemInv'
<1>1. UNCHANGED <<told, espVars>>
  BY DEF PicoRestarts
<1>2. UNCHANGED <<received, web_queue, handling, serving, request_type, status>>
  BY <1>1 DEF espVars, handlerVars, webVars
<1>3. PICK M : M = Honest(told)
  OBVIOUS
<1>4. to_esp \in Seq(M) /\ Len(to_esp) \in Nat /\ Len(to_esp) <= LinkCapacity
  BY <1>3, LenProperties DEF SystemInv, OnTheWay, Carried
<1>5. to_esp' \in Seq(M) /\ Len(to_esp') <= LinkCapacity
  <2>1. PICK k \in 0 .. Len(to_esp) : to_esp' = SubSeq(to_esp, 1, k)
    BY DEF PicoRestarts
  <2>2. \A i \in 1 .. k : to_esp[i] \in M
    BY <1>4, ElementOfSeq
  <2>3. /\ to_esp' \in Seq(M)
        /\ Len(to_esp') = IF 1 <= k THEN k - 1 + 1 ELSE 0
    BY <1>4, <2>1, <2>2, SubSeqProperties
  <2> QED
    BY <1>4, <2>3, ProtocolAssumption
<1>6. /\ from_esp' = <<>> /\ send_msg_queue' = <<>>
      /\ Len(from_esp') <= PicoBuffer
  <2>1. from_esp' = <<>> /\ send_msg_queue' = <<>>
    BY DEF PicoRestarts
  <2> QED
    BY <2>1, EspAssumption
<1>7. M = Honest(told') /\ HonestRequests(told') = HonestRequests(told)
  BY <1>1, <1>3
<1>8. OnTheWay'
  <2>1. <<>> \in Seq(M) /\ <<>> \in Seq(Incoming)
    OBVIOUS
  <2> QED
    BY <1>2, <1>3, <1>5, <1>6, <1>7, <2>1 DEF SystemInv, OnTheWay, Carried
<1>9. FlagTypeOK' /\ TableTypeOK' /\ Truthful'
  BY <1>1 DEF SystemInv, FlagTypeOK, TableTypeOK, Truthful, espVars, sendVars,
     handlerVars, webVars
<1>10. ControllerTypeOK'
  <2>1. LoopTypeOK'
    <3>1. pc' = "boot" /\ state' = "COMM_READ" /\ last_sent' = "UNASSIGNED"
      BY DEF PicoRestarts
    <3>2. now_commands' = 0 /\ trace_hours' = 0 /\ current_command' = NoId
      BY DEF PicoRestarts
    <3>3. \A flag \in {initialized', double_check', check_motor',
                       waiting_for_camera', trace_started', trace_pause', fix'} :
            flag \in BOOLEAN
      BY DEF PicoRestarts
    <3> QED
      BY <3>1, <3>2, <3>3, ControllerAssumption DEF LoopTypeOK, Points, States,
         MessageTypes
  <2>2. QueueTypeOK'
    <3>1. to_esp' \in Seq(Message)
      BY <1>3, <1>5, SeqMonotonic DEF Honest
    <3>2. UNCHANGED from_esp \/ from_esp' = <<>>
      BY <1>6
    <3> QED
      BY <3>1 DEF PicoRestarts, QueueTypeOK
  <2>3. ToldTypeOK'
    BY <1>1 DEF SystemInv, ControllerTypeOK, ToldTypeOK
  <2>4. ClockTypeOK'
    <3>1. 0 \in Times
      BY MaxTimeAssumption DEF Times
    <3> QED
      BY <3>1 DEF PicoRestarts, ClockTypeOK
  <2>5. MotorTypeOK'
    <3>1. 0 \in 0 .. CalTicks
      BY MotorAssumption
    <3> QED
      BY <3>1 DEF PicoRestarts, MotorTypeOK
  <2> QED
    BY <2>1, <2>2, <2>3, <2>4, <2>5 DEF ControllerTypeOK
<1>11. WaitsForMotors'
  BY DEF PicoRestarts, WaitsForMotors
<1> QED
  BY <1>8, <1>9, <1>10, <1>11 DEF SystemInv

(* Every step of the system keeps the strengthening.                       *)
LEMMA SystemStep ==
  ASSUME SystemInv, [Next]_allVars
  PROVE  SystemInv'
<1>1. CASE PicoStep
  BY <1>1, PicoKeeps DEF PicoStep
<1>2. CASE EspStep \/ FailureStep \/ TimeTimerRings \/ CommandTimerRings
  BY <1>2, EspKeeps DEF EspStep, InitTaskStep, UartReadStep, HandlerStep, WebStep,
     FailureStep, TimeTimerRings, CommandTimerRings, EspAction
<1>3. CASE PicoRestarts
  BY <1>3, RestartKeeps
<1>4. CASE UNCHANGED allVars
  <2>1. UNCHANGED <<vars, espVars>>
    BY <1>4 DEF allVars
  <2>2. ControllerTypeOK'
    BY <2>1, ControllerTypeStutter DEF SystemInv
  <2>3. UNCHANGED <<told, send_msg_queue, from_esp, to_esp>>
    BY <2>1 DEF vars, linkVars
  <2>4. UNCHANGED <<received, web_queue, handling, serving, request_type, status>>
    BY <2>1 DEF espVars, handlerVars, webVars
  <2>5. FlagTypeOK' /\ TableTypeOK' /\ Truthful'
    BY <2>1, <2>3 DEF SystemInv, FlagTypeOK, TableTypeOK, Truthful, espVars,
       sendVars, handlerVars, webVars
  <2>6. OnTheWay'
    BY <2>3, <2>4 DEF SystemInv, OnTheWay, Carried
  <2>7. WaitsForMotors'
    BY <2>1 DEF SystemInv, WaitsForMotors, vars, loopVars, captureVars
  <2> QED
    BY <2>2, <2>5, <2>6, <2>7 DEF SystemInv
<1> QED
  BY <1>1, <1>2, <1>3, <1>4 DEF Next

(* It holds at power-on.                                                   *)
LEMMA SystemInitially == Init => SystemInv
<1> SUFFICES ASSUME Init PROVE SystemInv
  OBVIOUS
<1>1. ControllerTypeOK
  BY ControllerTypeInitially DEF Init
<1>2. FlagTypeOK
  BY NoAttempts DEF Init, EspInit, FlagTypeOK, Responses
<1>3. TableTypeOK /\ Truthful
  BY DEF Init, EspInit, TableInit, TableTypeOK, Truthful, Queued, Fetched, Uploaded
<1>4. OnTheWay
  <2>1. Nothing \in Message /\ Nothing.type = "UNASSIGNED"
    BY DEF Nothing, Msg, Message, MessageTypes
  <2>2. /\ received = <<>> /\ web_queue = <<>> /\ send_msg_queue = <<>>
        /\ to_esp = <<>> /\ from_esp = <<>>
        /\ handling = Nothing /\ serving = Idle /\ request_type = "UNDEFINED"
    BY DEF Init, EspInit, ControllerInit, LinkInit
  <2>3. \A T : <<>> \in Seq(T) /\ Len(<<>>) = 0
    OBVIOUS
  <2> QED
    BY <2>1, <2>2, <2>3, EspAssumption, ProtocolAssumption
       DEF OnTheWay, Carried, RequestTypes
<1>5. WaitsForMotors
  BY DEF Init, ControllerInit, WaitsForMotors
<1> QED
  BY <1>1, <1>2, <1>3, <1>4, <1>5 DEF SystemInv

(* The state start-up leads to, from which the larger instances start.     *)
LEMMA SystemReady == ReadyInit => SystemInv
<1> SUFFICES ASSUME ReadyInit PROVE SystemInv
  OBVIOUS
<1>1. ControllerTypeOK
  <2>1. LoopTypeOK
    <3>1. pc = "top" /\ state = "COMM_READ" /\ last_sent = "DEVICE_STATUS"
      BY DEF ReadyInit
    <3>2. now_commands = 0 /\ trace_hours = 0 /\ current_command = NoId
      BY DEF ReadyInit
    <3>3. \A flag \in {initialized, double_check, check_motor,
                       waiting_for_camera, trace_started, trace_pause, fix} :
            flag \in BOOLEAN
      BY DEF ReadyInit
    <3> QED
      BY <3>1, <3>2, <3>3, ControllerAssumption DEF LoopTypeOK, Points, States,
         MessageTypes
  <2>2. QueueTypeOK
    BY EmptySeq DEF ReadyInit, LinkInit, QueueTypeOK
  <2>3. ToldTypeOK
    BY DEF ReadyInit, ToldTypeOK
  <2>4. ClockTypeOK
    <3>1. 0 \in Times
      BY MaxTimeAssumption DEF Times
    <3> QED
      BY <3>1 DEF ReadyInit, ClockTypeOK
  <2>5. MotorTypeOK
    <3>1. 0 \in 0 .. CalTicks
      BY MotorAssumption
    <3>2. MotorInit
      BY DEF ReadyInit
    <3> QED
      BY <3>1, <3>2 DEF MotorInit, MotorTypeOK
  <2> QED
    BY <2>1, <2>2, <2>3, <2>4, <2>5 DEF ControllerTypeOK
<1>2. FlagTypeOK
  <2>1. [t \in Tasks |-> 1] \in [Tasks -> 0 .. RETRIES]
    <3>1. 1 \in 0 .. RETRIES
      BY EspAssumption
    <3> QED
      BY <3>1
  <2> QED
    BY <2>1 DEF ReadyInit, FlagTypeOK, Responses
<1>3. TableTypeOK /\ Truthful
  BY DEF ReadyInit, TableInit, TableTypeOK, Truthful, Queued, Fetched, Uploaded
<1>4. OnTheWay
  <2>1. Nothing \in Message /\ Nothing.type = "UNASSIGNED"
    BY DEF Nothing, Msg, Message, MessageTypes
  <2>2. /\ received = <<>> /\ send_msg_queue = <<>>
        /\ to_esp = <<>> /\ from_esp = <<>>
        /\ handling = Nothing /\ serving = Idle /\ request_type = "UNDEFINED"
    BY DEF ReadyInit, LinkInit
  <2>3. \A T : <<>> \in Seq(T) /\ Len(<<>>) = 0
    OBVIOUS
  <2>4. Request("GET_COMMANDS", NoId, 0) \in HonestRequests(told)
    BY HonestFits DEF Fits, RequestTypes
  <2>5. Polls \in Nat /\ Polls <= WebCapacity
    BY StargazerAssumption, EspAssumption
  <2>6. web_queue \in Seq(HonestRequests(told)) /\ Len(web_queue) <= WebCapacity
    <3>1. web_queue = [k \in 1 .. Polls |-> Request("GET_COMMANDS", NoId, 0)]
      BY DEF ReadyInit
    <3>2. web_queue \in Seq(HonestRequests(told))
      BY <2>4, <2>5, <3>1, IsASeq
    <3> QED
      BY <2>5, <3>1, <3>2, LenProperties
  <2> QED
    BY <2>1, <2>2, <2>3, <2>6, EspAssumption, ProtocolAssumption
       DEF OnTheWay, Carried, RequestTypes
<1>5. WaitsForMotors
  BY DEF ReadyInit, WaitsForMotors
<1> QED
  BY <1>1, <1>2, <1>3, <1>4, <1>5 DEF SystemInv

----------------------------------------------------------------------------
(* The theorems.                                                           *)

(* So it holds always.                                                     *)
LEMMA SystemInvariant == (Spec => []SystemInv) /\ (ReadySpec => []SystemInv)
<1>1. SystemInv /\ [Next]_allVars => SystemInv'
  BY SystemStep
<1> QED
  BY <1>1, SystemInitially, SystemReady, PTL DEF Spec, ReadySpec

(* The types of all the variables of both devices and the server, and the  *)
(* sizes of the queues between them, from power-on and from the state      *)
(* start-up leads to.                                                      *)
THEOREM SystemTypeCorrect == (Spec => []TypeOK) /\ (ReadySpec => []TypeOK)
<1>1. SystemInv => TypeOK
  <2> SUFFICES ASSUME SystemInv PROVE TypeOK
    OBVIOUS
  <2>1. Honest(told) \subseteq Message /\ HonestRequests(told) \subseteq Requests
    BY DEF Honest, HonestRequests
  <2>2. Carried(Honest(told), Incoming, HonestRequests(told))
    BY DEF SystemInv, OnTheWay
  <2>3. received \in Seq(Message) /\ web_queue \in Seq(Requests)
    BY <2>1, <2>2, SeqMonotonic DEF Carried
  <2>4. serving \in Requests \cup {Idle}
    BY <2>1, <2>2 DEF Carried
  <2> QED
    BY <2>2, <2>3, <2>4 DEF SystemInv, TypeOK, EspTypeOK, FlagTypeOK, Carried
<1> QED
  BY <1>1, SystemInvariant, PTL

(* What the server shows of a command is what the Pico said of it, and a   *)
(* picture it shows was asked for, whatever full queues, cut reads, waits, *)
(* failures and restarts of the Pico drop (tasks.cpp:673-708, 741;         *)
(* commands.rs:168-221).                                                   *)
THEOREM TruthfulAlways == (Spec => []Truthful) /\ (ReadySpec => []Truthful)
<1>1. SystemInv => Truthful
  BY DEF SystemInv
<1> QED
  BY <1>1, SystemInvariant, PTL

----------------------------------------------------------------------------
(* One picture of a command.  Where its picture is, or the request to      *)
(* upload it, from the send queue of the Pico to what the server shows.    *)

PicturesOf(id) == [type : {"PICTURE"}, id : {id}, val : Int]
UploadsOf(id) == [type : {"POST_IMAGE"}, id : {id}, val : Int]

AtPico(id) == Count(send_msg_queue, PicturesOf(id))
OnWire(id) == Count(to_esp, PicturesOf(id))
AtEsp(id) == Count(received, PicturesOf(id))
InHand(id) == Bit(handling \in PicturesOf(id))
ForUpload(id) == Count(web_queue, UploadsOf(id))
BeingSent(id) == Bit(serving \in UploadsOf(id))
Shown(id) == Bit(status[id] = Uploaded)

Copies(id) ==
  AtPico(id) + OnWire(id) + AtEsp(id) + InHand(id) + ForUpload(id)
    + BeingSent(id) + Shown(id)

(* The strengthening: a command that is queued at the server and the       *)
(* chances the Pico gives it make no more than one, and there are copies   *)
(* of its picture only once it was asked for, one at the most.             *)
PictureInv ==
  \A id \in Ids :
    /\ Bit(status[id] = Queued) + Chances(id) <= 1
    /\ Copies(id) <= Bit(Requested \in told[id])

(* Every summand of the copies is a small number.                          *)
LEMMA CopiesAreNatural ==
  ASSUME TypeOK, NEW id \in Ids
  PROVE  /\ AtPico(id) \in Nat /\ OnWire(id) \in Nat /\ AtEsp(id) \in Nat
         /\ InHand(id) \in 0 .. 1 /\ ForUpload(id) \in Nat
         /\ BeingSent(id) \in 0 .. 1 /\ Shown(id) \in 0 .. 1
<1>1. /\ send_msg_queue \in Seq(Message) /\ to_esp \in Seq(Message)
      /\ received \in Seq(Message) /\ web_queue \in Seq(Requests)
  BY DEF TypeOK, ControllerTypeOK, QueueTypeOK, EspTypeOK
<1>2. AtPico(id) \in Nat /\ OnWire(id) \in Nat /\ AtEsp(id) \in Nat
  BY <1>1, CountIsNatural DEF AtPico, OnWire, AtEsp
<1>3. ForUpload(id) \in Nat
  BY <1>1, CountIsNatural DEF ForUpload
<1> QED
  BY <1>2, <1>3 DEF InHand, BeingSent, Shown, Bit

(* What is queued for the web task counts at most once.                    *)
LEMMA EnqueueCounts ==
  ASSUME web_queue \in Seq(Requests), NEW requests \in Seq(Requests), NEW S,
         Enqueue(requests)
  PROVE  Count(web_queue', S) <= Count(web_queue, S) + Count(requests, S)
<1> DEFINE all == web_queue \o requests
<1>1. all \in Seq(Requests) /\ Len(all) \in Nat
  BY ConcatProperties, LenProperties
<1>2. web_queue' = IF Len(all) <= WebCapacity THEN all ELSE SubSeq(all, 1, WebCapacity)
  BY DEF Enqueue
<1>3. Count(all, S) = Count(web_queue, S) + Count(requests, S)
  BY CountConcat
<1>4. Count(all, S) \in Nat
  BY <1>1, CountIsNatural
<1> HIDE DEF all
<1>5. CASE Len(all) <= WebCapacity
  BY <1>2, <1>3, <1>4, <1>5
<1>6. CASE ~(Len(all) <= WebCapacity)
  <2>1. WebCapacity \in 0 .. Len(all)
    BY <1>1, <1>6, EspAssumption
  <2>2. Count(SubSeq(all, 1, WebCapacity), S) <= Count(all, S)
    BY <1>1, <2>1, CountPart
  <2> QED
    BY <1>2, <1>3, <1>6, <2>2
<1> QED
  BY <1>5, <1>6

(* A request that is put in the queue adds one copy at the most, none if   *)
(* the queue is full.                                                      *)
LEMMA EnqueueOneCounts ==
  ASSUME web_queue \in Seq(Requests), NEW r \in Requests, NEW id, Enqueue(<<r>>)
  PROVE  ForUpload(id)' <= ForUpload(id) + Bit(r \in UploadsOf(id))
<1> DEFINE one == <<r>>
<1>1. one \in Seq(Requests) /\ Count(one, UploadsOf(id)) = Bit(r \in UploadsOf(id))
  BY CountOne
<1>2. Enqueue(one)
  OBVIOUS
<1> HIDE DEF one
<1>3. Count(web_queue', UploadsOf(id)) <= Count(web_queue, UploadsOf(id)) + Count(one, UploadsOf(id))
  BY <1>1, <1>2, EnqueueCounts
<1> QED
  BY <1>1, <1>3 DEF ForUpload

(* What is put on the line, on either side, counts at most once.           *)
LEMMA LineCounts ==
  ASSUME NEW T, NEW m, NEW S
  PROVE  /\ to_esp \in Seq(T) /\ Transmit(m)
              => Count(to_esp', S) <= Count(to_esp, S) + Bit(m \in S)
         /\ from_esp \in Seq(T) /\ send_data(m)
              => Count(from_esp', S) <= Count(from_esp, S) + Bit(m \in S)
<1> DEFINE U == T \cup {m}
<1>1. m \in U /\ Bit(m \in S) \in 0 .. 1
  BY DEF Bit
<1>2. ASSUME NEW q \in Seq(T)
      PROVE  /\ Count(q, S) \in Nat
             /\ Count(Append(q, m), S) = Count(q, S) + Bit(m \in S)
  <2>1. q \in Seq(U)
    BY SeqMonotonic
  <2> HIDE DEF U
  <2> QED
    BY <1>1, <2>1, CountAppend, CountIsNatural
<1> HIDE DEF U
<1>3. ASSUME to_esp \in Seq(T), Transmit(m)
      PROVE  Count(to_esp', S) <= Count(to_esp, S) + Bit(m \in S)
  <2>1. Count(to_esp, S) \in Nat
    BY <1>2, <1>3
  <2>2. CASE to_esp' = Append(to_esp, m)
    BY <1>1, <1>2, <1>3, <2>1, <2>2
  <2>3. CASE to_esp' = to_esp
    BY <1>1, <2>1, <2>3
  <2> QED
    BY <1>3, <2>2, <2>3 DEF Transmit
<1>4. ASSUME from_esp \in Seq(T), send_data(m)
      PROVE  Count(from_esp', S) <= Count(from_esp, S) + Bit(m \in S)
  <2>1. Count(from_esp, S) \in Nat
    BY <1>2, <1>4
  <2>2. CASE from_esp' = Append(from_esp, m)
    BY <1>1, <1>2, <1>4, <2>1, <2>2
  <2>3. CASE from_esp' = from_esp
    BY <1>1, <2>1, <2>3
  <2> QED
    BY <1>4, <2>2, <2>3 DEF send_data
<1> QED
  BY <1>3, <1>4

(* The ESP and the server make no copy of a picture, or of the request to  *)
(* upload it, although the handler reuses its request.                     *)
LEMMA EspCopies ==
  ASSUME TypeOK, TypeOK', NEW id \in Ids, EspAction(Times, Offered),
         UNCHANGED send_msg_queue
  PROVE  Copies(id)' <= Copies(id)
<1>a. /\ to_esp \in Seq(Message) /\ received \in Seq(Message)
      /\ web_queue \in Seq(Requests) /\ handling \in Message
      /\ serving \in Requests \cup {Idle} /\ request_type \in RequestTypes
      /\ TableTypeOK
  BY DEF TypeOK, ControllerTypeOK, QueueTypeOK, EspTypeOK
<1>b. /\ AtPico(id) \in Nat /\ OnWire(id) \in Nat /\ AtEsp(id) \in Nat
      /\ InHand(id) \in 0 .. 1 /\ ForUpload(id) \in Nat
      /\ BeingSent(id) \in 0 .. 1 /\ Shown(id) \in 0 .. 1
  BY CopiesAreNatural
<1>c. /\ OnWire(id)' \in Nat /\ AtEsp(id)' \in Nat
      /\ InHand(id)' \in 0 .. 1 /\ ForUpload(id)' \in Nat
      /\ BeingSent(id)' \in 0 .. 1 /\ Shown(id)' \in 0 .. 1
  <2>1. /\ to_esp' \in Seq(Message)
        /\ received' \in Seq(Message) /\ web_queue' \in Seq(Requests)
    BY DEF TypeOK, ControllerTypeOK, QueueTypeOK, EspTypeOK
  <2>2. OnWire(id)' \in Nat /\ AtEsp(id)' \in Nat
    BY <2>1, CountIsNatural DEF OnWire, AtEsp
  <2>3. ForUpload(id)' \in Nat
    BY <2>1, CountIsNatural DEF ForUpload
  <2> QED
    BY <2>2, <2>3 DEF InHand, BeingSent, Shown, Bit
<1>d. /\ AtPico(id)' = AtPico(id)
      /\ UNCHANGED to_esp => OnWire(id)' = OnWire(id)
      /\ UNCHANGED received => AtEsp(id)' = AtEsp(id)
      /\ UNCHANGED handling => InHand(id)' = InHand(id)
      /\ UNCHANGED web_queue => ForUpload(id)' = ForUpload(id)
      /\ UNCHANGED serving => BeingSent(id)' = BeingSent(id)
      /\ UNCHANGED status => Shown(id)' = Shown(id)
  BY DEF AtPico, OnWire, AtEsp, InHand, ForUpload, BeingSent, Shown
<1>e. ASSUME NEW r \in Requests, r.type # "POST_IMAGE" \/ r.id # id, Enqueue(<<r>>)
      PROVE  ForUpload(id)' <= ForUpload(id)
  <2>1. Bit(r \in UploadsOf(id)) = 0
    BY <1>e DEF UploadsOf, Bit
  <2>2. ForUpload(id)' <= ForUpload(id) + Bit(r \in UploadsOf(id))
    BY <1>a, <1>e, EnqueueOneCounts
  <2> QED
    BY <1>b, <1>c, <2>1, <2>2
<1>f. /\ diagnosis \in Requests /\ diagnosis.id # id
      /\ stale \in Requests /\ stale.id # id
      /\ \A type \in RequestTypes :
           Request(type, NoId, 0) \in Requests /\ Request(type, NoId, 0).id # id
  BY <1>a, ProtocolAssumption DEF diagnosis, stale, Request, Requests, RequestTypes, Stale
<1>g. Enqueue(<<diagnosis>>) => ForUpload(id)' <= ForUpload(id)
  BY <1>e, <1>f
<1>h. PicoIsReady => ForUpload(id)' <= ForUpload(id)
  <2> SUFFICES ASSUME PicoIsReady PROVE ForUpload(id)' <= ForUpload(id)
    OBVIOUS
  <2> DEFINE d == diagnosis
             s == stale
  <2>1. d \in Requests /\ s \in Requests /\ Enqueue(<<d, s>>)
    BY <1>f DEF PicoIsReady
  <2>2. d \notin UploadsOf(id) /\ s \notin UploadsOf(id)
    BY <1>f DEF UploadsOf
  <2> HIDE DEF d, s
  <2>3. <<d>> \in Seq(Requests) /\ Count(<<d>>, UploadsOf(id)) = Bit(d \in UploadsOf(id))
    BY <2>1, CountOne
  <2>4. <<d, s>> \in Seq(Requests) /\ <<d, s>> = Append(<<d>>, s)
    BY <2>1
  <2> DEFINE one == <<d>>
             two == <<d, s>>
  <2>5. /\ one \in Seq(Requests) /\ Count(one, UploadsOf(id)) = Bit(d \in UploadsOf(id))
        /\ two \in Seq(Requests) /\ two = Append(one, s) /\ Enqueue(two)
    BY <2>1, <2>3, <2>4
  <2> HIDE DEF one, two
  <2>6. Count(two, UploadsOf(id)) = Count(one, UploadsOf(id)) + Bit(s \in UploadsOf(id))
    BY <2>1, <2>5, CountAppend
  <2>7. Count(two, UploadsOf(id)) = 0
    BY <2>2, <2>5, <2>6 DEF Bit
  <2>8. ForUpload(id)' <= ForUpload(id) + Count(two, UploadsOf(id))
    BY <1>a, <2>5, EnqueueCounts DEF ForUpload
  <2> QED
    BY <1>b, <1>c, <2>7, <2>8
<1>1. ASSUME UNCHANGED <<to_esp, received, handling, serving, status>>,
             ForUpload(id)' <= ForUpload(id)
      PROVE  Copies(id)' <= Copies(id)
  BY <1>b, <1>c, <1>d, <1>1 DEF Copies
<1>2. CASE InitTask
  <2>1. /\ UNCHANGED <<to_esp, received, handling, serving, status>>
        /\ UNCHANGED web_queue \/ Enqueue(<<diagnosis>>)
    BY <1>2 DEF InitTask, InitTaskBegin, InitTaskSend, InitTaskEnd, Attempt,
       linkVars, handlerVars, webVars
  <2> QED
    BY <1>1, <1>b, <1>d, <1>g, <2>1
<1>3. CASE GetCommandsTimer \/ GetTimeTimer
  <2>1. PICK type \in RequestTypes : Timer(type)
    BY <1>3 DEF GetCommandsTimer, GetTimeTimer, RequestTypes
  <2>2. /\ UNCHANGED <<to_esp, received, handling, serving, status>>
        /\ Enqueue(<<Request(type, NoId, 0)>>)
    BY <2>1 DEF Timer, linkVars, handlerVars, webVars
  <2> QED
    BY <1>1, <1>e, <1>f, <2>2
<1>4. CASE UartReadTask \/ ReadCut
  <2>1. /\ to_esp # <<>> /\ to_esp' = Tail(to_esp)
        /\ UNCHANGED <<handling, serving, status>>
        /\ UNCHANGED received \/ received' = Append(received, Head(to_esp))
        /\ UNCHANGED web_queue \/ Enqueue(<<diagnosis>>)
    BY <1>4 DEF UartReadTask, ReadWhileWaiting, ReadMessage, ReadOverflow, ReadCut,
       ReadUart, handlerVars, webVars
  <2>2. Head(to_esp) \in Message
    BY <1>a, <2>1, Popped
  <2>3. OnWire(id) = Bit(Head(to_esp) \in PicturesOf(id)) + OnWire(id)'
    BY <1>a, <2>1, CountTail DEF OnWire
  <2>4. Bit(Head(to_esp) \in PicturesOf(id)) \in 0 .. 1
    BY DEF Bit
  <2>5. AtEsp(id)' <= AtEsp(id) + Bit(Head(to_esp) \in PicturesOf(id))
    <3>1. CASE UNCHANGED received
      BY <1>b, <1>d, <2>4, <3>1
    <3>2. CASE received' = Append(received, Head(to_esp))
      <4>1. AtEsp(id)' = AtEsp(id) + Bit(Head(to_esp) \in PicturesOf(id))
        BY <1>a, <2>2, <3>2, CountAppend DEF AtEsp
      <4> QED
        BY <1>b, <2>4, <4>1
    <3> QED
      BY <2>1, <3>1, <3>2
  <2>6. ForUpload(id)' <= ForUpload(id)
    BY <1>b, <1>d, <1>g, <2>1
  <2>7. /\ InHand(id)' = InHand(id) /\ BeingSent(id)' = BeingSent(id)
        /\ Shown(id)' = Shown(id)
    BY <1>d, <2>1
  <2> QED
    BY <1>b, <1>c, <1>d, <2>3, <2>4, <2>5, <2>6, <2>7 DEF Copies
<1>5. ASSUME NEW type, Take(type), ForUpload(id)' <= ForUpload(id),
             \/ UNCHANGED handling \/ handling'.type # "PICTURE"
             \/ handling' = Head(received)
      PROVE  Copies(id)' <= Copies(id)
  <2>1. /\ handling = Nothing /\ received # <<>> /\ received' = Tail(received)
        /\ UNCHANGED <<to_esp, serving, status>>
    BY <1>5 DEF Take, webVars
  <2>2. AtEsp(id) = Bit(Head(received) \in PicturesOf(id)) + AtEsp(id)'
    BY <1>a, <2>1, CountTail DEF AtEsp
  <2>3. Bit(Head(received) \in PicturesOf(id)) \in 0 .. 1
    BY DEF Bit
  <2>4. InHand(id) = 0
    BY <2>1 DEF InHand, Bit, PicturesOf, Nothing, Msg
  <2>5. InHand(id)' <= Bit(Head(received) \in PicturesOf(id))
    <3>1. CASE UNCHANGED handling
      BY <1>d, <2>3, <2>4, <3>1
    <3>2. CASE handling'.type # "PICTURE"
      BY <2>3, <3>2 DEF InHand, Bit, PicturesOf
    <3>3. CASE handling' = Head(received)
      BY <2>3, <3>3 DEF InHand
    <3> QED
      BY <1>5, <3>1, <3>2, <3>3
  <2>6. /\ OnWire(id)' = OnWire(id) /\ BeingSent(id)' = BeingSent(id)
        /\ Shown(id)' = Shown(id)
    BY <1>d, <2>1
  <2> QED
    BY <1>b, <1>c, <1>d, <1>5, <2>2, <2>3, <2>4, <2>5, <2>6 DEF Copies
<1>6. ASSUME NEW type, Resume(type), handling' = Nothing,
             ForUpload(id)' <= ForUpload(id) + InHand(id)
      PROVE  Copies(id)' <= Copies(id)
  <2>1. UNCHANGED <<received, to_esp, serving, status>>
    BY <1>6 DEF Resume, webVars
  <2>2. InHand(id)' = 0
    BY <1>6 DEF InHand, Bit, PicturesOf, Nothing, Msg
  <2> QED
    BY <1>b, <1>c, <1>d, <1>6, <2>1, <2>2 DEF Copies
<1>7. CASE HandleUartDataTask(Times) \/ PictureFails
  <2>0. ForUpload(id) <= ForUpload(id) + InHand(id)
    BY <1>b
  <2>1. ASSUME NEW t \in Times, HandleDatetime(t)
        PROVE  Copies(id)' <= Copies(id)
    BY <1>5, <1>b, <1>d, <2>1 DEF HandleDatetime, Msg
  <2>2. CASE HandleDatetimeUnsynced
    BY <1>5, <1>b, <1>d, <2>2 DEF HandleDatetimeUnsynced, handlerVars
  <2>3. CASE HandleDeviceStatus
    <3>1. CASE espInitMsgSent
      BY <1>5, <1>h, <2>3, <3>1 DEF HandleDeviceStatus
    <3>2. CASE ~espInitMsgSent
      BY <1>5, <1>b, <1>d, <2>3, <3>2 DEF HandleDeviceStatus, device_status, Msg
    <3> QED
      BY <3>1, <3>2
  <2>4. CASE HandlerSend
    BY <1>1, <1>b, <1>d, <2>4 DEF HandlerSend, Attempt, handlerVars, webVars
  <2>5. CASE DatetimeSent
    BY <1>6, <1>b, <1>d, <2>0, <2>5 DEF DatetimeSent
  <2>6. CASE DeviceStatusSent
    <3>1. Resume("DEVICE_STATUS") /\ handling' = Nothing
      BY <2>6 DEF DeviceStatusSent
    <3>2. ForUpload(id)' <= ForUpload(id)
      BY <1>b, <1>d, <1>h, <2>6 DEF DeviceStatusSent
    <3> QED
      BY <1>6, <1>b, <1>c, <3>1, <3>2
  <2>7. CASE HandleCmdStatus
    <3>1. Take("CMD_STATUS") /\ UNCHANGED handling
      BY <2>7 DEF HandleCmdStatus
    <3>2. Head(received) \in Message
      BY <1>a, <3>1, Popped DEF Take
    <3> DEFINE r == report(Head(received).id, Head(received).val)
    <3>3. r \in Requests /\ r.type # "POST_IMAGE" /\ Enqueue(<<r>>)
      BY <2>7, <3>2 DEF HandleCmdStatus, report, Request, Requests, RequestTypes, Message
    <3> HIDE DEF r
    <3>4. ForUpload(id)' <= ForUpload(id)
      BY <1>e, <3>3
    <3> QED
      BY <1>5, <3>1, <3>4
  <2>8. CASE HandlePicture
    <3>1. Take("PICTURE") /\ handling' = Head(received) /\ UNCHANGED web_queue
      BY <2>8 DEF HandlePicture
    <3> QED
      BY <1>5, <1>b, <1>d, <3>1
  <2>9. CASE TakePicture
    <3>1. /\ Resume("PICTURE") /\ handling' = Nothing /\ handling.type = "PICTURE"
      BY <2>9 DEF TakePicture, Resume
    <3> DEFINE r == Request("POST_IMAGE", handling.id, 0)
    <3>2. r \in Requests /\ (r \in UploadsOf(id) <=> handling \in PicturesOf(id)) /\ Enqueue(<<r>>)
      BY <1>a, <2>9, <3>1 DEF TakePicture, Request, Requests, RequestTypes, Message,
         UploadsOf, PicturesOf
    <3> HIDE DEF r
    <3>3. ForUpload(id)' <= ForUpload(id) + Bit(r \in UploadsOf(id))
      BY <1>a, <3>2, EnqueueOneCounts
    <3>4. Bit(r \in UploadsOf(id)) = InHand(id)
      BY <3>2 DEF InHand, Bit
    <3> QED
      BY <1>6, <3>1, <3>3, <3>4
  <2>10. CASE PictureFails
    <3>1. Resume("PICTURE") /\ handling' = Nothing
      BY <2>10 DEF PictureFails
    <3>2. ForUpload(id)' <= ForUpload(id)
      BY <1>g, <2>10 DEF PictureFails
    <3> QED
      BY <1>6, <1>b, <1>c, <3>1, <3>2
  <2>11. CASE HandleDiagnostics
    BY <1>5, <1>g, <2>11 DEF HandleDiagnostics, handlerVars
  <2>12. CASE HandleSettings
    <3>1. PICK type : Take(type)
      BY <2>12 DEF HandleSettings
    <3>2. UNCHANGED handling /\ ForUpload(id)' <= ForUpload(id)
      BY <1>b, <1>d, <1>g, <2>12 DEF HandleSettings, handlerVars
    <3> QED
      BY <1>5, <3>1, <3>2
  <2>13. CASE HandleUnexpected
    <3>1. PICK type : Take(type)
      BY <2>13 DEF HandleUnexpected
    <3>2. UNCHANGED handling /\ ForUpload(id)' <= ForUpload(id)
      BY <1>b, <1>d, <1>g, <2>13 DEF HandleUnexpected, handlerVars
    <3> QED
      BY <1>5, <3>1, <3>2
  <2> QED
    BY <1>7, <2>1, <2>2, <2>3, <2>4, <2>5, <2>6, <2>7, <2>8, <2>9, <2>10, <2>11,
       <2>12, <2>13 DEF HandleUartDataTask
<1>8. CASE TakeRequest
  <2>1. /\ serving = Idle /\ web_queue # <<>>
        /\ serving' = Head(web_queue) /\ web_queue' = Tail(web_queue)
        /\ UNCHANGED <<to_esp, received, handling, status>>
    BY <1>8 DEF TakeRequest, handlerVars, linkVars
  <2>2. ForUpload(id) = Bit(Head(web_queue) \in UploadsOf(id)) + ForUpload(id)'
    BY <1>a, <2>1, CountTail DEF ForUpload
  <2>3. BeingSent(id)' = Bit(Head(web_queue) \in UploadsOf(id))
    BY <2>1 DEF BeingSent
  <2>4. Bit(Head(web_queue) \in UploadsOf(id)) \in 0 .. 1
    BY DEF Bit
  <2>5. /\ OnWire(id)' = OnWire(id) /\ AtEsp(id)' = AtEsp(id)
        /\ InHand(id)' = InHand(id) /\ Shown(id)' = Shown(id)
    BY <1>d, <2>1
  <2> QED
    BY <1>b, <1>c, <1>d, <2>2, <2>3, <2>4, <2>5 DEF Copies
<1>9. ASSUME NEW type, Serve(type), UNCHANGED web_queue \/ Enqueue(<<diagnosis>>)
      PROVE  Copies(id)' <= Copies(id)
  <2>1. serving' = Idle /\ UNCHANGED <<to_esp, received, handling>>
    BY <1>9 DEF Serve, handlerVars
  <2>2. BeingSent(id)' = 0
    BY <2>1 DEF BeingSent, Bit, Idle, Request, UploadsOf
  <2>3. Shown(id)' <= Shown(id) + BeingSent(id)
    <3>1. StatusChanges(id)
      BY <1>a, StatusStep
    <3>2. serving.type = "POST_IMAGE" /\ serving.id = id => serving \in UploadsOf(id)
      BY <1>a DEF Idle, Request, Requests, UploadsOf
    <3>3. CASE status'[id] = Uploaded /\ status[id] # Uploaded
      <4>1. BeingSent(id) = 1
        BY <3>1, <3>2, <3>3 DEF StatusChanges, Queued, Fetched, Uploaded, BeingSent, Bit
      <4> QED
        BY <1>b, <1>c, <4>1
    <3>4. CASE status'[id] # Uploaded \/ status[id] = Uploaded
      BY <1>b, <3>4 DEF Shown, Bit
    <3> QED
      BY <3>3, <3>4
  <2>4. ForUpload(id)' <= ForUpload(id)
    BY <1>b, <1>d, <1>g, <1>9
  <2>5. /\ OnWire(id)' = OnWire(id) /\ AtEsp(id)' = AtEsp(id) /\ InHand(id)' = InHand(id)
    BY <1>d, <2>1
  <2> QED
    BY <1>b, <1>c, <1>d, <2>2, <2>3, <2>4, <2>5 DEF Copies
<1>10. CASE WebTask(Offered) \/ WebFailure
  <2>1. TakeRequest \/ \E type : Serve(type) /\ (UNCHANGED web_queue \/ Enqueue(<<diagnosis>>))
    BY <1>10 DEF WebTask, GetInstruction, GetNothing, GetTime, PostStatus,
       PostDiagnostics, PostGarbage, PostImage, ServeUndefined, WebFailure,
       GetCommandsFails, GetTimeFails, PostFails, PostImageFails, PostChecked, Diagnose
  <2> QED
    BY <1>8, <1>9, <2>1
<1> QED
  BY <1>2, <1>3, <1>4, <1>7, <1>10 DEF EspAction

(* An instruction is sent when its command is fetched, and at no other     *)
(* time.                                                                   *)
LEMMA EspSends ==
  ASSUME EspAction(Times, Offered)
  PROVE  \/ UNCHANGED from_esp
         \/ \E m : m.type # "INSTRUCTIONS" /\ send_data(m)
         \/ \E c \in Ids, p \in Offered :
              Fetch(c) /\ send_data(Msg("INSTRUCTIONS", c, p))
<1> USE DEF linkVars
<1>a. /\ device_status.type # "INSTRUCTIONS"
      /\ response(TRUE).type # "INSTRUCTIONS" /\ response(FALSE).type # "INSTRUCTIONS"
      /\ \A t : Msg("DATETIME", NoId, t).type # "INSTRUCTIONS"
  BY DEF device_status, response, Msg
<1>1. CASE InitTask
  BY <1>a, <1>1 DEF InitTask, InitTaskBegin, InitTaskSend, InitTaskEnd, Attempt
<1>2. CASE GetCommandsTimer \/ GetTimeTimer
  BY <1>2 DEF GetCommandsTimer, GetTimeTimer, Timer
<1>3. CASE UartReadTask \/ ReadCut
  BY <1>3 DEF UartReadTask, ReadWhileWaiting, ReadMessage, ReadOverflow, ReadCut, ReadUart
<1>4. ASSUME NEW t \in Times, HandleDatetime(t)
      PROVE  \E m : m.type # "INSTRUCTIONS" /\ send_data(m)
  <2> DEFINE m == Msg("DATETIME", NoId, t)
  <2>1. m.type # "INSTRUCTIONS" /\ send_data(m)
    BY <1>a, <1>4 DEF HandleDatetime
  <2> QED
    BY <2>1
<1>5. CASE HandlerSend
  BY <1>5 DEF HandlerSend, Attempt
<1>6. CASE HandleDatetimeUnsynced \/ HandleDeviceStatus
  BY <1>a, <1>6 DEF HandleDatetimeUnsynced, HandleDeviceStatus, send_ACK_msg
<1>7. CASE DatetimeSent \/ DeviceStatusSent \/ HandlePicture \/ HandleUnexpected \/ PictureFails
  BY <1>7 DEF DatetimeSent, DeviceStatusSent, HandlePicture, HandleUnexpected, PictureFails
<1>8. CASE HandleCmdStatus \/ TakePicture \/ HandleDiagnostics \/ HandleSettings
  BY <1>a, <1>8 DEF HandleCmdStatus, TakePicture, HandleDiagnostics, HandleSettings,
     send_ACK_msg
<1>9. CASE \E c \in Ids, p \in Offered : GetInstruction(c, p)
  BY <1>9 DEF GetInstruction
<1>10. CASE \/ TakeRequest \/ GetNothing \/ GetTime \/ PostStatus \/ PostDiagnostics
            \/ PostGarbage \/ PostImage \/ ServeUndefined \/ WebFailure
  BY <1>10 DEF TakeRequest, GetNothing, GetTime, PostStatus, PostDiagnostics,
     PostGarbage, PostImage, ServeUndefined, WebFailure, GetCommandsFails,
     GetTimeFails, PostFails, PostImageFails
<1> QED
  BY <1>1, <1>2, <1>3, <1>4, <1>5, <1>6, <1>7, <1>8, <1>9, <1>10
     DEF EspAction, HandleUartDataTask, WebTask

(* The server queues no command again, and hands each out once.            *)
LEMMA EspChances ==
  ASSUME SystemInv, NEW id \in Ids, EspAction(Times, Offered), EspOnly
  PROVE  Bit(status'[id] = Queued) + Chances(id)' <= Bit(status[id] = Queued) + Chances(id)
<1>a. ControllerTypeOK /\ TableTypeOK /\ from_esp \in Seq(Incoming)
  BY DEF SystemInv, ControllerTypeOK, QueueTypeOK
<1>b. /\ OnLine(id) \in Nat /\ InInbox(id) \in Nat /\ AsInstruction(id) \in Nat
      /\ InVector(id) \in Nat /\ InMotors(id) \in 0 .. 1 /\ Ended(id) \in 0 .. 2
  BY <1>a, ChancesAreNatural
<1>c. /\ InInbox(id)' = InInbox(id) /\ AsInstruction(id)' = AsInstruction(id)
      /\ InVector(id)' = InVector(id) /\ InMotors(id)' = InMotors(id)
      /\ Ended(id)' = Ended(id)
  BY DEF EspOnly, Unmoved, loopVars, captureVars, InInbox, AsInstruction,
     InVector, InMotors, Ended
<1>d. OnLine(id)' \in Nat
  <2>1. from_esp' \in Seq(Incoming)
    <3>1. SystemInv'
      BY EspKeeps
    <3> QED
      BY <3>1 DEF SystemInv, ControllerTypeOK, QueueTypeOK
  <2> QED
    BY <2>1, CountIsNatural DEF OnLine
<1>e. Bit(status[id] = Queued) \in 0 .. 1 /\ Bit(status'[id] = Queued) \in 0 .. 1
  BY DEF Bit
<1>f. Bit(status'[id] = Queued) <= Bit(status[id] = Queued)
  <2>1. StatusChanges(id)
    BY <1>a, StatusStep
  <2>2. serving.type = "POST" /\ serving.id = id => serving \in HonestRequests(told)
    BY DEF SystemInv, OnTheWay, Carried, Idle, Request
  <2>3. told[id] \subseteq Statuses
    BY <1>a DEF ControllerTypeOK, ToldTypeOK
  <2>4. Queued \notin Statuses
    BY DEF Queued, Statuses, Calculated, Impossible, Rejected, PictureFailed, Requested
  <2>5. status'[id] = Queued => status[id] = Queued
    BY <2>1, <2>2, <2>3, <2>4 DEF StatusChanges, HonestRequests, Queued, Fetched, Uploaded
  <2> QED
    BY <2>5 DEF Bit
<1>1. ASSUME OnLine(id)' <= OnLine(id)
      PROVE  Bit(status'[id] = Queued) + Chances(id)' <= Bit(status[id] = Queued) + Chances(id)
  BY <1>1, <1>b, <1>c, <1>d, <1>e, <1>f DEF Chances
<1>2. ASSUME NEW m, m \notin InstructionsOf(id), send_data(m)
      PROVE  OnLine(id)' <= OnLine(id)
  <2>1. OnLine(id)' <= OnLine(id) + Bit(m \in InstructionsOf(id))
    BY <1>a, <1>2, LineCounts DEF OnLine
  <2>2. Bit(m \in InstructionsOf(id)) = 0
    BY <1>2 DEF Bit
  <2> QED
    BY <1>b, <1>d, <2>1, <2>2
<1>3. CASE UNCHANGED from_esp
  <2>1. OnLine(id)' = OnLine(id)
    BY <1>3 DEF OnLine
  <2> QED
    BY <1>1, <1>b, <2>1
<1>4. ASSUME NEW m, m.type # "INSTRUCTIONS", send_data(m)
      PROVE  Bit(status'[id] = Queued) + Chances(id)' <= Bit(status[id] = Queued) + Chances(id)
  BY <1>1, <1>2, <1>4 DEF InstructionsOf
<1>5. ASSUME NEW c \in Ids, NEW p \in Offered, Fetch(c),
             send_data(Msg("INSTRUCTIONS", c, p))
      PROVE  Bit(status'[id] = Queued) + Chances(id)' <= Bit(status[id] = Queued) + Chances(id)
  <2> DEFINE m == Msg("INSTRUCTIONS", c, p)
  <2>1. m.id = c /\ send_data(m)
    BY <1>5 DEF Msg
  <2> HIDE DEF m
  <2>2. CASE c # id
    BY <1>1, <1>2, <2>1, <2>2 DEF InstructionsOf
  <2>3. CASE c = id
    <3>1. Bit(status[id] = Queued) = 1 /\ Bit(status'[id] = Queued) = 0
      BY <1>a, <1>5, <2>3 DEF Fetch, TableTypeOK, Bit, Queued, Fetched
    <3>2. OnLine(id)' <= OnLine(id) + Bit(m \in InstructionsOf(id))
      BY <1>a, <2>1, LineCounts DEF OnLine
    <3>3. Bit(m \in InstructionsOf(id)) \in 0 .. 1
      BY DEF Bit
    <3> QED
      BY <1>b, <1>c, <1>d, <3>1, <3>2, <3>3 DEF Chances
  <2> QED
    BY <2>2, <2>3
<1> QED
  BY <1>3, <1>4, <1>5, EspSends

(* The Pico asks for a picture while the motors turn for its command, which *)
(* is its last chance; all else it does to a picture is to send it off.    *)
LEMMA PicoCopies ==
  ASSUME SystemInv, TypeOK, TypeOK', PictureInv, NEW id \in Ids, Loop \/ Hardware,
         UNCHANGED espVars
  PROVE  Copies(id)' <= Bit(Requested \in told'[id])
<1>a. /\ ControllerTypeOK /\ WaitsForMotors /\ ToldTypeOK
      /\ send_msg_queue \in Seq(Message) /\ to_esp \in Seq(Message)
  BY DEF SystemInv, ControllerTypeOK, QueueTypeOK
<1>b. /\ AtPico(id) \in Nat /\ OnWire(id) \in Nat /\ AtEsp(id) \in Nat
      /\ InHand(id) \in 0 .. 1 /\ ForUpload(id) \in Nat
      /\ BeingSent(id) \in 0 .. 1 /\ Shown(id) \in 0 .. 1
  BY CopiesAreNatural
<1>c. AtPico(id)' \in Nat /\ OnWire(id)' \in Nat
  <2>1. send_msg_queue' \in Seq(Message) /\ to_esp' \in Seq(Message)
    BY DEF TypeOK, ControllerTypeOK, QueueTypeOK
  <2> QED
    BY <2>1, CountIsNatural DEF AtPico, OnWire
<1>d. /\ AtEsp(id)' = AtEsp(id) /\ InHand(id)' = InHand(id)
      /\ ForUpload(id)' = ForUpload(id) /\ BeingSent(id)' = BeingSent(id)
      /\ Shown(id)' = Shown(id)
  BY DEF espVars, handlerVars, webVars, AtEsp, InHand, ForUpload, BeingSent, Shown
<1>e. /\ Copies(id) <= Bit(Requested \in told[id])
      /\ Bit(status[id] = Queued) + Chances(id) <= 1
      /\ Bit(Requested \in told[id]) \in 0 .. 1 /\ Bit(Requested \in told'[id]) \in 0 .. 1
  BY DEF PictureInv, Bit
<1>1. ASSUME AtPico(id)' + OnWire(id)' <= AtPico(id) + OnWire(id),
             Requested \in told[id] => Requested \in told'[id]
      PROVE  Copies(id)' <= Bit(Requested \in told'[id])
  <2>1. Copies(id)' <= Copies(id)
    BY <1>b, <1>c, <1>d, <1>1 DEF Copies
  <2>2. Bit(Requested \in told[id]) <= Bit(Requested \in told'[id])
    BY <1>1 DEF Bit
  <2>3. Copies(id) \in Int /\ Copies(id)' \in Int
    BY <1>b, <1>c, <1>d DEF Copies
  <2> QED
    BY <1>e, <2>1, <2>2, <2>3
<1>f. ASSUME NEW m \in Message, m \notin PicturesOf(id)
      PROVE  /\ Send(m) => AtPico(id)' = AtPico(id)
             /\ Transmit(m) => OnWire(id)' <= OnWire(id)
  <2>1. Bit(m \in PicturesOf(id)) = 0
    BY <1>f DEF Bit
  <2>2. Send(m) => AtPico(id)' = AtPico(id) + Bit(m \in PicturesOf(id))
    BY <1>a, <1>f, CountAppend DEF Send, AtPico
  <2>3. Transmit(m) => OnWire(id)' <= OnWire(id) + Bit(m \in PicturesOf(id))
    BY <1>a, LineCounts DEF OnWire
  <2> QED
    BY <1>b, <1>c, <2>1, <2>2, <2>3
<1>g. \A m \in Answers \cup {device_status, diagnostics} :
        m \in Message /\ m \notin PicturesOf(id)
  BY MessageTypeCorrect
     DEF Answers, PicturesOf, response, datetime_request, device_status, diagnostics, Msg
<1>h. /\ UNCHANGED send_msg_queue => AtPico(id)' = AtPico(id)
      /\ UNCHANGED to_esp => OnWire(id)' = OnWire(id)
  BY DEF AtPico, OnWire
<1>i. Answered => OnWire(id)' <= OnWire(id)
  <2>1. UNCHANGED to_esp => OnWire(id)' <= OnWire(id)
    BY <1>b, <1>h
  <2> QED
    BY <1>f, <1>g, <2>1 DEF Answered
<1>2. CASE UNCHANGED <<send_msg_queue, told>> /\ Answered
  BY <1>1, <1>2, <1>b, <1>c, <1>h, <1>i
<1>3. CASE (\E m \in {device_status, diagnostics} : Send(m)) /\ UNCHANGED told /\ Answered
  <2>1. AtPico(id)' = AtPico(id)
    BY <1>3, <1>f, <1>g
  <2> QED
    BY <1>1, <1>3, <1>b, <1>c, <1>i, <2>1
<1>4. ASSUME NEW c \in Ids \cup {NoId}, NEW s \in Statuses, Report(c, s),
             s = Requested => check_motor /\ current_command = c,
             UNCHANGED to_esp
      PROVE  Copies(id)' <= Bit(Requested \in told'[id])
  <2> DEFINE m == IF s = Requested THEN picture(c) ELSE cmd_status(c, s)
  <2>1. told'[id] = IF c = id THEN told[id] \cup {s} ELSE told[id]
    BY <1>a, <1>4 DEF Report, ToldTypeOK
  <2>2. Send(m)
    BY <1>4 DEF Report
  <2>3. m \in Message
    BY DEF picture, cmd_status, Msg, Message, MessageTypes, Statuses, Calculated,
       Impossible, Rejected, PictureFailed, Requested
  <2>4. m \in PicturesOf(id) => s = Requested /\ c = id
    BY DEF PicturesOf, picture, cmd_status, Msg
  <2> HIDE DEF m
  <2>5. CASE m \notin PicturesOf(id)
    BY <1>1, <1>4, <1>b, <1>f, <1>h, <2>1, <2>2, <2>3, <2>5
  <2>6. CASE m \in PicturesOf(id)
    <3>1. InMotors(id) = 1
      BY <1>4, <2>4, <2>6 DEF InMotors, Bit
    <3>2. /\ OnLine(id) \in Nat /\ InInbox(id) \in Nat /\ AsInstruction(id) \in Nat
          /\ InVector(id) \in Nat /\ Ended(id) \in 0 .. 2
          /\ Bit(status[id] = Queued) \in 0 .. 1
      BY <1>a, ChancesAreNatural DEF Bit
    <3>3. Ended(id) = 0
      BY <1>e, <3>1, <3>2 DEF Chances
    <3>4. Bit(Requested \in told[id]) = 0
      BY <3>3 DEF Ended, Bit
    <3>5. AtPico(id)' = AtPico(id) + Bit(m \in PicturesOf(id))
      BY <1>a, <2>2, <2>3, CountAppend DEF Send, AtPico
    <3>6. Bit(m \in PicturesOf(id)) = 1 /\ Bit(Requested \in told'[id]) = 1
      BY <2>1, <2>4, <2>6 DEF Bit
    <3>7. Copies(id)' = Copies(id) + 1
      BY <1>4, <1>b, <1>c, <1>d, <1>h, <3>5, <3>6 DEF Copies
    <3>8. Copies(id) \in Int
      BY <1>b DEF Copies
    <3> QED
      BY <1>e, <3>4, <3>6, <3>7, <3>8
  <2> QED
    BY <2>5, <2>6
<1>5. CASE /\ send_msg_queue # <<>>
           /\ send_msg_queue' = Tail(send_msg_queue)
           /\ Transmit(Head(send_msg_queue))
           /\ UNCHANGED told
  <2> DEFINE m == Head(send_msg_queue)
  <2>1. AtPico(id) = Bit(m \in PicturesOf(id)) + AtPico(id)'
    BY <1>5, <1>a, CountTail DEF AtPico
  <2>2. OnWire(id)' <= OnWire(id) + Bit(m \in PicturesOf(id))
    BY <1>5, <1>a, LineCounts DEF OnWire
  <2>3. Bit(m \in PicturesOf(id)) \in 0 .. 1
    BY DEF Bit
  <2> HIDE DEF m
  <2>4. AtPico(id)' + OnWire(id)' <= AtPico(id) + OnWire(id)
    BY <1>b, <1>c, <2>1, <2>2, <2>3
  <2> QED
    BY <1>1, <1>5, <2>4
<1> QED
  BY <1>a, <1>2, <1>3, <1>4, <1>5, PicoSays

(* A restart of the Pico loses chances and pictures, and not the history.  *)
LEMMA RestartCounts ==
  ASSUME TypeOK, TypeOK', NEW id \in Ids, PicoRestarts
  PROVE  /\ Chances(id)' <= Chances(id) /\ Copies(id)' <= Copies(id)
         /\ UNCHANGED <<told, status>>
<1>a. ControllerTypeOK /\ to_esp \in Seq(Message)
  BY DEF TypeOK, ControllerTypeOK, QueueTypeOK
<1>b. UNCHANGED <<told, status, received, handling, web_queue, serving>>
  BY DEF PicoRestarts, espVars, handlerVars, webVars
<1>c. /\ OnLine(id) \in Nat /\ InInbox(id) \in Nat /\ AsInstruction(id) \in Nat
      /\ InVector(id) \in Nat /\ InMotors(id) \in 0 .. 1 /\ Ended(id) \in 0 .. 2
  BY <1>a, ChancesAreNatural
<1>d. /\ AtPico(id) \in Nat /\ OnWire(id) \in Nat /\ AtEsp(id) \in Nat
      /\ InHand(id) \in 0 .. 1 /\ ForUpload(id) \in Nat
      /\ BeingSent(id) \in 0 .. 1 /\ Shown(id) \in 0 .. 1
  BY CopiesAreNatural
<1>1. Chances(id)' <= Chances(id)
  <2>1. /\ OnLine(id)' = 0 /\ InInbox(id)' = 0 /\ AsInstruction(id)' = 0
        /\ InVector(id)' = 0
    BY CountEmpty DEF PicoRestarts, OnLine, InInbox, AsInstruction, InVector
  <2>2. InMotors(id)' = 0 /\ Ended(id)' = Ended(id)
    BY <1>b DEF PicoRestarts, InMotors, Ended, Bit
  <2> QED
    BY <1>c, <2>1, <2>2 DEF Chances
<1>2. Copies(id)' <= Copies(id)
  <2>1. PICK k \in 0 .. Len(to_esp) : to_esp' = SubSeq(to_esp, 1, k)
    BY DEF PicoRestarts
  <2>2. OnWire(id)' <= OnWire(id)
    BY <1>a, <2>1, CountPart DEF OnWire
  <2>3. AtPico(id)' = 0
    BY CountEmpty DEF PicoRestarts, AtPico
  <2>4. OnWire(id)' \in Nat
    <3>1. to_esp' \in Seq(Message)
      BY DEF TypeOK, ControllerTypeOK, QueueTypeOK
    <3> QED
      BY <3>1, CountIsNatural DEF OnWire
  <2>5. /\ AtEsp(id)' = AtEsp(id) /\ InHand(id)' = InHand(id)
        /\ ForUpload(id)' = ForUpload(id) /\ BeingSent(id)' = BeingSent(id)
        /\ Shown(id)' = Shown(id)
    BY <1>b DEF AtEsp, InHand, ForUpload, BeingSent, Shown
  <2> QED
    BY <1>d, <2>2, <2>3, <2>4, <2>5, SMTT(60) DEF Copies
<1> QED
  BY <1>b, <1>1, <1>2

(* Every step of the system keeps the count of chances, reports and        *)
(* copies.                                                                 *)
LEMMA PictureStep ==
  ASSUME SystemInv, TypeOK, TypeOK', PictureInv, [Next]_allVars
  PROVE  PictureInv'
<1> SUFFICES ASSUME NEW id \in Ids
             PROVE  /\ Bit(status'[id] = Queued) + Chances(id)' <= 1
                    /\ Copies(id)' <= Bit(Requested \in told'[id])
  BY DEF PictureInv
<1>a. /\ Bit(status[id] = Queued) + Chances(id) <= 1
      /\ Copies(id) <= Bit(Requested \in told[id])
  BY DEF PictureInv
<1>b. /\ Bit(status[id] = Queued) \in Int /\ Bit(status'[id] = Queued) \in Int
      /\ Bit(Requested \in told[id]) \in Int
  BY DEF Bit
<1>c. Chances(id) \in Int /\ Copies(id) \in Int
  <2>1. ControllerTypeOK
    BY DEF TypeOK
  <2>2. /\ OnLine(id) \in Nat /\ InInbox(id) \in Nat /\ AsInstruction(id) \in Nat
        /\ InVector(id) \in Nat /\ InMotors(id) \in 0 .. 1 /\ Ended(id) \in 0 .. 2
    BY <2>1, ChancesAreNatural
  <2>3. /\ AtPico(id) \in Nat /\ OnWire(id) \in Nat /\ AtEsp(id) \in Nat
        /\ InHand(id) \in 0 .. 1 /\ ForUpload(id) \in Nat
        /\ BeingSent(id) \in 0 .. 1 /\ Shown(id) \in 0 .. 1
    BY CopiesAreNatural
  <2> QED
    BY <2>2, <2>3 DEF Chances, Copies
<1>d. Chances(id)' \in Int /\ Copies(id)' \in Int
  <2>1. /\ from_esp' \in Seq(Incoming) /\ msg_queue' \in Seq(Incoming)
        /\ instr_msg_queue' \in Seq(Instruction) /\ commands' \in Seq(Command)
        /\ send_msg_queue' \in Seq(Message) /\ to_esp' \in Seq(Message)
        /\ received' \in Seq(Message) /\ web_queue' \in Seq(Requests)
    BY DEF TypeOK, ControllerTypeOK, QueueTypeOK, EspTypeOK
  <2>2. OnLine(id)' \in Nat /\ InInbox(id)' \in Nat
    BY <2>1, CountIsNatural DEF OnLine, InInbox
  <2>3. AsInstruction(id)' \in Nat
    BY <2>1, CountIsNatural DEF AsInstruction
  <2>4. InVector(id)' \in Nat
    BY <2>1, CountIsNatural DEF InVector
  <2>5. InMotors(id)' \in Int /\ Ended(id)' \in Int
    BY DEF InMotors, Ended, Bit
  <2>6. AtPico(id)' \in Nat /\ OnWire(id)' \in Nat /\ AtEsp(id)' \in Nat
    BY <2>1, CountIsNatural DEF AtPico, OnWire, AtEsp
  <2>7. ForUpload(id)' \in Nat
    BY <2>1, CountIsNatural DEF ForUpload
  <2>8. InHand(id)' \in Int /\ BeingSent(id)' \in Int /\ Shown(id)' \in Int
    BY DEF InHand, BeingSent, Shown, Bit
  <2>9. Chances(id)' \in Int
    BY <2>2, <2>3, <2>4, <2>5 DEF Chances
  <2> QED
    BY <2>6, <2>7, <2>8, <2>9 DEF Copies
<1>1. CASE PicoStep
  <2>1. ControllerTypeOK /\ WaitsForMotors /\ (Loop \/ Hardware) /\ UNCHANGED espVars
    BY <1>1 DEF SystemInv, PicoStep
  <2>2. Chances(id)' <= Chances(id)
    BY <2>1, ChancesFall
  <2>3. Bit(status'[id] = Queued) = Bit(status[id] = Queued)
    BY <2>1 DEF espVars, webVars
  <2>4. Copies(id)' <= Bit(Requested \in told'[id])
    BY <2>1, PicoCopies
  <2> QED
    BY <1>a, <1>b, <1>c, <1>d, <2>2, <2>3, <2>4
<1>2. CASE EspStep \/ FailureStep \/ TimeTimerRings \/ CommandTimerRings
  <2>1. EspAction(Times, Offered) /\ EspOnly
    BY <1>2 DEF EspStep, InitTaskStep, UartReadStep, HandlerStep, WebStep,
       FailureStep, TimeTimerRings, CommandTimerRings, EspAction
  <2>2. UNCHANGED <<send_msg_queue, told>>
    BY <2>1 DEF EspOnly, Unmoved
  <2>3. Copies(id)' <= Copies(id)
    BY <2>1, <2>2, EspCopies
  <2>4. Bit(status'[id] = Queued) + Chances(id)' <= Bit(status[id] = Queued) + Chances(id)
    BY <2>1, EspChances
  <2>5. Bit(Requested \in told'[id]) = Bit(Requested \in told[id])
    BY <2>2
  <2> QED
    BY <1>a, <1>b, <1>c, <1>d, <2>3, <2>4, <2>5
<1>3. CASE PicoRestarts
  <2>1. /\ Chances(id)' <= Chances(id) /\ Copies(id)' <= Copies(id)
        /\ UNCHANGED <<told, status>>
    BY <1>3, RestartCounts
  <2>2. /\ Bit(status'[id] = Queued) = Bit(status[id] = Queued)
        /\ Bit(Requested \in told'[id]) = Bit(Requested \in told[id])
    BY <2>1
  <2> QED
    BY <1>a, <1>b, <1>c, <1>d, <2>1, <2>2
<1>4. CASE UNCHANGED allVars
  <2>1. UNCHANGED <<vars, espVars>>
    BY <1>4 DEF allVars
  <2>2. /\ UNCHANGED <<from_esp, to_esp, msg_queue, instr_msg_queue, send_msg_queue>>
        /\ UNCHANGED <<commands, check_motor, current_command, told>>
    BY <2>1 DEF vars, linkVars, loopVars, captureVars
  <2>3. UNCHANGED <<received, web_queue, handling, serving, status>>
    BY <2>1 DEF espVars, handlerVars, webVars
  <2>4. Chances(id)' = Chances(id)
    BY <2>2 DEF Chances, OnLine, InInbox, AsInstruction, InVector, InMotors, Ended
  <2>5. Copies(id)' = Copies(id)
    BY <2>2, <2>3 DEF Copies, AtPico, OnWire, AtEsp, InHand, ForUpload, BeingSent, Shown
  <2>6. /\ Bit(status'[id] = Queued) = Bit(status[id] = Queued)
        /\ Bit(Requested \in told'[id]) = Bit(Requested \in told[id])
    BY <2>2, <2>3
  <2> QED
    BY <1>a, <2>4, <2>5, <2>6
<1> QED
  BY <1>1, <1>2, <1>3, <1>4 DEF Next

(* At first every command is queued, nothing is under way, and nothing is  *)
(* shown; polls for commands may wait in the queue of requests.            *)
LEMMA PictureInitially ==
  ASSUME Init \/ ReadyInit
  PROVE  PictureInv
<1> SUFFICES ASSUME NEW id \in Ids
             PROVE  /\ Bit(status[id] = Queued) + Chances(id) <= 1
                    /\ Copies(id) <= Bit(Requested \in told[id])
  BY DEF PictureInv
<1>1. /\ from_esp = <<>> /\ to_esp = <<>> /\ msg_queue = <<>>
      /\ instr_msg_queue = <<>> /\ send_msg_queue = <<>> /\ commands = <<>>
      /\ received = <<>>
  BY DEF Init, ReadyInit, ControllerInit, LinkInit, EspInit
<1>2. /\ ~check_motor /\ told[id] = {} /\ handling = Nothing /\ serving = Idle
      /\ status[id] = Queued
  BY DEF Init, ReadyInit, ControllerInit, EspInit, TableInit
<1>3. ForUpload(id) = 0
  <2>1. CASE Init
    BY <2>1, CountEmpty DEF Init, EspInit, ForUpload
  <2>2. CASE ReadyInit
    <3>1. web_queue = [k \in 1 .. Polls |-> Request("GET_COMMANDS", NoId, 0)]
      BY <2>2 DEF ReadyInit
    <3>2. Polls \in Nat
      BY StargazerAssumption, EspAssumption
    <3>3. web_queue \in Seq({Request("GET_COMMANDS", NoId, 0)})
      BY <3>1, <3>2, IsASeq
    <3>4. Len(web_queue) = Polls
      BY <3>1, <3>2, <3>3, LenProperties
    <3>5. \A k \in 1 .. Len(web_queue) : web_queue[k].type = "GET_COMMANDS"
      BY <3>1, <3>2, <3>4 DEF Request
    <3>6. Occurrences(web_queue, UploadsOf(id)) = {}
      BY <3>5 DEF Occurrences, UploadsOf
    <3> QED
      BY <3>6, FS_EmptySet DEF ForUpload, Count
  <2> QED
    BY <2>1, <2>2
<1>4. /\ OnLine(id) = 0 /\ InInbox(id) = 0 /\ AsInstruction(id) = 0
      /\ InVector(id) = 0 /\ AtPico(id) = 0 /\ OnWire(id) = 0 /\ AtEsp(id) = 0
  BY <1>1, CountEmpty DEF OnLine, InInbox, AsInstruction, InVector, AtPico, OnWire, AtEsp
<1>5. InMotors(id) = 0 /\ Ended(id) = 0
  BY <1>2 DEF InMotors, Ended, Bit
<1>6. InHand(id) = 0 /\ BeingSent(id) = 0
  BY <1>2 DEF InHand, BeingSent, Bit, PicturesOf, UploadsOf, Nothing, Msg, Idle, Request
<1>7. Shown(id) = 0 /\ Bit(status[id] = Queued) = 1 /\ Bit(Requested \in told[id]) = 0
  BY <1>2 DEF Shown, Bit, Queued, Uploaded
<1> QED
  BY <1>3, <1>4, <1>5, <1>6, <1>7 DEF Chances, Copies

(* The copies of the strengthening are the pictures of the property, and   *)
(* more: a picture or an upload of any value counts.                       *)
LEMMA PictureSuffices == SystemInv /\ TypeOK /\ PictureInv => OnePicture
<1> SUFFICES ASSUME TypeOK, PictureInv, NEW id \in Ids
             PROVE  Pictures(id) <= 1
  BY DEF OnePicture
<1> DEFINE P == {picture(id)}
           upload == Request("POST_IMAGE", id, 0)
           U == {upload}
<1>a. /\ send_msg_queue \in Seq(Message) /\ to_esp \in Seq(Message)
      /\ received \in Seq(Message) /\ web_queue \in Seq(Requests)
  BY DEF TypeOK, ControllerTypeOK, QueueTypeOK, EspTypeOK
<1>b. /\ AtPico(id) \in Nat /\ OnWire(id) \in Nat /\ AtEsp(id) \in Nat
      /\ InHand(id) \in 0 .. 1 /\ ForUpload(id) \in Nat
      /\ BeingSent(id) \in 0 .. 1 /\ Shown(id) \in 0 .. 1
  BY CopiesAreNatural
<1>c. Copies(id) <= 1
  <2>1. Copies(id) <= Bit(Requested \in told[id]) /\ Bit(Requested \in told[id]) \in 0 .. 1
    BY DEF PictureInv, Bit
  <2>2. Copies(id) \in Int
    BY <1>b DEF Copies
  <2> QED
    BY <2>1, <2>2
<1>d. P \subseteq PicturesOf(id) /\ U \subseteq UploadsOf(id)
  BY DEF PicturesOf, UploadsOf, picture, Msg, Request
<1>e. \A q, m : InQueue(q, m) = Count(q, {m})
  <2> TAKE q, m
  <2>1. {k \in 1 .. Len(q) : q[k] = m} = {k \in 1 .. Len(q) : q[k] \in {m}}
    OBVIOUS
  <2> QED
    BY <2>1 DEF InQueue, Count, Occurrences
<1>f. One(handling = picture(id)) <= InHand(id) /\ One(serving = upload) <= BeingSent(id)
  BY <1>d DEF One, InHand, BeingSent, Bit
<1>g. One(status[id] = Uploaded) = Shown(id)
  BY DEF One, Shown, Bit
<1>h. /\ One(handling = picture(id)) \in 0 .. 1 /\ One(serving = upload) \in 0 .. 1
  BY DEF One
<1> HIDE DEF P, U
<1>1. /\ Count(send_msg_queue, P) <= AtPico(id) /\ Count(to_esp, P) <= OnWire(id)
      /\ Count(received, P) <= AtEsp(id)
  BY <1>a, <1>d, CountMonotonic DEF AtPico, OnWire, AtEsp
<1>2. Count(web_queue, U) <= ForUpload(id)
  BY <1>a, <1>d, CountMonotonic DEF ForUpload
<1>3. /\ Count(send_msg_queue, P) \in Nat /\ Count(to_esp, P) \in Nat
      /\ Count(received, P) \in Nat /\ Count(web_queue, U) \in Nat
  BY <1>a, CountIsNatural
<1>4. /\ InQueue(send_msg_queue, picture(id)) = Count(send_msg_queue, P)
      /\ InQueue(to_esp, picture(id)) = Count(to_esp, P)
      /\ InQueue(received, picture(id)) = Count(received, P)
      /\ InQueue(web_queue, upload) = Count(web_queue, U)
  BY <1>e DEF P, U
<1>5. Pictures(id) = InQueue(send_msg_queue, picture(id)) + InQueue(to_esp, picture(id))
        + InQueue(received, picture(id)) + One(handling = picture(id))
        + InQueue(web_queue, upload) + One(serving = upload)
        + One(status[id] = Uploaded)
  BY DEF Pictures
<1> HIDE DEF upload
<1> QED
  BY <1>b, <1>c, <1>f, <1>g, <1>h, <1>1, <1>2, <1>3, <1>4, <1>5 DEF Copies

(* A command gets one picture at the most, from power-on and from the      *)
(* state start-up leads to: it is handed out once, asked for once, taken   *)
(* and uploaded once, although the request that carries it is reused       *)
(* (tasks.cpp:727, 739-748) and status messages go round twice, and        *)
(* although the Pico may restart at any time.                              *)
THEOREM OnePictureAlways == (Spec => []OnePicture) /\ (ReadySpec => []OnePicture)
<1>1. SystemInv /\ TypeOK /\ TypeOK' /\ PictureInv /\ [Next]_allVars => PictureInv'
  BY PictureStep
<1>2. (Init => PictureInv) /\ (ReadyInit => PictureInv)
  BY PictureInitially
<1>3. SystemInv /\ TypeOK /\ PictureInv => OnePicture
  BY PictureSuffices
<1> QED
  BY <1>1, <1>2, <1>3, SystemInvariant, SystemTypeCorrect, PTL DEF Spec, ReadySpec
----------------------------------------------------------------------------
(* What the system promises of every command: it implements CommandLife.   *)

(* The strengthening, beside the Pico's own: nothing is said of a command  *)
(* the server has not handed out.                                          *)
PromiseInv ==
  /\ HistoryInv
  /\ \A id \in Ids : status[id] = Queued => told[id] = {}

(* A command the Pico has a chance to say something of was handed out.     *)
LEMMA ChanceIsFetched ==
  ASSUME PictureInv, ControllerTypeOK, NEW id \in Ids
  PROVE  /\ Chances(id) <= 1
         /\ Chances(id) > 0 => status[id] # Queued
<1>1. Bit(status[id] = Queued) + Chances(id) <= 1 /\ Bit(status[id] = Queued) \in 0 .. 1
  BY DEF PictureInv, Bit
<1>2. Chances(id) \in Nat
  BY ChancesAreNatural DEF Chances
<1> QED
  BY <1>1, <1>2 DEF Bit

(* A report the Pico makes is one CommandLife allows at this point.        *)
LEMMA SaidInLife ==
  ASSUME ControllerTypeOK, NEW c \in Ids, status[c] # Queued, NEW s \in Statuses,
         Says(c, s), UNCHANGED status
  PROVE  Life!Answer(c) \/ Life!EndOfWait(c) \/ Life!Blame(c)
<1> DEFINE reports == [id \in Ids |-> told[id]]
<1>1. reports' = [reports EXCEPT ![c] = @ \cup {s}]
  BY SaysReports DEF ControllerTypeOK
<1>2. Life!Reported(c, s)
  BY <1>1 DEF Life!Reported
<1>3. reports[c] = told[c] /\ status[c] # 0
  BY DEF Queued
<1>4. CASE told[c] = {} /\ s \in {Rejected, Impossible, Calculated}
  BY <1>2, <1>3, <1>4 DEF Life!Answer, Life!NotSent, Life!Refused, Life!Hopeless,
     Life!Found, Rejected, Impossible, Calculated
<1>5. CASE Calculated \in told[c] /\ Ended(c) = 0 /\ s \in {Impossible, Requested}
  <2>1. Impossible \notin told[c] /\ Requested \notin told[c]
    BY <1>5 DEF Ended, Bit
  <2> QED
    BY <1>2, <1>3, <1>5, <2>1 DEF Life!EndOfWait, Life!Waiting, Life!Found,
       Life!Hopeless, Life!Photo, Impossible, Requested, Calculated
<1>6. CASE Requested \in told[c] /\ s = PictureFailed
  BY <1>2, <1>3, <1>6 DEF Life!Blame, Life!Photo, Life!Failed, Requested, PictureFailed
<1> QED
  BY <1>4, <1>5, <1>6 DEF Says

(* The Pico's steps: it says nothing, or what CommandLife allows.          *)
LEMMA PicoPromise ==
  ASSUME SystemInv, TypeOK, TypeOK', PictureInv, PromiseInv,
         Loop \/ Hardware, UNCHANGED espVars
  PROVE  PromiseInv' /\ [Life!Next]_(Life!lifeVars)
<1>a. /\ ControllerTypeOK /\ ControllerTypeOK' /\ WaitsForMotors /\ HistoryInv
      /\ ToldTypeOK /\ UNCHANGED status
      /\ \A id \in Ids : status[id] = Queued => told[id] = {}
  BY DEF SystemInv, TypeOK, PromiseInv, ControllerTypeOK, espVars, webVars
<1>b. \A id \in Ids : Chances(id) <= 1 /\ (Chances(id) > 0 => status[id] # Queued)
  BY <1>a, ChanceIsFetched
<1>1. /\ HistoryInv'
      /\ UNCHANGED told \/ \E c \in Ids \cup {NoId}, s \in Statuses : Says(c, s)
  BY <1>a, <1>b, HistoryStep
<1>2. CASE UNCHANGED told
  BY <1>a, <1>1, <1>2 DEF PromiseInv, Life!lifeVars
<1>3. ASSUME NEW c \in Ids \cup {NoId}, NEW s \in Statuses, Says(c, s)
      PROVE  PromiseInv' /\ [Life!Next]_(Life!lifeVars)
  <2>1. \A id \in Ids : id # c => told'[id] = told[id]
    BY <1>a, <1>3 DEF Says, ToldTypeOK
  <2>2. CASE c \notin Ids
    <3>1. [id \in Ids |-> told[id]]' = [id \in Ids |-> told[id]]
      BY <2>1, <2>2
    <3> QED
      BY <1>a, <1>1, <2>1, <2>2, <3>1 DEF PromiseInv, Life!lifeVars
  <2>3. CASE c \in Ids
    <3>1. status[c] # Queued
      <4>1. /\ OnLine(c) \in Nat /\ InInbox(c) \in Nat /\ AsInstruction(c) \in Nat
            /\ InVector(c) \in Nat /\ InMotors(c) \in 0 .. 1 /\ Ended(c) \in 0 .. 2
        BY <1>a, <2>3, ChancesAreNatural
      <4>2. Requested \in told[c] => Ended(c) > 0
        BY DEF Ended, Bit
      <4>3. Coming(c) > 0 \/ InVector(c) > 0 \/ InMotors(c) > 0 \/ Ended(c) > 0
        BY <1>3, <2>3, <4>2 DEF Says
      <4> QED
        BY <1>b, <2>3, <4>1, <4>3 DEF Chances, Coming
    <3>2. PromiseInv'
      BY <1>a, <1>1, <2>1, <2>3, <3>1 DEF PromiseInv
    <3>3. Life!Answer(c) \/ Life!EndOfWait(c) \/ Life!Blame(c)
      BY <1>a, <1>3, <2>3, <3>1, SaidInLife
    <3> QED
      BY <2>3, <3>2, <3>3 DEF Life!Next
  <2> QED
    BY <2>2, <2>3
<1> QED
  BY <1>1, <1>2, <1>3

(* An instruction reaches the line when its command is handed out, of      *)
(* which nothing was said before.                                          *)
LEMMA EspHistory ==
  ASSUME SystemInv, TypeOK, TypeOK', PromiseInv, EspAction(Times, Offered), EspOnly
  PROVE  HistoryInv'
<1>a. ControllerTypeOK /\ from_esp \in Seq(Incoming)
  BY DEF SystemInv, ControllerTypeOK, QueueTypeOK
<1>b. /\ UNCHANGED <<msg_queue, instr_msg_queue, told, current_command>>
      /\ UNCHANGED <<check_motor, commands, state>>
  BY DEF EspOnly, Unmoved, loopVars, captureVars
<1>1. ASSUME NEW id \in Ids
      PROVE  Coming(id)' > 0 => Coming(id) > 0 \/ told[id] = {}
  <2>1. InInbox(id)' = InInbox(id) /\ AsInstruction(id)' = AsInstruction(id)
    BY <1>b DEF InInbox, AsInstruction
  <2>2. OnLine(id) \in Nat /\ InInbox(id) \in Nat /\ AsInstruction(id) \in Nat
    BY <1>a, ChancesAreNatural
  <2>3. OnLine(id)' \in Nat
    <3>1. from_esp' \in Seq(Incoming)
      BY DEF TypeOK, ControllerTypeOK, QueueTypeOK
    <3> QED
      BY <3>1, CountIsNatural DEF OnLine
  <2>4. ASSUME OnLine(id)' <= OnLine(id)
        PROVE  Coming(id)' > 0 => Coming(id) > 0 \/ told[id] = {}
    BY <2>1, <2>2, <2>3, <2>4 DEF Coming
  <2>5. ASSUME NEW m, m \notin InstructionsOf(id), send_data(m)
        PROVE  OnLine(id)' <= OnLine(id)
    <3>1. OnLine(id)' <= OnLine(id) + Bit(m \in InstructionsOf(id))
      BY <1>a, <2>5, LineCounts DEF OnLine
    <3>2. Bit(m \in InstructionsOf(id)) = 0
      BY <2>5 DEF Bit
    <3> QED
      BY <2>2, <2>3, <3>1, <3>2
  <2>6. CASE UNCHANGED from_esp
    <3>1. OnLine(id)' = OnLine(id)
      BY <2>6 DEF OnLine
    <3> QED
      BY <2>2, <2>4, <3>1
  <2>7. ASSUME NEW m, m.type # "INSTRUCTIONS", send_data(m)
        PROVE  Coming(id)' > 0 => Coming(id) > 0 \/ told[id] = {}
    BY <2>4, <2>5, <2>7 DEF InstructionsOf
  <2>8. ASSUME NEW c \in Ids, NEW p \in Offered, Fetch(c),
               send_data(Msg("INSTRUCTIONS", c, p))
        PROVE  Coming(id)' > 0 => Coming(id) > 0 \/ told[id] = {}
    <3> DEFINE m == Msg("INSTRUCTIONS", c, p)
    <3>1. m.id = c /\ send_data(m)
      BY <2>8 DEF Msg
    <3> HIDE DEF m
    <3>2. CASE c # id
      BY <2>4, <2>5, <3>1, <3>2 DEF InstructionsOf
    <3>3. CASE c = id
      BY <2>8, <3>3 DEF PromiseInv, Fetch
    <3> QED
      BY <3>2, <3>3
  <2> QED
    BY <2>6, <2>7, <2>8, EspSends
<1> QED
  BY <1>b, <1>1, HistoryQuiet DEF PromiseInv

(* The steps of the ESP and of the server: a command is handed out, or one *)
(* more report of it, or its picture, is shown.                            *)
LEMMA EspPromise ==
  ASSUME SystemInv, TypeOK, TypeOK', PromiseInv, EspAction(Times, Offered), EspOnly
  PROVE  PromiseInv' /\ [Life!Next]_(Life!lifeVars)
<1> DEFINE reports == [id \in Ids |-> told[id]]
<1>a. /\ TableTypeOK /\ TableTypeOK' /\ UNCHANGED told
      /\ \A id \in Ids : status[id] = Queued => told[id] = {}
  BY StatusStep DEF SystemInv, PromiseInv, EspOnly, Unmoved
<1>b. reports' = reports /\ \A id \in Ids : reports[id] = told[id]
  BY <1>a
<1>1. HistoryInv'
  BY EspHistory
<1>2. (\A id \in Ids : StatusChanges(id)) /\ OneChanges
  BY <1>a, StatusStep
<1>3. serving.type \in {"POST", "POST_IMAGE"} => serving \in HonestRequests(told)
  BY DEF SystemInv, OnTheWay, Carried, Idle, Request
<1>4. CASE UNCHANGED status
  BY <1>a, <1>b, <1>1, <1>4 DEF PromiseInv, Life!lifeVars
<1>5. ASSUME NEW c \in Ids, NEW s \in -3 .. 3, status' = [status EXCEPT ![c] = s]
      PROVE  PromiseInv' /\ [Life!Next]_(Life!lifeVars)
  <2>1. status \in [Ids -> -3 .. 3] /\ status'[c] = s
    BY <1>a, <1>5 DEF TableTypeOK
  <2>2. Life!Shows(c, s)
    BY <1>b, <1>5 DEF Life!Shows
  <2>3. CASE s = status[c]
    BY <1>4, <1>5, <2>1, <2>3
  <2>4. CASE status[c] = Queued /\ s = Fetched
    <3>1. Life!HandOut(c)
      BY <1>a, <1>b, <2>2, <2>4 DEF Life!HandOut, Life!NotSent, Life!Sent, Queued, Fetched
    <3>2. \A id \in Ids : status'[id] = Queued => told[id] = {}
      BY <1>a, <1>5, <2>1, <2>4 DEF Queued, Fetched
    <3> QED
      BY <1>a, <1>1, <3>1, <3>2 DEF PromiseInv, Life!Next
  <2>5. CASE /\ serving.type = "POST" /\ serving.id = c
             /\ status[c] \in 0 .. 2 /\ s = serving.val /\ s \in -3 .. 2
    <3>1. s \in told[c] /\ s # 3
      BY <1>3, <2>5 DEF HonestRequests
    <3>2. Life!Show(c)
      BY <1>b, <2>2, <2>5, <3>1 DEF Life!Show, Life!NotSent, Life!Sent, Life!Found, Life!Photo
    <3>3. \A id \in Ids : status'[id] = Queued => told[id] = {}
      <4>1. s # Queued
        BY <1>a, <3>1 DEF SystemInv, ControllerTypeOK, ToldTypeOK, Statuses, Queued,
           Calculated, Impossible, Rejected, PictureFailed, Requested
      <4> QED
        BY <1>a, <1>5, <2>1, <4>1
    <3> QED
      BY <1>a, <1>1, <3>2, <3>3 DEF PromiseInv, Life!Next
  <2>6. CASE /\ serving.type = "POST_IMAGE" /\ serving.id = c
             /\ s = Uploaded /\ s # status[c]
    <3>1. Requested \in told[c]
      BY <1>3, <2>6 DEF HonestRequests
    <3>2. Life!ShowPhoto(c)
      BY <1>b, <2>2, <2>6, <3>1 DEF Life!ShowPhoto, Life!Photo, Uploaded, Requested
    <3>3. \A id \in Ids : status'[id] = Queued => told[id] = {}
      BY <1>a, <1>5, <2>1, <2>6 DEF Queued, Uploaded
    <3> QED
      BY <1>a, <1>1, <3>2, <3>3 DEF PromiseInv, Life!Next
  <2> QED
    BY <1>2, <2>1, <2>3, <2>4, <2>5, <2>6 DEF StatusChanges
<1> QED
  BY <1>2, <1>4, <1>5 DEF OneChanges

(* A restart of the Pico forgets what was coming, and says nothing.        *)
LEMMA RestartPromise ==
  ASSUME PromiseInv, PicoRestarts
  PROVE  PromiseInv' /\ [Life!Next]_(Life!lifeVars)
<1>1. UNCHANGED <<told, status>>
  BY DEF PicoRestarts, espVars, webVars
<1>2. ASSUME NEW id \in Ids PROVE LifeInv(id)'
  <2>1. /\ OnLine(id)' = 0 /\ InInbox(id)' = 0 /\ AsInstruction(id)' = 0
        /\ InVector(id)' = 0
    BY CountEmpty DEF PicoRestarts, OnLine, InInbox, AsInstruction, InVector
  <2>2. current_command' # id
    BY ProtocolAssumption DEF PicoRestarts
  <2> QED
    BY <2>1, <2>2 DEF LifeInv, Coming
<1>3. state' # "MOTOR_CONTROL"
  BY DEF PicoRestarts
<1>4. HistoryInv'
  BY <1>2, <1>3 DEF HistoryInv
<1> QED
  BY <1>1, <1>4 DEF PromiseInv, Life!lifeVars

(* Every step keeps the strengthening and is a step of CommandLife, or     *)
(* none.                                                                   *)
LEMMA PromiseStep ==
  ASSUME SystemInv, TypeOK, TypeOK', PictureInv, PromiseInv, [Next]_allVars
  PROVE  PromiseInv' /\ [Life!Next]_(Life!lifeVars)
<1>1. CASE PicoStep
  BY <1>1, PicoPromise DEF PicoStep
<1>2. CASE EspStep \/ FailureStep \/ TimeTimerRings \/ CommandTimerRings
  <2>1. EspAction(Times, Offered) /\ EspOnly
    BY <1>2 DEF EspStep, InitTaskStep, UartReadStep, HandlerStep, WebStep,
       FailureStep, TimeTimerRings, CommandTimerRings, EspAction
  <2> QED
    BY <2>1, EspPromise
<1>3. CASE PicoRestarts
  BY <1>3, RestartPromise
<1>4. CASE UNCHANGED allVars
  <2>1. UNCHANGED <<vars, espVars>>
    BY <1>4 DEF allVars
  <2>2. /\ UNCHANGED <<from_esp, msg_queue, instr_msg_queue, told, status>>
        /\ UNCHANGED <<commands, check_motor, current_command, state>>
    BY <2>1 DEF vars, linkVars, loopVars, captureVars, espVars, webVars
  <2>3. \A id \in Ids : LifeInv(id)' = LifeInv(id)
    BY <2>2 DEF LifeInv, Coming, OnLine, InInbox, AsInstruction, InVector
  <2> QED
    BY <2>2, <2>3 DEF PromiseInv, HistoryInv, Life!lifeVars
<1> QED
  BY <1>1, <1>2, <1>3, <1>4 DEF Next

(* Before the first step nothing has been said, and no command is known.     *)
LEMMA PromiseInitially ==
  ASSUME Init \/ ReadyInit
  PROVE  PromiseInv /\ Life!Init
<1>1. HistoryInv
  BY HistoryEmpty DEF Init, ReadyInit, ControllerInit, LinkInit
<1>2. /\ told = [i \in Ids \cup {NoId} |-> {}]
      /\ status = [i \in Ids |-> Queued]
  BY DEF Init, ReadyInit, ControllerInit, EspInit, TableInit
<1> QED
  BY <1>1, <1>2 DEF PromiseInv, Life!Init, Life!NotSent, Queued

(* The system implements CommandLife, from power-on and from the state     *)
(* start-up leads to, with faults and restarts of the Pico: a command is   *)
(* handed out once, answered once, ends once, a picture is reported as     *)
(* failed only of a command it was asked for, and the website shows        *)
(* nothing but what was reported, until something final is shown           *)
(* (controller.cpp:117-126, 163-168, 268-321, 702-728; tasks.cpp:663-748;  *)
(* commands.rs:84-116, 168-221).                                           *)
THEOREM KeepsPromiseAlways == (Spec => KeepsPromise) /\ (ReadySpec => KeepsPromise)
<1>1. /\ SystemInv /\ TypeOK /\ TypeOK' /\ PictureInv /\ PromiseInv /\ [Next]_allVars
           => PromiseInv' /\ [Life!Next]_(Life!lifeVars)
  BY PromiseStep
<1>2. SystemInv /\ TypeOK /\ TypeOK' /\ PictureInv /\ [Next]_allVars => PictureInv'
  BY PictureStep
<1>3. (Init => PictureInv) /\ (ReadyInit => PictureInv)
  BY PictureInitially
<1>4. (Init => PromiseInv /\ Life!Init) /\ (ReadyInit => PromiseInv /\ Life!Init)
  BY PromiseInitially
<1> QED
  BY <1>1, <1>2, <1>3, <1>4, SystemInvariant, SystemTypeCorrect, PTL
     DEF Spec, ReadySpec, KeepsPromise, Life!Spec
----------------------------------------------------------------------------
(* One capture at a time, in the whole system.  OneCapture and             *)
(* CameraOnTarget are stated in PicoAlone of the Pico's variables alone.   *)
Alone == INSTANCE PicoAlone WITH ArrivalCapacity <- PicoBuffer, MaxNoise <- 0,
                                 issued <- {}, noise <- 0

(* The Pico's strengthening survives every step: the ESP moves none of the *)
(* variables it speaks of, and a restart resets them all.                  *)
LEMMA SystemKeepsCapture ==
  ASSUME ~DebugBuild
  PROVE  CaptureInv /\ [Next]_allVars => CaptureInv'
<1> SUFFICES ASSUME CaptureInv, [Next]_allVars
             PROVE  CaptureInv'
  OBVIOUS
<1>1. CASE PicoStep
  BY <1>1, CaptureInvStep DEF PicoStep, ControllerAction
<1>2. CASE EspStep \/ FailureStep \/ TimeTimerRings \/ CommandTimerRings
  <2>1. EspOnly
    BY <1>2 DEF EspStep, InitTaskStep, UartReadStep, HandlerStep, WebStep,
       FailureStep, TimeTimerRings, CommandTimerRings
  <2> QED
    BY <2>1 DEF EspOnly, Unmoved, CaptureInv, AtRest, Still, DrainPoints, loopVars,
       captureVars, traceVars, motorVars
<1>3. CASE PicoRestarts
  BY <1>3 DEF PicoRestarts, CaptureInv, AtRest, Still, DrainPoints
<1>4. CASE UNCHANGED allVars
  BY <1>4, CaptureInvStutter DEF allVars
<1> QED
  BY <1>1, <1>2, <1>3, <1>4 DEF Next

(* With the real ESP, from power-on or from the state start-up leads to,   *)
(* and although the Pico may restart at any time: a release build works on *)
(* one picture at a time, and while it waits for one the camera stands     *)
(* still on the coordinates of the command it is for (controller.cpp:      *)
(* 84-103).                                                                *)
THEOREM OneCaptureInSystem ==
  ASSUME ~DebugBuild
  PROVE  /\ Spec => [](Alone!OneCapture /\ Alone!CameraOnTarget)
         /\ ReadySpec => [](Alone!OneCapture /\ Alone!CameraOnTarget)
<1>1. CaptureInv => Alone!OneCapture /\ Alone!CameraOnTarget
  BY DEF CaptureInv, Still, Alone!OneCapture, Alone!CameraOnTarget,
     Alone!isRunning, Alone!isCalibrating
<1>2. CaptureInv /\ [Next]_allVars => CaptureInv'
  BY SystemKeepsCapture
<1>3. Init => CaptureInv
  BY CaptureInvInitially DEF Init
<1>4. ReadyInit => CaptureInv
  BY DEF ReadyInit, MotorInit, CaptureInv, DrainPoints, AtRest, Still
<1> QED
  BY <1>1, <1>2, <1>3, <1>4, PTL DEF Spec, ReadySpec
=============================================================================
