----------------------------- MODULE TaskProofs -----------------------------
(***************************************************************************)
(* Lemmas about the tasks of the ESP (EspTasks), for any Pico at the other *)
(* end of the line: what the queues carry, how the status of a command     *)
(* changes, and the types of the flags.  EspProofs uses them with an       *)
(* unconstrained Pico, StargazerProofs with the Pico's main loop.          *)
(***************************************************************************)
EXTENDS EspTasks, SequenceTheorems, TLAPS

(* The steps of the ESP: its tasks, the failures they meet, and its timers.*)
EspAction(times, positions) ==
  \/ InitTask \/ UartReadTask \/ ReadCut
  \/ HandleUartDataTask(times) \/ PictureFails
  \/ WebTask(positions) \/ WebFailure
  \/ GetCommandsTimer \/ GetTimeTimer

(* M, what comes from the Pico, F, what goes to it, and R, the requests to *)
(* the server, are closed under what the tasks make of one another.        *)
Fits(M, F, R, times, positions) ==
  /\ M \subseteq Message /\ R \subseteq Requests /\ times \subseteq Int
  /\ \A m \in M : /\ m.type = "CMD_STATUS" => report(m.id, m.val) \in R
                  /\ m.type = "PICTURE" => Request("POST_IMAGE", m.id, 0) \in R
  /\ \A type \in RequestTypes : /\ Request(type, NoId, 0) \in R
                                /\ Request(type, NoId, Stale) \in R
  /\ diagnosis \in R
  /\ response(TRUE) \in F /\ response(FALSE) \in F /\ device_status \in F
  /\ \A t \in times : Msg("DATETIME", NoId, t) \in F
  /\ \A id \in Ids, p \in positions : Msg("INSTRUCTIONS", id, p) \in F

(* The queues, the two tasks and the line carry nothing else, and no more  *)
(* than they have room for.                                                *)
Carried(M, F, R) ==
  /\ received \in Seq(M) /\ Len(received) <= ReceivedCapacity
  /\ web_queue \in Seq(R) /\ Len(web_queue) <= WebCapacity
  /\ to_esp \in Seq(M) /\ Len(to_esp) <= LinkCapacity
  /\ from_esp \in Seq(F) /\ Len(from_esp) <= PicoBuffer
  /\ handling \in Message
  /\ handling.type = "PICTURE" => handling \in M
  /\ handling.type \in {"DATETIME", "DEVICE_STATUS"} => handling \in F
  /\ serving \in R \cup {Idle}
  /\ request_type \in RequestTypes

FlagTypeOK ==
  /\ waitingForResponse \in BOOLEAN
  /\ espInitMsgSent \in BOOLEAN
  /\ timeSynced \in BOOLEAN
  /\ init \in {"start", "sending", "done"}
  /\ attempts \in [Tasks -> 0 .. RETRIES]
  /\ response_buffer \in Responses

----------------------------------------------------------------------------
(* Lemmas about the helpers.                                               *)

(* The first message of a queue, and the queue without it.                 *)
LEMMA Popped ==
  ASSUME NEW S, NEW s \in Seq(S), s # <<>>
  PROVE  /\ Head(s) \in S /\ Tail(s) \in Seq(S)
         /\ Len(s) \in Nat /\ Len(Tail(s)) = Len(s) - 1
BY HeadTailProperties, LenProperties

(* What is queued for the web task is what was queued or is added, and     *)
(* there is never more of it than the queue has room for.                  *)
LEMMA EnqueueFits ==
  ASSUME NEW R, web_queue \in Seq(R), NEW requests \in Seq(R), Enqueue(requests)
  PROVE  web_queue' \in Seq(R) /\ Len(web_queue') <= WebCapacity
<1> DEFINE all == web_queue \o requests
<1>1. all \in Seq(R) /\ Len(all) \in Nat
  BY ConcatProperties, LenProperties
<1>2. web_queue' = IF Len(all) <= WebCapacity THEN all
                   ELSE SubSeq(all, 1, WebCapacity)
  BY DEF Enqueue
<1>3. WebCapacity \in Nat \ {0}
  BY EspAssumption
<1> HIDE DEF all
<1>4. CASE Len(all) <= WebCapacity
  BY <1>1, <1>2, <1>4
<1>5. CASE ~(Len(all) <= WebCapacity)
  <2>1. \A i \in 1 .. WebCapacity : all[i] \in R
    BY <1>1, <1>3, <1>5, ElementOfSeq
  <2>2. /\ SubSeq(all, 1, WebCapacity) \in Seq(R)
        /\ Len(SubSeq(all, 1, WebCapacity)) = WebCapacity
    BY <1>1, <1>3, <1>5, <2>1, SubSeqProperties
  <2> QED
    BY <1>2, <1>3, <1>5, <2>2
<1> QED
  BY <1>4, <1>5

(* One request is queued: the case of most callers.                        *)
LEMMA EnqueueOne ==
  ASSUME NEW R, web_queue \in Seq(R), NEW r \in R, Enqueue(<<r>>)
  PROVE  web_queue' \in Seq(R) /\ Len(web_queue') <= WebCapacity
<1>1. <<r>> \in Seq(R)
  OBVIOUS
<1> QED
  BY <1>1, EnqueueFits

(* No attempt has been made.                                               *)
LEMMA NoAttempts == [t \in Tasks |-> 0] \in [Tasks -> 0 .. RETRIES]
<1>1. 0 \in 0 .. RETRIES
  BY EspAssumption
<1> QED
  BY <1>1

(* What the ESP sends reaches the Pico's buffer or is lost.                *)
LEMMA SendFits ==
  ASSUME NEW F, from_esp \in Seq(F), Len(from_esp) <= PicoBuffer, NEW m \in F,
         send_data(m)
  PROVE  from_esp' \in Seq(F) /\ Len(from_esp') <= PicoBuffer
BY EspAssumption, AppendProperties, LenProperties DEF send_data

----------------------------------------------------------------------------
(* What is carried, task by task.                                          *)

(* init_task and the timers send and queue what is theirs.                 *)
LEMMA InitAndTimersCarry ==
  ASSUME NEW M, NEW F, NEW R, NEW times, NEW positions,
         Fits(M, F, R, times, positions), Carried(M, F, R),
         InitTask \/ GetCommandsTimer \/ GetTimeTimer
  PROVE  Carried(M, F, R)'
<1> USE DEF Carried
<1>1. /\ diagnosis \in R /\ device_status \in F
      /\ \A type \in RequestTypes : Request(type, NoId, 0) \in R
  BY DEF Fits
<1>2. CASE InitTaskBegin
  BY <1>2 DEF InitTaskBegin, linkVars, handlerVars, webVars
<1>3. CASE InitTaskSend
  <2>1. /\ send_data(device_status)
        /\ UNCHANGED <<received, web_queue, to_esp>>
        /\ UNCHANGED <<handling, request_type, serving>>
    BY <1>3 DEF InitTaskSend, Attempt, handlerVars, webVars
  <2>2. from_esp' \in Seq(F) /\ Len(from_esp') <= PicoBuffer
    BY <1>1, <2>1, SendFits
  <2> QED
    BY <2>1, <2>2
<1>4. CASE InitTaskEnd
  <2>1. /\ Enqueue(<<diagnosis>>)
        /\ UNCHANGED <<received, from_esp, to_esp, handling, request_type, serving>>
    BY <1>4 DEF InitTaskEnd, linkVars, handlerVars, webVars
  <2>2. web_queue' \in Seq(R) /\ Len(web_queue') <= WebCapacity
    BY <1>1, <2>1, EnqueueOne
  <2> QED
    BY <2>1, <2>2
<1>5. ASSUME NEW type \in {"GET_COMMANDS", "GET_TIME"}, Timer(type)
      PROVE  Carried(M, F, R)'
  <2>1. /\ Enqueue(<<Request(type, NoId, 0)>>)
        /\ UNCHANGED <<received, from_esp, to_esp, handling, request_type, serving>>
    BY <1>5 DEF Timer, linkVars, handlerVars, webVars
  <2>2. Request(type, NoId, 0) \in R
    BY <1>1 DEF RequestTypes
  <2>3. web_queue' \in Seq(R) /\ Len(web_queue') <= WebCapacity
    BY <2>1, <2>2, EnqueueOne
  <2> QED
    BY <2>1, <2>3
<1> QED
  BY <1>2, <1>3, <1>4, <1>5 DEF InitTask, GetCommandsTimer, GetTimeTimer

(* uart_read_task passes on what the Pico sent, or drops it.               *)
LEMMA ReadCarries ==
  ASSUME NEW M, NEW F, NEW R, NEW times, NEW positions,
         Fits(M, F, R, times, positions), Carried(M, F, R),
         UartReadTask \/ ReadCut
  PROVE  Carried(M, F, R)'
<1> USE DEF Carried
<1>1. diagnosis \in R
  BY DEF Fits
<1>2. /\ to_esp # <<>>
      /\ to_esp' = Tail(to_esp)
      /\ UNCHANGED <<from_esp, handling, request_type, serving>>
  BY DEF UartReadTask, ReadWhileWaiting, ReadMessage, ReadOverflow, ReadCut,
         ReadUart, handlerVars, webVars
<1>3. /\ Head(to_esp) \in M
      /\ to_esp' \in Seq(M) /\ Len(to_esp') <= LinkCapacity
  BY <1>2, Popped, ProtocolAssumption
<1>4. CASE ReadWhileWaiting \/ ReadCut
  <2>1. UNCHANGED <<received, web_queue>>
    BY <1>4 DEF ReadWhileWaiting, ReadCut
  <2> QED
    BY <1>2, <1>3, <2>1
<1>5. CASE ReadMessage
  <2>1. /\ Len(received) < ReceivedCapacity
        /\ received' = Append(received, Head(to_esp))
        /\ UNCHANGED web_queue
    BY <1>5 DEF ReadMessage
  <2>2. received' \in Seq(M) /\ Len(received') <= ReceivedCapacity
    BY <1>3, <2>1, AppendProperties, LenProperties, EspAssumption
  <2> QED
    BY <1>2, <1>3, <2>1, <2>2
<1>6. CASE ReadOverflow
  <2>1. Enqueue(<<diagnosis>>) /\ UNCHANGED received
    BY <1>6 DEF ReadOverflow
  <2>2. web_queue' \in Seq(R) /\ Len(web_queue') <= WebCapacity
    BY <1>1, <2>1, EnqueueOne
  <2> QED
    BY <1>2, <1>3, <2>1, <2>2
<1> QED
  BY <1>4, <1>5, <1>6 DEF UartReadTask

(* handle_uart_data_task answers the Pico with messages it knows, and      *)
(* turns a status and a picture into the requests about them.              *)
LEMMA HandlerCarries ==
  ASSUME NEW M, NEW F, NEW R, NEW times, NEW positions,
         Fits(M, F, R, times, positions), Carried(M, F, R),
         HandleUartDataTask(times) \/ PictureFails
  PROVE  Carried(M, F, R)'
<1> USE DEF Carried
<1>1. /\ diagnosis \in R
      /\ \A type \in RequestTypes : Request(type, NoId, Stale) \in R
      /\ \A m \in M : /\ m.type = "CMD_STATUS" => report(m.id, m.val) \in R
                      /\ m.type = "PICTURE" => Request("POST_IMAGE", m.id, 0) \in R
      /\ response(TRUE) \in F /\ response(FALSE) \in F /\ device_status \in F
      /\ \A t \in times : Msg("DATETIME", NoId, t) \in F
      /\ M \subseteq Message /\ times \subseteq Int
  BY DEF Fits
<1>2. Nothing \in Message /\ device_status \in Message
  BY DEF Nothing, device_status, Msg, Message, MessageTypes
<1>3. Nothing.type = "UNASSIGNED" /\ device_status.type = "DEVICE_STATUS"
  BY DEF Nothing, device_status, Msg
<1>4. ASSUME NEW type, Take(type)
      PROVE  /\ Head(received) \in M /\ Head(received).type = type
             /\ received' \in Seq(M) /\ Len(received') <= ReceivedCapacity
             /\ UNCHANGED <<to_esp, serving>>
  <2>1. received # <<>> /\ received' = Tail(received) /\ Head(received).type = type
    BY <1>4 DEF Take
  <2>2. UNCHANGED <<to_esp, serving>>
    BY <1>4 DEF Take, webVars
  <2> QED
    BY <2>1, <2>2, Popped, EspAssumption
<1>5. ASSUME NEW type, Resume(type)
      PROVE  UNCHANGED <<received, to_esp, serving>>
  BY <1>5 DEF Resume, webVars
<1>6. ASSUME send_data(response(TRUE)) \/ send_data(response(FALSE))
      PROVE  from_esp' \in Seq(F) /\ Len(from_esp') <= PicoBuffer
  BY <1>1, <1>6, SendFits
<1>7. ASSUME Enqueue(<<diagnosis>>)
      PROVE  web_queue' \in Seq(R) /\ Len(web_queue') <= WebCapacity
  BY <1>1, <1>7, EnqueueOne
<1>8. ASSUME PicoIsReady
      PROVE  web_queue' \in Seq(R) /\ Len(web_queue') <= WebCapacity
  <2>1. <<diagnosis, stale>> \in Seq(R)
    BY <1>1 DEF stale
  <2> QED
    BY <1>8, <2>1, EnqueueFits DEF PicoIsReady
<1>9. CASE HandleDatetimeUnsynced
  BY <1>4, <1>6, <1>9 DEF HandleDatetimeUnsynced, send_ACK_msg, handlerVars
<1>10. ASSUME NEW t \in times, HandleDatetime(t)
       PROVE  Carried(M, F, R)'
  <2>1. /\ Take("DATETIME")
        /\ handling' = Msg("DATETIME", NoId, t)
        /\ send_data(Msg("DATETIME", NoId, t))
        /\ UNCHANGED <<web_queue, request_type>>
    BY <1>10 DEF HandleDatetime, send_data
  <2>2. /\ Msg("DATETIME", NoId, t) \in F
        /\ Msg("DATETIME", NoId, t) \in Message
        /\ Msg("DATETIME", NoId, t).type = "DATETIME"
    BY <1>1 DEF Msg, Message, MessageTypes
  <2>3. from_esp' \in Seq(F) /\ Len(from_esp') <= PicoBuffer
    BY <2>1, <2>2, SendFits
  <2> QED
    BY <1>4, <2>1, <2>2, <2>3
<1>11. CASE HandleDeviceStatus
  <2>1. Take("DEVICE_STATUS") /\ UNCHANGED request_type
    BY <1>11 DEF HandleDeviceStatus
  <2>2. CASE espInitMsgSent
    <3>1. send_data(response(TRUE)) /\ PicoIsReady /\ UNCHANGED handling
      BY <1>11, <2>2 DEF HandleDeviceStatus, send_ACK_msg
    <3> QED
      BY <1>4, <1>6, <1>8, <2>1, <3>1
  <2>3. CASE ~espInitMsgSent
    <3>1. handling' = device_status /\ UNCHANGED <<web_queue, from_esp>>
      BY <1>11, <2>3 DEF HandleDeviceStatus
    <3> QED
      BY <1>1, <1>2, <1>3, <1>4, <2>1, <3>1
  <2> QED
    BY <2>2, <2>3
<1>12. CASE HandlerSend
  <2>1. /\ handling \in F
        /\ send_data(handling)
        /\ UNCHANGED <<received, web_queue, to_esp, handling, request_type, serving>>
    BY <1>12 DEF HandlerSend, Attempt, handlerVars, webVars
  <2>2. from_esp' \in Seq(F) /\ Len(from_esp') <= PicoBuffer
    BY <2>1, SendFits
  <2> QED
    BY <2>1, <2>2
<1>13. CASE DatetimeSent
  BY <1>2, <1>3, <1>5, <1>13 DEF DatetimeSent
<1>14. CASE DeviceStatusSent
  <2>1. /\ Resume("DEVICE_STATUS") /\ handling' = Nothing
        /\ PicoIsReady \/ UNCHANGED web_queue
        /\ UNCHANGED <<request_type, from_esp>>
    BY <1>14 DEF DeviceStatusSent
  <2> QED
    BY <1>2, <1>3, <1>5, <1>8, <2>1
<1>15. CASE HandleCmdStatus
  <2>1. /\ Take("CMD_STATUS")
        /\ send_data(response(TRUE))
        /\ request_type' = "POST"
        /\ Enqueue(<<report(Head(received).id, Head(received).val)>>)
        /\ UNCHANGED handling
    BY <1>15 DEF HandleCmdStatus, send_ACK_msg
  <2>2. report(Head(received).id, Head(received).val) \in R
    BY <1>1, <1>4, <2>1
  <2>3. web_queue' \in Seq(R) /\ Len(web_queue') <= WebCapacity
    BY <2>1, <2>2, EnqueueOne
  <2> QED
    BY <1>4, <1>6, <2>1, <2>3 DEF RequestTypes
<1>16. CASE HandlePicture
  <2>1. /\ Take("PICTURE")
        /\ handling' = Head(received)
        /\ UNCHANGED <<web_queue, request_type, from_esp>>
    BY <1>16 DEF HandlePicture
  <2> QED
    BY <1>1, <1>4, <2>1
<1>17. CASE TakePicture
  <2>1. /\ Resume("PICTURE")
        /\ handling' = Nothing
        /\ send_data(response(TRUE))
        /\ request_type' = "POST_IMAGE"
        /\ Enqueue(<<Request("POST_IMAGE", handling.id, 0)>>)
    BY <1>17 DEF TakePicture, send_ACK_msg
  <2>2. Request("POST_IMAGE", handling.id, 0) \in R
    BY <1>1, <2>1 DEF Resume
  <2>3. web_queue' \in Seq(R) /\ Len(web_queue') <= WebCapacity
    BY <2>1, <2>2, EnqueueOne
  <2> QED
    BY <1>2, <1>3, <1>5, <1>6, <2>1, <2>3 DEF RequestTypes
<1>18. CASE PictureFails
  BY <1>2, <1>3, <1>5, <1>7, <1>18 DEF PictureFails
<1>19. CASE HandleDiagnostics
  BY <1>4, <1>6, <1>7, <1>19 DEF HandleDiagnostics, send_ACK_msg, handlerVars
<1>20. CASE HandleSettings
  <2>1. PICK type : Take(type)
    BY <1>20 DEF HandleSettings
  <2> QED
    BY <1>4, <1>6, <1>7, <1>20, <2>1 DEF HandleSettings, send_ACK_msg, handlerVars
<1>21. CASE HandleUnexpected
  <2>1. PICK type : Take(type)
    BY <1>21 DEF HandleUnexpected
  <2> QED
    BY <1>4, <1>7, <1>21, <2>1 DEF HandleUnexpected, handlerVars
<1> QED
  BY <1>9, <1>10, <1>11, <1>12, <1>13, <1>14, <1>15, <1>16, <1>17, <1>18, <1>19,
     <1>20, <1>21 DEF HandleUartDataTask

(* send_request_to_websrv_task hands the Pico instructions, and queues     *)
(* diagnoses.                                                              *)
LEMMA WebTaskCarries ==
  ASSUME NEW M, NEW F, NEW R, NEW times, NEW positions,
         Fits(M, F, R, times, positions), Carried(M, F, R),
         WebTask(positions) \/ WebFailure
  PROVE  Carried(M, F, R)'
<1> USE DEF Carried
<1>1. /\ diagnosis \in R
      /\ \A id \in Ids, p \in positions : Msg("INSTRUCTIONS", id, p) \in F
  BY DEF Fits
<1>2. CASE TakeRequest
  <2>1. /\ web_queue # <<>>
        /\ serving' = Head(web_queue)
        /\ web_queue' = Tail(web_queue)
        /\ UNCHANGED <<received, from_esp, to_esp, handling, request_type>>
    BY <1>2 DEF TakeRequest, handlerVars, linkVars
  <2> QED
    BY <2>1, Popped, EspAssumption
<1>3. ASSUME NEW type, Serve(type)
      PROVE  /\ serving' = Idle
             /\ UNCHANGED <<received, to_esp, handling, request_type>>
  BY <1>3 DEF Serve, handlerVars
<1>4. ASSUME Enqueue(<<diagnosis>>)
      PROVE  web_queue' \in Seq(R) /\ Len(web_queue') <= WebCapacity
  BY <1>1, <1>4, EnqueueOne
<1>5. ASSUME NEW id \in Ids, NEW p \in positions, GetInstruction(id, p)
      PROVE  Carried(M, F, R)'
  <2>1. /\ Serve("GET_COMMANDS")
        /\ send_data(Msg("INSTRUCTIONS", id, p))
        /\ UNCHANGED web_queue
    BY <1>5 DEF GetInstruction
  <2>2. from_esp' \in Seq(F) /\ Len(from_esp') <= PicoBuffer
    BY <1>1, <2>1, SendFits
  <2> QED
    BY <1>3, <2>1, <2>2
<1>6. ASSUME NEW type, Serve(type), UNCHANGED from_esp,
             UNCHANGED web_queue \/ Enqueue(<<diagnosis>>)
      PROVE  Carried(M, F, R)'
  BY <1>3, <1>4, <1>6
<1>7. CASE GetNothing \/ GetTime \/ PostStatus \/ PostDiagnostics \/ PostGarbage
           \/ PostImage \/ ServeUndefined
  BY <1>6, <1>7 DEF GetNothing, GetTime, PostStatus, PostDiagnostics, PostGarbage,
     PostImage, ServeUndefined, PostChecked, Diagnose
<1>8. CASE WebFailure
  BY <1>6, <1>8 DEF WebFailure, GetCommandsFails, GetTimeFails, PostFails,
     PostImageFails, PostChecked, Diagnose
<1> QED
  BY <1>2, <1>5, <1>7, <1>8 DEF WebTask

(* A step of the ESP carries what it may.                                  *)
LEMMA EspCarries ==
  ASSUME NEW M, NEW F, NEW R, NEW times, NEW positions,
         Fits(M, F, R, times, positions), Carried(M, F, R),
         EspAction(times, positions)
  PROVE  Carried(M, F, R)'
BY InitAndTimersCarry, ReadCarries, HandlerCarries, WebTaskCarries DEF EspAction

----------------------------------------------------------------------------
(* The flags the tasks share, and where each task is.                      *)
LEMMA FlagsStep ==
  ASSUME NEW times, NEW positions, FlagTypeOK, EspAction(times, positions)
  PROVE  FlagTypeOK'
<1> USE DEF FlagTypeOK, handlerVars, webVars, sendVars, Responses
<1> DEFINE Waits == waitingForResponse' \in BOOLEAN
                      /\ attempts' \in [Tasks -> 0 .. RETRIES]
<1>a. ASSUME NEW task \in Tasks, BeginWait(task) PROVE Waits
  BY <1>a, EspAssumption DEF BeginWait
<1>b. ASSUME NEW task \in Tasks, NEW m, Attempt(task, m)
      PROVE  Waits /\ UNCHANGED <<espInitMsgSent, timeSynced, init, response_buffer>>
  BY <1>b, EspAssumption DEF Attempt
<1>c. ASSUME NEW task \in Tasks, EndWait(task) PROVE Waits
  BY <1>c DEF EndWait
<1>d. "init_task" \in Tasks /\ "handle_uart_data_task" \in Tasks
  BY DEF Tasks
<1> HIDE DEF Waits
<1>e. ASSUME Waits, espInitMsgSent' \in BOOLEAN, timeSynced' \in BOOLEAN,
             init' \in {"start", "sending", "done"}, response_buffer' \in Responses
      PROVE  FlagTypeOK'
  BY <1>e DEF Waits
<1>1. CASE InitTask
  <2>1. CASE InitTaskBegin
    BY <1>a, <1>d, <1>e, <2>1 DEF InitTaskBegin
  <2>2. CASE InitTaskSend
    BY <1>b, <1>d, <1>e, <2>2 DEF InitTaskSend
  <2>3. CASE InitTaskEnd
    BY <1>c, <1>d, <1>e, <2>3 DEF InitTaskEnd
  <2> QED
    BY <1>1, <2>1, <2>2, <2>3 DEF InitTask
<1>2. CASE UartReadTask \/ ReadCut
  BY <1>2 DEF UartReadTask, ReadWhileWaiting, ReadMessage, ReadOverflow, ReadCut,
     ReadUart
<1>3. CASE HandleUartDataTask(times) \/ PictureFails
  <2>1. \A type : Take(type) \/ Resume(type) =>
                    UNCHANGED <<init, timeSynced, response_buffer>>
    BY DEF Take, Resume
  <2>2. CASE HandleDatetimeUnsynced \/ HandleCmdStatus \/ HandlePicture
             \/ TakePicture \/ PictureFails \/ HandleDiagnostics
             \/ HandleSettings \/ HandleUnexpected
    BY <2>1, <2>2 DEF HandleDatetimeUnsynced, HandleCmdStatus, HandlePicture,
       TakePicture, PictureFails, HandleDiagnostics, HandleSettings, HandleUnexpected
  <2>3. ASSUME NEW t \in times, HandleDatetime(t) PROVE FlagTypeOK'
    BY <1>a, <1>d, <1>e, <2>1, <2>3 DEF HandleDatetime
  <2>4. CASE HandleDeviceStatus
    BY <1>a, <1>d, <1>e, <2>1, <2>4 DEF HandleDeviceStatus, PicoIsReady
  <2>5. CASE HandlerSend
    BY <1>b, <1>d, <1>e, <2>5 DEF HandlerSend
  <2>6. CASE DatetimeSent \/ DeviceStatusSent
    BY <1>c, <1>d, <1>e, <2>1, <2>6 DEF DatetimeSent, DeviceStatusSent, PicoIsReady
  <2> QED
    BY <1>3, <2>2, <2>3, <2>4, <2>5, <2>6 DEF HandleUartDataTask
<1>4. CASE WebTask(positions) \/ WebFailure
  <2>1. CASE TakeRequest
    BY <2>1 DEF TakeRequest
  <2>2. ASSUME NEW type, Serve(type), timeSynced' \in BOOLEAN,
               response_buffer' \in Responses
        PROVE  FlagTypeOK'
    BY <2>2 DEF Serve
  <2>3. ASSUME NEW id \in Ids, NEW p \in positions, GetInstruction(id, p)
        PROVE  FlagTypeOK'
    BY <2>2, <2>3 DEF GetInstruction
  <2>4. CASE GetNothing \/ GetTime \/ PostStatus \/ PostDiagnostics \/ PostGarbage
             \/ PostImage \/ ServeUndefined
    BY <2>2, <2>4 DEF GetNothing, GetTime, PostStatus, PostDiagnostics,
       PostGarbage, PostImage, ServeUndefined
  <2>5. CASE WebFailure
    BY <2>2, <2>5 DEF WebFailure, GetCommandsFails, GetTimeFails, PostFails,
       PostImageFails
  <2> QED
    BY <1>4, <2>1, <2>3, <2>4, <2>5 DEF WebTask
<1>5. CASE GetCommandsTimer \/ GetTimeTimer
  BY <1>5 DEF GetCommandsTimer, GetTimeTimer, Timer
<1> QED
  BY <1>1, <1>2, <1>3, <1>4, <1>5 DEF EspAction

(* A command changes its status in three ways: it is handed out, or the    *)
(* web task serves the report of a status or the picture it is about, the  *)
(* report only while the command is open.                                  *)
StatusChanges(id) ==
  \/ status'[id] = status[id]
  \/ status[id] = Queued /\ status'[id] = Fetched
  \/ /\ serving.type = "POST" /\ serving.id = id
     /\ status[id] \in 0 .. 2
     /\ status'[id] = serving.val /\ serving.val \in -3 .. 2
  \/ /\ serving.type = "POST_IMAGE" /\ serving.id = id
     /\ serving.val # Stale
     /\ status'[id] = Uploaded

(* And of no two commands at once.                                         *)
OneChanges ==
  UNCHANGED status \/ \E c \in Ids, s \in -3 .. 3 : status' = [status EXCEPT ![c] = s]

(* Every step of the tasks changes a status only in one of the ways        *)
(* StatusChanges allows, and that of one command at the most.              *)
LEMMA StatusStep ==
  ASSUME NEW times, NEW positions, TableTypeOK, EspAction(times, positions)
  PROVE  TableTypeOK' /\ (\A id \in Ids : StatusChanges(id)) /\ OneChanges
<1> USE DEF TableTypeOK, StatusChanges, webVars, Queued, Fetched, Uploaded
<1>1. CASE UNCHANGED status
  BY <1>1 DEF OneChanges
<1>a. ASSUME NEW c \in Ids, NEW s \in -3 .. 3, status' = [status EXCEPT ![c] = s]
      PROVE  OneChanges
  BY <1>a DEF OneChanges
<1>2. ASSUME NEW id \in Ids, Fetch(id)
      PROVE  TableTypeOK' /\ (\A i \in Ids : StatusChanges(i)) /\ OneChanges
  <2>1. TableTypeOK' /\ \A i \in Ids : StatusChanges(i)
    BY <1>2 DEF Fetch
  <2> QED
    BY <1>2, <1>a, <2>1 DEF Fetch
<1>3. ASSUME Serve("POST"), Respond(serving.id, serving.val)
      PROVE  TableTypeOK' /\ (\A i \in Ids : StatusChanges(i)) /\ OneChanges
  <2>1. TableTypeOK' /\ \A i \in Ids : StatusChanges(i)
    BY <1>3 DEF Serve, Respond, Acceptable
  <2>2. UNCHANGED status \/ \E c \in Ids, s \in -3 .. 3 : status' = [status EXCEPT ![c] = s]
    <3>1. CASE Acceptable(serving.id, serving.val)
      <4>1. /\ serving.id \in Ids /\ serving.val \in -3 .. 3
            /\ status' = [status EXCEPT ![serving.id] = serving.val]
        BY <1>3, <3>1 DEF Respond, Acceptable
      <4> QED
        BY <4>1
    <3>2. CASE ~Acceptable(serving.id, serving.val)
      BY <1>3, <3>2 DEF Respond
    <3> QED
      BY <3>1, <3>2
  <2> QED
    BY <2>1, <2>2 DEF OneChanges
<1>4. ASSUME Serve("POST_IMAGE"), serving.val # Stale, Upload(serving.id)
      PROVE  TableTypeOK' /\ (\A i \in Ids : StatusChanges(i)) /\ OneChanges
  <2>1. TableTypeOK' /\ \A i \in Ids : StatusChanges(i)
    BY <1>4 DEF Serve, Upload
  <2>2. UNCHANGED status \/ \E c \in Ids, s \in -3 .. 3 : status' = [status EXCEPT ![c] = s]
    <3>1. CASE serving.id \in Ids
      <4>1. 3 \in -3 .. 3 /\ status' = [status EXCEPT ![serving.id] = 3]
        BY <1>4, <3>1 DEF Upload
      <4> QED
        BY <3>1, <4>1
    <3>2. CASE serving.id \notin Ids
      BY <1>4, <3>2 DEF Upload
    <3> QED
      BY <3>1, <3>2
  <2> QED
    BY <2>1, <2>2 DEF OneChanges
<1>5. CASE InitTask
  BY <1>1, <1>5 DEF InitTask, InitTaskBegin, InitTaskSend, InitTaskEnd, Attempt
<1>6. CASE UartReadTask \/ ReadCut
  BY <1>1, <1>6 DEF UartReadTask, ReadWhileWaiting, ReadMessage, ReadOverflow,
     ReadCut, ReadUart
<1>7. CASE HandleUartDataTask(times) \/ PictureFails
  <2>1. \A type : Take(type) \/ Resume(type) => UNCHANGED status
    BY DEF Take, Resume
  <2>2. UNCHANGED status
    BY <1>7, <2>1 DEF HandleUartDataTask, HandleDatetimeUnsynced, HandleDatetime,
       HandleDeviceStatus, HandlerSend, Attempt, DatetimeSent, DeviceStatusSent,
       HandleCmdStatus, HandlePicture, TakePicture, PictureFails,
       HandleDiagnostics, HandleSettings, HandleUnexpected
  <2> QED
    BY <1>1, <2>2
<1>8. CASE WebTask(positions)
  <2>1. CASE TakeRequest
    BY <1>1, <2>1 DEF TakeRequest
  <2>2. ASSUME NEW id \in Ids, NEW p \in positions, GetInstruction(id, p)
        PROVE  TableTypeOK' /\ (\A i \in Ids : StatusChanges(i)) /\ OneChanges
    BY <1>2, <2>2 DEF GetInstruction
  <2>3. CASE GetNothing \/ GetTime \/ PostDiagnostics \/ PostGarbage \/ ServeUndefined
    BY <1>1, <2>3 DEF GetNothing, GetTime, PostDiagnostics, PostGarbage, ServeUndefined
  <2>4. CASE PostStatus
    BY <1>3, <2>4 DEF PostStatus
  <2>5. CASE PostImage
    BY <1>1, <1>4, <2>5 DEF PostImage
  <2> QED
    BY <1>8, <2>1, <2>2, <2>3, <2>4, <2>5 DEF WebTask
<1>9. CASE WebFailure
  <2>1. CASE GetCommandsFails
    BY <1>1, <1>2, <2>1 DEF GetCommandsFails
  <2>2. CASE GetTimeFails \/ PostImageFails
    BY <1>1, <2>2 DEF GetTimeFails, PostImageFails
  <2>3. CASE PostFails
    BY <1>1, <1>3, <2>3 DEF PostFails
  <2> QED
    BY <1>9, <2>1, <2>2, <2>3 DEF WebFailure
<1>10. CASE GetCommandsTimer \/ GetTimeTimer
  BY <1>1, <1>10 DEF GetCommandsTimer, GetTimeTimer, Timer
<1> QED
  BY <1>5, <1>6, <1>7, <1>8, <1>9, <1>10 DEF EspAction

=============================================================================
