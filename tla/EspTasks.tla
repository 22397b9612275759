------------------------------ MODULE EspTasks ------------------------------
(***************************************************************************)
(* The tasks of the ESP32-CAM (esp32-cam/src/tasks.cpp and                 *)
(* espPicoUartCommHandler.cpp): uart_read_task filters and queues what the *)
(* Pico sends, handle_uart_data_task acts on it, init_task announces the   *)
(* ESP to the Pico and ends, send_request_to_websrv_task works through the *)
(* queue of requests to the web server, and two timers add to that queue.  *)
(* The tasks share the queues, the flag waitingForResponse and the UART.   *)
(***************************************************************************)
EXTENDS CommandTable

CONSTANTS
  RETRIES,            \* sends of a message that waits for a response
  ReceivedCapacity,   \* EVENT_QUEUE_SIZE, of the queue of received messages
  WebCapacity,        \* QUEUE_SIZE, of the queue of requests
  PicoBuffer,         \* messages the Pico's receive buffer holds (a bound)
  USE_TLS             \* the build that talks to the server over TLS

ASSUME EspAssumption ==
  /\ RETRIES \in Nat \ {0}
  /\ ReceivedCapacity \in Nat \ {0}
  /\ WebCapacity \in Nat \ {0}
  /\ PicoBuffer \in Nat
  /\ USE_TLS \in BOOLEAN

VARIABLES
  waitingForResponse,  \* shared by the tasks that send and wait
  espInitMsgSent,
  timeSynced,
  received,            \* uart_received_data_queue
  web_queue,           \* webSrvRequestQueue
  init,                \* where init_task is
  handling,            \* what handle_uart_data_task is busy with, or Nothing
  attempts,            \* sends so far of the message each task waits about
  request_type,        \* requestType left in the request the handler reuses
  serving,             \* the request the web task is busy with, or Idle
  response_buffer      \* what the last response left in the web task's buffer

sendVars == <<waitingForResponse, attempts>>
handlerVars == <<handling, request_type>>
webVars == <<timeSynced, serving, response_buffer, status>>
espVars == <<sendVars, espInitMsgSent, received, web_queue, init, handlerVars,
             webVars>>

Nothing == Msg("UNASSIGNED", NoId, 0)
Tasks == {"init_task", "handle_uart_data_task"}

(* Requests to the web server: a POST is the report of a command's status, *)
(* or, without a command, a diagnostics message; a stale one carries no    *)
(* content the server understands.                                         *)
RequestTypes == {"UNDEFINED", "GET_COMMANDS", "GET_TIME", "POST", "POST_IMAGE"}
Requests == [type : RequestTypes, id : Ids \cup {NoId}, val : Int]
Request(type, id, val) == [type |-> type, id |-> id, val |-> val]
Stale == 9
report(id, val) == Request("POST", id, val)
diagnosis == Request("POST", NoId, 3)
stale == Request(request_type, NoId, Stale)
Idle == Request("IDLE", NoId, 0)

(* What sendRequest leaves in the response: nothing, a bare JSON object    *)
(* (parseResponseIntoJson cuts the status line off an answer that contains *)
(* one), or an answer without JSON, with its status line.                  *)
Responses == {"none", "json", "http200", "httpError"}

EspTypeOK ==
  /\ waitingForResponse \in BOOLEAN
  /\ espInitMsgSent \in BOOLEAN
  /\ timeSynced \in BOOLEAN
  /\ received \in Seq(Message) /\ Len(received) <= ReceivedCapacity
  /\ web_queue \in Seq(Requests)
  /\ Len(web_queue) <= WebCapacity
  /\ init \in {"start", "sending", "done"}
  /\ handling \in Message
  /\ attempts \in [Tasks -> 0 .. RETRIES]
  /\ request_type \in RequestTypes
  /\ serving \in Requests \cup {Idle}
  /\ response_buffer \in Responses
  /\ TableTypeOK

EspInit ==
  /\ waitingForResponse = FALSE
  /\ espInitMsgSent = FALSE
  /\ timeSynced = FALSE
  /\ received = <<>>
  /\ web_queue = <<>>
  /\ init = "start"
  /\ handling = Nothing
  /\ attempts = [t \in Tasks |-> 0]
  /\ request_type = "UNDEFINED"
  /\ serving = Idle
  /\ response_buffer = "none"
  /\ TableInit

----------------------------------------------------------------------------
(* Helpers.                                                                *)

(* send_data: what does not fit into the Pico's buffer is lost.            *)
send_data(m) ==
  from_esp' = IF Len(from_esp) < PicoBuffer THEN Append(from_esp, m)
                                            ELSE from_esp

send_ACK_msg(ok) == send_data(response(ok))

(* Mutant: nothing bounds the queue.                                       *)
EnqueueUnbounded(requests) == web_queue' = web_queue \o requests

(* Requests are queued in order as long as there is room, and dropped      *)
(* after that.                                                             *)
Enqueue(requests) ==
  LET all == web_queue \o requests
  IN  web_queue' = IF Len(all) <= WebCapacity THEN all
                   ELSE SubSeq(all, 1, WebCapacity)

----------------------------------------------------------------------------
(* send_msg_and_wait_for_response, in either task: the flag is raised, and *)
(* while it is up the message goes out RETRIES times, ten seconds apart.   *)

BeginWait(task) ==
  /\ waitingForResponse' = TRUE
  /\ attempts' = [attempts EXCEPT ![task] = 0]

(* Mutant: the attempts are not counted.                                   *)
AttemptUncounted(task, m) ==
  /\ waitingForResponse
  /\ attempts[task] < RETRIES
  /\ send_data(m)
  /\ UNCHANGED <<sendVars, espInitMsgSent, received, web_queue, init,
                 handlerVars, webVars, to_esp>>

Attempt(task, m) ==
  /\ waitingForResponse
  /\ attempts[task] < RETRIES
  /\ send_data(m)
  /\ attempts' = [attempts EXCEPT ![task] = @ + 1]
  /\ UNCHANGED <<waitingForResponse, espInitMsgSent, received, web_queue, init,
                 handlerVars, webVars, to_esp>>

WaitOver(task) == ~waitingForResponse \/ attempts[task] >= RETRIES

(* The result depends on the number of attempts alone.                     *)
Succeeds(task) == attempts[task] < RETRIES

(* Mutant: a failure leaves the flag up.                                   *)
EndWaitLeavesFlag(task) == WaitOver(task) /\ UNCHANGED sendVars

EndWait(task) ==
  /\ WaitOver(task)
  /\ waitingForResponse' = IF Succeeds(task) THEN waitingForResponse ELSE FALSE
  /\ UNCHANGED attempts

----------------------------------------------------------------------------
(* init_task, from the moment the other tasks run.                         *)

InitTaskBegin ==
  /\ init = "start"
  /\ init' = "sending"
  /\ espInitMsgSent' = TRUE
  /\ BeginWait("init_task")
  /\ UNCHANGED <<received, web_queue, handlerVars, webVars, linkVars>>

InitTaskSend == init = "sending" /\ Attempt("init_task", device_status)

InitTaskEnd ==
  /\ init = "sending"
  /\ EndWait("init_task")
  /\ init' = "done"
  /\ Enqueue(<<diagnosis>>)
  /\ UNCHANGED <<espInitMsgSent, received, handlerVars, webVars, linkVars>>

InitTask == InitTaskBegin \/ InitTaskSend \/ InitTaskEnd

----------------------------------------------------------------------------
(* uart_read_task, the highest priority.                                   *)

ReadUart ==
  /\ to_esp # <<>>
  /\ to_esp' = Tail(to_esp)
  /\ UNCHANGED <<attempts, espInitMsgSent, init, handlerVars, webVars, from_esp>>

(* While any task waits for a response, everything but an ACK is thrown    *)
(* away, and any ACK will do (check_if_confirmation_msg).                  *)
ReadWhileWaiting ==
  /\ ReadUart
  /\ waitingForResponse
  /\ waitingForResponse' = (Head(to_esp) # response(TRUE))
  /\ UNCHANGED <<received, web_queue>>

ReadMessage ==
  /\ ReadUart
  /\ ~waitingForResponse
  /\ Len(received) < ReceivedCapacity
  /\ received' = Append(received, Head(to_esp))
  /\ UNCHANGED <<waitingForResponse, web_queue>>

ReadOverflow ==
  /\ ReadUart
  /\ ~waitingForResponse
  /\ Len(received) >= ReceivedCapacity
  /\ Enqueue(<<diagnosis>>)
  /\ UNCHANGED <<waitingForResponse, received>>

(* A read that ends in the middle of a message loses both its halves.  (No *)
(* step of the task itself: how often it happens is up to the line.)       *)
ReadCut ==
  /\ ReadUart
  /\ UNCHANGED <<waitingForResponse, received, web_queue>>

UartReadTask == ReadWhileWaiting \/ ReadMessage \/ ReadOverflow

----------------------------------------------------------------------------
(* handle_uart_data_task: one received message at a time.                  *)

Take(type) ==
  /\ handling = Nothing
  /\ received # <<>>
  /\ Head(received).type = type
  /\ received' = Tail(received)
  /\ UNCHANGED <<init, webVars, to_esp>>

(* The steps of the task after it has slept or waited.                     *)
Resume(type) ==
  /\ handling.type = type
  /\ UNCHANGED <<received, init, webVars, to_esp>>

HandleDatetimeUnsynced ==
  /\ Take("DATETIME")
  /\ ~timeSynced
  /\ send_ACK_msg(FALSE)
  /\ UNCHANGED <<sendVars, espInitMsgSent, web_queue, handlerVars>>

(* The time is sent once, and then once more by the function that waits.   *)
HandleDatetime(t) ==
  /\ Take("DATETIME")
  /\ timeSynced
  /\ handling' = Msg("DATETIME", NoId, t)
  /\ send_data(handling')
  /\ BeginWait("handle_uart_data_task")
  /\ UNCHANGED <<espInitMsgSent, web_queue, request_type>>

(* The end of the DEVICE_STATUS case: a diagnosis, and the request variable*)
(* as an earlier message left it.                                          *)
PicoIsReady ==
  /\ espInitMsgSent' = FALSE
  /\ Enqueue(<<diagnosis, stale>>)

HandleDeviceStatus ==
  /\ Take("DEVICE_STATUS")
  /\ IF espInitMsgSent
     THEN /\ send_ACK_msg(TRUE)
          /\ PicoIsReady
          /\ UNCHANGED <<sendVars, handling>>
     ELSE /\ handling' = device_status
          /\ BeginWait("handle_uart_data_task")
          /\ UNCHANGED <<espInitMsgSent, web_queue, from_esp>>
  /\ UNCHANGED request_type

HandlerSend ==
  /\ handling.type \in {"DATETIME", "DEVICE_STATUS"}
  /\ Attempt("handle_uart_data_task", handling)

DatetimeSent ==
  /\ Resume("DATETIME")
  /\ EndWait("handle_uart_data_task")
  /\ handling' = Nothing
  /\ UNCHANGED <<espInitMsgSent, web_queue, request_type, from_esp>>

DeviceStatusSent ==
  /\ Resume("DEVICE_STATUS")
  /\ EndWait("handle_uart_data_task")
  /\ handling' = Nothing
  /\ IF Succeeds("handle_uart_data_task")
     THEN PicoIsReady
     ELSE UNCHANGED <<espInitMsgSent, web_queue>>
  /\ UNCHANGED <<request_type, from_esp>>

HandleCmdStatus ==
  /\ Take("CMD_STATUS")
  /\ send_ACK_msg(TRUE)
  /\ request_type' = "POST"
  /\ Enqueue(<<report(Head(received).id, Head(received).val)>>)
  /\ UNCHANGED <<sendVars, espInitMsgSent, handling>>

(* Ten seconds pass before the camera shows what it is pointed at.         *)
HandlePicture ==
  /\ Take("PICTURE")
  /\ handling' = Head(received)
  /\ UNCHANGED <<sendVars, espInitMsgSent, web_queue, request_type, from_esp>>

(* A name of 512 characters or more would not be queued (tasks.cpp:733),   *)
(* but no card saves a file under it.                                      *)
TakePicture ==
  /\ Resume("PICTURE")
  /\ handling' = Nothing
  /\ send_ACK_msg(TRUE)
  /\ request_type' = "POST_IMAGE"
  /\ Enqueue(<<Request("POST_IMAGE", handling.id, 0)>>)
  /\ UNCHANGED <<sendVars, espInitMsgSent>>

(* The camera or the SD card fails: nothing is sent to the Pico.           *)
PictureFails ==
  /\ Resume("PICTURE")
  /\ handling' = Nothing
  /\ Enqueue(<<diagnosis>>)
  /\ UNCHANGED <<sendVars, espInitMsgSent, request_type, from_esp>>

HandleDiagnostics ==
  /\ Take("DIAGNOSTICS")
  /\ send_ACK_msg(TRUE)
  /\ Enqueue(<<diagnosis>>)
  /\ UNCHANGED <<sendVars, espInitMsgSent, handlerVars>>

(* WIFI, SERVER and API: the settings may or may not reach the SD card.    *)
HandleSettings ==
  /\ \E type \in {"WIFI", "SERVER", "API"} : Take(type)
  /\ send_ACK_msg(TRUE)
  /\ \/ Enqueue(<<diagnosis>>)
     \/ UNCHANGED web_queue
  /\ UNCHANGED <<sendVars, espInitMsgSent, handlerVars>>

HandleUnexpected ==
  /\ \/ Take("RESPONSE") /\ UNCHANGED web_queue
     \/ /\ Take("INSTRUCTIONS") \/ Take("UNASSIGNED")
        /\ Enqueue(<<diagnosis>>)
  /\ UNCHANGED <<sendVars, espInitMsgSent, handlerVars, from_esp>>

HandleUartDataTask(times) ==
  \/ HandleDatetimeUnsynced \/ \E t \in times : HandleDatetime(t)
  \/ HandleDeviceStatus \/ HandlerSend \/ DatetimeSent \/ DeviceStatusSent
  \/ HandleCmdStatus \/ HandlePicture \/ TakePicture
  \/ HandleDiagnostics \/ HandleSettings \/ HandleUnexpected

----------------------------------------------------------------------------
(* send_request_to_websrv_task: takes a request, and while it talks to the  *)
(* server the other tasks go on.                                           *)

TakeRequest ==
  /\ serving = Idle
  /\ web_queue # <<>>
  /\ serving' = Head(web_queue)
  /\ web_queue' = Tail(web_queue)
  /\ UNCHANGED <<sendVars, espInitMsgSent, received, init, handlerVars,
                 timeSynced, response_buffer, status, linkVars>>

Serve(type) ==
  /\ serving.type = type
  /\ serving' = Idle
  /\ UNCHANGED <<sendVars, espInitMsgSent, received, init, handlerVars, to_esp>>

Diagnose == Enqueue(<<diagnosis>>)

(* What the task makes of the buffer after a POST: an answer is taken for  *)
(* good when its status line says 200.                                     *)
PostChecked ==
  IF response_buffer' = "http200" THEN UNCHANGED web_queue ELSE Diagnose

GetInstruction(id, position) ==
  /\ Serve("GET_COMMANDS")
  /\ Fetch(id)
  /\ send_data(Msg("INSTRUCTIONS", id, position))
  /\ response_buffer' = "none"
  /\ UNCHANGED <<timeSynced, web_queue>>

(* An empty object is no instruction, and no error either.                 *)
GetNothing ==
  /\ Serve("GET_COMMANDS")
  /\ \A id \in Ids : status[id] # Queued
  /\ response_buffer' = "json"
  /\ UNCHANGED <<timeSynced, status, web_queue, from_esp>>

GetTime ==
  /\ Serve("GET_TIME")
  /\ timeSynced' = TRUE
  /\ response_buffer' = "none"
  /\ UNCHANGED <<status, web_queue, from_esp>>

(* The answer to the report of a status is a JSON object in any case.      *)
PostStatus ==
  /\ Serve("POST")
  /\ serving.id # NoId /\ ~USE_TLS
  /\ Respond(serving.id, serving.val)
  /\ response_buffer' = "json"
  /\ PostChecked
  /\ UNCHANGED <<timeSynced, from_esp>>

PostDiagnostics ==
  /\ Serve("POST")
  /\ serving = diagnosis /\ ~USE_TLS
  /\ response_buffer' = "http200"
  /\ PostChecked
  /\ UNCHANGED <<timeSynced, status, from_esp>>

(* The server does not understand a request that is stale.  Over TLS the   *)
(* task sends not the request but the answer to the last GET_COMMANDS.     *)
PostGarbage ==
  /\ Serve("POST")
  /\ serving.val = Stale \/ USE_TLS
  /\ response_buffer' = "httpError"
  /\ PostChecked
  /\ UNCHANGED <<timeSynced, status, from_esp>>

PostImage ==
  /\ Serve("POST_IMAGE")
  /\ IF serving.val = Stale THEN UNCHANGED status ELSE Upload(serving.id)
  /\ response_buffer' = "none"
  /\ UNCHANGED <<timeSynced, web_queue, from_esp>>

ServeUndefined ==
  /\ Serve("UNDEFINED")
  /\ UNCHANGED <<timeSynced, response_buffer, status, web_queue, from_esp>>

WebTask(positions) ==
  \/ TakeRequest
  \/ \E id \in Ids, position \in positions : GetInstruction(id, position)
  \/ GetNothing \/ GetTime \/ PostStatus \/ PostDiagnostics \/ PostGarbage
  \/ PostImage \/ ServeUndefined

----------------------------------------------------------------------------
(* The same requests when they fail: the server is not reached, or refuses,*)
(* or has done its part and the answer is not received, so that the buffer *)
(* keeps what an earlier request has left.                                 *)

(* Text without JSON is no instruction and is diagnosed.                   *)
GetCommandsFails ==
  /\ Serve("GET_COMMANDS")
  /\ \/ response_buffer' \in {"json", "httpError"} /\ UNCHANGED status
     \/ UNCHANGED <<response_buffer, status>>
     \/ (\E id \in Ids : Fetch(id)) /\ UNCHANGED response_buffer
  /\ IF response_buffer' \in {"http200", "httpError"}
     THEN Diagnose ELSE UNCHANGED web_queue
  /\ UNCHANGED <<timeSynced, from_esp>>

GetTimeFails ==
  /\ Serve("GET_TIME")
  /\ response_buffer' \in {response_buffer, "httpError"}
  /\ Diagnose
  /\ UNCHANGED <<timeSynced, status, from_esp>>

PostFails ==
  /\ Serve("POST")
  /\ \/ UNCHANGED <<response_buffer, status>>
     \/ response_buffer' = "httpError" /\ UNCHANGED status
     \/ /\ serving.id # NoId /\ ~USE_TLS
        /\ Respond(serving.id, serving.val)
        /\ UNCHANGED response_buffer
  /\ PostChecked
  /\ UNCHANGED <<timeSynced, from_esp>>

(* Failures to read, send or upload the image leave no trace.              *)
PostImageFails ==
  /\ Serve("POST_IMAGE")
  /\ response_buffer' = "none"
  /\ UNCHANGED <<timeSynced, status, web_queue, from_esp>>

WebFailure == GetCommandsFails \/ GetTimeFails \/ PostFails \/ PostImageFails

----------------------------------------------------------------------------
(* The timers.  The one for the time stops once the time is synced.        *)

Timer(type) ==
  /\ Enqueue(<<Request(type, NoId, 0)>>)
  /\ UNCHANGED <<sendVars, espInitMsgSent, received, init, handlerVars, webVars,
                 linkVars>>

GetCommandsTimer == Timer("GET_COMMANDS")

GetTimeTimer == ~timeSynced /\ Timer("GET_TIME")
=============================================================================
