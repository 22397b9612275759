------------------------------ MODULE EspAlone ------------------------------
(***************************************************************************)
(* The ESP32-CAM and the web server with an unconstrained Pico: any of its *)
(* messages may arrive at any time, and what the ESP sends is read by      *)
(* nobody (PicoBuffer is zero).                                            *)
(***************************************************************************)
EXTENDS EspTasks

CONSTANTS
  MaxMessages,   \* messages of the Pico (a bound)
  MaxTimers,     \* times a timer runs out (a bound)
  MaxRestarts    \* restarts of the ESP (a bound)

ASSUME AloneAssumption ==
  MaxMessages \in Nat /\ MaxTimers \in Nat /\ MaxRestarts \in Nat

VARIABLES messages, timers, restarts   \* so far

allVars == <<espVars, linkVars, messages, timers, restarts>>

TypeOK ==
  /\ EspTypeOK
  /\ from_esp \in Seq(Message) /\ to_esp \in Seq(Message)
  /\ Len(from_esp) <= PicoBuffer /\ Len(to_esp) <= LinkCapacity

Init == EspInit /\ LinkInit /\ messages = 0 /\ timers = 0 /\ restarts = 0

----------------------------------------------------------------------------
(* What the Pico sends.  Requested and the statuses it never reports are   *)
(* left out, UNASSIGNED stands for what is not understood.                 *)
PicoMessages ==
  {datetime_request, device_status, diagnostics, response(TRUE),
   response(FALSE), Msg("WIFI", NoId, 0), Msg("INSTRUCTIONS", NoId, 0)}
    \cup {cmd_status(id, s) : id \in Ids, s \in {Calculated, Impossible}}
    \cup {picture(id) : id \in Ids}

PicoSends(m) ==
  /\ messages < MaxMessages
  /\ Len(to_esp) < LinkCapacity
  /\ Transmit(m)
  /\ messages' = messages + 1
  /\ UNCHANGED <<espVars, from_esp, timers, restarts>>

TimerRings ==
  /\ timers < MaxTimers
  /\ GetCommandsTimer \/ GetTimeTimer
  /\ timers' = timers + 1
  /\ UNCHANGED <<messages, restarts>>

(* The ESP restarts at any time (esp_restart, a failed check, the watchdog,*)
(* the power): its queues are lost, and the messages its driver had        *)
(* received.  The server keeps what it has.                                *)
EspRestarts ==
  /\ restarts < MaxRestarts
  /\ restarts' = restarts + 1
  /\ to_esp' \in {SubSeq(to_esp, k, Len(to_esp)) : k \in 1 .. Len(to_esp) + 1}
  /\ waitingForResponse' = FALSE /\ espInitMsgSent' = FALSE /\ timeSynced' = FALSE
  /\ received' = <<>> /\ web_queue' = <<>> /\ init' = "start"
  /\ handling' = Nothing /\ attempts' = [t \in Tasks |-> 0]
  /\ request_type' = "UNDEFINED" /\ serving' = Idle /\ response_buffer' = "none"
  /\ UNCHANGED <<from_esp, status, messages, timers>>

Counted == UNCHANGED <<messages, timers, restarts>>

Next ==
  \/ (InitTask \/ UartReadTask \/ HandleUartDataTask({0}) \/ WebTask({NOW}))
        /\ Counted
  \/ (ReadCut \/ PictureFails \/ WebFailure) /\ Counted
  \/ TimerRings
  \/ EspRestarts
  \/ \E m \in PicoMessages : PicoSends(m)

Spec == Init /\ [][Next]_allVars

(* The scheduler runs every task that can run (uart_read_task above all),  *)
(* and every delay passes.                                                 *)
Fairness ==
  /\ WF_allVars(InitTask /\ Counted)
  /\ WF_allVars(UartReadTask /\ Counted)
  /\ WF_allVars((HandleUartDataTask({0}) \/ PictureFails) /\ Counted)
  /\ WF_allVars((WebTask({NOW}) \/ WebFailure) /\ Counted)

FairSpec == Spec /\ Fairness

----------------------------------------------------------------------------
(* A wait ends: the flag that makes uart_read_task throw messages away is  *)
(* lowered again, whichever of the two tasks raised it and whoever lowers  *)
(* it first (espPicoUartCommHandler.cpp:171-189).                          *)
WaitEnds == waitingForResponse ~> ~waitingForResponse

(* What the Pico has sent is dealt with: handle_uart_data_task returns to  *)
(* its queue whatever it waits for, and the queue runs empty.              *)
Handled == received # <<>> ~> received = <<>> /\ handling = Nothing

(* A status that ends a command is the last but for the picture itself     *)
(* (webserver/API.md): no late or repeated report, and no request left     *)
(* over in a reused variable, reopens it, nor does a restart of the ESP.   *)
EndIsFinal ==
  [][\A id \in Ids : status[id] \notin 0 .. 2 => status[id]' \notin 0 .. 2]_allVars
=============================================================================
