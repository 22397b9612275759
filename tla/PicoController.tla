--------------------------- MODULE PicoController ---------------------------
(***************************************************************************)
(* The main loop of the Pico (pico/src/controller.cpp): it reads messages  *)
(* from the ESP, turns instructions into commands, calibrates and turns    *)
(* the motors when a command is due, asks the ESP for the picture, and     *)
(* waits for the confirmation.                                             *)
(*                                                                         *)
(* One round of the loop is the config mode a user may enter, then         *)
(* sanitize_commands, then one case of the switch on `state'.  Interrupts  *)
(* (UART, RTC alarm, opto forks) and the passing of time fall between any  *)
(* two of these steps.                                                     *)
(***************************************************************************)
EXTENDS Clock, MotorControl

CONSTANTS
  StaleAfter,    \* sanitize_commands discards a command later than this
  Window,        \* motor_control takes a picture this close to its time
  MaxTrace,      \* longest trace, in hours (a bound)
  DebugBuild     \* ENABLE_DEBUG: config mode offers debug_trace

ASSUME ControllerAssumption ==
  /\ StaleAfter \in Nat /\ Window \in Nat /\ MaxTrace \in Nat
  /\ DebugBuild \in BOOLEAN

VARIABLES
  pc,                  \* the part of the round that runs next
  initialized,
  state,
  double_check,
  last_sent,           \* type of the last message taken from send_msg_queue
  current_command,     \* its id
  check_motor,
  waiting_for_camera,
  now_commands,
  msg_queue,           \* parsed messages from the ESP
  instr_msg_queue,
  send_msg_queue,
  commands,
  trace_started,
  trace_pause,
  trace_hours,         \* Celestial::trace_hours of trace_object
  fix,                 \* the GPS has coordinates
  told                 \* history: the reports made of each command

loopVars == <<pc, initialized, state, double_check>>
captureVars == <<current_command, check_motor, waiting_for_camera>>
traceVars == <<trace_started, trace_pause, trace_hours>>

vars == <<loopVars, last_sent, captureVars, now_commands, msg_queue,
          instr_msg_queue, send_msg_queue, commands, traceVars, fix,
          linkVars, told, clockVars, motorVars>>

----------------------------------------------------------------------------
(* Commands and what the ESP may send.                                     *)

Command == [id : Ids, time : Times]

(* What the ESP may send: instructions about a command, a timestamp, and   *)
(* messages of which only the type, or a boolean, is used.                 *)
Instruction == [type : {"INSTRUCTIONS"}, id : Ids, val : Positions]
Incoming ==
  Instruction
    \cup [type : {"DATETIME"}, id : {NoId}, val : Times]
    \cup [type : MessageTypes \ {"INSTRUCTIONS", "DATETIME"},
          id : Ids \cup {NoId}, val : Int]

States == {"SLEEP", "COMM_READ", "COMM_PROCESS", "INSTR_PROCESS",
           "MOTOR_CALIBRATE", "MOTOR_CONTROL", "MOTOR_WAIT", "MOTOR_OFF",
           "TRACE"}

(* "boot" and "locate" are the two halves of init, "drain" and "initDrain" *)
(* the loop of comm_process, "config" the wait for an answer in config     *)
(* mode, "top" and "switch" the two halves of a round.                     *)
Points == {"boot", "locate", "drain", "initDrain", "config", "top", "switch"}

LoopTypeOK ==
  /\ pc \in Points
  /\ initialized \in BOOLEAN
  /\ state \in States
  /\ double_check \in BOOLEAN
  /\ last_sent \in MessageTypes
  /\ current_command \in Ids \cup {NoId}
  /\ check_motor \in BOOLEAN
  /\ waiting_for_camera \in BOOLEAN
  /\ now_commands \in Nat
  /\ trace_started \in BOOLEAN
  /\ trace_pause \in BOOLEAN
  /\ trace_hours \in 0 .. MaxTrace
  /\ fix \in BOOLEAN

QueueTypeOK ==
  /\ msg_queue \in Seq(Incoming)
  /\ instr_msg_queue \in Seq(Instruction)
  /\ send_msg_queue \in Seq(Message)
  /\ commands \in Seq(Command)
  /\ from_esp \in Seq(Incoming)
  /\ to_esp \in Seq(Message)

ToldTypeOK == told \in [Ids \cup {NoId} -> SUBSET Statuses]

ControllerTypeOK ==
  ClockTypeOK /\ MotorTypeOK /\ LoopTypeOK /\ QueueTypeOK /\ ToldTypeOK

ControllerInit ==
  /\ LinkInit
  /\ ClockInit
  /\ MotorInit
  /\ pc = "boot"
  /\ initialized = FALSE
  /\ state = "COMM_READ"
  /\ double_check = TRUE
  /\ last_sent = "UNASSIGNED"
  /\ current_command = NoId
  /\ check_motor = FALSE
  /\ waiting_for_camera = FALSE
  /\ now_commands = 0
  /\ msg_queue = <<>>
  /\ instr_msg_queue = <<>>
  /\ send_msg_queue = <<>>
  /\ commands = <<>>
  /\ trace_started = FALSE
  /\ trace_pause = TRUE
  /\ trace_hours = 0
  /\ fix = FALSE
  /\ told = [i \in Ids \cup {NoId} |-> {}]

----------------------------------------------------------------------------
(* Helpers.                                                                *)

(* Controller::send of anything but a RESPONSE: to the send queue.         *)
Send(m) ==
  send_msg_queue' = Append(send_msg_queue, m)

(* send of a message about a command, with its entry in the history.       *)
Report(id, status) ==
  /\ Send(IF status = Requested THEN picture(id) ELSE cmd_status(id, status))
  /\ told' = [told EXCEPT ![id] = @ \cup {status}]

SilentCommands == UNCHANGED <<send_msg_queue, told>>

(* compare_time: the order of the times of two commands.                   *)
compare_time(a, b) == a.time < b.time

(* The results std::sort may leave: a permutation in order of time, equal  *)
(* times in either order.                                                  *)
Sorted(s) ==
  LET n == Len(s)
      Orders == {p \in [1 .. n -> 1 .. n] :
                   /\ \A k \in 1 .. n : \E i \in 1 .. n : p[i] = k
                   /\ \A i, j \in 1 .. n :
                        i < j => ~compare_time(s[p[j]], s[p[i]])}
  IN  {[i \in 1 .. n |-> s[p[i]]] : p \in Orders}

Decrement(n) == IF n > 0 THEN n - 1 ELSE 0

----------------------------------------------------------------------------
(* Start-up: run before the main loop, with init.                          *)

(* init, up to the messages read: asks for the time when the clock is not  *)
(* synced and the bridge has been quiet for 20 seconds, then reads.  Only  *)
(* a parsed message leads to comm_process.                                 *)
InitRead ==
  /\ pc = "boot"
  /\ \/ UNCHANGED to_esp
     \/ ~synced /\ Transmit(datetime_request)
  /\ msg_queue' = msg_queue \o from_esp
  /\ from_esp' = <<>>
  /\ IF from_esp # <<>>
     THEN /\ pc' = "initDrain"
          /\ state' = "SLEEP"
          /\ double_check' = TRUE
     ELSE /\ pc' = "locate"
          /\ UNCHANGED <<state, double_check>>
  /\ UNCHANGED <<initialized, last_sent, captureVars, now_commands,
                 instr_msg_queue, send_msg_queue, commands, traceVars, fix,
                 told, clockVars, motorVars>>

(* The rest of init and of run: locate_position may get a fix; with a fix  *)
(* and a synced clock the device status is sent and the main loop starts.  *)
InitLocate ==
  /\ pc = "locate"
  /\ fix' \in {fix, TRUE}
  /\ IF fix' /\ synced
     THEN /\ initialized' = TRUE
          /\ pc' = "top"
          /\ Send(device_status)
     ELSE /\ pc' = "boot"
          /\ UNCHANGED <<initialized, send_msg_queue>>
  /\ UNCHANGED <<state, double_check, last_sent, captureVars, now_commands,
                 msg_queue, instr_msg_queue, commands, traceVars, linkVars,
                 told, clockVars, motorVars>>

----------------------------------------------------------------------------
(* comm_process: one message of msg_queue at a time until it is empty.     *)

DrainPoints == {"drain", "initDrain"}

(* Where comm_process returns to once the head message is handled.         *)
AfterMessage ==
  /\ msg_queue' = Tail(msg_queue)
  /\ pc' = IF Len(msg_queue) > 1 THEN pc
           ELSE IF pc = "initDrain" THEN "locate"
           ELSE IF initialized THEN "top" ELSE "boot"

Receive(type) ==
  /\ pc \in DrainPoints
  /\ msg_queue # <<>>
  /\ Head(msg_queue).type = type
  /\ AfterMessage
  /\ UNCHANGED <<initialized, double_check, last_sent, captureVars,
                 now_commands, commands, traceVars, fix, from_esp, told,
                 motorVars>>

(* An ACK or NACK says nothing of the message it answers: it is taken for  *)
(* the answer to the message sent last.                                    *)
ReceiveResponse ==
  /\ Receive("RESPONSE")
  /\ state' = IF last_sent # "PICTURE" THEN state
              ELSE IF Head(msg_queue).val = 1 THEN "MOTOR_OFF"
              ELSE "COMM_READ"
  /\ UNCHANGED <<instr_msg_queue, send_msg_queue, to_esp, clockVars>>

ReceiveDatetime ==
  /\ Receive("DATETIME")
  /\ ClockUpdate(Head(msg_queue).val)
  /\ Transmit(response(TRUE))
  /\ UNCHANGED <<state, instr_msg_queue, send_msg_queue>>

ReceiveDeviceStatus ==
  /\ Receive("DEVICE_STATUS")
  /\ IF last_sent = "DEVICE_STATUS"
     THEN Transmit(response(TRUE)) /\ UNCHANGED send_msg_queue
     ELSE Send(device_status) /\ UNCHANGED to_esp
  /\ UNCHANGED <<state, instr_msg_queue, clockVars>>

ReceiveInstructions ==
  /\ Receive("INSTRUCTIONS")
  /\ instr_msg_queue' = Append(instr_msg_queue, Head(msg_queue))
  /\ Transmit(response(TRUE))
  /\ UNCHANGED <<state, send_msg_queue, clockVars>>

ReceiveUnexpected ==
  /\ \E type \in MessageTypes
          \ {"RESPONSE", "DATETIME", "DEVICE_STATUS", "INSTRUCTIONS"} :
       Receive(type)
  /\ Transmit(response(FALSE))
  /\ UNCHANGED <<state, instr_msg_queue, send_msg_queue, clockVars>>

ReceiveAny ==
  \/ ReceiveResponse
  \/ ReceiveDatetime
  \/ ReceiveDeviceStatus
  \/ ReceiveInstructions
  \/ ReceiveUnexpected

----------------------------------------------------------------------------
(* The first half of a round: sanitize_commands.                           *)

Switch == pc = "top" /\ pc' = "switch"

SanitizeUnchanged ==
  UNCHANGED <<initialized, state, double_check, last_sent, captureVars,
              now_commands, msg_queue, instr_msg_queue, traceVars, fix,
              linkVars, motorVars>>

(* Nothing to do: no command, or one that wants its picture now.           *)
SanitizeSkip ==
  /\ Switch
  /\ commands = <<>> \/ now_commands > 0
  /\ UNCHANGED <<commands, clockVars>>
  /\ SilentCommands
  /\ SanitizeUnchanged

(* Mutant: the command is discarded without a report.                      *)
SanitizeDiscardSilently ==
  /\ Switch
  /\ commands # <<>> /\ now_commands = 0
  /\ \E s \in Sorted(commands) :
       /\ now - Head(s).time > StaleAfter
       /\ commands' = Tail(s)
  /\ UNCHANGED clockVars
  /\ SilentCommands
  /\ SanitizeUnchanged

(* The earliest command is too old: it is reported and discarded.          *)
SanitizeDiscard ==
  /\ Switch
  /\ commands # <<>> /\ now_commands = 0
  /\ \E s \in Sorted(commands) :
       /\ now - Head(s).time > StaleAfter
       /\ Report(Head(s).id, Impossible)
       /\ commands' = Tail(s)
  /\ UNCHANGED clockVars
  /\ SanitizeUnchanged

(* Otherwise the alarm is armed for it.                                    *)
SanitizeArm ==
  /\ Switch
  /\ commands # <<>> /\ now_commands = 0
  /\ \E s \in Sorted(commands) :
       /\ now - Head(s).time <= StaleAfter
       /\ AddAlarm(Head(s).time)
       /\ commands' = s
  /\ SilentCommands
  /\ SanitizeUnchanged

Sanitize == SanitizeSkip \/ SanitizeDiscard \/ SanitizeArm

----------------------------------------------------------------------------
(* The second half of a round: the switch on state.                        *)

Case(s) == pc = "switch" /\ state = s /\ pc' = "top"

(* Mutant: waiting_for_camera does not hold back the next command.         *)
NextStateDuringPicture(inbox) ==
  CASE inbox # <<>> -> "COMM_PROCESS"
    [] inbox = <<>> /\ instr_msg_queue # <<>> -> "INSTR_PROCESS"
    [] OTHER ->
       IF check_motor THEN "MOTOR_WAIT"
       ELSE IF isCalibrating THEN "COMM_READ"
       ELSE IF trace_started THEN "TRACE"
       ELSE IF isCalibrated THEN "MOTOR_CONTROL"
       ELSE IF now_commands > 0 THEN "MOTOR_CALIBRATE"
       ELSE "SLEEP"

(* CHECK_QUEUES: what to do next, the most urgent first.                   *)
NextState(inbox) ==
  CASE inbox # <<>> -> "COMM_PROCESS"
    [] inbox = <<>> /\ instr_msg_queue # <<>> -> "INSTR_PROCESS"
    [] OTHER ->
       IF check_motor THEN "MOTOR_WAIT"
       ELSE IF waiting_for_camera \/ isCalibrating THEN "COMM_READ"
       ELSE IF trace_started THEN "TRACE"
       ELSE IF isCalibrated THEN "MOTOR_CONTROL"
       ELSE IF now_commands > 0 THEN "MOTOR_CALIBRATE"
       ELSE "SLEEP"

(* COMM_READ falls through COMM_SEND (send_process) and CHECK_QUEUES:      *)
(* everything received is parsed, at most one queued message is sent.      *)
CommRead ==
  /\ Case("COMM_READ")
  /\ double_check' = FALSE
  /\ msg_queue' = msg_queue \o from_esp
  /\ from_esp' = <<>>
  /\ IF send_msg_queue = <<>>
     THEN UNCHANGED <<to_esp, last_sent, send_msg_queue>>
     ELSE /\ Transmit(Head(send_msg_queue))
          /\ last_sent' = Head(send_msg_queue).type
          /\ send_msg_queue' = Tail(send_msg_queue)
  /\ state' = NextState(msg_queue')
  /\ UNCHANGED <<initialized, captureVars, now_commands, instr_msg_queue,
                 commands, traceVars, fix, told, clockVars, motorVars>>

(* comm_process begins: the state is SLEEP unless a message says more.     *)
CommProcess ==
  /\ pc = "switch" /\ state = "COMM_PROCESS"
  /\ pc' = IF msg_queue = <<>> THEN "top" ELSE "drain"
  /\ state' = "SLEEP"
  /\ double_check' = TRUE
  /\ UNCHANGED <<initialized, last_sent, captureVars, now_commands, msg_queue,
                 instr_msg_queue, send_msg_queue, commands, traceVars, fix,
                 linkVars, told, clockVars, motorVars>>

(* instr_process takes the oldest instruction.                             *)
InstrProcess ==
  /\ Case("INSTR_PROCESS")
  /\ instr_msg_queue # <<>>
  /\ instr_msg_queue' = Tail(instr_msg_queue)
  /\ double_check' = TRUE
  /\ state' = "SLEEP"
  /\ UNCHANGED <<initialized, last_sent, captureVars, msg_queue, traceVars,
                 fix, linkVars, motorVars>>

(* An instruction without its three fields is dropped without a report.    *)
InstrIgnored ==
  /\ InstrProcess
  /\ Head(instr_msg_queue).val = Malformed
  /\ UNCHANGED <<commands, now_commands, clockVars>>
  /\ SilentCommands

InstrRejected ==
  /\ InstrProcess
  /\ Head(instr_msg_queue).val = Bad
  /\ Report(Head(instr_msg_queue).id, Rejected)
  /\ UNCHANGED <<commands, now_commands, clockVars>>

(* The object is never above the horizon, or no such moment was found.  A  *)
(* picture wanted now has been counted before this is known.               *)
InstrImpossible ==
  /\ InstrProcess
  /\ Head(instr_msg_queue).val \in {NOW, Timed}
  /\ now_commands' = IF Head(instr_msg_queue).val = NOW
                     THEN now_commands + 1 ELSE now_commands
  /\ Report(Head(instr_msg_queue).id, Impossible)
  /\ UNCHANGED <<commands, clockVars>>

(* Mutant: a picture wanted now is not counted.                            *)
InstrNowUncounted ==
  /\ InstrProcess
  /\ Head(instr_msg_queue).val = NOW
  /\ Report(Head(instr_msg_queue).id, Calculated)
  /\ commands' \in
       Sorted(Append(commands, [id |-> Head(instr_msg_queue).id, time |-> now]))
  /\ UNCHANGED <<now_commands, clockVars>>

InstrNow ==
  /\ InstrProcess
  /\ Head(instr_msg_queue).val = NOW
  /\ now_commands' = now_commands + 1
  /\ Report(Head(instr_msg_queue).id, Calculated)
  /\ commands' \in
       Sorted(Append(commands, [id |-> Head(instr_msg_queue).id, time |-> now]))
  /\ UNCHANGED clockVars

(* The time may have passed: a search over the end of a month goes back to *)
(* that month's beginning (date_utils.cpp:46).                             *)
InstrTimed ==
  /\ InstrProcess
  /\ Head(instr_msg_queue).val = Timed
  /\ Report(Head(instr_msg_queue).id, Calculated)
  /\ \E t \in Times :
       commands' \in
         Sorted(Append(commands, [id |-> Head(instr_msg_queue).id, time |-> t]))
  /\ AddAlarm(Head(commands').time)
  /\ UNCHANGED now_commands

InstrAny == \/ InstrIgnored \/ InstrRejected \/ InstrImpossible
            \/ InstrNow \/ InstrTimed

(* Mutant: the command the calibration is for is the current one at once.  *)
MotorCalibrateNaming ==
  /\ Case("MOTOR_CALIBRATE")
  /\ Calibrate
  /\ state' = "COMM_READ"
  /\ current_command' = IF commands = <<>> THEN current_command ELSE Head(commands).id
  /\ UNCHANGED <<initialized, double_check, last_sent, check_motor,
                 waiting_for_camera, now_commands, msg_queue, instr_msg_queue,
                 commands, traceVars, fix, linkVars, clockVars>>
  /\ SilentCommands

MotorCalibrate ==
  /\ Case("MOTOR_CALIBRATE")
  /\ Calibrate
  /\ state' = "COMM_READ"
  /\ UNCHANGED <<initialized, double_check, last_sent, captureVars,
                 now_commands, msg_queue, instr_msg_queue, commands, traceVars,
                 fix, linkVars, clockVars>>
  /\ SilentCommands

(* motor_control: what becomes of the first command.  A picture wanted now *)
(* is counted off whatever the first command is.                           *)
MotorControlStep ==
  /\ Case("MOTOR_CONTROL")
  /\ now_commands' = Decrement(now_commands)
  /\ UNCHANGED <<initialized, double_check, last_sent, waiting_for_camera,
                 msg_queue, instr_msg_queue, traceVars, fix, linkVars>>

lateness == now - Head(commands).time

(* More than the window early: back to waiting for its alarm.              *)
MotorControlEarly ==
  /\ MotorControlStep
  /\ commands # <<>> /\ lateness < -Window
  /\ AddAlarm(Head(commands).time)
  /\ Off
  /\ state' = "SLEEP"
  /\ UNCHANGED <<commands, current_command, check_motor>>
  /\ SilentCommands

(* More than the window late: the report names current_command, and the    *)
(* command is given the present time.                                      *)
MotorControlLate ==
  /\ MotorControlStep
  /\ commands # <<>> /\ lateness > Window
  /\ Report(current_command, PictureFailed)
  /\ commands' = [commands EXCEPT ![1].time = now]
  /\ Off
  /\ state' = "COMM_READ"
  /\ UNCHANGED <<current_command, check_motor, clockVars>>

(* Mutant: the command is not taken out of the vector.                     *)
MotorControlTurnAgain ==
  /\ MotorControlStep
  /\ commands # <<>> /\ lateness >= -Window /\ lateness <= Window
  /\ current_command' = Head(commands).id
  /\ TurnTo(current_command')
  /\ check_motor' = TRUE
  /\ state' = "MOTOR_WAIT"
  /\ UNCHANGED <<commands, clockVars>>
  /\ SilentCommands

MotorControlTurn ==
  /\ MotorControlStep
  /\ commands # <<>> /\ lateness >= -Window /\ lateness <= Window
  /\ current_command' = Head(commands).id
  /\ commands' = Tail(commands)
  /\ TurnTo(current_command')
  /\ check_motor' = TRUE
  /\ state' = "MOTOR_WAIT"
  /\ UNCHANGED clockVars
  /\ SilentCommands

MotorControlEmpty ==
  /\ MotorControlStep
  /\ commands = <<>>
  /\ Send(diagnostics)
  /\ Off
  /\ state' = "COMM_READ"
  /\ UNCHANGED <<commands, current_command, check_motor, told, clockVars>>

MotorControlAny == \/ MotorControlEarly \/ MotorControlLate
                   \/ MotorControlTurn \/ MotorControlEmpty

(* Mutant: the picture is asked for while the motors run.                  *)
MotorWaitNotAtAll ==
  /\ Case("MOTOR_WAIT")
  /\ state' = "COMM_READ"
  /\ check_motor' = FALSE
  /\ Report(current_command, Requested)
  /\ waiting_for_camera' = TRUE
  /\ UNCHANGED <<initialized, double_check, last_sent, current_command,
                 now_commands, msg_queue, instr_msg_queue, commands, traceVars,
                 fix, linkVars, clockVars, motorVars>>

(* MOTOR_WAIT: once the motors stand still the picture is asked for.       *)
MotorWait ==
  /\ Case("MOTOR_WAIT")
  /\ state' = "COMM_READ"
  /\ IF isRunning
     THEN SilentCommands /\ UNCHANGED <<check_motor, waiting_for_camera>>
     ELSE /\ check_motor' = FALSE
          /\ Report(current_command, Requested)
          /\ waiting_for_camera' = TRUE
  /\ UNCHANGED <<initialized, double_check, last_sent, current_command,
                 now_commands, msg_queue, instr_msg_queue, commands, traceVars,
                 fix, linkVars, clockVars, motorVars>>

MotorOff ==
  /\ Case("MOTOR_OFF")
  /\ waiting_for_camera' = FALSE
  /\ Off
  /\ state' = "SLEEP"
  /\ UNCHANGED <<initialized, double_check, last_sent, current_command,
                 check_motor, now_commands, msg_queue, instr_msg_queue,
                 commands, traceVars, fix, linkVars, clockVars>>
  /\ SilentCommands

(* SLEEP: wait_for_event ends with an alarm, an input or 100 ms.           *)
Sleep ==
  /\ Case("SLEEP")
  /\ IF ~double_check /\ alarm_wakeup
     THEN ClearAlarm /\ state' = "MOTOR_CALIBRATE"
     ELSE UNCHANGED clockVars /\ state' = "COMM_READ"
  /\ UNCHANGED <<initialized, double_check, last_sent, captureVars,
                 now_commands, msg_queue, instr_msg_queue, commands, traceVars,
                 fix, linkVars, motorVars>>
  /\ SilentCommands

----------------------------------------------------------------------------
(* trace, reachable from config mode in a debug build.                     *)

TraceStep ==
  /\ Case("TRACE")
  /\ UNCHANGED <<initialized, double_check, last_sent, captureVars,
                 now_commands, msg_queue, instr_msg_queue, commands, fix,
                 linkVars, clockVars>>
  /\ SilentCommands

TraceStart ==
  /\ TraceStep
  /\ ~trace_started
  /\ \/ /\ trace_hours' \in 1 .. MaxTrace
        /\ trace_started' = TRUE
        /\ trace_pause' = TRUE
        /\ state' = "MOTOR_CALIBRATE"
     \/ /\ state' = "SLEEP"        \* it rises no later than it sets
        /\ UNCHANGED traceVars
  /\ UNCHANGED motorVars

(* Mutant: the pause at an angle is never called off.                      *)
TraceHoldForever ==
  /\ TraceStep
  /\ trace_started
  /\ state' = "COMM_READ"
  /\ UNCHANGED <<traceVars, motorVars>>

(* The motors are running, or the second at an angle is not over.          *)
TraceHold ==
  /\ TraceStep
  /\ trace_started
  /\ trace_pause' = IF isRunning THEN trace_pause ELSE FALSE
  /\ state' = "COMM_READ"
  /\ UNCHANGED <<trace_started, trace_hours, motorVars>>

TraceTurn ==
  /\ TraceStep
  /\ trace_started /\ ~isRunning /\ ~trace_pause
  /\ trace_hours > 0
  /\ trace_hours' = trace_hours - 1
  /\ trace_pause' = TRUE
  /\ TurnTo(NoId)
  /\ UNCHANGED <<trace_started, state>>

TraceEnd ==
  /\ TraceStep
  /\ trace_started /\ ~isRunning /\ ~trace_pause
  /\ trace_hours = 0
  /\ Off
  /\ trace_started' = FALSE
  /\ state' = "COMM_READ"
  /\ UNCHANGED <<trace_pause, trace_hours>>

Trace == TraceStart \/ TraceHold \/ TraceTurn \/ TraceEnd

----------------------------------------------------------------------------
(* config_mode: what a user may type at the start of a round or of init.   *)
(* (heading, which only shifts angles, is left out, and so are the debug   *)
(* commands other than debug_trace.)                                       *)

ConfigPoint == pc \in {"boot", "top"}

ConfigTime(t) ==
  /\ ConfigPoint
  /\ ClockUpdate(t)
  /\ UNCHANGED <<loopVars, last_sent, captureVars, now_commands, msg_queue,
                 instr_msg_queue, send_msg_queue, commands, traceVars, fix,
                 linkVars, told, motorVars>>

ConfigCoord ==
  /\ ConfigPoint
  /\ fix' = TRUE
  /\ UNCHANGED <<loopVars, last_sent, captureVars, now_commands, msg_queue,
                 instr_msg_queue, send_msg_queue, commands, traceVars,
                 linkVars, told, clockVars, motorVars>>

ConfigInstruction(id, position) ==
  /\ ConfigPoint
  /\ position # Malformed
  /\ instr_msg_queue' =
       Append(instr_msg_queue, Msg("INSTRUCTIONS", id, position))
  /\ UNCHANGED <<loopVars, last_sent, captureVars, now_commands, msg_queue,
                 send_msg_queue, commands, traceVars, fix, linkVars, told,
                 clockVars, motorVars>>

(* wifi, server and token go out past the send queue, and last_sent.       *)
ConfigSend(type) ==
  /\ ConfigPoint
  /\ Transmit(Msg(type, NoId, 0))
  /\ pc' = "config"
  /\ UNCHANGED <<initialized, state, double_check, last_sent, captureVars,
                 now_commands, msg_queue, instr_msg_queue, send_msg_queue,
                 commands, traceVars, fix, from_esp, told, clockVars,
                 motorVars>>

(* config_wait_for_response: whatever has arrived goes to comm_process,    *)
(* which also replaces the state the round was about to switch on.         *)
ConfigAnswered ==
  /\ pc = "config"
  /\ msg_queue \o from_esp # <<>>
  /\ msg_queue' = msg_queue \o from_esp
  /\ from_esp' = <<>>
  /\ pc' = "drain"
  /\ state' = "SLEEP"
  /\ double_check' = TRUE
  /\ UNCHANGED <<initialized, last_sent, captureVars, now_commands,
                 instr_msg_queue, send_msg_queue, commands, traceVars, fix,
                 to_esp, told, clockVars, motorVars>>

(* A key is pressed, or 60 seconds pass.                                   *)
ConfigGivenUp ==
  /\ pc = "config"
  /\ pc' = IF initialized THEN "top" ELSE "boot"
  /\ UNCHANGED <<initialized, state, double_check, last_sent, captureVars,
                 now_commands, msg_queue, instr_msg_queue, send_msg_queue,
                 commands, traceVars, fix, linkVars, told, clockVars,
                 motorVars>>

(* debug_trace replaces trace_object, and with it the hours left.          *)
ConfigTrace ==
  /\ DebugBuild
  /\ ConfigPoint
  /\ state' = "TRACE"
  /\ trace_hours' = 0
  /\ UNCHANGED <<pc, initialized, double_check, last_sent, captureVars,
                 now_commands, msg_queue, instr_msg_queue, send_msg_queue,
                 commands, trace_started, trace_pause, fix, linkVars, told,
                 clockVars, motorVars>>

----------------------------------------------------------------------------
(* Interrupts, hardware and time.                                          *)

Unmoved == UNCHANGED <<loopVars, last_sent, captureVars, now_commands,
                       msg_queue, instr_msg_queue, send_msg_queue, commands,
                       traceVars, fix, told>>

Second ==
  /\ Tick
  /\ cal_left' = Decrement(cal_left)
  /\ UNCHANGED <<calibrated, calibrating, turning, aim, linkVars>>
  /\ Unmoved

AlarmIrq == AlarmMatch /\ Unmoved /\ UNCHANGED <<linkVars, motorVars>>

OptoIrq(axis) == Opto(axis) /\ Unmoved /\ UNCHANGED <<linkVars, clockVars>>

MotorsReach == TurnDone /\ Unmoved /\ UNCHANGED <<linkVars, clockVars>>

(* A message of the ESP arrives in the UART's receive buffer.              *)
Arrive(m) ==
  /\ from_esp' = Append(from_esp, m)
  /\ UNCHANGED <<to_esp, clockVars, motorVars>>
  /\ Unmoved

----------------------------------------------------------------------------
(* The steps of the program itself, those of a user, those of the hardware.*)

Loop ==
  \/ InitRead \/ InitLocate \/ ReceiveAny
  \/ Sanitize
  \/ CommRead \/ CommProcess \/ InstrAny
  \/ MotorCalibrate \/ MotorControlAny \/ MotorWait \/ MotorOff
  \/ Sleep \/ Trace
  \/ ConfigAnswered \/ ConfigGivenUp

Hardware ==
  \/ Second \/ AlarmIrq \/ MotorsReach
  \/ \E axis \in Axes : OptoIrq(axis)
=============================================================================
