------------------------------ MODULE Stargazer ------------------------------
(***************************************************************************)
(* The whole system: the Pico's main loop, the tasks of the ESP32-CAM and  *)
(* the command table of the web server, joined by the UART.  There is no   *)
(* user in config mode here (PicoAlone has one), and the queue of commands *)
(* is what the server offers.                                              *)
(***************************************************************************)
EXTENDS PicoController, EspTasks, FiniteSets

CONSTANTS
  Offered,     \* positions of the commands the server hands out
  Polls,       \* requests for commands queued before start-up is over
  Faulty,      \* the camera, the SD card, the network and the server may fail
  MaxTimers,   \* times the timer for commands runs out (a bound)
  MaxRestarts  \* restarts of the Pico (a bound)

ASSUME StargazerAssumption ==
  /\ Offered \subseteq Positions /\ Polls \in 0 .. WebCapacity /\ Faulty \in BOOLEAN
  /\ MaxTimers \in Nat /\ MaxRestarts \in Nat

VARIABLES timers, restarts   \* so far

allVars == <<vars, espVars, timers, restarts>>

TypeOK ==
  /\ ControllerTypeOK
  /\ EspTypeOK
  /\ Len(from_esp) <= PicoBuffer /\ Len(to_esp) <= LinkCapacity

Init == ControllerInit /\ EspInit /\ timers = 0 /\ restarts = 0

(* The state start-up leads to: both clocks are set, the two devices have  *)
(* announced themselves, and every queue has run empty but for the polls   *)
(* that have waited for the network (tasks.cpp:377-379).                   *)
ReadyInit ==
  /\ LinkInit /\ MotorInit
  /\ now = 0 /\ synced = TRUE /\ alarm = NoAlarm /\ alarm_wakeup = FALSE
  /\ pc = "top" /\ initialized = TRUE /\ state = "COMM_READ"
  /\ double_check = FALSE /\ last_sent = "DEVICE_STATUS"
  /\ current_command = NoId /\ check_motor = FALSE
  /\ waiting_for_camera = FALSE /\ now_commands = 0
  /\ msg_queue = <<>> /\ instr_msg_queue = <<>> /\ send_msg_queue = <<>>
  /\ commands = <<>>
  /\ trace_started = FALSE /\ trace_pause = TRUE /\ trace_hours = 0
  /\ fix = TRUE /\ told = [i \in Ids \cup {NoId} |-> {}]
  /\ waitingForResponse = FALSE /\ espInitMsgSent = FALSE /\ timeSynced = TRUE
  /\ received = <<>> /\ init = "done"
  /\ web_queue = [k \in 1 .. Polls |-> Request("GET_COMMANDS", NoId, 0)]
  /\ handling = Nothing /\ attempts = [t \in Tasks |-> 1]
  /\ request_type = "UNDEFINED" /\ serving = Idle
  /\ response_buffer = "http200"
  /\ TableInit
  /\ timers = 0 /\ restarts = 0

----------------------------------------------------------------------------
Counted == UNCHANGED <<timers, restarts>>

PicoStep == (Loop \/ Hardware) /\ UNCHANGED espVars /\ Counted

EspOnly == Unmoved /\ UNCHANGED <<clockVars, motorVars>>

InitTaskStep == InitTask /\ EspOnly /\ Counted
UartReadStep == UartReadTask /\ EspOnly /\ Counted
HandlerStep == HandleUartDataTask(Times) /\ EspOnly /\ Counted
WebStep == WebTask(Offered) /\ EspOnly /\ Counted

FailureStep ==
  Faulty /\ (PictureFails \/ WebFailure) /\ EspOnly /\ Counted

TimeTimerRings == GetTimeTimer /\ EspOnly /\ Counted

CommandTimerRings ==
  /\ timers < MaxTimers
  /\ GetCommandsTimer
  /\ timers' = timers + 1
  /\ EspOnly /\ UNCHANGED restarts

(* The Pico restarts: it forgets its commands and its time, and what was   *)
(* in its ring buffers is lost.  (During start-up it has little to forget: *)
(* those restarts are left out to keep the instance small.)                *)
PicoRestarts ==
  /\ initialized /\ init = "done"
  /\ restarts < MaxRestarts
  /\ restarts' = restarts + 1
  /\ from_esp' = <<>>
  /\ to_esp' \in {SubSeq(to_esp, 1, k) : k \in 0 .. Len(to_esp)}
  /\ now' = 0 /\ synced' = FALSE /\ alarm' = NoAlarm /\ alarm_wakeup' = FALSE
  /\ calibrated' = {} /\ calibrating' = {} /\ turning' = FALSE /\ aim' = NoId
  /\ cal_left' = 0
  /\ pc' = "boot" /\ initialized' = FALSE /\ state' = "COMM_READ"
  /\ double_check' = TRUE /\ last_sent' = "UNASSIGNED"
  /\ current_command' = NoId /\ check_motor' = FALSE
  /\ waiting_for_camera' = FALSE /\ now_commands' = 0
  /\ msg_queue' = <<>> /\ instr_msg_queue' = <<>> /\ send_msg_queue' = <<>>
  /\ commands' = <<>>
  /\ trace_started' = FALSE /\ trace_pause' = TRUE /\ trace_hours' = 0
  /\ fix' = FALSE
  /\ UNCHANGED <<told, espVars, timers>>

EspStep == InitTaskStep \/ UartReadStep \/ HandlerStep \/ WebStep

Next ==
  \/ PicoStep \/ EspStep \/ FailureStep
  \/ TimeTimerRings \/ CommandTimerRings
  \/ PicoRestarts

Spec == Init /\ [][Next]_allVars
ReadySpec == ReadyInit /\ [][Next]_allVars

(* Both programs go on running: the Pico's loop, and every task of the ESP *)
(* that can run.  In init the Pico asks for the time every 20 seconds, a   *)
(* GPS fix comes sooner or later, and the timer for the time rings again   *)
(* and again while there is room in the queue of requests.                 *)
Fairness ==
  /\ WF_allVars(Loop /\ UNCHANGED espVars /\ Counted)
  /\ SF_allVars(InitRead /\ ~synced /\ Transmit(datetime_request)
                  /\ UNCHANGED espVars /\ Counted)
  /\ SF_allVars(InitLocate /\ fix' /\ UNCHANGED espVars /\ Counted)
  /\ WF_allVars(InitTaskStep)
  /\ WF_allVars(UartReadStep)
  /\ WF_allVars(HandlerStep)
  /\ WF_allVars(WebStep)
  /\ SF_allVars(TimeTimerRings)

FairSpec == Spec /\ Fairness

(* After start-up, without faults, the ESP has a finite amount of work at  *)
(* any time, so that it is enough that one of its tasks goes on.  Time     *)
(* passes, and moving axes reach their angle or their fork.                *)
ReadyFairness ==
  /\ WF_allVars(Loop /\ UNCHANGED espVars /\ Counted)
  /\ WF_allVars((Second \/ MotorsReach \/ \E axis \in Axes : OptoIrq(axis))
                  /\ UNCHANGED espVars /\ Counted)
  /\ WF_allVars(EspStep)

FairReadySpec == ReadySpec /\ ReadyFairness

----------------------------------------------------------------------------
(* What the server shows of a command is what the Pico said of it, and a   *)
(* picture it shows was asked for: whatever is dropped by full queues, cut *)
(* reads and the waits of the ESP, nothing is made up and nothing changes  *)
(* its command on the way (tasks.cpp:673-708, 741; commands.rs:168-221).   *)
Truthful ==
  \A id \in Ids :
    /\ status[id] \notin {Queued, Fetched, Uploaded} => status[id] \in told[id]
    /\ status[id] = Uploaded => Requested \in told[id]

InQueue(q, m) == Cardinality({k \in 1 .. Len(q) : q[k] = m})
One(condition) == IF condition THEN 1 ELSE 0

(* Where a picture of a command can be: from the Pico's send queue to the  *)
(* request the web task works on.                                          *)
Pictures(id) ==
  LET upload == Request("POST_IMAGE", id, 0)
  IN  InQueue(send_msg_queue, picture(id)) + InQueue(to_esp, picture(id))
        + InQueue(received, picture(id)) + One(handling = picture(id))
        + InQueue(web_queue, upload) + One(serving = upload)
        + One(status[id] = Uploaded)

(* A command gets one picture at the most: it is asked for, taken and      *)
(* uploaded once, although the request that carries it is reused           *)
(* (tasks.cpp:727, 739-748) and status messages go round twice.            *)
OnePicture == \A id \in Ids : Pictures(id) <= 1

(* Told and shown, each command lives as CommandLife says: in particular a *)
(* picture is reported as failed only of a command it was asked for, hence *)
(* never of the one that is late (controller.cpp:713-718).                 *)
Life == INSTANCE CommandLife
          WITH reports <- [id \in Ids |-> told[id]], shown <- status
KeepsPromise == Life!Spec

(* The ESP photographs what the command asks for: from the moment it takes *)
(* up a PICTURE message until the picture is taken, the camera stays on    *)
(* the coordinates of that command.  (tasks.cpp:712 waits ten seconds to   *)
(* be sure "we're taking an image of what were pointing at and not what we *)
(* were pointing at previously", and 725 confirms only "after taking image *)
(* as the pico will unpower the motors after receiving an ack".)           *)
PhotoOnTarget == \A id \in Ids : handling = picture(id) => aim = id

(* A report the server has accepted is not followed by the diagnosis "Post *)
(* request returned non 200 response" (tasks.cpp:443-449).                 *)
NoFalseAlarm ==
  [][\A id \in Ids :
       status[id]' # status[id] /\ serving = report(id, status[id]')
         => Len(web_queue') <= Len(web_queue)]_allVars

(* Start-up ends, although each side throws away what it does not expect   *)
(* while it waits: the ESP drops requests for the time while it waits for  *)
(* the answer to its own first message, refuses them until the server has  *)
(* given it the time, and the Pico queues its greeting until it is done    *)
(* (controller.cpp:53-68, 179-201; tasks.cpp:309-315, 605-626).  A Pico    *)
(* that restarts finds an ESP in the middle of anything, and starts too.   *)
StartsUp == <>[](initialized /\ init = "done")

(* Without faults, a command whose time the Pico has reported ends with    *)
(* its picture shown by the server, although any acknowledgement may be    *)
(* taken for another's.                                                    *)
Delivered ==
  \A id \in Ids : Calculated \in told[id] ~> status[id] = Uploaded

(* The Pico does not wait for a picture for ever: the ESP confirms it      *)
(* (UART_COMMS.md:68-70), and for an ESP that does not respond comm_process*)
(* has the motors turned off (controller.cpp:211-216).                     *)
PictureWaitEnds == waiting_for_camera ~> ~waiting_for_camera
=============================================================================
