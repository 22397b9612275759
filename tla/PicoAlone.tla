----------------------------- MODULE PicoAlone -----------------------------
(***************************************************************************)
(* The Pico's main loop with an unconstrained ESP and an unconstrained     *)
(* user: any message of the protocol may arrive at any time, whatever the  *)
(* Pico has sent, and the user may enter config mode in any round.  What   *)
(* holds here does not depend on how the ESP behaves.                      *)
(***************************************************************************)
EXTENDS PicoController, FiniteSets

CONSTANTS
  ArrivalCapacity,  \* messages waiting in the UART's receive buffer (a bound)
  MaxNoise          \* messages and user inputs other than instructions (a bound)

ASSUME AloneAssumption == ArrivalCapacity \in Nat /\ MaxNoise \in Nat

VARIABLES
  issued,    \* commands whose instruction has been given
  noise      \* other messages and inputs so far

allVars == <<vars, issued, noise>>

TypeOK ==
  /\ ControllerTypeOK
  /\ issued \in SUBSET Ids
  /\ noise \in 0 .. MaxNoise

Init ==
  /\ ControllerInit
  /\ issued = {}
  /\ noise = 0

----------------------------------------------------------------------------
(* The server hands out a command once, and the user types new numbers.    *)
Issue(id) ==
  /\ id \notin issued
  /\ issued' = issued \cup {id}
  /\ UNCHANGED noise

Noise ==
  /\ noise < MaxNoise
  /\ noise' = noise + 1
  /\ UNCHANGED issued

EspInstruction(id, position) ==
  /\ Len(from_esp) < ArrivalCapacity
  /\ Arrive(Msg("INSTRUCTIONS", id, position))
  /\ Issue(id)

UserInstruction(id, position) ==
  ConfigInstruction(id, position) /\ Issue(id)

(* The answer to the request for the time made during start-up: the second *)
(* the modelled period begins with.                                        *)
EspTime ==
  /\ ~synced
  /\ Len(from_esp) < ArrivalCapacity
  /\ Arrive(Msg("DATETIME", NoId, 0))
  /\ UNCHANGED <<issued, noise>>

(* Messages of the ESP other than instructions; CMD_STATUS stands for      *)
(* every type the Pico does not expect.                                    *)
Answers ==
  {response(TRUE), response(FALSE), device_status, cmd_status(NoId, 0)}
    \cup {Msg("DATETIME", NoId, t) : t \in Times}

EspMessage(m) ==
  /\ Len(from_esp) < ArrivalCapacity
  /\ Arrive(m)
  /\ Noise

UserInput ==
  /\ \/ \E t \in Times : ConfigTime(t)
     \/ ConfigCoord
     \/ \E type \in {"WIFI", "SERVER", "API"} : ConfigSend(type)
     \/ ConfigTrace
  /\ Noise

Environment ==
  \/ \E id \in Ids, position \in Positions : EspInstruction(id, position)
  \/ \E id \in Ids, position \in Positions : UserInstruction(id, position)
  \/ EspTime
  \/ \E m \in Answers : EspMessage(m)
  \/ UserInput

PicoStep == (Loop \/ Hardware) /\ UNCHANGED <<issued, noise>>

Next == PicoStep \/ Environment

Spec == Init /\ [][Next]_allVars

(* The main loop never stops, a second of trace time that is being waited  *)
(* for runs out (every round takes time), moving axes reach their angle,   *)
(* calibrating axes their fork.  The user and the ESP owe nothing.         *)
Fairness ==
  /\ WF_allVars(Loop /\ UNCHANGED <<issued, noise>>)
  /\ SF_allVars((TraceTurn \/ TraceEnd) /\ UNCHANGED <<issued, noise>>)
  /\ WF_allVars(MotorsReach /\ UNCHANGED <<issued, noise>>)
  /\ \A axis \in Axes : WF_allVars(OptoIrq(axis) /\ UNCHANGED <<issued, noise>>)

FairSpec == Spec /\ Fairness

----------------------------------------------------------------------------
(* The Pico never works on two pictures at once: while the motors turn for *)
(* one command it does not wait for the picture of another (CHECK_QUEUES,  *)
(* controller.cpp:84-103, orders the flags; config mode and the ESP may    *)
(* replace the state between any two rounds).                              *)
OneCapture == ~(check_motor /\ waiting_for_camera)

(* As long as the Pico waits for a picture the camera stands still, on the *)
(* coordinates of the command it is for: nothing but MOTOR_OFF ends the    *)
(* wait, and no alarm, instruction, time update, stray answer or config    *)
(* session starts a calibration or another turn during it.                 *)
CameraOnTarget ==
  waiting_for_camera => aim = current_command /\ ~isRunning

Accepted(id) == Calculated \in told[id]
Waits(id) == {k \in 1 .. Len(commands) : commands[k].id = id}
Aiming(id) == check_motor /\ current_command = id
Discarded(id) == Accepted(id) /\ Impossible \in told[id]
Photographed(id) == Requested \in told[id]

(* No command is lost: once its time has been reported, a command waits in *)
(* the vector, or the motors turn for it, or it was reported as discarded, *)
(* or its picture was asked for.  A command leaves the vector in two       *)
(* places only, sanitize_commands (controller.cpp:168) and motor_control   *)
(* (722), and either may be followed by any message or config session.     *)
NotLost ==
  \A id \in Ids :
    Accepted(id) =>
      Waits(id) # {} \/ Aiming(id) \/ Discarded(id) \/ Photographed(id)

(* No command is served twice: it waits at most once, and not while the    *)
(* motors turn for it, nor after it was discarded or its picture asked for *)
(* (motor_control takes the first command of the vector whatever woke it,  *)
(* and also when an earlier alarm or a spurious calibration did).          *)
ServedOnce ==
  \A id \in Ids :
    Cardinality(Waits(id))
      + Cardinality({stage \in {"aiming", "discarded", "photographed"} :
          \/ stage = "aiming" /\ Aiming(id)
          \/ stage = "discarded" /\ Discarded(id)
          \/ stage = "photographed" /\ Photographed(id)}) <= 1

(* What is said of a command is what CommandLife allows, for a website that *)
(* hears nothing: one answer, then the request of its picture or the news  *)
(* that it was discarded, never both; and a picture is reported as failed  *)
(* only of a command it was asked for, hence never of the one that is late *)
(* (controller.cpp:165-168, 300-346, 713-722).                             *)
Life == INSTANCE CommandLife
          WITH reports <- [id \in Ids |-> told[id]],
               shown <- [id \in Ids |-> IF id \in issued THEN 1 ELSE 0]
KeepsPromise == Life!Spec

(* A trace ends, whatever instructions, alarms and config sessions come    *)
(* between its steps: unless the Pico waits for ever for a picture, which  *)
(* CHECK_QUEUES (controller.cpp:91-96) puts before the trace.              *)
TraceEnds == <>[]waiting_for_camera \/ (trace_started ~> ~trace_started)
=============================================================================
