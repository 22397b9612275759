---------------------------- MODULE MotorControl ----------------------------
(***************************************************************************)
(* The two stepper motors that aim the camera and their calibration        *)
(* against the opto forks (pico/src/devices/motor-control.cpp).  The opto  *)
(* forks raise an interrupt that runs calibration_handler between any two  *)
(* steps of the main loop.                                                 *)
(*                                                                         *)
(* An angle is abstracted to the command whose coordinates the axes were   *)
(* turned to, and the motion of both motors to one flag.                   *)
(***************************************************************************)
EXTENDS Protocol

CONSTANT CalTicks   \* the least number of whole seconds a calibration lasts

ASSUME MotorAssumption == CalTicks \in Nat

VARIABLES
  calibrated,   \* axes whose *_calibrated flag is set
  calibrating,  \* axes whose *_calibrating flag is set
  turning,      \* the motors are running towards an angle
  aim,          \* the command whose coordinates the axes were last turned to
  cal_left      \* seconds before an opto fork can be reached

motorVars == <<calibrated, calibrating, turning, aim, cal_left>>

Axes == {"HORIZONTAL", "VERTICAL"}

MotorTypeOK ==
  /\ calibrated \in SUBSET Axes
  /\ calibrating \in SUBSET Axes
  /\ turning \in BOOLEAN
  /\ aim \in Ids \cup {NoId}
  /\ cal_left \in 0 .. CalTicks

MotorInit ==
  /\ calibrated = {}
  /\ calibrating = {}
  /\ turning = FALSE
  /\ aim = NoId
  /\ cal_left = 0

isCalibrated == calibrated = Axes
isCalibrating == calibrating # {}
isRunning == turning \/ isCalibrating

----------------------------------------------------------------------------
(* calibrate returns at once while a calibration is under way.  Otherwise  *)
(* it stops the motors, backs both axes off the forks, drops the flags and *)
(* starts turning towards the forks.                                       *)
Calibrate ==
  IF isCalibrating
  THEN UNCHANGED motorVars
  ELSE /\ calibrated' = {}
       /\ calibrating' = Axes
       /\ turning' = FALSE
       /\ aim' = NoId
       /\ cal_left' = CalTicks

(* turn_to_coordinates, for coordinates above the horizon.                 *)
TurnTo(id) ==
  /\ turning' = TRUE
  /\ aim' = id
  /\ UNCHANGED <<calibrated, calibrating, cal_left>>

(* off forgets the calibration and leaves *_calibrating alone; the PIO     *)
(* program goes on with the steps it has left.                             *)
Off ==
  /\ calibrated' = {}
  /\ UNCHANGED <<calibrating, turning, aim, cal_left>>

----------------------------------------------------------------------------
(* Steps of the hardware.                                                  *)

(* The falling edge of one fork: calibration_handler stops that motor.     *)
(* The edge comes from entering the fork, so only a calibrating axis meets *)
(* it: an axis that turns to coordinates moves away from its fork.         *)
Opto(axis) ==
  /\ axis \in calibrating
  /\ cal_left = 0
  /\ ~isCalibrated
  /\ calibrated' = calibrated \cup {axis}
  /\ calibrating' = calibrating \ {axis}
  /\ UNCHANGED <<turning, aim, cal_left>>

(* The motors reach the angle: the state machines wait at their pull.      *)
TurnDone ==
  /\ turning
  /\ turning' = FALSE
  /\ UNCHANGED <<calibrated, calibrating, aim, cal_left>>

=============================================================================
