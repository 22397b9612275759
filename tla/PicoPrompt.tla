----------------------------- MODULE PicoPrompt -----------------------------
(***************************************************************************)
(* The Pico at its best: a main loop whose steps take no time, an ESP that *)
(* only delivers the time and instructions for later pictures, and no      *)
(* user.  Seconds pass only while the loop sleeps until its alarm or the   *)
(* axes calibrate.                                                         *)
(***************************************************************************)
EXTENDS PicoAlone

Asleep == pc = "switch" /\ state = "SLEEP" /\ ~double_check /\ ~alarm_wakeup

PromptSecond == (Asleep \/ isCalibrating) /\ Second

PromptNext ==
  \/ Loop /\ UNCHANGED <<issued, noise>>
  \/ PromptSecond /\ UNCHANGED <<issued, noise>>
  \/ MotorsReach /\ UNCHANGED <<issued, noise>>
  \/ \E axis \in Axes : OptoIrq(axis) /\ UNCHANGED <<issued, noise>>
  \/ EspTime
  \/ \E id \in Ids : EspInstruction(id, Timed)

PromptSpec == Init /\ [][PromptNext]_allVars

----------------------------------------------------------------------------
(* A command is not discarded while the axes calibrate for it: a picture   *)
(* promised for the moment the object rises (README.md:169) is taken once  *)
(* the axes are ready.  The alarm rings at that moment, the calibration    *)
(* begins then (controller.cpp:140-142, 111), and sanitize_commands (165)  *)
(* runs before every step of the loop until the calibration is over.       *)
CalibrationInTime ==
  [][isCalibrating => \A id \in Ids : Discarded(id)' => Discarded(id)]_allVars
=============================================================================
