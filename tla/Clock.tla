------------------------------- MODULE Clock -------------------------------
(***************************************************************************)
(* The Pico's real-time clock and its single alarm                         *)
(* (pico/src/hardware/clock.cpp).  The alarm handler runs as an interrupt, *)
(* between any two steps of the main loop; the main loop arms the alarm,   *)
(* reads the flag the handler sets, and clears both.                       *)
(*                                                                         *)
(* Time is a number of seconds, at most MaxTime.  A whole datetime_t is    *)
(* one such number.                                                        *)
(***************************************************************************)
EXTENDS Integers

CONSTANT MaxTime   \* the last second of the modelled period (a bound)

ASSUME MaxTimeAssumption == MaxTime \in Nat

VARIABLES
  now,            \* what rtc_get_datetime returns
  synced,         \* Clock::synced
  alarm,          \* the second the RTC alarm is armed for, or NoAlarm
  alarm_wakeup    \* Clock::alarm_wakeup, set by the interrupt

clockVars == <<now, synced, alarm, alarm_wakeup>>

Times == 0 .. MaxTime
NoAlarm == -1

ClockTypeOK ==
  /\ now \in Times
  /\ synced \in BOOLEAN
  /\ alarm \in Times \cup {NoAlarm}
  /\ alarm_wakeup \in BOOLEAN

ClockInit ==
  /\ now = 0
  /\ synced = FALSE
  /\ alarm = NoAlarm
  /\ alarm_wakeup = FALSE

----------------------------------------------------------------------------
(* Operations of the main loop.                                            *)

(* update: the RTC takes the timestamp.  rtc_set_datetime leaves an armed  *)
(* alarm armed and the wakeup flag alone.                                  *)
ClockUpdate(t) ==
  /\ now' = t
  /\ synced' = TRUE
  /\ UNCHANGED <<alarm, alarm_wakeup>>

(* add_alarm: re-arms the only alarm, whatever it was armed for.           *)
AddAlarm(t) ==
  /\ alarm' = t
  /\ UNCHANGED <<now, synced, alarm_wakeup>>

ClearAlarm ==
  /\ alarm' = NoAlarm
  /\ alarm_wakeup' = FALSE
  /\ UNCHANGED <<now, synced>>

----------------------------------------------------------------------------
(* Steps of the hardware.                                                  *)

(* A second passes.  An alarm armed for the new second raises the          *)
(* interrupt, which disarms it (no datetime_t of this program repeats) and *)
(* runs alarm_handler.                                                     *)
Tick ==
  /\ now < MaxTime
  /\ now' = now + 1
  /\ IF alarm = now + 1
     THEN alarm' = NoAlarm /\ alarm_wakeup' = TRUE
     ELSE UNCHANGED <<alarm, alarm_wakeup>>
  /\ UNCHANGED synced

(* An alarm armed for the second that is already running, by add_alarm or  *)
(* because the clock was set onto it, may still match.                     *)
AlarmMatch ==
  /\ alarm = now
  /\ alarm' = NoAlarm
  /\ alarm_wakeup' = TRUE
  /\ UNCHANGED <<now, synced>>
=============================================================================
