-------------------------------- MODULE Dates --------------------------------
(***************************************************************************)
(* date_utils.cpp: arithmetic on datetime_t, as the planet finder uses it, *)
(* and the number of a day in planet_finder.cpp.  Seconds are left out:    *)
(* no operation here changes them.                                         *)
(***************************************************************************)
EXTENDS Integers

is_leap_year(year) == (year % 4 = 0 /\ year % 100 # 0) \/ year % 400 = 0

DaysIn(year, month) ==
  CASE month \in {1, 3, 5, 7, 8, 10, 12} -> 31
    [] month \in {4, 6, 9, 11} -> 30
    [] month = 2 -> IF is_leap_year(year) THEN 29 ELSE 28

(* The day goes back to one and the month stays.  An unknown month has no  *)
(* last day.                                                               *)
datetime_increment_day(d) ==
  [d EXCEPT !.day = IF d.month \in 1..12 /\ @ + 1 > DaysIn(d.year, d.month) THEN 1
                    ELSE @ + 1]

(* Mutant: the day starts an hour late.                                    *)
increment_hour_late(d) ==
  IF d.hour + 1 > 24 THEN datetime_increment_day([d EXCEPT !.hour = 0])
  ELSE [d EXCEPT !.hour = @ + 1]

datetime_increment_hour(d) ==
  IF d.hour + 1 >= 24 THEN datetime_increment_day([d EXCEPT !.hour = 0])
  ELSE [d EXCEPT !.hour = @ + 1]

datetime_increment_minute(d) ==
  IF d.min + 1 >= 60 THEN datetime_increment_hour([d EXCEPT !.min = 0])
  ELSE [d EXCEPT !.min = @ + 1]

increment_minutes(d, n) ==
  LET after[i \in 0..n] == IF i = 0 THEN d ELSE datetime_increment_minute(after[i - 1])
  IN after[n]

(* Division in C goes towards zero.                                        *)
Quotient(a, b) == IF a >= 0 THEN a \div b ELSE -((-a) \div b)

(* datetime_to_j2000_day, without the fraction that is the time of day.    *)
j2000_day(d) ==
  367 * d.year
    - Quotient(7 * (d.year + Quotient(d.month + 9, 12)), 4)
    - Quotient(3 * (Quotient(d.year + Quotient(d.month - 9, 7), 100) + 1), 4)
    + Quotient(275 * d.month, 9) + d.day - 730515

(* mktime (external): days since the last of 1999, by the calendar; a      *)
(* month 0 is December of the year before.                                 *)
LeapDays(year) == year \div 4 - year \div 100 + year \div 400
days_before(year) ==
  LET before[m \in 1..12] == IF m = 1 THEN 0 ELSE before[m - 1] + DaysIn(year, m - 1)
  IN before
day_number(d) ==
  LET year == IF d.month = 0 THEN d.year - 1 ELSE d.year
      month == IF d.month = 0 THEN 12 ELSE d.month
  IN 365 * (year - 2000) + LeapDays(year - 1) - LeapDays(1999) + days_before(year)[month]
       + d.day

datetime_to_minutes(d) == 1440 * day_number(d) + 60 * d.hour + d.min

(* calculate_sec_difference narrows the seconds to an int of 32 bits.  In   *)
(* units of four seconds, 15 to a minute: an int of 30 bits, computed in   *)
(* two halves of 15 bits that stay small.                                  *)
TwoTo15 == 32768
TwoTo30 == TwoTo15 * TwoTo15
narrowed_difference(minutes) ==
  LET high == (15 * ((minutes \div TwoTo15) % TwoTo15)) % TwoTo15
      fours == (high * TwoTo15 + 15 * (minutes % TwoTo15)) % TwoTo30
  IN IF fours < TwoTo30 \div 2 THEN fours ELSE fours - TwoTo30

(* An hour has 900 of these units.                                         *)
calculate_hour_difference(d1, d2) ==
  Quotient(narrowed_difference(datetime_to_minutes(d2) - datetime_to_minutes(d1)), 900)
=============================================================================
