---------------------------- MODULE PlanetFinder ----------------------------
(***************************************************************************)
(* Celestial of planet_finder.cpp: the search for the time a body rises,   *)
(* stands highest and sets, for an instruction or for a trace, and the     *)
(* hourly points of a trace.  Where a body stands is a function of the     *)
(* number of the day and the time of day (get_coordinates); only its       *)
(* altitude matters here.                                                  *)
(***************************************************************************)
EXTENDS Dates, Sequences, FiniteSets

CONSTANTS
  Starts,          \* what the clock may read when a search begins
  Bodies,          \* [period, phase, horizon]: the altitude is a triangle wave
  Sample,          \* minutes between two samples, 10 in the code
  MaxRounds,       \* rounds of a search, 48 * 6 in the code
  MaxRefinements,  \* minutes of a refinement, 120 in the code
  MaxPoints        \* bound: points of a trace that are followed

(* The dates of the calendar from the year 1.                              *)
CalendarDates ==
  {d \in [year : Nat \ {0}, month : 1..12, day : 1..31, hour : 0..23, min : 0..59] :
     d.day <= DaysIn(d.year, d.month)}

(* The clock is set from the time of the server by the calendar            *)
(* (clock.cpp:35-55).                                                      *)
ASSUME ClockAssumption == Starts \subseteq CalendarDates

(* A body is never as high as it was a minute ago.                         *)
ASSUME PathAssumption ==
  \A b \in Bodies : /\ b.period \in Nat \ {0} /\ b.period % 2 = 0
                    /\ b.phase \in Int /\ b.horizon \in Int

(* A refinement goes over the two samples it starts with, and a search is  *)
(* shorter than any month, 28 days at least.                               *)
ASSUME RoundsAssumption ==
  /\ MaxRounds \in Nat /\ MaxRefinements \in Nat
  /\ Sample \in Nat \ {0} /\ 2 * Sample <= MaxRefinements
  /\ (MaxRounds + 2) * Sample + MaxRefinements < 40320
  /\ MaxPoints \in Nat /\ 60 * MaxPoints <= 40320

VARIABLES
  body,            \* the planet and where it is seen from
  goal,            \* "instruction", "trace_start", "trace_stop"
  search,          \* where get_interesting_commands is
  start_date,
  dates,           \* last_date, current_date, next_date
  altitudes,       \* last, current, next
  rounds,          \* i
  found,           \* result: ABOVE, ZENITH, BELOW
  iter_dates, iter_altitudes, refinements, \* iter_..., j
  trace_date, trace_hours,
  points           \* what next_trace has returned (history)

iterVars == <<iter_dates, iter_altitudes, refinements>>
traceVars == <<trace_date, trace_hours, points>>
skyVars == <<body, goal, search, start_date, dates, altitudes, rounds, found, iterVars,
             traceVars>>

ABOVE == 1
ZENITH == 2
BELOW == 3
NoDate == [year |-> -1, month |-> 0, day |-> 0, hour |-> 0, min |-> 0]
NotFound == [id |-> 0, altitude |-> 0, time |-> NoDate]
Command(altitude, date) == [id |-> 1, altitude |-> altitude, time |-> date]

(* External: an altitude that rises and sinks by one each minute, once in  *)
(* a period, and is below zero half of that time or, by the horizon, more  *)
(* or less of it.                                                          *)
Altitude(minute) ==
  LET t == (minute - body.phase) % body.period
  IN (IF 2 * t <= body.period THEN 2 * t ELSE 2 * (body.period - t)) - body.horizon

get_coordinates(d) == Altitude(1440 * j2000_day(d) + 60 * d.hour + d.min)
Coordinates(ds) == [i \in DOMAIN ds |-> get_coordinates(ds[i])]

SkyInit ==
  /\ body \in Bodies
  /\ goal = "none" /\ search = "idle"
  /\ start_date \in Starts
  /\ dates = <<>> /\ altitudes = <<>> /\ rounds = 0
  /\ found = <<NotFound, NotFound, NotFound>>
  /\ iter_dates = <<>> /\ iter_altitudes = <<>> /\ refinements = 0
  /\ trace_date = NoDate /\ trace_hours = 0 /\ points = <<>>

----------------------------------------------------------------------------
check_for_above_horizon(current) == current > 0
check_for_rising(current, next) == current > 0 /\ current - next < 0
check_for_falling(current, next) == current > 0 /\ next < 0
check_for_zenith(as) == as[1] < as[2] /\ as[3] < as[2]

Spaced(d, minutes) ==
  <<d, increment_minutes(d, minutes), increment_minutes(d, 2 * minutes)>>

StartSearch(purpose, date) ==
  /\ goal' = purpose
  /\ search' = "sample"
  /\ start_date' = date
  /\ dates' = Spaced(date, Sample)
  /\ altitudes' = Coordinates(dates')
  /\ rounds' = 0
  /\ found' = <<NotFound, NotFound, NotFound>>
  /\ UNCHANGED <<body, iterVars>>

(* The end of a round, and of the search.                                  *)
NextRound(result) ==
  LET next_date == increment_minutes(dates[3], Sample)
  IN /\ dates' = <<increment_minutes(dates[1], Sample), increment_minutes(dates[2], Sample),
                   next_date>>
     /\ altitudes' = <<altitudes[2], altitudes[3], get_coordinates(next_date)>>
     /\ rounds' = rounds + 1
     /\ found' = result
     /\ search' = IF (\A k \in 1..3 : result[k].id # 0) \/ rounds + 1 > MaxRounds
                    THEN "done" ELSE "sample"
     /\ UNCHANGED <<body, goal, start_date, traceVars>>

Rising == check_for_above_horizon(altitudes[2])
          /\ check_for_rising(altitudes[2], altitudes[3]) /\ found[ABOVE].id = 0
Highest == ~Rising /\ check_for_above_horizon(altitudes[2])
           /\ check_for_zenith(altitudes) /\ found[ZENITH].id = 0
Falling == ~Rising /\ ~Highest /\ check_for_above_horizon(altitudes[2])
           /\ check_for_falling(altitudes[2], altitudes[3]) /\ found[BELOW].id = 0

Sampled ==
  /\ search = "sample" /\ ~Highest
  /\ LET here == Command(altitudes[2], dates[2])
     IN NextRound(CASE Rising -> [found EXCEPT ![ABOVE] = here]
                    [] Falling -> [found EXCEPT ![BELOW] = here]
                    [] OTHER -> found)
  /\ UNCHANGED iterVars

(* The highest point, to the minute.                                       *)
StartRefinement ==
  /\ search = "sample" /\ Highest
  /\ search' = "refine"
  /\ iter_dates' = Spaced(dates[1], 1)
  /\ iter_altitudes' = [i \in 1..3 |-> IF i = 1 THEN altitudes[1]
                                       ELSE get_coordinates(iter_dates'[i])]
  /\ refinements' = 0
  /\ UNCHANGED <<body, goal, start_date, dates, altitudes, rounds, found, traceVars>>

(* Mutant: the last date and altitude are left behind.                     *)
RefineLeavesLast ==
  /\ search = "refine"
  /\ ~check_for_zenith(iter_altitudes) /\ refinements < MaxRefinements
  /\ LET next_date == datetime_increment_minute(iter_dates[3])
     IN /\ iter_dates' = <<iter_dates[1], iter_dates[3], next_date>>
        /\ iter_altitudes' = <<iter_altitudes[2], iter_altitudes[3], get_coordinates(iter_dates[3])>>
  /\ refinements' = refinements + 1
  /\ UNCHANGED <<body, goal, search, start_date, dates, altitudes, rounds, found, traceVars>>

Refine ==
  /\ search = "refine"
  /\ ~check_for_zenith(iter_altitudes) /\ refinements < MaxRefinements
  /\ iter_dates' = [i \in 1..3 |-> datetime_increment_minute(iter_dates[i])]
  /\ iter_altitudes' = <<iter_altitudes[2], iter_altitudes[3],
                         get_coordinates(iter_dates'[3])>>
  /\ refinements' = refinements + 1
  /\ UNCHANGED <<body, goal, search, start_date, dates, altitudes, rounds, found, traceVars>>

Refined ==
  /\ search = "refine"
  /\ check_for_zenith(iter_altitudes) \/ refinements >= MaxRefinements
  /\ NextRound([found EXCEPT ![ZENITH] = Command(iter_altitudes[2], iter_dates[2])])
  /\ iter_dates' = <<>> /\ iter_altitudes' = <<>> /\ refinements' = 0

----------------------------------------------------------------------------
(* Controller: instructions and traces.                                    *)

Instruction ==
  /\ search = "idle"
  /\ StartSearch("instruction", start_date)
  /\ UNCHANGED traceVars

TraceStart ==
  /\ search = "idle"
  /\ StartSearch("trace_start", start_date)
  /\ UNCHANGED traceVars

(* The body sets after it has risen.  A body that was not found to rise    *)
(* leaves the year -1, and the search for its setting starts there.        *)
TraceStop ==
  /\ search = "done" /\ goal = "trace_start"
  /\ StartSearch("trace_stop", found[ABOVE].time)
  /\ UNCHANGED traceVars

(* start_trace, if the hours between are positive.  A body that was not    *)
(* found to set sets in the year -1.                                       *)
start_trace ==
  /\ search = "done" /\ goal = "trace_stop"
  /\ LET hours == calculate_hour_difference(start_date, found[BELOW].time)
     IN IF hours <= 0
          THEN search' = "ended" /\ UNCHANGED <<trace_date, trace_hours>>
          ELSE search' = "tracing" /\ trace_date' = start_date /\ trace_hours' = hours
  /\ UNCHANGED <<body, goal, start_date, dates, altitudes, rounds, found, iterVars, points>>

(* A point of the year -1 ends the trace too: the controller takes it for  *)
(* the answer that there are no more.                                      *)
next_trace ==
  /\ search = "tracing" /\ Len(points) < MaxPoints
  /\ IF trace_hours <= 0 \/ trace_date.year = -1
       THEN search' = "ended" /\ UNCHANGED points
       ELSE /\ points' = Append(points, Command(get_coordinates(trace_date), trace_date))
            /\ UNCHANGED search
  /\ IF trace_hours <= 0
       THEN UNCHANGED <<trace_date, trace_hours>>
       ELSE /\ trace_date' = datetime_increment_hour(trace_date)
            /\ trace_hours' = trace_hours - 1
  /\ UNCHANGED <<body, goal, start_date, dates, altitudes, rounds, found, iterVars>>

SkyNext ==
  \/ Instruction \/ TraceStart \/ TraceStop
  \/ Sampled \/ StartRefinement \/ Refine \/ Refined
  \/ start_trace \/ next_trace

----------------------------------------------------------------------------
SkyTypeOK ==
  /\ search \in {"idle", "sample", "refine", "done", "tracing", "ended"}
  /\ rounds \in 0..MaxRounds + 1 /\ refinements \in 0..MaxRefinements
  /\ \A k \in 1..3 : found[k].id \in {0, 1}

IsDate(d) == d.month \in 1..12 /\ d.day \in 1..DaysIn(d.year, d.month)
             /\ d.hour \in 0..23 /\ d.min \in 0..59

SearchTime == (MaxRounds + 2) * Sample + MaxRefinements

(* Minutes from one date to a later one, or, when the month has ended in   *)
(* between, to the same day and time of the month that has ended.          *)
Elapsed(from, to) ==
  LET minutes == datetime_to_minutes(to) - datetime_to_minutes(from)
  IN IF minutes >= 0 THEN minutes ELSE minutes + 1440 * DaysIn(from.year, from.month)

(* The time found for a body is a date of the calendar after the search's  *)
(* start and at most two days and two hours after it, or, at the end of a  *)
(* month, that time in the month that has ended; the coordinates are those *)
(* of that time by the calendar.  A trace is no longer than that either,   *)
(* unless the body was not found to set, and so ends in the year -1: the   *)
(* difference is then narrowed to an int, and may be years.  Its point     *)
(* with number n is n - 1 hours after its start (planet_finder.cpp:302-418,*)
(* date_utils.cpp:46 and 139).                                             *)
FoundDates ==
  IsDate(start_date) =>
    /\ \A k \in 1..3 :
         found[k].id = 1 =>
           /\ IsDate(found[k].time)
           /\ Elapsed(start_date, found[k].time) \in 1..SearchTime
           /\ found[k].altitude = Altitude(datetime_to_minutes(found[k].time))
    /\ found[BELOW].id = 1 => 60 * trace_hours <= SearchTime
    /\ \A n \in DOMAIN points :
         /\ IsDate(points[n].time)
         /\ Elapsed(start_date, points[n].time) = 60 * (n - 1)
         /\ points[n].altitude = Altitude(datetime_to_minutes(points[n].time))

(* The zenith is found to the minute: a minute earlier and a minute later  *)
(* the body stands lower, across midnight too (planet_finder.cpp:332-353), *)
(* unless the search jumps back to the start of the month, then or before. *)
ZenithIsTop ==
  found[ZENITH].id = 1 /\ IsDate(start_date) =>
    LET top == datetime_to_minutes(found[ZENITH].time)
    IN \/ Altitude(top - 1) < Altitude(top) /\ Altitude(top + 1) < Altitude(top)
       \/ top < datetime_to_minutes(start_date)
       \/ datetime_to_minutes(datetime_increment_minute(found[ZENITH].time)) < top
=============================================================================
