------------------------------ MODULE Scheduler ------------------------------
(***************************************************************************)
(* The pure scheduling rules of crates/louver-core/src/scheduler/mod.rs.   *)
(*                                                                         *)
(* A schedule is a wall-clock window with a day-of-week mask; when its end *)
(* is at or before its start the window runs past midnight and belongs to  *)
(* the day it STARTS on.  Local time is counted in ticks: DayLen ticks     *)
(* make a day, day 0 is a Monday, and day 0 has no yesterday, which is     *)
(* where chrono's pred_opt() gives None.                                   *)
(***************************************************************************)
EXTENDS Integers

CONSTANT DayLen             \* ticks in a day (the code's 24 hours)

ASSUME DayLenAssumption == DayLen \in Nat \ {0}

Clock == 0 .. (DayLen - 1)  \* times of day

\* database::models::Schedule.  The playlist is a function of the schedule
\* and is left out; days is the set of weekday indices the mask selects.
Schedule == [schedule_id : Nat, days : SUBSET (0..6), start : Clock,
             end : Clock, enabled : BOOLEAN]

\* validate(): a schedule that can be saved names a day and is not empty.
Valid(s) == s.days # {} /\ s.start # s.end

Day(t)     == t \div DayLen
Weekday(d) == d % 7

\* One concrete run of a schedule, in absolute local time.
Occurrence == {o \in [schedule_id : Nat, start : Nat, end : Nat] : o.start < o.end}

\* Option::None of an occurrence: a window that contains no instant.
NoOcc == [schedule_id |-> 0, start |-> 0, end |-> 0]

Contains(o, t) == o.start <= t /\ t < o.end

crosses_midnight(start, end) == end <= start

\* The occurrence that starts on day d; the mask is checked by the callers'
\* selection of days (DaysSelected).
occurrence_starting_on(s, d) ==
    [schedule_id |-> s.schedule_id,
     start |-> d * DayLen + s.start,
     end   |-> (IF crosses_midnight(s.start, s.end) THEN d + 1 ELSE d) * DayLen + s.end]

\* The days of D on which the schedule's mask lets a window start.
DaysSelected(s, D) == {d \in D : Weekday(d) \in s.days}

\* Mutant: today's window only, the one that began yesterday evening is forgotten.
mut_active_occurrences(s, now) ==
    IF ~s.enabled \/ Day(now) = 0 THEN {}
    ELSE {o \in {occurrence_starting_on(s, d) : d \in DaysSelected(s, {Day(now)})} :
            Contains(o, now)}

\* The occurrences of s that cover now: yesterday's is considered as well,
\* because at 01:00 the running window may have begun the evening before.
active_occurrences(s, now) ==
    IF ~s.enabled \/ Day(now) = 0 THEN {}
    ELSE {o \in {occurrence_starting_on(s, d) :
                    d \in DaysSelected(s, {Day(now) - 1, Day(now)})} : Contains(o, now)}

\* find() takes the first in the order yesterday, today.
active_occurrence(s, now) ==
    LET A == active_occurrences(s, now)
    IN  IF A = {} THEN NoOcc
        ELSE CHOOSE o \in A : \A p \in A : o.start <= p.start

SearchDays == 15            \* next_occurrence looks this many days ahead

\* The first occurrence that begins strictly after now, in two weeks.
next_occurrence(s, now) ==
    LET A == IF s.enabled
             THEN {o \in {occurrence_starting_on(s, d) :
                             d \in DaysSelected(s, Day(now) .. Day(now) + SearchDays - 1)} :
                     o.start > now}
             ELSE {}
    IN  IF A = {} THEN NoOcc
        ELSE CHOOSE o \in A : \A p \in A : o.start <= p.start

\* min_by_key(start) over schedules listed by id: the first of the minima.
Earliest(S) ==
    LET First == {o \in S : \A p \in S : o.start <= p.start}
    IN  CHOOSE o \in First : \A p \in First : o.schedule_id <= p.schedule_id

\* Every window that is open now, whichever schedule it comes from.
OpenWindows(schedules, now) ==
    {active_occurrence(s, now) : s \in schedules} \ {NoOcc}

\* Scheduler::evaluate: the running window is kept while it is open, else the
\* earliest open window; with none open, a running broadcast should stop.
evaluate(schedules, running, now) ==
    LET open == OpenWindows(schedules, now)
    IN  CASE Contains(running, now) -> [kind |-> "ShouldBroadcast", occ |-> running]
          [] ~Contains(running, now) /\ open # {} ->
                [kind |-> "ShouldBroadcast", occ |-> Earliest(open)]
          [] ~Contains(running, now) /\ open = {} /\ running # NoOcc ->
                [kind |-> "ShouldStop", occ |-> running]
          [] OTHER -> [kind |-> "Idle", occ |-> NoOcc]

\* Scheduler::recover_on_startup: the open window a launch falls into.
recover_window(schedules, now) ==
    LET d == evaluate(schedules, NoOcc, now)
    IN  IF d.kind = "ShouldBroadcast" THEN d.occ ELSE NoOcc

\* The length of a window, which the schedule list shows.
window_duration(start, end) ==
    IF crosses_midnight(start, end) THEN DayLen - start + end ELSE end - start
=============================================================================
