--------------------------- MODULE CloudSchedule ---------------------------
(***************************************************************************)
(* The server's schedules (schedule.rs, manager.rs run_schedules), for one *)
(* broadcast.  Nothing about a due time is held in memory: every pass of   *)
(* the scheduler thread decides from the stored row and the clock.         *)
(*                                                                         *)
(* Instants are numbers; a day has DAY of them and day 0 is a Monday.  The *)
(* user starts, stops and edits between the steps of a pass, and the       *)
(* server may die between any two of them.                                 *)
(***************************************************************************)
EXTENDS Integers, FiniteSetsExt

CONSTANTS DAY,         \* length of a day; a quarter of it is six hours
          Rows,        \* the schedules the user may save
          MaxInstant,  \* bound: the clock
          MaxDeaths    \* bound: a server that never stops dying runs no schedule

ASSUME ScheduleAssumption ==
    /\ DAY \in Nat \ {0} /\ DAY % 4 = 0
    /\ Rows \subseteq [enabled : BOOLEAN, start : Int, stop : Int,
                       days : SUBSET (0..6), offset : Int]
    /\ MaxInstant \in Nat /\ MaxDeaths \in Nat

CATCH_UP == DAY \div 4
Never == -1
ByHand == -2    \* in playing: the user put it on air

VARIABLES
    row,       \* the stored schedule; stop = Never: no end; days = {}: once
    last_run,  \* sched_last_run_at, or Never
    wish,      \* desired_state
    instant,   \* the clock
    serving,   \* the server is up
    deaths,    \* how often it died
    todo,      \* where the scheduler's pass is, and the occurrence it acts on
    attempts,  \* history: how often each occurrence was acted on
    playing    \* history: the occurrence on air, ByHand, or Never when it is off

scheduleVars == <<row, last_run, wish, instant, serving, deaths, todo, attempts, playing>>

----------------------------------------------------------------------------
(* The pure part. *)

validate(s) ==
    s.enabled /\ s.stop # Never => s.stop > s.start

day_enabled(mask, day) == day % 7 \in mask

LocalDay(s, t) == (t + s.offset) \div DAY

(* The most recent occurrence at or before t, if there is one: today, then *)
(* backwards over eight local days.                                        *)
next_occurrence(s, t) ==
    IF s.days = {} THEN {s.start}
    ELSE LET At(back) == (LocalDay(s, t) - back) * DAY + ((s.start + s.offset) % DAY) - s.offset
             fits == {back \in 0..7 : /\ day_enabled(s.days, LocalDay(s, t) - back)
                                      /\ At(back) \in s.start..t}
         IN  IF fits = {} THEN {} ELSE {At(Min(fits))}

Nothing == [do |-> "nothing", occurrence |-> Never]

\* Mutant: what runs is never ended by the schedule.
mut_decide(s, ran, wanted, t) ==
    IF ~s.enabled THEN Nothing
    ELSE IF wanted = "Running" THEN Nothing
    ELSE LET due == {o \in next_occurrence(s, t) :
                        /\ ran < o /\ o <= t /\ t - o <= CATCH_UP
                        /\ s.stop # Never => t < o + (s.stop - s.start)}
         IN  IF due = {} THEN Nothing
             ELSE [do |-> "mark", occurrence |-> Min(due)]

decide(s, ran, wanted, t) ==
    IF ~s.enabled THEN Nothing
    ELSE IF wanted = "Running"
    THEN IF s.stop # Never /\ ran # Never /\ t >= ran + (s.stop - s.start)
         THEN [do |-> "stop", occurrence |-> ran]
         ELSE Nothing
    ELSE LET due == {o \in next_occurrence(s, t) :
                        /\ ran < o /\ o <= t /\ t - o <= CATCH_UP
                        /\ s.stop # Never => t < o + (s.stop - s.start)}
         IN  IF due = {} THEN Nothing
             ELSE [do |-> "mark", occurrence |-> Min(due)]

----------------------------------------------------------------------------
(* One pass: read every scheduled row and decide, mark the occurrence,     *)
(* start; or stop.  The row is not read again.                             *)

Pass(step) == serving /\ todo.do = step

scheduled_broadcasts ==
    /\ Pass("nothing")
    /\ todo' = decide(row, last_run, wish, instant)
    /\ UNCHANGED <<deaths, row, last_run, wish, instant, serving, attempts, playing>>

\* Mutant: the run is not marked, so that a failed start is tried again.
mut_mark_scheduled_run ==
    /\ Pass("mark")
    /\ todo' = [todo EXCEPT !.do = "start"]
    /\ attempts' = [attempts EXCEPT ![todo.occurrence] = @ + 1]
    /\ UNCHANGED <<deaths, row, last_run, wish, instant, serving, playing>>

(* Before the attempt, not after it. *)
mark_scheduled_run ==
    /\ Pass("mark")
    /\ last_run' = todo.occurrence
    /\ todo' = [todo EXCEPT !.do = "start"]
    /\ attempts' = [attempts EXCEPT ![todo.occurrence] = @ + 1]
    /\ UNCHANGED <<deaths, row, wish, instant, serving, playing>>

(* It may fail: no plan, no room, no playable video.  A failure is logged. *)
ScheduledStart ==
    /\ Pass("start")
    /\ todo' = Nothing
    /\ \/ /\ wish' = "Running"
          /\ playing' = IF wish = "Running" THEN playing ELSE todo.occurrence
       \/ wish = "Stopped" /\ UNCHANGED <<wish, playing>>
    /\ UNCHANGED <<deaths, row, last_run, instant, serving, attempts>>

ScheduledStop ==
    /\ Pass("stop")
    /\ todo' = Nothing
    /\ wish' = "Stopped" /\ playing' = Never
    /\ UNCHANGED <<deaths, row, last_run, instant, serving, attempts>>

----------------------------------------------------------------------------
UserStarts ==
    /\ serving /\ wish = "Stopped"
    /\ wish' = "Running" /\ playing' = ByHand
    /\ UNCHANGED <<deaths, row, last_run, instant, serving, todo, attempts>>

UserStops ==
    /\ serving /\ wish = "Running"
    /\ wish' = "Stopped" /\ playing' = Never
    /\ UNCHANGED <<deaths, row, last_run, instant, serving, todo, attempts>>

(* The schedule half of update_broadcast_owned.  last_run stays. *)
UserEdits(s) ==
    /\ serving /\ validate(s) /\ s # row
    /\ row' = s
    /\ playing' = IF playing = Never THEN Never ELSE ByHand
    /\ UNCHANGED <<deaths, last_run, wish, instant, serving, todo, attempts>>

ServerDies ==
    /\ serving /\ deaths < MaxDeaths
    /\ serving' = FALSE /\ todo' = Nothing /\ deaths' = deaths + 1
    /\ UNCHANGED <<row, last_run, wish, instant, attempts, playing>>

ServerBoots ==
    /\ ~serving
    /\ serving' = TRUE
    /\ UNCHANGED <<deaths, row, last_run, wish, instant, todo, attempts, playing>>

InstantPasses ==
    /\ instant < MaxInstant
    /\ instant' = instant + 1
    /\ UNCHANGED <<deaths, row, last_run, wish, serving, todo, attempts, playing>>

ScheduleInit ==
    /\ row \in {s \in Rows : validate(s)}
    /\ last_run = Never /\ wish = "Stopped" /\ instant = 0
    /\ serving = TRUE /\ deaths = 0 /\ todo = Nothing
    /\ attempts = [o \in 0..MaxInstant |-> 0]
    /\ playing = Never

PassNext == scheduled_broadcasts \/ mark_scheduled_run \/ ScheduledStart \/ ScheduledStop

ScheduleNext ==
    \/ PassNext \/ UserStarts \/ UserStops \/ (\E s \in Rows : UserEdits(s))
    \/ ServerDies \/ ServerBoots \/ InstantPasses

ScheduleSpec == ScheduleInit /\ [][ScheduleNext]_scheduleVars

----------------------------------------------------------------------------
(* The occurrences of a schedule, said without looking backwards: its      *)
(* start, or every later instant at the same clock time on a local day of  *)
(* the mask.                                                               *)
Occurs(s, o) ==
    IF s.days = {} THEN o = s.start
    ELSE o >= s.start /\ (o - s.start) % DAY = 0 /\ LocalDay(s, o) % 7 \in s.days

(* The scheduler starts exactly when an occurrence is open that has not    *)
(* been acted on: begun, no older than six hours, its window not over, and *)
(* the latest there is.  Days are the user's local ones, and a restarted   *)
(* server finds the same answer.                                           *)
DecisionIsExact ==
    LET Open(o) == /\ row.enabled /\ wish = "Stopped" /\ Occurs(row, o)
                   /\ last_run < o /\ instant - o \in 0..CATCH_UP
                   /\ row.stop # Never => instant < o + (row.stop - row.start)
                   /\ \A later \in (o + 1)..instant : ~Occurs(row, later)
        now == decide(row, last_run, wish, instant)
    IN  /\ now.do = "mark" => Open(now.occurrence)
        /\ now.do # "mark" => \A o \in 0..instant : ~Open(o)

(* "The same window cannot start twice - including after the server is     *)
(* restarted inside it": however the user stops, starts and edits, and     *)
(* wherever the server dies, an occurrence is attempted at most once.      *)
OccurrenceOnce == \A o \in 0..MaxInstant : attempts[o] <= 1

(* The scheduler starts every occurrence it should, and none twice. *)
OccurrencesAreServedOnce == DecisionIsExact /\ OccurrenceOnce

(* A window the schedule opened is over and the broadcast still wanted.    *)
Overdue ==
    /\ playing >= 0 /\ row.enabled /\ row.stop # Never
    /\ instant >= playing + (row.stop - row.start)

(* What a schedule with an end put on air comes off air once its window is *)
(* over, unless the user takes it over in the meantime.                    *)
WindowEnds == Overdue ~> ~Overdue

(* "Only the occurrence that is actually playing" is stopped by its end:   *)
(* a broadcast its user started by hand is not.                            *)
StopsOnlyItsOwn == [][ScheduledStop => playing # ByHand]_scheduleVars

============================================================================
