---------------------------- MODULE ScheduleClock ----------------------------
(***************************************************************************)
(* The scheduling rules of Scheduler, driven by a clock.  The module walks *)
(* through every time of a week and a day, for every small table of        *)
(* schedules, asks evaluate() what to do and does it at once, as a loop    *)
(* with no failures would, and compares the answers with definitions that  *)
(* know nothing of days before and after midnight: a schedule covers an    *)
(* instant when one of its starts lies less than a window's length before. *)
(***************************************************************************)
EXTENDS Scheduler

CONSTANTS
    Table,      \* the schedules a user may save
    Slots,      \* how many of them are saved at once
    EndTime     \* the last instant of the walk

ASSUME ClockAssumption ==
    /\ Table \subseteq {s \in Schedule : Valid(s)}
    /\ Slots \in Nat /\ EndTime \in Nat

VARIABLES now, saved, running

vars == <<now, saved, running>>

\* Tables of one to Slots schedules, of different ids.
Tables == UNION {{{f[i] : i \in 1..n} : f \in {g \in [1..n -> Table] :
                    \A i, j \in 1..n : i < j => g[i].schedule_id < g[j].schedule_id}} :
                 n \in 1..Slots}

Decide(sch, run, t) ==
    LET d == evaluate(sch, run, t)
    IN  IF d.kind = "ShouldBroadcast" THEN d.occ ELSE NoOcc

Init ==
    /\ now = DayLen             \* a day that has a yesterday
    /\ saved \in Tables
    /\ running = recover_window(saved, now)

\* The clock moves on and the loop asks what to do.
Advance ==
    /\ now < EndTime
    /\ now' = now + 1
    /\ running' = Decide(saved, running, now')
    /\ UNCHANGED saved

\* A schedule is switched on or off.
Toggle(s) ==
    /\ saved' = (saved \ {s}) \cup {[s EXCEPT !.enabled = ~@]}
    /\ running' = Decide(saved', running, now)
    /\ UNCHANGED now

Next == Advance \/ \E s \in saved : Toggle(s)

Spec == Init /\ [][Next]_vars

-----------------------------------------------------------------------------
(* Reference definitions and properties *)

\* t is an instant at which a window of s begins.
IsStart(s, t) == t >= 0 /\ t % DayLen = s.start /\ (t \div DayLen) % 7 \in s.days

\* The windows of s that are open at t, found by walking back from t.
WindowsAt(s, t) ==
    LET length == window_duration(s.start, s.end)
        Back   == {k \in 0 .. (length - 1) : s.enabled /\ IsStart(s, t - k)}
    IN  {[schedule_id |-> s.schedule_id, start |-> t - k, end |-> t - k + length] : k \in Back}

\* active_occurrence() finds exactly the open window, with the right start and
\* end, on both sides of midnight and of the week; there is never a second.
OpenWindowIsExact ==
    \A s \in saved : active_occurrences(s, now) = WindowsAt(s, now)
                     /\ \A o, p \in WindowsAt(s, now) : o = p

\* next_occurrence() names the very next start: it is one, none lies between,
\* and an enabled schedule always has one within the search horizon.
NextStartIsExact ==
    \A s \in saved :
        LET n == next_occurrence(s, now)
        IN  IF s.enabled
            THEN /\ n.start > now /\ IsStart(s, n.start)
                 /\ \A t \in (now + 1) .. (n.start - 1) : ~IsStart(s, t)
            ELSE n = NoOcc

\* Following evaluate(), something is on the air at every instant some schedule
\* covers, and nothing is at an instant that none covers, except the rest of a
\* window that was open when its schedule was switched off.
CoveredMeansOnAir ==
    LET covered == \E s \in saved : WindowsAt(s, now) # {}
    IN  /\ covered => Contains(running, now)
        /\ running # NoOcc => Contains(running, now)
        /\ running # NoOcc /\ ~covered
           => \E s \in saved : ~s.enabled /\ s.schedule_id = running.schedule_id

\* Whatever was saved and edited, evaluate()'s two answers are exact and
\* following them serves every window and nothing else.
ScheduleAnswersAreExact == OpenWindowIsExact /\ NextStartIsExact /\ CoveredMeansOnAir
=============================================================================
