------------------------------ MODULE MCRunner -----------------------------
(***************************************************************************)
(* Runner and CloudSchedule for TLC.  A behaviour is about one of the two: *)
(* commands between the API and the process that owns the workers, or the  *)
(* schedule that process keeps.                                            *)
(***************************************************************************)
EXTENDS Runner, CloudSchedule

VARIABLE about

runVars == <<runnerVars, scheduleVars, about>>

MCRoleOf == [p \in Owners |-> IF p = "p1" THEN "Runner" ELSE "All"]

(* Monday's and Tuesday's shows and a single one, nine time zones east of  *)
(* the clock; with an end, without one, and longer than a day.             *)
Row(start, stop, days) ==
    [enabled |-> TRUE, start |-> start, stop |-> stop, days |-> days, offset |-> 3]
MCRows == {Row(1, 3, {0, 1}), Row(2, 3, {}), Row(2, Never, {0, 6}), Row(0, 5, 0..6),
           [Row(1, 3, {0}) EXCEPT !.enabled = FALSE]}

RunInit == about \in {"split", "schedule"} /\ RunnerInit /\ ScheduleInit
           /\ (about = "split" => row = Row(2, 3, {}))

RunNext ==
    \/ about = "split" /\ RunnerNext /\ UNCHANGED <<scheduleVars, about>>
    \/ about = "schedule" /\ ScheduleNext /\ UNCHANGED <<runnerVars, about>>

(* The scheduler is a loop of its own thread, and the service manager      *)
(* restarts the server.                                                    *)
ScheduleFairness ==
    /\ WF_scheduleVars(PassNext)
    /\ WF_scheduleVars(ServerBoots)

RunSpec == RunInit /\ [][RunNext]_runVars /\ RunnerFairness /\ ScheduleFairness
============================================================================
