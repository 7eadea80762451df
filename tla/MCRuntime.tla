------------------------------ MODULE MCRuntime ------------------------------
(***************************************************************************)
(* BroadcastRuntime for TLC: two evening windows that overlap, both of     *)
(* which cross midnight and the earlier of which is saved switched off,    *)
(* and two process identifiers.  A behaviour is about edited schedules, or *)
(* about local tests and the death of the application.                     *)
(***************************************************************************)
EXTENDS BroadcastRuntime, TLC

CONSTANTS p1, p2

VARIABLE about

EveryDay == 0..6

\* 3 -> 1 past midnight, and 2 -> 0: both are open in the last quarter of a day.
Night == [schedule_id |-> 1, days |-> EveryDay, start |-> 3, end |-> 1, enabled |-> TRUE]
Dusk  == [schedule_id |-> 2, days |-> EveryDay, start |-> 2, end |-> 0, enabled |-> TRUE]

MCPids == {p1, p2}
OnePid == {p1}
OneWindow == {Night}
TwoWindows == {Night, [Dusk EXCEPT !.enabled = FALSE]}
Symmetry == Permutations(MCPids)

AboutOneThing ==
    \/ about = "windows" /\ (up => up') /\ ~rt'.dry_run
    \/ about = "deaths" /\ schedules' = schedules /\ now' < EndTime

RuntimeInit == Init /\ about \in {"windows", "deaths"}

RuntimeSpec ==
    RuntimeInit /\ [][Next /\ AboutOneThing /\ UNCHANGED about]_<<vars, about>>

ServedInit == Init /\ about = "windows"

FairRuntimeSpec ==
    ServedInit /\ [][Next /\ UNCHANGED about]_<<vars, about>> /\ Fairness
=============================================================================
