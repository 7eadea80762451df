--------------------------- MODULE MCDesktop ---------------------------
(***************************************************************************)
(* The desktop's schedules and its library, for TLC.  A behaviour is about *)
(* one of them; the other stays as it begins.                              *)
(*                                                                         *)
(* Schedules: days of four ticks, every window of such a day (half of them *)
(* cross midnight) on masks of one, two and seven days.                    *)
(***************************************************************************)
EXTENDS ScheduleClock, DesktopLibrary

VARIABLE about

Masks == {{0}, {6}, {2, 6}, 0..6}

MCTable == {s \in [schedule_id : {1, 2}, days : Masks, start : Clock, end : Clock,
                   enabled : {TRUE}] : Valid(s)}

DesktopInit ==
    /\ Init /\ LibraryInit
    /\ about \in {"schedules", "library"}
    /\ about # "schedules" => saved = CHOOSE t \in Tables : TRUE

DesktopNext ==
    /\ UNCHANGED about
    /\ IF about = "schedules" THEN Next ELSE UNCHANGED vars
    /\ IF about = "library" THEN LibraryNext ELSE UNCHANGED libraryVars

DesktopSpec ==
    /\ DesktopInit
    /\ [][DesktopNext]_<<about, vars, libraryVars>>
    /\ LibraryFairness
=============================================================================
