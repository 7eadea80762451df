---------------------------- MODULE StreamMachine ----------------------------
(***************************************************************************)
(* The broadcast state machine of crates/louver-core/src/streaming/        *)
(* state.rs, as operators on a record that carries its two fields `state'  *)
(* and `user_requested_stop'.  A transition that is not allowed leaves the *)
(* record as it was (the code returns a typed error and does not move).    *)
(***************************************************************************)

StreamState == {"Idle", "Preparing", "Connecting", "Live", "Reconnecting",
                "Stopping", "Stopped", "Error"}

\* An FFmpeg process should exist or is being (re)created.
Active == {"Preparing", "Connecting", "Live", "Reconnecting"}

\* The session has finished for good.
Terminal == {"Idle", "Stopped", "Error"}

allowed_next ==
    [s \in StreamState |->
        CASE s = "Idle"         -> {"Preparing"}
          [] s = "Preparing"    -> {"Connecting", "Stopping", "Error"}
          [] s = "Connecting"   -> {"Live", "Reconnecting", "Stopping", "Error"}
          [] s = "Live"         -> {"Reconnecting", "Stopping", "Error"}
          [] s = "Reconnecting" -> {"Connecting", "Live", "Stopping", "Error"}
          [] s = "Stopping"     -> {"Stopped", "Error"}
          [] s = "Stopped"      -> {"Preparing", "Idle"}
          [] OTHER              -> {"Preparing", "Idle"}]

can_transition_to(s, t) == s = t \/ t \in allowed_next[s]

\* Illegal moves change nothing; legal ones set the state.
transition(r, t) == IF can_transition_to(r.state, t) THEN [r EXCEPT !.state = t] ELSE r

request_user_stop(r) == [r EXCEPT !.user_requested_stop = TRUE]

\* A fresh session clears the stop latch; an active one refuses to begin.
begin(r) ==
    IF r.state \in Active THEN r
    ELSE transition([r EXCEPT !.user_requested_stop = FALSE], "Preparing")

\* FFmpeg exited.  After a user stop the machine only ever moves towards
\* Stopped; otherwise an exit is unexpected and asks for a reconnect.
on_process_exit(r, exit_ok) ==
    IF r.user_requested_stop
    THEN IF r.state = "Stopped" THEN r
         ELSE transition(transition(r, "Stopping"), "Stopped")
    ELSE IF exit_ok /\ r.state = "Stopping" THEN transition(r, "Stopped")
    ELSE transition(r, "Reconnecting")
=============================================================================
