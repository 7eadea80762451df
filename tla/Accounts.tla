------------------------------ MODULE Accounts -----------------------------
(***************************************************************************)
(* Who may call: sessions (auth.rs), switching an account off (admin.rs)   *)
(* and the counter in front of the password hash (throttle.rs).  Logging   *)
(* in checks the account and writes the session in two database calls;     *)
(* switching off updates the row, deletes the sessions and stops the       *)
(* broadcasts in three steps.  Anything may happen in between.             *)
(***************************************************************************)
EXTENDS Naturals, FiniteSets, Sequences

CONSTANTS Tokens,         \* session tokens, each issued once
          Callers,        \* addresses the throttle counts
          WINDOW, MAX_ATTEMPTS, MAX_TRACKED,
          MaxClock        \* bound: the throttle's clock

ASSUME AccountsAssumption ==
    WINDOW \in Nat /\ MAX_ATTEMPTS \in Nat /\ MAX_TRACKED \in Nat /\ MaxClock \in Nat

VARIABLES
    disabled,    \* users.disabled_at is set
    sessions,    \* auth_sessions rows that have not expired
    issued,      \* tokens ever given out
    logging,     \* login requests past the disabled check, token not stored yet
    disabling,   \* where an operator's set_disabled stands
    late,        \* tokens whose login was under way when the account was switched off
    clock,       \* time in front of the throttle
    seen,        \* Throttle::seen: hits kept per caller
    allowed      \* every attempt let through, per caller: history

accountVars == <<disabled, sessions, issued, logging, disabling, late, clock,
                 seen, allowed>>
sessionVars == <<disabled, sessions, issued, logging, disabling, late>>
throttleVars == <<clock, seen, allowed>>

----------------------------------------------------------------------------
(* Sessions. *)

(* register_user makes the account and its first session without a check   *)
(* on disabled_at: a fresh account has none.                               *)
LoginChecks(t) ==
    /\ t \notin issued
    /\ ~disabled
    /\ issued' = issued \cup {t}
    /\ logging' = logging \cup {t}
    /\ UNCHANGED <<disabled, sessions, disabling, late, throttleVars>>

create_auth_session(t) ==
    /\ t \in logging
    /\ sessions' = sessions \cup {t}
    /\ logging' = logging \ {t}
    /\ UNCHANGED <<disabled, issued, disabling, late, throttleVars>>

(* logout, or the thirty days are over. *)
SessionEnds(t) ==
    /\ t \in sessions
    /\ sessions' = sessions \ {t}
    /\ UNCHANGED <<disabled, issued, logging, disabling, late, throttleVars>>

user_for_token(t) == t \in sessions

set_disabled_row ==
    /\ disabling = "idle"
    /\ disabled' = TRUE
    /\ disabling' = "sessions"
    /\ late' = late \cup logging
    /\ UNCHANGED <<sessions, issued, logging, throttleVars>>

\* Mutant: the sessions that are open stay open.
mut_set_disabled_sessions ==
    /\ disabling = "sessions"
    /\ disabling' = "stop"
    /\ UNCHANGED <<disabled, sessions, issued, logging, late, throttleVars>>

set_disabled_sessions ==
    /\ disabling = "sessions"
    /\ sessions' = {}
    /\ disabling' = "stop"
    /\ UNCHANGED <<disabled, issued, logging, late, throttleVars>>

Enable ==
    /\ disabling = "idle"
    /\ disabled
    /\ disabled' = FALSE
    /\ UNCHANGED <<sessions, issued, logging, disabling, late, throttleVars>>

require_enabled == ~disabled

----------------------------------------------------------------------------
(* The throttle. *)

(* hits.retain: the instant is taken with the lock (the code reads it just *)
(* before), so a caller's hits are in the order of the clock and those     *)
(* that have left the window come first.                                   *)
Stale(hits) == {i \in DOMAIN hits : clock - hits[i] >= WINDOW}
Fresh(hits) == SubSeq(hits, Cardinality(Stale(hits)) + 1, Len(hits))

(* Past MAX_TRACKED callers, those without a fresh hit are forgotten. *)
Tracked ==
    IF Cardinality({c \in Callers : seen[c] # <<>>}) > MAX_TRACKED
    THEN [c \in Callers |-> IF Fresh(seen[c]) = <<>> THEN <<>> ELSE seen[c]]
    ELSE seen

(* check: drop what left the window, refuse at the limit, else count. *)
check(c) ==
    LET hits == Fresh(Tracked[c])
        ok == Len(hits) < MAX_ATTEMPTS
    IN  /\ seen' = [Tracked EXCEPT ![c] = IF ok THEN Append(hits, clock) ELSE hits]
        /\ allowed' = IF ok THEN [allowed EXCEPT ![c] = Append(@, clock)] ELSE allowed
        /\ UNCHANGED <<clock, sessionVars>>

TimePasses ==
    /\ clock < MaxClock
    /\ clock' = clock + 1
    /\ UNCHANGED <<seen, allowed, sessionVars>>

----------------------------------------------------------------------------
AccountsInit ==
    /\ disabled = FALSE /\ sessions = {} /\ issued = {} /\ logging = {}
    /\ disabling = "idle" /\ late = {} /\ clock = 0
    /\ seen = [c \in Callers |-> <<>>]
    /\ allowed = [c \in Callers |-> <<>>]

SessionNext ==
    \/ \E t \in Tokens : LoginChecks(t) \/ create_auth_session(t) \/ SessionEnds(t)
    \/ set_disabled_row \/ set_disabled_sessions \/ Enable

ThrottleNext == TimePasses \/ \E c \in Callers : check(c)

----------------------------------------------------------------------------
(* A switched-off account has no session left once set_disabled has run,   *)
(* save one whose login had already passed the disabled check: "a cookie   *)
(* issued an hour ago would otherwise keep working until it expired".      *)
DisabledIsSignedOut ==
    disabled /\ disabling # "sessions" => sessions \subseteq late

(* No caller gets more than MAX_ATTEMPTS attempts past the throttle within *)
(* any span of WINDOW, whatever was pruned or forgotten in between.        *)
NoBurst ==
    \A c \in Callers : \A i \in DOMAIN allowed[c] :
        Cardinality({j \in DOMAIN allowed[c] :
            allowed[c][j] <= allowed[c][i] /\ allowed[c][i] - allowed[c][j] < WINDOW})
        <= MAX_ATTEMPTS

(* Neither a cookie from before nor a burst of attempts gets past sign-in. *)
SignInIsGuarded == DisabledIsSignedOut /\ NoBurst

============================================================================
