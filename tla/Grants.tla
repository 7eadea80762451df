------------------------------- MODULE Grants ------------------------------
(***************************************************************************)
(* The plans an operator hands out: grants.rs, for one account.  A grant   *)
(* is a row with a plan and two instants; its state is worked out from     *)
(* them and the clock every time it is asked for.  An extension or a plan  *)
(* change is a new row that supersedes the old one.  extend_grant and      *)
(* change_grant_plan read the row first and write in a later transaction,  *)
(* so two operators may interleave between the two.                        *)
(***************************************************************************)
EXTENDS Naturals

CONSTANTS GrantPlans,   \* plans an operator may hand out, positive numbers
          Operators,    \* requests that may edit at the same time
          MaxGrants,    \* bound: rows ever written
          Horizon       \* bound: the clock

ASSUME GrantsAssumption == GrantPlans \subseteq Nat \ {0} /\ MaxGrants \in Nat /\ Horizon \in Nat

VARIABLES
    now,       \* the clock, in days
    grants,    \* admin_grants rows, oldest first
    edits      \* extend_grant and change_grant_plan calls that have read their row

grantVars == <<now, grants, edits>>

Rows == 1 .. MaxGrants
Reasons == {"standing", "revoked", "extended", "reset", "changed"}
NoGrant == [plan |-> 0, from |-> 0, to |-> 0, ended |-> "standing", by |-> 0]

Written(g) == grants[g].plan > 0

(* Not revoked, started, not yet expired: GrantState::Active at time t. *)
InForce(g, t) == /\ Written(g) /\ grants[g].ended = "standing"
                 /\ grants[g].from <= t /\ t < grants[g].to

(* The strongest of the plans in force; 0 when there is none. *)
active_grant_plan ==
    LET plans == {grants[g].plan : g \in {h \in Rows : InForce(h, now)}}
    IN  IF plans = {} THEN 0 ELSE CHOOSE p \in plans : \A q \in plans : q <= p

(* Insert the row and retire the ones it replaces, in one transaction. *)
Insert(plan, from, to, replaces, why) ==
    \E id \in Rows :
        /\ ~Written(id) /\ \A h \in Rows : h < id => Written(h)
        /\ grants' = [g \in Rows |->
              IF g = id THEN [NoGrant EXCEPT !.plan = plan, !.from = from, !.to = to]
              ELSE IF g \in replaces THEN [grants[g] EXCEPT !.ended = why, !.by = id]
              ELSE grants[g]]

(* Days(n) starts now; Between names two dates.  An end not after the      *)
(* start is refused.                                                       *)
resolve_term(from, to) == from < to

(* The live row that ends last is the one an extension means. *)
existing == {g \in Rows : /\ InForce(g, now)
                          /\ \A h \in Rows : InForce(h, now) =>
                                \/ grants[h].to < grants[g].to
                                \/ grants[h].to = grants[g].to /\ g <= h}

\* Mutant: the extension starts where the old term stops.
mut_create_grants(plan, from, to, on_existing) ==
    /\ resolve_term(from, to)
    /\ IF existing = {} THEN Insert(plan, from, to, {}, "reset")
       ELSE /\ on_existing # "skip"
            /\ \E old \in existing :
                  IF on_existing = "extend"
                  THEN Insert(plan, grants[old].to, grants[old].to + (to - from), {old}, "extended")
                  ELSE Insert(plan, from, to, {old}, "reset")
    /\ UNCHANGED <<now, edits>>

create_grants(plan, from, to, on_existing) ==
    /\ resolve_term(from, to)
    /\ IF existing = {} THEN Insert(plan, from, to, {}, "reset")
       ELSE /\ on_existing # "skip"
            /\ \E old \in existing :
                  IF on_existing = "extend"
                  THEN Insert(plan, grants[old].from, grants[old].to + (to - from), {old}, "extended")
                  ELSE Insert(plan, from, to, {old}, "reset")
    /\ UNCHANGED <<now, edits>>

(* extend_grant adds days, change_grant_plan adds none and may change the  *)
(* plan; both read the row, refuse a revoked one and go on to supersede.   *)
EditBegins(g, plan, days) ==
    /\ Written(g) /\ grants[g].ended = "standing"
    /\ \E by \in Operators : /\ \A e \in edits : e.by # by
                           /\ edits' = edits \cup {[by |-> by, row |-> g, plan |-> plan, days |-> days]}
    /\ UNCHANGED <<now, grants>>

extend_grant(g, days) == days > 0 /\ EditBegins(g, grants[g].plan, days)

change_grant_plan(g, plan) == EditBegins(g, plan, 0)

(* The write half does not ask again whether the row is still there to be  *)
(* superseded: another operator may have superseded or revoked it since.   *)
supersede(e) ==
    LET old == grants[e.row] IN
    /\ e \in edits
    /\ Insert(e.plan, old.from, old.to + e.days, {e.row},
              IF e.days > 0 THEN "extended" ELSE "changed")
    /\ edits' = edits \ {e}
    /\ UNCHANGED now

revoke_grant(g) ==
    /\ Written(g) /\ grants[g].ended = "standing"
    /\ grants' = [grants EXCEPT ![g].ended = "revoked"]
    /\ UNCHANGED <<now, edits>>

Tick == /\ now < Horizon
        /\ now' = now + 1
        /\ UNCHANGED <<grants, edits>>

GrantsInit == /\ now = 0 /\ edits = {}
              /\ grants = [g \in Rows |-> NoGrant]

CreateNext ==
    \E plan \in GrantPlans, from \in now .. now + 1, to \in 1 .. Horizon,
       on_existing \in {"extend", "reset", "skip"} :
        create_grants(plan, from, to, on_existing)

EditNext ==
    \/ \E g \in Rows : extend_grant(g, 1) \/ \E p \in GrantPlans : change_grant_plan(g, p)
    \/ \E e \in edits : supersede(e)

GrantsNext == \/ CreateNext \/ EditNext \/ Tick
              \/ \E g \in Rows : revoke_grant(g)

GrantsSpec == GrantsInit /\ [][GrantsNext]_grantVars

----------------------------------------------------------------------------
Covered(t) == \E g \in Rows : InForce(g, t)

CoverStays == \A t \in now .. MaxGrants * Horizon : Covered(t) => Covered(t)'
Withdraws == \E g \in Rows : /\ grants[g].ended = "standing"
                             /\ grants'[g].ended \in {"revoked", "reset"}

(* Extending, changing or adding a grant never opens a gap: an instant     *)
(* from now on that some grant covered stays covered.  "Starting it where  *)
(* the old one stopped would leave the account with ... an entitlement gap *)
(* from now until the old expiry".  Only taking a grant back, or throwing  *)
(* the rest of a term away to start a fresh one, may uncover an instant.   *)
OnlyWithdrawalUncovers == [][Withdraws \/ CoverStays]_grantVars

(* What is refused of a revoked grant ("회수된 이용권은 연장할 수 없습니다") is      *)
(* that it is made longer: no edit gives an account time that only grants  *)
(* taken back had covered.  The check is made before the write, so an edit *)
(* that began before the revocation brings the grant back.                 *)
RevokedStaysGone ==
    [][\A g \in Rows : grants[g].ended = "revoked" /\ grants[g].by = 0 => grants'[g].by = 0]_grantVars

============================================================================
