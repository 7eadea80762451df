---------------------------- MODULE Entitlements ---------------------------
(***************************************************************************)
(* What one account may do: the paid side (Billing), the operator's grants *)
(* (Grants) and whether the account is switched on (Accounts) meet in      *)
(* subscription() and require_active_subscription, the gate in front of    *)
(* everything that puts a broadcast on air.                                *)
(*                                                                         *)
(* A behaviour has one theme, fixed for good: the set of actors that take  *)
(* part.  Themes keep independent activities from multiplying each other.  *)
(* What opening the database does to the plans is one of them (Catalogue). *)
(***************************************************************************)
EXTENDS Billing, Grants, Accounts, Catalogue

CONSTANT Themes
VARIABLES theme,       \* the actors of this behaviour
          starting,    \* a start request is past the gate
          reaping      \* expire_lapsed has found the account not entitled

airVars == <<starting, reaping>>
entitlementVars == <<billingVars, grantVars, accountVars, catalogueVars, airVars, theme>>

With(actor) == actor \in theme

(* The stronger of the paid plan and the granted one; 0 is not active. *)
subscription ==
    LET paid == IF paid_active THEN account.plan ELSE Unsubscribed
    IN  IF active_grant_plan > paid THEN active_grant_plan ELSE paid

require_active_subscription == require_enabled /\ can_broadcast(subscription)

----------------------------------------------------------------------------
(* A start asks the gate and then claims its slot in a transaction of its  *)
(* own; so does expire_lapsed before it stops anything.                    *)

AirSame == UNCHANGED <<bill, account, ledger, applying, req, provider, sent,
                       orphaned, unasked, doubled, grantVars, accountVars, catalogueVars, theme>>

StartAsksGate ==
    /\ ~starting /\ require_active_subscription
    /\ starting' = TRUE
    /\ UNCHANGED <<onAir, reaping>> /\ AirSame

claim_stream_slot ==
    /\ starting
    /\ onAir' = TRUE /\ starting' = FALSE
    /\ UNCHANGED reaping /\ AirSame

expire_lapsed ==
    /\ onAir /\ ~require_active_subscription
    /\ reaping' = TRUE
    /\ UNCHANGED <<onAir, starting>> /\ AirSame

stop_all_for ==
    /\ reaping
    /\ onAir' = FALSE /\ reaping' = FALSE
    /\ UNCHANGED starting /\ AirSame

(* The last step of switching an account off. *)
DisableTakesOffAir ==
    /\ disabling = "stop"
    /\ disabling' = "idle"
    /\ onAir' = FALSE
    /\ UNCHANGED <<bill, account, ledger, applying, req, provider, sent, orphaned,
                   unasked, doubled, grantVars, catalogueVars, airVars, theme,
                   disabled, sessions, issued, logging, late, throttleVars>>

----------------------------------------------------------------------------
EntitlementsInit ==
    /\ BillingInit /\ GrantsInit /\ AccountsInit /\ CatalogueInit
    /\ theme \in Themes
    /\ With("catalogue") \/ limits = <<>>
    /\ starting = FALSE /\ reaping = FALSE

(* The first charge; the next months' only where the theme has them. *)
Charges(o) == (provider[o].charges = 0 \/ With("renewals")) /\ Charge(o)

BillingStep ==
    /\ \/ \E r \in Requests : With(r) /\ RequestNext(r)
       \/ With("notices") /\ (FeedbackNext \/ \E o \in Orders : Charges(o))
       \/ With("reversals") /\ AnnounceNext
       \/ With("operator") /\ OperatorNext
       \/ With("crash") /\ ProcessDies
    /\ UNCHANGED <<grantVars, accountVars, catalogueVars, airVars, theme>>

GrantsStep ==
    /\ With("grants") /\ GrantsNext
    /\ UNCHANGED <<billingVars, accountVars, catalogueVars, airVars, theme>>

AccountsStep ==
    /\ \/ With("sessions") /\ SessionNext
       \/ With("throttle") /\ ThrottleNext
    /\ UNCHANGED <<billingVars, grantVars, catalogueVars, airVars, theme>>

CatalogueStep ==
    /\ With("catalogue") /\ CatalogueNext
    /\ UNCHANGED <<billingVars, grantVars, accountVars, airVars, theme>>

AirStep ==
    \/ With("air") /\ (StartAsksGate \/ claim_stream_slot \/ expire_lapsed \/ stop_all_for)
    \/ With("sessions") /\ DisableTakesOffAir

EntitlementsNext == BillingStep \/ GrantsStep \/ AccountsStep \/ CatalogueStep \/ AirStep

EntitlementsSpec == EntitlementsInit /\ [][EntitlementsNext]_entitlementVars

----------------------------------------------------------------------------
(* "A manual grant still in force keeps a broadcast on air precisely       *)
(* because that one function says it should" (manager.rs): while a grant   *)
(* is in force and the account is switched on, no step of the billing side *)
(* ends the broadcast.                                                     *)
GrantKeepsBroadcast ==
    [][onAir /\ active_grant_plan > 0 /\ require_enabled /\ ~reaping => onAir']_entitlementVars

============================================================================
