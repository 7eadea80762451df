------------------------------ MODULE Billing ------------------------------
(***************************************************************************)
(* One account's recurring payment: billing.rs and the billing rows of     *)
(* db.rs.  A checkout and a cancellation are HTTP requests that cross a    *)
(* provider call between two database transactions, so two of them may     *)
(* interleave, a reply may be lost and the process may die in between.     *)
(* PayApp is external: it may refuse, it repeats notifications for as long *)
(* as it likes and it delivers them in any order.                          *)
(*                                                                         *)
(* Plans are numbers in order of strength; 0 is the unsubscribed plan.     *)
(***************************************************************************)
EXTENDS Naturals, FiniteSets

CONSTANTS Plans,        \* plans on sale, positive numbers
          MaxOrders,    \* bound: billing records ever opened
          MaxCharges,   \* bound: charges per record
          MaxAnnounced, \* bound: notices other than of a charge
          Requests      \* request threads of the API

ASSUME BillingAssumption ==
    /\ Plans \subseteq Nat \ {0}
    /\ MaxOrders \in Nat
    /\ MaxCharges \in Nat /\ MaxAnnounced \in Nat

VARIABLES
    bill,       \* billing_subscriptions rows
    account,    \* users.plan_id, subscriptions.status; gift: an operator set it
    ledger,     \* billing_events: one row per event key
    applying,   \* payments recorded, activate_subscription not called yet
    req,        \* what each request thread is about to do
    onAir,      \* the account has a broadcast running
    provider,   \* PayApp's side of each record
    sent,       \* notifications PayApp has sent and may deliver again
    orphaned,   \* records PayApp registered whose number never reached us
    unasked,    \* records cancelled, or about to be, without asking PayApp
    doubled     \* two checkouts overlapped between their check and their record

billingVars == <<bill, account, ledger, applying, req, onAir, provider, sent,
                 orphaned, unasked, doubled>>

Orders == 1 .. MaxOrders
Unsubscribed == 0
Statuses == {"absent", "Pending", "RegistrationFailed", "Active",
             "Cancelled", "PaymentFailed"}
NoRow == [status |-> "absent", plan |-> Unsubscribed,
          rebill |-> FALSE, activated |-> FALSE]
Idle == [pc |-> "idle", order |-> 0, plan |-> Unsubscribed]
Notices == [order : Orders, no : 1 .. MaxCharges,
            state : {"paid", "reversed", "waiting"}, key : {"mul_no", "composite"}]

can_broadcast(p) == p > 0

holds_the_provider(status) == status \in {"Pending", "Active", "PaymentFailed"}

(* Newest first: records are numbered in the order they were opened. *)
live_billing_subscription ==
    {o \in Orders : /\ holds_the_provider(bill[o].status)
                    /\ \A q \in Orders : q > o => ~holds_the_provider(bill[q].status)}

write_plan(p, gift) ==
    account' = [plan |-> p, active |-> can_broadcast(p), gift |-> gift]

----------------------------------------------------------------------------
(* Checkout. *)

Goto(r, pc) == req' = [req EXCEPT ![r].pc = pc]
Done(r) == req' = [req EXCEPT ![r] = Idle]

(* The check for a live record: the first database call of checkout. *)
CheckoutBegins(r, p) ==
    /\ req[r].pc = "idle"
    /\ live_billing_subscription = {}
    /\ req' = [req EXCEPT ![r] = [pc |-> "open", order |-> 0, plan |-> p]]
    /\ UNCHANGED <<bill, account, ledger, applying, onAir, provider, sent,
                   orphaned, unasked, doubled>>

open_billing_subscription(r) ==
    LET fresh == {o \in Orders : bill[o].status = "absent"}
        o == CHOOSE x \in fresh : \A y \in fresh : x <= y
    IN  /\ req[r].pc = "open"
        /\ fresh # {}
        /\ bill' = [bill EXCEPT ![o] = [NoRow EXCEPT !.status = "Pending",
                                                     !.plan = req[r].plan]]
        /\ req' = [req EXCEPT ![r].pc = "register", ![r].order = o]
        /\ doubled' = (doubled \/ \E q \in Requests \ {r} : req[q].pc = "open")
        /\ UNCHANGED <<account, ledger, applying, onAir, provider, sent,
                       orphaned, unasked>>

(* rebillRegist: registered and answered, registered with the answer lost  *)
(* (or unusable), or refused.                                              *)
register(r) ==
    LET o == req[r].order IN
    /\ req[r].pc = "register"
    /\ \E answer \in {"ok", "lost", "refused"} :
          /\ provider' = IF answer = "refused" THEN provider
                         ELSE [provider EXCEPT ![o].state = "registered"]
          /\ orphaned' = IF answer = "lost" THEN orphaned \cup {o} ELSE orphaned
          /\ Goto(r, IF answer = "ok" THEN "attach" ELSE "failed")
    /\ UNCHANGED <<bill, account, ledger, applying, onAir, sent, unasked, doubled>>

attach_provider_subscription(r) ==
    /\ req[r].pc = "attach"
    /\ bill' = [bill EXCEPT ![req[r].order].rebill = TRUE]
    /\ Done(r)
    /\ UNCHANGED <<account, ledger, applying, onAir, provider, sent, orphaned,
                   unasked, doubled>>

set_billing_status_failed(r) ==
    /\ req[r].pc = "failed"
    /\ bill' = [bill EXCEPT ![req[r].order].status = "RegistrationFailed"]
    /\ Done(r)
    /\ UNCHANGED <<account, ledger, applying, onAir, provider, sent, orphaned,
                   unasked, doubled>>

----------------------------------------------------------------------------
(* Cancellation: read the live record, ask PayApp, one transaction, then   *)
(* the broadcasts.                                                         *)

\* Mutant: the provider is not asked to end its registration.
mut_CancelBegins(r) ==
    /\ req[r].pc = "idle"
    /\ \E o \in live_billing_subscription :
          /\ req' = [req EXCEPT ![r] = [pc |-> "revoke", order |-> o,
                                        plan |-> bill[o].plan]]
          /\ unasked' = IF bill[o].rebill THEN unasked ELSE unasked \cup {o}
    /\ UNCHANGED <<bill, account, ledger, applying, onAir, provider, sent,
                   orphaned, doubled>>

CancelBegins(r) ==
    /\ req[r].pc = "idle"
    /\ \E o \in live_billing_subscription :
          /\ req' = [req EXCEPT ![r] =
                        [pc |-> IF bill[o].rebill THEN "ask" ELSE "revoke",
                         order |-> o, plan |-> bill[o].plan]]
          /\ unasked' = IF bill[o].rebill THEN unasked ELSE unasked \cup {o}
    /\ UNCHANGED <<bill, account, ledger, applying, onAir, provider, sent,
                   orphaned, doubled>>

(* rebillCancel.  A refusal returns before any local write; so does an     *)
(* answer that never arrives, though PayApp has stopped by then.           *)
AskProvider(r) ==
    LET o == req[r].order IN
    /\ req[r].pc = "ask"
    /\ \E answer \in {"ok", "lost", "refused"} :
          /\ provider' = IF answer = "refused" THEN provider
                         ELSE [provider EXCEPT ![o].state = "stopped"]
          /\ IF answer = "ok" THEN Goto(r, "revoke") ELSE Done(r)
    /\ UNCHANGED <<bill, account, ledger, applying, onAir, sent, orphaned,
                   unasked, doubled>>

(* Was an entitlement taken?  Only if this record was paid, and only if    *)
(* the account is still on the plan it bought.                             *)
Revokes(o) == bill[o].activated /\ account.plan = bill[o].plan

cancel_billing_and_revoke(o) ==
    /\ bill' = [bill EXCEPT ![o].status = "Cancelled"]
    /\ IF Revokes(o) THEN write_plan(Unsubscribed, FALSE) ELSE UNCHANGED account

CancelCommits(r) ==
    LET o == req[r].order IN
    /\ req[r].pc = "revoke"
    /\ cancel_billing_and_revoke(o)
    /\ IF Revokes(o) THEN Goto(r, "stop") ELSE Done(r)
    /\ UNCHANGED <<ledger, applying, onAir, provider, sent, orphaned, unasked,
                   doubled>>

(* mgr.stop_all_for: only after something was revoked. *)
TakeOffAir(r) ==
    /\ req[r].pc = "stop"
    /\ onAir' = FALSE
    /\ Done(r)
    /\ UNCHANGED <<bill, account, ledger, applying, provider, sent, orphaned,
                   unasked, doubled>>

----------------------------------------------------------------------------
(* The notification. *)

(* The checks before anything is written: an order of ours, its amount and *)
(* the rebill_no stored for it.  PayApp's own notices carry our keys and   *)
(* the registered amount; the number is missing when it was never stored.  *)
Verified(n) == bill[n.order].rebill

BillingStatusOf(n, status) ==
    CASE n.state = "paid" -> "Active"
      [] n.state = "reversed" -> "PaymentFailed"
      [] OTHER -> status

(* PayApp's number for the payment alone, whatever the state announced;    *)
(* without one, the record, the state and the date.                        *)
event_key(n) == IF n.key = "mul_no" THEN <<n.order, n.no>> ELSE <<n.order, n.no, n.state>>

Handled(n) == \E e \in ledger : event_key(e) = event_key(n)

(* The UNIQUE event key decides; a repeat writes nothing. *)
record_billing_payment(n) ==
    /\ ~Handled(n)
    /\ ledger' = ledger \cup {n}
    /\ bill' = [bill EXCEPT
                  ![n.order].status = BillingStatusOf(n, @),
                  ![n.order].activated = @ \/ n.state = "paid"]

\* Mutant: a refused charge activates the plan as a paid one does.
mut_handle_feedback(n) ==
    /\ Verified(n)
    /\ record_billing_payment(n)
    /\ applying' = applying \cup {n}
    /\ UNCHANGED <<account, req, onAir, provider, sent, orphaned, unasked, doubled>>

handle_feedback(n) ==
    /\ Verified(n)
    /\ record_billing_payment(n)
    /\ applying' = IF n.state = "paid" THEN applying \cup {n} ELSE applying
    /\ UNCHANGED <<account, req, onAir, provider, sent, orphaned, unasked, doubled>>

(* The second half of the handler; the plan is the record's. *)
activate_subscription(n) ==
    /\ n \in applying
    /\ write_plan(bill[n.order].plan, FALSE)
    /\ applying' = applying \ {n}
    /\ UNCHANGED <<bill, ledger, req, onAir, provider, sent, orphaned, unasked,
                   doubled>>

(* activate_subscription returns an error: PayApp is answered FAIL and the *)
(* retry finds the event key already there.                                *)
ActivationFails(n) ==
    /\ n \in applying
    /\ applying' = applying \ {n}
    /\ UNCHANGED <<bill, account, ledger, req, onAir, provider, sent, orphaned,
                   unasked, doubled>>

(* The API process dies; what its threads were doing is forgotten.         *)
ProcessDies ==
    /\ req' = [r \in Requests |-> Idle]
    /\ applying' = {}
    /\ orphaned' = orphaned \cup {req[r].order : r \in {q \in Requests : req[q].pc = "attach"}}
    /\ UNCHANGED <<bill, account, ledger, onAir, provider, sent, unasked, doubled>>

----------------------------------------------------------------------------
(* The operator's commands. *)

billing_mismatches ==
    {o \in Orders : /\ bill[o].status = "Cancelled"
                    /\ bill[o].activated
                    /\ account.plan = bill[o].plan
                    /\ account.active}

fix_billing_mismatch(o) ==
    /\ o \in billing_mismatches
    /\ cancel_billing_and_revoke(o)
    /\ UNCHANGED <<ledger, applying, req, onAir, provider, sent, orphaned,
                   unasked, doubled>>

set_plan(p) ==
    /\ write_plan(p, TRUE)
    /\ UNCHANGED <<bill, ledger, applying, req, onAir, provider, sent, orphaned,
                   unasked, doubled>>

(* --revoke-unpaid-grant: the account signed up in the browser and is on a *)
(* plan.  Billing records are not consulted.                               *)
revoke_unpaid_grant ==
    /\ account.plan # Unsubscribed
    /\ write_plan(Unsubscribed, FALSE)
    /\ UNCHANGED <<bill, ledger, applying, req, onAir, provider, sent, orphaned,
                   unasked, doubled>>

----------------------------------------------------------------------------
(* PayApp, external.  The buyer approves the first charge at the payurl or *)
(* from the link PayApp sends to the phone number.                         *)

Charge(o) ==
    /\ provider[o].state \in {"registered", "charging"}
    /\ provider[o].charges < MaxCharges
    /\ provider' = [provider EXCEPT ![o] = [state |-> "charging", charges |-> @.charges + 1]]
    /\ sent' = sent \cup {[order |-> o, no |-> provider[o].charges + 1,
                            state |-> "paid", key |-> "mul_no"]}
    /\ UNCHANGED <<bill, account, ledger, applying, req, onAir, orphaned, unasked,
                   doubled>>

(* A charge is reversed, or another state of it is announced: under the    *)
(* number of the payment, or under none.                                   *)
Announce(o, state, key) ==
    /\ provider[o].charges > 0
    /\ Cardinality({n \in sent : n.state # "paid"}) < MaxAnnounced
    /\ sent' = sent \cup {[order |-> o, no |-> provider[o].charges,
                            state |-> state, key |-> key]}
    /\ UNCHANGED <<bill, account, ledger, applying, req, onAir, provider, orphaned,
                   unasked, doubled>>

----------------------------------------------------------------------------
BillingInit ==
    /\ bill = [o \in Orders |-> NoRow]
    /\ account = [plan |-> Unsubscribed, active |-> FALSE, gift |-> FALSE]
    /\ ledger = {} /\ applying = {} /\ sent = {}
    /\ req = [r \in Requests |-> Idle]
    /\ onAir = FALSE
    /\ provider = [o \in Orders |-> [state |-> "none", charges |-> 0]]
    /\ orphaned = {} /\ unasked = {} /\ doubled = FALSE

RequestNext(r) ==
    \/ \E p \in Plans : CheckoutBegins(r, p)
    \/ open_billing_subscription(r)
    \/ register(r)
    \/ attach_provider_subscription(r)
    \/ set_billing_status_failed(r)
    \/ CancelBegins(r)
    \/ AskProvider(r)
    \/ CancelCommits(r)
    \/ TakeOffAir(r)

FeedbackNext ==
    \/ \E n \in sent : handle_feedback(n)
    \/ \E n \in applying : activate_subscription(n) \/ ActivationFails(n)

(* The two commands print their list and, with --yes, work through it.     *)
audit_billing == \E o \in billing_mismatches : fix_billing_mismatch(o)

audit_plans == revoke_unpaid_grant

OperatorNext ==
    \/ audit_billing
    \/ audit_plans
    \/ \E p \in Plans : set_plan(p)

AnnounceNext ==
    \E o \in Orders, s \in {"reversed", "waiting"}, k \in {"mul_no", "composite"} :
        Announce(o, s, k)

BillingNext ==
    \/ \E r \in Requests : RequestNext(r)
    \/ FeedbackNext
    \/ OperatorNext
    \/ \E o \in Orders : Charge(o)
    \/ AnnounceNext
    \/ ProcessDies

----------------------------------------------------------------------------
paid_active == account.active /\ can_broadcast(account.plan)

PaidFor(o) == \E n \in ledger : n.order = o /\ n.state = "paid"

(* The plan an account has without an operator's hand was bought: a        *)
(* verified payment of a record of that very plan is in the ledger.        *)
(* handle_feedback is "the only path in this program that grants a paid    *)
(* entitlement".                                                           *)
EntitlementIsPaidFor ==
    paid_active /\ ~account.gift =>
        \E o \in Orders : PaidFor(o) /\ bill[o].activated /\ bill[o].plan = account.plan

(* PayApp never goes on charging a record that this side has let go of:    *)
(* once the notices of its charges are handled, a charged record is one    *)
(* cancel can still find and name to PayApp.  Not so for a registration    *)
(* whose number was lost, nor for one cancelled before its number came.    *)
ChargedIsCancellable ==
    \A o \in Orders :
        /\ provider[o].state = "charging"
        /\ \A n \in sent : n.order = o => Handled(n)
        /\ o \notin orphaned \cup unasked
        => holds_the_provider(bill[o].status) /\ bill[o].rebill

(* Two registrations at PayApp at once take two overlapping checkouts, a   *)
(* lost reply or a cancellation that asked nobody: the check for a live    *)
(* record alone keeps an account from paying twice a month.                *)
NeverChargedTwice ==
    doubled \/
    Cardinality({o \in Orders \ (orphaned \cup unasked) :
                    provider[o].state \in {"registered", "charging"}}) <= 1

(* What PayApp charges is one record at a time, which this side can stop.  *)
ChargesAreAccountedFor == ChargedIsCancellable /\ NeverChargedTwice

(* The audit finds every free ride: an account on a bought plan has a live *)
(* record of that plan, or billing_mismatches lists it.                    *)
AuditFindsFreeRides ==
    paid_active /\ ~account.gift =>
        \/ billing_mismatches # {}
        \/ \E o \in Orders : /\ holds_the_provider(bill[o].status)
                             /\ bill[o].plan = account.plan
                             /\ bill[o].activated

(* A plan nobody gave the account was bought, and once what was bought is   *)
(* no longer charged for the audit says so.                                *)
PlansArePaidFor == EntitlementIsPaidFor /\ AuditFindsFreeRides

(* "A genuine notification that failed for a transient reason is retried   *)
(* rather than lost" (on Rejected): a payment recorded is applied, or not  *)
(* on record when PayApp repeats it.  The event key is there by then, and  *)
(* the repetition is answered as handled already.                          *)
RejectedIsRetried ==
    [][\A n \in applying \ applying' :
           n \notin ledger' \/ account'.plan = bill[n.order].plan]_billingVars

============================================================================
