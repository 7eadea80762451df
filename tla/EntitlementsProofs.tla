---------------------------- MODULE EntitlementsProofs -----------------------
(***************************************************************************)
(* One account: its grants, the catalogue of plans, sign-in and billing,   *)
(* for any number of rows, records, callers, requests and processes.       *)
(*                                                                         *)
(*   EditsLeaveNoGap          no edit of grants opens a gap in their cover *)
(*   FigureOutlivesRestarts   an operator's figure survives every opening  *)
(*   SignInStaysGuarded       disabled accounts are out, bursts are capped *)
(*   PlansStayPaidFor         a plan was paid for, or the audit lists it   *)
(*   ChargesStayAccountedFor  PayApp charges one record, known to this side*)
(*                                                                         *)
(* Each part has an invariant of its own (GrantsType, CatalogueInv,        *)
(* SessionsInv and ThrottleInv, BillingInv) and a frame lemma that says    *)
(* the other parts' steps leave its state alone.                           *)
(***************************************************************************)
EXTENDS Entitlements, FiniteSetTheorems, SequenceTheorems, WellFoundedInduction, TLAPS

Grant == [plan : Nat, from : Nat, to : Nat, ended : Reasons, by : Nat]
GrantEdit == [by : Operators, row : Rows, plan : Nat \ {0}, days : Nat]

GrantsType ==
    /\ now \in Nat
    /\ grants \in [Rows -> Grant]
    /\ edits \subseteq GrantEdit

\* What a step owes to whoever is covered at an instant.
KeepsCover(t) == Covered(t) => Covered(t)'

----------------------------------------------------------------------------
\* What the insertion of a row leaves: a new row in a place that was free,
\* the replaced ones ended, the others as they were.
LEMMA Inserted ==
    ASSUME GrantsType, NEW plan \in Nat \ {0}, NEW from \in Nat, NEW to \in Nat,
           NEW replaces, NEW why \in Reasons, Insert(plan, from, to, replaces, why)
    PROVE  /\ grants' \in [Rows -> Grant]
           /\ \E id \in Rows :
                 /\ ~Written(id)
                 /\ grants'[id].plan = plan /\ grants'[id].ended = "standing"
                 /\ grants'[id].from = from /\ grants'[id].to = to
                 /\ \A g \in Rows \ {id} :
                       /\ g \in replaces => grants'[g].ended = why
                       /\ g \notin replaces => grants'[g] = grants[g]
<1>1. PICK id \in Rows :
          /\ ~Written(id)
          /\ grants' = [g \in Rows |->
                IF g = id THEN [NoGrant EXCEPT !.plan = plan, !.from = from, !.to = to]
                ELSE IF g \in replaces THEN [grants[g] EXCEPT !.ended = why, !.by = id]
                ELSE grants[g]]
  BY DEF Insert
<1> DEFINE new == [NoGrant EXCEPT !.plan = plan, !.from = from, !.to = to]
           ended(g) == [grants[g] EXCEPT !.ended = why, !.by = id]
<1>2. NoGrant \in Grant /\ NoGrant.ended = "standing"
  <2>1. 0 \in Nat /\ "standing" \in Reasons
    BY DEF Reasons
  <2>2. QED BY <2>1, Zenon DEF Grant, NoGrant
<1>3. /\ new \in Grant /\ new.ended = "standing"
      /\ new.plan = plan /\ new.from = from /\ new.to = to
  BY <1>2 DEF Grant
<1>4. id \in Nat
  BY GrantsAssumption DEF Rows
<1>5. ASSUME NEW g \in Rows PROVE ended(g) \in Grant /\ ended(g).ended = why
  BY <1>4 DEF GrantsType, Grant
<1> HIDE DEF new, ended
<1>6. grants' = [g \in Rows |-> IF g = id THEN new ELSE IF g \in replaces THEN ended(g)
                                ELSE grants[g]]
  BY <1>1 DEF new, ended
<1>7. grants' \in [Rows -> Grant]
  BY <1>3, <1>5, <1>6 DEF GrantsType
<1>8. grants'[id] = new
  BY <1>6
<1>9. \A g \in Rows \ {id} : /\ g \in replaces => grants'[g].ended = why
                             /\ g \notin replaces => grants'[g] = grants[g]
  BY <1>5, <1>6
<1>10. /\ ~Written(id)
       /\ grants'[id].plan = plan /\ grants'[id].ended = "standing"
       /\ grants'[id].from = from /\ grants'[id].to = to
  BY <1>1, <1>3, <1>8
<1>11. \E i \in Rows :
           /\ ~Written(i)
           /\ grants'[i].plan = plan /\ grants'[i].ended = "standing"
           /\ grants'[i].from = from /\ grants'[i].to = to
           /\ \A g \in Rows \ {i} : /\ g \in replaces => grants'[g].ended = why
                                    /\ g \notin replaces => grants'[g] = grants[g]
  <2> WITNESS id \in Rows
  <2>1. QED BY <1>9, <1>10
<1>12. QED BY <1>7, <1>11

\* A new row that replaces at most one, from no later and to no earlier than
\* the row it replaces, covers what was covered.
LEMMA ReplacementCovers ==
    ASSUME GrantsType, NEW plan \in Nat \ {0}, NEW from \in Nat, NEW to \in Nat,
           NEW old \in Rows, NEW why \in Reasons, Insert(plan, from, to, {old}, why),
           from <= grants[old].from, grants[old].to <= to, NEW t \in Nat
    PROVE  KeepsCover(t)
<1> SUFFICES ASSUME NEW g \in Rows, InForce(g, t) PROVE Covered(t)'
  BY DEF KeepsCover, Covered
<1>1. PICK id \in Rows :
          /\ ~Written(id)
          /\ grants'[id].plan = plan /\ grants'[id].ended = "standing"
          /\ grants'[id].from = from /\ grants'[id].to = to
          /\ \A h \in Rows \ {id} : h \notin {old} => grants'[h] = grants[h]
  BY Inserted
<1>2. g # id
  BY <1>1 DEF InForce
<1>3. CASE g = old
  <2>1. grants[old].from \in Nat /\ grants[old].to \in Nat
    BY DEF GrantsType, Grant
  <2>2. from <= t /\ t < to
    BY <1>3, <2>1 DEF InForce
  <2>3. InForce(id, t)'
    BY <1>1, <2>2 DEF InForce, Written
  <2>4. QED BY <2>3 DEF Covered
<1>4. CASE g # old
  <2>1. grants'[g] = grants[g]
    BY <1>1, <1>2, <1>4
  <2>2. InForce(g, t)'
    BY <2>1 DEF InForce, Written
  <2>3. QED BY <2>2 DEF Covered
<1>5. QED BY <1>3, <1>4

\* A row that replaces none leaves the others alone.
LEMMA AdditionCovers ==
    ASSUME GrantsType, NEW plan \in Nat \ {0}, NEW from \in Nat, NEW to \in Nat,
           NEW why \in Reasons, Insert(plan, from, to, {}, why), NEW t \in Nat
    PROVE  KeepsCover(t)
<1>1. PICK id \in Rows : /\ ~Written(id)
                         /\ \A h \in Rows \ {id} : h \notin {} => grants'[h] = grants[h]
  BY Inserted
<1>2. ASSUME NEW g \in Rows, InForce(g, t) PROVE InForce(g, t)'
  BY <1>1, <1>2 DEF InForce, Written
<1>3. QED BY <1>2 DEF KeepsCover, Covered

\* What every step of the grants does to an instant, and to the types.
Kept == GrantsType' /\ (Withdraws \/ \A t \in Nat : KeepsCover(t))

\* A step that leaves the grants alone owes nothing.
LEMMA Unchanged ==
    ASSUME GrantsType, UNCHANGED grants, now' \in Nat, edits' \subseteq GrantEdit
    PROVE  Kept
BY DEF Kept, GrantsType, KeepsCover, Covered, InForce, Written

\* A grant that is created covers what it replaces.
LEMMA CreateKeeps ==
    ASSUME GrantsType, NEW plan \in GrantPlans, NEW from \in now .. now + 1,
           NEW to \in 1 .. Horizon, NEW on_existing \in {"extend", "reset", "skip"},
           create_grants(plan, from, to, on_existing)
    PROVE  Kept
<1>1. plan \in Nat \ {0} /\ from \in Nat /\ to \in Nat /\ from < to
  BY GrantsAssumption DEF GrantsType, create_grants, resolve_term
<1>2. UNCHANGED <<now, edits>>
  BY DEF create_grants
<1>3. {"extended", "reset"} \subseteq Reasons
  BY DEF Reasons
<1>4. CASE existing = {}
  <2>1. Insert(plan, from, to, {}, "reset")
    BY <1>4 DEF create_grants
  <2>2. grants' \in [Rows -> Grant]
    BY <1>1, <1>3, <2>1, Inserted
  <2>3. \A t \in Nat : KeepsCover(t)
    BY <1>1, <1>3, <2>1, AdditionCovers
  <2>4. QED BY <1>2, <2>2, <2>3 DEF Kept, GrantsType
<1>5. CASE existing # {}
  <2>1. PICK old \in existing :
            IF on_existing = "extend"
            THEN Insert(plan, grants[old].from, grants[old].to + (to - from), {old}, "extended")
            ELSE Insert(plan, from, to, {old}, "reset")
    BY <1>5 DEF create_grants
  <2>2. old \in Rows /\ grants[old].ended = "standing"
    BY DEF existing, InForce
  <2>3. grants[old].from \in Nat /\ grants[old].to \in Nat
    BY <2>2 DEF GrantsType, Grant
  <2>4. CASE on_existing = "extend"
    <3> DEFINE until == grants[old].to + (to - from)
    <3>1. until \in Nat /\ grants[old].to <= until /\ grants[old].from <= grants[old].from
      BY <1>1, <2>3
    <3>2. Insert(plan, grants[old].from, until, {old}, "extended")
      BY <2>1, <2>4
    <3> HIDE DEF until
    <3>3. grants' \in [Rows -> Grant]
      BY <1>1, <1>3, <2>3, <3>1, <3>2, Inserted
    <3>4. \A t \in Nat : KeepsCover(t)
      BY <1>1, <1>3, <2>2, <2>3, <3>1, <3>2, ReplacementCovers
    <3>5. QED BY <1>2, <3>3, <3>4 DEF Kept, GrantsType
  <2>5. CASE on_existing # "extend"
    <3>1. Insert(plan, from, to, {old}, "reset")
      BY <2>1, <2>5
    <3>2. PICK id \in Rows :
              /\ ~Written(id)
              /\ grants'[id].plan = plan /\ grants'[id].ended = "standing"
              /\ grants'[id].from = from /\ grants'[id].to = to
              /\ \A g \in Rows \ {id} : /\ g \in {old} => grants'[g].ended = "reset"
                                        /\ g \notin {old} => grants'[g] = grants[g]
      BY <1>1, <1>3, <3>1, Inserted
    <3>3. old # id
      BY <3>2 DEF existing, InForce
    <3>4. grants'[old].ended = "reset"
      BY <2>2, <3>2, <3>3
    <3>5. grants' \in [Rows -> Grant]
      BY <1>1, <1>3, <3>1, Inserted
    <3>6. QED BY <1>2, <2>2, <3>4, <3>5 DEF Kept, GrantsType, Withdraws
  <2>6. QED BY <2>4, <2>5
<1>6. QED BY <1>4, <1>5

\* The read half of an edit notes what it will write.
LEMMA EditBeginsKeeps ==
    ASSUME GrantsType, NEW g \in Rows, NEW plan \in Nat \ {0}, NEW days \in Nat,
           EditBegins(g, plan, days)
    PROVE  Kept
<1>1. PICK by \in Operators :
          edits' = edits \cup {[by |-> by, row |-> g, plan |-> plan, days |-> days]}
  BY DEF EditBegins
<1>2. [by |-> by, row |-> g, plan |-> plan, days |-> days] \in GrantEdit
  BY DEF GrantEdit
<1>3. edits' \subseteq GrantEdit /\ UNCHANGED <<now, grants>>
  BY <1>1, <1>2 DEF EditBegins, GrantsType
<1>4. now' \in Nat
  BY <1>3 DEF GrantsType
<1>5. QED BY <1>3, <1>4, Unchanged

\* An edit covers what it supersedes.
LEMMA SupersedeKeeps ==
    ASSUME GrantsType, NEW e \in edits, supersede(e)
    PROVE  Kept
<1> DEFINE why == IF e.days > 0 THEN "extended" ELSE "changed"
           until == grants[e.row].to + e.days
<1>1. e.row \in Rows /\ e.plan \in Nat \ {0} /\ e.days \in Nat
  BY DEF GrantsType, GrantEdit
<1>2. grants[e.row].from \in Nat /\ grants[e.row].to \in Nat
  BY <1>1 DEF GrantsType, Grant
<1>3. until \in Nat /\ grants[e.row].to <= until /\ grants[e.row].from <= grants[e.row].from
  BY <1>1, <1>2
<1>4. why \in Reasons
  BY DEF Reasons
<1>5. Insert(e.plan, grants[e.row].from, until, {e.row}, why)
  BY DEF supersede
<1> HIDE DEF why, until
<1>6. grants' \in [Rows -> Grant]
  BY <1>1, <1>2, <1>3, <1>4, <1>5, Inserted
<1>7. \A t \in Nat : KeepsCover(t)
  BY <1>1, <1>2, <1>3, <1>4, <1>5, ReplacementCovers
<1>8. edits' \subseteq GrantEdit /\ UNCHANGED now
  BY DEF supersede, GrantsType
<1>9. QED BY <1>6, <1>7, <1>8 DEF Kept, GrantsType

\* What is withdrawn is the only cover that goes.
LEMMA RevokeKeeps ==
    ASSUME GrantsType, NEW g \in Rows, revoke_grant(g)
    PROVE  Kept
<1>1. /\ grants' = [grants EXCEPT ![g].ended = "revoked"]
      /\ UNCHANGED <<now, edits>> /\ grants[g].ended = "standing"
  BY DEF revoke_grant
<1>2. grants' \in [Rows -> Grant] /\ grants'[g].ended = "revoked"
  BY <1>1 DEF GrantsType, Grant, Reasons
<1>3. QED BY <1>1, <1>2 DEF Kept, Withdraws, GrantsType

\* Every step keeps who is covered covered, unless it withdraws.
LEMMA StepKeeps ==
    ASSUME GrantsType, GrantsNext
    PROVE  Kept
<1>1. CASE CreateNext
  BY <1>1, CreateKeeps DEF CreateNext
<1>2. CASE EditNext
  <2>1. ASSUME NEW g \in Rows, extend_grant(g, 1) PROVE Kept
    <3>1. grants[g].plan \in Nat \ {0}
      BY <2>1 DEF extend_grant, EditBegins, Written, GrantsType, Grant
    <3>2. QED BY <2>1, <3>1, EditBeginsKeeps DEF extend_grant
  <2>2. ASSUME NEW g \in Rows, NEW p \in GrantPlans, change_grant_plan(g, p) PROVE Kept
    <3>1. p \in Nat \ {0} /\ 0 \in Nat
      BY GrantsAssumption
    <3>2. QED BY <2>2, <3>1, EditBeginsKeeps DEF change_grant_plan
  <2>3. QED BY <1>2, <2>1, <2>2, SupersedeKeeps DEF EditNext
<1>3. CASE Tick
  BY <1>3, Unchanged DEF Tick, GrantsType
<1>4. CASE \E g \in Rows : revoke_grant(g)
  BY <1>4, RevokeKeeps
<1>5. QED BY <1>1, <1>2, <1>3, <1>4 DEF GrantsNext

----------------------------------------------------------------------------
\* The rows and the edits under way have their declared shape.
THEOREM GrantsTypeCorrect == GrantsSpec => []GrantsType
<1>1. GrantsInit => GrantsType
  BY DEF GrantsInit, GrantsType, Grant, NoGrant, Reasons
<1>2. GrantsType /\ [GrantsNext]_grantVars => GrantsType'
  <2>1. CASE UNCHANGED grantVars
    BY <2>1 DEF grantVars, GrantsType
  <2>2. CASE GrantsNext
    BY <2>2, StepKeeps DEF Kept
  <2>3. QED BY <2>1, <2>2
<1>3. QED BY <1>1, <1>2, PTL DEF GrantsSpec

\* grants.rs: extending a grant, changing its plan or adding another never
\* leaves the account without a plan it would have had; only a grant taken
\* back or started afresh does.
THEOREM EditsLeaveNoGap == GrantsSpec => OnlyWithdrawalUncovers
<1>1. GrantsType /\ [GrantsNext]_grantVars => [Withdraws \/ CoverStays]_grantVars
  <2> SUFFICES ASSUME GrantsType, GrantsNext PROVE Withdraws \/ CoverStays
    OBVIOUS
  <2>1. now .. MaxGrants * Horizon \subseteq Nat
    BY GrantsAssumption DEF GrantsType
  <2>2. Withdraws \/ \A t \in Nat : KeepsCover(t)
    BY StepKeeps DEF Kept
  <2>3. QED BY <2>1, <2>2 DEF CoverStays, KeepsCover
<1>2. QED BY <1>1, GrantsTypeCorrect, PTL DEF GrantsSpec, OnlyWithdrawalUncovers

\* Beside billing, sessions and the catalogue, the grants of an account behave
\* as they do on their own: no other actor writes them.
THEOREM GrantsAreKeptApart == EntitlementsSpec => GrantsSpec
<1>1. EntitlementsInit => GrantsInit
  BY DEF EntitlementsInit
<1>2. [EntitlementsNext]_entitlementVars => [GrantsNext]_grantVars
  BY DEF EntitlementsNext, entitlementVars, BillingStep, GrantsStep, AccountsStep, CatalogueStep, AirStep,
         StartAsksGate, claim_stream_slot, expire_lapsed, stop_all_for, AirSame, DisableTakesOffAir
<1>3. QED BY <1>1, <1>2, PTL DEF EntitlementsSpec, GrantsSpec

\* So no edit leaves a gap there either.
THEOREM EditsLeaveNoGapInAccount == EntitlementsSpec => OnlyWithdrawalUncovers
BY GrantsAreKeptApart, EditsLeaveNoGap

----------------------------------------------------------------------------
(* The catalogue of plans. *)

Places == {"closed", "marker", "read", "raise", "mark", "apply"}
Limits == [Keys -> Nat]

CatalogueTypeOK ==
    /\ limits \in Limits \cup {<<>>} /\ marked \in BOOLEAN
    /\ opening \in [Openers -> [pc : Places, read : Limits]]
    /\ kept \in [Keys -> Nat \cup {NoFigure}]

\* A process past the seeding has a row in front of it.
RowIsThere == \A o \in Openers : opening[o].pc # "closed" => limits \in Limits

\* A figure on record is the row's; nobody is about to raise the limits, and
\* whoever is about to write the row back has read that figure.
FigureStands ==
    \A k \in Keys : kept[k] # NoFigure =>
        /\ marked /\ limits \in Limits /\ limits[k] = kept[k]
        /\ \A o \in Openers :
              /\ opening[o].pc \notin {"read", "raise"}
              /\ opening[o].pc = "apply" /\ k \notin StorageKeys => opening[o].read[k] = kept[k]

CatalogueInv == CatalogueTypeOK /\ RowIsThere /\ FigureStands

\* A database opens with no figure on record.
LEMMA CatalogueStarts == CatalogueInit => CatalogueInv
<1> SUFFICES ASSUME CatalogueInit PROVE CatalogueInv
  OBVIOUS
<1>1. limits \in Limits \cup {<<>>}
  BY CatalogueAssumption DEF CatalogueInit, Limits
<1>2. opening \in [Openers -> [pc : Places, read : Limits]]
  BY DEF CatalogueInit, Closed, NoRead, Places, Limits
<1>3. CatalogueTypeOK
  BY <1>1, <1>2 DEF CatalogueTypeOK, CatalogueInit
<1>4. QED BY <1>3 DEF CatalogueInv, CatalogueInit, RowIsThere, FigureStands, Closed

\* Where a process stands changes, and with it what it has read, nothing else.
LEMMA OpeningMoves ==
    ASSUME CatalogueInv, NEW o \in Openers, NEW to \in [pc : Places, read : Limits],
           opening' = [opening EXCEPT ![o] = to], UNCHANGED kept,
           limits' \in Limits,
           marked' \in BOOLEAN, marked => marked',
           \A k \in Keys : kept[k] # NoFigure =>
              /\ limits'[k] = kept[k] /\ to.pc \notin {"read", "raise"}
              /\ to.pc = "apply" => to.read[k] = kept[k]
    PROVE  CatalogueInv'
<1>1. /\ opening' \in [Openers -> [pc : Places, read : Limits]]
      /\ opening'[o] = to /\ \A p \in Openers \ {o} : opening'[p] = opening[p]
  BY DEF CatalogueInv, CatalogueTypeOK
<1>2. CatalogueTypeOK' /\ RowIsThere'
  BY <1>1 DEF CatalogueInv, CatalogueTypeOK, RowIsThere
<1>3. FigureStands'
  BY <1>1 DEF CatalogueInv, FigureStands
<1>4. QED BY <1>2, <1>3 DEF CatalogueInv

\* Opening the database, auditing its storage limits and editing the row keep
\* what is said of figures on record.
LEMMA CatalogueKept ==
    ASSUME CatalogueInv, CatalogueNext
    PROVE  CatalogueInv'
<1> USE DEF Places
<1>0. /\ SEED_PLANS \in Limits /\ NoRead \in Limits /\ Closed \in [pc : Places, read : Limits]
      /\ CatalogueTypeOK
  BY DEF SEED_PLANS, NoRead, Closed, Limits, CatalogueInv
<1>1. ASSUME NEW o \in Openers, NEW to \in Places, Pc(o, to)
      PROVE  \E next \in [pc : Places, read : Limits] :
                /\ next.pc = to /\ next.read = opening[o].read
                /\ opening' = [opening EXCEPT ![o] = next]
  <2>1. opening[o] \in [pc : Places, read : Limits]
    BY <1>0 DEF CatalogueTypeOK
  <2>2. [opening[o] EXCEPT !.pc = to] \in [pc : Places, read : Limits]
    BY <2>1
  <2>3. QED BY <1>1, <2>1, <2>2 DEF Pc
<1>2. ASSUME NEW o \in Openers, seed_plans(o) PROVE CatalogueInv'
  <2>1. limits' \in Limits /\ (limits \in Limits => limits' = limits \/ Keys = {})
    BY <1>0, <1>2 DEF seed_plans, CatalogueTypeOK, Limits
  <2>2. PICK next \in [pc : Places, read : Limits] :
            next.pc = "marker" /\ opening' = [opening EXCEPT ![o] = next]
    BY <1>1, <1>2 DEF seed_plans
  <2>3. kept' = kept /\ marked' = marked /\ marked \in BOOLEAN /\ FigureStands
    BY <1>0, <1>2 DEF seed_plans, CatalogueInv, CatalogueTypeOK
  <2>4. \A k \in Keys : kept[k] # NoFigure => limits'[k] = kept[k]
    BY <2>1, <2>3 DEF FigureStands
  <2>5. QED BY <2>1, <2>2, <2>3, <2>4, OpeningMoves
<1>3. ASSUME NEW o \in Openers, ReadMarker(o) PROVE CatalogueInv'
  <2>1. PICK to \in Places : to = (IF marked THEN "closed" ELSE "read")
    OBVIOUS
  <2>2. limits \in Limits
    BY <1>3 DEF ReadMarker, CatalogueInv, RowIsThere
  <2>3. PICK next \in [pc : Places, read : Limits] :
            next.pc = to /\ opening' = [opening EXCEPT ![o] = next]
    BY <1>1, <1>3, <2>1 DEF ReadMarker
  <2>4. QED BY <1>0, <1>3, <2>1, <2>2, <2>3, OpeningMoves
            DEF ReadMarker, CatalogueInv, FigureStands, CatalogueTypeOK
<1>4. ASSUME NEW o \in Openers, NEW after \in {"raise", "apply"}, ReadLimits(o, after), limits \in Limits,
             after = "raise" => opening[o].pc = "read", UNCHANGED <<limits, marked, opens, kept>>
      PROVE  CatalogueInv'
  <2>1. [pc |-> after, read |-> limits] \in [pc : Places, read : Limits]
    BY <1>4
  <2>2. QED BY <1>0, <1>4, <2>1, OpeningMoves DEF ReadLimits, CatalogueInv, FigureStands, CatalogueTypeOK
<1>5. ASSUME NEW o \in Openers, raise_reads(o) PROVE CatalogueInv'
  BY <1>4, <1>5 DEF raise_reads, CatalogueInv, RowIsThere
<1>6. ASSUME NEW o \in Openers, raise_limits_once(o) PROVE CatalogueInv'
  <2>1. opening[o].read \in Limits /\ limits \in Limits
    BY <1>0, <1>6 DEF raise_limits_once, CatalogueTypeOK, CatalogueInv, RowIsThere
  <2>2. limits' \in Limits
    BY <1>6, <2>1 DEF raise_limits_once, Limits, SEED_PLANS
  <2>3. \A k \in Keys : kept[k] = NoFigure
    BY <1>6 DEF raise_limits_once, CatalogueInv, FigureStands
  <2>4. PICK next \in [pc : Places, read : Limits] :
            next.pc = "mark" /\ opening' = [opening EXCEPT ![o] = next]
    BY <1>1, <1>6 DEF raise_limits_once
  <2>5. QED BY <1>0, <1>6, <2>2, <2>3, <2>4, OpeningMoves DEF raise_limits_once, CatalogueTypeOK
<1>7. ASSUME NEW o \in Openers, Mark(o) PROVE CatalogueInv'
  <2>1. limits \in Limits
    BY <1>7 DEF Mark, CatalogueInv, RowIsThere
  <2>2. QED BY <1>0, <1>7, <2>1, OpeningMoves DEF Mark, Closed, CatalogueInv, FigureStands
<1>8. ASSUME NEW o \in Openers, storage_audit(o) PROVE CatalogueInv'
  BY <1>0, <1>4, <1>8 DEF storage_audit, CatalogueTypeOK
<1>9. ASSUME NEW o \in Openers, apply_seed_storage_limits(o) PROVE CatalogueInv'
  <2>1. opening[o].read \in Limits
    BY <1>0 DEF CatalogueTypeOK
  <2>2. limits' \in Limits /\ kept' \in [Keys -> Nat \cup {NoFigure}]
    BY <1>0, <1>9, <2>1 DEF apply_seed_storage_limits, Limits, SEED_PLANS, CatalogueTypeOK
  <2>3. /\ opening' \in [Openers -> [pc : Places, read : Limits]]
        /\ opening'[o].pc = "closed" /\ \A p \in Openers \ {o} : opening'[p] = opening[p]
    BY <1>0, <1>9 DEF apply_seed_storage_limits, CatalogueTypeOK, Closed
  <2>4. \A k \in Keys : kept'[k] # NoFigure =>
            /\ k \notin StorageKeys /\ kept'[k] = kept[k] /\ limits'[k] = opening[o].read[k]
    BY <1>9 DEF apply_seed_storage_limits
  <2>5. FigureStands'
    BY <1>9, <2>2, <2>3, <2>4 DEF apply_seed_storage_limits, CatalogueInv, FigureStands
  <2>6. QED BY <1>0, <1>9, <2>2, <2>3, <2>5
            DEF apply_seed_storage_limits, CatalogueInv, CatalogueTypeOK, RowIsThere
<1>10. ASSUME NEW k \in Keys, NEW v \in Figures, Edit(k, v) PROVE CatalogueInv'
  <2>1. limits \in Limits /\ v \in Nat
    BY <1>0, <1>10, CatalogueAssumption DEF Edit, CatalogueTypeOK
  <2>2. /\ limits' \in Limits /\ limits'[k] = v
        /\ \A j \in Keys \ {k} : limits'[j] = limits[j] /\ kept'[j] = kept[j]
        /\ kept' \in [Keys -> Nat \cup {NoFigure}]
        /\ kept'[k] # NoFigure => kept'[k] = v /\ marked /\ ~Rewriting
    BY <1>0, <1>10, <2>1 DEF Edit, Limits, CatalogueTypeOK
  <2>3. UNCHANGED <<marked, opening>>
    BY <1>10 DEF Edit
  <2>4. FigureStands'
    BY <2>2, <2>3 DEF CatalogueInv, FigureStands, Rewriting
  <2>5. QED BY <1>0, <2>2, <2>3, <2>4 DEF CatalogueInv, CatalogueTypeOK, RowIsThere
<1>11. QED
  BY <1>2, <1>3, <1>5, <1>6, <1>7, <1>8, <1>9, <1>10 DEF CatalogueNext

\* A step of the account's world is one of the catalogue's or leaves it alone.
LEMMA CatalogueFrame ==
    ASSUME [EntitlementsNext]_entitlementVars
    PROVE  CatalogueNext \/ UNCHANGED catalogueVars
BY DEF EntitlementsNext, entitlementVars, BillingStep, GrantsStep, AccountsStep, CatalogueStep, AirStep,
       StartAsksGate, claim_stream_slot, expire_lapsed, stop_all_for, AirSame, DisableTakesOffAir

\* The rows of plans, the processes that open the database and the figures on
\* record agree as CatalogueInv says, throughout.
THEOREM CatalogueInvariance == EntitlementsSpec => []CatalogueInv
<1>1. EntitlementsInit => CatalogueInv
  BY CatalogueStarts DEF EntitlementsInit
<1>2. CatalogueInv /\ [EntitlementsNext]_entitlementVars => CatalogueInv'
  <2> SUFFICES ASSUME CatalogueInv, [EntitlementsNext]_entitlementVars PROVE CatalogueInv'
    OBVIOUS
  <2>1. CASE CatalogueNext
    BY <2>1, CatalogueKept
  <2>2. CASE UNCHANGED catalogueVars
    BY <2>2 DEF catalogueVars, CatalogueInv, CatalogueTypeOK, RowIsThere, FigureStands
  <2>3. QED BY <2>1, <2>2, CatalogueFrame
<1>3. QED BY <1>1, <1>2, PTL DEF EntitlementsSpec

\* db.rs raise_limits_once: "a ceiling an operator lowers afterwards is not
\* raised back at the next restart", for any number of processes that open the
\* database at once, any number of times, with an audit's rewriting in between.
THEOREM FigureOutlivesRestarts == EntitlementsSpec => []OperatorsFigureStands
<1>1. CatalogueInv => OperatorsFigureStands
  BY DEF CatalogueInv, FigureStands, OperatorsFigureStands
<1>2. QED BY <1>1, CatalogueInvariance, PTL

----------------------------------------------------------------------------
(* Sign-in: sessions. *)

\* Whoever is past the check of an account that is off was under way when it
\* was switched off.
SessionsInv ==
    /\ disabled \in BOOLEAN /\ disabling \in {"idle", "sessions", "stop"}
    /\ disabled => logging \subseteq late
    /\ DisabledIsSignedOut

\* A step of the account's world is a login's, an operator's or the throttle's,
\* or leaves sign-in alone.
LEMMA AccountsFrame ==
    ASSUME [EntitlementsNext]_entitlementVars
    PROVE  SessionNext \/ ThrottleNext \/ DisableTakesOffAir \/ UNCHANGED accountVars
BY DEF EntitlementsNext, entitlementVars, BillingStep, GrantsStep, AccountsStep, CatalogueStep, AirStep,
       StartAsksGate, claim_stream_slot, expire_lapsed, stop_all_for, AirSame

\* Logins, logouts and switching an account off and on keep it signed out.
LEMMA SessionsKept ==
    ASSUME SessionsInv, SessionNext \/ ThrottleNext \/ DisableTakesOffAir \/ UNCHANGED accountVars
    PROVE  SessionsInv'
<1> USE DEF SessionsInv, DisabledIsSignedOut
<1>1. ASSUME NEW t \in Tokens, LoginChecks(t) PROVE SessionsInv'
  BY <1>1 DEF LoginChecks
<1>2. ASSUME NEW t \in Tokens, create_auth_session(t) PROVE SessionsInv'
  BY <1>2 DEF create_auth_session
<1>3. ASSUME NEW t \in Tokens, SessionEnds(t) PROVE SessionsInv'
  BY <1>3 DEF SessionEnds
<1>4. CASE set_disabled_row
  BY <1>4 DEF set_disabled_row
<1>5. CASE set_disabled_sessions
  BY <1>5 DEF set_disabled_sessions
<1>6. CASE Enable
  BY <1>6 DEF Enable
<1>7. CASE UNCHANGED sessionVars
  BY <1>7 DEF sessionVars
<1>8. CASE DisableTakesOffAir
  BY <1>8 DEF DisableTakesOffAir
<1>9. QED
  BY <1>1, <1>2, <1>3, <1>4, <1>5, <1>6, <1>7, <1>8
  DEF SessionNext, ThrottleNext, TimePasses, check, sessionVars, accountVars

----------------------------------------------------------------------------
(* Sign-in: the throttle. *)

InOrder(hits) ==
    /\ \A i \in DOMAIN hits : hits[i] <= clock
    /\ \A i, j \in DOMAIN hits : i <= j => hits[i] <= hits[j]

\* What is kept of the attempts let through is their tail from d on; those
\* before have left the window.
TailFrom(hits, all, d) ==
    /\ d \in Nat /\ Len(all) = d + Len(hits)
    /\ \A i \in 1 .. Len(hits) : hits[i] = all[d + i]
    /\ \A i \in 1 .. d : clock - all[i] >= WINDOW

IsTail(hits, all) == \E d \in Nat : TailFrom(hits, all, d)

ThrottleTypeOK ==
    /\ clock \in Nat
    /\ seen \in [Callers -> Seq(Nat)] /\ allowed \in [Callers -> Seq(Nat)]

ThrottleInv ==
    /\ ThrottleTypeOK
    /\ \A c \in Callers : InOrder(allowed[c]) /\ IsTail(seen[c], allowed[c])
    /\ NoBurst

\* Hits in the order of the clock: as many as are stale are the first ones.
LEMMA StaleFirst ==
    ASSUME NEW hits \in Seq(Nat), clock \in Nat, InOrder(hits)
    PROVE  /\ Cardinality(Stale(hits)) \in 0 .. Len(hits)
           /\ Stale(hits) = 1 .. Cardinality(Stale(hits))
<1> DEFINE S == Stale(hits)
           n == Cardinality(S)
<1>1. S \subseteq 1 .. Len(hits) /\ IsFiniteSet(S) /\ n \in Nat /\ n <= Len(hits)
  <2>1. S \subseteq 1 .. Len(hits)
    BY DEF Stale
  <2>2. PICK len \in Nat : len = Len(hits)
    OBVIOUS
  <2>3. IsFiniteSet(1 .. len) /\ Cardinality(1 .. len) = IF 1 > len THEN 0 ELSE len - 1 + 1
    BY FS_Interval
  <2>4. QED BY <2>1, <2>2, <2>3, FS_Subset, FS_CardinalityType
<1>2. ASSUME NEW i \in S, NEW j \in 1 .. i PROVE j \in S
  <2>1. i \in 1 .. Len(hits) /\ clock - hits[i] >= WINDOW /\ j \in 1 .. Len(hits)
    BY DEF Stale
  <2>2. hits[j] <= hits[i] /\ hits[i] \in Nat /\ hits[j] \in Nat
    BY <2>1 DEF InOrder
  <2>3. clock - hits[j] >= WINDOW
    <3>1. PICK x \in Nat, y \in Nat : x = hits[i] /\ y = hits[j]
      BY <2>2
    <3>2. clock - x >= WINDOW /\ y <= x /\ WINDOW \in Nat
      BY <2>1, <2>2, <3>1, AccountsAssumption
    <3>3. clock - y >= WINDOW
      BY <3>2
    <3>4. QED BY <3>1, <3>3
  <2>4. QED BY <2>1, <2>3 DEF Stale
<1> HIDE DEF S, n
<1>3. ASSUME NEW i \in S PROVE i \in 1 .. n
  <2>1. i \in Nat \ {0} /\ 1 .. i \subseteq S
    BY <1>1, <1>2
  <2>2. Cardinality(1 .. i) = i
    BY <2>1, FS_Interval
  <2>3. QED BY <1>1, <2>1, <2>2, FS_Subset DEF n
<1>4. ASSUME NEW i \in 1 .. n, i \notin S PROVE FALSE
  <2>1. S \subseteq 1 .. (i - 1)
    BY <1>1, <1>2, <1>4
  <2>2. IsFiniteSet(1 .. (i - 1)) /\ Cardinality(1 .. (i - 1)) = i - 1
    BY <1>1, FS_Interval
  <2>3. Cardinality(S) <= Cardinality(1 .. (i - 1))
    BY <2>1, <2>2, FS_Subset
  <2>4. n <= i - 1
    BY <2>2, <2>3 DEF n
  <2>5. QED BY <1>1, <2>4
<1>5. S = 1 .. n
  BY <1>1, <1>3, <1>4
<1>6. QED BY <1>1, <1>5 DEF S, n

\* What retain leaves of a tail is a tail, and all of it is in the window.
LEMMA FreshIsTail ==
    ASSUME NEW hits \in Seq(Nat), NEW all \in Seq(Nat), clock \in Nat,
           InOrder(all), IsTail(hits, all)
    PROVE  /\ Fresh(hits) \in Seq(Nat)
           /\ \E d \in Nat : /\ TailFrom(Fresh(hits), all, d)
                             /\ \A i \in (d + 1) .. Len(all) : clock - all[i] < WINDOW
<1>1. PICK d \in Nat : TailFrom(hits, all, d)
  BY DEF IsTail
<1>2. PICK h \in Nat : h = Len(hits)
  OBVIOUS
<1>3. /\ Len(all) = d + h /\ DOMAIN hits = 1 .. h /\ DOMAIN all = 1 .. (d + h)
      /\ hits \in [1 .. h -> Nat] /\ all \in [1 .. (d + h) -> Nat]
  BY <1>1, <1>2 DEF TailFrom
<1>4. /\ \A i \in 1 .. h : hits[i] = all[d + i]
      /\ \A i \in 1 .. d : clock - all[i] >= WINDOW
  BY <1>1, <1>2 DEF TailFrom
<1>5. InOrder(hits)
  <2>1. \A i \in 1 .. h : d + i \in 1 .. (d + h)
    OBVIOUS
  <2>2. \A i, j \in 1 .. h : i <= j => d + i <= d + j
    OBVIOUS
  <2>3. QED BY <1>3, <1>4, <2>1, <2>2 DEF InOrder
<1>6. PICK n \in Nat : n <= h /\ n = Cardinality(Stale(hits)) /\ Stale(hits) = 1 .. n
  BY <1>2, <1>5, StaleFirst
<1>7. n <= h
  BY <1>6
<1>8. /\ Fresh(hits) \in Seq(Nat) /\ Len(Fresh(hits)) = h - n
      /\ \A i \in 1 .. h - n : Fresh(hits)[i] = hits[n + i]
  <2>1. PICK first \in Int : first = n + 1
    OBVIOUS
  <2>2. \A i \in first .. h : hits[i] \in Nat
    BY <1>3, <2>1
  <2>3. Fresh(hits) = SubSeq(hits, first, h)
    <3>1. Fresh(hits) = SubSeq(hits, n + 1, h)
      BY <1>2, <1>6, Zenon DEF Fresh
    <3>2. QED BY <2>1, <3>1, Zenon
  <2>4. /\ Fresh(hits) \in Seq(Nat)
        /\ Len(Fresh(hits)) = IF first <= h THEN h - first + 1 ELSE 0
        /\ \A i \in 1 .. h - first + 1 : Fresh(hits)[i] = hits[first + i - 1]
    BY <2>2, <2>3, SubSeqProperties
  <2>5. Len(Fresh(hits)) = h - n /\ h - first + 1 = h - n
    <3>1. (IF first <= h THEN h - first + 1 ELSE 0) = h - n /\ h - first + 1 = h - n
      BY <1>7, <2>1
    <3>2. QED BY <2>4, <3>1
  <2>6. ASSUME NEW i \in 1 .. h - n PROVE Fresh(hits)[i] = hits[n + i]
    <3>1. first + i - 1 = n + i
      BY <1>7, <2>1
    <3>2. QED BY <2>4, <2>5, <3>1
  <2>7. QED BY <2>4, <2>5, <2>6
<1>9. \A i \in 1 .. d + n : clock - all[i] >= WINDOW
  <2> TAKE i \in 1 .. d + n
  <2>1. CASE i <= d
    BY <1>4, <2>1
  <2>2. CASE i > d
    <3>1. PICK e \in 1 .. n : d + e = i
      BY <2>2
    <3>2. e \in 1 .. h /\ clock - hits[e] >= WINDOW
      BY <1>6, <3>1 DEF Stale
    <3>3. QED BY <1>4, <3>1, <3>2
  <2>3. QED BY <2>1, <2>2
<1>10. \A i \in (d + n + 1) .. (d + h) : clock - all[i] < WINDOW
  <2> TAKE i \in (d + n + 1) .. (d + h)
  <2>1. PICK e \in (n + 1) .. h : d + e = i
    OBVIOUS
  <2>2. e \in 1 .. h /\ e \notin Stale(hits) /\ hits[e] = all[i] /\ hits[e] \in Nat
    <3>1. e \in 1 .. h /\ e \notin 1 .. n
      BY <1>7, <2>1
    <3>2. QED BY <1>3, <1>4, <1>6, <2>1, <3>1
  <2>3. ~(clock - hits[e] >= WINDOW)
    BY <1>3, <2>2 DEF Stale
  <2>4. QED BY <2>2, <2>3, AccountsAssumption
<1>11. TailFrom(Fresh(hits), all, d + n)
  <2>1. d + h = (d + n) + (h - n) /\ d + n \in Nat
    BY <1>6
  <2>2. ASSUME NEW i \in 1 .. h - n PROVE Fresh(hits)[i] = all[(d + n) + i]
    <3>1. n + i \in 1 .. h /\ d + (n + i) = (d + n) + i
      BY <1>6
    <3>2. QED BY <1>4, <1>8, <3>1
  <2>3. QED BY <1>3, <1>8, <1>9, <2>1, <2>2 DEF TailFrom
<1>12. QED BY <1>3, <1>8, <1>10, <1>11

\* Attempts of one caller that fall within WINDOW of the i-th.
Burst(all, i) == {j \in DOMAIN all : all[j] <= all[i] /\ all[i] - all[j] < WINDOW}

\* The table after its clean-up still holds the tail of every caller.
LEMMA TrackedIsTail ==
    ASSUME ThrottleInv
    PROVE  /\ Tracked \in [Callers -> Seq(Nat)]
           /\ \A c \in Callers : IsTail(Tracked[c], allowed[c])
<1>1. ThrottleTypeOK /\ \A c \in Callers : InOrder(allowed[c]) /\ IsTail(seen[c], allowed[c])
  BY DEF ThrottleInv
<1>2. \A c \in Callers : Tracked[c] = seen[c] \/ (Fresh(seen[c]) = <<>> /\ Tracked[c] = <<>>)
  BY DEF Tracked
<1>3. Tracked \in [Callers -> Seq(Nat)]
  BY <1>1 DEF Tracked, ThrottleTypeOK
<1>4. ASSUME NEW c \in Callers PROVE IsTail(Tracked[c], allowed[c])
  <2>1. CASE Tracked[c] = seen[c]
    BY <1>1, <2>1
  <2>2. CASE Fresh(seen[c]) = <<>> /\ Tracked[c] = <<>>
    <3>1. seen[c] \in Seq(Nat) /\ allowed[c] \in Seq(Nat) /\ clock \in Nat
      BY <1>1 DEF ThrottleTypeOK
    <3>2. \E d \in Nat : TailFrom(Fresh(seen[c]), allowed[c], d)
      BY <1>1, <3>1, FreshIsTail
    <3>3. QED BY <2>2, <3>2 DEF IsTail
  <2>3. QED BY <1>2, <2>1, <2>2
<1>5. QED BY <1>3, <1>4

\* An attempt that is let through comes after fewer than MAX_ATTEMPTS in the
\* window, so that no burst is larger than that.
LEMMA LetThrough ==
    ASSUME NEW all \in Seq(Nat), NEW hits \in Seq(Nat), NEW d \in Nat, clock \in Nat,
           InOrder(all), TailFrom(hits, all, d), Len(hits) < MAX_ATTEMPTS,
           \A i \in DOMAIN all : Cardinality(Burst(all, i)) <= MAX_ATTEMPTS
    PROVE  /\ Append(all, clock) \in Seq(Nat) /\ Append(hits, clock) \in Seq(Nat)
           /\ InOrder(Append(all, clock)) /\ TailFrom(Append(hits, clock), Append(all, clock), d)
           /\ \A i \in DOMAIN Append(all, clock) :
                 Cardinality(Burst(Append(all, clock), i)) <= MAX_ATTEMPTS
<1>1. PICK h \in Nat, t \in Nat : h = Len(hits) /\ t = clock
  OBVIOUS
<1>2. /\ Len(all) = d + h /\ DOMAIN hits = 1 .. h /\ DOMAIN all = 1 .. (d + h)
      /\ \A i \in 1 .. (d + h) : all[i] \in Nat /\ all[i] <= t
      /\ \A i, j \in 1 .. (d + h) : i <= j => all[i] <= all[j]
      /\ \A i \in 1 .. h : hits[i] = all[d + i]
      /\ \A i \in 1 .. d : t - all[i] >= WINDOW
  <2>1. Len(all) = d + h /\ DOMAIN hits = 1 .. h /\ DOMAIN all = 1 .. (d + h)
    BY <1>1 DEF TailFrom
  <2>2. all \in [1 .. (d + h) -> Nat]
    BY <2>1
  <2>3. /\ \A i \in 1 .. (d + h) : all[i] <= t
        /\ \A i, j \in 1 .. (d + h) : i <= j => all[i] <= all[j]
    BY <1>1, <2>1 DEF InOrder
  <2>4. /\ \A i \in 1 .. h : hits[i] = all[d + i]
        /\ \A i \in 1 .. d : t - all[i] >= WINDOW
    BY <1>1 DEF TailFrom
  <2>5. QED BY <2>1, <2>2, <2>3, <2>4
<1>3. PICK more \in Seq(Nat) : more = Append(all, t)
  BY AppendProperties
<1>4. PICK kept1 \in Seq(Nat) : kept1 = Append(hits, t)
  BY AppendProperties
<1>5. /\ Len(more) = d + h + 1 /\ DOMAIN more = 1 .. (d + h + 1) /\ more[d + h + 1] = t
      /\ \A i \in 1 .. (d + h) : more[i] = all[i]
  BY <1>2, <1>3
<1>6. /\ Len(kept1) = h + 1 /\ DOMAIN kept1 = 1 .. (h + 1) /\ kept1[h + 1] = t
      /\ \A i \in 1 .. h : kept1[i] = hits[i]
  BY <1>1, <1>4
<1>7. InOrder(more)
  <2>1. \A i \in 1 .. (d + h + 1) : i = d + h + 1 \/ i \in 1 .. (d + h)
    OBVIOUS
  <2>2. \A i \in 1 .. (d + h + 1) : more[i] <= t
    <3> TAKE i \in 1 .. (d + h + 1)
    <3>1. CASE i = d + h + 1
      BY <1>5, <3>1
    <3>2. CASE i \in 1 .. (d + h)
      BY <1>2, <1>5, <3>2
    <3>3. QED BY <2>1, <3>1, <3>2
  <2>3. \A i, j \in 1 .. (d + h + 1) : i <= j => more[i] <= more[j]
    <3> TAKE i, j \in 1 .. (d + h + 1)
    <3>1. CASE j = d + h + 1
      BY <1>5, <2>2, <3>1
    <3>2. CASE j # d + h + 1 /\ i <= j
      <4>1. i \in 1 .. (d + h) /\ j \in 1 .. (d + h)
        BY <3>2
      <4>2. QED BY <1>2, <1>5, <3>2, <4>1
    <3>3. QED BY <3>1, <3>2
  <2>4. QED BY <1>1, <1>5, <2>2, <2>3 DEF InOrder
<1>8. TailFrom(kept1, more, d)
  <2>1. \A i \in 1 .. (h + 1) : kept1[i] = more[d + i]
    <3> TAKE i \in 1 .. (h + 1)
    <3>1. CASE i = h + 1
      BY <1>5, <1>6, <3>1
    <3>2. CASE i # h + 1
      <4>1. i \in 1 .. h /\ d + i \in 1 .. (d + h)
        BY <3>2
      <4>2. QED BY <1>2, <1>5, <1>6, <4>1
    <3>3. QED BY <3>1, <3>2
  <2>2. \A i \in 1 .. d : t - more[i] >= WINDOW
    <3>1. \A i \in 1 .. d : i \in 1 .. (d + h)
      OBVIOUS
    <3>2. QED BY <1>2, <1>5, <3>1
  <2>3. d + h + 1 = d + (h + 1)
    OBVIOUS
  <2>4. QED BY <1>1, <1>5, <1>6, <2>1, <2>2, <2>3 DEF TailFrom
<1>9. ASSUME NEW i \in 1 .. (d + h + 1) PROVE Cardinality(Burst(more, i)) <= MAX_ATTEMPTS
  <2>1. CASE more[i] = t
    <3>1. Burst(more, i) \subseteq (d + 1) .. (d + h + 1)
      <4>1. ASSUME NEW j \in Burst(more, i) PROVE j \in (d + 1) .. (d + h + 1)
        <5>1. j \in 1 .. (d + h + 1) /\ t - more[j] < WINDOW
          BY <1>5, <2>1 DEF Burst
        <5>2. ~(j <= d)
          <6>1. j <= d => j \in 1 .. d /\ j \in 1 .. (d + h)
            BY <5>1
          <6>2. j <= d => t - more[j] >= WINDOW /\ more[j] \in Nat
            BY <1>2, <1>5, <6>1
          <6>3. QED BY <5>1, <6>2, AccountsAssumption
        <5>3. QED BY <5>1, <5>2
      <4>2. QED BY <4>1
    <3>2. /\ IsFiniteSet((d + 1) .. (d + h + 1))
          /\ Cardinality((d + 1) .. (d + h + 1)) = h + 1
      <4>1. PICK a \in Int, b \in Int : a = d + 1 /\ b = d + h + 1
        OBVIOUS
      <4>2. IsFiniteSet(a .. b) /\ Cardinality(a .. b) = IF a > b THEN 0 ELSE b - a + 1
        BY FS_Interval
      <4>3. (IF a > b THEN 0 ELSE b - a + 1) = h + 1
        BY <4>1
      <4>4. QED BY <4>1, <4>2, <4>3
    <3>3. IsFiniteSet(Burst(more, i)) /\ Cardinality(Burst(more, i)) <= h + 1
      BY <3>1, <3>2, FS_Subset
    <3>4. Cardinality(Burst(more, i)) \in Nat /\ h < MAX_ATTEMPTS
      BY <1>1, <3>3, FS_CardinalityType
    <3>5. QED BY <3>3, <3>4, AccountsAssumption
  <2>2. CASE more[i] # t
    <3>1. i \in 1 .. (d + h) /\ more[i] = all[i] /\ all[i] \in Nat /\ all[i] < t
      <4>1. i # d + h + 1
        BY <1>5, <2>2
      <4>2. i \in 1 .. (d + h)
        BY <4>1
      <4>3. QED BY <1>2, <1>5, <2>2, <4>2
    <3>2. ASSUME NEW j \in Burst(more, i) PROVE j \in Burst(all, i)
      <4>1. j \in 1 .. (d + h + 1) /\ more[j] <= more[i] /\ more[i] - more[j] < WINDOW
        BY <1>5 DEF Burst
      <4>2. j # d + h + 1
        <5>1. j = d + h + 1 => t <= all[i]
          BY <1>5, <3>1, <4>1
        <5>2. QED BY <3>1, <5>1
      <4>3. j \in 1 .. (d + h)
        BY <4>1, <4>2
      <4>4. QED BY <1>2, <1>5, <3>1, <4>1, <4>3 DEF Burst
    <3>3. Burst(all, i) \subseteq Burst(more, i)
      <4>1. ASSUME NEW j \in Burst(all, i) PROVE j \in Burst(more, i)
        <5>1. j \in 1 .. (d + h) /\ all[j] <= all[i] /\ all[i] - all[j] < WINDOW
          BY <1>2 DEF Burst
        <5>2. j \in 1 .. (d + h + 1) /\ more[j] = all[j]
          BY <1>5, <5>1
        <5>3. QED BY <1>5, <3>1, <5>1, <5>2 DEF Burst
      <4>2. QED BY <4>1
    <3>4. Burst(more, i) = Burst(all, i)
      BY <3>2, <3>3
    <3>5. QED BY <1>2, <3>1, <3>4
  <2>3. QED BY <2>1, <2>2
<1>10. \A i \in DOMAIN more : Cardinality(Burst(more, i)) <= MAX_ATTEMPTS
  BY <1>5, <1>9
<1>11. QED BY <1>1, <1>3, <1>4, <1>7, <1>8, <1>10

\* Nobody has tried yet.
LEMMA ThrottleStarts == AccountsInit => ThrottleInv
<1> SUFFICES ASSUME AccountsInit PROVE ThrottleInv
  OBVIOUS
<1>1. \A c \in Callers : seen[c] = <<>> /\ allowed[c] = <<>>
  BY DEF AccountsInit
<1>2. ThrottleTypeOK
  BY DEF AccountsInit, ThrottleTypeOK
<1>3. ASSUME NEW c \in Callers
      PROVE  /\ InOrder(allowed[c]) /\ IsTail(seen[c], allowed[c]) /\ DOMAIN allowed[c] = {}
  <2>1. TailFrom(seen[c], allowed[c], 0) /\ DOMAIN allowed[c] = {}
    BY <1>1 DEF TailFrom
  <2>2. QED BY <2>1 DEF InOrder, IsTail
<1>4. QED BY <1>2, <1>3 DEF ThrottleInv, NoBurst

\* As time passes hits stay in order, and what has left the window stays out.
LEMMA TimeKept ==
    ASSUME ThrottleInv, TimePasses
    PROVE  ThrottleInv'
<1>1. /\ ThrottleTypeOK /\ NoBurst /\ clock' = clock + 1 /\ UNCHANGED <<seen, allowed>>
      /\ \A c \in Callers : InOrder(allowed[c]) /\ IsTail(seen[c], allowed[c])
  BY DEF ThrottleInv, TimePasses
<1>2. ThrottleTypeOK' /\ NoBurst'
  BY <1>1 DEF ThrottleTypeOK, NoBurst
<1>3. ASSUME NEW c \in Callers PROVE InOrder(allowed[c])' /\ IsTail(seen[c], allowed[c])'
  <2>1. PICK all \in Seq(Nat), t \in Nat : all = allowed[c] /\ t = clock
    BY <1>1 DEF ThrottleTypeOK
  <2>2. PICK d \in Nat : TailFrom(seen[c], all, d)
    BY <1>1, <2>1 DEF IsTail
  <2>3. \A i \in DOMAIN all : all[i] \in Nat
    OBVIOUS
  <2>4. \A i \in DOMAIN all : all[i] <= t + 1
    BY <1>1, <2>1, <2>3 DEF InOrder
  <2>5. \A i \in 1 .. d : t - all[i] >= WINDOW /\ i \in DOMAIN all
    <3>1. Len(all) = d + Len(seen[c]) /\ Len(seen[c]) \in Nat
      BY <1>1, <2>2 DEF TailFrom, ThrottleTypeOK
    <3>2. QED BY <2>1, <2>2, <3>1 DEF TailFrom
  <2>6. \A i \in 1 .. d : (t + 1) - all[i] >= WINDOW
    BY <2>3, <2>5, AccountsAssumption
  <2>7. QED BY <1>1, <2>1, <2>2, <2>4, <2>6 DEF InOrder, IsTail, TailFrom
<1>4. QED BY <1>2, <1>3 DEF ThrottleInv

\* An attempt, refused or let through.
LEMMA CheckKept ==
    ASSUME ThrottleInv, NEW c \in Callers, check(c)
    PROVE  ThrottleInv'
<1>1. /\ ThrottleTypeOK /\ \A b \in Callers : InOrder(allowed[b]) /\ IsTail(seen[b], allowed[b])
      /\ \A b \in Callers : \A i \in DOMAIN allowed[b] :
            Cardinality(Burst(allowed[b], i)) <= MAX_ATTEMPTS
  BY DEF ThrottleInv, NoBurst, Burst
<1>2. Tracked \in [Callers -> Seq(Nat)] /\ \A b \in Callers : IsTail(Tracked[b], allowed[b])
  BY TrackedIsTail
<1>3. PICK hits \in Seq(Nat), d \in Nat : hits = Fresh(Tracked[c]) /\ TailFrom(hits, allowed[c], d)
  BY <1>1, <1>2, FreshIsTail DEF ThrottleTypeOK
<1>4. clock' = clock /\ clock \in Nat
  BY <1>1 DEF check, ThrottleTypeOK
<1>5. SUFFICES /\ seen' \in [Callers -> Seq(Nat)] /\ allowed' \in [Callers -> Seq(Nat)]
               /\ \A b \in Callers :
                    /\ InOrder(allowed'[b]) /\ IsTail(seen'[b], allowed'[b])
                    /\ \A i \in DOMAIN allowed'[b] : Cardinality(Burst(allowed'[b], i)) <= MAX_ATTEMPTS
  BY <1>4 DEF ThrottleInv, ThrottleTypeOK, NoBurst, Burst, InOrder, IsTail, TailFrom
<1>6. CASE Len(hits) < MAX_ATTEMPTS
  <2>1. /\ seen' = [Tracked EXCEPT ![c] = Append(hits, clock)]
        /\ allowed' = [allowed EXCEPT ![c] = Append(allowed[c], clock)]
    BY <1>3, <1>6 DEF check
  <2>2. /\ Append(allowed[c], clock) \in Seq(Nat) /\ Append(hits, clock) \in Seq(Nat)
        /\ InOrder(Append(allowed[c], clock))
        /\ IsTail(Append(hits, clock), Append(allowed[c], clock))
        /\ \A i \in DOMAIN Append(allowed[c], clock) :
              Cardinality(Burst(Append(allowed[c], clock), i)) <= MAX_ATTEMPTS
    <3>1. allowed[c] \in Seq(Nat)
      BY <1>1 DEF ThrottleTypeOK
    <3>2. QED BY <1>1, <1>3, <1>4, <1>6, <3>1, LetThrough DEF IsTail
  <2>3. /\ seen'[c] = Append(hits, clock) /\ allowed'[c] = Append(allowed[c], clock)
        /\ \A b \in Callers \ {c} : seen'[b] = Tracked[b] /\ allowed'[b] = allowed[b]
        /\ seen' \in [Callers -> Seq(Nat)] /\ allowed' \in [Callers -> Seq(Nat)]
    BY <1>1, <1>2, <2>1, <2>2 DEF ThrottleTypeOK
  <2>4. QED BY <1>1, <1>2, <2>2, <2>3
<1>7. CASE ~(Len(hits) < MAX_ATTEMPTS)
  <2>1. seen' = [Tracked EXCEPT ![c] = hits] /\ allowed' = allowed
    BY <1>3, <1>7 DEF check
  <2>2. /\ seen'[c] = hits /\ \A b \in Callers \ {c} : seen'[b] = Tracked[b]
        /\ seen' \in [Callers -> Seq(Nat)]
    BY <1>2, <2>1
  <2>3. IsTail(hits, allowed[c])
    BY <1>3 DEF IsTail
  <2>4. QED BY <1>1, <1>2, <2>1, <2>2, <2>3 DEF ThrottleTypeOK
<1>8. QED BY <1>6, <1>7

\* Sign-in is as SessionsInv and ThrottleInv say in every reachable state.
THEOREM SignInInvariance == EntitlementsSpec => [](SessionsInv /\ ThrottleInv)
<1>1. EntitlementsInit => SessionsInv /\ ThrottleInv
  BY ThrottleStarts DEF EntitlementsInit, AccountsInit, SessionsInv, DisabledIsSignedOut
<1>2. SessionsInv /\ ThrottleInv /\ [EntitlementsNext]_entitlementVars => SessionsInv' /\ ThrottleInv'
  <2> SUFFICES ASSUME SessionsInv, ThrottleInv, [EntitlementsNext]_entitlementVars
               PROVE  SessionsInv' /\ ThrottleInv'
    OBVIOUS
  <2>1. SessionsInv'
    BY AccountsFrame, SessionsKept
  <2>2. ASSUME ThrottleNext PROVE ThrottleInv'
    BY <2>2, TimeKept, CheckKept DEF ThrottleNext
  <2>3. ASSUME UNCHANGED throttleVars PROVE ThrottleInv'
    <3>1. UNCHANGED <<clock, seen, allowed>>
      BY <2>3 DEF throttleVars
    <3>2. QED BY <3>1 DEF ThrottleInv, ThrottleTypeOK, NoBurst, InOrder, IsTail, TailFrom
  <2>4. UNCHANGED throttleVars \/ ThrottleNext
    BY AccountsFrame DEF SessionNext, LoginChecks, create_auth_session, SessionEnds, set_disabled_row,
       set_disabled_sessions, Enable, DisableTakesOffAir, accountVars, throttleVars
  <2>5. QED BY <2>1, <2>2, <2>3, <2>4
<1>3. QED BY <1>1, <1>2, PTL DEF EntitlementsSpec

\* admin.rs set_disabled, throttle.rs check: an account that is off has no
\* session but one whose login was under way, and no caller gets more than
\* MAX_ATTEMPTS past the throttle within WINDOW, for any number of callers and
\* whatever the table forgets.
THEOREM SignInStaysGuarded == EntitlementsSpec => []SignInIsGuarded
<1>1. SessionsInv /\ ThrottleInv => SignInIsGuarded
  BY DEF SessionsInv, ThrottleInv, SignInIsGuarded
<1>2. QED BY <1>1, SignInInvariance, PTL

----------------------------------------------------------------------------
(* Billing. *)

Stages == {"idle", "open", "register", "attach", "failed", "ask", "revoke", "stop"}
Record == [status : Statuses, plan : Nat, rebill : BOOLEAN, activated : BOOLEAN]
Errand == [pc : Stages, order : Orders \cup {0}, plan : Nat]
Registration == [state : {"none", "registered", "charging", "stopped"}, charges : 0 .. MaxCharges]

BillingTypeOK ==
    /\ bill \in [Orders -> Record]
    /\ account \in [plan : Nat, active : BOOLEAN, gift : BOOLEAN]
    /\ ledger \subseteq Notices /\ applying \subseteq ledger /\ sent \subseteq Notices
    /\ req \in [Requests -> Errand]
    /\ provider \in [Orders -> Registration]
    /\ doubled \in BOOLEAN

Unregistered(o) == provider[o].state = "none"
LetGo(o) == o \in unasked \/ provider[o].state = "stopped"

\* What the status of a record says of its number and of PayApp's side.
RecordIsSound(o) ==
    /\ bill[o].status = "absent" => ~bill[o].rebill /\ Unregistered(o)
    /\ bill[o].activated => bill[o].rebill
    /\ bill[o].status = "RegistrationFailed" =>
          ~bill[o].rebill /\ (o \in orphaned \/ Unregistered(o))
    /\ bill[o].status = "Cancelled" => LetGo(o)
    /\ provider[o].state = "charging" => \E n \in sent : n.order = o

\* What is in the ledger went to a record with a number, and a payment
\* activated it.
LedgerIsSound ==
    /\ \A e \in ledger : bill[e.order].rebill
    /\ \A e \in ledger : e.state = "paid" => bill[e.order].activated
    /\ \A n \in applying : n.state = "paid"

Registers(r) == req[r].pc \in {"register", "attach", "failed"}

\* A checkout past its record has that record for itself; a cancellation has
\* asked PayApp, or had nothing to ask with.
RequestIsSound(r) ==
    LET o == req[r].order IN
    /\ Registers(r) => /\ o \in Orders /\ ~bill[o].rebill
                       /\ bill[o].status \in {"Pending", "Cancelled"}
                       /\ \A q \in Requests \ {r} : Registers(q) => req[q].order # o
    /\ req[r].pc = "register" => Unregistered(o)
    /\ req[r].pc = "failed" => o \in orphaned \/ Unregistered(o)
    /\ req[r].pc = "ask" => o \in Orders /\ bill[o].rebill
    /\ req[r].pc = "revoke" => o \in Orders /\ LetGo(o)

\* Records PayApp may charge, or come to charge, and that this side holds on to.
Liable(o) == /\ holds_the_provider(bill[o].status)
             /\ o \notin orphaned /\ ~LetGo(o)

\* While no two checkouts have overlapped there is one such record, and none
\* while a checkout is about to open another.
OneLiable ==
    doubled \/ /\ \A o, p \in Orders : Liable(o) /\ Liable(p) => o = p
               /\ (\E r \in Requests : req[r].pc = "open") => \A o \in Orders : ~Liable(o)

BillingInv ==
    /\ BillingTypeOK
    /\ \A o \in Orders : RecordIsSound(o)
    /\ LedgerIsSound
    /\ \A r \in Requests : RequestIsSound(r)
    /\ OneLiable /\ EntitlementIsPaidFor

\* What the account has stays paid for while the account is not written, the
\* ledger grows and what was activated stays as it is.
LEMMA StaysPaidFor ==
    ASSUME EntitlementIsPaidFor, account' = account, ledger \subseteq ledger',
           \A o \in Orders : bill[o].activated => bill'[o].activated /\ bill'[o].plan = bill[o].plan
    PROVE  EntitlementIsPaidFor'
BY DEF EntitlementIsPaidFor, PaidFor, paid_active, can_broadcast

\* No other record becomes one to charge, and no other checkout begins.
LEMMA StaysOne ==
    ASSUME OneLiable, doubled => doubled', doubled \in BOOLEAN,
           \A o \in Orders : Liable(o)' => Liable(o),
           \A r \in Requests : req'[r].pc = "open" => req[r].pc = "open"
    PROVE  OneLiable'
BY DEF OneLiable

\* A record is as sound as it was when neither it nor PayApp's side changes.
LEMMA RecordStays ==
    ASSUME NEW o \in Orders, RecordIsSound(o), bill'[o] = bill[o], provider'[o] = provider[o],
           orphaned \subseteq orphaned', unasked \subseteq unasked', sent \subseteq sent'
    PROVE  RecordIsSound(o)'
BY DEF RecordIsSound, Unregistered, LetGo

\* So is a request that does not move, while no other takes its record.
LEMMA RequestStays ==
    ASSUME NEW r \in Requests, RequestIsSound(r), req'[r] = req[r],
           \A o \in Orders : /\ bill[o].rebill => bill'[o].rebill
                             /\ LetGo(o) => LetGo(o)',
           req[r].order \in Orders => \/ ~Registers(r)
                                      \/ bill'[req[r].order] = bill[req[r].order]
                                      \/ /\ ~bill'[req[r].order].rebill
                                         /\ bill'[req[r].order].status \in {"Pending", "Cancelled"},
           req[r].order \in Orders /\ Registers(r) /\ Unregistered(req[r].order) =>
              Unregistered(req[r].order)',
           orphaned \subseteq orphaned',
           \A q \in Requests \ {r} : Registers(q)' /\ Registers(r) => req'[q].order # req[r].order
    PROVE  RequestIsSound(r)'
<1>1. \A o : o = req[r].order => req'[r].order = o /\ req'[r].pc = req[r].pc
  OBVIOUS
<1>2. Registers(r)' <=> Registers(r)
  BY DEF Registers
<1>3. QED BY <1>1, <1>2 DEF RequestIsSound, Registers

\* The errand of one thread changes.
LEMMA ErrandPut ==
    ASSUME req \in [Requests -> Errand], NEW r \in Requests, NEW to \in Errand,
           req' = [req EXCEPT ![r] = to]
    PROVE  /\ req' \in [Requests -> Errand] /\ req'[r] = to
           /\ \A q \in Requests \ {r} : req'[q] = req[q]
OBVIOUS

\* A thread that goes to another stage keeps its record and its plan.
LEMMA ErrandGoes ==
    ASSUME req \in [Requests -> Errand], NEW r \in Requests, NEW pc \in Stages, Goto(r, pc)
    PROVE  /\ req' \in [Requests -> Errand]
           /\ req'[r].pc = pc /\ req'[r].order = req[r].order
           /\ \A q \in Requests \ {r} : req'[q] = req[q]
<1>1. req[r] \in Errand
  OBVIOUS
<1>2. [req[r] EXCEPT !.pc = pc] \in Errand
  BY <1>1 DEF Errand
<1>3. QED BY <1>1, <1>2 DEF Goto, Errand

\* A thread that is done has no record.
LEMMA ErrandEnds ==
    ASSUME req \in [Requests -> Errand], NEW r \in Requests, Done(r)
    PROVE  /\ req' \in [Requests -> Errand] /\ req'[r].pc = "idle"
           /\ \A q \in Requests \ {r} : req'[q] = req[q]
<1>1. Idle \in Errand /\ Idle.pc = "idle"
  BY DEF Idle, Errand, Stages, Unsubscribed
<1>2. QED BY <1>1 DEF Done

\* PayApp's side of a record changes its state.
LEMMA StatePut ==
    ASSUME provider \in [Orders -> Registration], NEW o \in Orders,
           NEW to \in {"none", "registered", "charging", "stopped"},
           provider' = [provider EXCEPT ![o].state = to]
    PROVE  /\ provider' \in [Orders -> Registration]
           /\ provider'[o].state = to /\ provider'[o].charges = provider[o].charges
           /\ \A p \in Orders \ {o} : provider'[p] = provider[p]
<1>1. provider[o] \in Registration
  OBVIOUS
<1>2. [provider[o] EXCEPT !.state = to] \in Registration
  BY <1>1 DEF Registration
<1>3. QED BY <1>1, <1>2 DEF Registration

\* A record changes its status.
LEMMA StatusPut ==
    ASSUME bill \in [Orders -> Record], NEW o \in Orders, NEW to \in Statuses,
           bill' = [bill EXCEPT ![o].status = to]
    PROVE  /\ bill' \in [Orders -> Record] /\ bill'[o].status = to
           /\ bill'[o].plan = bill[o].plan /\ bill'[o].rebill = bill[o].rebill
           /\ bill'[o].activated = bill[o].activated
           /\ \A p \in Orders \ {o} : bill'[p] = bill[p]
<1>1. bill[o] \in Record
  OBVIOUS
<1>2. [bill[o] EXCEPT !.status = to] \in Record
  BY <1>1 DEF Record
<1>3. QED BY <1>1, <1>2 DEF Record

\* A set of records that is not empty has an oldest and a newest.
LEMMA HasEnds ==
    ASSUME NEW S \in SUBSET Orders, S # {}
    PROVE  /\ \E x \in S : \A y \in S : x <= y
           /\ \E x \in S : \A y \in S : y <= x
<1>1. ASSUME NEW T \in SUBSET Nat, T # {} PROVE \E x \in T : \A y \in T : x <= y
  <2>1. PICK x \in T : \A y \in T : ~(<<y, x>> \in OpToRel(<, Nat))
    BY <1>1, NatLessThanWellFounded, WFMin
  <2>2. \A y \in T : ~(y < x)
    BY <2>1 DEF OpToRel
  <2>3. QED BY <1>1, <2>2
<1>2. MaxOrders \in Nat /\ \A x \in S : x \in Nat /\ x <= MaxOrders
  BY BillingAssumption DEF Orders
<1>3. \E x \in S : \A y \in S : x <= y
  BY <1>1, <1>2
<1>4. PICK T \in SUBSET Nat : T = {MaxOrders - x : x \in S}
  <2>1. \A x \in S : MaxOrders - x \in Nat
    BY <1>2
  <2>2. {MaxOrders - x : x \in S} \subseteq Nat
    BY <2>1
  <2>3. QED BY <2>2
<1>5. PICK t \in T : \A u \in T : t <= u
  <2>1. T # {}
    BY <1>4
  <2>2. QED BY <1>1, <2>1
<1>6. PICK x \in S : t = MaxOrders - x
  BY <1>4
<1>7. ASSUME NEW y \in S PROVE y <= x
  <2>1. t <= MaxOrders - y
    BY <1>4, <1>5
  <2>2. QED BY <1>2, <1>6, <2>1
<1>8. QED BY <1>3, <1>7

\* An account with no live record has none PayApp is to charge.
LEMMA NoneLive ==
    ASSUME live_billing_subscription = {}
    PROVE  \A o \in Orders : ~holds_the_provider(bill[o].status)
<1> SUFFICES ASSUME NEW o \in Orders, holds_the_provider(bill[o].status) PROVE FALSE
  OBVIOUS
<1>1. PICK L \in SUBSET Orders : L = {p \in Orders : holds_the_provider(bill[p].status)}
  OBVIOUS
<1>2. PICK x \in L : \A y \in L : y <= x
  BY <1>1, HasEnds
<1>3. \A q \in Orders : q > x => ~holds_the_provider(bill[q].status)
  BY <1>1, <1>2 DEF Orders
<1>4. QED BY <1>1, <1>3 DEF live_billing_subscription

\* checkout looks for a live record and finds none.
LEMMA CheckoutBeginsKept ==
    ASSUME BillingInv, NEW r \in Requests, NEW p \in Plans, CheckoutBegins(r, p)
    PROVE  BillingInv'
<1>1. UNCHANGED <<bill, account, ledger, applying, provider, sent, orphaned, unasked, doubled>>
  BY DEF CheckoutBegins
<1>2. [pc |-> "open", order |-> 0, plan |-> p] \in Errand
  BY BillingAssumption DEF Errand, Stages
<1>3. /\ req' \in [Requests -> Errand] /\ req'[r].pc = "open"
      /\ \A q \in Requests \ {r} : req'[q] = req[q]
  <2>1. PICK to \in Errand : to = [pc |-> "open", order |-> 0, plan |-> p]
    BY <1>2
  <2>2. req' = [req EXCEPT ![r] = to] /\ to.pc = "open"
    BY <2>1 DEF CheckoutBegins
  <2>3. QED BY <2>2, ErrandPut DEF BillingInv, BillingTypeOK
<1>4. BillingTypeOK'
  BY <1>1, <1>3 DEF BillingInv, BillingTypeOK
<1>5. \A o \in Orders : RecordIsSound(o)'
  BY <1>1 DEF BillingInv, RecordIsSound, Unregistered, LetGo
<1>6. LedgerIsSound' /\ EntitlementIsPaidFor'
  BY <1>1 DEF BillingInv, LedgerIsSound, EntitlementIsPaidFor, PaidFor, paid_active
<1>7. ASSUME NEW q \in Requests PROVE RequestIsSound(q)'
  <2>1. CASE q = r
    BY <1>3, <2>1 DEF RequestIsSound, Registers
  <2>2. CASE q # r
    BY <1>1, <1>3, <2>2 DEF BillingInv, RequestIsSound, Registers, Unregistered, LetGo
  <2>3. QED BY <2>1, <2>2
<1>8. OneLiable'
  <2>1. \A o \in Orders : ~Liable(o)
    BY NoneLive DEF CheckoutBegins, Liable
  <2>2. \A o \in Orders : ~Liable(o)'
    BY <1>1, <2>1 DEF Liable, LetGo
  <2>3. QED BY <2>2 DEF OneLiable
<1>9. QED BY <1>4, <1>5, <1>6, <1>7, <1>8 DEF BillingInv

\* open_billing_subscription makes the next record, which nobody else has.
LEMMA OpenKept ==
    ASSUME BillingInv, NEW r \in Requests, open_billing_subscription(r)
    PROVE  BillingInv'
<1>1. UNCHANGED <<account, ledger, applying, provider, sent, orphaned, unasked>>
  BY DEF open_billing_subscription
<1>2. BillingTypeOK /\ req[r].pc = "open" /\ req[r] \in Errand
  BY DEF BillingInv, BillingTypeOK, open_billing_subscription
<1>3. PICK o \in Orders :
         /\ bill[o].status = "absent"
         /\ bill' = [bill EXCEPT ![o] = [NoRow EXCEPT !.status = "Pending", !.plan = req[r].plan]]
         /\ req' = [req EXCEPT ![r].pc = "register", ![r].order = o]
  <2> DEFINE fresh == {x \in Orders : bill[x].status = "absent"}
  <2>1. PICK x \in fresh : \A y \in fresh : x <= y
    <3>1. fresh \in SUBSET Orders /\ fresh # {}
      BY DEF open_billing_subscription
    <3>2. QED BY <3>1, HasEnds
  <2>2. (CHOOSE z \in fresh : \A y \in fresh : z <= y) \in fresh
    BY <2>1
  <2>3. QED BY <2>2 DEF open_billing_subscription
<1>4. /\ bill' \in [Orders -> Record] /\ bill'[o].status = "Pending"
      /\ ~bill'[o].rebill /\ ~bill'[o].activated
      /\ \A p \in Orders \ {o} : bill'[p] = bill[p]
  <2>1. PICK row \in Record : /\ row = [NoRow EXCEPT !.status = "Pending", !.plan = req[r].plan]
                              /\ row.status = "Pending" /\ ~row.rebill /\ ~row.activated
    <3>1. PICK p \in Nat : p = req[r].plan
      BY <1>2 DEF Errand
    <3>2. PICK base \in Record : base = NoRow /\ ~base.rebill /\ ~base.activated
      <4>1. NoRow \in Record
        BY DEF NoRow, Record, Statuses, Unsubscribed
      <4>2. NoRow.rebill = FALSE /\ NoRow.activated = FALSE
        BY DEF NoRow
      <4>3. QED BY <4>1, <4>2
    <3>3. PICK row \in Record : row = [base EXCEPT !.status = "Pending", !.plan = p]
      BY <3>1 DEF Record, Statuses
    <3>4. row.status = "Pending" /\ row.rebill = base.rebill /\ row.activated = base.activated
      BY <3>3 DEF Record
    <3>5. QED BY <3>1, <3>2, <3>3, <3>4
  <2>2. bill' = [bill EXCEPT ![o] = row]
    BY <1>3, <2>1
  <2>3. QED BY <1>2, <2>1, <2>2 DEF BillingTypeOK
<1>5. /\ req' \in [Requests -> Errand] /\ req'[r].pc = "register" /\ req'[r].order = o
      /\ \A q \in Requests \ {r} : req'[q] = req[q]
  <2>1. PICK to \in Errand : /\ to = [[req[r] EXCEPT !.pc = "register"] EXCEPT !.order = o]
                             /\ to.pc = "register" /\ to.order = o
    <3>1. [[req[r] EXCEPT !.pc = "register"] EXCEPT !.order = o] \in Errand
      BY <1>2 DEF Errand, Stages
    <3>2. QED BY <1>2, <3>1 DEF Errand
  <2>2. req' = [req EXCEPT ![r] = to]
    BY <1>2, <1>3, <2>1 DEF BillingTypeOK, Errand
  <2>3. QED BY <1>2, <2>1, <2>2, ErrandPut DEF BillingTypeOK
<1>6. doubled' \in BOOLEAN /\ doubled' = (doubled \/ \E q \in Requests \ {r} : req[q].pc = "open")
  BY DEF open_billing_subscription
<1>7. BillingTypeOK'
  BY <1>1, <1>2, <1>4, <1>5, <1>6 DEF BillingTypeOK
<1>8. /\ ~bill[o].rebill /\ ~bill[o].activated /\ Unregistered(o)
      /\ \A q \in Requests : Registers(q) => req[q].order # o
  BY <1>3 DEF BillingInv, RecordIsSound, RequestIsSound
<1>9. ASSUME NEW p \in Orders PROVE RecordIsSound(p)'
  <2>1. CASE p = o
    BY <1>1, <1>4, <1>8, <2>1 DEF RecordIsSound, Unregistered
  <2>2. CASE p # o
    BY <1>1, <1>4, <2>2, RecordStays DEF BillingInv
  <2>3. QED BY <2>1, <2>2
<1>10. LedgerIsSound'
  <2>1. \A e \in ledger : e.order \in Orders /\ e.order # o
    BY <1>2, <1>8 DEF BillingInv, LedgerIsSound, BillingTypeOK, Notices
  <2>2. QED BY <1>1, <1>4, <2>1 DEF BillingInv, LedgerIsSound
<1>11. EntitlementIsPaidFor'
  <2>1. \A p \in Orders : bill[p].activated => bill'[p].activated /\ bill'[p].plan = bill[p].plan
    BY <1>4, <1>8
  <2>2. QED BY <1>1, <2>1, StaysPaidFor DEF BillingInv
<1>12. ASSUME NEW q \in Requests PROVE RequestIsSound(q)'
  <2>1. CASE q = r
    BY <1>1, <1>4, <1>5, <1>8, <2>1 DEF RequestIsSound, Registers, Unregistered
  <2>2. CASE q # r
    <3>1. \A p \in Orders : (bill[p].rebill => bill'[p].rebill) /\ (LetGo(p) => LetGo(p)')
      BY <1>1, <1>4, <1>8 DEF LetGo
    <3>2. req[q].order \in Orders => ~Registers(q) \/ bill'[req[q].order] = bill[req[q].order]
      BY <1>4, <1>8
    <3>3. \A t \in Requests \ {q} : Registers(t)' /\ Registers(q) => req'[t].order # req[q].order
      <4>1. \A t \in Requests \ {q, r} : Registers(t)' => Registers(t) /\ req'[t].order = req[t].order
        BY <1>5 DEF Registers
      <4>2. QED BY <1>5, <1>8, <2>2, <4>1 DEF BillingInv, RequestIsSound
    <3>4. RequestIsSound(q) /\ req'[q] = req[q] /\ UNCHANGED <<provider, orphaned>>
      BY <1>1, <1>5, <2>2 DEF BillingInv
    <3>5. QED BY <3>1, <3>2, <3>3, <3>4, RequestStays DEF Unregistered
  <2>3. QED BY <2>1, <2>2
<1>13. OneLiable'
  <2>1. CASE doubled'
    BY <2>1 DEF OneLiable
  <2>2. CASE ~doubled'
    <3>1. ~doubled /\ \A q \in Requests \ {r} : req[q].pc # "open"
      BY <1>6, <2>2
    <3>2. \A p \in Orders : ~Liable(p)
      BY <1>2, <3>1 DEF BillingInv, OneLiable
    <3>3. \A p \in Orders \ {o} : ~Liable(p)'
      BY <1>1, <1>4, <3>2 DEF Liable, LetGo
    <3>4. \A q \in Requests : req'[q].pc # "open"
      BY <1>5, <3>1
    <3>5. QED BY <3>3, <3>4 DEF OneLiable
  <2>3. QED BY <2>1, <2>2
<1>14. QED BY <1>7, <1>9, <1>10, <1>11, <1>12, <1>13 DEF BillingInv

\* The other threads' requests stay sound when one thread takes no new record
\* and what it does to a record another is registering is harmless.
LEMMA OthersStay ==
    ASSUME \A q \in Requests : RequestIsSound(q), NEW r \in Requests,
           \A q \in Requests \ {r} : req'[q] = req[q],
           Registers(r)' => Registers(r) /\ req'[r].order = req[r].order,
           \A o \in Orders : (bill[o].rebill => bill'[o].rebill) /\ (LetGo(o) => LetGo(o)'),
           \A q \in Requests \ {r}, o \in Orders : Registers(q) /\ req[q].order = o =>
              /\ bill'[o] = bill[o] \/ (bill'[o].status \in {"Pending", "Cancelled"} /\ ~bill'[o].rebill)
              /\ Unregistered(o) => Unregistered(o)',
           orphaned \subseteq orphaned'
    PROVE  \A q \in Requests \ {r} : RequestIsSound(q)'
<1> SUFFICES ASSUME NEW q \in Requests \ {r} PROVE RequestIsSound(q)'
  OBVIOUS
<1>1. ASSUME NEW t \in Requests \ {q}, Registers(t)', Registers(q) PROVE req'[t].order # req[q].order
  <2>1. Registers(t) /\ req'[t].order = req[t].order
    BY <1>1 DEF Registers
  <2>2. QED BY <1>1, <2>1 DEF RequestIsSound
<1>2. RequestIsSound(q) /\ req'[q] = req[q]
  OBVIOUS
<1>3. req[q].order \in Orders /\ Registers(q) /\ Unregistered(req[q].order) => Unregistered(req[q].order)'
  OBVIOUS
<1>4. req[q].order \in Orders => \/ ~Registers(q)
                                 \/ bill'[req[q].order] = bill[req[q].order]
                                 \/ /\ ~bill'[req[q].order].rebill
                                    /\ bill'[req[q].order].status \in {"Pending", "Cancelled"}
  OBVIOUS
<1>5. QED BY <1>1, <1>2, <1>3, <1>4, RequestStays

\* PayApp answers a registration, or its answer is lost, or it refuses.
LEMMA RegisterKept ==
    ASSUME BillingInv, NEW r \in Requests, register(r)
    PROVE  BillingInv'
<1>1. UNCHANGED <<bill, account, ledger, applying, sent, unasked, doubled>> /\ req[r].pc = "register"
  BY DEF register
<1>2. BillingTypeOK /\ RequestIsSound(r)
  BY DEF BillingInv
<1>3. PICK o \in Orders : /\ o = req[r].order /\ ~bill[o].rebill /\ Unregistered(o)
                          /\ bill[o].status \in {"Pending", "Cancelled"}
                          /\ \A q \in Requests \ {r} : Registers(q) => req[q].order # o
  BY <1>1, <1>2 DEF RequestIsSound, Registers
<1>4. PICK answer \in {"ok", "lost", "refused"} :
         /\ provider' = IF answer = "refused" THEN provider
                        ELSE [provider EXCEPT ![o].state = "registered"]
         /\ orphaned' = IF answer = "lost" THEN orphaned \cup {o} ELSE orphaned
         /\ Goto(r, IF answer = "ok" THEN "attach" ELSE "failed")
  BY <1>3 DEF register
<1>5. PICK pc \in Stages : pc = (IF answer = "ok" THEN "attach" ELSE "failed")
  BY DEF Stages
<1>6. /\ req' \in [Requests -> Errand] /\ req'[r].pc = pc /\ req'[r].order = o
      /\ \A q \in Requests \ {r} : req'[q] = req[q]
  BY <1>2, <1>3, <1>4, <1>5, ErrandGoes DEF BillingTypeOK
<1>7. /\ provider' \in [Orders -> Registration]
      /\ \A p \in Orders \ {o} : provider'[p] = provider[p]
      /\ provider'[o].state \in {"none", "registered"}
      /\ provider'[o].state = "none" \/ answer \in {"ok", "lost"}
  <2>1. CASE answer = "refused"
    BY <1>2, <1>3, <1>4, <2>1 DEF BillingTypeOK, Unregistered
  <2>2. CASE answer # "refused"
    <3>1. provider' = [provider EXCEPT ![o].state = "registered"]
      BY <1>4, <2>2
    <3>2. QED BY <1>2, <2>2, <3>1, StatePut DEF BillingTypeOK
  <2>3. QED BY <2>1, <2>2
<1>8. answer = "ok" \/ o \in orphaned' \/ provider'[o].state = "none"
  BY <1>4, <1>7
<1>9. orphaned \subseteq orphaned' /\ orphaned' \subseteq orphaned \cup {o}
  BY <1>4
<1>10. BillingTypeOK'
  BY <1>1, <1>2, <1>6, <1>7 DEF BillingTypeOK
<1>11. ASSUME NEW p \in Orders PROVE RecordIsSound(p)'
  <2>1. CASE p = o
    BY <1>1, <1>3, <1>7, <2>1 DEF BillingInv, RecordIsSound, LetGo, Unregistered
  <2>2. CASE p # o
    BY <1>1, <1>7, <1>9, <2>2, RecordStays DEF BillingInv
  <2>3. QED BY <2>1, <2>2
<1>12. LedgerIsSound' /\ EntitlementIsPaidFor'
  BY <1>1 DEF BillingInv, LedgerIsSound, EntitlementIsPaidFor, PaidFor, paid_active
<1>13. \A p \in Orders : LetGo(p) => LetGo(p)'
  BY <1>1, <1>3, <1>7 DEF LetGo, Unregistered
<1>14. ASSUME NEW q \in Requests PROVE RequestIsSound(q)'
  <2>1. CASE q = r
    BY <1>1, <1>3, <1>5, <1>6, <1>8, <2>1 DEF RequestIsSound, Registers, Unregistered
  <2>2. CASE q # r
    <3>1. Registers(r) /\ req'[r].order = req[r].order
      BY <1>1, <1>3, <1>6 DEF Registers
    <3>2. \A t \in Requests \ {r} : Registers(t) =>
             req[t].order \in Orders /\ req[t].order # o
      BY <1>3 DEF BillingInv, RequestIsSound
    <3>3. \A t \in Requests \ {r}, p \in Orders : Registers(t) /\ req[t].order = p =>
             /\ bill'[p] = bill[p] \/ (bill'[p].status \in {"Pending", "Cancelled"} /\ ~bill'[p].rebill)
             /\ Unregistered(p) => Unregistered(p)'
      BY <1>1, <1>7, <3>2 DEF Unregistered
    <3>4. QED BY <1>1, <1>6, <1>9, <1>13, <2>2, <3>1, <3>3, OthersStay DEF BillingInv
  <2>3. QED BY <2>1, <2>2
<1>15. OneLiable'
  <2>1. \A p \in Orders : Liable(p)' => Liable(p)
    BY <1>1, <1>3, <1>7, <1>9 DEF Liable, LetGo, Unregistered
  <2>2. \A q \in Requests : req'[q].pc = "open" => req[q].pc = "open"
    BY <1>5, <1>6
  <2>3. QED BY <1>1, <1>2, <2>1, <2>2, StaysOne DEF BillingInv, BillingTypeOK
<1>16. QED BY <1>10, <1>11, <1>12, <1>14, <1>15 DEF BillingInv

\* The number PayApp gave is stored.
LEMMA AttachKept ==
    ASSUME BillingInv, NEW r \in Requests, attach_provider_subscription(r)
    PROVE  BillingInv'
<1>1. /\ UNCHANGED <<account, ledger, applying, provider, sent, orphaned, unasked, doubled>>
      /\ req[r].pc = "attach" /\ Done(r)
  BY DEF attach_provider_subscription
<1>2. BillingTypeOK /\ RequestIsSound(r)
  BY DEF BillingInv
<1>3. PICK o \in Orders : /\ o = req[r].order /\ ~bill[o].rebill
                          /\ bill[o].status \in {"Pending", "Cancelled"}
                          /\ \A q \in Requests \ {r} : Registers(q) => req[q].order # o
  BY <1>1, <1>2 DEF RequestIsSound, Registers
<1>4. /\ bill' \in [Orders -> Record] /\ bill'[o].status = bill[o].status /\ bill'[o].plan = bill[o].plan
      /\ bill'[o].rebill /\ bill'[o].activated = bill[o].activated
      /\ \A p \in Orders \ {o} : bill'[p] = bill[p]
  <2>1. bill[o] \in Record
    BY <1>2 DEF BillingTypeOK
  <2>2. PICK row \in Record : row = [bill[o] EXCEPT !.rebill = TRUE]
    BY <2>1 DEF Record
  <2>3. row.status = bill[o].status /\ row.plan = bill[o].plan /\ row.activated = bill[o].activated
    BY <2>1, <2>2 DEF Record
  <2>4. row.rebill = TRUE
    BY <2>1, <2>2 DEF Record
  <2>5. bill' = [bill EXCEPT ![o] = row]
    BY <1>2, <1>3, <2>2 DEF attach_provider_subscription, BillingTypeOK
  <2>6. QED BY <1>2, <2>3, <2>4, <2>5 DEF BillingTypeOK
<1>5. /\ req' \in [Requests -> Errand] /\ req'[r].pc = "idle"
      /\ \A q \in Requests \ {r} : req'[q] = req[q]
  BY <1>1, <1>2, ErrandEnds DEF BillingTypeOK
<1>6. BillingTypeOK'
  BY <1>1, <1>2, <1>4, <1>5 DEF BillingTypeOK
<1>7. ASSUME NEW p \in Orders PROVE RecordIsSound(p)'
  <2>1. CASE p = o
    BY <1>1, <1>3, <1>4, <2>1 DEF BillingInv, RecordIsSound, LetGo, Unregistered
  <2>2. CASE p # o
    BY <1>1, <1>4, <2>2, RecordStays DEF BillingInv
  <2>3. QED BY <2>1, <2>2
<1>8. LedgerIsSound'
  <2>1. \A e \in ledger : e.order \in Orders
    BY <1>2 DEF BillingTypeOK, Notices
  <2>2. \A p \in Orders : (bill[p].rebill => bill'[p].rebill) /\ (bill[p].activated => bill'[p].activated)
    BY <1>4
  <2>3. QED BY <1>1, <2>1, <2>2 DEF BillingInv, LedgerIsSound
<1>9. EntitlementIsPaidFor'
  <2>1. \A p \in Orders : bill[p].activated => bill'[p].activated /\ bill'[p].plan = bill[p].plan
    BY <1>4
  <2>2. QED BY <1>1, <2>1, StaysPaidFor DEF BillingInv
<1>10. ASSUME NEW q \in Requests PROVE RequestIsSound(q)'
  <2>1. CASE q = r
    BY <1>5, <2>1 DEF RequestIsSound, Registers
  <2>2. CASE q # r
    <3>1. ~Registers(r)'
      BY <1>5 DEF Registers
    <3>2. \A p \in Orders : (bill[p].rebill => bill'[p].rebill) /\ (LetGo(p) => LetGo(p)')
      BY <1>1, <1>4 DEF LetGo
    <3>3. \A t \in Requests \ {r} : Registers(t) => req[t].order \in Orders /\ req[t].order # o
      BY <1>3 DEF BillingInv, RequestIsSound
    <3>4. \A t \in Requests \ {r}, p \in Orders : Registers(t) /\ req[t].order = p =>
             /\ bill'[p] = bill[p] \/ (bill'[p].status \in {"Pending", "Cancelled"} /\ ~bill'[p].rebill)
             /\ Unregistered(p) => Unregistered(p)'
      BY <1>1, <1>4, <3>3 DEF Unregistered
    <3>5. QED BY <1>1, <1>5, <2>2, <3>1, <3>2, <3>4, OthersStay DEF BillingInv
  <2>3. QED BY <2>1, <2>2
<1>11. OneLiable'
  <2>1. \A p \in Orders : Liable(p)' => Liable(p)
    BY <1>1, <1>4 DEF Liable, LetGo
  <2>2. \A q \in Requests : req'[q].pc = "open" => req[q].pc = "open"
    BY <1>5
  <2>3. QED BY <1>1, <1>2, <2>1, <2>2, StaysOne DEF BillingInv, BillingTypeOK
<1>12. QED BY <1>6, <1>7, <1>8, <1>9, <1>10, <1>11 DEF BillingInv

\* A registration that came to nothing is written down.
LEMMA FailedKept ==
    ASSUME BillingInv, NEW r \in Requests, set_billing_status_failed(r)
    PROVE  BillingInv'
<1>1. /\ UNCHANGED <<account, ledger, applying, provider, sent, orphaned, unasked, doubled>>
      /\ req[r].pc = "failed" /\ Done(r)
  BY DEF set_billing_status_failed
<1>2. BillingTypeOK /\ RequestIsSound(r)
  BY DEF BillingInv
<1>3. PICK o \in Orders : /\ o = req[r].order /\ ~bill[o].rebill
                          /\ o \in orphaned \/ Unregistered(o)
                          /\ \A q \in Requests \ {r} : Registers(q) => req[q].order # o
  BY <1>1, <1>2 DEF RequestIsSound, Registers
<1>4. /\ bill' \in [Orders -> Record] /\ bill'[o].status = "RegistrationFailed"
      /\ bill'[o].plan = bill[o].plan /\ bill'[o].rebill = bill[o].rebill
      /\ bill'[o].activated = bill[o].activated
      /\ \A p \in Orders \ {o} : bill'[p] = bill[p]
  <2>1. bill' = [bill EXCEPT ![o].status = "RegistrationFailed"] /\ "RegistrationFailed" \in Statuses
    BY <1>3 DEF set_billing_status_failed, Statuses
  <2>2. QED BY <1>2, <2>1, StatusPut DEF BillingTypeOK
<1>5. /\ req' \in [Requests -> Errand] /\ req'[r].pc = "idle"
      /\ \A q \in Requests \ {r} : req'[q] = req[q]
  BY <1>1, <1>2, ErrandEnds DEF BillingTypeOK
<1>6. BillingTypeOK'
  BY <1>1, <1>2, <1>4, <1>5 DEF BillingTypeOK
<1>7. ASSUME NEW p \in Orders PROVE RecordIsSound(p)'
  <2>1. CASE p = o
    BY <1>1, <1>3, <1>4, <2>1 DEF BillingInv, RecordIsSound, Unregistered
  <2>2. CASE p # o
    BY <1>1, <1>4, <2>2, RecordStays DEF BillingInv
  <2>3. QED BY <2>1, <2>2
<1>8. LedgerIsSound'
  <2>1. \A e \in ledger : e.order \in Orders
    BY <1>2 DEF BillingTypeOK, Notices
  <2>2. \A p \in Orders : (bill[p].rebill => bill'[p].rebill) /\ (bill[p].activated => bill'[p].activated)
    BY <1>4
  <2>3. QED BY <1>1, <2>1, <2>2 DEF BillingInv, LedgerIsSound
<1>9. EntitlementIsPaidFor'
  <2>1. \A p \in Orders : bill[p].activated => bill'[p].activated /\ bill'[p].plan = bill[p].plan
    BY <1>4
  <2>2. QED BY <1>1, <2>1, StaysPaidFor DEF BillingInv
<1>10. ASSUME NEW q \in Requests PROVE RequestIsSound(q)'
  <2>1. CASE q = r
    BY <1>5, <2>1 DEF RequestIsSound, Registers
  <2>2. CASE q # r
    <3>1. ~Registers(r)'
      BY <1>5 DEF Registers
    <3>2. \A p \in Orders : (bill[p].rebill => bill'[p].rebill) /\ (LetGo(p) => LetGo(p)')
      BY <1>1, <1>4 DEF LetGo
    <3>3. \A t \in Requests \ {r}, p \in Orders : Registers(t) /\ req[t].order = p =>
             /\ bill'[p] = bill[p] \/ (bill'[p].status \in {"Pending", "Cancelled"} /\ ~bill'[p].rebill)
             /\ Unregistered(p) => Unregistered(p)'
      BY <1>1, <1>3, <1>4 DEF Unregistered
    <3>4. QED BY <1>1, <1>5, <2>2, <3>1, <3>2, <3>3, OthersStay DEF BillingInv
  <2>3. QED BY <2>1, <2>2
<1>11. OneLiable'
  <2>1. \A p \in Orders : Liable(p)' => Liable(p)
    BY <1>1, <1>4 DEF Liable, LetGo, holds_the_provider
  <2>2. \A q \in Requests : req'[q].pc = "open" => req[q].pc = "open"
    BY <1>5
  <2>3. QED BY <1>1, <1>2, <2>1, <2>2, StaysOne DEF BillingInv, BillingTypeOK
<1>12. QED BY <1>6, <1>7, <1>8, <1>9, <1>10, <1>11 DEF BillingInv

\* What stays when the rows and the ledger are not written: all that is said
\* of them, as long as what PayApp has let go of stays let go.
LEMMA RowsUnwritten ==
    ASSUME BillingInv, UNCHANGED <<bill, account, ledger, applying, sent, doubled>>,
           orphaned \subseteq orphaned', unasked \subseteq unasked',
           req' \in [Requests -> Errand], provider' \in [Orders -> Registration],
           \A o \in Orders : provider'[o].state \in {provider[o].state, "stopped"},
           \A o \in Orders : bill[o].rebill \/ provider'[o] = provider[o],
           \A q \in Requests : req'[q].pc = "open" => req[q].pc = "open"
    PROVE  /\ BillingTypeOK' /\ LedgerIsSound' /\ EntitlementIsPaidFor' /\ OneLiable'
           /\ \A o \in Orders : RecordIsSound(o)' /\ (LetGo(o) => LetGo(o)')
<1>1. BillingTypeOK'
  BY DEF BillingInv, BillingTypeOK
<1>2. LedgerIsSound' /\ EntitlementIsPaidFor'
  BY DEF BillingInv, LedgerIsSound, EntitlementIsPaidFor, PaidFor, paid_active
<1>3. \A o \in Orders : LetGo(o) => LetGo(o)'
  BY DEF LetGo
<1>4. ASSUME NEW o \in Orders PROVE RecordIsSound(o)'
  <2>1. RecordIsSound(o) /\ provider'[o].state \in {provider[o].state, "stopped"}
    BY DEF BillingInv
  <2>2. CASE bill[o].rebill
    BY <1>3, <2>1, <2>2 DEF RecordIsSound
  <2>3. CASE provider'[o] = provider[o]
    BY <1>3, <2>1, <2>3 DEF RecordIsSound, Unregistered
  <2>4. QED BY <2>2, <2>3
<1>5. OneLiable'
  <2>1. \A o \in Orders : Liable(o)' => Liable(o)
    BY DEF Liable, LetGo
  <2>2. QED BY <2>1, StaysOne DEF BillingInv, BillingTypeOK
<1>6. QED BY <1>1, <1>2, <1>3, <1>4, <1>5

\* A cancellation finds the live record: with a number it will ask PayApp,
\* without one there is nobody to ask.
LEMMA CancelBeginsKept ==
    ASSUME BillingInv, NEW r \in Requests, CancelBegins(r)
    PROVE  BillingInv'
<1>1. UNCHANGED <<bill, account, ledger, applying, provider, sent, orphaned, doubled>>
  BY DEF CancelBegins
<1>2. BillingTypeOK
  BY DEF BillingInv
<1>3. PICK o \in Orders :
         /\ req' = [req EXCEPT ![r] = [pc |-> IF bill[o].rebill THEN "ask" ELSE "revoke",
                                       order |-> o, plan |-> bill[o].plan]]
         /\ unasked' = IF bill[o].rebill THEN unasked ELSE unasked \cup {o}
  BY DEF CancelBegins, live_billing_subscription
<1>4. PICK pc \in {"ask", "revoke"} : pc = (IF bill[o].rebill THEN "ask" ELSE "revoke")
  OBVIOUS
<1>5. /\ req' \in [Requests -> Errand] /\ req'[r].pc = pc /\ req'[r].order = o
      /\ \A q \in Requests \ {r} : req'[q] = req[q]
  <2>1. bill[o].plan \in Nat
    BY <1>2 DEF BillingTypeOK, Record
  <2>2. PICK to \in Errand : to = [pc |-> pc, order |-> o, plan |-> bill[o].plan]
    BY <2>1 DEF Errand, Stages
  <2>3. req' = [req EXCEPT ![r] = to] /\ to.pc = pc /\ to.order = o
    BY <1>3, <1>4, <2>2
  <2>4. QED BY <1>2, <2>3, ErrandPut DEF BillingTypeOK
<1>6. unasked \subseteq unasked' /\ (pc = "ask" => bill[o].rebill) /\ (pc = "revoke" => o \in unasked')
  BY <1>3, <1>4
<1>7. /\ BillingTypeOK' /\ LedgerIsSound' /\ EntitlementIsPaidFor' /\ OneLiable'
      /\ \A p \in Orders : RecordIsSound(p)' /\ (LetGo(p) => LetGo(p)')
  <2>1. \A q \in Requests : req'[q].pc = "open" => req[q].pc = "open"
    BY <1>5
  <2>2. QED BY <1>1, <1>2, <1>5, <1>6, <2>1, RowsUnwritten DEF BillingTypeOK
<1>8. ASSUME NEW q \in Requests PROVE RequestIsSound(q)'
  <2>1. CASE q = r
    BY <1>1, <1>5, <1>6, <2>1 DEF RequestIsSound, Registers, LetGo
  <2>2. CASE q # r
    <3>1. ~Registers(r)'
      BY <1>5 DEF Registers
    <3>2. QED BY <1>1, <1>5, <1>7, <2>2, <3>1, OthersStay DEF BillingInv, Unregistered
  <2>3. QED BY <2>1, <2>2
<1>9. QED BY <1>7, <1>8 DEF BillingInv

\* PayApp is asked to stop: it does, it does and its answer is lost, or not.
LEMMA AskKept ==
    ASSUME BillingInv, NEW r \in Requests, AskProvider(r)
    PROVE  BillingInv'
<1>1. /\ UNCHANGED <<bill, account, ledger, applying, sent, orphaned, unasked, doubled>>
      /\ req[r].pc = "ask"
  BY DEF AskProvider
<1>2. BillingTypeOK /\ RequestIsSound(r)
  BY DEF BillingInv
<1>3. PICK o \in Orders : o = req[r].order /\ bill[o].rebill
  BY <1>1, <1>2 DEF RequestIsSound
<1>4. PICK answer \in {"ok", "lost", "refused"} :
         /\ provider' = IF answer = "refused" THEN provider
                        ELSE [provider EXCEPT ![o].state = "stopped"]
         /\ IF answer = "ok" THEN Goto(r, "revoke") ELSE Done(r)
  BY <1>3 DEF AskProvider
<1>5. /\ provider' \in [Orders -> Registration]
      /\ \A p \in Orders \ {o} : provider'[p] = provider[p]
      /\ provider'[o].state \in {provider[o].state, "stopped"}
      /\ answer = "ok" => provider'[o].state = "stopped"
  <2>1. CASE answer = "refused"
    BY <1>2, <1>4, <2>1 DEF BillingTypeOK
  <2>2. CASE answer # "refused"
    <3>1. provider' = [provider EXCEPT ![o].state = "stopped"]
      BY <1>4, <2>2
    <3>2. QED BY <1>2, <2>2, <3>1, StatePut DEF BillingTypeOK
  <2>3. QED BY <2>1, <2>2
<1>6. /\ req' \in [Requests -> Errand]
      /\ \A q \in Requests \ {r} : req'[q] = req[q]
      /\ req'[r].pc = "idle" \/ (answer = "ok" /\ req'[r].pc = "revoke" /\ req'[r].order = o)
  <2>1. CASE answer = "ok"
    <3>1. Goto(r, "revoke") /\ "revoke" \in Stages
      BY <1>4, <2>1 DEF Stages
    <3>2. QED BY <1>2, <1>3, <2>1, <3>1, ErrandGoes DEF BillingTypeOK
  <2>2. CASE answer # "ok"
    <3>1. Done(r)
      BY <1>4, <2>2
    <3>2. QED BY <1>2, <3>1, ErrandEnds DEF BillingTypeOK
  <2>3. QED BY <2>1, <2>2
<1>7. /\ BillingTypeOK' /\ LedgerIsSound' /\ EntitlementIsPaidFor' /\ OneLiable'
      /\ \A p \in Orders : RecordIsSound(p)' /\ (LetGo(p) => LetGo(p)')
  <2>1. \A q \in Requests : req'[q].pc = "open" => req[q].pc = "open"
    BY <1>6
  <2>2. \A p \in Orders : /\ provider'[p].state \in {provider[p].state, "stopped"}
                          /\ bill[p].rebill \/ provider'[p] = provider[p]
    BY <1>3, <1>5
  <2>3. QED BY <1>1, <1>5, <1>6, <2>1, <2>2, RowsUnwritten
<1>8. ASSUME NEW q \in Requests PROVE RequestIsSound(q)'
  <2>1. CASE q = r
    BY <1>5, <1>6, <2>1 DEF RequestIsSound, Registers, LetGo
  <2>2. CASE q # r
    <3>1. ~Registers(r)'
      BY <1>6 DEF Registers
    <3>2. \A t \in Requests \ {r}, p \in Orders : Registers(t) /\ req[t].order = p =>
             /\ bill'[p] = bill[p] \/ (bill'[p].status \in {"Pending", "Cancelled"} /\ ~bill'[p].rebill)
             /\ Unregistered(p) => Unregistered(p)'
      <4>1. \A t \in Requests \ {r}, p \in Orders : Registers(t) /\ req[t].order = p => p # o
        BY <1>3 DEF BillingInv, RequestIsSound
      <4>2. QED BY <1>1, <1>5, <4>1 DEF Unregistered
    <3>3. QED BY <1>1, <1>6, <1>7, <2>2, <3>1, <3>2, OthersStay DEF BillingInv
  <2>3. QED BY <2>1, <2>2
<1>9. QED BY <1>7, <1>8 DEF BillingInv

\* The broadcasts are stopped; no record is looked at.
LEMMA TakeOffAirKept ==
    ASSUME BillingInv, NEW r \in Requests, TakeOffAir(r)
    PROVE  BillingInv'
<1>1. /\ UNCHANGED <<bill, account, ledger, applying, provider, sent, orphaned, unasked, doubled>>
      /\ Done(r)
  BY DEF TakeOffAir
<1>2. BillingTypeOK
  BY DEF BillingInv
<1>3. /\ req' \in [Requests -> Errand] /\ req'[r].pc = "idle"
      /\ \A q \in Requests \ {r} : req'[q] = req[q]
  BY <1>1, <1>2, ErrandEnds DEF BillingTypeOK
<1>4. /\ BillingTypeOK' /\ LedgerIsSound' /\ EntitlementIsPaidFor' /\ OneLiable'
      /\ \A p \in Orders : RecordIsSound(p)' /\ (LetGo(p) => LetGo(p)')
  <2>1. \A q \in Requests : req'[q].pc = "open" => req[q].pc = "open"
    BY <1>3
  <2>2. QED BY <1>1, <1>2, <1>3, <2>1, RowsUnwritten DEF BillingTypeOK
<1>5. ASSUME NEW q \in Requests PROVE RequestIsSound(q)'
  <2>1. CASE q = r
    BY <1>3, <2>1 DEF RequestIsSound, Registers
  <2>2. CASE q # r
    <3>1. ~Registers(r)'
      BY <1>3 DEF Registers
    <3>2. QED BY <1>1, <1>3, <1>4, <2>2, <3>1, OthersStay DEF BillingInv, Unregistered
  <2>3. QED BY <2>1, <2>2
<1>6. QED BY <1>4, <1>5 DEF BillingInv

\* A record is cancelled, and the plan it bought taken back if the account is
\* still on it.
LEMMA CancelWrites ==
    ASSUME BillingInv, NEW o \in Orders, LetGo(o), cancel_billing_and_revoke(o),
           UNCHANGED <<ledger, applying, provider, sent, orphaned, unasked, doubled>>,
           req' \in [Requests -> Errand],
           \A q \in Requests : req'[q].pc = "open" => req[q].pc = "open"
    PROVE  /\ BillingTypeOK' /\ LedgerIsSound' /\ EntitlementIsPaidFor' /\ OneLiable'
           /\ \A p \in Orders : RecordIsSound(p)' /\ (LetGo(p) => LetGo(p)')
           /\ bill'[o].status = "Cancelled" /\ bill'[o].rebill = bill[o].rebill
           /\ \A p \in Orders \ {o} : bill'[p] = bill[p]
<1>1. BillingTypeOK
  BY DEF BillingInv
<1>2. /\ bill' \in [Orders -> Record] /\ bill'[o].status = "Cancelled"
      /\ bill'[o].plan = bill[o].plan /\ bill'[o].rebill = bill[o].rebill
      /\ bill'[o].activated = bill[o].activated
      /\ \A p \in Orders \ {o} : bill'[p] = bill[p]
  <2>1. bill' = [bill EXCEPT ![o].status = "Cancelled"] /\ "Cancelled" \in Statuses
    BY DEF cancel_billing_and_revoke, Statuses
  <2>2. QED BY <1>1, <2>1, StatusPut DEF BillingTypeOK
<1>3. /\ account' \in [plan : Nat, active : BOOLEAN, gift : BOOLEAN]
      /\ account' = account \/ account'.plan = 0
  <2>1. CASE Revokes(o)
    <3>1. account' = [plan |-> 0, active |-> can_broadcast(0), gift |-> FALSE]
      BY <2>1 DEF cancel_billing_and_revoke, write_plan, Unsubscribed
    <3>2. can_broadcast(0) \in BOOLEAN
      BY DEF can_broadcast
    <3>3. QED BY <3>1, <3>2
  <2>2. CASE ~Revokes(o)
    BY <1>1, <2>2 DEF cancel_billing_and_revoke, BillingTypeOK
  <2>3. QED BY <2>1, <2>2
<1>4. BillingTypeOK'
  BY <1>1, <1>2, <1>3 DEF BillingTypeOK
<1>5. \A p \in Orders : LetGo(p) => LetGo(p)'
  BY DEF LetGo
<1>6. ASSUME NEW p \in Orders PROVE RecordIsSound(p)'
  <2>1. CASE p = o
    BY <1>2, <1>5, <2>1 DEF BillingInv, RecordIsSound
  <2>2. CASE p # o
    BY <1>2, <2>2, RecordStays DEF BillingInv
  <2>3. QED BY <2>1, <2>2
<1>7. LedgerIsSound'
  <2>1. \A e \in ledger : e.order \in Orders
    BY <1>1 DEF BillingTypeOK, Notices
  <2>2. \A p \in Orders : (bill[p].rebill => bill'[p].rebill) /\ (bill[p].activated => bill'[p].activated)
    BY <1>2
  <2>3. QED BY <2>1, <2>2 DEF BillingInv, LedgerIsSound
<1>8. EntitlementIsPaidFor'
  <2>1. \A p \in Orders : bill[p].activated => bill'[p].activated /\ bill'[p].plan = bill[p].plan
    BY <1>2
  <2>2. CASE account' = account
    BY <2>1, <2>2, StaysPaidFor DEF BillingInv
  <2>3. CASE account'.plan = 0
    BY <2>3 DEF EntitlementIsPaidFor, paid_active, can_broadcast
  <2>4. QED BY <1>3, <2>2, <2>3
<1>9. OneLiable'
  <2>1. \A p \in Orders : Liable(p)' => Liable(p)
    BY <1>2 DEF Liable, LetGo, holds_the_provider
  <2>2. QED BY <1>1, <2>1, StaysOne DEF BillingInv, BillingTypeOK
<1>10. QED BY <1>2, <1>4, <1>5, <1>6, <1>7, <1>8, <1>9

\* The last write of a cancellation.
LEMMA CancelCommitsKept ==
    ASSUME BillingInv, NEW r \in Requests, CancelCommits(r)
    PROVE  BillingInv'
<1>1. /\ UNCHANGED <<ledger, applying, provider, sent, orphaned, unasked, doubled>>
      /\ req[r].pc = "revoke"
  BY DEF CancelCommits
<1>2. BillingTypeOK /\ RequestIsSound(r)
  BY DEF BillingInv
<1>3. PICK o \in Orders : o = req[r].order /\ LetGo(o)
  BY <1>1, <1>2 DEF RequestIsSound
<1>4. cancel_billing_and_revoke(o) /\ IF Revokes(o) THEN Goto(r, "stop") ELSE Done(r)
  BY <1>3 DEF CancelCommits
<1>5. /\ req' \in [Requests -> Errand] /\ req'[r].pc \in {"stop", "idle"}
      /\ \A q \in Requests \ {r} : req'[q] = req[q]
  <2>1. CASE Goto(r, "stop")
    <3>1. "stop" \in Stages
      BY DEF Stages
    <3>2. QED BY <1>2, <2>1, <3>1, ErrandGoes DEF BillingTypeOK
  <2>2. CASE Done(r)
    BY <1>2, <2>2, ErrandEnds DEF BillingTypeOK
  <2>3. QED BY <1>4, <2>1, <2>2
<1>6. \A q \in Requests : req'[q].pc = "open" => req[q].pc = "open"
  BY <1>5
<1>7. /\ BillingTypeOK' /\ LedgerIsSound' /\ EntitlementIsPaidFor' /\ OneLiable'
      /\ \A p \in Orders : RecordIsSound(p)' /\ (LetGo(p) => LetGo(p)')
      /\ bill'[o].status = "Cancelled" /\ bill'[o].rebill = bill[o].rebill
      /\ \A p \in Orders \ {o} : bill'[p] = bill[p]
  BY <1>1, <1>3, <1>4, <1>5, <1>6, CancelWrites
<1>8. ASSUME NEW q \in Requests PROVE RequestIsSound(q)'
  <2>1. CASE q = r
    BY <1>5, <2>1 DEF RequestIsSound, Registers
  <2>2. CASE q # r
    <3>1. ~Registers(r)'
      BY <1>5 DEF Registers
    <3>2. \A p \in Orders : bill[p].rebill => bill'[p].rebill
      BY <1>7
    <3>3. \A t \in Requests \ {r}, p \in Orders : Registers(t) /\ req[t].order = p =>
             /\ bill'[p] = bill[p] \/ (bill'[p].status \in {"Pending", "Cancelled"} /\ ~bill'[p].rebill)
             /\ Unregistered(p) => Unregistered(p)'
      BY <1>1, <1>7 DEF BillingInv, RequestIsSound, Unregistered
    <3>4. QED BY <1>1, <1>5, <1>7, <2>2, <3>1, <3>2, <3>3, OthersStay DEF BillingInv
  <2>3. QED BY <2>1, <2>2
<1>9. QED BY <1>7, <1>8 DEF BillingInv

\* Requests that do not move stay sound when the records they register keep
\* having no number.
LEMMA RequestsStay ==
    ASSUME BillingInv, UNCHANGED <<req, provider, orphaned>>, unasked \subseteq unasked',
           \A o \in Orders : bill[o].rebill => bill'[o].rebill,
           \A o \in Orders : ~bill[o].rebill =>
              \/ bill'[o] = bill[o]
              \/ bill'[o].status = "Cancelled" /\ ~bill'[o].rebill
    PROVE  \A q \in Requests : RequestIsSound(q)'
<1> SUFFICES ASSUME NEW q \in Requests PROVE RequestIsSound(q)'
  OBVIOUS
<1>1. RequestIsSound(q)
  BY DEF BillingInv
<1>2. \A o \in Orders : LetGo(o) => LetGo(o)'
  BY DEF LetGo
<1>3. req'[q] = req[q] /\ \A t \in Requests : Registers(t)' <=> Registers(t)
  BY DEF Registers
<1>4. \A o : o = req[q].order => req'[q].order = o /\ req'[q].pc = req[q].pc
  OBVIOUS
<1>5. QED BY <1>1, <1>2, <1>3, <1>4 DEF RequestIsSound, Registers, Unregistered

\* An operator works through the list of mismatches.
LEMMA FixKept ==
    ASSUME BillingInv, NEW o \in Orders, fix_billing_mismatch(o)
    PROVE  BillingInv'
<1>1. /\ UNCHANGED <<ledger, applying, req, provider, sent, orphaned, unasked, doubled>>
      /\ cancel_billing_and_revoke(o) /\ LetGo(o)
  BY DEF fix_billing_mismatch, billing_mismatches, BillingInv, RecordIsSound
<1>2. /\ BillingTypeOK' /\ LedgerIsSound' /\ EntitlementIsPaidFor' /\ OneLiable'
      /\ \A p \in Orders : RecordIsSound(p)'
      /\ bill'[o].status = "Cancelled" /\ bill'[o].rebill = bill[o].rebill
      /\ \A p \in Orders \ {o} : bill'[p] = bill[p]
  BY <1>1, CancelWrites DEF BillingInv, BillingTypeOK
<1>3. \A q \in Requests : RequestIsSound(q)'
  BY <1>1, <1>2, RequestsStay
<1>4. QED BY <1>2, <1>3 DEF BillingInv

\* A notification of a record with a number is written down, once.
LEMMA FeedbackKept ==
    ASSUME BillingInv, NEW n \in sent, handle_feedback(n)
    PROVE  BillingInv'
<1>1. /\ UNCHANGED <<account, req, provider, sent, orphaned, unasked, doubled>>
      /\ ledger' = ledger \cup {n} /\ applying' \subseteq applying \cup {n}
      /\ n \in applying' => n.state = "paid" \/ n \in applying
  BY DEF handle_feedback, record_billing_payment
<1>2. BillingTypeOK /\ n \in Notices
  BY DEF BillingInv, BillingTypeOK
<1>3. PICK o \in Orders : o = n.order /\ bill[o].rebill
  BY <1>2 DEF handle_feedback, Verified, Notices
<1>4. /\ bill' \in [Orders -> Record]
      /\ bill'[o].status \in {bill[o].status, "Active", "PaymentFailed"}
      /\ bill'[o].plan = bill[o].plan /\ bill'[o].rebill
      /\ n.state = "paid" \/ bill[o].activated => bill'[o].activated
      /\ \A p \in Orders \ {o} : bill'[p] = bill[p]
  <2>1. PICK s \in Statuses : s = BillingStatusOf(n, bill[o].status) /\
                              s \in {bill[o].status, "Active", "PaymentFailed"}
    BY <1>2 DEF BillingStatusOf, BillingTypeOK, Record, Statuses
  <2>2. PICK a \in BOOLEAN : a = (bill[o].activated \/ n.state = "paid")
    BY Zenon
  <2>3. bill[o] \in Record
    BY <1>2 DEF BillingTypeOK
  <2>4. PICK row \in Record : row = [[bill[o] EXCEPT !.status = s] EXCEPT !.activated = a]
    BY <2>3 DEF Record
  <2>5. row.status = s /\ row.plan = bill[o].plan /\ row.rebill = bill[o].rebill
    BY <2>3, <2>4 DEF Record
  <2>6. row.activated = a
    BY <2>3, <2>4 DEF Record
  <2>7. bill' = [bill EXCEPT ![o] = row]
    <3>1. bill' = [bill EXCEPT ![o].status = s, ![o].activated = a]
      BY <1>2, <1>3, <2>1, <2>2, <2>3 DEF handle_feedback, record_billing_payment, BillingTypeOK, Record
    <3>2. QED BY <1>2, <2>3, <2>4, <3>1 DEF BillingTypeOK, Record
  <2>8. QED BY <1>2, <1>3, <2>1, <2>2, <2>5, <2>6, <2>7 DEF BillingTypeOK
<1>5. BillingTypeOK'
  BY <1>1, <1>2, <1>4 DEF BillingTypeOK
<1>6. ASSUME NEW p \in Orders PROVE RecordIsSound(p)'
  <2>1. CASE p = o
    BY <1>1, <1>3, <1>4, <2>1 DEF BillingInv, RecordIsSound, LetGo
  <2>2. CASE p # o
    BY <1>1, <1>4, <2>2, RecordStays DEF BillingInv
  <2>3. QED BY <2>1, <2>2
<1>7. \A p \in Orders : /\ bill[p].rebill => bill'[p].rebill
                        /\ bill[p].activated => bill'[p].activated /\ bill'[p].plan = bill[p].plan
                        /\ ~bill[p].rebill => bill'[p] = bill[p]
  BY <1>3, <1>4
<1>8. LedgerIsSound'
  <2>1. \A e \in ledger' : e.order \in Orders /\ (e = n \/ e \in ledger)
    BY <1>1, <1>2 DEF BillingTypeOK, Notices
  <2>2. \A e \in ledger' : bill'[e.order].rebill
    BY <1>3, <1>4, <1>7, <2>1 DEF BillingInv, LedgerIsSound
  <2>3. \A e \in ledger' : e.state = "paid" => bill'[e.order].activated
    BY <1>3, <1>4, <1>7, <2>1 DEF BillingInv, LedgerIsSound
  <2>4. QED BY <1>1, <2>2, <2>3 DEF BillingInv, LedgerIsSound
<1>9. EntitlementIsPaidFor'
  BY <1>1, <1>7, StaysPaidFor DEF BillingInv
<1>10. \A q \in Requests : RequestIsSound(q)'
  BY <1>1, <1>7, RequestsStay
<1>11. OneLiable'
  <2>1. bill[o].status # "absent" /\ bill[o].status # "RegistrationFailed"
    BY <1>3 DEF BillingInv, RecordIsSound
  <2>2. holds_the_provider(bill[o].status) \/ LetGo(o)
    BY <1>2, <2>1 DEF BillingInv, BillingTypeOK, RecordIsSound, Record, Statuses, holds_the_provider
  <2>3. \A p \in Orders : Liable(p)' => Liable(p)
    BY <1>1, <1>4, <2>2 DEF Liable, LetGo
  <2>4. QED BY <1>1, <1>2, <2>3, StaysOne DEF BillingInv, BillingTypeOK
<1>12. QED BY <1>5, <1>6, <1>8, <1>9, <1>10, <1>11 DEF BillingInv

\* While neither records nor the ledger nor PayApp's side change, only the
\* account's plan is at stake.
LEMMA OnlyAccount ==
    ASSUME BillingInv, UNCHANGED <<bill, ledger, req, provider, sent, orphaned, unasked, doubled>>,
           applying' \subseteq applying,
           account' \in [plan : Nat, active : BOOLEAN, gift : BOOLEAN],
           account' = account \/ account'.gift \/ account'.plan = 0 \/
              \E n \in applying : account'.plan = bill[n.order].plan
    PROVE  BillingInv'
<1>1. BillingTypeOK'
  BY DEF BillingInv, BillingTypeOK
<1>2. \A o \in Orders : RecordIsSound(o)'
  BY DEF BillingInv, RecordIsSound, LetGo, Unregistered
<1>3. \A q \in Requests : RequestIsSound(q)'
  BY DEF BillingInv, RequestIsSound, Registers, LetGo, Unregistered
<1>4. LedgerIsSound' /\ OneLiable'
  BY DEF BillingInv, LedgerIsSound, OneLiable, Liable, LetGo
<1>5. EntitlementIsPaidFor'
  <2>1. CASE account' = account
    BY <2>1, StaysPaidFor DEF BillingInv
  <2>2. CASE account'.gift
    BY <2>2 DEF EntitlementIsPaidFor
  <2>3. CASE account'.plan = 0
    BY <2>3 DEF EntitlementIsPaidFor, paid_active, can_broadcast
  <2>4. ASSUME NEW n \in applying, account'.plan = bill[n.order].plan PROVE EntitlementIsPaidFor'
    <3>1. n \in ledger /\ n.state = "paid" /\ n.order \in Orders
      BY DEF BillingInv, BillingTypeOK, LedgerIsSound, Notices
    <3>2. bill[n.order].activated
      BY <3>1 DEF BillingInv, LedgerIsSound
    <3>3. PaidFor(n.order)'
      BY <3>1 DEF PaidFor
    <3>4. QED BY <2>4, <3>1, <3>2, <3>3 DEF EntitlementIsPaidFor
  <2>5. QED BY <2>1, <2>2, <2>3, <2>4
<1>6. QED BY <1>1, <1>2, <1>3, <1>4, <1>5 DEF BillingInv

\* Whoever writes the plan writes a plan, and says whether it is a gift.
LEMMA PlanWritten ==
    ASSUME NEW p \in Nat, NEW gift \in BOOLEAN, write_plan(p, gift)
    PROVE  /\ account' \in [plan : Nat, active : BOOLEAN, gift : BOOLEAN]
           /\ account'.plan = p /\ account'.gift = gift
<1>1. can_broadcast(p) \in BOOLEAN
  BY DEF can_broadcast
<1>2. QED BY <1>1 DEF write_plan

\* A payment is applied, or it is not; operators give and take plans.
LEMMA AccountKept ==
    ASSUME BillingInv,
           \/ \E n \in applying : activate_subscription(n) \/ ActivationFails(n)
           \/ \E p \in Plans : set_plan(p)
           \/ revoke_unpaid_grant
    PROVE  BillingInv'
<1>1. ASSUME NEW n \in applying, activate_subscription(n) PROVE BillingInv'
  <2>1. PICK p \in Nat : p = bill[n.order].plan
    BY DEF BillingInv, BillingTypeOK, Notices, Record
  <2>2. /\ write_plan(p, FALSE) /\ applying' \subseteq applying
        /\ UNCHANGED <<bill, ledger, req, provider, sent, orphaned, unasked, doubled>>
    BY <1>1, <2>1 DEF activate_subscription
  <2>3. account' \in [plan : Nat, active : BOOLEAN, gift : BOOLEAN] /\ account'.plan = bill[n.order].plan
    BY <2>1, <2>2, PlanWritten
  <2>4. QED BY <2>2, <2>3, OnlyAccount
<1>2. ASSUME NEW n \in applying, ActivationFails(n) PROVE BillingInv'
  BY <1>2, OnlyAccount DEF ActivationFails, BillingInv, BillingTypeOK
<1>3. ASSUME NEW p \in Plans, set_plan(p) PROVE BillingInv'
  <2>1. p \in Nat /\ write_plan(p, TRUE)
    BY <1>3, BillingAssumption DEF set_plan
  <2>2. account' \in [plan : Nat, active : BOOLEAN, gift : BOOLEAN] /\ account'.gift
    BY <2>1, PlanWritten
  <2>3. QED BY <1>3, <2>2, OnlyAccount DEF set_plan
<1>4. CASE revoke_unpaid_grant
  <2>1. 0 \in Nat /\ write_plan(0, FALSE)
    BY <1>4 DEF revoke_unpaid_grant, Unsubscribed
  <2>2. account' \in [plan : Nat, active : BOOLEAN, gift : BOOLEAN] /\ account'.plan = 0
    BY <2>1, PlanWritten
  <2>3. QED BY <1>4, <2>2, OnlyAccount DEF revoke_unpaid_grant
<1>5. QED BY <1>1, <1>2, <1>3, <1>4

\* PayApp charges a record it has registered and has not stopped.
LEMMA ChargeKept ==
    ASSUME BillingInv, NEW o \in Orders, Charge(o)
    PROVE  BillingInv'
<1>1. /\ UNCHANGED <<bill, account, ledger, applying, req, orphaned, unasked, doubled>>
      /\ provider[o].state \in {"registered", "charging"}
  BY DEF Charge
<1>2. BillingTypeOK /\ provider[o] \in Registration
  BY DEF BillingInv, BillingTypeOK
<1>3. PICK k \in 1 .. MaxCharges : k = provider[o].charges + 1
  BY <1>2, BillingAssumption DEF Charge, Registration
<1>4. PICK n \in Notices : n = [order |-> o, no |-> k, state |-> "paid", key |-> "mul_no"]
  BY DEF Notices
<1>5. sent' = sent \cup {n} /\ n.order = o
  BY <1>3, <1>4 DEF Charge
<1>6. /\ provider' \in [Orders -> Registration] /\ provider'[o].state = "charging"
      /\ \A p \in Orders \ {o} : provider'[p] = provider[p]
  <2>0. k \in 0 .. MaxCharges
    BY BillingAssumption
  <2>1. PICK now1 \in Registration : now1 = [state |-> "charging", charges |-> k]
    BY <2>0 DEF Registration
  <2>2. provider' = [provider EXCEPT ![o] = now1] /\ now1.state = "charging"
    BY <1>3, <2>1 DEF Charge
  <2>3. QED BY <1>2, <2>2 DEF BillingTypeOK
<1>7. BillingTypeOK'
  BY <1>1, <1>2, <1>4, <1>5, <1>6 DEF BillingTypeOK
<1>8. ASSUME NEW p \in Orders PROVE RecordIsSound(p)'
  <2>1. CASE p = o
    BY <1>1, <1>5, <1>6, <2>1 DEF BillingInv, RecordIsSound, LetGo, Unregistered
  <2>2. CASE p # o
    BY <1>1, <1>5, <1>6, <2>2, RecordStays DEF BillingInv
  <2>3. QED BY <2>1, <2>2
<1>9. LedgerIsSound' /\ EntitlementIsPaidFor'
  BY <1>1 DEF BillingInv, LedgerIsSound, EntitlementIsPaidFor, PaidFor, paid_active
<1>10. \A p \in Orders : (LetGo(p)' <=> LetGo(p)) /\ (Unregistered(p)' <=> Unregistered(p))
  BY <1>1, <1>6 DEF LetGo, Unregistered
<1>11. ASSUME NEW q \in Requests PROVE RequestIsSound(q)'
  <2>1. RequestIsSound(q) /\ req[q].order \in Orders \cup {0}
    BY <1>2 DEF BillingInv, BillingTypeOK, Errand
  <2>2. req[q].pc \in {"register", "failed"} => req[q].order \in Orders
    BY <2>1 DEF RequestIsSound, Registers
  <2>3. PICK p : p = req[q].order
    OBVIOUS
  <2>4. req' = req /\ \A t \in Requests : Registers(t)' <=> Registers(t)
    BY <1>1 DEF Registers
  <2>5. QED BY <1>1, <1>10, <2>1, <2>2, <2>3, <2>4 DEF RequestIsSound
<1>12. OneLiable'
  <2>1. \A p \in Orders : Liable(p)' => Liable(p)
    BY <1>1, <1>10 DEF Liable
  <2>2. \A q \in Requests : req'[q].pc = "open" => req[q].pc = "open"
    BY <1>1
  <2>3. QED BY <1>1, <1>2, <2>1, <2>2, StaysOne DEF BillingInv, BillingTypeOK
<1>13. QED BY <1>7, <1>8, <1>9, <1>11, <1>12 DEF BillingInv

\* PayApp announces another state of a charge.
LEMMA AnnounceKept ==
    ASSUME BillingInv, NEW o \in Orders, NEW s \in {"reversed", "waiting"},
           NEW k \in {"mul_no", "composite"}, Announce(o, s, k)
    PROVE  BillingInv'
<1>1. UNCHANGED <<bill, account, ledger, applying, req, provider, orphaned, unasked, doubled>>
  BY DEF Announce
<1>2. BillingTypeOK /\ provider[o] \in Registration
  BY DEF BillingInv, BillingTypeOK
<1>3. PICK c \in 1 .. MaxCharges : c = provider[o].charges
  BY <1>2, BillingAssumption DEF Announce, Registration
<1>4. PICK n \in Notices : n = [order |-> o, no |-> c, state |-> s, key |-> k]
  BY DEF Notices
<1>5. sent' = sent \cup {n}
  BY <1>3, <1>4 DEF Announce
<1>6. BillingTypeOK'
  BY <1>1, <1>2, <1>4, <1>5 DEF BillingTypeOK
<1>7. \A p \in Orders : RecordIsSound(p)'
  BY <1>1, <1>5 DEF BillingInv, RecordIsSound, LetGo, Unregistered
<1>8. \A q \in Requests : RequestIsSound(q)'
  BY <1>1 DEF BillingInv, RequestIsSound, Registers, LetGo, Unregistered
<1>9. LedgerIsSound' /\ OneLiable' /\ EntitlementIsPaidFor'
  BY <1>1 DEF BillingInv, LedgerIsSound, OneLiable, Liable, LetGo, EntitlementIsPaidFor, PaidFor, paid_active
<1>10. QED BY <1>6, <1>7, <1>8, <1>9 DEF BillingInv

\* The server dies: requests and payments to apply are forgotten.
LEMMA DeathKept ==
    ASSUME BillingInv, ProcessDies
    PROVE  BillingInv'
<1>1. /\ UNCHANGED <<bill, account, ledger, provider, sent, unasked, doubled>>
      /\ applying' = {} /\ orphaned \subseteq orphaned'
      /\ req' = [r \in Requests |-> Idle]
  BY DEF ProcessDies
<1>2. /\ req' \in [Requests -> Errand] /\ \A r \in Requests : req'[r].pc = "idle"
  <2>1. Idle \in Errand /\ Idle.pc = "idle"
    BY DEF Idle, Errand, Stages, Unsubscribed
  <2>2. QED BY <1>1, <2>1
<1>3. BillingTypeOK'
  BY <1>1, <1>2 DEF BillingInv, BillingTypeOK
<1>4. \A o \in Orders : RecordIsSound(o)'
  BY <1>1, RecordStays DEF BillingInv
<1>5. \A q \in Requests : RequestIsSound(q)'
  BY <1>2 DEF RequestIsSound, Registers
<1>6. LedgerIsSound' /\ EntitlementIsPaidFor'
  BY <1>1 DEF BillingInv, LedgerIsSound, EntitlementIsPaidFor, PaidFor, paid_active
<1>7. OneLiable'
  <2>1. \A o \in Orders : Liable(o)' => Liable(o)
    BY <1>1 DEF Liable, LetGo
  <2>2. \A q \in Requests : req'[q].pc = "open" => req[q].pc = "open"
    BY <1>2
  <2>3. QED BY <1>1, <2>1, <2>2, StaysOne DEF BillingInv, BillingTypeOK
<1>8. QED BY <1>3, <1>4, <1>5, <1>6, <1>7 DEF BillingInv

\* Nothing has been bought yet.
LEMMA BillingStarts == BillingInit => BillingInv
<1> SUFFICES ASSUME BillingInit PROVE BillingInv
  OBVIOUS
<1>1. NoRow \in Record /\ Idle \in Errand
  BY DEF NoRow, Record, Idle, Errand, Statuses, Stages, Unsubscribed
<1>2. PICK none \in Registration : none = [state |-> "none", charges |-> 0]
  <2>1. 0 \in 0 .. MaxCharges
    BY BillingAssumption
  <2>2. QED BY <2>1 DEF Registration
<1>3. /\ \A o \in Orders : bill[o] = NoRow /\ provider[o] = none
      /\ \A r \in Requests : req[r] = Idle
      /\ ledger = {} /\ applying = {} /\ sent = {} /\ doubled = FALSE /\ ~account.active
  BY <1>2 DEF BillingInit
<1>4. account \in [plan : Nat, active : BOOLEAN, gift : BOOLEAN]
  BY DEF BillingInit, Unsubscribed
<1>5. BillingTypeOK
  BY <1>1, <1>2, <1>3, <1>4 DEF BillingTypeOK, BillingInit
<1>6. \A o \in Orders : RecordIsSound(o) /\ ~Liable(o)
  BY <1>2, <1>3 DEF RecordIsSound, Liable, NoRow, Unregistered, holds_the_provider
<1>7. \A r \in Requests : RequestIsSound(r)
  BY <1>3 DEF RequestIsSound, Registers, Idle
<1>8. LedgerIsSound /\ OneLiable /\ EntitlementIsPaidFor
  BY <1>3, <1>6 DEF LedgerIsSound, OneLiable, EntitlementIsPaidFor, paid_active
<1>9. QED BY <1>5, <1>6, <1>7, <1>8 DEF BillingInv

\* Every operation of billing keeps what is said of it.
LEMMA BillingKept ==
    ASSUME BillingInv, BillingNext
    PROVE  BillingInv'
<1>1. ASSUME NEW r \in Requests, RequestNext(r) PROVE BillingInv'
  BY <1>1, CheckoutBeginsKept, OpenKept, RegisterKept, AttachKept, FailedKept, CancelBeginsKept,
     AskKept, CancelCommitsKept, TakeOffAirKept DEF RequestNext
<1>2. ASSUME FeedbackNext PROVE BillingInv'
  BY <1>2, FeedbackKept, AccountKept DEF FeedbackNext
<1>3. ASSUME OperatorNext PROVE BillingInv'
  <2>1. CASE audit_billing
    <3>1. PICK o \in Orders : fix_billing_mismatch(o)
      BY <2>1 DEF audit_billing, billing_mismatches
    <3>2. QED BY <3>1, FixKept
  <2>2. CASE audit_plans \/ \E p \in Plans : set_plan(p)
    BY <2>2, AccountKept DEF audit_plans
  <2>3. QED BY <1>3, <2>1, <2>2 DEF OperatorNext
<1>4. QED BY <1>1, <1>2, <1>3, ChargeKept, AnnounceKept, DeathKept DEF BillingNext, AnnounceNext

\* A step of the account's behaviour is one of billing, or leaves billing's
\* state alone but for what is on air.
LEMMA BillingFrame ==
    ASSUME [EntitlementsNext]_entitlementVars
    PROVE  BillingNext \/ UNCHANGED <<bill, account, ledger, applying, req, provider, sent,
                                      orphaned, unasked, doubled>>
<1>1. BillingStep => BillingNext
  BY DEF BillingStep, BillingNext, Charges
<1>2. ~BillingStep => UNCHANGED <<bill, account, ledger, applying, req, provider, sent,
                                  orphaned, unasked, doubled>>
  BY DEF EntitlementsNext, entitlementVars, billingVars, GrantsStep, AccountsStep, CatalogueStep,
     AirStep, StartAsksGate, claim_stream_slot, expire_lapsed, stop_all_for, AirSame,
     DisableTakesOffAir
<1>3. QED BY <1>1, <1>2

\* Billing is as BillingInv says in every reachable state.
THEOREM BillingInvariance == EntitlementsSpec => []BillingInv
<1>1. EntitlementsInit => BillingInv
  BY BillingStarts DEF EntitlementsInit
<1>2. BillingInv /\ [EntitlementsNext]_entitlementVars => BillingInv'
  <2> SUFFICES ASSUME BillingInv, [EntitlementsNext]_entitlementVars PROVE BillingInv'
    OBVIOUS
  <2>1. ASSUME UNCHANGED <<bill, account, ledger, applying, req, provider, sent,
                           orphaned, unasked, doubled>>
        PROVE  BillingInv'
    BY <2>1 DEF BillingInv, BillingTypeOK, RecordIsSound, LedgerIsSound, RequestIsSound, Registers,
       OneLiable, Liable, LetGo, Unregistered, EntitlementIsPaidFor, PaidFor, paid_active
  <2>2. QED BY <2>1, BillingFrame, BillingKept
<1>3. QED BY <1>1, <1>2, PTL DEF EntitlementsSpec

\* A record a payment activated is live or cancelled.
LEMMA ActivatedIsKnown ==
    ASSUME BillingInv, NEW o \in Orders, bill[o].rebill
    PROVE  holds_the_provider(bill[o].status) \/ bill[o].status = "Cancelled"
<1>1. bill[o].status \in Statuses /\ RecordIsSound(o)
  <2>1. bill[o] \in Record
    BY DEF BillingInv, BillingTypeOK
  <2>2. QED BY <2>1 DEF BillingInv, Record
<1>2. QED BY <1>1 DEF RecordIsSound, Statuses, holds_the_provider

\* billing.rs handle_feedback, db.rs billing_mismatches: a plan nobody gave the
\* account was paid for, and when what was bought is no longer charged for the
\* audit lists it, whatever requests and notices overlap, are lost or repeated.
THEOREM PlansStayPaidFor == EntitlementsSpec => []PlansArePaidFor
<1>1. ASSUME BillingInv PROVE PlansArePaidFor
  <2>1. EntitlementIsPaidFor
    BY <1>1 DEF BillingInv
  <2>2. ASSUME paid_active, ~account.gift
        PROVE  \/ billing_mismatches # {}
               \/ \E o \in Orders : /\ holds_the_provider(bill[o].status)
                                    /\ bill[o].plan = account.plan
                                    /\ bill[o].activated
    <3>1. PICK o \in Orders : bill[o].activated /\ bill[o].plan = account.plan
      BY <2>1, <2>2 DEF EntitlementIsPaidFor
    <3>2. bill[o].rebill
      BY <1>1, <3>1 DEF BillingInv, RecordIsSound
    <3>3. CASE bill[o].status = "Cancelled"
      <4>1. o \in billing_mismatches
        BY <2>2, <3>1, <3>3 DEF billing_mismatches, paid_active
      <4>2. QED BY <4>1
    <3>4. CASE holds_the_provider(bill[o].status)
      BY <3>1, <3>4
    <3>5. QED BY <1>1, <3>2, <3>3, <3>4, ActivatedIsKnown
  <2>3. QED BY <2>1, <2>2 DEF PlansArePaidFor, AuditFindsFreeRides
<1>2. QED BY <1>1, BillingInvariance, PTL

\* billing.rs checkout, cancel, handle_feedback: what PayApp charges is one
\* record at a time, and once its notices are handled one this side can find
\* and name to PayApp; the exceptions are those the state names.
THEOREM ChargesStayAccountedFor == EntitlementsSpec => []ChargesAreAccountedFor
<1>1. ASSUME BillingInv PROVE ChargedIsCancellable
  <2> SUFFICES ASSUME NEW o \in Orders, provider[o].state = "charging",
                      \A n \in sent : n.order = o => Handled(n), o \notin orphaned \cup unasked
               PROVE  holds_the_provider(bill[o].status) /\ bill[o].rebill
    BY DEF ChargedIsCancellable
  <2>1. PICK n \in sent : n.order = o
    BY <1>1 DEF BillingInv, RecordIsSound
  <2>2. PICK e \in ledger : event_key(e) = event_key(n)
    BY <2>1 DEF Handled
  <2>3. e.order = o
    BY <2>1, <2>2 DEF event_key
  <2>4. bill[o].rebill
    BY <1>1, <2>2, <2>3 DEF BillingInv, LedgerIsSound
  <2>5. bill[o].status # "Cancelled"
    BY <1>1 DEF BillingInv, RecordIsSound, LetGo
  <2>6. QED BY <1>1, <2>4, <2>5, ActivatedIsKnown
<1>2. ASSUME BillingInv PROVE NeverChargedTwice
  <2>1. PICK S \in SUBSET Orders :
            S = {o \in Orders \ (orphaned \cup unasked) :
                    provider[o].state \in {"registered", "charging"}}
    OBVIOUS
  <2>2. ASSUME NEW o \in S PROVE Liable(o)
    <3>1. RecordIsSound(o) /\ bill[o].status \in Statuses
      <4>1. bill[o] \in Record
        BY <1>2 DEF BillingInv, BillingTypeOK
      <4>2. QED BY <1>2, <4>1 DEF BillingInv, Record
    <3>2. ~Unregistered(o) /\ ~LetGo(o) /\ o \notin orphaned
      BY <2>1 DEF Unregistered, LetGo
    <3>3. QED BY <3>1, <3>2 DEF RecordIsSound, Liable, Statuses, holds_the_provider
  <2>3. ASSUME ~doubled PROVE Cardinality(S) <= 1
    <3>1. \A o, p \in S : o = p
      BY <1>2, <2>2, <2>3 DEF BillingInv, OneLiable
    <3>2. CASE S = {}
      BY <3>2, FS_EmptySet
    <3>3. CASE S # {}
      <4>1. PICK o \in S : S = {o}
        BY <3>1, <3>3
      <4>2. Cardinality(S) = 1
        BY <4>1, FS_Singleton
      <4>3. QED BY <4>2
    <3>4. QED BY <3>2, <3>3
  <2>4. QED BY <2>1, <2>3 DEF NeverChargedTwice
<1>3. BillingInv => ChargesAreAccountedFor
  BY <1>1, <1>2 DEF ChargesAreAccountedFor
<1>4. QED BY <1>3, BillingInvariance, PTL
=============================================================================
