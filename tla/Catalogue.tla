----------------------------- MODULE Catalogue -----------------------------
(***************************************************************************)
(* What opening the database does to one plan row: seed_plans, the one-off *)
(* raise_limits_once and the operator's --audit-storage --apply (db.rs).   *)
(* None of it is one transaction, and the API process and the runner open  *)
(* the same file, at the same time when both are restarted.                *)
(***************************************************************************)
EXTENDS Naturals

CONSTANTS Openers,      \* processes that open the database
          Keys,         \* the keys of a plan's limits
          StorageKeys,  \* the two --audit-storage may rewrite
          Figures,      \* values an operator may write by hand
          NoFigure,     \* no figure of an operator's is on record
          MaxOpens      \* bound: times a process opens the database

ASSUME CatalogueAssumption ==
    StorageKeys \subseteq Keys /\ Figures \subseteq Nat /\ NoFigure \notin Nat

VARIABLES
    limits,    \* plans.limits of the row; <<>> before it exists
    marked,    \* cloud_migrations has the marker
    opening,   \* where each process stands, and the limits it has read
    opens,     \* how often each process has opened the database
    kept       \* figures an operator set once the migration was over: history

catalogueVars == <<limits, marked, opening, opens, kept>>

SEED_PLANS == [k \in Keys |-> 1]
NoRead == [k \in Keys |-> 0]
Closed == [pc |-> "closed", read |-> NoRead]

Pc(o, pc) == opening' = [opening EXCEPT ![o].pc = pc]

(* INSERT ... ON CONFLICT DO UPDATE: an existing row keeps its limits. *)
seed_plans(o) ==
    /\ opening[o].pc = "closed" /\ opens[o] < MaxOpens
    /\ opens' = [opens EXCEPT ![o] = @ + 1]
    /\ limits' = IF limits = <<>> THEN SEED_PLANS ELSE limits
    /\ Pc(o, "marker")
    /\ UNCHANGED <<marked, kept>>

\* Mutant: the marker is not looked at and the limits are raised at every boot.
mut_ReadMarker(o) ==
    /\ opening[o].pc = "marker"
    /\ Pc(o, "read")
    /\ UNCHANGED <<limits, marked, opens, kept>>

ReadMarker(o) ==
    /\ opening[o].pc = "marker"
    /\ Pc(o, IF marked THEN "closed" ELSE "read")
    /\ UNCHANGED <<limits, marked, opens, kept>>

ReadLimits(o, after) == opening' = [opening EXCEPT ![o] = [pc |-> after, read |-> limits]]

raise_reads(o) ==
    /\ opening[o].pc = "read"
    /\ ReadLimits(o, "raise")
    /\ UNCHANGED <<limits, marked, opens, kept>>

(* The whole row is written back from what was read. *)
raise_limits_once(o) ==
    LET read == opening[o].read
        up == [k \in Keys |-> IF read[k] < SEED_PLANS[k] THEN SEED_PLANS[k] ELSE read[k]]
    IN  /\ opening[o].pc = "raise"
        /\ limits' = IF up = read THEN limits ELSE up
        /\ Pc(o, "mark")
        /\ UNCHANGED <<marked, opens, kept>>

(* A second INSERT of the marker violates the primary key: the open fails  *)
(* and the process goes down with it.                                      *)
Mark(o) ==
    /\ opening[o].pc = "mark"
    /\ marked' = TRUE
    /\ opening' = [opening EXCEPT ![o] = Closed]
    /\ UNCHANGED <<limits, opens, kept>>

(* --audit-storage --apply: read the row, write it back with two new keys. *)
storage_audit(o) ==
    /\ opening[o].pc = "closed" /\ limits # <<>>
    /\ ReadLimits(o, "apply")
    /\ UNCHANGED <<limits, marked, opens, kept>>

apply_seed_storage_limits(o) ==
    /\ opening[o].pc = "apply"
    /\ limits' = [k \in Keys |-> IF k \in StorageKeys THEN SEED_PLANS[k] ELSE opening[o].read[k]]
    /\ opening' = [opening EXCEPT ![o] = Closed]
    /\ kept' = [k \in Keys |-> IF k \in StorageKeys THEN NoFigure ELSE kept[k]]
    /\ UNCHANGED <<marked, opens>>

(* Somebody about to write back a row read earlier. *)
Rewriting == \E o \in Openers : opening[o].pc \in {"read", "raise", "apply"}

(* An operator edits the row by hand. *)
Edit(k, v) ==
    /\ limits # <<>>
    /\ limits' = [limits EXCEPT ![k] = v]
    /\ kept' = [kept EXCEPT ![k] = IF marked /\ ~Rewriting THEN v ELSE NoFigure]
    /\ UNCHANGED <<marked, opening, opens>>

CatalogueInit ==
    /\ limits \in {<<>>} \cup [Keys -> Figures] /\ marked = FALSE
    /\ opening = [o \in Openers |-> Closed]
    /\ opens = [o \in Openers |-> 0]
    /\ kept = [k \in Keys |-> NoFigure]

CatalogueNext ==
    \/ \E o \in Openers :
          \/ seed_plans(o) \/ ReadMarker(o) \/ raise_reads(o) \/ raise_limits_once(o)
          \/ Mark(o) \/ storage_audit(o) \/ apply_seed_storage_limits(o)
    \/ \E k \in Keys, v \in Figures : Edit(k, v)

----------------------------------------------------------------------------
(* "A ceiling an operator lowers afterwards is not raised back at the next *)
(* restart": a figure edited once the migration is recorded, while nobody  *)
(* is about to write the row back, stands through any number of restarts   *)
(* of any of the processes.                                                *)
OperatorsFigureStands ==
    \A k \in Keys : kept[k] # NoFigure => limits[k] = kept[k]

============================================================================
