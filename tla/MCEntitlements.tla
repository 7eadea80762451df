--------------------------- MODULE MCEntitlements --------------------------
(* Instances of Entitlements for TLC. *)
EXTENDS Entitlements

MCThemes == {{"r1", "r2", "notices"},
             {"r1", "notices", "operator", "crash", "renewals"},
             {"r1", "notices", "reversals"},
             {"r1", "notices", "air", "crash"},
             {"grants"}, {"sessions"}, {"throttle"}, {"catalogue"}}

(* For the question whether a grant keeps a cancelled account on air. *)
MCGranted == {{"r1", "notices", "air", "grants"}}
============================================================================
