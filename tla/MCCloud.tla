------------------------------- MODULE MCCloud -------------------------------
(***************************************************************************)
(* CloudWorkers for TLC: one account, with one broadcast that is operated  *)
(* on by two requests at once, or with two cameras on a machine that       *)
(* encodes one.                                                            *)
(***************************************************************************)
EXTENDS CloudWorkers, TLC

CONSTANTS u1, w1, w2, r1, r2

OneBroadcast == {1}
TwoBroadcasts == {1, 2}
OneUser == {u1}
OwnerOfOne == [b \in {1} |-> u1]
OwnerOfTwo == [b \in {1, 2} |-> u1]
TwoWorkers == {w1, w2}
OneRequest == {r1}
TwoRequests == {r1, r2}
PairSymmetry == Permutations(TwoWorkers)
=============================================================================
