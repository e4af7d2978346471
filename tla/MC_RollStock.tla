---------------------------- MODULE MC_RollStock ----------------------------
(* Model-checking instance of RollStock. *)
EXTENDS RollStock, TLC

CONSTANTS r1, r2, q1, q2, q3, q4

OneRoll == {r1}
TwoRolls == {r1, r2}
ThreeRequests == {q1, q2, q3}
FourRequests == {q1, q2, q3, q4}

(* A negative amount, the two at the edge of a check, and a longer one. *)
SmallAmounts == {-1, 0, 1, 2}

(* Requests are told apart only by their name. *)
RequestSymmetry == Permutations(Requests)
=============================================================================
