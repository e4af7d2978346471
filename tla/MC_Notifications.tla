-------------------------- MODULE MC_Notifications --------------------------
(* Model-checking instance of Notifications. *)
EXTENDS Notifications, TLC

CONSTANTS u1, u2, q1, q2, q3

TwoUsers == {u1, u2}
OneUser == {u1}
ThreeRequests == {q1, q2, q3}

(* Requests are told apart only by their name. *)
RequestSymmetry == Permutations(Requests)
=============================================================================
