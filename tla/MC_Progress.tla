----------------------------- MODULE MC_Progress -----------------------------
(* Model-checking instance of Progress. *)
EXTENDS Progress, TLC

CONSTANTS o1, p1, f1, d1, q1, q2, q3

OneOrder == {o1}
OnePlan == {p1}
OneRfq == {f1}
OneDate == {d1}
ThreeRequests == {q1, q2, q3}

(* All but one of the milestones are changed by several at once.           *)
Shared == {o1, p1, f1, <<o1, "DOKUMA">>}

(* Requests are told apart only by their name. *)
RequestSymmetry == Permutations(Requests)
=============================================================================
