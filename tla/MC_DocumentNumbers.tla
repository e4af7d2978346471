------------------------- MODULE MC_DocumentNumbers -------------------------
(* Model-checking instance of DocumentNumbers. *)
EXTENDS DocumentNumbers, TLC

CONSTANTS t1, t2, q1, q2, q3, q4

TwoTenants == {t1, t2}
FourRequests == {q1, q2, q3, q4}

Symmetry == Permutations(Creates) \cup Permutations(Tenants)
=============================================================================
