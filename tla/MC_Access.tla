------------------------------ MODULE MC_Access -------------------------------
(* Model-checking instance of Access. *)
EXTENDS Access, TLC

CONSTANTS p1, p2, admin, r1, root, u1, host, t1, q1, q2, q3

TwoPermissions == {p1, p2}
TwoRoles == {admin, r1}
TwoUsers == {root, u1}
TwoTenants == {host, t1}
FirstPermission == {p1}
NoPermission == {}
ThreeRequests == {q1, q2, q3}

(* Requests are told apart only by their name. *)
RequestSymmetry == Permutations(Requests)
=============================================================================
