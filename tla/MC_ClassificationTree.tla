------------------------ MODULE MC_ClassificationTree ------------------------
(* Model-checking instance of ClassificationTree. *)
EXTENDS ClassificationTree, TLC

CONSTANTS a, b, c, d, e, f, q1, q2

SixNodes == {a, b, c, d, e, f}
ThreeTypes == {"unit", "country", "state"}
MCTypeOf == [n \in {a, b, c, d} |-> "unit"] @@ e :> "country" @@ f :> "state"
MCSlug == a :> "a" @@ b :> "b" @@ c :> "c" @@ d :> "d" @@ e :> "e" @@ f :> "e_f"
SystemNodes == {a, b, d, e, f}

(* A chain beside a root; a node with a child beside a root of another     *)
(* type, and codes that are free; and a table that the seeder finds empty. *)
Chain == a :> None @@ b :> a @@ c :> b @@ d :> None
Pair == a :> None @@ b :> a @@ e :> None
Empty == [n \in {} |-> None]
Forests == {Chain, Pair, Empty}

(* A country, and then its state, whose path ends in its own short code.   *)
CountryThenState == << e :> None, f :> e >>
MCSeedSlug == e :> "e" @@ f :> "f"

TwoRequests == {q1, q2}
=============================================================================
