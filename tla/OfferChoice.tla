----------------------------- MODULE OfferChoice -----------------------------
(***************************************************************************)
(* What selecting among offers promises: the choice of a tender is the     *)
(* offer that was selected last.                                           *)
(***************************************************************************)
CONSTANTS Tenders, Offers

VARIABLE chosen  \* the chosen offers of each tender: none, or one

Init == chosen = [t \in Tenders |-> {}]

Choose(t, o) == chosen' = [chosen EXCEPT ![t] = {o}]

Next == \E t \in Tenders, o \in Offers : Choose(t, o)

Spec == Init /\ [][Next]_chosen
=============================================================================
