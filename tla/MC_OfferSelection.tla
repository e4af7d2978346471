-------------------------- MODULE MC_OfferSelection --------------------------
(* Model-checking instance of OfferSelection. *)
EXTENDS OfferSelection, TLC

CONSTANTS a1, a2, b1, b2, l1, l2, plan, rfq, q1, q2, q3

SixOffers == {a1, a2, b1, b2, l1, l2}
TwoTenders == {plan, rfq}
MCTenderOf == a1 :> plan @@ a2 :> plan @@ b1 :> rfq @@ b2 :> rfq @@
              l1 :> Nothing @@ l2 :> Nothing
OneOverlapping == {plan}
ThreeRequests == {q1, q2, q3}
=============================================================================
