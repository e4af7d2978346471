---------------------------- MODULE MC_Onboarding ----------------------------
(* Model-checking instance of Onboarding. *)
EXTENDS Onboarding, TLC

CONSTANTS q1, q2, q3

Key(kind, type, code) == [kind |-> kind, type |-> type, code |-> code]
OrderDraft == Key("status", "ORDER", "draft")
InvoiceDraft == Key("status", "INVOICE", "draft")
OrderOpen == Key("status", "ORDER", "open")

ThreeKeys == {OrderDraft, InvoiceDraft, OrderOpen}
TwoSeeds == {OrderDraft, OrderOpen}
TwoDomains == {"x", "y"}
TwoEmails == {"a", "b"}
ThreeRequests == {q1, q2, q3}
=============================================================================
