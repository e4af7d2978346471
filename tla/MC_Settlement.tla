--------------------------- MODULE MC_Settlement ---------------------------
(* Model-checking instance of Settlement and of the reports about it. *)
EXTENDS FinanceReports, TLC

CONSTANTS i1, i2, p1, p2, p3

OneInvoice == {i1}
TwoInvoices == {i1, i2}
ThreePayments == {p1, p2, p3}

MatchAmounts == {-40, 0, 10, 40, 70}

To(i, a) == [invoice |-> i, amount |-> a]

(* An advance, an invoice twice, and two invoices in both orders, with     *)
(* matches that take back and one of nothing.                              *)
TwoInvoiceBodies ==
  {<<>>, <<To(i1, 40), To(i1, 40)>>, <<To(i2, 70), To(i2, 10)>>,
   <<To(i1, 40), To(i2, -40)>>, <<To(i2, 0), To(i1, -40)>>}

(* 0.7 + 0.1 = 0.7999999999999999, while 0.4 + 0.4 = 0.8. *)
SeventyAndTen == {<<70, 10>>, <<10, 70>>}

(* Each payment is of this amount, also one that is matched with less. *)
EachEighty == [p \in Payments |-> 80]

PaymentSymmetry == Permutations(Payments)
=============================================================================
