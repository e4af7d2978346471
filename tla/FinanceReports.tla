--------------------------- MODULE FinanceReports ---------------------------
(***************************************************************************)
(* What the finance reports say while payments are booked: the statement   *)
(* of a counterparty (PaymentService.getLedger), the balance report, the   *)
(* aging analysis and the cash flow (FinanceReportService).                *)
(*                                                                         *)
(* The last three are one query each, and here a function of the state.    *)
(* The statement takes two, of the invoices and then of the payments, and  *)
(* others commit in between.  All invoices are sales of one counterparty,  *)
(* with a due date, and all payments come in; purchases and payments that  *)
(* go out are the same with the sign changed.  Periods are left out, as is *)
(* the order of the lines of the statement.                                *)
(***************************************************************************)
EXTENDS Settlement, FiniteSetsExt

CONSTANT AmountOf  \* the amount of each payment, whatever it is matched with

ASSUME AmountOfAssumption == AmountOf \in [Payments -> Int]

VARIABLE statement  \* the request for a statement, and the invoices it read

rvars == <<vars, statement>>

ReportInit == Init /\ statement = [phase |-> "idle", invoices |-> {}]

Live == {i \in Invoices : Exists(i) /\ ~invoice[i].deleted}

SumOf(f, S) == MapThenSumSet(LAMBDA x : f[x], S)

Total(S) == SumOf([i \in S |-> invoice[i].total], S)
Paid(S) == SumOf([i \in S |-> invoice[i].paid], S)
Matched(S) == SumOf([i \in S |-> Net(matched[i])], S)

(* balanceReport: what is invoiced and not paid. *)
Balance(S) == Total(S) - Paid(S)

(* agingAnalysis: the invoices that it lists, each with its rest. *)
Aged == {i \in Live : invoice[i].status # "PAID"}

(* cashFlow: what has come in. *)
Incoming == SumOf(AmountOf, saved)

ReadInvoices ==
  /\ statement.phase = "idle"
  /\ statement' = [phase |-> "invoices", invoices |-> Live]
  /\ UNCHANGED vars

(* closingBalance, where S are the invoices that the first query found.    *)
Closing(S) == Total(S) - Incoming

ReadPayments ==
  /\ statement.phase = "invoices"
  /\ statement' = [phase |-> "idle", invoices |-> {}]
  /\ UNCHANGED vars

ReportNext ==
  \/ Next /\ UNCHANGED statement
  \/ ReadInvoices
  \/ ReadPayments

ReportSpec == ReportInit /\ [][ReportNext]_rvars

-----------------------------------------------------------------------------
(* What a payment has booked: the matches that were flushed. *)
Booked(p) ==
  LET body == payment[p].body
  IN  SumOf([k \in DOMAIN body |-> body[k].amount],
            {k \in DOMAIN body : k < payment[p].at})

(* What has come in and is not matched with any invoice: advances, and     *)
(* what a payment that broke off, or is under way, has not booked.         *)
Unmatched == SumOf([p \in saved |-> AmountOf[p] - Booked(p)], saved)

(* The answer to a statement, whatever was committed between its queries,  *)
(* closes at what is invoiced less what all invoices have been matched     *)
(* with and less what is not matched: no match is counted twice or left    *)
(* out of the payments.  Where the payments of the invoices that it lists  *)
(* did not overlap, that is the balance report of them, less what was paid *)
(* for others and what is not matched.  And a debt of an invoice whose     *)
(* payments did not overlap is in the aging analysis, unless something was *)
(* taken back from it.                                                     *)
ReportsReconcile ==
  [][statement.phase = "invoices" /\ statement'.phase = "idle" =>
       LET listed == statement.invoices
       IN /\ Closing(listed) = Total(listed) - Matched(Invoices) - Unmatched
          /\ listed \subseteq Serial =>
               Closing(listed) = Balance(listed) - Matched(Invoices \ listed) - Unmatched
          /\ \A i \in Live \cap Serial :
               invoice[i].paid < invoice[i].total /\ matched[i].minus = 0 =>
                 i \in Aged]_rvars
=============================================================================
