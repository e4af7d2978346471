--------------------------- MODULE InvoiceAccount ---------------------------
(***************************************************************************)
(* What the finance services promise for one invoice, with nothing said of *)
(* requests: an amount that is due, and payments that are booked to it one *)
(* at a time, each on the account as it is at that moment.  Where the      *)
(* invoice stands is read off the account.                                 *)
(***************************************************************************)
EXTENDS Integers

CONSTANTS
  Invoices,
  Totals,    \* the grand totals an invoice can have
  Quantities \* the amounts a payment can book

VARIABLES
  due,     \* the invoices that have been issued, with their grand total
  settled, \* what has been paid on each
  standing \* what a user is told of it

ivars == <<due, settled, standing>>

(* Whoever pays in several parts, and to the last cent, may be told that a *)
(* part is missing.  An invoice that is paid, or paid in part, stays so    *)
(* when so much is taken back that nothing remains.                        *)
Standings(total, before, n, old) ==
  LET sum == before + n
      short == IF sum > 0 THEN "PARTIALLY_PAID" ELSE old
  IN CASE sum < total -> {short}
       [] sum = total /\ before # 0 -> {"PAID", short}
       [] OTHER -> {"PAID"}

AInit ==
  /\ due = [i \in {} |-> 0]
  /\ settled = [i \in Invoices |-> 0]
  /\ standing = [i \in Invoices |-> "DRAFT"]

Bill(i, n) ==
  /\ i \notin DOMAIN due
  /\ due' = [j \in DOMAIN due \cup {i} |-> IF j = i THEN n ELSE due[j]]
  /\ UNCHANGED <<settled, standing>>

Book(i, n) ==
  /\ i \in DOMAIN due
  /\ settled' = [settled EXCEPT ![i] = @ + n]
  /\ \E s \in Standings(due[i], settled[i], n, standing[i]) :
       standing' = [standing EXCEPT ![i] = s]
  /\ UNCHANGED due

ANext ==
  \/ \E i \in Invoices, n \in Totals : Bill(i, n)
  \/ \E i \in Invoices, n \in Quantities : Book(i, n)

ASpec == AInit /\ [][ANext]_ivars
=============================================================================
