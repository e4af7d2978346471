----------------------------- MODULE Settlement -----------------------------
(***************************************************************************)
(* Payments and the invoices they settle: create of PaymentService, create *)
(* and remove of InvoiceService.                                           *)
(*                                                                         *)
(* A payment names the invoices it is matched with, and an amount for      *)
(* each.  The handler goes through them: it finds the invoice, adds a      *)
(* match, and counts the amount to the invoice's paidAmount.  The first    *)
(* find of an invoice in a request reads its row; a later one returns the  *)
(* entity that the request holds.  A find after the first match flushes    *)
(* what is pending, so a payment with n matches commits n times, and other *)
(* requests run between any two of its steps.                              *)
(*                                                                         *)
(* Of the table payment_invoice_matches, matched keeps by invoice the sums *)
(* of the amounts above and below zero: nothing checks what a body says,   *)
(* so a match may be of nothing, or take back, and a total may be below    *)
(* zero.                                                                   *)
(*                                                                         *)
(* Amounts are decimal(14,2) columns; the integers count hundredths.  In   *)
(* between the handler adds numbers, which are binary fractions, and       *)
(* compares before the column rounds the sum: 0.7 + 0.1 is less than 0.8.  *)
(* Low says which sums come out so.  That a sum of three matches of one    *)
(* request comes out above the zero that it equals is left out, as are     *)
(* partner, currency, dates and numbers.                                   *)
(***************************************************************************)
EXTENDS Integers, Sequences

CONSTANTS
  Invoices,
  Payments,  \* payment requests, each served once: the bound of a TLC run
  Totals,    \* the grand totals that invoices can have
  Amounts,   \* the amounts that matches can have
  Low,       \* what is paid and added, where the sum comes out too low
  Bodies,    \* the matchedInvoices of the requests
  Overlapping \* invoices to which two payments may be in progress together

Match == [invoice : Invoices, amount : Amounts]

ASSUME TotalsAssumption == Totals \subseteq Int
ASSUME AmountsAssumption == Amounts \subseteq Int
ASSUME LowAssumption == Low \subseteq (Int \ {0}) \X Amounts
ASSUME BodiesAssumption == Bodies \subseteq Seq(Match)
ASSUME OverlapAssumption == Overlapping \subseteq Invoices

VARIABLES
  invoice,   \* the rows of invoices
  matched,   \* payment_invoice_matches, by invoice
  saved,     \* the payments whose row is in the table
  payment,   \* the payment requests
  held       \* the invoices that each request holds: the last synchronized image

vars == <<invoice, matched, saved, payment, held>>

Status == {"DRAFT", "PARTIALLY_PAID", "PAID"}

(* NONE stands for no row, and for an invoice that a request does not hold. *)
Image == [paid : Int, status : Status \cup {"NONE"}]
Row == [total : Int, paid : Int, status : Status \cup {"NONE"}, deleted : BOOLEAN]
Matches == [plus : Int, minus : Int]
Phase == {"new", "find", "flush", "created", "failed"}
Request == [phase : Phase, body : Seq(Match), at : Nat]

TypeOK ==
  /\ invoice \in [Invoices -> Row]
  /\ matched \in [Invoices -> Matches]
  /\ saved \in SUBSET Payments
  /\ payment \in [Payments -> Request]
  /\ held \in [Payments -> [Invoices -> Image]]

Init ==
  /\ invoice = [i \in Invoices |->
       [total |-> 0, paid |-> 0, status |-> "NONE", deleted |-> FALSE]]
  /\ matched = [i \in Invoices |-> [plus |-> 0, minus |-> 0]]
  /\ saved = {}
  /\ payment = [p \in Payments |-> [phase |-> "new", body |-> <<>>, at |-> 0]]
  /\ held = [p \in Payments |-> [i \in Invoices |-> [paid |-> 0, status |-> "NONE"]]]

Exists(i) == invoice[i].status # "NONE"
Holds(p, i) == held[p][i].status # "NONE"

-----------------------------------------------------------------------------
(* Operators named ...Fault are the definition that follows them with a    *)
(* slip in it; they are used only to see that the properties notice.       *)

IssueFault(i, total) ==  \* issues what it should leave a draft
  /\ ~Exists(i)
  /\ invoice' = [invoice EXCEPT ![i] =
       [total |-> total, paid |-> 0, status |-> "ISSUED", deleted |-> FALSE]]
  /\ UNCHANGED <<matched, saved, payment, held>>

(* InvoiceService.create.  total is the sum of the lines less the          *)
(* discount; the tax stays zero.                                           *)
Issue(i, total) ==
  /\ ~Exists(i)
  /\ invoice' = [invoice EXCEPT ![i] =
       [total |-> total, paid |-> 0, status |-> "DRAFT", deleted |-> FALSE]]
  /\ UNCHANGED <<matched, saved, payment, held>>

(* InvoiceService.remove writes one column, whatever the row is. *)
Remove(i) ==
  /\ Exists(i)
  /\ invoice' = [invoice EXCEPT ![i].deleted = TRUE]
  /\ UNCHANGED <<matched, saved, payment, held>>

-----------------------------------------------------------------------------
(* Payments.                                                               *)

Named(p) == {payment[p].body[k].invoice : k \in DOMAIN payment[p].body}
Active(p) == payment[p].phase \in {"find", "flush"}
Current(p) == payment[p].body[payment[p].at]

(* The code never waits: every invoice is in Overlapping unless its users  *)
(* book one payment at a time.                                             *)
MayStart(body) ==
  \A p \in Payments, k \in DOMAIN body :
    Active(p) /\ body[k].invoice \in Named(p) => body[k].invoice \in Overlapping

(* The request arrives.  Without matches there is nothing to find, and the *)
(* payment is an advance.                                                  *)
Start(p, body) ==
  /\ payment[p].phase = "new"
  /\ MayStart(body)
  /\ payment' = [payment EXCEPT ![p] =
       [phase |-> IF body = <<>> THEN "flush" ELSE "find", body |-> body, at |-> 1]]
  /\ UNCHANGED <<invoice, matched, saved, held>>

(* What findOneOrFail gives the request for an invoice. *)
Found(p, i) ==
  IF Holds(p, i) THEN held[p][i]
    ELSE [paid |-> invoice[i].paid, status |-> invoice[i].status]

Find(p) ==
  LET i == Current(p).invoice IN
  /\ payment[p].phase = "find"
  /\ held' = [held EXCEPT ![p][i] = Found(p, i)]
  /\ payment' = [payment EXCEPT ![p].phase =
                   IF Holds(p, i) \/ Exists(i) THEN "flush" ELSE "failed"]
  /\ UNCHANGED <<invoice, matched, saved>>

SettledTwiceFault(image, total, amount) ==  \* adds the amount once more to compare
  LET paid == image.paid + amount IN
  [paid   |-> paid,
   status |-> IF paid + amount >= total THEN "PAID"
              ELSE IF paid > 0 THEN "PARTIALLY_PAID" ELSE image.status]

SettledAnywayFault(image, total, amount) ==  \* asks not whether anything is paid
  LET paid == image.paid + amount IN
  [paid   |-> paid,
   status |-> IF paid >= total THEN "PAID" ELSE "PARTIALLY_PAID"]

(* Whether the sum, as it is before the column rounds it, is at least the  *)
(* total: a sum that is too low falls short of the total that it equals.   *)
Reaches(image, total, amount) ==
  LET paid == image.paid + amount IN
  paid > total \/ (paid = total /\ <<image.paid, amount>> \notin Low)

(* The entity after the assignments of the handler. *)
Settled(image, total, amount) ==
  LET paid == image.paid + amount IN
  [paid   |-> paid,
   status |-> IF Reaches(image, total, amount) THEN "PAID"
              ELSE IF paid > 0 THEN "PARTIALLY_PAID" ELSE image.status]

(* One more match of an invoice, and what all of them come to. *)
Matching(m, amount) ==
  [plus  |-> IF amount > 0 THEN m.plus + amount ELSE m.plus,
   minus |-> IF amount < 0 THEN m.minus + amount ELSE m.minus]
Net(m) == m.plus + m.minus

(* The UPDATE names only the columns that changed in the image. *)
Written(row, image, after) ==
  [row EXCEPT !.paid = IF after.paid # image.paid THEN after.paid ELSE @,
              !.status = IF after.status # image.status THEN after.status ELSE @]

FlushMatchFault(p) ==  \* the request keeps the image that it read
  LET i == Current(p).invoice
      a == Current(p).amount
      after == Settled(held[p][i], invoice[i].total, a)
  IN
  /\ invoice' = [invoice EXCEPT ![i] = Written(@, held[p][i], after)]
  /\ matched' = [matched EXCEPT ![i] = Matching(@, a)]
  /\ held' = [held EXCEPT ![p][i] = @]

FlushMatch(p) ==
  LET i == Current(p).invoice
      a == Current(p).amount
      after == Settled(held[p][i], invoice[i].total, a)
  IN
  /\ invoice' = [invoice EXCEPT ![i] = Written(@, held[p][i], after)]
  /\ matched' = [matched EXCEPT ![i] = Matching(@, a)]
  /\ held' = [held EXCEPT ![p][i] = after]

(* The flush: the one that the next find starts with, or the last line.    *)
Flush(p) ==
  /\ payment[p].phase = "flush"
  /\ IF payment[p].body = <<>>
       THEN UNCHANGED <<invoice, matched, held>>
       ELSE FlushMatch(p)
  /\ saved' = saved \cup {p}
  /\ payment' = [payment EXCEPT
       ![p].phase = IF payment[p].at < Len(payment[p].body)
                      THEN "find" ELSE "created",
       ![p].at = @ + 1]

(* The database refuses a statement or the process dies: what was flushed  *)
(* stays.                                                                  *)
Break(p) ==
  /\ Active(p)
  /\ payment' = [payment EXCEPT ![p].phase = "failed"]
  /\ UNCHANGED <<invoice, matched, saved, held>>

Next ==
  \/ \E i \in Invoices : Remove(i) \/ \E total \in Totals : Issue(i, total)
  \/ \E p \in Payments, body \in Bodies : Start(p, body)
  \/ \E p \in Payments : Find(p) \/ Flush(p) \/ Break(p)

Spec == Init /\ [][Next]_vars

-----------------------------------------------------------------------------
(* What holds however payments overlap, and whatever they are matched      *)
(* with.                                                                   *)

(* An invoice shows no more than the matches that add to it, and no less   *)
(* than those that take back: the error that overlap can make is that a    *)
(* match is forgotten, not that one is counted twice.                      *)
PaidWithinMatched ==
  \A i \in Invoices : Exists(i) =>
    /\ invoice[i].paid <= matched[i].plus
    /\ invoice[i].paid >= matched[i].minus

(* An invoice that is called paid has been covered by matches, whatever    *)
(* its paidAmount says, and whatever was taken back since.                 *)
PaidIsCovered ==
  \A i \in Invoices :
    Exists(i) /\ invoice[i].status = "PAID" => matched[i].plus >= invoice[i].total

(* An invoice is a draft only as long as nothing is paid on it, and it     *)
(* stops to be one only when something is, unless nothing was due.         *)
DraftIsUnpaid ==
  \A i \in Invoices : Exists(i) =>
    IF invoice[i].status = "DRAFT"
      THEN invoice[i].paid <= 0
      ELSE matched[i].plus > 0 \/ invoice[i].total <= 0

(* The same of the images that requests hold, and matches only where there *)
(* is an invoice: with this the three are inductive.                       *)
HeldInv ==
  /\ \A i \in Invoices : ~Exists(i) => matched[i] = [plus |-> 0, minus |-> 0]
  /\ \A p \in Payments, i \in Invoices : Holds(p, i) =>
       /\ Exists(i)
       /\ held[p][i].paid <= matched[i].plus
       /\ held[p][i].paid >= matched[i].minus
       /\ held[p][i].status = "PAID" => matched[i].plus >= invoice[i].total
       /\ IF held[p][i].status = "DRAFT"
            THEN held[p][i].paid <= 0
            ELSE invoice[i].status # "DRAFT"
  /\ \A p \in Payments : payment[p].phase \in {"find", "flush"} =>
       /\ payment[p].phase = "flush" /\ payment[p].body # <<>> =>
            payment[p].at \in DOMAIN payment[p].body /\ Holds(p, Current(p).invoice)
       /\ payment[p].phase = "find" => payment[p].at \in DOMAIN payment[p].body

OverlapInv == TypeOK /\ PaidWithinMatched /\ PaidIsCovered /\ DraftIsUnpaid /\ HeldInv

-----------------------------------------------------------------------------
(* What holds for the invoices whose payments do not overlap; removals of  *)
(* the invoice may still overlap with them, and requests may break off     *)
(* after some of their matches.                                            *)

Serial == Invoices \ Overlapping

(* paidAmount is the sum of the matches (invoice.entity.ts, paidAmount).   *)
PaidEqualsMatches ==
  \A i \in Serial : Exists(i) => invoice[i].paid = Net(matched[i])

Account == INSTANCE InvoiceAccount WITH
  Invoices <- Serial,
  due <- [i \in {j \in Serial : Exists(j)} |-> invoice[i].total],
  settled <- [i \in Serial |-> Net(matched[i])],
  standing <- [i \in Serial |-> IF Exists(i) THEN invoice[i].status ELSE "DRAFT"],
  Quantities <- Amounts

(* A payment books its matches one at a time and each takes effect at      *)
(* once, on the invoice as it is then; the status follows what is paid,    *)
(* but for an invoice that is paid to the last cent in several parts, and  *)
(* for one on which less than nothing remains.                             *)
ImplementsAccount == Account!ASpec
=============================================================================
