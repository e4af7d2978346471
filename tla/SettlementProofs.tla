-------------------------- MODULE SettlementProofs --------------------------
(***************************************************************************)
(* Theorems about Settlement and FinanceReports, for every set of invoices *)
(* and payments, every body with amounts of either sign, and payments that *)
(* overlap in every way; those about the reports for finite sets of them.  *)
(*                                                                         *)
(* The invariant is OverlapInv.  Its part HeldInv says of the images that  *)
(* requests hold what the three properties say of the rows: the sums of    *)
(* the matches above and below zero only move away from it, so what was    *)
(* true of a row when it was read stays true of the image, and a flush of  *)
(* the image brings it back to the row.                                    *)
(*                                                                         *)
(* The reports compare sums over different tables.  Their invariant is     *)
(* BookedInv, over sums that the lemmas from SmallestSet to SumMinus are     *)
(* about: what all invoices have matched is what all payments have booked. *)
(***************************************************************************)
EXTENDS FinanceReports, FiniteSetTheorems, TLAPS

(* The three properties, for one invoice. *)
RowInv(row, m) ==
  row.status # "NONE" =>
    /\ row.paid <= m.plus /\ row.paid >= m.minus
    /\ row.status = "PAID" => m.plus >= row.total
    /\ row.status = "DRAFT" => row.paid <= 0
    /\ row.status # "DRAFT" => m.plus > 0 \/ row.total <= 0

(* HeldInv, for one image of it. *)
ImageInv(image, row, m) ==
  image.status # "NONE" =>
    /\ row.status # "NONE"
    /\ image.paid <= m.plus /\ image.paid >= m.minus
    /\ image.status = "PAID" => m.plus >= row.total
    /\ image.status = "DRAFT" => image.paid <= 0
    /\ image.status # "DRAFT" => row.status # "DRAFT"

(* HeldInv, for the place a request is at. *)
PlaceInv(req, images) ==
  /\ req.phase = "find" => req.at \in DOMAIN req.body
  /\ req.phase = "flush" /\ req.body # <<>> =>
       /\ req.at \in DOMAIN req.body
       /\ images[req.body[req.at].invoice].status # "NONE"

(* OverlapInv, with its parts by invoice and by request. *)
LEMMA OverlapInvByPart ==
  OverlapInv <=>
    /\ TypeOK
    /\ \A i \in Invoices : RowInv(invoice[i], matched[i])
    /\ \A i \in Invoices : invoice[i].status = "NONE" => matched[i] = [plus |-> 0, minus |-> 0]
    /\ \A p \in Payments, i \in Invoices : ImageInv(held[p][i], invoice[i], matched[i])
    /\ \A p \in Payments : PlaceInv(payment[p], held[p])
BY DEF OverlapInv, PaidWithinMatched, PaidIsCovered, DraftIsUnpaid, HeldInv,
       RowInv, ImageInv, PlaceInv, Exists, Holds, Current

(* The invoice at the place of a request, and the amount. *)
LEMMA CurrentType ==
  ASSUME TypeOK, NEW p \in Payments, payment[p].at \in DOMAIN payment[p].body
  PROVE  /\ Current(p).invoice \in Invoices
         /\ Current(p).amount \in Amounts
         /\ Current(p).amount \in Int
<1>1. payment[p].body \in Seq(Match)
  BY DEF TypeOK, Request
<1>2. Current(p) \in Match
  BY <1>1 DEF Current
<1> QED
  BY <1>2, AmountsAssumption DEF Match, AmountsAssumption

(* One more match: the sums move away from zero, by the amount. *)
LEMMA MatchingType ==
  ASSUME NEW m \in Matches, NEW amount \in Int
  PROVE  /\ Matching(m, amount) \in Matches
         /\ Matching(m, amount).plus \in Int /\ Matching(m, amount).minus \in Int
         /\ Matching(m, amount).plus >= m.plus /\ Matching(m, amount).plus >= m.plus + amount
         /\ Matching(m, amount).minus <= m.minus /\ Matching(m, amount).minus <= m.minus + amount
         /\ Net(m) \in Int /\ Net(Matching(m, amount)) = Net(m) + amount
<1>1. m.plus \in Int /\ m.minus \in Int
  BY DEF Matches
<1>2. /\ Matching(m, amount).plus = IF amount > 0 THEN m.plus + amount ELSE m.plus
      /\ Matching(m, amount).minus = IF amount < 0 THEN m.minus + amount ELSE m.minus
  BY DEF Matching
<1>3. Matching(m, amount).plus \in Int /\ Matching(m, amount).minus \in Int
  BY <1>1, <1>2
<1>4. Matching(m, amount) \in Matches
  BY <1>2, <1>3 DEF Matching, Matches
<1> QED
  BY <1>1, <1>2, <1>3, <1>4 DEF Net

LEMMA NetType == \A m \in Matches : Net(m) \in Int
BY DEF Net, Matches

LEMMA NoMatches == Net([plus |-> 0, minus |-> 0]) = 0
BY DEF Net

(* Paying: the image afterwards, and the row it is written to. *)
LEMMA SettledType ==
  ASSUME NEW image \in Image, NEW total \in Int, NEW amount \in Int,
         image.status # "NONE"
  PROVE  /\ Settled(image, total, amount) \in Image
         /\ Settled(image, total, amount).paid = image.paid + amount
         /\ Settled(image, total, amount).paid \in Int
         /\ Settled(image, total, amount).status \in {"PAID", "PARTIALLY_PAID", image.status}
         /\ Settled(image, total, amount).status # "NONE"
         /\ Settled(image, total, amount).status # image.status =>
              /\ Settled(image, total, amount).status = "PAID" => image.paid + amount >= total
              /\ Settled(image, total, amount).status # "PAID" => image.paid + amount > 0
         /\ Settled(image, total, amount).status = "DRAFT" =>
              image.status = "DRAFT" /\ image.paid + amount <= 0
<1>1. /\ image.paid \in Int
      /\ image.paid + amount \in Int
      /\ image.status \in Status
  BY DEF Image
<1>2. /\ Settled(image, total, amount).paid = image.paid + amount
      /\ Settled(image, total, amount).status =
           IF Reaches(image, total, amount) THEN "PAID"
           ELSE IF image.paid + amount > 0 THEN "PARTIALLY_PAID" ELSE image.status
  BY DEF Settled
<1>3. Settled(image, total, amount).status \in Status
  BY <1>1, <1>2 DEF Status
<1>4. Settled(image, total, amount) \in Image
  BY <1>1, <1>2, <1>3 DEF Settled, Image
<1>5. Reaches(image, total, amount) => image.paid + amount >= total
  BY <1>1 DEF Reaches
<1> QED
  BY <1>1, <1>2, <1>3, <1>4, <1>5 DEF Status

LEMMA WrittenType ==
  ASSUME NEW row \in Row, NEW image \in Image, NEW after \in Image
  PROVE  /\ Written(row, image, after) \in Row
         /\ Written(row, image, after).total = row.total
         /\ Written(row, image, after).paid \in {row.paid, after.paid}
         /\ Written(row, image, after).paid =
              IF after.paid # image.paid THEN after.paid ELSE row.paid
         /\ Written(row, image, after).status =
              IF after.status # image.status THEN after.status ELSE row.status
BY DEF Written, Row, Image

(* A flush of an image that satisfies ImageInv keeps the row right. *)
LEMMA WrittenKeepsRow ==
  ASSUME NEW row \in Row, NEW image \in Image, NEW m \in Matches, NEW amount \in Int,
         image.status # "NONE", RowInv(row, m), ImageInv(image, row, m)
  PROVE  LET after == Settled(image, row.total, amount)
             new == Written(row, image, after)
         IN /\ new.status # "NONE" /\ (row.status # "DRAFT" => new.status # "DRAFT")
            /\ RowInv(new, Matching(m, amount))
            /\ ImageInv(after, new, Matching(m, amount))
<1> DEFINE after == Settled(image, row.total, amount)
           new == Written(row, image, after)
           n == Matching(m, amount)
<1>1. row.total \in Int /\ row.paid \in Int /\ image.paid \in Int
      /\ m.plus \in Int /\ m.minus \in Int
  BY DEF Row, Image, Matches
<1>2. /\ after \in Image
      /\ after.paid = image.paid + amount
      /\ after.status \in {"PAID", "PARTIALLY_PAID", image.status} /\ after.status # "NONE"
      /\ after.status # image.status =>
           /\ after.status = "PAID" => image.paid + amount >= row.total
           /\ after.status # "PAID" => image.paid + amount > 0
      /\ after.status = "DRAFT" => image.status = "DRAFT" /\ image.paid + amount <= 0
  BY <1>1, SettledType
<1>3. /\ new.total = row.total
      /\ new.paid = IF after.paid # image.paid THEN after.paid ELSE row.paid
      /\ new.status = IF after.status # image.status THEN after.status ELSE row.status
  BY ZenonT(60), <1>2, WrittenType
<1>4. /\ row.status # "NONE"
      /\ image.paid <= m.plus /\ row.paid <= m.plus
      /\ image.paid >= m.minus /\ row.paid >= m.minus
      /\ image.status = "PAID" => m.plus >= row.total
      /\ image.status = "DRAFT" => image.paid <= 0
      /\ image.status # "DRAFT" => row.status # "DRAFT"
      /\ row.status = "PAID" => m.plus >= row.total
      /\ row.status = "DRAFT" => row.paid <= 0
      /\ row.status # "DRAFT" => m.plus > 0 \/ row.total <= 0
  BY DEF RowInv, ImageInv
<1>5. /\ n.plus \in Int /\ n.minus \in Int
      /\ n.plus >= m.plus /\ n.plus >= m.plus + amount
      /\ n.minus <= m.minus /\ n.minus <= m.minus + amount
  BY MatchingType
<1> HIDE DEF after, new, n
<1>6. new.status # "NONE" /\ (row.status # "DRAFT" => new.status # "DRAFT")
  BY <1>2, <1>3, <1>4
<1>7. /\ new.paid <= n.plus /\ after.paid <= n.plus
      /\ new.paid >= n.minus /\ after.paid >= n.minus
  BY <1>1, <1>2, <1>3, <1>4, <1>5
<1>8. after.status = "PAID" => n.plus >= new.total
  BY <1>1, <1>2, <1>3, <1>4, <1>5
<1>9. new.status = "PAID" => n.plus >= new.total
  BY <1>1, <1>2, <1>3, <1>4, <1>5, <1>8
<1>10. new.status = "DRAFT" => new.paid <= 0
  BY <1>1, <1>2, <1>3, <1>4
<1>11. new.status # "DRAFT" => n.plus > 0 \/ new.total <= 0
  <2>1. CASE after.status # image.status
    BY <1>1, <1>2, <1>3, <1>4, <1>5, <2>1
  <2>2. CASE after.status = image.status
    BY <1>1, <1>3, <1>4, <1>5, <2>2
  <2> QED
    BY <2>1, <2>2
<1>12. after.status # "DRAFT" => new.status # "DRAFT"
  BY <1>2, <1>3, <1>4
<1>13. RowInv(new, n)
  BY <1>6, <1>7, <1>9, <1>10, <1>11 DEF RowInv
<1>14. ImageInv(after, new, n)
  BY <1>2, <1>6, <1>7, <1>8, <1>12 DEF ImageInv
<1> QED
  BY <1>6, <1>13, <1>14 DEF after, new, n

(* The images that others hold of the invoice stay right. *)
LEMMA WrittenKeepsImages ==
  ASSUME NEW row \in Row, NEW new \in Row, NEW m \in Matches, NEW amount \in Int,
         NEW image \in Image, new.total = row.total, new.status # "NONE",
         row.status # "DRAFT" => new.status # "DRAFT", ImageInv(image, row, m)
  PROVE  ImageInv(image, new, Matching(m, amount))
<1>1. /\ image.paid \in Int /\ row.total \in Int
      /\ m.plus \in Int /\ m.minus \in Int
  BY DEF Image, Row, Matches
<1>2. PICK n : n = Matching(m, amount)
  OBVIOUS
<1>3. n.plus \in Int /\ n.minus \in Int /\ n.plus >= m.plus /\ n.minus <= m.minus
  BY <1>2, MatchingType
<1>4. ImageInv(image, new, n)
  BY <1>1, <1>3 DEF ImageInv
<1> QED
  BY <1>2, <1>4

-----------------------------------------------------------------------------
LEMMA InitOverlapInv == Init => OverlapInv
<1> SUFFICES ASSUME Init PROVE OverlapInv
  OBVIOUS
<1>1. TypeOK
  BY DEF Init, TypeOK, Row, Image, Request, Phase, Matches
<1>2. \A i \in Invoices : invoice[i].status = "NONE" /\ matched[i] = [plus |-> 0, minus |-> 0]
  BY DEF Init
<1>3. \A p \in Payments, i \in Invoices : held[p][i].status = "NONE"
  BY DEF Init
<1>4. \A p \in Payments : payment[p].phase = "new"
  BY SMTT(40) DEF Init
<1> QED
  BY <1>1, <1>2, <1>3, <1>4, OverlapInvByPart DEF RowInv, ImageInv, PlaceInv

(* What is to show of the state after a step. *)
LEMMA PartsKeep ==
  ASSUME TypeOK',
         \A i \in Invoices : RowInv(invoice'[i], matched'[i]),
         \A i \in Invoices :
           invoice'[i].status = "NONE" => matched'[i] = [plus |-> 0, minus |-> 0],
         \A p \in Payments, i \in Invoices : ImageInv(held'[p][i], invoice'[i], matched'[i]),
         \A p \in Payments : PlaceInv(payment'[p], held'[p])
  PROVE  OverlapInv'
<1>1. PaidWithinMatched'
  BY DEF PaidWithinMatched, RowInv, Exists
<1>2. PaidIsCovered'
  BY DEF PaidIsCovered, RowInv, Exists
<1>3. DraftIsUnpaid'
  BY DEF DraftIsUnpaid, RowInv, Exists
<1>4. HeldInv'
  BY DEF HeldInv, ImageInv, PlaceInv, Exists, Holds, Current
<1> QED
  BY <1>1, <1>2, <1>3, <1>4 DEF OverlapInv

LEMMA IssueKeeps ==
  ASSUME OverlapInv, NEW i \in Invoices, NEW total \in Totals, Issue(i, total)
  PROVE  OverlapInv'
<1> DEFINE row == [total |-> total, paid |-> 0, status |-> "DRAFT", deleted |-> FALSE]
<1>1. /\ invoice' = [invoice EXCEPT ![i] = row]
      /\ UNCHANGED <<matched, saved, payment, held>>
      /\ invoice[i].status = "NONE"
  BY DEF Issue, Exists
<1>2. invoice \in [Invoices -> Row] /\ row \in Row
  BY TotalsAssumption DEF OverlapInv, TypeOK, Row, Status, TotalsAssumption
<1>3. TypeOK'
  BY <1>1, <1>2 DEF OverlapInv, TypeOK
<1>4. matched[i] = [plus |-> 0, minus |-> 0]
  BY <1>1, OverlapInvByPart
<1>5. \A j \in Invoices : RowInv(invoice'[j], matched'[j])
  BY <1>1, <1>2, <1>4, OverlapInvByPart DEF RowInv
<1>6. \A j \in Invoices :
        invoice'[j].status = "NONE" => matched'[j] = [plus |-> 0, minus |-> 0]
  BY <1>1, <1>2, OverlapInvByPart
<1>7. \A p \in Payments, j \in Invoices : ImageInv(held'[p][j], invoice'[j], matched'[j])
  BY <1>1, <1>2, OverlapInvByPart DEF ImageInv
<1>8. \A p \in Payments : PlaceInv(payment'[p], held'[p])
  BY SMTT(40), <1>1, OverlapInvByPart
<1> QED
  BY <1>3, <1>5, <1>6, <1>7, <1>8, PartsKeep

LEMMA RemoveKeeps ==
  ASSUME OverlapInv, NEW i \in Invoices, Remove(i)
  PROVE  OverlapInv'
<1> DEFINE row == [invoice[i] EXCEPT !.deleted = TRUE]
<1>1. invoice \in [Invoices -> Row]
  BY DEF OverlapInv, TypeOK
<1>2. invoice[i] \in Row
  BY <1>1
<1>3. row \in Row
  BY <1>2 DEF Row
<1>4. row.status = invoice[i].status /\ row.paid = invoice[i].paid /\ row.total = invoice[i].total
  BY <1>2 DEF Row
<1>5. /\ invoice' = [invoice EXCEPT ![i] = row]
      /\ UNCHANGED <<matched, saved, payment, held>>
  BY DEF Remove
<1> HIDE DEF row
<1>6. TypeOK'
  BY <1>1, <1>3, <1>5 DEF OverlapInv, TypeOK
<1>7. \A j \in Invoices : /\ invoice'[j].status = invoice[j].status
                          /\ invoice'[j].paid = invoice[j].paid
                          /\ invoice'[j].total = invoice[j].total
  BY <1>1, <1>5, <1>4
<1>8. PaidWithinMatched'
  BY <1>5, <1>7 DEF OverlapInv, PaidWithinMatched, Exists
<1>9. PaidIsCovered'
  BY <1>5, <1>7 DEF OverlapInv, PaidIsCovered, Exists
<1>10. DraftIsUnpaid'
  BY <1>5, <1>7 DEF OverlapInv, DraftIsUnpaid, Exists
<1>11. HeldInv'
  BY <1>5, <1>7 DEF OverlapInv, HeldInv, Exists, Holds, Current
<1> QED
  BY <1>6, <1>8, <1>9, <1>10, <1>11 DEF OverlapInv

(* A step that writes no row: what is left to show of it are images and    *)
(* places.                                                                 *)
LEMMA RowsRestKeep ==
  ASSUME OverlapInv, TypeOK', UNCHANGED <<invoice, matched>>,
         \A p \in Payments, i \in Invoices : ImageInv(held'[p][i], invoice'[i], matched'[i]),
         \A p \in Payments : PlaceInv(payment'[p], held'[p])
  PROVE  OverlapInv'
<1>1. \A i \in Invoices :
        /\ RowInv(invoice'[i], matched'[i])
        /\ invoice'[i].status = "NONE" => matched'[i] = [plus |-> 0, minus |-> 0]
  BY OverlapInvByPart
<1> QED
  BY <1>1, PartsKeep

(* And of one that writes no image: places alone. *)
LEMMA PlacesKeep ==
  ASSUME OverlapInv, TypeOK', UNCHANGED <<invoice, matched, held>>,
         \A p \in Payments : PlaceInv(payment'[p], held'[p])
  PROVE  OverlapInv'
<1>1. \A p \in Payments, i \in Invoices : ImageInv(held'[p][i], invoice'[i], matched'[i])
  BY OverlapInvByPart
<1> QED
  BY <1>1, RowsRestKeep

(* Start and Break change only the request, and Break never to a place. *)
LEMMA StartKeeps ==
  ASSUME OverlapInv, NEW p \in Payments, NEW body \in Bodies, Start(p, body)
  PROVE  OverlapInv'
<1> DEFINE req == [phase |-> IF body = <<>> THEN "flush" ELSE "find", body |-> body, at |-> 1]
<1>1. /\ payment' = [payment EXCEPT ![p] = req]
      /\ UNCHANGED <<invoice, matched, saved, held>>
  BY DEF Start
<1>2. body \in Seq(Match)
  BY BodiesAssumption DEF BodiesAssumption
<1>3. req \in Request
  BY <1>2 DEF Request, Phase
<1>4. payment \in [Payments -> Request]
  BY DEF OverlapInv, TypeOK
<1>5. TypeOK'
  BY <1>1, <1>3, <1>4 DEF OverlapInv, TypeOK
<1>6. body # <<>> => 1 \in DOMAIN body
  BY <1>2
<1>7. PlaceInv(req, held[p])
  BY <1>6 DEF PlaceInv
<1>8. \A r \in Payments : PlaceInv(payment'[r], held'[r])
  BY <1>1, <1>4, <1>7, OverlapInvByPart
<1> QED
  BY <1>1, <1>5, <1>8, PlacesKeep

LEMMA BreakKeeps ==
  ASSUME OverlapInv, NEW p \in Payments, Break(p)
  PROVE  OverlapInv'
<1> DEFINE req == [phase |-> "failed", body |-> payment[p].body, at |-> payment[p].at]
<1>1. payment \in [Payments -> Request]
  BY DEF OverlapInv, TypeOK
<1>2. payment[p] \in Request
  BY <1>1
<1>3. /\ payment' = [payment EXCEPT ![p] = req]
      /\ UNCHANGED <<invoice, matched, saved, held>>
  <2>1. /\ payment' = [payment EXCEPT ![p] = [payment[p] EXCEPT !.phase = "failed"]]
        /\ UNCHANGED <<invoice, matched, saved, held>>
    BY DEF Break
  <2>2. [payment[p] EXCEPT !.phase = "failed"] = req
    BY <1>2 DEF Request
  <2> QED
    BY <2>1, <2>2
<1>4. req \in Request
  BY <1>2 DEF Request, Phase
<1>5. TypeOK'
  BY SMTT(40), <1>1, <1>3, <1>4 DEF OverlapInv, TypeOK
<1>6. \A r \in Payments : PlaceInv(payment'[r], held'[r])
  BY SMTT(40), <1>1, <1>3, OverlapInvByPart DEF PlaceInv
<1> QED
  BY <1>3, <1>5, <1>6, PlacesKeep

(* Find: the request gets an image, of the row as it is or of the one that *)
(* it holds, and both satisfy ImageInv.                                    *)
LEMMA FindKeeps ==
  ASSUME OverlapInv, NEW p \in Payments, Find(p)
  PROVE  OverlapInv'
<1> DEFINE i == Current(p).invoice
           found == Found(p, i)
           req == [payment[p] EXCEPT !.phase =
                     IF Holds(p, i) \/ Exists(i) THEN "flush" ELSE "failed"]
<1>1. /\ payment \in [Payments -> Request] /\ invoice \in [Invoices -> Row]
      /\ held \in [Payments -> [Invoices -> Image]] /\ matched \in [Invoices -> Matches]
      /\ TypeOK
  BY DEF OverlapInv, TypeOK
<1>2. payment[p] \in Request /\ payment[p].phase = "find"
  BY <1>1 DEF Find
<1>3. payment[p].at \in DOMAIN payment[p].body
  BY <1>2, OverlapInvByPart DEF PlaceInv
<1>4. i \in Invoices
  BY <1>1, <1>3, CurrentType
<1>5. req \in Request /\ req.body = payment[p].body /\ req.at = payment[p].at
      /\ req.phase = IF Holds(p, i) \/ Exists(i) THEN "flush" ELSE "failed"
  BY <1>2 DEF Request, Phase
<1>6. /\ payment' = [payment EXCEPT ![p] = req]
      /\ held' = [held EXCEPT ![p] = [held[p] EXCEPT ![i] = found]]
      /\ UNCHANGED <<invoice, matched, saved>>
  BY DEF Find
<1>7. invoice[i] \in Row /\ held[p][i] \in Image /\ matched[i] \in Matches
  BY <1>1, <1>4
<1>8. found \in Image
  BY <1>7 DEF Found, Row, Image
<1>9. ImageInv(found, invoice[i], matched[i])
  <2>1. ImageInv(held[p][i], invoice[i], matched[i]) /\ RowInv(invoice[i], matched[i])
    BY <1>4, OverlapInvByPart
  <2>2. CASE Holds(p, i)
    BY <2>1, <2>2 DEF Found
  <2>3. CASE ~Holds(p, i)
    <3>1. found.paid = invoice[i].paid /\ found.status = invoice[i].status
      BY <2>3 DEF Found
    <3>2. invoice[i].paid \in Int
      BY <1>7 DEF Row
    <3> HIDE DEF found, i
    <3> QED
      BY <1>7, <2>1, <3>1, <3>2 DEF RowInv, ImageInv
  <2> QED
    BY <2>2, <2>3
<1>10. found.status # "NONE" <=> Holds(p, i) \/ Exists(i)
  BY DEF Found, Holds, Exists
<1>11. held'[p][i] = found
  BY SMTT(40), <1>1, <1>4, <1>6
<1>12. PlaceInv(req, held'[p])
  BY <1>2, <1>3, <1>5, <1>10, <1>11 DEF PlaceInv, Current
<1> HIDE DEF found, req, i
<1>13. TypeOK'
  BY <1>1, <1>4, <1>5, <1>6, <1>8 DEF TypeOK
<1>14. \A r \in Payments, j \in Invoices : ImageInv(held'[r][j], invoice'[j], matched'[j])
  BY <1>1, <1>4, <1>6, <1>9, OverlapInvByPart
<1>15. \A r \in Payments : PlaceInv(payment'[r], held'[r])
  BY <1>1, <1>6, <1>12, OverlapInvByPart
<1> QED
  BY <1>6, <1>13, <1>14, <1>15, RowsRestKeep

(* The step of a request over a flush. *)
LEMMA PassedIsPlaced ==
  ASSUME OverlapInv, NEW p \in Payments, Flush(p)
  PROVE  /\ payment' \in [Payments -> Request]
         /\ \A r \in Payments : r # p => payment'[r] = payment[r]
         /\ payment'[p].phase = "find" => payment'[p].at \in DOMAIN payment'[p].body
         /\ payment'[p].phase # "flush"
<1> DEFINE next == IF payment[p].at < Len(payment[p].body) THEN "find" ELSE "created"
           req == [phase |-> next, body |-> payment[p].body, at |-> payment[p].at + 1]
<1>1. payment \in [Payments -> Request]
  BY DEF OverlapInv, TypeOK
<1>2. /\ payment[p] \in Request
      /\ payment[p].body \in Seq(Match) /\ payment[p].at \in Nat
  BY <1>1 DEF Request
<1>3. payment' = [payment EXCEPT ![p].phase = next, ![p].at = @ + 1]
  BY DEF Flush
<1>4. payment' = [payment EXCEPT ![p] = req]
  <2>1. payment' = [payment EXCEPT ![p] =
                      [[payment[p] EXCEPT !.phase = next] EXCEPT !.at = @ + 1]]
    BY <1>1, <1>3
  <2> DEFINE moved == [phase |-> next, body |-> payment[p].body, at |-> payment[p].at]
  <2>2. [payment[p] EXCEPT !.phase = next] = moved
    <3> HIDE DEF next
    <3> QED
      BY <1>2 DEF Request
  <2>3. [moved EXCEPT !.at = @ + 1] = req
    OBVIOUS
  <2> QED
    BY <2>1, <2>2, <2>3
<1>5. req \in Request
  BY <1>2 DEF Request, Phase
<1>6. req.phase = "find" => req.at \in DOMAIN req.body
  BY SMTT(40), <1>2
<1> QED
  BY <1>1, <1>4, <1>5, <1>6

LEMMA AdvanceKeeps ==
  ASSUME OverlapInv, NEW p \in Payments, Flush(p), payment[p].body = <<>>
  PROVE  OverlapInv'
<1>1. UNCHANGED <<invoice, matched, held>> /\ saved' = saved \cup {p}
  BY DEF Flush
<1>2. TypeOK'
  BY SMTT(40), <1>1, PassedIsPlaced DEF OverlapInv, TypeOK
<1>3. \A r \in Payments : PlaceInv(payment'[r], held'[r])
  BY SMTT(40), <1>1, PassedIsPlaced, OverlapInvByPart DEF PlaceInv
<1> QED
  BY <1>1, <1>2, <1>3, PlacesKeep

LEMMA FlushKeeps ==
  ASSUME OverlapInv, NEW p \in Payments, Flush(p)
  PROVE  OverlapInv'
<1> SUFFICES ASSUME payment[p].body # <<>> PROVE OverlapInv'
  BY AdvanceKeeps
<1> DEFINE i == Current(p).invoice
           a == Current(p).amount
           after == Settled(held[p][i], invoice[i].total, a)
           new == Written(invoice[i], held[p][i], after)
<1>1. /\ invoice \in [Invoices -> Row] /\ matched \in [Invoices -> Matches]
      /\ held \in [Payments -> [Invoices -> Image]]
      /\ TypeOK
  BY DEF OverlapInv, TypeOK
<1>2. payment[p].phase = "flush"
  BY SMTT(40) DEF Flush
<1>3. payment[p].at \in DOMAIN payment[p].body /\ held[p][i].status # "NONE"
  BY <1>2, OverlapInvByPart DEF PlaceInv, Current
<1>4. i \in Invoices /\ a \in Int
  BY <1>1, <1>3, CurrentType
<1>5. /\ invoice' = [invoice EXCEPT ![i] = new]
      /\ matched' = [matched EXCEPT ![i] = Matching(matched[i], a)]
      /\ held' = [held EXCEPT ![p] = [held[p] EXCEPT ![i] = after]]
      /\ saved' = saved \cup {p}
  BY DEF Flush, FlushMatch
<1>6. invoice[i] \in Row /\ held[p][i] \in Image /\ matched[i] \in Matches
  BY <1>1, <1>4
<1>7. invoice[i].total \in Int
  BY <1>6 DEF Row
<1>8. after \in Image
  BY <1>3, <1>4, <1>6, <1>7, SettledType
<1>9. new \in Row /\ new.total = invoice[i].total
  BY <1>6, <1>8, WrittenType
<1>10. RowInv(invoice[i], matched[i]) /\ ImageInv(held[p][i], invoice[i], matched[i])
  BY <1>4, OverlapInvByPart
<1>11. /\ new.status # "NONE" /\ (invoice[i].status # "DRAFT" => new.status # "DRAFT")
       /\ RowInv(new, Matching(matched[i], a))
       /\ ImageInv(after, new, Matching(matched[i], a))
  BY <1>3, <1>4, <1>6, <1>10, WrittenKeepsRow
<1> HIDE DEF after, new, i, a
<1>12. /\ invoice'[i] = new /\ matched'[i] = Matching(matched[i], a) /\ held'[p][i] = after
       /\ \A j \in Invoices : j # i =>
            invoice'[j] = invoice[j] /\ matched'[j] = matched[j] /\ held'[p][j] = held[p][j]
       /\ \A r \in Payments : r # p => held'[r] = held[r]
  BY <1>1, <1>4, <1>5
<1>13. TypeOK'
  <2>1. Matching(matched[i], a) \in Matches
    BY <1>4, <1>6, MatchingType
  <2> QED
    BY <1>1, <1>4, <1>5, <1>8, <1>9, <2>1, PassedIsPlaced DEF TypeOK
<1>14. \A j \in Invoices : RowInv(invoice'[j], matched'[j])
  BY <1>11, <1>12, OverlapInvByPart
<1>15. \A j \in Invoices :
        invoice'[j].status = "NONE" => matched'[j] = [plus |-> 0, minus |-> 0]
  BY <1>11, <1>12, OverlapInvByPart
<1>16. ASSUME NEW r \in Payments, NEW j \in Invoices
       PROVE  ImageInv(held'[r][j], invoice'[j], matched'[j])
  <2>1. ImageInv(held[r][j], invoice[j], matched[j])
    BY OverlapInvByPart
  <2>2. CASE j # i
    BY <1>12, <2>1, <2>2
  <2>3. CASE j = i /\ r = p
    BY <1>11, <1>12, <2>3
  <2>4. CASE j = i /\ r # p
    <3>1. held[r][i] \in Image
      BY <1>1, <1>4
    <3>2. ImageInv(held[r][i], new, Matching(matched[i], a))
      BY SMTT(40), <1>4, <1>6, <1>9, <1>11, <2>1, <2>4, <3>1, WrittenKeepsImages
    <3> QED
      BY <1>12, <2>4, <3>2
  <2> QED
    BY <2>2, <2>3, <2>4
<1>17. \A r \in Payments : PlaceInv(payment'[r], held'[r])
  BY SMTT(40), <1>12, PassedIsPlaced, OverlapInvByPart DEF PlaceInv
<1> QED
  BY <1>13, <1>14, <1>15, <1>16, <1>17, PartsKeep

LEMMA StutterKeeps == OverlapInv /\ UNCHANGED vars => OverlapInv'
BY DEF OverlapInv, TypeOK, PaidWithinMatched, PaidIsCovered, DraftIsUnpaid, HeldInv,
       Exists, Holds, Current, vars

-----------------------------------------------------------------------------
LEMMA OverlapInvHolds == Spec => []OverlapInv
<1>1. OverlapInv /\ [Next]_vars => OverlapInv'
  BY IssueKeeps, RemoveKeeps, StartKeeps, FindKeeps, FlushKeeps, BreakKeeps, StutterKeeps
     DEF Next
<1> QED
  BY <1>1, InitOverlapInv, PTL DEF Spec

(* TypeOK holds in every state. *)
THEOREM TypeCorrect == Spec => []TypeOK
<1>1. OverlapInv => TypeOK
  BY DEF OverlapInv
<1> QED
  BY <1>1, OverlapInvHolds, PTL

(* However payments overlap, no invoice shows more than the matches that   *)
(* add to it, and no less than those that take back.                       *)
THEOREM PaidWithinMatchedHolds == Spec => []PaidWithinMatched
<1>1. OverlapInv => PaidWithinMatched
  BY DEF OverlapInv
<1> QED
  BY <1>1, OverlapInvHolds, PTL

(* However payments overlap, an invoice that is called paid has been       *)
(* covered by matches.                                                     *)
THEOREM PaidIsCoveredHolds == Spec => []PaidIsCovered
<1>1. OverlapInv => PaidIsCovered
  BY DEF OverlapInv
<1> QED
  BY <1>1, OverlapInvHolds, PTL

(* However payments overlap, nothing is paid on a draft, and what is no    *)
(* draft has had something paid, unless nothing was due.                   *)
THEOREM DraftIsUnpaidHolds == Spec => []DraftIsUnpaid
<1>1. OverlapInv => DraftIsUnpaid
  BY DEF OverlapInv
<1> QED
  BY <1>1, OverlapInvHolds, PTL

-----------------------------------------------------------------------------
(* Invoices whose payments do not overlap.  The image that a request holds *)
(* of one is the row as it is, from the find to the flush and on to the    *)
(* next match, so that a flush adds the amount to what is there.           *)

Busy(req, i) ==
  /\ req.phase \in {"find", "flush"}
  /\ \E k \in DOMAIN req.body : req.body[k].invoice = i

SeesRow(image, row) ==
  image.status # "NONE" => image.paid = row.paid /\ image.status = row.status

AloneInv ==
  /\ \A i \in Serial : invoice[i].status # "NONE" => invoice[i].paid = Net(matched[i])
  /\ \A p \in Payments, i \in Serial :
       Busy(payment[p], i) => SeesRow(held[p][i], invoice[i])
  /\ \A p \in Payments :
       payment[p].phase = "new" => \A i \in Invoices : held[p][i].status = "NONE"
  /\ \A p, q \in Payments, i \in Serial :
       Busy(payment[p], i) /\ Busy(payment[q], i) => p = q

LEMMA InitAloneInv == Init => AloneInv
<1> SUFFICES ASSUME Init PROVE AloneInv
  OBVIOUS
<1>1. \A i \in Serial : invoice[i].status = "NONE"
  BY DEF Init, Serial
<1>2. \A p \in Payments : payment[p].phase = "new" /\ \A i \in Invoices : held[p][i].status = "NONE"
  BY DEF Init
<1> QED
  BY <1>1, <1>2 DEF AloneInv, Busy

LEMMA RowStepAlone ==
  ASSUME OverlapInv, AloneInv, NEW i \in Invoices,
         Remove(i) \/ \E total \in Totals : Issue(i, total)
  PROVE  AloneInv'
<1>1. /\ invoice \in [Invoices -> Row] /\ matched \in [Invoices -> Matches]
      /\ UNCHANGED <<matched, payment, held>> /\ Serial \subseteq Invoices
  BY DEF OverlapInv, TypeOK, Remove, Issue, Serial
<1>2. CASE Remove(i)
  <2>1. \A j \in Invoices : /\ invoice'[j].paid = invoice[j].paid
                            /\ invoice'[j].status = invoice[j].status
    <3>1. invoice' = [invoice EXCEPT ![i] = [invoice[i] EXCEPT !.deleted = TRUE]]
      BY <1>2 DEF Remove
    <3>2. invoice[i] \in Row
      BY <1>1
    <3> QED
      BY <1>1, <3>1, <3>2 DEF Row
  <2> QED
    BY <1>1, <2>1 DEF AloneInv, SeesRow
<1>3. CASE \E total \in Totals : Issue(i, total)
  <2>1. /\ invoice[i].status = "NONE" /\ Net(matched[i]) = 0
        /\ \A p \in Payments : held[p][i].status = "NONE"
    <3>1. invoice[i].status = "NONE"
      BY <1>3 DEF Issue, Exists
    <3> QED
      BY <3>1, OverlapInvByPart DEF ImageInv, Net
  <2>2. /\ invoice'[i].paid = 0
        /\ \A j \in Invoices : j # i => invoice'[j] = invoice[j]
    BY <1>1, <1>3 DEF Issue
  <2> QED
    BY <1>1, <2>1, <2>2 DEF AloneInv, SeesRow
<1> QED
  BY <1>2, <1>3

LEMMA StartAlone ==
  ASSUME OverlapInv, AloneInv, NEW p \in Payments, NEW body \in Bodies, Start(p, body)
  PROVE  AloneInv'
<1> DEFINE req == [phase |-> IF body = <<>> THEN "flush" ELSE "find", body |-> body, at |-> 1]
<1>1. payment \in [Payments -> Request] /\ Serial \subseteq Invoices
  BY DEF OverlapInv, TypeOK, Serial
<1>2. /\ payment[p].phase = "new" /\ MayStart(body)
      /\ payment' = [payment EXCEPT ![p] = req]
      /\ UNCHANGED <<invoice, matched, held>>
  BY DEF Start
<1>3. req.body = body /\ req.phase \in {"find", "flush"}
  OBVIOUS
<1>4. \A i \in Invoices : held[p][i].status = "NONE"
  BY <1>2 DEF AloneInv
<1>5. ASSUME NEW q \in Payments, NEW i \in Serial, q # p, Busy(payment[q], i), Busy(req, i)
      PROVE  FALSE
  <2>1. PICK k \in DOMAIN body : body[k].invoice = i
    BY <1>3, <1>5 DEF Busy
  <2>2. Active(q) /\ i \in Named(q)
    BY <1>5 DEF Busy, Active, Named
  <2>3. i \in Overlapping
    BY <1>2, <2>1, <2>2 DEF MayStart
  <2> QED
    BY <2>3 DEF Serial
<1> HIDE DEF req
<1>6. payment'[p] = req /\ \A q \in Payments : q # p => payment'[q] = payment[q]
  BY <1>1, <1>2
<1> QED
  BY <1>1, <1>2, <1>3, <1>4, <1>5, <1>6 DEF AloneInv, SeesRow

LEMMA BreakAlone ==
  ASSUME OverlapInv, AloneInv, NEW p \in Payments, Break(p)
  PROVE  AloneInv'
<1>1. payment \in [Payments -> Request]
  BY DEF OverlapInv, TypeOK
<1>2. /\ UNCHANGED <<invoice, matched, held>>
      /\ payment'[p].phase = "failed"
      /\ \A q \in Payments : q # p => payment'[q] = payment[q]
  <2>1. payment[p] \in Request
    BY <1>1
  <2> QED
    BY <1>1, <2>1 DEF Break, Request
<1>3. \A i \in Serial : ~Busy(payment'[p], i)
  BY <1>2 DEF Busy
<1> QED
  BY <1>2, <1>3 DEF AloneInv

LEMMA FindAlone ==
  ASSUME OverlapInv, AloneInv, NEW p \in Payments, Find(p)
  PROVE  AloneInv'
<1> DEFINE i == Current(p).invoice
           found == Found(p, i)
<1>1. /\ payment \in [Payments -> Request] /\ TypeOK
      /\ held \in [Payments -> [Invoices -> Image]] /\ Serial \subseteq Invoices
  BY DEF OverlapInv, TypeOK, Serial
<1>2. payment[p] \in Request /\ payment[p].phase = "find"
  BY <1>1 DEF Find
<1>3. payment[p].at \in DOMAIN payment[p].body
  BY <1>2, OverlapInvByPart DEF PlaceInv
<1>4. i \in Invoices /\ Busy(payment[p], i)
  BY <1>1, <1>2, <1>3, CurrentType DEF Busy, Current
<1>5. /\ held' = [held EXCEPT ![p] = [held[p] EXCEPT ![i] = found]]
      /\ UNCHANGED <<invoice, matched>>
  BY DEF Find
<1>6. /\ payment'[p].body = payment[p].body /\ payment'[p].phase # "new"
      /\ \A q \in Payments : q # p => payment'[q] = payment[q]
  BY <1>1, <1>2 DEF Find, Request
<1>7. i \in Serial => SeesRow(found, invoice[i])
  <2>1. ASSUME i \in Serial PROVE SeesRow(held[p][i], invoice[i])
    BY <1>4, <2>1 DEF AloneInv
  <2> QED
    BY <2>1 DEF Found, SeesRow, Holds
<1> HIDE DEF i, found
<1>8. /\ held'[p][i] = found
      /\ \A j \in Invoices : j # i => held'[p][j] = held[p][j]
      /\ \A q \in Payments : q # p => held'[q] = held[q]
  BY SMTT(40), <1>1, <1>4, <1>5
<1>9. \A q \in Payments, j \in Serial : Busy(payment'[q], j) => Busy(payment[q], j)
  BY <1>2, <1>6 DEF Busy
<1> QED
  BY <1>1, <1>5, <1>6, <1>7, <1>8, <1>9 DEF AloneInv

(* A flush counts the amount to the row of a serial invoice as it is.      *)
LEMMA FlushesAlone ==
  ASSUME OverlapInv, AloneInv, NEW p \in Payments, Flush(p), payment[p].body # <<>>
  PROVE  LET i == Current(p).invoice
             a == Current(p).amount
             after == Settled(held[p][i], invoice[i].total, a)
         IN  /\ i \in Invoices /\ a \in Amounts /\ a \in Int /\ Busy(payment[p], i)
             /\ held[p][i].status # "NONE" /\ invoice[i].status # "NONE"
             /\ matched' = [matched EXCEPT ![i] = Matching(matched[i], a)]
             /\ held'[p][i] = after
             /\ \A j \in Invoices : j # i =>
                  invoice'[j] = invoice[j] /\ held'[p][j] = held[p][j]
             /\ \A q \in Payments : q # p => held'[q] = held[q]
             /\ invoice'[i].total = invoice[i].total /\ invoice'[i].status # "NONE"
             /\ i \in Serial => /\ held[p][i].paid = Net(matched[i])
                                /\ invoice'[i].paid = Net(matched[i]) + a
                                /\ after.paid = Net(matched[i]) + a
                                /\ held[p][i].status = invoice[i].status
                                /\ invoice'[i].status = after.status
<1> DEFINE i == Current(p).invoice
           a == Current(p).amount
           after == Settled(held[p][i], invoice[i].total, a)
           new == Written(invoice[i], held[p][i], after)
<1>1. /\ invoice \in [Invoices -> Row] /\ matched \in [Invoices -> Matches]
      /\ held \in [Payments -> [Invoices -> Image]]
      /\ TypeOK
  BY DEF OverlapInv, TypeOK
<1>2. payment[p].phase = "flush"
  BY SMTT(40) DEF Flush
<1>3. payment[p].at \in DOMAIN payment[p].body /\ held[p][i].status # "NONE"
  BY SMTT(40), <1>2, OverlapInvByPart DEF PlaceInv, Current
<1>4. i \in Invoices /\ a \in Amounts /\ a \in Int /\ Busy(payment[p], i)
  BY <1>1, <1>2, <1>3, CurrentType DEF Busy, Current
<1>5. /\ invoice' = [invoice EXCEPT ![i] = new]
      /\ matched' = [matched EXCEPT ![i] = Matching(matched[i], a)]
      /\ held' = [held EXCEPT ![p] = [held[p] EXCEPT ![i] = after]]
  BY DEF Flush, FlushMatch
<1>6. invoice[i] \in Row /\ held[p][i] \in Image /\ matched[i] \in Matches
  BY <1>1, <1>4
<1>7. invoice[i].total \in Int /\ held[p][i].paid \in Int
  BY <1>6 DEF Row, Image
<1>8. /\ after \in Image /\ after.paid = held[p][i].paid + a
      /\ after.status # "NONE"
  BY <1>3, <1>4, <1>6, <1>7, SettledType
<1>9. /\ new.total = invoice[i].total
      /\ new.status = IF after.status # held[p][i].status THEN after.status ELSE invoice[i].status
  BY ZenonT(60), <1>6, <1>8, WrittenType
<1>10. invoice[i].status # "NONE"
  BY <1>3, <1>4, OverlapInvByPart DEF ImageInv
<1>11. new.paid = IF after.paid # held[p][i].paid THEN after.paid ELSE invoice[i].paid
  BY <1>6 DEF Written, Row
<1>12. ASSUME i \in Serial
       PROVE  /\ held[p][i].paid = invoice[i].paid /\ held[p][i].status = invoice[i].status
              /\ invoice[i].paid = Net(matched[i]) /\ Net(matched[i]) \in Int
  BY <1>3, <1>4, <1>6, <1>10, <1>12, MatchingType DEF AloneInv, SeesRow
<1> HIDE DEF after, new, i, a
<1>13. ASSUME i \in Serial
       PROVE  /\ held[p][i].status = invoice[i].status
              /\ held[p][i].paid = Net(matched[i]) /\ after.paid = Net(matched[i]) + a
              /\ new.paid = Net(matched[i]) + a /\ new.status = after.status
  BY <1>4, <1>6, <1>8, <1>9, <1>11, <1>12, <1>13
<1>14. /\ invoice'[i] = new /\ held'[p][i] = after
       /\ \A j \in Invoices : j # i => invoice'[j] = invoice[j] /\ held'[p][j] = held[p][j]
       /\ \A q \in Payments : q # p => held'[q] = held[q]
  BY <1>1, <1>4, <1>5
<1>15. new.status # "NONE"
  BY <1>8, <1>9, <1>10
<1> QED
  BY <1>3, <1>4, <1>5, <1>9, <1>10, <1>13, <1>14, <1>15 DEF i, a, after, new

LEMMA FlushAlone ==
  ASSUME OverlapInv, AloneInv, NEW p \in Payments, Flush(p)
  PROVE  AloneInv'
<1>1. /\ payment[p] \in Request /\ payment \in [Payments -> Request]
      /\ matched \in [Invoices -> Matches] /\ Serial \subseteq Invoices
  BY DEF OverlapInv, TypeOK, Serial
<1>2. /\ payment'[p].body = payment[p].body
      /\ payment'[p].phase \in {"find", "created"} /\ payment[p].phase = "flush"
      /\ \A q \in Payments : q # p => payment'[q] = payment[q]
  BY <1>1 DEF Flush, Request
<1>3. \A q \in Payments, j \in Serial : Busy(payment'[q], j) => Busy(payment[q], j)
  BY <1>2 DEF Busy
<1>4. CASE payment[p].body = <<>>
  <2>1. UNCHANGED <<invoice, matched, held>>
    BY <1>4 DEF Flush
  <2> QED
    BY <1>2, <1>3, <2>1 DEF AloneInv
<1>5. CASE payment[p].body # <<>>
  <2> DEFINE i == Current(p).invoice
             a == Current(p).amount
             after == Settled(held[p][i], invoice[i].total, a)
  <2>1. /\ i \in Invoices /\ Busy(payment[p], i) /\ a \in Int
        /\ matched' = [matched EXCEPT ![i] = Matching(matched[i], a)]
        /\ held'[p][i] = after
        /\ \A j \in Invoices : j # i => invoice'[j] = invoice[j] /\ held'[p][j] = held[p][j]
        /\ \A q \in Payments : q # p => held'[q] = held[q]
        /\ i \in Serial => /\ invoice'[i].paid = Net(matched[i]) + a
                           /\ after.paid = Net(matched[i]) + a
                           /\ invoice'[i].status = after.status
    BY <1>5, FlushesAlone
  <2> HIDE DEF i, a, after
  <2>2. \A j \in Serial : Net(matched'[j]) = IF j = i THEN Net(matched[i]) + a ELSE Net(matched[j])
    <3>1. matched[i] \in Matches
      BY <1>1, <2>1
    <3>2. Net(Matching(matched[i], a)) = Net(matched[i]) + a
      BY <2>1, <3>1, MatchingType
    <3> QED
      BY <1>1, <2>1, <3>2
  <2>3. \A j \in Serial : invoice'[j].status # "NONE" => invoice'[j].paid = Net(matched'[j])
    BY <1>1, <2>1, <2>2 DEF AloneInv
  <2>4. ASSUME NEW q \in Payments, NEW j \in Serial, Busy(payment'[q], j)
        PROVE  SeesRow(held'[q][j], invoice'[j])
    <3>1. Busy(payment[q], j) /\ j \in Invoices
      BY <1>1, <1>3, <2>4
    <3>2. SeesRow(held[q][j], invoice[j])
      BY <3>1 DEF AloneInv
    <3>3. CASE j # i
      BY <2>1, <3>1, <3>2, <3>3
    <3>4. CASE j = i
      <4>1. q = p
        BY <2>1, <3>1, <3>4 DEF AloneInv
      <4> QED
        BY <2>1, <2>4, <3>4, <4>1 DEF SeesRow
    <3> QED
      BY <3>3, <3>4
  <2>5. \A q \in Payments :
          payment'[q].phase = "new" => \A j \in Invoices : held'[q][j].status = "NONE"
    BY <1>2, <2>1 DEF AloneInv
  <2>6. \A q, r \in Payments, j \in Serial :
          Busy(payment'[q], j) /\ Busy(payment'[r], j) => q = r
    BY <1>3 DEF AloneInv
  <2> QED
    BY <2>3, <2>4, <2>5, <2>6 DEF AloneInv, Serial
<1> QED
  BY <1>4, <1>5

LEMMA AloneInvHolds == Spec => []AloneInv
<1>1. AloneInv /\ UNCHANGED vars => AloneInv'
  BY DEF AloneInv, vars
<1>2. OverlapInv /\ AloneInv /\ [Next]_vars => AloneInv'
  BY <1>1, RowStepAlone, StartAlone, FindAlone, FlushAlone, BreakAlone DEF Next
<1> QED
  BY <1>2, InitAloneInv, OverlapInvHolds, PTL DEF Spec

(* The paidAmount of an invoice whose payments do not overlap is the sum   *)
(* of its matches, also while a payment is half-way and after it broke.    *)
THEOREM PaidEqualsMatchesHolds == Spec => []PaidEqualsMatches
<1>1. AloneInv => PaidEqualsMatches
  BY DEF AloneInv, PaidEqualsMatches, Exists
<1> QED
  BY <1>1, AloneInvHolds, PTL

-----------------------------------------------------------------------------
(* The account.                                                            *)

Due == [i \in {j \in Serial : Exists(j)} |-> invoice[i].total]
SettledOf == [i \in Serial |-> Net(matched[i])]
Standing == [i \in Serial |-> IF Exists(i) THEN invoice[i].status ELSE "DRAFT"]

LEMMA AccountRests ==
  ASSUME UNCHANGED matched,
         \A i \in Serial : /\ invoice'[i].total = invoice[i].total
                           /\ invoice'[i].status = invoice[i].status
  PROVE  UNCHANGED <<Due, SettledOf, Standing>>
<1>1. \A i \in Serial : Exists(i)' <=> Exists(i)
  BY DEF Exists
<1>2. {j \in Serial : Exists(j)}' = {j \in Serial : Exists(j)}
  BY <1>1
<1>3. Due' = Due
  BY <1>2 DEF Due
<1>4. SettledOf' = SettledOf /\ Standing' = Standing
  BY <1>1 DEF SettledOf, Standing
<1> QED
  BY <1>3, <1>4

LEMMA RowsRest ==
  ASSUME OverlapInv, UNCHANGED <<invoice, matched>>
  PROVE  UNCHANGED <<Due, SettledOf, Standing>>
BY AccountRests

LEMMA IssueBills ==
  ASSUME OverlapInv, NEW i \in Invoices, NEW total \in Totals, Issue(i, total)
  PROVE  [Account!ANext]_<<Due, SettledOf, Standing>>
<1>1. /\ invoice \in [Invoices -> Row] /\ Serial \subseteq Invoices /\ UNCHANGED matched
      /\ ~Exists(i)
  BY DEF OverlapInv, TypeOK, Serial, Issue
<1>2. /\ invoice'[i].total = total /\ invoice'[i].status = "DRAFT"
      /\ \A j \in Invoices : j # i => invoice'[j] = invoice[j]
  BY <1>1 DEF Issue
<1>3. CASE i \notin Serial
  <2>1. \A j \in Serial : invoice'[j] = invoice[j]
    BY <1>1, <1>2, <1>3
  <2> QED
    BY <1>1, <2>1, AccountRests
<1>4. CASE i \in Serial
  <2>1. DOMAIN Due = {j \in Serial : Exists(j)} /\ i \notin DOMAIN Due
    BY <1>1 DEF Due
  <2>2. {j \in Serial : Exists(j)}' = DOMAIN Due \cup {i}
    BY <1>1, <1>2, <1>4, <2>1 DEF Exists
  <2>3. \A j \in Serial : invoice'[j].total = IF j = i THEN total ELSE invoice[j].total
    BY <1>1, <1>2, <1>4
  <2>4. Due' = [j \in DOMAIN Due \cup {i} |-> IF j = i THEN total ELSE Due[j]]
    <3>1. Due' = [j \in DOMAIN Due \cup {i} |-> invoice'[j].total]
      BY <2>2 DEF Due
    <3>2. \A j \in DOMAIN Due \cup {i} :
            invoice'[j].total = IF j = i THEN total ELSE Due[j]
      BY <1>4, <2>1, <2>3 DEF Due
    <3> QED
      BY <3>1, <3>2
  <2>5. SettledOf' = SettledOf
    BY <1>1 DEF SettledOf
  <2>6. Standing' = Standing
    <3>1. \A j \in Serial : (IF Exists(j) THEN invoice[j].status ELSE "DRAFT")'
                              = IF Exists(j) THEN invoice[j].status ELSE "DRAFT"
      BY <1>1, <1>2, <1>4 DEF Exists
    <3> QED
      BY <3>1 DEF Standing
  <2>7. Account!Bill(i, total)
    BY <2>1, <2>4, <2>5, <2>6 DEF Account!Bill, Due, SettledOf, Standing
  <2> QED
    BY <1>4, <2>7 DEF Account!ANext
<1> QED
  BY <1>3, <1>4

LEMMA RemoveRests ==
  ASSUME OverlapInv, NEW i \in Invoices, Remove(i)
  PROVE  UNCHANGED <<Due, SettledOf, Standing>>
<1>1. /\ invoice \in [Invoices -> Row] /\ Serial \subseteq Invoices /\ UNCHANGED matched
      /\ invoice' = [invoice EXCEPT ![i] = [invoice[i] EXCEPT !.deleted = TRUE]]
  BY DEF OverlapInv, TypeOK, Serial, Remove
<1>2. invoice[i] \in Row
  BY <1>1
<1>3. \A j \in Serial : /\ invoice'[j].total = invoice[j].total
                        /\ invoice'[j].status = invoice[j].status
  BY <1>1, <1>2 DEF Row
<1> QED
  BY <1>1, <1>3, AccountRests

(* What a flush tells of a serial invoice is one of its standings. *)
LEMMA SettledStands ==
  ASSUME NEW image \in Image, NEW total \in Int, NEW a \in Amounts, a \in Int
  PROVE  Settled(image, total, a).status \in
           Account!Standings(total, image.paid, a, image.status)
<1>1. /\ image.paid \in Int /\ image.paid + a \in Int
      /\ image.paid = 0 => <<image.paid, a>> \notin Low
  BY LowAssumption DEF Image, LowAssumption
<1>2. PICK short : short = IF image.paid + a > 0 THEN "PARTIALLY_PAID" ELSE image.status
  OBVIOUS
<1>3. Settled(image, total, a).status =
        IF Reaches(image, total, a) THEN "PAID" ELSE short
  BY <1>2 DEF Settled
<1>4. Account!Standings(total, image.paid, a, image.status) =
        CASE image.paid + a < total -> {short}
          [] image.paid + a = total /\ image.paid # 0 -> {"PAID", short}
          [] OTHER -> {"PAID"}
  BY <1>2 DEF Account!Standings
<1>5. CASE image.paid + a < total
  BY <1>1, <1>3, <1>4, <1>5 DEF Reaches
<1>6. CASE image.paid + a = total
  BY <1>1, <1>3, <1>4, <1>6 DEF Reaches
<1>7. CASE image.paid + a > total
  BY <1>1, <1>3, <1>4, <1>7 DEF Reaches
<1> QED
  BY <1>1, <1>5, <1>6, <1>7

LEMMA FlushBooks ==
  ASSUME OverlapInv, AloneInv, NEW p \in Payments, Flush(p), payment[p].body # <<>>
  PROVE  [Account!ANext]_<<Due, SettledOf, Standing>>
<1> DEFINE i == Current(p).invoice
           a == Current(p).amount
           image == held[p][i]
           after == Settled(image, invoice[i].total, a)
<1>1. /\ invoice \in [Invoices -> Row] /\ matched \in [Invoices -> Matches]
      /\ held \in [Payments -> [Invoices -> Image]] /\ Serial \subseteq Invoices
  BY DEF OverlapInv, TypeOK, Serial
<1>2. /\ i \in Invoices /\ a \in Amounts /\ a \in Int
      /\ invoice[i].status # "NONE"
      /\ matched' = [matched EXCEPT ![i] = Matching(matched[i], a)]
      /\ \A j \in Invoices : j # i => invoice'[j] = invoice[j]
      /\ invoice'[i].total = invoice[i].total /\ invoice'[i].status # "NONE"
      /\ i \in Serial => /\ image.paid = Net(matched[i]) /\ image.status = invoice[i].status
                         /\ invoice'[i].status = after.status
  BY FlushesAlone
<1>3. invoice[i].total \in Int /\ image \in Image
  BY <1>1, <1>2 DEF Row
<1>4. after.status \in Account!Standings(invoice[i].total, image.paid, a, image.status)
  BY <1>2, <1>3, SettledStands
<1> HIDE DEF i, a, image, after
<1>5. \A j \in Serial : /\ invoice'[j].total = invoice[j].total
                        /\ Exists(j)' <=> Exists(j)
                        /\ Net(matched'[j]) = IF j = i THEN Net(matched[i]) + a ELSE Net(matched[j])
  <2>1. matched[i] \in Matches
    BY <1>1, <1>2
  <2>2. Net(Matching(matched[i], a)) = Net(matched[i]) + a
    BY <1>2, <2>1, MatchingType
  <2> QED
    BY <1>1, <1>2, <2>2 DEF Exists
<1>6. Due' = Due
  <2>1. {j \in Serial : Exists(j)}' = {j \in Serial : Exists(j)}
    BY <1>5
  <2> QED
    BY <1>5, <2>1 DEF Due
<1>7. CASE i \notin Serial
  <2>1. SettledOf' = SettledOf
    BY <1>5, <1>7 DEF SettledOf
  <2>2. \A j \in Serial : invoice'[j] = invoice[j]
    BY <1>1, <1>2, <1>7
  <2>3. Standing' = Standing
    BY <1>5, <2>2 DEF Standing
  <2> QED
    BY <1>6, <2>1, <2>3
<1>8. CASE i \in Serial
  <2>1. SettledOf' = [SettledOf EXCEPT ![i] = @ + a]
    BY <1>5, <1>8 DEF SettledOf
  <2>2. Standing' = [Standing EXCEPT ![i] = after.status]
    <3>1. \A j \in Serial : (IF Exists(j) THEN invoice[j].status ELSE "DRAFT")'
            = IF j = i THEN after.status
                       ELSE IF Exists(j) THEN invoice[j].status ELSE "DRAFT"
      BY <1>1, <1>2, <1>5, <1>8 DEF Exists
    <3> QED
      BY <1>8, <3>1 DEF Standing
  <2>3. /\ i \in DOMAIN Due /\ Due[i] = invoice[i].total /\ SettledOf[i] = image.paid
        /\ Standing[i] = image.status
    BY <1>2, <1>8 DEF Due, SettledOf, Standing, Exists
  <2>4. PICK j \in Serial, n \in Amounts : j = i /\ n = a
    BY <1>2, <1>8
  <2>5. Account!Book(j, n)
    <3>1. \E s \in Account!Standings(Due[i], SettledOf[i], a, Standing[i]) :
            Standing' = [Standing EXCEPT ![i] = s]
      BY <1>4, <2>2, <2>3
    <3> QED
      BY <1>6, <2>1, <2>3, <2>4, <3>1 DEF Account!Book, Due, SettledOf, Standing
  <2> QED
    BY <2>5 DEF Account!ANext
<1> QED
  BY <1>7, <1>8

(* The rows and the matches of the invoices whose payments do not overlap  *)
(* behave like the account of InvoiceAccount: each match of a payment is   *)
(* booked at once, on the account as it is then, and the status is one     *)
(* that the account allows.                                                *)
THEOREM AccountImplemented == Spec => ImplementsAccount
<1> DEFINE account == <<Due, SettledOf, Standing>>
<1>1. Init => Account!AInit
  <2> SUFFICES ASSUME Init PROVE Account!AInit
    OBVIOUS
  <2>1. \A i \in Serial : ~Exists(i) /\ Net(matched[i]) = 0
    <3>1. \A i \in Serial : ~Exists(i) /\ matched[i] = [plus |-> 0, minus |-> 0]
      BY DEF Init, Exists, Serial
    <3> QED
      BY <3>1, NoMatches
  <2>2. Due = [i \in {} |-> 0]
    <3>1. {j \in Serial : Exists(j)} = {}
      BY <2>1
    <3> QED
      BY <3>1 DEF Due
  <2>3. SettledOf = [i \in Serial |-> 0] /\ Standing = [i \in Serial |-> "DRAFT"]
    BY <2>1 DEF SettledOf, Standing
  <2> QED
    BY <2>2, <2>3 DEF Account!AInit, Due, SettledOf, Standing
<1>2. OverlapInv /\ AloneInv /\ [Next]_vars => [Account!ANext]_account
  <2> SUFFICES ASSUME OverlapInv, AloneInv, [Next]_vars PROVE [Account!ANext]_account
    OBVIOUS
  <2>1. ASSUME NEW i \in Invoices, Remove(i) \/ \E total \in Totals : Issue(i, total)
        PROVE  [Account!ANext]_account
    BY <2>1, RemoveRests, IssueBills
  <2>2. ASSUME NEW p \in Payments, NEW body \in Bodies, Start(p, body)
        PROVE  [Account!ANext]_account
    BY <2>2, RowsRest DEF Start
  <2>3. ASSUME NEW p \in Payments, Find(p) \/ Break(p)
        PROVE  [Account!ANext]_account
    BY <2>3, RowsRest DEF Find, Break
  <2>4. ASSUME NEW p \in Payments, Flush(p)
        PROVE  [Account!ANext]_account
    <3>1. CASE payment[p].body = <<>>
      BY <2>4, <3>1, RowsRest DEF Flush
    <3>2. CASE payment[p].body # <<>>
      BY <2>4, <3>2, FlushBooks
    <3> QED
      BY <3>1, <3>2
  <2>5. CASE UNCHANGED vars
    BY <2>5, RowsRest DEF vars
  <2> QED
    BY <2>1, <2>2, <2>3, <2>4, <2>5 DEF Next
<1>3. [Account!ANext]_account <=> [Account!ANext]_(Account!ivars)
  BY DEF Account!ivars, Due, SettledOf, Standing
<1> QED
  BY <1>1, <1>2, <1>3, OverlapInvHolds, AloneInvHolds, PTL
  DEF Spec, ImplementsAccount, Account!ASpec

-----------------------------------------------------------------------------
(* Sums over finite sets.  MapThenSumSet is defined by a recursion; that   *)
(* it has a solution, and what the sum is, is shown from a smallest set of *)
(* which it would not hold.                                                *)

LEMMA SmallestSet ==
  ASSUME NEW S, IsFiniteSet(S), NEW F \in SUBSET SUBSET S, F # {}
  PROVE  \E T \in F : \A x \in T : T \ {x} \notin F
<1> DEFINE sizes == {Cardinality(T) : T \in F}
<1>1. \A T \in SUBSET S : IsFiniteSet(T) /\ Cardinality(T) \in Nat
  BY FS_Subset, FS_CardinalityType
<1>2. sizes \subseteq Nat /\ sizes # {}
  BY <1>1
<1>3. \E n \in sizes : \A m \in sizes : ~ (<<m, n>> \in OpToRel(<, Nat))
  <2> HIDE DEF sizes
  <2> QED BY <1>2, WFMin, NatLessThanWellFounded
<1>4. PICK T \in F : \A U \in F : ~(Cardinality(U) < Cardinality(T))
  BY <1>1, <1>3 DEF OpToRel
<1>5. ASSUME NEW x \in T, T \ {x} \in F PROVE FALSE
  <2>1. IsFiniteSet(T) /\ Cardinality(T) \in Nat
    BY <1>1
  <2>2. Cardinality(T \ {x}) = Cardinality(T) - 1
    BY <1>5, <2>1, FS_RemoveElement
  <2>3. ~(Cardinality(T \ {x}) < Cardinality(T))
    BY <1>4, <1>5
  <2> QED BY <2>1, <2>2, <2>3
<1> QED BY <1>5

First(T) == CHOOSE x \in T : TRUE
Rest(T) == T \ {First(T)}

LEMMA FirstIsIn ==
  ASSUME NEW T, T # {}
  PROVE  First(T) \in T /\ Rest(T) \subseteq T
  BY DEF First, Rest

(* The recursion of MapThenSumSet for a function f, and its solutions.     *)
Step(f, g, T) == IF T = {} THEN 0 ELSE f[First(T)] + g[Rest(T)]
Adds(f, S, g) == \A T \in SUBSET S : g[T] = Step(f, g, T)

LEMMA AddsExists ==
  ASSUME NEW S, IsFiniteSet(S), NEW f
  PROVE  \E g : Adds(f, S, g)
<1> DEFINE Upto(n) == {T \in SUBSET S : Cardinality(T) <= n}
           Solved(n) == \E g : DOMAIN g = SUBSET S /\ \A T \in Upto(n) : g[T] = Step(f, g, T)
           bad == {n \in Nat : ~Solved(n)}
<1>1. \A T \in SUBSET S : IsFiniteSet(T) /\ Cardinality(T) \in Nat
  BY FS_Subset, FS_CardinalityType
<1>2. \A T \in SUBSET S : T # {} => Rest(T) \in SUBSET S /\ Cardinality(Rest(T)) = Cardinality(T) - 1
  BY <1>1, FirstIsIn, FS_RemoveElement DEF Rest
<1>3. \A T \in SUBSET S : Cardinality(T) = 0 <=> T = {}
  BY <1>1, FS_EmptySet
<1>4. Solved(0)
  <2> DEFINE g == [T \in SUBSET S |-> 0]
  <2>1. \A T \in Upto(0) : T = {}
    BY <1>1, <1>3
  <2>2. \A T \in Upto(0) : g[T] = Step(f, g, T)
    BY <2>1 DEF Step
  <2> QED BY <2>2
<1>5. ASSUME NEW n \in Nat, Solved(n) PROVE Solved(n + 1)
  <2>1. PICK h : DOMAIN h = SUBSET S /\ \A T \in Upto(n) : h[T] = Step(f, h, T)
    BY <1>5
  <2> DEFINE g == [T \in SUBSET S |-> IF Cardinality(T) <= n THEN h[T] ELSE Step(f, h, T)]
  <2>2. ASSUME NEW T \in Upto(n + 1) PROVE g[T] = Step(f, g, T)
    <3>1. CASE T = {}
      <4>1. Cardinality(T) = 0
        BY <1>3, <3>1
      <4>2. g[T] = h[T] /\ h[T] = 0
        BY <2>1, <3>1, <4>1 DEF Step
      <4> QED BY <3>1, <4>2 DEF Step
    <3>2. CASE T # {}
      <4>1. Rest(T) \in SUBSET S /\ Cardinality(Rest(T)) <= n
        BY <1>1, <1>2, <2>2, <3>2
      <4>2. g[Rest(T)] = h[Rest(T)]
        BY <4>1
      <4>3. g[T] = Step(f, h, T)
        BY <2>1, <2>2
      <4> HIDE DEF g
      <4> QED BY <3>2, <4>2, <4>3 DEF Step
    <3> QED BY <3>1, <3>2
  <2>3. DOMAIN g = SUBSET S
    OBVIOUS
  <2> HIDE DEF g
  <2> QED BY <2>2, <2>3
<1>6. bad = {}
  <2> SUFFICES ASSUME bad # {} PROVE FALSE
    OBVIOUS
  <2>1. bad \subseteq Nat
    OBVIOUS
  <2>2. \E n \in bad : \A m \in bad : ~ (<<m, n>> \in OpToRel(<, Nat))
    <3> HIDE DEF bad
    <3> QED BY <2>1, WFMin, NatLessThanWellFounded
  <2>3. PICK n \in bad : \A m \in bad : ~(m < n)
    BY <2>1, <2>2 DEF OpToRel
  <2>4. n \in Nat /\ ~Solved(n)
    OBVIOUS
  <2> HIDE DEF Solved
  <2>5. n # 0
    BY <1>4, <2>4
  <2>6. n - 1 \in Nat /\ Solved(n - 1)
    BY <2>3, <2>4, <2>5
  <2>7. Solved((n - 1) + 1)
    BY <1>5, <2>6
  <2>8. (n - 1) + 1 = n
    BY <2>4
  <2> QED BY <2>4, <2>7, <2>8
<1>7. Cardinality(S) \in Nat /\ \A T \in SUBSET S : Cardinality(T) <= Cardinality(S)
  BY FS_Subset, FS_CardinalityType
<1>8. Solved(Cardinality(S))
  <2> HIDE DEF Solved
  <2> QED BY <1>6, <1>7
<1>9. PICK h : DOMAIN h = SUBSET S /\ \A T \in Upto(Cardinality(S)) : h[T] = Step(f, h, T)
  BY <1>8
<1>10. Adds(f, S, h)
  BY <1>7, <1>9 DEF Adds
<1> QED BY <1>10

(* Two solutions agree where their functions do.                           *)
LEMMA AddsAgree ==
  ASSUME NEW S, IsFiniteSet(S), NEW e, NEW f, \A x \in S : e[x] = f[x],
         NEW g, Adds(e, S, g), NEW h, Adds(f, S, h)
  PROVE  g[S] = h[S]
<1> DEFINE bad == {T \in SUBSET S : g[T] # h[T]}
<1>1. bad = {}
  <2> SUFFICES ASSUME bad # {} PROVE FALSE
    OBVIOUS
  <2>1. bad \in SUBSET SUBSET S
    OBVIOUS
  <2>2. PICK T \in bad : \A x \in T : T \ {x} \notin bad
    <3> HIDE DEF bad
    <3> QED BY <2>1, SmallestSet
  <2>3. T \in SUBSET S /\ g[T] # h[T]
    OBVIOUS
  <2>4. T # {}
    BY <2>3 DEF Adds, Step
  <2>5. First(T) \in T /\ First(T) \in S /\ Rest(T) \in SUBSET S /\ g[Rest(T)] = h[Rest(T)]
    BY <2>2, <2>3, <2>4, FirstIsIn DEF Rest
  <2> QED BY <2>3, <2>4, <2>5 DEF Adds, Step
<1> QED BY <1>1

LEMMA SumIsSolution ==
  ASSUME NEW S, IsFiniteSet(S), NEW e, NEW f, \A x \in S : e[x] = f[x],
         NEW g, Adds(e, S, g)
  PROVE  g[S] = SumOf(f, S)
<1> DEFINE From(k) == [T \in SUBSET S |-> Step(f, k, T)]
           sum == CHOOSE k : k = From(k)
<1>1. SumOf(f, S) = sum[S]
  BY DEF SumOf, MapThenSumSet, MapThenFoldSet, Step, First, Rest
<1>2. PICK h : Adds(f, S, h)
  BY AddsExists
<1> DEFINE k == [T \in SUBSET S |-> h[T]]
<1>3. \A T \in SUBSET S : T # {} => Rest(T) \in SUBSET S
  BY FirstIsIn
<1>4. k = From(k)
  BY <1>2, <1>3 DEF Adds, Step
<1>5. sum = From(sum)
  BY <1>4
<1> HIDE DEF sum
<1>6. Adds(f, S, sum)
  BY <1>5 DEF Adds
<1> QED
  BY <1>1, <1>6, AddsAgree

LEMMA SumFirst ==
  ASSUME NEW S, IsFiniteSet(S), NEW f
  PROVE  /\ S = {} => SumOf(f, S) = 0
         /\ S # {} => SumOf(f, S) = f[First(S)] + SumOf(f, Rest(S))
<1>2. PICK g : Adds(f, S, g)
  BY AddsExists
<1>3. g[S] = SumOf(f, S)
  BY <1>2, SumIsSolution
<1>4. ASSUME S # {} PROVE g[Rest(S)] = SumOf(f, Rest(S))
  <2>1. Rest(S) \subseteq S /\ IsFiniteSet(Rest(S))
    BY <1>4, FirstIsIn, FS_Subset
  <2>2. Adds(f, Rest(S), g)
    BY <1>2, <2>1 DEF Adds
  <2> QED BY <2>1, <2>2, SumIsSolution
<1> QED BY <1>2, <1>3, <1>4 DEF Adds, Step

LEMMA SumType ==
  ASSUME NEW S, IsFiniteSet(S), NEW f, \A x \in S : f[x] \in Int
  PROVE  SumOf(f, S) \in Int
<1> DEFINE bad == {T \in SUBSET S : SumOf(f, T) \notin Int}
<1>1. bad = {}
  <2> SUFFICES ASSUME bad # {} PROVE FALSE
    OBVIOUS
  <2>1. bad \in SUBSET SUBSET S
    OBVIOUS
  <2>2. PICK T \in bad : \A x \in T : T \ {x} \notin bad
    <3> HIDE DEF bad
    <3> QED BY <2>1, SmallestSet
  <2>3. T \in SUBSET S /\ IsFiniteSet(T) /\ SumOf(f, T) \notin Int
    BY FS_Subset
  <2>4. T # {}
    BY <2>3, SumFirst
  <2>5. First(T) \in T /\ Rest(T) = T \ {First(T)} /\ Rest(T) \in SUBSET S
    BY <2>3, <2>4, FirstIsIn DEF Rest
  <2>6. SumOf(f, Rest(T)) \in Int /\ f[First(T)] \in Int
    BY <2>2, <2>3, <2>5
  <2>7. SumOf(f, T) = f[First(T)] + SumOf(f, Rest(T))
    BY <2>3, <2>4, SumFirst
  <2> QED BY <2>3, <2>6, <2>7
<1>2. S \notin bad
  BY <1>1
<1> QED BY <1>2

(* Any member may be taken out, not only the first. *)
LEMMA SumRemove ==
  ASSUME NEW S, IsFiniteSet(S), NEW f, \A x \in S : f[x] \in Int, NEW x \in S
  PROVE  /\ IsFiniteSet(S \ {x}) /\ SumOf(f, S \ {x}) \in Int
         /\ SumOf(f, S) = f[x] + SumOf(f, S \ {x})
<1> DEFINE Wrong(T, y) == SumOf(f, T) # f[y] + SumOf(f, T \ {y})
           bad == {T \in SUBSET S : \E y \in T : Wrong(T, y)}
<1>1. \A T \in SUBSET S : IsFiniteSet(T) /\ SumOf(f, T) \in Int
  BY FS_Subset, SumType
<1>2. bad = {}
  <2> SUFFICES ASSUME bad # {} PROVE FALSE
    OBVIOUS
  <2>1. bad \in SUBSET SUBSET S
    OBVIOUS
  <2>2. PICK T \in bad : \A y \in T : T \ {y} \notin bad
    <3> HIDE DEF bad
    <3> QED BY <2>1, SmallestSet
  <2>3. T \in SUBSET S
    OBVIOUS
  <2>4. PICK y \in T : Wrong(T, y)
    OBVIOUS
  <2>5. PICK z : z = First(T)
    OBVIOUS
  <2>6. z \in T /\ SumOf(f, T) = f[z] + SumOf(f, T \ {z})
    BY <1>1, <2>3, <2>4, <2>5, SumFirst, FirstIsIn DEF Rest
  <2>7. y # z
    BY <2>4, <2>6
  <2>8. /\ T \ {z} \in SUBSET S /\ T \ {y} \in SUBSET S /\ (T \ {z}) \ {y} \in SUBSET S
        /\ y \in T \ {z} /\ z \in T \ {y} /\ (T \ {y}) \ {z} = (T \ {z}) \ {y}
    BY <2>3, <2>4, <2>6, <2>7
  <2>9. ~Wrong(T \ {z}, y) /\ ~Wrong(T \ {y}, z)
    BY <2>2, <2>4, <2>6, <2>8
  <2>10. PICK rest : rest = SumOf(f, (T \ {z}) \ {y})
    OBVIOUS
  <2>11. SumOf(f, T \ {z}) = f[y] + rest /\ SumOf(f, T \ {y}) = f[z] + rest
    BY <2>8, <2>9, <2>10
  <2>12. rest \in Int /\ f[y] \in Int /\ f[z] \in Int
    BY <1>1, <2>3, <2>4, <2>6, <2>8, <2>10
  <2>13. f[z] + (f[y] + rest) = f[y] + (f[z] + rest)
    BY <2>12
  <2> QED BY <2>4, <2>6, <2>11, <2>13
<1>3. S \notin bad
  BY <1>2
<1>4. S \ {x} \in SUBSET S
  OBVIOUS
<1> QED BY <1>1, <1>3, <1>4

(* Only the values on the set count. *)
LEMMA SumAgree ==
  ASSUME NEW S, IsFiniteSet(S), NEW e, NEW f, \A x \in S : e[x] = f[x]
  PROVE  SumOf(e, S) = SumOf(f, S)
<1>1. PICK g : Adds(e, S, g)
  BY AddsExists
<1>2. g[S] = SumOf(e, S)
  BY <1>1, SumIsSolution
<1>3. g[S] = SumOf(f, S)
  BY <1>1, SumIsSolution
<1> QED BY <1>2, <1>3

LEMMA SumZero ==
  ASSUME NEW S, IsFiniteSet(S), NEW f, \A x \in S : f[x] = 0
  PROVE  SumOf(f, S) = 0
<1> DEFINE bad == {T \in SUBSET S : SumOf(f, T) # 0}
<1>1. bad = {}
  <2> SUFFICES ASSUME bad # {} PROVE FALSE
    OBVIOUS
  <2>1. bad \in SUBSET SUBSET S
    OBVIOUS
  <2>2. PICK T \in bad : \A x \in T : T \ {x} \notin bad
    <3> HIDE DEF bad
    <3> QED BY <2>1, SmallestSet
  <2>3. T \in SUBSET S /\ IsFiniteSet(T) /\ SumOf(f, T) # 0
    BY FS_Subset
  <2>4. T # {}
    BY <2>3, SumFirst
  <2>5. First(T) \in T /\ Rest(T) = T \ {First(T)} /\ Rest(T) \in SUBSET S
    BY <2>3, <2>4, FirstIsIn DEF Rest
  <2>6. SumOf(f, Rest(T)) = 0 /\ f[First(T)] = 0
    BY <2>2, <2>3, <2>5
  <2>7. SumOf(f, T) = f[First(T)] + SumOf(f, Rest(T))
    BY <2>3, <2>4, SumFirst
  <2> QED BY <2>3, <2>6, <2>7
<1>2. S \notin bad
  BY <1>1
<1> QED BY <1>2

(* One value changes. *)
LEMMA SumChange ==
  ASSUME NEW S, IsFiniteSet(S), NEW e, NEW f, NEW x \in S,
         \A y \in S : e[y] \in Int /\ f[y] \in Int,
         \A y \in S \ {x} : e[y] = f[y]
  PROVE  SumOf(e, S) - SumOf(f, S) = e[x] - f[x]
<1>1. IsFiniteSet(S \ {x}) /\ SumOf(e, S \ {x}) \in Int /\ SumOf(e, S) = e[x] + SumOf(e, S \ {x})
  BY SumRemove
<1>2. SumOf(f, S) = f[x] + SumOf(f, S \ {x})
  BY SumRemove
<1>3. SumOf(e, S \ {x}) = SumOf(f, S \ {x})
  BY <1>1, SumAgree
<1>4. e[x] \in Int /\ f[x] \in Int
  OBVIOUS
<1> QED BY <1>1, <1>2, <1>3, <1>4

(* The sum over a set is that over a part of it and over the others. *)
LEMMA SumSplit ==
  ASSUME NEW S, IsFiniteSet(S), NEW f, \A x \in S : f[x] \in Int, NEW P \in SUBSET S
  PROVE  SumOf(f, S) = SumOf(f, P) + SumOf(f, S \ P)
<1> DEFINE Wrong(T) == SumOf(f, T) # SumOf(f, T \cap P) + SumOf(f, T \ P)
           bad == {T \in SUBSET S : Wrong(T)}
<1>1. \A T \in SUBSET S : IsFiniteSet(T) /\ SumOf(f, T) \in Int
  BY FS_Subset, SumType
<1>2. \A T \in SUBSET S, x \in S : x \in T => SumOf(f, T) = f[x] + SumOf(f, T \ {x})
  BY <1>1, SumRemove
<1>3. bad = {}
  <2> SUFFICES ASSUME bad # {} PROVE FALSE
    OBVIOUS
  <2>1. bad \in SUBSET SUBSET S
    OBVIOUS
  <2>2. PICK T \in bad : \A x \in T : T \ {x} \notin bad
    <3> HIDE DEF bad
    <3> QED BY <2>1, SmallestSet
  <2>3. T \in SUBSET S /\ Wrong(T)
    OBVIOUS
  <2>4. T # {}
    <3> SUFFICES ASSUME T = {} PROVE FALSE
      OBVIOUS
    <3>1. T \cap P = {} /\ T \ P = {} /\ IsFiniteSet({})
      BY FS_EmptySet
    <3>2. SumOf(f, T) = 0 /\ SumOf(f, T \cap P) = 0 /\ SumOf(f, T \ P) = 0
      BY <3>1, SumFirst
    <3> QED BY <2>3, <3>2
  <2>5. PICK x \in T : TRUE
    BY <2>4
  <2>6. /\ x \in S /\ f[x] \in Int /\ T \ {x} \in SUBSET S
        /\ T \cap P \in SUBSET S /\ T \ P \in SUBSET S
        /\ (T \ {x}) \cap P \in SUBSET S /\ (T \ {x}) \ P \in SUBSET S
    BY <2>3, <2>5
  <2>7. ~Wrong(T \ {x})
    BY <2>2, <2>5, <2>6
  <2>8. PICK inside : inside = SumOf(f, (T \ {x}) \cap P)
    OBVIOUS
  <2>9. PICK outside : outside = SumOf(f, (T \ {x}) \ P)
    OBVIOUS
  <2>10. inside \in Int /\ outside \in Int /\ SumOf(f, T) = f[x] + (inside + outside)
    BY <1>1, <1>2, <2>3, <2>5, <2>6, <2>7, <2>8, <2>9
  <2>11. CASE x \in P
    <3>1. /\ T \ P = (T \ {x}) \ P /\ x \in T \cap P
          /\ (T \cap P) \ {x} = (T \ {x}) \cap P
      BY <2>5, <2>11
    <3>2. SumOf(f, T \cap P) = f[x] + inside
      BY <1>2, <2>6, <2>8, <3>1
    <3>3. SumOf(f, T \ P) = outside
      BY <2>9, <3>1
    <3> QED BY <2>3, <2>6, <2>10, <3>2, <3>3
  <2>12. CASE x \notin P
    <3>1. /\ T \cap P = (T \ {x}) \cap P /\ x \in T \ P
          /\ (T \ P) \ {x} = (T \ {x}) \ P
      BY <2>5, <2>12
    <3>2. SumOf(f, T \ P) = f[x] + outside
      BY <1>2, <2>6, <2>9, <3>1
    <3>3. SumOf(f, T \cap P) = inside
      BY <2>8, <3>1
    <3> QED BY <2>3, <2>6, <2>10, <3>2, <3>3
  <2> QED BY <2>11, <2>12
<1>4. S \notin bad /\ S \cap P = P
  BY <1>3
<1> QED BY <1>4

LEMMA SumMinus ==
  ASSUME NEW S, IsFiniteSet(S), NEW d, NEW e, NEW f,
         \A x \in S : e[x] \in Int /\ f[x] \in Int /\ d[x] = e[x] - f[x]
  PROVE  SumOf(d, S) = SumOf(e, S) - SumOf(f, S)
<1> DEFINE Wrong(T) == SumOf(d, T) # SumOf(e, T) - SumOf(f, T)
           bad == {T \in SUBSET S : Wrong(T)}
<1>1. \A T \in SUBSET S : /\ IsFiniteSet(T) /\ SumOf(d, T) \in Int
                          /\ SumOf(e, T) \in Int /\ SumOf(f, T) \in Int
  <2>1. \A x \in S : d[x] \in Int /\ e[x] \in Int /\ f[x] \in Int
    OBVIOUS
  <2> QED BY <2>1, FS_Subset, SumType
<1>2. bad = {}
  <2> SUFFICES ASSUME bad # {} PROVE FALSE
    OBVIOUS
  <2>1. bad \in SUBSET SUBSET S
    OBVIOUS
  <2>2. PICK T \in bad : \A x \in T : T \ {x} \notin bad
    <3> HIDE DEF bad
    <3> QED BY <2>1, SmallestSet
  <2>3. T \in SUBSET S /\ IsFiniteSet(T) /\ Wrong(T)
    BY FS_Subset
  <2>4. T # {}
    <3> SUFFICES ASSUME T = {} PROVE FALSE
      OBVIOUS
    <3>1. SumOf(d, T) = 0 /\ SumOf(e, T) = 0 /\ SumOf(f, T) = 0
      BY <2>3, SumFirst
    <3> QED BY <2>3, <3>1
  <2>5. PICK x : x = First(T)
    OBVIOUS
  <2>6. x \in T /\ x \in S /\ Rest(T) = T \ {x} /\ Rest(T) \in SUBSET S
    BY <2>3, <2>4, <2>5, FirstIsIn DEF Rest
  <2>7. /\ SumOf(d, T) = d[x] + SumOf(d, Rest(T))
        /\ SumOf(e, T) = e[x] + SumOf(e, Rest(T))
        /\ SumOf(f, T) = f[x] + SumOf(f, Rest(T))
    BY <2>3, <2>4, <2>5, SumFirst
  <2>8. ~Wrong(Rest(T))
    BY <2>2, <2>6
  <2>9. /\ SumOf(e, Rest(T)) \in Int /\ SumOf(f, Rest(T)) \in Int
        /\ SumOf(d, Rest(T)) = SumOf(e, Rest(T)) - SumOf(f, Rest(T))
        /\ e[x] \in Int /\ f[x] \in Int /\ d[x] = e[x] - f[x]
    BY <1>1, <2>6, <2>8
  <2> QED BY <2>3, <2>7, <2>9
<1>3. S \notin bad
  BY <1>2
<1> QED BY <1>3

-----------------------------------------------------------------------------
(* The reports.  What the matches of all invoices sum up to is what the    *)
(* payments have booked: BookedInv, which a flush keeps because it adds    *)
(* the amount to one invoice and to one payment.                           *)

BookedOf(req) ==
  SumOf([k \in DOMAIN req.body |-> req.body[k].amount],
        {k \in DOMAIN req.body : k < req.at})

BookedInv ==
  /\ \A p \in Payments : payment[p].phase = "new" => p \notin saved
  /\ \A p \in Payments : p \notin saved => payment[p].at <= 1
  /\ Matched(Invoices) = SumOf([p \in Payments |-> BookedOf(payment[p])], Payments)

(* The invoices that a statement has read are still there. *)
ListedInv == statement.invoices \subseteq {i \in Invoices : Exists(i)}

LEMMA AmountsOfBody ==
  ASSUME NEW req \in Request
  PROVE  \A k \in DOMAIN req.body : req.body[k].amount \in Int
<1> SUFFICES ASSUME NEW k \in DOMAIN req.body PROVE req.body[k].amount \in Int
  OBVIOUS
<1>1. req.body \in Seq(Match)
  BY DEF Request
<1>2. req.body[k] \in Match
  BY <1>1
<1>3. PICK a : a = req.body[k].amount
  OBVIOUS
<1>4. a \in Amounts
  BY <1>2, <1>3 DEF Match
<1>5. a \in Int
  BY <1>4, AmountsAssumption DEF AmountsAssumption
<1> QED
  BY <1>3, <1>5

LEMMA BookedOfType ==
  ASSUME NEW req \in Request
  PROVE  /\ BookedOf(req) \in Int
         /\ req.at <= 1 => BookedOf(req) = 0
<1> DEFINE f == [k \in DOMAIN req.body |-> req.body[k].amount]
           done == {k \in DOMAIN req.body : k < req.at}
<1>1. req.body \in Seq(Match) /\ req.at \in Nat
  BY DEF Request
<1>2. DOMAIN req.body = 1..Len(req.body) /\ Len(req.body) \in Nat
  BY <1>1
<1>3. IsFiniteSet(DOMAIN req.body)
  BY <1>2, FS_Interval
<1>4. IsFiniteSet(done)
  BY <1>3, FS_Subset
<1>5. \A k \in done : f[k] \in Int
  <2>1. \A k \in DOMAIN req.body : req.body[k].amount \in Int
    BY AmountsOfBody
  <2> QED
    BY <2>1
<1>6. SumOf(f, done) \in Int
  <2> HIDE DEF f, done
  <2> QED
    BY <1>4, <1>5, SumType
<1>7. ASSUME req.at <= 1 PROVE SumOf(f, done) = 0
  <2>1. done = {}
    BY <1>1, <1>2, <1>7
  <2> HIDE DEF f, done
  <2> QED
    BY <1>4, <2>1, SumFirst
<1> QED
  BY <1>6, <1>7 DEF BookedOf

(* A request that moves on by one place has booked what is there. *)
LEMMA BookedNext ==
  ASSUME NEW req \in Request, NEW next \in Request, next.body = req.body,
         next.at = req.at + 1, req.at \in DOMAIN req.body
  PROVE  BookedOf(next) = BookedOf(req) + req.body[req.at].amount
<1> DEFINE f == [k \in DOMAIN req.body |-> req.body[k].amount]
           done == {k \in DOMAIN req.body : k < req.at}
           more == {k \in DOMAIN req.body : k < next.at}
<1>1. req.body \in Seq(Match) /\ req.at \in Nat
  BY DEF Request
<1>2. DOMAIN req.body = 1..Len(req.body) /\ Len(req.body) \in Nat
  BY <1>1
<1>3. IsFiniteSet(DOMAIN req.body)
  BY <1>2, FS_Interval
<1>4. IsFiniteSet(more)
  BY <1>3, FS_Subset
<1>5. \A k \in more : f[k] \in Int
  <2>1. \A k \in DOMAIN req.body : req.body[k].amount \in Int
    BY AmountsOfBody
  <2> QED
    BY <2>1
<1>6. req.at \in more /\ more \ {req.at} = done /\ f[req.at] = req.body[req.at].amount
  BY <1>1, <1>2
<1>7. SumOf(f, more) = f[req.at] + SumOf(f, done) /\ SumOf(f, done) \in Int /\ f[req.at] \in Int
  <2> HIDE DEF f, done, more
  <2> QED
    BY <1>4, <1>5, <1>6, SumRemove
<1>8. BookedOf(req) = SumOf(f, done) /\ BookedOf(next) = SumOf(f, more)
  BY DEF BookedOf
<1> HIDE DEF f, done, more
<1> QED
  BY <1>6, <1>7, <1>8

LEMMA InitBookedInv ==
  ASSUME IsFiniteSet(Invoices), IsFiniteSet(Payments), Init
  PROVE  BookedInv
<1>1. \A p \in Payments : payment[p] \in Request /\ payment[p].at <= 1
  BY InitOverlapInv DEF OverlapInv, TypeOK, Init
<1>2. \A p \in Payments : BookedOf(payment[p]) = 0
  BY <1>1, BookedOfType
<1>3. Matched(Invoices) = 0
  <2> DEFINE net == [i \in Invoices |-> Net(matched[i])]
  <2>1. \A i \in Invoices : matched[i] = [plus |-> 0, minus |-> 0]
    BY DEF Init
  <2>2. \A i \in Invoices : net[i] = 0
    BY <2>1, NoMatches
  <2> HIDE DEF net
  <2> QED
    BY <2>2, SumZero DEF Matched, net
<1>4. SumOf([p \in Payments |-> BookedOf(payment[p])], Payments) = 0
  <2> DEFINE f == [p \in Payments |-> BookedOf(payment[p])]
  <2>1. \A p \in Payments : f[p] = 0
    BY <1>2
  <2> HIDE DEF f
  <2> QED
    BY <2>1, SumZero DEF f
<1> QED
  BY <1>1, <1>3, <1>4 DEF BookedInv, Init

(* Where no request moves past a place, nothing is booked. *)
LEMMA NothingBooked ==
  ASSUME IsFiniteSet(Payments), BookedInv, UNCHANGED <<matched, saved>>,
         \A p \in Payments : /\ BookedOf(payment'[p]) = BookedOf(payment[p])
                             /\ p \notin saved => payment'[p].at <= 1
                             /\ payment'[p].phase = "new" => payment[p].phase = "new"
  PROVE  BookedInv'
<1>1. [p \in Payments |-> BookedOf(payment'[p])] = [p \in Payments |-> BookedOf(payment[p])]
  OBVIOUS
<1> QED
  BY <1>1 DEF BookedInv, Matched

LEMMA StartBooksNothing ==
  ASSUME IsFiniteSet(Payments), OverlapInv, BookedInv, NEW p \in Payments,
         NEW body \in Bodies, Start(p, body)
  PROVE  BookedInv'
<1> DEFINE req == [phase |-> IF body = <<>> THEN "flush" ELSE "find", body |-> body, at |-> 1]
<1>1. payment \in [Payments -> Request] /\ payment[p] \in Request
  BY DEF OverlapInv, TypeOK
<1>2. /\ payment' = [payment EXCEPT ![p] = req] /\ payment[p].phase = "new"
      /\ UNCHANGED <<matched, saved>>
  BY DEF Start
<1>3. req \in Request /\ req.at = 1 /\ req.phase # "new"
  BY BodiesAssumption DEF Request, Phase, BodiesAssumption
<1> HIDE DEF req
<1>4. BookedOf(req) = 0
  BY <1>3, BookedOfType
<1>5. p \notin saved /\ BookedOf(payment[p]) = 0
  BY <1>1, <1>2, BookedOfType DEF BookedInv
<1>6. payment'[p] = req /\ \A q \in Payments : q # p => payment'[q] = payment[q]
  BY <1>1, <1>2
<1>7. ASSUME NEW q \in Payments
      PROVE  /\ BookedOf(payment'[q]) = BookedOf(payment[q])
             /\ q \notin saved => payment'[q].at <= 1
             /\ payment'[q].phase = "new" => payment[q].phase = "new"
  <2>1. CASE q = p
    BY <1>3, <1>4, <1>5, <1>6, <2>1
  <2>2. CASE q # p
    BY <1>6, <2>2 DEF BookedInv
  <2> QED
    BY <2>1, <2>2
<1> QED
  BY <1>2, <1>7, NothingBooked

LEMMA FindOrBreakBooksNothing ==
  ASSUME IsFiniteSet(Payments), OverlapInv, BookedInv, NEW p \in Payments,
         Find(p) \/ Break(p)
  PROVE  BookedInv'
<1>1. payment \in [Payments -> Request] /\ payment[p] \in Request
  BY DEF OverlapInv, TypeOK
<1>2. PICK phase \in {"flush", "failed"} :
        payment' = [payment EXCEPT ![p] = [payment[p] EXCEPT !.phase = phase]]
  BY <1>1 DEF Find, Break
<1>3. UNCHANGED <<matched, saved>>
  BY DEF Find, Break
<1>4. /\ payment'[p].body = payment[p].body /\ payment'[p].at = payment[p].at
      /\ payment'[p].phase = phase /\ phase # "new"
      /\ \A q \in Payments : q # p => payment'[q] = payment[q]
  BY <1>1, <1>2 DEF Request
<1>5. BookedOf(payment'[p]) = BookedOf(payment[p])
  BY <1>4 DEF BookedOf
<1>6. ASSUME NEW q \in Payments
      PROVE  /\ BookedOf(payment'[q]) = BookedOf(payment[q])
             /\ q \notin saved => payment'[q].at <= 1
             /\ payment'[q].phase = "new" => payment[q].phase = "new"
  <2>1. CASE q = p
    BY <1>4, <1>5, <2>1 DEF BookedInv
  <2>2. CASE q # p
    BY <1>4, <2>2 DEF BookedInv
  <2> QED
    BY <2>1, <2>2
<1> QED
  BY <1>3, <1>6, NothingBooked

(* A flush of a match adds the same to both sums. *)
LEMMA FlushBooksOnce ==
  ASSUME IsFiniteSet(Invoices), IsFiniteSet(Payments), OverlapInv, BookedInv,
         NEW p \in Payments, Flush(p)
  PROVE  BookedInv'
<1> DEFINE booked == [q \in Payments |-> BookedOf(payment[q])]
           booked2 == [q \in Payments |-> BookedOf(payment'[q])]
           net == [i \in Invoices |-> Net(matched[i])]
           net2 == [i \in Invoices |-> Net(matched'[i])]
<1>1. /\ payment \in [Payments -> Request] /\ matched \in [Invoices -> Matches] /\ TypeOK
      /\ payment[p] \in Request /\ payment[p].phase = "flush"
  BY DEF OverlapInv, TypeOK, Flush
<1>2. /\ payment' \in [Payments -> Request]
      /\ \A q \in Payments : q # p => payment'[q] = payment[q]
      /\ payment'[p] \in Request
  BY PassedIsPlaced
<1>3. /\ payment'[p].body = payment[p].body /\ payment'[p].at = payment[p].at + 1
      /\ payment'[p].phase \in {"find", "created"} /\ saved' = saved \cup {p}
  BY <1>1 DEF Flush, Request
<1>4. \A q \in Payments : booked[q] \in Int /\ booked2[q] \in Int
  BY <1>1, <1>2, BookedOfType
<1>5. \A q \in Payments \ {p} : booked2[q] = booked[q]
  BY <1>2
<1>6. SumOf(booked2, Payments) - SumOf(booked, Payments) = booked2[p] - booked[p]
  <2> HIDE DEF booked, booked2
  <2> QED
    BY <1>4, <1>5, SumChange
<1>7. SumOf(booked, Payments) \in Int /\ SumOf(booked2, Payments) \in Int
  <2> HIDE DEF booked, booked2
  <2> QED
    BY <1>4, SumType
<1>8. SumOf(net, Invoices) = SumOf(booked, Payments)
  BY DEF BookedInv, Matched
<1>9. SumOf(net2, Invoices) = SumOf(booked2, Payments)
  <2>1. CASE payment[p].body = <<>>
    <3>1. net2 = net
      BY <2>1 DEF Flush
    <3>2. booked2[p] = booked[p]
      <4>1. {k \in DOMAIN payment[p].body : k < payment[p].at} = {}
        BY <2>1
      <4>2. {k \in DOMAIN payment[p].body : k < payment'[p].at} = {}
        BY <2>1
      <4> QED
        BY <1>3, <4>1, <4>2 DEF BookedOf
    <3> HIDE DEF booked, booked2, net, net2
    <3> QED
      BY <1>4, <1>6, <1>7, <1>8, <3>1, <3>2
  <2>2. CASE payment[p].body # <<>>
    <3>1. PICK i : i = Current(p).invoice
      OBVIOUS
    <3>2. PICK a : a = Current(p).amount
      OBVIOUS
    <3>3. payment[p].at \in DOMAIN payment[p].body
      BY <1>1, <2>2, OverlapInvByPart DEF PlaceInv
    <3>4. i \in Invoices /\ a \in Int /\ a = payment[p].body[payment[p].at].amount
      BY <1>1, <3>1, <3>2, <3>3, CurrentType DEF Current
    <3>5. /\ matched'[i] = Matching(matched[i], a)
          /\ \A j \in Invoices \ {i} : matched'[j] = matched[j]
      BY <1>1, <2>2, <3>1, <3>2, <3>4 DEF Flush, FlushMatch
    <3>6. /\ net2[i] = net[i] + a
          /\ \A j \in Invoices : net[j] \in Int /\ net2[j] \in Int
          /\ \A j \in Invoices \ {i} : net2[j] = net[j]
      <4>1. \A j \in Invoices : matched[j] \in Matches
        BY <1>1
      <4>2. \A j \in Invoices : Net(matched[j]) \in Int
        BY <4>1, NetType
      <4>3. Net(matched'[i]) = Net(matched[i]) + a
        BY <3>4, <3>5, <4>1, MatchingType
      <4>4. \A j \in Invoices : j # i => Net(matched'[j]) = Net(matched[j])
        BY <3>5
      <4> QED
        BY <3>4, <4>2, <4>3, <4>4
    <3>7. SumOf(net2, Invoices) - SumOf(net, Invoices) = net2[i] - net[i]
      <4> HIDE DEF net, net2
      <4> QED
        BY <3>4, <3>6, SumChange
    <3>8. SumOf(net2, Invoices) \in Int /\ SumOf(net, Invoices) \in Int
      <4> HIDE DEF net, net2
      <4> QED
        BY <3>6, SumType
    <3>9. BookedOf(payment'[p]) = BookedOf(payment[p]) + a
      BY <1>1, <1>2, <1>3, <3>3, <3>4, BookedNext
    <3>10. booked2[p] = booked[p] + a
      BY <3>9
    <3> HIDE DEF booked, booked2, net, net2
    <3>11. /\ net[i] \in Int /\ net2[i] - net[i] = a
           /\ booked[p] \in Int /\ booked2[p] - booked[p] = a
      BY <1>4, <3>4, <3>6, <3>10
    <3>12. /\ SumOf(net2, Invoices) - SumOf(net, Invoices) = a
           /\ SumOf(booked2, Payments) - SumOf(booked, Payments) = a
      BY <1>6, <3>7, <3>11
    <3> QED
      BY <1>7, <1>8, <3>4, <3>8, <3>12
  <2> QED
    BY <2>1, <2>2
<1>10. \A q \in Payments : payment'[q].phase = "new" => q \notin saved'
  BY <1>2, <1>3 DEF BookedInv
<1>11. \A q \in Payments : q \notin saved' => payment'[q].at <= 1
  BY <1>2, <1>3 DEF BookedInv
<1> QED
  BY <1>9, <1>10, <1>11 DEF BookedInv, Matched

LEMMA BookedInvHolds ==
  ASSUME IsFiniteSet(Invoices), IsFiniteSet(Payments)
  PROVE  Spec => []BookedInv
<1>1. \A i \in Invoices : BookedInv /\ Remove(i) => BookedInv'
  BY DEF BookedInv, Remove, Matched
<1>2. \A i \in Invoices, total \in Totals : BookedInv /\ Issue(i, total) => BookedInv'
  BY DEF BookedInv, Issue, Matched
<1>3. BookedInv /\ UNCHANGED vars => BookedInv'
  BY DEF BookedInv, vars, Matched
<1>4. OverlapInv /\ BookedInv /\ [Next]_vars => BookedInv'
  BY <1>1, <1>2, <1>3, StartBooksNothing, FindOrBreakBooksNothing, FlushBooksOnce DEF Next
<1>5. Init => BookedInv
  BY InitBookedInv
<1> QED
  BY <1>4, <1>5, OverlapInvHolds, PTL DEF Spec

(* An invoice that exists stays in the table. *)
LEMMA ExistsStays ==
  ASSUME OverlapInv, AloneInv, [Next]_vars, NEW i \in Invoices, Exists(i)
  PROVE  Exists(i)'
<1>1. invoice \in [Invoices -> Row] /\ invoice[i] \in Row
  BY DEF OverlapInv, TypeOK
<1>2. CASE invoice' = invoice
  BY <1>2 DEF Exists
<1>3. ASSUME NEW j \in Invoices, Remove(j) PROVE Exists(i)'
  BY <1>1, <1>3 DEF Remove, Exists, Row
<1>4. ASSUME NEW j \in Invoices, NEW total \in Totals, Issue(j, total) PROVE Exists(i)'
  BY <1>1, <1>4 DEF Issue, Exists
<1>5. ASSUME NEW p \in Payments, Flush(p) PROVE Exists(i)'
  <2>1. CASE payment[p].body = <<>>
    BY <1>2, <1>5, <2>1 DEF Flush
  <2>2. CASE payment[p].body # <<>>
    <3>1. PICK j : j = Current(p).invoice
      OBVIOUS
    <3>2. invoice'[j].status # "NONE" /\ \A k \in Invoices : k # j => invoice'[k] = invoice[k]
      BY <1>5, <2>2, <3>1, FlushesAlone
    <3> QED
      BY <3>2 DEF Exists
  <2> QED
    BY <2>1, <2>2
<1> QED
  BY <1>2, <1>3, <1>4, <1>5 DEF Next, Start, Find, Break, vars

LEMMA ListedInvStep ==
  ASSUME OverlapInv, AloneInv, ListedInv, [ReportNext]_rvars
  PROVE  ListedInv'
<1>1. CASE Next /\ UNCHANGED statement
  BY <1>1, ExistsStays DEF ListedInv
<1>2. CASE ReadInvoices
  <2>1. \A i \in Invoices : Exists(i) => Exists(i)'
    BY <1>2 DEF ReadInvoices, vars, Exists
  <2> QED
    BY <1>2, <2>1 DEF ReadInvoices, ListedInv, Live
<1>3. CASE ReadPayments
  BY <1>3 DEF ReadPayments, ListedInv
<1>4. CASE UNCHANGED rvars
  BY <1>4, ExistsStays DEF rvars, ListedInv
<1> QED
  BY <1>1, <1>2, <1>3, <1>4 DEF ReportNext

(* What came in is what the invoices have matched and what is not matched. *)
LEMMA IncomingIsMatched ==
  ASSUME IsFiniteSet(Invoices), IsFiniteSet(Payments), OverlapInv, BookedInv
  PROVE  /\ Incoming = Matched(Invoices) + Unmatched
         /\ Incoming \in Int /\ Matched(Invoices) \in Int /\ Unmatched \in Int
<1> DEFINE booked == [p \in Payments |-> BookedOf(payment[p])]
           unmatched == [p \in saved |-> AmountOf[p] - Booked(p)]
<1>1. /\ \A p \in Payments : payment[p] \in Request
      /\ \A i \in Invoices : matched[i] \in Matches
      /\ saved \in SUBSET Payments
  BY DEF OverlapInv, TypeOK
<1>2. \A p \in Payments : Booked(p) = BookedOf(payment[p]) /\ booked[p] = BookedOf(payment[p])
  BY DEF Booked, BookedOf
<1>3. \A p \in Payments : booked[p] \in Int /\ (p \notin saved => booked[p] = 0)
  BY <1>1, <1>2, BookedOfType DEF BookedInv
<1>4. \A p \in saved : /\ AmountOf[p] \in Int /\ booked[p] \in Int
                       /\ unmatched[p] = AmountOf[p] - booked[p]
  BY <1>1, <1>2, <1>3, AmountOfAssumption DEF AmountOfAssumption
<1>5. Matched(Invoices) = SumOf(booked, Payments)
  BY DEF BookedInv
<1>6. IsFiniteSet(saved) /\ IsFiniteSet(Payments \ saved)
  BY <1>1, FS_Subset
<1>7. Incoming = SumOf(AmountOf, saved) /\ Unmatched = SumOf(unmatched, saved)
  BY DEF Incoming, Unmatched
<1>8. Matched(Invoices) \in Int
  <2> DEFINE net == [i \in Invoices |-> Net(matched[i])]
  <2>1. \A i \in Invoices : net[i] \in Int
    BY <1>1, NetType
  <2> HIDE DEF net
  <2> QED
    BY <2>1, SumType DEF Matched, net
<1> HIDE DEF booked, unmatched
<1>9. SumOf(booked, Payments) = SumOf(booked, saved) + SumOf(booked, Payments \ saved)
  BY <1>1, <1>3, SumSplit
<1>10. SumOf(booked, Payments \ saved) = 0
  BY <1>3, <1>6, SumZero
<1>11. SumOf(unmatched, saved) = SumOf(AmountOf, saved) - SumOf(booked, saved)
  BY <1>4, <1>6, SumMinus
<1>12. SumOf(AmountOf, saved) \in Int /\ SumOf(booked, saved) \in Int
  BY <1>4, <1>6, SumType
<1> QED
  BY <1>5, <1>7, <1>8, <1>9, <1>10, <1>11, <1>12

(* What holds of the sums over a list of invoices that are in the table. *)
LEMMA ListedSums ==
  ASSUME IsFiniteSet(Invoices), OverlapInv, PaidEqualsMatches,
         NEW listed \in SUBSET Invoices, \A i \in listed : Exists(i)
  PROVE  /\ Total(listed) \in Int /\ Paid(listed) \in Int
         /\ Matched(listed) \in Int /\ Matched(Invoices \ listed) \in Int
         /\ Matched(Invoices) = Matched(listed) + Matched(Invoices \ listed)
         /\ listed \subseteq Serial => Paid(listed) = Matched(listed)
<1> DEFINE total == [i \in listed |-> invoice[i].total]
           paid == [i \in listed |-> invoice[i].paid]
           net == [i \in Invoices |-> Net(matched[i])]
<1>1. \A i \in Invoices : invoice[i] \in Row /\ net[i] \in Int
  BY NetType DEF OverlapInv, TypeOK
<1>2. \A i \in listed : total[i] \in Int /\ paid[i] \in Int
  BY <1>1 DEF Row
<1>3. ASSUME listed \subseteq Serial PROVE \A i \in listed : paid[i] = net[i]
  BY <1>3 DEF PaidEqualsMatches
<1>4. IsFiniteSet(listed) /\ IsFiniteSet(Invoices \ listed)
  BY FS_Subset
<1>5. Total(listed) = SumOf(total, listed) /\ Paid(listed) = SumOf(paid, listed)
  BY DEF Total, Paid
<1>6. ASSUME NEW S \in SUBSET Invoices PROVE Matched(S) = SumOf(net, S)
  <2> DEFINE part == [i \in S |-> Net(matched[i])]
  <2>1. IsFiniteSet(S) /\ \A i \in S : part[i] = net[i]
    BY FS_Subset
  <2>2. Matched(S) = SumOf(part, S)
    BY DEF Matched
  <2> HIDE DEF part, net
  <2> QED
    BY <2>1, <2>2, SumAgree
<1> HIDE DEF total, paid, net
<1>7. SumOf(total, listed) \in Int /\ SumOf(paid, listed) \in Int
  BY <1>2, <1>4, SumType
<1>8. SumOf(net, listed) \in Int /\ SumOf(net, Invoices \ listed) \in Int
  BY <1>1, <1>4, SumType
<1>9. SumOf(net, Invoices) = SumOf(net, listed) + SumOf(net, Invoices \ listed)
  BY <1>1, SumSplit
<1>10. listed \subseteq Serial => SumOf(paid, listed) = SumOf(net, listed)
  BY <1>3, <1>4, SumAgree
<1>11. /\ Matched(listed) = SumOf(net, listed)
       /\ Matched(Invoices \ listed) = SumOf(net, Invoices \ listed)
       /\ Matched(Invoices) = SumOf(net, Invoices)
  BY <1>6
<1> QED
  BY <1>5, <1>7, <1>8, <1>9, <1>10, <1>11

(* The answer to a statement reconciles with the rows, whatever was        *)
(* committed between its two queries: it closes at what is invoiced less   *)
(* all matches and what is not matched; for invoices whose payments do not *)
(* overlap, at their balance, less what was paid for others and what is    *)
(* not matched; and the aging analysis lists every debt of such an invoice *)
(* from which nothing was taken back.  The tables are finite.              *)
THEOREM ReportsReconcileHolds ==
  ASSUME IsFiniteSet(Invoices), IsFiniteSet(Payments)
  PROVE  ReportSpec => ReportsReconcile
<1>1. ReportSpec => Spec
  <2>1. ReportInit => Init
    BY DEF ReportInit
  <2>2. [ReportNext]_rvars => [Next]_vars
    BY DEF ReportNext, ReadInvoices, ReadPayments, rvars
  <2> QED
    BY <2>1, <2>2, PTL DEF ReportSpec, Spec
<1>2. ReportSpec => []ListedInv
  <2>1. ReportInit => ListedInv
    BY DEF ReportInit, ListedInv
  <2> QED
    BY <1>1, <2>1, ListedInvStep, OverlapInvHolds, AloneInvHolds, PTL DEF ReportSpec
<1>3. ASSUME OverlapInv, PaidEqualsMatches, BookedInv, ListedInv,
             statement.phase = "invoices"
      PROVE  LET listed == statement.invoices
             IN /\ Closing(listed) = Total(listed) - Matched(Invoices) - Unmatched
                /\ listed \subseteq Serial =>
                     Closing(listed) =
                       Balance(listed) - Matched(Invoices \ listed) - Unmatched
                /\ \A i \in Live \cap Serial :
                     invoice[i].paid < invoice[i].total /\ matched[i].minus = 0 =>
                       i \in Aged
  <2>1. PICK listed : listed = statement.invoices
    OBVIOUS
  <2>2. listed \in SUBSET Invoices /\ \A i \in listed : Exists(i)
    BY <1>3, <2>1 DEF ListedInv
  <2>3. /\ Total(listed) \in Int /\ Paid(listed) \in Int
        /\ Matched(listed) \in Int /\ Matched(Invoices \ listed) \in Int
        /\ Matched(Invoices) = Matched(listed) + Matched(Invoices \ listed)
        /\ listed \subseteq Serial => Paid(listed) = Matched(listed)
    BY <1>3, <2>2, ListedSums
  <2>4. /\ Incoming = Matched(Invoices) + Unmatched
        /\ Incoming \in Int /\ Matched(Invoices) \in Int /\ Unmatched \in Int
    BY <1>3, IncomingIsMatched
  <2>5. Closing(listed) = Total(listed) - Incoming /\ Balance(listed) = Total(listed) - Paid(listed)
    BY DEF Closing, Balance
  <2>6. ASSUME NEW i \in Live \cap Serial,
               invoice[i].paid < invoice[i].total, matched[i].minus = 0
        PROVE  i \in Aged
    <3>1. /\ i \in Live /\ i \in Serial /\ i \in Invoices /\ Exists(i) /\ invoice[i] \in Row
          /\ matched[i] \in Matches
      BY <1>3 DEF Live, OverlapInv, TypeOK
    <3>2. invoice[i].paid = matched[i].plus + matched[i].minus
      BY <1>3, <3>1 DEF PaidEqualsMatches, Net
    <3>3. invoice[i].status = "PAID" => matched[i].plus >= invoice[i].total
      BY <1>3, <3>1 DEF OverlapInv, PaidIsCovered
    <3>4. invoice[i].total \in Int /\ matched[i].plus \in Int
      BY <3>1 DEF Row, Matches
    <3> QED
      BY <2>6, <3>1, <3>2, <3>3, <3>4 DEF Aged
  <2>7. Closing(listed) = Total(listed) - Matched(Invoices) - Unmatched
    BY <2>3, <2>4, <2>5
  <2>8. listed \subseteq Serial =>
          Closing(listed) = Balance(listed) - Matched(Invoices \ listed) - Unmatched
    BY <2>3, <2>4, <2>5
  <2> QED
    BY <2>1, <2>6, <2>7, <2>8
<1>4. OverlapInv /\ PaidEqualsMatches /\ BookedInv /\ ListedInv /\ [ReportNext]_rvars =>
        (statement.phase = "invoices" /\ statement'.phase = "idle" =>
           LET listed == statement.invoices
           IN /\ Closing(listed) = Total(listed) - Matched(Invoices) - Unmatched
              /\ listed \subseteq Serial =>
                   Closing(listed) =
                     Balance(listed) - Matched(Invoices \ listed) - Unmatched
              /\ \A i \in Live \cap Serial :
                   invoice[i].paid < invoice[i].total /\ matched[i].minus = 0 =>
                     i \in Aged)
  BY <1>3
<1> QED
  BY <1>1, <1>2, <1>4, OverlapInvHolds, PaidEqualsMatchesHolds, BookedInvHolds, PTL
     DEF ReportSpec, ReportsReconcile
=============================================================================
