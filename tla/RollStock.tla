------------------------------ MODULE RollStock ------------------------------
(***************************************************************************)
(* Rolls of fabric, their movements and their reservations, under          *)
(* concurrent requests: createRoll, cutRoll, markWaste and adjustStock of  *)
(* InventoryService, and allocateRoll of SalesOrderService.                *)
(*                                                                         *)
(* A request runs on its own forked EntityManager.  It reads the row of    *)
(* the roll (await em.findOne), checks and computes in memory, and writes  *)
(* (await em.flush).  Other requests run during both awaits, so a request  *)
(* has two steps here: Begin, which reads and decides, and the flush, one  *)
(* action per operation.  A flush is one database transaction: it updates  *)
(* the columns whose value differs from the one that was read, with the    *)
(* absolute value computed from that read, and inserts the new rows.       *)
(* There is no row lock and no version column.                             *)
(*                                                                         *)
(* Two tables are kept as what is asked of them.  Of the movements of a    *)
(* roll (inventory_transactions) ledger keeps the sum of quantityChange by *)
(* type, which is the movement report, the newQuantity of the latest       *)
(* movement whose newQuantity is not its previousQuantity, and whether a   *)
(* waste put fabric back.  Of its allocations (order_roll_allocations)     *)
(* allocated keeps the sums of allocatedQuantity above and below zero: all *)
(* are RESERVED, no code gives them another status.                        *)
(*                                                                         *)
(* Quantities are decimal(10,2) columns; the integers count hundredths.    *)
(* No body is validated before it reaches these services: an amount may be *)
(* zero or negative wherever the handler itself does not refuse it.        *)
(***************************************************************************)
EXTENDS Integers

CONSTANTS
  Rolls,     \* barcodes of a tenant, unique in inventory_items
  Requests,  \* requests, each served once: the bound of a TLC run
  Amounts,   \* the quantities request bodies carry
  Overlapping \* the rolls for which requests may be in progress together

ASSUME AmountsAssumption == Amounts \subseteq Int
ASSUME OverlapAssumption == Overlapping \subseteq Rolls

VARIABLES
  item,       \* inventory_items: the row of each barcode
  ledger,     \* inventory_transactions, by roll
  allocated,  \* order_roll_allocations: the quantities reserved, by roll
  unserved,   \* requests that have not arrived
  pending     \* requests that have read and are about to flush

vars == <<item, ledger, allocated, unserved, pending>>

ClosedStatus == {"SOLD", "CONSUMED", "WASTE"}
ItemStatus == {"ABSENT", "IN_STOCK"} \cup ClosedStatus
TxType == {"PURCHASE", "SALE_CUT", "WASTE", "ADJUSTMENT"}
Operation == {"createRoll", "cutRoll", "markWaste", "adjustStock", "allocateRoll"}

Row == [current : Int, reserved : Int, status : ItemStatus]
Movements == [sum : [TxType -> Int], latest : Int, unwasted : BOOLEAN]
Allocations == [plus : Int, minus : Int]
Flight == [id : Requests, op : Operation, roll : Rolls, amount : Amounts, seen : Row]

TypeOK ==
  /\ item \in [Rolls -> Row]
  /\ ledger \in [Rolls -> Movements]
  /\ allocated \in [Rolls -> Allocations]
  /\ unserved \in SUBSET Requests
  /\ pending \in SUBSET Flight

Init ==
  /\ item = [r \in Rolls |-> [current |-> 0, reserved |-> 0, status |-> "ABSENT"]]
  /\ ledger = [r \in Rolls |->
       [sum |-> [t \in TxType |-> 0], latest |-> 0, unwasted |-> FALSE]]
  /\ allocated = [r \in Rolls |-> [plus |-> 0, minus |-> 0]]
  /\ unserved = Requests
  /\ pending = {}

-----------------------------------------------------------------------------
(* What a request decides from the row it read.                            *)

Exists(row) == row.status # "ABSENT"
Available(row) == row.current - row.reserved

(* Operators named ...Fault are the definition that follows them with a    *)
(* slip in it; they are used only to see that the properties notice.       *)
CanCutFault(row, a) == a > 0 /\ a <= row.current  \* forgets the reservation

CanCut(row, a) == a > 0 /\ a <= Available(row)
CanWaste(row, a) == a <= row.current
CanAdjust(row, a) == a >= 0
CanAllocate(row, a) == a <= Available(row)

Accepts(op, row, a) ==
  \/ op = "createRoll"
  \/ /\ Exists(row)
     /\ \/ op = "cutRoll" /\ CanCut(row, a)
        \/ op = "markWaste" /\ CanWaste(row, a)
        \/ op = "adjustStock" /\ CanAdjust(row, a)
        \/ op = "allocateRoll" /\ CanAllocate(row, a)

(* The managed entity after the handler's assignments. *)
Reduced(row, a, closed) ==
  IF row.current - a <= 0
    THEN [current |-> 0, reserved |-> row.reserved, status |-> closed]
    ELSE [row EXCEPT !.current = @ - a]
CutImage(row, a) == Reduced(row, a, "SOLD")
WasteImage(row, a) == Reduced(row, a, "WASTE")
AdjustImage(row, n) ==
  [row EXCEPT !.current = n, !.status = IF n = 0 THEN "CONSUMED" ELSE "IN_STOCK"]
AllocateImageFault(row, a) ==  \* uses the status that no code uses
  [row EXCEPT !.reserved = @ + a, !.status = "RESERVED"]
AllocateImage(row, a) == [row EXCEPT !.reserved = @ + a]

-----------------------------------------------------------------------------
(* Requests.                                                               *)

(* The code never waits: every roll is in Overlapping unless its callers   *)
(* send one request at a time.                                             *)
MayStart(r) == r \in Overlapping \/ \A f \in pending : f.roll # r

(* The request reads the row and its checks pass. *)
Begin(q, op, r, a) ==
  /\ q \in unserved /\ MayStart(r)
  /\ Accepts(op, item[r], a)
  /\ unserved' = unserved \ {q}
  /\ pending' = pending \cup
       {[id |-> q, op |-> op, roll |-> r, amount |-> a, seen |-> item[r]]}
  /\ UNCHANGED <<item, ledger, allocated>>

(* The roll is not found, or a check answers 400. *)
Refuse(q, op, r, a) ==
  /\ q \in unserved /\ MayStart(r)
  /\ ~Accepts(op, item[r], a)
  /\ unserved' = unserved \ {q}
  /\ UNCHANGED <<item, ledger, allocated, pending>>

(* The UPDATE of a flush names only the columns that the handler changed. *)
Written(row, seen, image) ==
  [current  |-> IF image.current # seen.current THEN image.current ELSE row.current,
   reserved |-> IF image.reserved # seen.reserved THEN image.reserved ELSE row.reserved,
   status   |-> IF image.status # seen.status THEN image.status ELSE row.status]

PostedFault(book, type, change, previous, new) ==  \* newQuantity before it is set to zero
  [sum      |-> [book.sum EXCEPT ![type] = @ + change],
   latest   |-> IF new # previous THEN previous + change ELSE book.latest,
   unwasted |-> book.unwasted \/ (type = "WASTE" /\ change > 0)]

(* The movement inserted with it: quantityChange is what the body asked    *)
(* for, previousQuantity and newQuantity are what was read and computed.   *)
Posted(book, type, change, previous, new) ==
  [sum      |-> [book.sum EXCEPT ![type] = @ + change],
   latest   |-> IF new # previous THEN new ELSE book.latest,
   unwasted |-> book.unwasted \/ (type = "WASTE" /\ change > 0)]

(* The allocation inserted with it. *)
Reserved(book, a) ==
  IF a < 0 THEN [book EXCEPT !.minus = @ + a] ELSE [book EXCEPT !.plus = @ + a]

Finish(f) ==
  /\ pending' = pending \ {f}
  /\ UNCHANGED unserved

CreateRoll(f) ==
  /\ f.op = "createRoll"
  /\ ~Exists(item[f.roll])
  /\ item' = [item EXCEPT ![f.roll] =
       [current |-> f.amount, reserved |-> 0, status |-> "IN_STOCK"]]
  /\ ledger' = [ledger EXCEPT ![f.roll] = Posted(@, "PURCHASE", f.amount, 0, f.amount)]
  /\ UNCHANGED allocated
  /\ Finish(f)

CutRoll(f) ==
  LET image == CutImage(f.seen, f.amount) IN
  /\ f.op = "cutRoll"
  /\ item' = [item EXCEPT ![f.roll] = Written(@, f.seen, image)]
  /\ ledger' = [ledger EXCEPT ![f.roll] =
       Posted(@, "SALE_CUT", -f.amount, f.seen.current, image.current)]
  /\ UNCHANGED allocated
  /\ Finish(f)

MarkWaste(f) ==
  LET image == WasteImage(f.seen, f.amount) IN
  /\ f.op = "markWaste"
  /\ item' = [item EXCEPT ![f.roll] = Written(@, f.seen, image)]
  /\ ledger' = [ledger EXCEPT ![f.roll] =
       Posted(@, "WASTE", -f.amount, f.seen.current, image.current)]
  /\ UNCHANGED allocated
  /\ Finish(f)

AdjustStockFault(f) ==  \* the movement carries the count, not the difference
  /\ f.op = "adjustStock"
  /\ item' = [item EXCEPT ![f.roll] = Written(@, f.seen, AdjustImage(f.seen, f.amount))]
  /\ ledger' = [ledger EXCEPT ![f.roll] =
       Posted(@, "ADJUSTMENT", f.amount, f.seen.current, f.amount)]
  /\ UNCHANGED allocated
  /\ Finish(f)

AdjustStock(f) ==
  LET image == AdjustImage(f.seen, f.amount)
      diff == f.amount - f.seen.current IN
  /\ f.op = "adjustStock"
  /\ item' = [item EXCEPT ![f.roll] = Written(@, f.seen, image)]
  /\ ledger' = [ledger EXCEPT ![f.roll] =
       Posted(@, "ADJUSTMENT", diff, f.seen.current, f.amount)]
  /\ UNCHANGED allocated
  /\ Finish(f)

AllocateRoll(f) ==
  /\ f.op = "allocateRoll"
  /\ item' = [item EXCEPT ![f.roll] =
       Written(@, f.seen, AllocateImage(f.seen, f.amount))]
  /\ allocated' = [allocated EXCEPT ![f.roll] = Reserved(@, f.amount)]
  /\ UNCHANGED ledger
  /\ Finish(f)

RollBackFault(f) ==  \* the reservation was flushed before the allocation
  /\ Finish(f)
  /\ item' = IF f.op = "allocateRoll"
               THEN [item EXCEPT ![f.roll] =
                       Written(@, f.seen, AllocateImage(f.seen, f.amount))]
               ELSE item
  /\ UNCHANGED <<ledger, allocated>>

(* The flush is rolled back: the barcode is taken by then (unique index),  *)
(* the connection is lost, or the process dies.                            *)
RollBack(f) ==
  /\ Finish(f)
  /\ UNCHANGED <<item, ledger, allocated>>

Flush(f) ==
  \/ CreateRoll(f) \/ CutRoll(f) \/ MarkWaste(f) \/ AdjustStock(f) \/ AllocateRoll(f)
  \/ RollBack(f)

Next ==
  \/ \E q \in Requests, op \in Operation, r \in Rolls, a \in Amounts :
       Begin(q, op, r, a) \/ Refuse(q, op, r, a)
  \/ \E f \in pending : Flush(f)

Spec == Init /\ [][Next]_vars

-----------------------------------------------------------------------------
(* Properties that hold however requests overlap.                          *)

(* Below zero there is only the length a roll was received with, which     *)
(* createRoll does not check: every cut, waste and count writes an         *)
(* absolute value that was checked against the row it read or is set to    *)
(* zero, so an overlap can lose an update but never overdraw the column.   *)
NeverNegative ==
  \A r \in Rolls : item[r].current >= 0 \/ item[r].current = ledger[r].sum["PURCHASE"]

(* reservedQuantity lies between the allocations below zero and those      *)
(* above it: an overlap of allocateRoll with itself can lose reservations, *)
(* of either sign, and never makes one up.                                 *)
ReservedWithinAllocated ==
  \A r \in Rolls :
    allocated[r].minus <= item[r].reserved /\ item[r].reserved <= allocated[r].plus

(* The quantity of a roll is the newQuantity of its latest movement whose  *)
(* newQuantity is not its previousQuantity, however many updates of the    *)
(* quantity an overlap lost.  Without that restriction it is false:        *)
(* adjustStock to the quantity it read inserts a movement and leaves the   *)
(* column as another request has set it.                                   *)
CurrentIsLatestMovement == \A r \in Rolls : item[r].current = ledger[r].latest

(* The inductive strengthening of the first three: what a request in       *)
(* flight saw was a sound row, and the two sums of allocations only move   *)
(* apart behind it.                                                        *)
FlightsAreSound ==
  \A f \in pending : f.op # "createRoll" =>
    /\ Exists(item[f.roll]) /\ Exists(f.seen) /\ Accepts(f.op, f.seen, f.amount)
    /\ allocated[f.roll].minus <= f.seen.reserved
    /\ f.seen.reserved <= allocated[f.roll].plus

OverlapInv ==
  /\ NeverNegative /\ ReservedWithinAllocated /\ CurrentIsLatestMovement
  /\ \A r \in Rolls :
       /\ allocated[r].minus <= 0 /\ 0 <= allocated[r].plus
       /\ ~Exists(item[r]) => ledger[r].latest = 0 /\ ledger[r].sum["PURCHASE"] = 0
  /\ FlightsAreSound

-----------------------------------------------------------------------------
(* Properties of the rolls whose requests do not overlap, whatever happens *)
(* to the other rolls meanwhile.                                           *)

Serial == Rolls \ Overlapping

Balance(book) ==
  book.sum["PURCHASE"] + book.sum["SALE_CUT"] + book.sum["WASTE"] + book.sum["ADJUSTMENT"]

(* The movements of a roll explain its quantity (inventory_transactions is *)
(* documented as the event log of the roll), and every reserved metre      *)
(* belongs to an allocation, and the reverse.  A negative allocation frees *)
(* fabric that is not there: a cut of it is set to zero in the column and  *)
(* kept whole in the movement, so the log may then say less than the roll  *)
(* has, never more.                                                        *)
BooksAgree ==
  \A r \in Serial :
    /\ item[r].reserved = allocated[r].plus + allocated[r].minus
    /\ Balance(ledger[r]) <= item[r].current
    /\ allocated[r].minus = 0 => item[r].current = Balance(ledger[r])

(* A closed roll is an empty one, so that the summary, which leaves out    *)
(* closed rolls, leaves out no fabric, unless a negative waste put fabric  *)
(* back, which opens no roll; and an empty roll that was ever longer is    *)
(* closed.                                                                 *)
StatusFollowsQuantity ==
  \A r \in Serial :
    /\ item[r].status \in ClosedStatus => item[r].current = 0 \/ ledger[r].unwasted
    /\ item[r].status = "IN_STOCK" /\ item[r].current = 0 => ledger[r].sum["PURCHASE"] = 0

(* Read as accounts, the roll, its cuts and its allocations are the atomic *)
(* account of StockAccount: what is sold or promised was available.        *)
Account == INSTANCE StockAccount WITH
  Rolls <- Serial,
  Quantities <- Amounts,
  entered  <- {r \in Serial : Exists(item[r])},
  onHand   <- [r \in Serial |-> item[r].current],
  promised <- [r \in Serial |-> allocated[r].plus + allocated[r].minus],
  sold     <- [r \in Serial |-> -ledger[r].sum["SALE_CUT"]]

ImplementsAccount == Account!ASpec

-----------------------------------------------------------------------------
(* What the documents say of the same operations.                          *)

(* An allocation is granted only out of what is available                  *)
(* (docs/test-scenarios/kademe-5, scenario 5.2, steps 3 to 5).             *)
AllocationWasAvailable ==
  [][\A f \in pending : AllocateRoll(f) => CanAllocate(item[f.roll], f.amount)]_vars
=============================================================================
