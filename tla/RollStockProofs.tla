--------------------------- MODULE RollStockProofs ---------------------------
(***************************************************************************)
(* Proofs about RollStock and GoodsReceive, for every set of rolls and     *)
(* requests and for amounts of either sign.                                *)
(***************************************************************************)
EXTENDS RollStock, GoodsReceive, TLAPS

-----------------------------------------------------------------------------
(* What a flush leaves of its roll, said once without the variables: the   *)
(* request, with the row it saw, finds the first row, book and allocations *)
(* and leaves the second.                                                  *)

Merged(image, change, type, seen, row, book, row2, book2) ==
  /\ row2 = Written(row, seen, image)
  /\ book2 = Posted(book, type, change, seen.current, image.current)

Effect(op, a, seen, row, book, held, row2, book2, held2) ==
  \/ /\ op = "createRoll" /\ ~Exists(row)
     /\ row2 = [current |-> a, reserved |-> 0, status |-> "IN_STOCK"]
     /\ book2 = Posted(book, "PURCHASE", a, 0, a)
     /\ held2 = held
  \/ /\ op = "cutRoll" /\ held2 = held
     /\ Merged(CutImage(seen, a), -a, "SALE_CUT", seen, row, book, row2, book2)
  \/ /\ op = "markWaste" /\ held2 = held
     /\ Merged(WasteImage(seen, a), -a, "WASTE", seen, row, book, row2, book2)
  \/ /\ op = "adjustStock" /\ held2 = held
     /\ Merged(AdjustImage(seen, a), a - seen.current, "ADJUSTMENT", seen, row, book, row2, book2)
  \/ /\ op = "allocateRoll"
     /\ row2 = Written(row, seen, AllocateImage(seen, a))
     /\ book2 = book
     /\ held2 = Reserved(held, a)

(* The roll of a flush has this row, this book and these allocations after *)
(* it, and no other roll is touched.                                       *)
Leaves(f, row, book, held) ==
  /\ item' = [item EXCEPT ![f.roll] = row]
  /\ ledger' = [ledger EXCEPT ![f.roll] = book]
  /\ allocated' = [allocated EXCEPT ![f.roll] = held]
  /\ Finish(f)

LEMMA FlushEffect ==
  ASSUME TypeOK, NEW f \in pending, Flush(f), ~RollBack(f)
  PROVE  \E row, book, held :
           /\ Leaves(f, row, book, held)
           /\ Effect(f.op, f.amount, f.seen, item[f.roll], ledger[f.roll], allocated[f.roll],
                     row, book, held)
<1>1. /\ ledger = [ledger EXCEPT ![f.roll] = ledger[f.roll]]
      /\ allocated = [allocated EXCEPT ![f.roll] = allocated[f.roll]]
  BY DEF TypeOK
<1>2. CASE CreateRoll(f)
  BY <1>1, <1>2 DEF CreateRoll, Leaves, Effect
<1>3. CASE CutRoll(f)
  BY <1>1, <1>3 DEF CutRoll, Leaves, Effect, Merged
<1>4. CASE MarkWaste(f)
  BY <1>1, <1>4 DEF MarkWaste, Leaves, Effect, Merged
<1>5. CASE AdjustStock(f)
  <2>1. AdjustImage(f.seen, f.amount).current = f.amount
    BY DEF AdjustImage, TypeOK, Flight, Row
  <2>2. QED
    BY <1>1, <1>5, <2>1 DEF AdjustStock, Leaves, Effect, Merged
<1>6. CASE AllocateRoll(f)
  BY <1>1, <1>6 DEF AllocateRoll, Leaves, Effect
<1>7. QED
  BY <1>2, <1>3, <1>4, <1>5, <1>6 DEF Flush

(* The images, column by column. *)
LEMMA ReducedColumns ==
  ASSUME NEW row \in Row, NEW a \in Int, NEW closed \in ClosedStatus
  PROVE  /\ Reduced(row, a, closed) \in Row
         /\ Reduced(row, a, closed).current =
              IF row.current - a <= 0 THEN 0 ELSE row.current - a
         /\ Reduced(row, a, closed).reserved = row.reserved
         /\ Reduced(row, a, closed).status =
              IF row.current - a <= 0 THEN closed ELSE row.status
<1>1. CASE row.current - a <= 0
  BY <1>1 DEF Reduced, Row, ItemStatus
<1>2. CASE ~(row.current - a <= 0)
  BY <1>2 DEF Reduced, Row
<1>3. QED
  BY <1>1, <1>2

LEMMA CutColumns ==
  ASSUME NEW row \in Row, NEW a \in Int
  PROVE  /\ CutImage(row, a) \in Row
         /\ CutImage(row, a).current = IF row.current - a <= 0 THEN 0 ELSE row.current - a
         /\ CutImage(row, a).reserved = row.reserved
         /\ CutImage(row, a).status = IF row.current - a <= 0 THEN "SOLD" ELSE row.status
  BY ReducedColumns DEF CutImage, ClosedStatus

LEMMA WasteColumns ==
  ASSUME NEW row \in Row, NEW a \in Int
  PROVE  /\ WasteImage(row, a) \in Row
         /\ WasteImage(row, a).current = IF row.current - a <= 0 THEN 0 ELSE row.current - a
         /\ WasteImage(row, a).reserved = row.reserved
         /\ WasteImage(row, a).status = IF row.current - a <= 0 THEN "WASTE" ELSE row.status
  BY ReducedColumns DEF WasteImage, ClosedStatus

LEMMA AdjustColumns ==
  ASSUME NEW row \in Row, NEW n \in Int
  PROVE  /\ AdjustImage(row, n) \in Row
         /\ AdjustImage(row, n).current = n
         /\ AdjustImage(row, n).reserved = row.reserved
         /\ AdjustImage(row, n).status = IF n = 0 THEN "CONSUMED" ELSE "IN_STOCK"
  BY DEF AdjustImage, Row, ItemStatus, ClosedStatus

LEMMA AllocateColumns ==
  ASSUME NEW row \in Row, NEW a \in Int
  PROVE  /\ AllocateImage(row, a) \in Row
         /\ AllocateImage(row, a).current = row.current
         /\ AllocateImage(row, a).reserved = row.reserved + a
         /\ AllocateImage(row, a).status = row.status
  BY DEF AllocateImage, Row

LEMMA WrittenColumns ==
  ASSUME NEW row \in Row, NEW seen \in Row, NEW image \in Row
  PROVE  /\ Written(row, seen, image) \in Row
         /\ Written(row, row, image) = image
<1>1. Written(row, seen, image) \in Row
  BY DEF Written, Row
<1>2. Written(row, row, image) =
        [current |-> image.current, reserved |-> image.reserved, status |-> image.status]
  BY DEF Written
<1>3. QED
  BY <1>1, <1>2 DEF Row

LEMMA PostedBook ==
  ASSUME NEW book \in Movements, NEW type \in TxType, NEW change \in Int,
         NEW previous \in Int, NEW new \in Int
  PROVE  LET after == Posted(book, type, change, previous, new)
         IN  /\ after \in Movements
             /\ \A t \in TxType : /\ book.sum[t] \in Int
                                  /\ after.sum[t] = IF t = type THEN book.sum[t] + change
                                                                ELSE book.sum[t]
             /\ after.latest = IF new # previous THEN new ELSE book.latest
             /\ after.unwasted = (book.unwasted \/ (type = "WASTE" /\ change > 0))
             /\ Balance(book) \in Int /\ Balance(after) = Balance(book) + change
<1> DEFINE after == Posted(book, type, change, previous, new)
<1>1. /\ book.sum \in [TxType -> Int] /\ book.latest \in Int /\ book.unwasted \in BOOLEAN
  BY DEF Movements
<1>2. /\ after.sum = [book.sum EXCEPT ![type] = book.sum[type] + change]
      /\ after.latest = IF new # previous THEN new ELSE book.latest
      /\ after.unwasted = (book.unwasted \/ (type = "WASTE" /\ change > 0))
  BY DEF Posted
<1>3. after \in Movements
  <2>1. after.sum \in [TxType -> Int]
    BY <1>1, <1>2
  <2>2. after.latest \in Int
    BY <1>1, <1>2
  <2>3. after.unwasted \in BOOLEAN
    BY <1>2
  <2>4. after = [sum |-> after.sum, latest |-> after.latest, unwasted |-> after.unwasted]
    BY DEF Posted
  <2>5. QED
    BY <2>1, <2>2, <2>3, <2>4 DEF Movements
<1>4. \A t \in TxType : /\ book.sum[t] \in Int
                        /\ after.sum[t] = IF t = type THEN book.sum[t] + change ELSE book.sum[t]
  BY <1>1, <1>2
<1> HIDE DEF after
<1>5. Balance(book) \in Int /\ Balance(after) = Balance(book) + change
  BY <1>4 DEF Balance, TxType
<1>6. QED
  BY <1>2, <1>3, <1>4, <1>5 DEF after

LEMMA ReservedSums ==
  ASSUME NEW held \in Allocations, NEW a \in Int
  PROVE  /\ Reserved(held, a) \in Allocations
         /\ Reserved(held, a).plus = IF a < 0 THEN held.plus ELSE held.plus + a
         /\ Reserved(held, a).minus = IF a < 0 THEN held.minus + a ELSE held.minus
  BY DEF Reserved, Allocations

(* What a request finds when it is flushed, and what it leaves, are rows,  *)
(* books and allocations.                                                  *)
LEMMA EffectTyped ==
  ASSUME NEW op, NEW a \in Int, NEW seen \in Row,
         NEW row \in Row, NEW book \in Movements, NEW held \in Allocations,
         NEW row2, NEW book2, NEW held2,
         Effect(op, a, seen, row, book, held, row2, book2, held2)
  PROVE  row2 \in Row /\ book2 \in Movements /\ held2 \in Allocations
<1>1. /\ seen.current \in Int /\ -a \in Int /\ a - seen.current \in Int
      /\ "PURCHASE" \in TxType /\ "SALE_CUT" \in TxType
      /\ "WASTE" \in TxType /\ "ADJUSTMENT" \in TxType
  BY DEF Row, TxType
<1>2. ASSUME NEW image \in Row, NEW change \in Int, NEW type \in TxType,
             Merged(image, change, type, seen, row, book, row2, book2)
      PROVE  row2 \in Row /\ book2 \in Movements
  <2>1. image.current \in Int
    BY DEF Row
  <2>2. QED
    BY <1>1, <1>2, <2>1, WrittenColumns, PostedBook DEF Merged
<1>3. CASE op = "createRoll"
  <2>1. [current |-> a, reserved |-> 0, status |-> "IN_STOCK"] \in Row
    BY DEF Row, ItemStatus
  <2>2. Posted(book, "PURCHASE", a, 0, a) \in Movements
    BY <1>1, PostedBook
  <2>3. QED
    BY <1>3, <2>1, <2>2 DEF Effect
<1>4. CASE op = "cutRoll"
  BY <1>1, <1>2, <1>4, CutColumns DEF Effect
<1>5. CASE op = "markWaste"
  BY <1>1, <1>2, <1>5, WasteColumns DEF Effect
<1>6. CASE op = "adjustStock"
  BY <1>1, <1>2, <1>6, AdjustColumns DEF Effect
<1>7. CASE op = "allocateRoll"
  BY <1>7, AllocateColumns, WrittenColumns, ReservedSums DEF Effect
<1>8. QED
  BY <1>3, <1>4, <1>5, <1>6, <1>7 DEF Effect

(* The state only ever holds rows, books and flights of the declared       *)
(* shapes, whatever amounts are sent and however requests overlap.         *)
THEOREM TypeCorrect == Spec => []TypeOK
<1>1. Init => TypeOK
  BY DEF Init, TypeOK, Row, Movements, Allocations, ItemStatus
<1>2. TypeOK /\ [Next]_vars => TypeOK'
  <2> SUFFICES ASSUME TypeOK, [Next]_vars PROVE TypeOK'
    OBVIOUS
  <2>1. ASSUME NEW q \in Requests, NEW op \in Operation, NEW r \in Rolls, NEW a \in Amounts,
               Begin(q, op, r, a) \/ Refuse(q, op, r, a)
        PROVE  TypeOK'
    <3>1. item[r] \in Row
      BY DEF TypeOK
    <3>2. [id |-> q, op |-> op, roll |-> r, amount |-> a, seen |-> item[r]] \in Flight
      BY <3>1 DEF Flight
    <3>3. QED
      BY <2>1, <3>2 DEF Begin, Refuse, TypeOK
  <2>2. ASSUME NEW f \in pending, Flush(f)
        PROVE  TypeOK'
    <3>1. /\ f.roll \in Rolls /\ f.amount \in Int /\ f.seen \in Row
          /\ item[f.roll] \in Row /\ ledger[f.roll] \in Movements
          /\ allocated[f.roll] \in Allocations
      BY AmountsAssumption DEF TypeOK, Flight
    <3>2. CASE RollBack(f)
      BY <3>2 DEF RollBack, Finish, TypeOK
    <3>3. CASE ~RollBack(f)
      <4>1. PICK row, book, held :
              /\ Leaves(f, row, book, held)
              /\ Effect(f.op, f.amount, f.seen, item[f.roll], ledger[f.roll],
                        allocated[f.roll], row, book, held)
        BY <2>2, <3>3, FlushEffect
      <4>2. row \in Row /\ book \in Movements /\ held \in Allocations
        BY <3>1, <4>1, EffectTyped
      <4>3. QED
        BY <4>1, <4>2 DEF Leaves, Finish, TypeOK
    <3>4. QED
      BY <3>2, <3>3
  <2>3. CASE UNCHANGED vars
    BY <2>3 DEF vars, TypeOK
  <2>4. QED
    BY <2>1, <2>2, <2>3 DEF Next
<1>3. QED
  BY <1>1, <1>2, PTL DEF Spec

-----------------------------------------------------------------------------
(* Safety under any overlap, for one roll: a sound row, and a request that *)
(* saw a sound row.                                                        *)

Sound(row, book, held) ==
  /\ row.current >= 0 \/ row.current = book.sum["PURCHASE"]
  /\ held.minus <= row.reserved /\ row.reserved <= held.plus
  /\ row.current = book.latest
  /\ held.minus <= 0 /\ 0 <= held.plus
  /\ ~Exists(row) => book.latest = 0 /\ book.sum["PURCHASE"] = 0

SawSound(op, a, seen, row, held) ==
  op # "createRoll" =>
    /\ Exists(row) /\ Exists(seen) /\ Accepts(op, seen, a)
    /\ held.minus <= seen.reserved /\ seen.reserved <= held.plus

LEMMA OverlapInvByRoll ==
  OverlapInv <=>
    /\ \A r \in Rolls : Sound(item[r], ledger[r], allocated[r])
    /\ \A f \in pending : SawSound(f.op, f.amount, f.seen, item[f.roll], allocated[f.roll])
  BY DEF OverlapInv, NeverNegative, ReservedWithinAllocated, CurrentIsLatestMovement,
         FlightsAreSound, Sound, SawSound

(* A merge leaves a sound row if its image keeps the reservation and is    *)
(* not below zero, or is what was read.                                    *)
LEMMA MergedSound ==
  ASSUME NEW seen \in Row, NEW row \in Row, NEW book \in Movements, NEW held \in Allocations,
         NEW row2, NEW book2, NEW image \in Row, NEW change \in Int,
         NEW type \in TxType \ {"PURCHASE"},
         Sound(row, book, held), Exists(row), Exists(image),
         image.reserved = seen.reserved, image.current >= 0,
         Merged(image, change, type, seen, row, book, row2, book2)
  PROVE  Sound(row2, book2, held) /\ Exists(row2)
<1>1. /\ seen.current \in Int /\ image.current \in Int /\ row.current \in Int
      /\ type \in TxType /\ "PURCHASE" \in TxType /\ type # "PURCHASE"
  BY DEF Row, TxType
<1>2. /\ book2.sum["PURCHASE"] = book.sum["PURCHASE"]
      /\ book2.latest = IF image.current # seen.current THEN image.current ELSE book.latest
  BY <1>1 DEF Merged, Posted, Movements
<1>3. /\ row2.current = IF image.current # seen.current THEN image.current ELSE row.current
      /\ row2.reserved = row.reserved
      /\ row2.status = image.status \/ row2.status = row.status
  BY DEF Merged, Written
<1>4. Exists(row2)
  BY <1>3 DEF Exists
<1>5. QED
  BY <1>1, <1>2, <1>3, <1>4 DEF Sound

LEMMA EffectSound ==
  ASSUME NEW op, NEW a \in Int, NEW seen \in Row,
         NEW row \in Row, NEW book \in Movements, NEW held \in Allocations,
         NEW row2, NEW book2, NEW held2,
         Effect(op, a, seen, row, book, held, row2, book2, held2),
         Sound(row, book, held), SawSound(op, a, seen, row, held)
  PROVE  /\ Sound(row2, book2, held2) /\ Exists(row2)
         /\ held2.minus <= held.minus /\ held.plus <= held2.plus
<1>1. /\ seen.current \in Int /\ seen.reserved \in Int
      /\ row.current \in Int /\ row.reserved \in Int
      /\ held.plus \in Int /\ held.minus \in Int
      /\ "PURCHASE" \in TxType /\ "SALE_CUT" \in TxType \ {"PURCHASE"}
      /\ "WASTE" \in TxType \ {"PURCHASE"} /\ "ADJUSTMENT" \in TxType \ {"PURCHASE"}
      /\ -a \in Int /\ a - seen.current \in Int
  BY DEF Row, Allocations, TxType
<1>2. CASE op = "createRoll"
  <2>1. /\ ~Exists(row) /\ held2 = held
        /\ row2.current = a /\ row2.reserved = 0 /\ row2.status = "IN_STOCK"
        /\ book2 = Posted(book, "PURCHASE", a, 0, a)
    BY <1>2 DEF Effect
  <2>2. book.latest = 0 /\ book.sum["PURCHASE"] = 0
    BY <2>1 DEF Sound
  <2>3. /\ book2.sum["PURCHASE"] = book.sum["PURCHASE"] + a
        /\ book2.latest = IF a # 0 THEN a ELSE book.latest
    BY <1>1, <2>1 DEF Posted, Movements
  <2>4. QED
    BY <1>1, <2>1, <2>2, <2>3 DEF Sound, Exists
<1>3. CASE op = "cutRoll"
  <2> DEFINE image == CutImage(seen, a)
  <2>1. /\ image \in Row /\ image.reserved = seen.reserved
        /\ image.current = IF seen.current - a <= 0 THEN 0 ELSE seen.current - a
        /\ image.status = IF seen.current - a <= 0 THEN "SOLD" ELSE seen.status
    BY CutColumns
  <2>2. /\ Merged(image, -a, "SALE_CUT", seen, row, book, row2, book2)
        /\ held2 = held /\ Exists(row) /\ Exists(seen)
    BY <1>3 DEF Effect, SawSound
  <2> HIDE DEF image
  <2>3. image.current >= 0 /\ Exists(image)
    BY <1>1, <2>1, <2>2 DEF Exists
  <2>4. Sound(row2, book2, held) /\ Exists(row2)
    BY <1>1, <2>1, <2>2, <2>3, MergedSound
  <2>5. QED
    BY <1>1, <2>2, <2>4
<1>4. CASE op = "markWaste"
  <2> DEFINE image == WasteImage(seen, a)
  <2>1. /\ image \in Row /\ image.reserved = seen.reserved
        /\ image.current = IF seen.current - a <= 0 THEN 0 ELSE seen.current - a
        /\ image.status = IF seen.current - a <= 0 THEN "WASTE" ELSE seen.status
    BY WasteColumns
  <2>2. /\ Merged(image, -a, "WASTE", seen, row, book, row2, book2)
        /\ held2 = held /\ Exists(row) /\ Exists(seen)
    BY <1>4 DEF Effect, SawSound
  <2> HIDE DEF image
  <2>3. image.current >= 0 /\ Exists(image)
    BY <1>1, <2>1, <2>2 DEF Exists
  <2>4. Sound(row2, book2, held) /\ Exists(row2)
    BY <1>1, <2>1, <2>2, <2>3, MergedSound
  <2>5. QED
    BY <1>1, <2>2, <2>4
<1>5. CASE op = "adjustStock"
  <2> DEFINE image == AdjustImage(seen, a)
  <2>1. /\ image \in Row /\ image.reserved = seen.reserved /\ image.current = a
        /\ image.status = IF a = 0 THEN "CONSUMED" ELSE "IN_STOCK"
    BY AdjustColumns
  <2>2. /\ Merged(image, a - seen.current, "ADJUSTMENT", seen, row, book, row2, book2)
        /\ held2 = held /\ Exists(row) /\ a >= 0
    BY <1>5 DEF Effect, SawSound, Accepts, CanAdjust
  <2> HIDE DEF image
  <2>3. image.current >= 0 /\ Exists(image)
    BY <2>1, <2>2 DEF Exists
  <2>4. Sound(row2, book2, held) /\ Exists(row2)
    <3>1. /\ image \in Row /\ image.reserved = seen.reserved /\ Exists(row)
          /\ "ADJUSTMENT" \in TxType \ {"PURCHASE"}
      BY <1>1, <2>1, <2>2
    <3>2. ASSUME NEW d \in Int, Merged(image, d, "ADJUSTMENT", seen, row, book, row2, book2)
          PROVE  Sound(row2, book2, held) /\ Exists(row2)
      BY <2>3, <3>1, <3>2, MergedSound, SMTT(30)
    <3>3. QED
      BY <1>1, <2>2, <3>2
  <2>5. QED
    BY <1>1, <2>2, <2>4
<1>6. CASE op = "allocateRoll"
  <2>1. /\ Exists(row)
        /\ held.minus <= seen.reserved /\ seen.reserved <= held.plus
    BY <1>6 DEF SawSound
  <2>2. /\ held2 = Reserved(held, a) /\ book2 = book
        /\ row2 = Written(row, seen, AllocateImage(seen, a))
    BY <1>6 DEF Effect
  <2>3. /\ row2.current = row.current /\ row2.status = row.status
        /\ row2.reserved = IF a # 0 THEN seen.reserved + a ELSE row.reserved
    <3> DEFINE image == AllocateImage(seen, a)
    <3>1. /\ image.current = seen.current /\ image.reserved = seen.reserved + a
          /\ image.status = seen.status
      BY AllocateColumns
    <3>2. row2 = Written(row, seen, image)
      BY <2>2
    <3> HIDE DEF image
    <3>3. QED
      BY <1>1, <3>1, <3>2 DEF Written
  <2>4. /\ held2.plus = IF a < 0 THEN held.plus ELSE held.plus + a
        /\ held2.minus = IF a < 0 THEN held.minus + a ELSE held.minus
    BY <2>2, ReservedSums
  <2>5. QED
    BY <1>1, <2>1, <2>2, <2>3, <2>4 DEF Sound, Exists
<1>7. QED
  BY <1>2, <1>3, <1>4, <1>5, <1>6 DEF Effect

LEMMA OverlapSafe == Spec => []OverlapInv
<1>1. Init => OverlapInv
  BY DEF Init, OverlapInv, NeverNegative, ReservedWithinAllocated, CurrentIsLatestMovement,
         FlightsAreSound, TxType
<1>2. TypeOK /\ OverlapInv /\ [Next]_vars => OverlapInv'
  <2> SUFFICES ASSUME TypeOK, OverlapInv, [Next]_vars PROVE OverlapInv'
    OBVIOUS
  <2> DEFINE RowSound(r) == Sound(item[r], ledger[r], allocated[r])
             Saw(f) == SawSound(f.op, f.amount, f.seen, item[f.roll], allocated[f.roll])
  <2>0. (\A r \in Rolls : RowSound(r)) /\ \A f \in pending : Saw(f)
    BY OverlapInvByRoll
  <2>1. ASSUME NEW q \in Requests, NEW op \in Operation, NEW r \in Rolls, NEW a \in Amounts,
               Begin(q, op, r, a)
        PROVE  OverlapInv'
    <3> DEFINE new == [id |-> q, op |-> op, roll |-> r, amount |-> a, seen |-> item[r]]
    <3>1. /\ pending' = pending \cup {new} /\ Accepts(op, item[r], a)
          /\ UNCHANGED <<item, ledger, allocated>>
      BY <2>1 DEF Begin
    <3>2. SawSound(op, a, item[r], item[r], allocated[r])
      BY <2>0, <3>1 DEF SawSound, Sound, Accepts
    <3>3. \A g \in pending' : SawSound(g.op, g.amount, g.seen, item[g.roll], allocated[g.roll])
      BY <2>0, <3>1, <3>2
    <3>4. QED
      BY <2>0, <3>1, <3>3 DEF OverlapInv, NeverNegative, ReservedWithinAllocated,
             CurrentIsLatestMovement, FlightsAreSound, Sound, SawSound
  <2>2. ASSUME NEW q \in Requests, NEW op \in Operation, NEW r \in Rolls, NEW a \in Amounts,
               Refuse(q, op, r, a)
        PROVE  OverlapInv'
    BY <2>2 DEF Refuse, OverlapInv, NeverNegative, ReservedWithinAllocated,
                CurrentIsLatestMovement, FlightsAreSound
  <2>3. ASSUME NEW f \in pending, Flush(f)
        PROVE  OverlapInv'
    <3>1. /\ f.roll \in Rolls /\ f.amount \in Int /\ f.seen \in Row
          /\ item[f.roll] \in Row /\ ledger[f.roll] \in Movements
          /\ allocated[f.roll] \in Allocations
      BY AmountsAssumption DEF TypeOK, Flight
    <3>2. CASE RollBack(f)
      BY <3>2 DEF RollBack, Finish, OverlapInv, NeverNegative, ReservedWithinAllocated,
                   CurrentIsLatestMovement, FlightsAreSound
    <3>3. CASE ~RollBack(f)
      <4>1. PICK row, book, held :
              /\ Leaves(f, row, book, held)
              /\ Effect(f.op, f.amount, f.seen, item[f.roll], ledger[f.roll],
                        allocated[f.roll], row, book, held)
        BY <2>3, <3>3, FlushEffect
      <4>2. /\ Sound(row, book, held) /\ Exists(row)
            /\ held.minus <= allocated[f.roll].minus /\ allocated[f.roll].plus <= held.plus
        BY <2>0, <3>1, <4>1, EffectSound
      <4>3. held \in Allocations
        BY <3>1, <4>1, EffectTyped
      <4>4. \A r \in Rolls :
              /\ item'[r] = IF r = f.roll THEN row ELSE item[r]
              /\ ledger'[r] = IF r = f.roll THEN book ELSE ledger[r]
              /\ allocated'[r] = IF r = f.roll THEN held ELSE allocated[r]
        BY <4>1 DEF Leaves, TypeOK
      <4>5. \A r \in Rolls : Sound(item'[r], ledger'[r], allocated'[r])
        BY <2>0, <4>2, <4>4
      <4>6. ASSUME NEW g \in pending'
            PROVE  SawSound(g.op, g.amount, g.seen, item'[g.roll], allocated'[g.roll])
        <5>1. g \in pending /\ g.roll \in Rolls /\ g.seen.reserved \in Int
          BY <4>1 DEF Leaves, Finish, TypeOK, Flight, Row
        <5>2. SawSound(g.op, g.amount, g.seen, item[g.roll], allocated[g.roll])
          BY <2>0, <5>1
        <5>3. CASE g.roll = f.roll
          <6>1. item'[g.roll] = row /\ allocated'[g.roll] = held
            BY <4>4, <5>1, <5>3
          <6>2. /\ held.minus \in Int /\ held.plus \in Int
                /\ allocated[f.roll].minus \in Int /\ allocated[f.roll].plus \in Int
            BY <3>1, <4>3 DEF Allocations
          <6>3. QED
            BY <4>2, <5>1, <5>2, <5>3, <6>1, <6>2 DEF SawSound
        <5>4. CASE g.roll # f.roll
          BY <4>4, <5>1, <5>2, <5>4
        <5>5. QED
          BY <5>3, <5>4
      <4>7. QED
        BY <4>5, <4>6 DEF OverlapInv, NeverNegative, ReservedWithinAllocated,
             CurrentIsLatestMovement, FlightsAreSound, Sound, SawSound
    <3>4. QED
      BY <3>2, <3>3
  <2>4. CASE UNCHANGED vars
    BY <2>4 DEF vars, OverlapInv, NeverNegative, ReservedWithinAllocated,
                CurrentIsLatestMovement, FlightsAreSound
  <2>5. QED
    BY <2>1, <2>2, <2>3, <2>4 DEF Next
<1>3. QED
  BY <1>1, <1>2, TypeCorrect, PTL DEF Spec

(* However requests overlap, no cut, waste, count or allocation takes      *)
(* currentQuantity below zero: only a roll received with less than nothing *)
(* is there, with the length it was received with.                         *)
THEOREM NeverNegativeHolds == Spec => []NeverNegative
<1>1. OverlapInv => NeverNegative
  BY DEF OverlapInv
<1>2. QED
  BY <1>1, OverlapSafe, PTL

(* However requests overlap, reservedQuantity is between the allocations   *)
(* of the roll below zero and those above it.                              *)
THEOREM ReservedWithinAllocatedHolds == Spec => []ReservedWithinAllocated
<1>1. OverlapInv => ReservedWithinAllocated
  BY DEF OverlapInv
<1>2. QED
  BY <1>1, OverlapSafe, PTL

(* However requests overlap, currentQuantity is the newQuantity of the     *)
(* latest movement whose newQuantity is not its previousQuantity.          *)
THEOREM CurrentIsLatestMovementHolds == Spec => []CurrentIsLatestMovement
<1>1. OverlapInv => CurrentIsLatestMovement
  BY DEF OverlapInv
<1>2. QED
  BY <1>1, OverlapSafe, PTL

-----------------------------------------------------------------------------
(* Rolls whose requests do not overlap.  What a request saw is then what   *)
(* the row still is when it flushes, so that a flush writes the image that *)
(* was computed, and the books of the roll follow it.                      *)

SettledRow(row, book, held) ==
  /\ row.reserved = held.plus + held.minus
  /\ Balance(book) <= row.current
  /\ held.minus = 0 => row.current = Balance(book)
  /\ row.status \in ClosedStatus => row.current = 0 \/ book.unwasted
  /\ row.status = "IN_STOCK" /\ row.current = 0 => book.sum["PURCHASE"] = 0
  /\ held.minus <= 0 /\ 0 <= held.plus
  /\ ~Exists(row) => /\ row.current = 0 /\ held.plus = 0 /\ held.minus = 0
                     /\ \A t \in TxType : book.sum[t] = 0

LoneFlight(f) ==
  f.roll \in Serial =>
    /\ \A g \in pending : g.roll = f.roll => g = f
    /\ f.op # "createRoll" =>
         f.seen = item[f.roll] /\ Exists(f.seen) /\ Accepts(f.op, f.seen, f.amount)

SerialInv ==
  /\ \A r \in Serial : SettledRow(item[r], ledger[r], allocated[r])
  /\ \A f \in pending : LoneFlight(f)

(* A cut is set to zero only when more is available than there is, which   *)
(* takes a negative allocation; a waste never is.                          *)
LEMMA ReducedSettles ==
  ASSUME NEW row \in Row, NEW book \in Movements, NEW held \in Allocations, NEW a \in Int,
         NEW closed \in ClosedStatus, NEW type \in {"SALE_CUT", "WASTE"},
         NEW image \in Row, NEW book2,
         Exists(row), SettledRow(row, book, held),
         \/ a <= row.current /\ (type = "WASTE" \/ a > 0)
         \/ a > 0 /\ a <= row.current - row.reserved,
         image.current = IF row.current - a <= 0 THEN 0 ELSE row.current - a,
         image.reserved = row.reserved,
         image.status = IF row.current - a <= 0 THEN closed ELSE row.status,
         book2 = Posted(book, type, -a, row.current, image.current)
  PROVE  SettledRow(image, book2, held) /\ Exists(image)
<1>1. /\ row.current \in Int /\ row.reserved \in Int /\ -a \in Int
      /\ image.current \in Int /\ held.plus \in Int /\ held.minus \in Int
      /\ type \in TxType /\ type # "PURCHASE" /\ "PURCHASE" \in TxType
  BY DEF Row, Allocations, TxType
<1>2. /\ Balance(book) \in Int /\ Balance(book2) = Balance(book) + (-a)
      /\ book2.unwasted = (book.unwasted \/ (type = "WASTE" /\ -a > 0))
      /\ book2.sum["PURCHASE"] = book.sum["PURCHASE"]
  <2>1. PICK d \in Int : d = -a
    BY <1>1
  <2>2. PICK after : after = Posted(book, type, d, row.current, image.current)
    OBVIOUS
  <2>3. /\ Balance(book) \in Int /\ Balance(after) = Balance(book) + d
        /\ after.unwasted = (book.unwasted \/ (type = "WASTE" /\ d > 0))
        /\ \A t \in TxType : after.sum[t] = IF t = type THEN book.sum[t] + d ELSE book.sum[t]
    BY <1>1, <2>2, PostedBook
  <2>4. QED
    BY <1>1, <2>1, <2>2, <2>3
<1>3. Exists(image)
  BY DEF Exists, ClosedStatus
<1>4. /\ Balance(book2) <= image.current
      /\ held.minus = 0 => image.current = Balance(book2)
  BY <1>1, <1>2 DEF SettledRow
<1>5. ASSUME image.status \in ClosedStatus, image.current # 0
      PROVE  book2.unwasted
  <2>1. image.status = row.status /\ image.current = row.current - a
    BY <1>1, <1>5
  <2>2. CASE row.current = 0
    <3>1. type = "WASTE" /\ -a > 0
      BY <1>1, <1>5, <2>1, <2>2 DEF SettledRow
    <3>2. QED
      BY <1>2, <3>1, Zenon
  <2>3. CASE row.current # 0
    <3>1. book.unwasted
      BY <1>5, <2>1, <2>3, Zenon DEF SettledRow
    <3>2. QED
      BY <1>2, <3>1, Zenon
  <2>4. QED
    BY <2>2, <2>3
<1>6. ~(image.status = "IN_STOCK" /\ image.current = 0)
  BY <1>1 DEF ClosedStatus
<1>7. QED
  BY <1>3, <1>4, <1>5, <1>6 DEF SettledRow

(* The request of a settled roll saw the row that is there, and leaves a   *)
(* settled one.                                                            *)
LEMMA EffectSettles ==
  ASSUME NEW op, NEW a \in Int, NEW seen \in Row,
         NEW row \in Row, NEW book \in Movements, NEW held \in Allocations,
         NEW row2, NEW book2, NEW held2,
         Effect(op, a, seen, row, book, held, row2, book2, held2),
         SettledRow(row, book, held),
         op # "createRoll" => seen = row /\ Exists(row) /\ Accepts(op, row, a)
  PROVE  SettledRow(row2, book2, held2) /\ Exists(row2)
<1>1. /\ row.current \in Int /\ row.reserved \in Int
      /\ held.plus \in Int /\ held.minus \in Int
      /\ "PURCHASE" \in TxType /\ "ADJUSTMENT" \in TxType
      /\ -a \in Int /\ a - row.current \in Int
  BY DEF Row, Allocations, TxType
<1>2. CASE op = "createRoll"
  <2>1. /\ ~Exists(row) /\ held2 = held
        /\ row2.current = a /\ row2.reserved = 0 /\ row2.status = "IN_STOCK"
        /\ book2 = Posted(book, "PURCHASE", a, 0, a)
    BY <1>2 DEF Effect
  <2>2. /\ \A t \in TxType : book.sum[t] = 0
        /\ held.plus = 0 /\ held.minus = 0
    BY <2>1 DEF SettledRow
  <2>3. /\ Balance(book2) = Balance(book) + a
        /\ book2.sum["PURCHASE"] = book.sum["PURCHASE"] + a
    BY <1>1, <2>1, PostedBook
  <2>4. Balance(book) = 0
    BY <2>2 DEF Balance, TxType
  <2>5. QED
    BY <1>1, <2>1, <2>2, <2>3, <2>4 DEF SettledRow, Exists, ClosedStatus
<1>3. CASE op = "cutRoll"
  <2>1. PICK image : image = CutImage(row, a)
    OBVIOUS
  <2>2. /\ image \in Row /\ image.reserved = row.reserved
        /\ image.current = IF row.current - a <= 0 THEN 0 ELSE row.current - a
        /\ image.status = IF row.current - a <= 0 THEN "SOLD" ELSE row.status
    BY <2>1, CutColumns
  <2>3. /\ row2 = Written(row, row, image) /\ held2 = held
        /\ book2 = Posted(book, "SALE_CUT", -a, row.current, image.current)
        /\ Exists(row) /\ a > 0 /\ a <= row.current - row.reserved
    BY <1>3, <2>1 DEF Effect, Merged, Accepts, CanCut, Available
  <2>4. row2 = image
    BY <2>2, <2>3, WrittenColumns
  <2>5. SettledRow(image, book2, held) /\ Exists(image)
    BY <2>2, <2>3, ReducedSettles DEF ClosedStatus
  <2>6. QED
    BY <2>3, <2>4, <2>5
<1>4. CASE op = "markWaste"
  <2>1. PICK image : image = WasteImage(row, a)
    OBVIOUS
  <2>2. /\ image \in Row /\ image.reserved = row.reserved
        /\ image.current = IF row.current - a <= 0 THEN 0 ELSE row.current - a
        /\ image.status = IF row.current - a <= 0 THEN "WASTE" ELSE row.status
    BY <2>1, WasteColumns
  <2>3. /\ row2 = Written(row, row, image) /\ held2 = held
        /\ book2 = Posted(book, "WASTE", -a, row.current, image.current)
        /\ Exists(row) /\ a <= row.current
    BY <1>4, <2>1 DEF Effect, Merged, Accepts, CanWaste
  <2>4. row2 = image
    BY <2>2, <2>3, WrittenColumns
  <2>5. SettledRow(image, book2, held) /\ Exists(image)
    BY <2>2, <2>3, ReducedSettles DEF ClosedStatus
  <2>6. QED
    BY <2>3, <2>4, <2>5
<1>5. CASE op = "adjustStock"
  <2>1. PICK image : image = AdjustImage(row, a)
    OBVIOUS
  <2>2. /\ image \in Row /\ image.reserved = row.reserved /\ image.current = a
        /\ image.status = IF a = 0 THEN "CONSUMED" ELSE "IN_STOCK"
    BY <2>1, AdjustColumns
  <2>3. /\ row2 = Written(row, row, image) /\ held2 = held
        /\ book2 = Posted(book, "ADJUSTMENT", a - row.current, row.current, image.current)
    BY <1>5, <2>1 DEF Effect, Merged
  <2>4. row2 = image
    BY <2>2, <2>3, WrittenColumns
  <2>5. Balance(book) \in Int /\ Balance(book2) = Balance(book) + (a - row.current)
    <3>1. PICK d \in Int : d = a - row.current
      BY <1>1
    <3>2. image.current \in Int
      BY <2>2
    <3>3. /\ Balance(book) \in Int
          /\ Balance(Posted(book, "ADJUSTMENT", d, row.current, image.current)) = Balance(book) + d
      BY <1>1, <3>2, PostedBook
    <3>4. QED
      BY <2>3, <3>1, <3>3
  <2>6. /\ row2.reserved = held2.plus + held2.minus
        /\ Balance(book2) <= row2.current
        /\ held2.minus = 0 => row2.current = Balance(book2)
        /\ held2.minus <= 0 /\ 0 <= held2.plus
    BY <1>1, <2>2, <2>3, <2>4, <2>5 DEF SettledRow
  <2>7. /\ row2.status \in ClosedStatus => row2.current = 0
        /\ ~(row2.status = "IN_STOCK" /\ row2.current = 0)
        /\ Exists(row2)
    BY <2>2, <2>4 DEF Exists, ClosedStatus
  <2>8. QED
    BY <2>6, <2>7, Zenon DEF SettledRow
<1>6. CASE op = "allocateRoll"
  <2>1. PICK image : image = AllocateImage(row, a)
    OBVIOUS
  <2>2. /\ image \in Row /\ image.current = row.current
        /\ image.reserved = row.reserved + a /\ image.status = row.status
    BY <2>1, AllocateColumns
  <2>3. /\ row2 = Written(row, row, image) /\ book2 = book /\ held2 = Reserved(held, a)
        /\ Exists(row)
    BY <1>6, <2>1 DEF Effect
  <2>4. row2 = image
    BY <2>2, <2>3, WrittenColumns
  <2>5. /\ held2.plus = IF a < 0 THEN held.plus ELSE held.plus + a
        /\ held2.minus = IF a < 0 THEN held.minus + a ELSE held.minus
    BY <2>3, ReservedSums
  <2>6. QED
    BY <1>1, <2>2, <2>3, <2>4, <2>5 DEF SettledRow, Exists
<1>7. QED
  BY <1>2, <1>3, <1>4, <1>5, <1>6 DEF Effect

LEMMA SerialSafe == Spec => []SerialInv
<1>1. Init => SerialInv
  BY DEF Init, SerialInv, SettledRow, Balance, Exists, ClosedStatus, TxType, Serial, LoneFlight
<1>2. TypeOK /\ SerialInv /\ [Next]_vars => SerialInv'
  <2> SUFFICES ASSUME TypeOK, SerialInv, [Next]_vars PROVE SerialInv'
    OBVIOUS
  <2>1. ASSUME NEW q \in Requests, NEW op \in Operation, NEW r \in Rolls, NEW a \in Amounts,
               Begin(q, op, r, a)
        PROVE  SerialInv'
    <3> DEFINE new == [id |-> q, op |-> op, roll |-> r, amount |-> a, seen |-> item[r]]
    <3>1. /\ UNCHANGED <<item, ledger, allocated>>
          /\ pending' = pending \cup {new}
          /\ r \in Serial => \A g \in pending : g.roll # r
          /\ Accepts(op, item[r], a)
      BY <2>1 DEF Begin, MayStart, Serial
    <3>2. op # "createRoll" => Exists(item[r])
      BY <3>1 DEF Accepts
    <3>3. ASSUME NEW g \in pending', g.roll \in Serial
          PROVE  /\ \A h \in pending' : h.roll = g.roll => h = g
                 /\ g.op # "createRoll" => /\ g.seen = item[g.roll]
                                           /\ Exists(g.seen) /\ Accepts(g.op, g.seen, g.amount)
      <4>1. CASE g = new
        BY <3>1, <3>2, <3>3, <4>1
      <4>2. CASE g \in pending
        BY <3>1, <3>3, <4>2 DEF SerialInv, LoneFlight
      <4>3. QED
        BY <3>1, <4>1, <4>2
    <3>4. QED
      BY <3>1, <3>3 DEF SerialInv, LoneFlight
  <2>2. ASSUME NEW q \in Requests, NEW op \in Operation, NEW r \in Rolls, NEW a \in Amounts,
               Refuse(q, op, r, a)
        PROVE  SerialInv'
    BY <2>2 DEF Refuse, SerialInv, LoneFlight
  <2>3. ASSUME NEW f \in pending, Flush(f)
        PROVE  SerialInv'
    <3>1. /\ f.roll \in Rolls /\ f.amount \in Int /\ f.seen \in Row
          /\ item[f.roll] \in Row /\ ledger[f.roll] \in Movements
          /\ allocated[f.roll] \in Allocations /\ Serial \subseteq Rolls
      BY AmountsAssumption DEF TypeOK, Flight, Serial
    <3>2. CASE RollBack(f)
      BY <3>2 DEF RollBack, Finish, SerialInv, LoneFlight
    <3>3. CASE ~RollBack(f)
      <4>1. PICK row, book, held :
              /\ Leaves(f, row, book, held)
              /\ Effect(f.op, f.amount, f.seen, item[f.roll], ledger[f.roll],
                        allocated[f.roll], row, book, held)
        BY <2>3, <3>3, FlushEffect
      <4>2. f.roll \in Serial => SettledRow(row, book, held)
        BY <3>1, <4>1, EffectSettles DEF SerialInv, LoneFlight
      <4>3. \A r \in Rolls :
              /\ item'[r] = IF r = f.roll THEN row ELSE item[r]
              /\ ledger'[r] = IF r = f.roll THEN book ELSE ledger[r]
              /\ allocated'[r] = IF r = f.roll THEN held ELSE allocated[r]
        BY <4>1 DEF Leaves, TypeOK
      <4>4. \A r \in Serial : SettledRow(item'[r], ledger'[r], allocated'[r])
        BY <3>1, <4>2, <4>3 DEF SerialInv
      <4>5. ASSUME NEW g \in pending', g.roll \in Serial
            PROVE  /\ \A h \in pending' : h.roll = g.roll => h = g
                   /\ g.op # "createRoll" => /\ g.seen = item'[g.roll]
                                             /\ Exists(g.seen) /\ Accepts(g.op, g.seen, g.amount)
        <5>1. g \in pending /\ g # f /\ pending' \subseteq pending
          BY <4>1 DEF Leaves, Finish
        <5>2. LoneFlight(g) /\ g.roll # f.roll
          BY <4>5, <5>1 DEF SerialInv, LoneFlight
        <5>3. item'[g.roll] = item[g.roll]
          BY <3>1, <4>3, <4>5, <5>2
        <5>4. QED
          BY <4>5, <5>1, <5>2, <5>3 DEF LoneFlight
      <4>6. QED
        BY <4>4, <4>5 DEF SerialInv, LoneFlight
    <3>4. QED
      BY <3>2, <3>3
  <2>4. CASE UNCHANGED vars
    BY <2>4 DEF vars, SerialInv, LoneFlight
  <2>5. QED
    BY <2>1, <2>2, <2>3, <2>4 DEF Next
<1>3. QED
  BY <1>1, <1>2, TypeCorrect, PTL DEF Spec

(* The movements of a roll whose requests do not overlap explain its       *)
(* quantity, up to the cuts that a negative allocation made room for, and  *)
(* its allocations explain its reserved quantity, whatever happens to the  *)
(* other rolls.                                                            *)
THEOREM BooksAgreeHolds == Spec => []BooksAgree
<1>1. SerialInv => BooksAgree
  BY DEF SerialInv, SettledRow, BooksAgree
<1>2. QED
  BY <1>1, SerialSafe, PTL

(* A closed roll whose requests do not overlap is empty unless a negative  *)
(* waste put fabric back, and an empty one that was ever longer is closed. *)
THEOREM StatusFollowsQuantityHolds == Spec => []StatusFollowsQuantity
<1>1. SerialInv => StatusFollowsQuantity
  BY DEF SerialInv, SettledRow, StatusFollowsQuantity
<1>2. QED
  BY <1>1, SerialSafe, PTL

-----------------------------------------------------------------------------
(* The account.                                                            *)

Entered == {r \in Serial : Exists(item[r])}
OnHand == [r \in Serial |-> item[r].current]
Promised == [r \in Serial |-> allocated[r].plus + allocated[r].minus]
Sold == [r \in Serial |-> -ledger[r].sum["SALE_CUT"]]

(* A function that differs from another at one point. *)
LEMMA OneChanged ==
  ASSUME NEW S, NEW F, NEW G, NEW x \in S, NEW v,
         F = [s \in S |-> F[s]], G = [s \in S |-> G[s]],
         \A s \in S : G[s] = IF s = x THEN v ELSE F[s]
  PROVE  G = [F EXCEPT ![x] = v]
  OBVIOUS

(* A flush of a serial roll moves the account of that roll, and of no      *)
(* other.                                                                  *)
LEMMA FlushMoves ==
  ASSUME TypeOK, NEW f \in pending, NEW row, NEW book, NEW held,
         f.roll \in Serial, Leaves(f, row, book, held), Exists(row)
  PROVE  /\ Entered' = Entered \cup {f.roll}
         /\ OnHand' = [OnHand EXCEPT ![f.roll] = row.current]
         /\ Promised' = [Promised EXCEPT ![f.roll] = held.plus + held.minus]
         /\ Sold' = [Sold EXCEPT ![f.roll] = -book.sum["SALE_CUT"]]
         /\ Exists(item[f.roll]) => Entered' = Entered
         /\ row.current = OnHand[f.roll] => OnHand' = OnHand
         /\ held.plus + held.minus = Promised[f.roll] => Promised' = Promised
         /\ book.sum["SALE_CUT"] = ledger[f.roll].sum["SALE_CUT"] => Sold' = Sold
<1>1. f.roll \in Rolls /\ Serial \subseteq Rolls
  BY DEF TypeOK, Flight, Serial
<1>2. \A r \in Serial :
        /\ item'[r] = IF r = f.roll THEN row ELSE item[r]
        /\ ledger'[r] = IF r = f.roll THEN book ELSE ledger[r]
        /\ allocated'[r] = IF r = f.roll THEN held ELSE allocated[r]
  BY <1>1 DEF TypeOK, Leaves
<1>3. Entered' = Entered \cup {f.roll} /\ (Exists(item[f.roll]) => Entered' = Entered)
  BY <1>2 DEF Entered
<1>4. /\ OnHand' = [OnHand EXCEPT ![f.roll] = row.current]
      /\ row.current = OnHand[f.roll] => OnHand' = OnHand
  <2>1. \A r \in Serial : OnHand'[r] = IF r = f.roll THEN row.current ELSE OnHand[r]
    BY <1>2 DEF OnHand
  <2>2. OnHand = [r \in Serial |-> OnHand[r]] /\ OnHand' = [r \in Serial |-> OnHand'[r]]
    BY DEF OnHand
  <2>3. OnHand' = [OnHand EXCEPT ![f.roll] = row.current]
    BY <2>1, <2>2, OneChanged
  <2>4. QED
    BY <2>1, <2>2, <2>3
<1>5. /\ Promised' = [Promised EXCEPT ![f.roll] = held.plus + held.minus]
      /\ held.plus + held.minus = Promised[f.roll] => Promised' = Promised
  <2>1. \A r \in Serial :
          Promised'[r] = IF r = f.roll THEN held.plus + held.minus ELSE Promised[r]
    BY <1>2 DEF Promised
  <2>2. Promised = [r \in Serial |-> Promised[r]] /\ Promised' = [r \in Serial |-> Promised'[r]]
    BY DEF Promised
  <2>3. Promised' = [Promised EXCEPT ![f.roll] = held.plus + held.minus]
    BY <2>1, <2>2, OneChanged
  <2>4. QED
    BY <2>1, <2>2, <2>3
<1>6. /\ Sold' = [Sold EXCEPT ![f.roll] = -book.sum["SALE_CUT"]]
      /\ book.sum["SALE_CUT"] = ledger[f.roll].sum["SALE_CUT"] => Sold' = Sold
  <2>1. \A r \in Serial :
          Sold'[r] = IF r = f.roll THEN -book.sum["SALE_CUT"] ELSE Sold[r]
    BY <1>2 DEF Sold
  <2>2. Sold = [r \in Serial |-> Sold[r]] /\ Sold' = [r \in Serial |-> Sold'[r]]
    BY DEF Sold
  <2>3. Sold' = [Sold EXCEPT ![f.roll] = -book.sum["SALE_CUT"]]
    BY <2>1, <2>2, OneChanged
  <2>4. QED
    BY <1>2, <2>2, <2>3 DEF Sold
<1>7. QED
  BY <1>3, <1>4, <1>5, <1>6

(* A step that moves nothing of the account. *)
LEMMA AccountRests ==
  ASSUME UNCHANGED <<item, ledger, allocated>>
  PROVE  UNCHANGED <<Entered, OnHand, Promised, Sold>>
  BY DEF Entered, OnHand, Promised, Sold

LEMMA FlushRests ==
  ASSUME TypeOK, NEW f \in pending, NEW row, NEW book, NEW held,
         f.roll \notin Serial, Leaves(f, row, book, held)
  PROVE  UNCHANGED <<Entered, OnHand, Promised, Sold>>
<1>1. f.roll \in Rolls /\ Serial \subseteq Rolls
  BY DEF TypeOK, Flight, Serial
<1>2. \A r \in Serial : item'[r] = item[r] /\ ledger'[r] = ledger[r] /\ allocated'[r] = allocated[r]
  BY <1>1 DEF Leaves, TypeOK
<1>3. QED
  BY <1>2 DEF Entered, OnHand, Promised, Sold

(* What each operation does to a settled roll is what the operation of the *)
(* account of the same meaning does.                                       *)
LEMMA EffectAccounts ==
  ASSUME NEW op, NEW a \in Int, NEW seen \in Row,
         NEW row \in Row, NEW book \in Movements, NEW held \in Allocations,
         NEW row2, NEW book2, NEW held2,
         Effect(op, a, seen, row, book, held, row2, book2, held2),
         SettledRow(row, book, held),
         op # "createRoll" => seen = row /\ Exists(row) /\ Accepts(op, row, a)
  PROVE  \/ /\ op = "createRoll" /\ ~Exists(row)
            /\ row2.current = a /\ held2 = held
            /\ book2.sum["SALE_CUT"] = book.sum["SALE_CUT"]
         \/ /\ op = "cutRoll" /\ Exists(row) /\ a > 0
            /\ a <= row.current - (held.plus + held.minus)
            /\ row2.current = IF a < row.current THEN row.current - a ELSE 0
            /\ held2 = held
            /\ -book2.sum["SALE_CUT"] = -book.sum["SALE_CUT"] + a
         \/ /\ op = "markWaste" /\ Exists(row) /\ a <= row.current
            /\ row2.current = row.current - a /\ held2 = held
            /\ book2.sum["SALE_CUT"] = book.sum["SALE_CUT"]
         \/ /\ op = "adjustStock" /\ Exists(row) /\ a >= 0
            /\ row2.current = a /\ held2 = held
            /\ book2.sum["SALE_CUT"] = book.sum["SALE_CUT"]
         \/ /\ op = "allocateRoll" /\ Exists(row)
            /\ a <= row.current - (held.plus + held.minus)
            /\ held2.plus + held2.minus = held.plus + held.minus + a
            /\ row2.current = row.current
            /\ book2.sum["SALE_CUT"] = book.sum["SALE_CUT"]
<1>1. /\ row.current \in Int /\ row.reserved \in Int
      /\ held.plus \in Int /\ held.minus \in Int
      /\ -a \in Int /\ a - row.current \in Int
      /\ row.reserved = held.plus + held.minus
  BY DEF Row, Allocations, SettledRow
<1>2. /\ book.sum["SALE_CUT"] \in Int
      /\ \A type \in TxType, change, previous, new \in Int :
           Posted(book, type, change, previous, new).sum["SALE_CUT"] =
             IF type = "SALE_CUT" THEN book.sum["SALE_CUT"] + change ELSE book.sum["SALE_CUT"]
  BY DEF Posted, Movements, TxType
<1>3. /\ "PURCHASE" \in TxType /\ "SALE_CUT" \in TxType
      /\ "WASTE" \in TxType /\ "ADJUSTMENT" \in TxType
  BY DEF TxType
<1>4. CASE op = "createRoll"
  BY <1>1, <1>2, <1>3, <1>4 DEF Effect
<1>5. CASE op = "cutRoll"
  <2>1. PICK image : image = CutImage(row, a)
    OBVIOUS
  <2>2. /\ image \in Row /\ image.current \in Int
        /\ image.current = IF row.current - a <= 0 THEN 0 ELSE row.current - a
    <3>1. /\ image \in Row
          /\ image.current = IF row.current - a <= 0 THEN 0 ELSE row.current - a
      BY <2>1, CutColumns
    <3>2. QED
      BY <1>1, <3>1
  <2>3. /\ row2 = Written(row, row, image) /\ held2 = held
        /\ book2 = Posted(book, "SALE_CUT", -a, row.current, image.current)
        /\ Exists(row) /\ a > 0 /\ a <= row.current - row.reserved
    BY <1>5, <2>1 DEF Effect, Merged, Accepts, CanCut, Available
  <2>4. row2 = image
    BY <2>2, <2>3, WrittenColumns
  <2>5. book2.sum["SALE_CUT"] = book.sum["SALE_CUT"] + (-a)
    BY <1>1, <1>2, <1>3, <2>2, <2>3
  <2>6. QED
    BY <1>1, <1>2, <1>5, <2>2, <2>3, <2>4, <2>5
<1>6. CASE op = "markWaste"
  <2>1. PICK image : image = WasteImage(row, a)
    OBVIOUS
  <2>2. /\ image \in Row /\ image.current \in Int
        /\ image.current = IF row.current - a <= 0 THEN 0 ELSE row.current - a
    <3>1. /\ image \in Row
          /\ image.current = IF row.current - a <= 0 THEN 0 ELSE row.current - a
      BY <2>1, WasteColumns
    <3>2. QED
      BY <1>1, <3>1
  <2>3. /\ row2 = Written(row, row, image) /\ held2 = held
        /\ book2 = Posted(book, "WASTE", -a, row.current, image.current)
        /\ Exists(row) /\ a <= row.current
    BY <1>6, <2>1 DEF Effect, Merged, Accepts, CanWaste
  <2>4. row2 = image
    BY <2>2, <2>3, WrittenColumns
  <2>5. book2.sum["SALE_CUT"] = book.sum["SALE_CUT"]
    BY <1>1, <1>2, <1>3, <2>2, <2>3
  <2>6. QED
    BY <1>1, <1>6, <2>2, <2>3, <2>4, <2>5
<1>7. CASE op = "adjustStock"
  <2>1. PICK image : image = AdjustImage(row, a)
    OBVIOUS
  <2>2. /\ image \in Row /\ image.current = a
    BY <1>1, <2>1, AdjustColumns
  <2>3. /\ row2 = Written(row, row, image) /\ held2 = held
        /\ book2 = Posted(book, "ADJUSTMENT", a - row.current, row.current, image.current)
        /\ Exists(row) /\ a >= 0
    BY <1>7, <2>1 DEF Effect, Merged, Accepts, CanAdjust
  <2>4. row2 = image
    BY <2>2, <2>3, WrittenColumns
  <2>5. book2.sum["SALE_CUT"] = book.sum["SALE_CUT"]
    BY <1>1, <1>2, <1>3, <2>2, <2>3
  <2>6. QED
    BY <1>7, <2>2, <2>3, <2>4, <2>5
<1>8. CASE op = "allocateRoll"
  <2>1. PICK image : image = AllocateImage(row, a)
    OBVIOUS
  <2>2. /\ image \in Row /\ image.current = row.current
    BY <1>1, <2>1, AllocateColumns
  <2>3. /\ row2 = Written(row, row, image) /\ book2 = book /\ held2 = Reserved(held, a)
        /\ Exists(row) /\ a <= row.current - row.reserved
    BY <1>8, <2>1 DEF Effect, Accepts, CanAllocate, Available
  <2>4. row2 = image
    BY <2>2, <2>3, WrittenColumns
  <2>5. held2.plus + held2.minus = held.plus + held.minus + a
    <3>1. /\ held2.plus = IF a < 0 THEN held.plus ELSE held.plus + a
          /\ held2.minus = IF a < 0 THEN held.minus + a ELSE held.minus
      BY <2>3, ReservedSums
    <3>2. QED
      BY <1>1, <3>1
  <2>6. QED
    BY <1>1, <1>8, <2>2, <2>3, <2>4, <2>5
<1>9. QED
  BY <1>4, <1>5, <1>6, <1>7, <1>8 DEF Effect

(* The tables of the rolls whose requests do not overlap behave like the   *)
(* atomic account of StockAccount: a cut and an allocation take only what  *)
(* is available when they take effect.                                     *)
THEOREM AccountImplemented == Spec => ImplementsAccount
<1> DEFINE account == <<Entered, OnHand, Promised, Sold>>
<1>1. Init => Account!AInit
  <2> SUFFICES ASSUME Init PROVE Account!AInit
    OBVIOUS
  <2>1. \A r \in Serial :
          /\ ~Exists(item[r]) /\ item[r].current = 0
          /\ allocated[r].plus + allocated[r].minus = 0
          /\ -ledger[r].sum["SALE_CUT"] = 0
    <3>1. \A r \in Serial :
            /\ item[r] = [current |-> 0, reserved |-> 0, status |-> "ABSENT"]
            /\ allocated[r] = [plus |-> 0, minus |-> 0]
            /\ ledger[r].sum = [t \in TxType |-> 0]
      BY DEF Init, Serial
    <3>2. \A r \in Serial : ledger[r].sum["SALE_CUT"] = 0
      BY <3>1 DEF TxType
    <3>3. QED
      BY <3>1, <3>2 DEF Exists
  <2>2. Entered = {}
    BY <2>1 DEF Entered
  <2>3. OnHand = [r \in Serial |-> 0]
    BY <2>1 DEF OnHand
  <2>4. Promised = [r \in Serial |-> 0]
    BY <2>1 DEF Promised
  <2>5. Sold = [r \in Serial |-> 0]
    BY <2>1 DEF Sold
  <2>6. QED
    BY <2>2, <2>3, <2>4, <2>5 DEF Account!AInit, Entered, OnHand, Promised, Sold
<1>2. TypeOK /\ SerialInv /\ [Next]_vars => [Account!ANext]_account
  <2> SUFFICES ASSUME TypeOK, SerialInv, [Next]_vars
               PROVE  [Account!ANext]_account
    OBVIOUS
  <2>1. ASSUME NEW f \in pending, Flush(f)
        PROVE  [Account!ANext]_account
    <3>1. PICK roll, a : roll = f.roll /\ a = f.amount
      OBVIOUS
    <3>2. /\ roll \in Rolls /\ a \in Amounts /\ a \in Int /\ f.seen \in Row
          /\ item[roll] \in Row /\ ledger[roll] \in Movements
          /\ allocated[roll] \in Allocations
      BY <3>1, AmountsAssumption DEF TypeOK, Flight
    <3>3. CASE RollBack(f)
      BY <3>3, AccountRests DEF RollBack
    <3>4. CASE ~RollBack(f)
      <4>1. PICK row, book, held :
              /\ Leaves(f, row, book, held)
              /\ Effect(f.op, a, f.seen, item[roll], ledger[roll], allocated[roll],
                        row, book, held)
        BY <2>1, <3>1, <3>4, FlushEffect
      <4>2. CASE roll \notin Serial
        BY <3>1, <4>1, <4>2, FlushRests
      <4>3. CASE roll \in Serial
        <5>1. /\ SettledRow(item[roll], ledger[roll], allocated[roll])
              /\ f.op # "createRoll" =>
                   f.seen = item[roll] /\ Exists(item[roll]) /\ Accepts(f.op, item[roll], a)
          BY <3>1, <4>3 DEF SerialInv, LoneFlight
        <5>2. Exists(row)
          BY <3>2, <4>1, <5>1, EffectSettles
        <5>3. /\ OnHand[roll] = item[roll].current
              /\ Promised[roll] = allocated[roll].plus + allocated[roll].minus
              /\ Sold[roll] = -ledger[roll].sum["SALE_CUT"]
              /\ roll \in Entered <=> Exists(item[roll])
          BY <4>3 DEF OnHand, Promised, Sold, Entered
        <5>4. /\ Entered' = Entered \cup {roll}
              /\ OnHand' = [OnHand EXCEPT ![roll] = row.current]
              /\ Promised' = [Promised EXCEPT ![roll] = held.plus + held.minus]
              /\ Sold' = [Sold EXCEPT ![roll] = -book.sum["SALE_CUT"]]
              /\ Exists(item[roll]) => Entered' = Entered
              /\ row.current = OnHand[roll] => OnHand' = OnHand
              /\ held.plus + held.minus = Promised[roll] => Promised' = Promised
              /\ book.sum["SALE_CUT"] = ledger[roll].sum["SALE_CUT"] => Sold' = Sold
          BY <3>1, <4>1, <4>3, <5>2, FlushMoves
        <5>5. \/ Account!Receive(roll, a) \/ Account!Sell(roll, a) \/ Account!Scrap(roll, a)
              \/ Account!Recount(roll, a) \/ Account!Promise(roll, a)
          <6>1. CASE f.op = "createRoll"
            <7>1. /\ ~Exists(item[roll]) /\ row.current = a /\ held = allocated[roll]
                  /\ book.sum["SALE_CUT"] = ledger[roll].sum["SALE_CUT"]
              BY <3>2, <4>1, <5>1, <6>1, EffectAccounts
            <7>2. QED
              BY <5>3, <5>4, <7>1 DEF Account!Receive, Entered, OnHand, Promised, Sold
          <6>2. CASE f.op = "cutRoll"
            <7>1. /\ Exists(item[roll]) /\ a > 0
                  /\ a <= OnHand[roll] - Promised[roll]
                  /\ row.current = IF a < OnHand[roll] THEN OnHand[roll] - a ELSE 0
                  /\ held = allocated[roll]
                  /\ -book.sum["SALE_CUT"] = Sold[roll] + a
              BY <3>2, <4>1, <5>1, <5>3, <6>2, EffectAccounts
            <7>2. /\ roll \in Entered /\ Entered' = Entered /\ Promised' = Promised
                  /\ OnHand' = [OnHand EXCEPT ![roll] = IF a < @ THEN @ - a ELSE 0]
                  /\ Sold' = [Sold EXCEPT ![roll] = @ + a]
              BY <5>3, <5>4, <7>1
            <7>3. QED
              BY <7>1, <7>2 DEF Account!Sell, Account!Available, Entered, OnHand, Promised, Sold
          <6>3. CASE f.op = "markWaste"
            <7>1. /\ Exists(item[roll]) /\ a <= OnHand[roll] /\ row.current = OnHand[roll] - a
                  /\ held = allocated[roll]
                  /\ book.sum["SALE_CUT"] = ledger[roll].sum["SALE_CUT"]
              BY <3>2, <4>1, <5>1, <5>3, <6>3, EffectAccounts
            <7>2. /\ roll \in Entered /\ Entered' = Entered /\ Promised' = Promised
                  /\ OnHand' = [OnHand EXCEPT ![roll] = @ - a] /\ Sold' = Sold
              BY <5>3, <5>4, <7>1
            <7>3. QED
              BY <7>1, <7>2 DEF Account!Scrap, Entered, OnHand, Promised, Sold
          <6>4. CASE f.op = "adjustStock"
            <7>1. /\ Exists(item[roll]) /\ a >= 0 /\ row.current = a
                  /\ held = allocated[roll]
                  /\ book.sum["SALE_CUT"] = ledger[roll].sum["SALE_CUT"]
              BY <3>2, <4>1, <5>1, <5>3, <6>4, EffectAccounts
            <7>2. /\ roll \in Entered /\ Entered' = Entered /\ Promised' = Promised
                  /\ OnHand' = [OnHand EXCEPT ![roll] = a] /\ Sold' = Sold
              BY <5>3, <5>4, <7>1
            <7>3. QED
              BY <7>1, <7>2 DEF Account!Recount, Entered, OnHand, Promised, Sold
          <6>5. CASE f.op = "allocateRoll"
            <7>1. /\ Exists(item[roll]) /\ a <= OnHand[roll] - Promised[roll]
                  /\ held.plus + held.minus = Promised[roll] + a
                  /\ row.current = OnHand[roll]
                  /\ book.sum["SALE_CUT"] = ledger[roll].sum["SALE_CUT"]
              BY <3>2, <4>1, <5>1, <5>3, <6>5, EffectAccounts
            <7>2. /\ roll \in Entered /\ Entered' = Entered /\ OnHand' = OnHand
                  /\ Promised' = [Promised EXCEPT ![roll] = @ + a] /\ Sold' = Sold
              BY <5>3, <5>4, <7>1
            <7>3. QED
              BY <7>1, <7>2 DEF Account!Promise, Account!Available, Entered, OnHand, Promised, Sold
          <6>6. QED
            BY <4>1, <6>1, <6>2, <6>3, <6>4, <6>5 DEF Effect
        <5>6. QED
          BY <3>2, <4>3, <5>5 DEF Account!ANext
      <4>4. QED
        BY <4>2, <4>3
    <3>5. QED
      BY <3>3, <3>4
  <2>2. ASSUME NEW q \in Requests, NEW op \in Operation, NEW r \in Rolls, NEW a \in Amounts,
               Begin(q, op, r, a) \/ Refuse(q, op, r, a)
        PROVE  [Account!ANext]_account
    BY <2>2, AccountRests DEF Begin, Refuse
  <2>3. CASE UNCHANGED vars
    BY <2>3, AccountRests DEF vars
  <2>4. QED
    BY <2>1, <2>2, <2>3 DEF Next
<1>3. [Account!ANext]_account <=> [Account!ANext]_(Account!avars)
  BY DEF Account!avars, Entered, OnHand, Promised, Sold
<1>4. QED
  BY <1>1, <1>2, <1>3, TypeCorrect, SerialSafe, PTL
  DEF Spec, ImplementsAccount, Account!ASpec

-----------------------------------------------------------------------------
(* The receipts that the rolls come with: theorems about GoodsReceive, for *)
(* every set of receipts, barcodes and bodies.                             *)

(* What is known of a body. *)
LEMMA BodyFacts ==
  ASSUME ReceiveTypeOK, NEW g \in Receipts
  PROVE  /\ ListedRolls(g) \in Seq([line : 1..body[g].lines, code : Barcodes])
         /\ DOMAIN ListedRolls(g) = 1..Len(ListedRolls(g)) /\ Len(ListedRolls(g)) \in Nat
         /\ body[g].lines \in Nat /\ flushed[g] \in Nat /\ flushed[g] <= Len(ListedRolls(g))
         /\ \A k \in 1..Len(ListedRolls(g)) :
              LineOf(g, k) \in 1..body[g].lines /\ CodeOf(g, k) \in Barcodes
         /\ \A j, k \in 1..Len(ListedRolls(g)) : j <= k => LineOf(g, j) <= LineOf(g, k)
<1>1. body[g] \in Bodies
  BY DEF ReceiveTypeOK
<1>2. /\ ListedRolls(g) \in Seq([line : 1..body[g].lines, code : Barcodes])
      /\ body[g].lines \in Nat
      /\ \A j, k \in DOMAIN ListedRolls(g) : j <= k => LineOf(g, j) <= LineOf(g, k)
  BY <1>1, BodiesAssumption DEF ListedRolls, LineOf
<1>3. DOMAIN ListedRolls(g) = 1..Len(ListedRolls(g)) /\ Len(ListedRolls(g)) \in Nat
  BY <1>2
<1>4. \A k \in 1..Len(ListedRolls(g)) :
        LineOf(g, k) \in 1..body[g].lines /\ CodeOf(g, k) \in Barcodes
  <2> DEFINE Entry == [line : 1..body[g].lines, code : Barcodes]
             s == ListedRolls(g)
  <2>1. s \in Seq(Entry)
    BY <1>2
  <2> TAKE k \in 1..Len(s)
  <2>2. s[k] \in Entry
    <3> HIDE DEF Entry, s
    <3>1. QED
      BY <2>1
  <2>3. QED
    BY <2>2 DEF LineOf, CodeOf
<1>5. flushed[g] \in Nat /\ flushed[g] <= Len(ListedRolls(g))
  BY DEF ReceiveTypeOK
<1>6. \A j, k \in 1..Len(ListedRolls(g)) : j <= k => LineOf(g, j) <= LineOf(g, k)
  BY <1>2, <1>3
<1>7. QED
  BY <1>2, <1>3, <1>4, <1>5, <1>6

(* What is known of the roll that is about to be stored. *)
LEMMA UpcomingFacts ==
  ASSUME ReceiveTypeOK, NEW g \in Receipts, More(g)
  PROVE  /\ Upcoming(g) = flushed[g] + 1
         /\ Upcoming(g) \in 1..Len(ListedRolls(g)) /\ Upcoming(g) \in Nat
         /\ CodeOf(g, Upcoming(g)) \in Barcodes /\ LineOf(g, Upcoming(g)) \in Nat
<1>1. flushed[g] \in Nat /\ Len(ListedRolls(g)) \in Nat /\ body[g].lines \in Nat
  BY BodyFacts
<1>2. /\ Upcoming(g) = flushed[g] + 1
      /\ Upcoming(g) \in 1..Len(ListedRolls(g)) /\ Upcoming(g) \in Nat
  BY <1>1 DEF More, Upcoming
<1>3. CodeOf(g, Upcoming(g)) \in Barcodes /\ LineOf(g, Upcoming(g)) \in 1..body[g].lines
  BY <1>2, BodyFacts
<1>4. QED
  BY <1>1, <1>2, <1>3

(* The tables and the requests keep their shape, and no request commits    *)
(* more rolls than its body lists.                                         *)
THEOREM ReceiptsTypeCorrect == ReceiveSpec => []ReceiveTypeOK
<1>1. ReceiveInit => ReceiveTypeOK
  <2> SUFFICES ASSUME ReceiveInit PROVE ReceiveTypeOK
    OBVIOUS
  <2>1. ASSUME NEW g \in Receipts PROVE flushed[g] <= Len(ListedRolls(g))
    BY BodiesAssumption DEF ReceiveInit, ListedRolls
  <2>2. QED
    BY <2>1 DEF ReceiveInit, ReceiveTypeOK, RequestState
<1>2. ReceiveTypeOK /\ [ReceiveNext]_receiveVars => ReceiveTypeOK'
  <2> SUFFICES ASSUME ReceiveTypeOK, [ReceiveNext]_receiveVars PROVE ReceiveTypeOK'
    OBVIOUS
  <2>1. ASSUME NEW g \in Receipts, Open(g) \/ Reject(g) \/ Break(g)
        PROVE  ReceiveTypeOK'
    BY <2>1 DEF Open, Reject, Break, End, ReceiveTypeOK, RequestState, tables, ListedRolls
  <2>2. ASSUME NEW g \in Receipts, ReceiveRoll(g)
        PROVE  ReceiveTypeOK'
    <3>1. /\ Upcoming(g) \in 1..Len(ListedRolls(g)) /\ Upcoming(g) \in Nat
          /\ CodeOf(g, Upcoming(g)) \in Barcodes
      BY <2>2, UpcomingFacts DEF ReceiveRoll
    <3>2. LineRows(g, LineOf(g, Upcoming(g)) - 1) \subseteq Receipts \X Nat
      BY <3>1, BodyFacts DEF LineRows
    <3>3. flushed' \in [Receipts -> Nat]
      BY <2>2, <3>1 DEF ReceiveRoll, ReceiveTypeOK
    <3>4. \A h \in Receipts : flushed'[h] <= Len(ListedRolls(h)')
      BY <2>2, <3>1, <3>3, BodyFacts DEF ReceiveRoll, ReceiveTypeOK, ListedRolls
    <3>5. QED
      BY <2>2, <3>1, <3>2, <3>3, <3>4 DEF ReceiveRoll, ReceiveTypeOK
  <2>3. ASSUME NEW g \in Receipts, Complete(g)
        PROVE  ReceiveTypeOK'
    <3>1. LineRows(g, body[g].lines) \subseteq Receipts \X Nat
      BY BodyFacts DEF LineRows
    <3>2. QED
      BY <2>3, <3>1 DEF Complete, End, ReceiveTypeOK, RequestState, ListedRolls
  <2>4. ASSUME NEW b \in Barcodes, CreateSingleRoll(b)
        PROVE  ReceiveTypeOK'
    BY <2>4 DEF CreateSingleRoll, ReceiveTypeOK, ListedRolls
  <2>5. CASE UNCHANGED receiveVars
    BY <2>5 DEF receiveVars, ReceiveTypeOK, ListedRolls
  <2>6. QED
    BY <2>1, <2>2, <2>3, <2>4, <2>5 DEF ReceiveNext, Step
<1>3. QED
  BY <1>1, <1>2, PTL DEF ReceiveSpec

-----------------------------------------------------------------------------
(* The parts of ReceiveInv, for the one step that stores a roll.           *)

LEMMA RollStored ==
  ASSUME ReceiveTypeOK, ReceiveInv, NEW g \in Receipts, ReceiveRoll(g)
  PROVE  ReceiveInv'
<1> DEFINE n == Upcoming(g)
<1>1. /\ n = flushed[g] + 1 /\ n \in 1..Len(ListedRolls(g)) /\ CodeOf(g, n) \in Barcodes
      /\ owner[CodeOf(g, n)] = Nobody /\ LineOf(g, n) \in Nat
  BY UpcomingFacts DEF ReceiveRoll, Taken
<1>2. /\ \A h, k : CodeOf(h, k)' = CodeOf(h, k) /\ LineOf(h, k)' = LineOf(h, k)
      /\ \A h : ListedRolls(h)' = ListedRolls(h)
      /\ \A h, m : LineRows(h, m)' = LineRows(h, m)
      /\ body' = body /\ request' = request
  BY DEF ReceiveRoll, CodeOf, LineOf, ListedRolls, LineRows
<1>3. /\ owner' = [owner EXCEPT ![CodeOf(g, n)] = g]
      /\ fiches' = fiches \cup {g}
      /\ lines' = lines \cup LineRows(g, LineOf(g, n) - 1)
      /\ flushed' = [flushed EXCEPT ![g] = n]
  BY DEF ReceiveRoll
<1>4. FlushedIsStored'
  <2> SUFFICES ASSUME NEW h \in Receipts, NEW k \in 1..flushed'[h]
               PROVE  /\ owner'[CodeOf(h, k)] = h /\ h \in fiches'
                      /\ \A j \in 1..flushed'[h] : CodeOf(h, j) = CodeOf(h, k) => j = k
    BY <1>2 DEF FlushedIsStored
  <2>1. \A i \in 1..flushed[h] :
          /\ i \in 1..Len(ListedRolls(h)) /\ CodeOf(h, i) \in Barcodes
          /\ owner[CodeOf(h, i)] = h /\ h \in fiches /\ CodeOf(h, i) # CodeOf(g, n)
          /\ \A j \in 1..flushed[h] : CodeOf(h, j) = CodeOf(h, i) => j = i
    <3>1. /\ 1..flushed[h] \subseteq 1..Len(ListedRolls(h))
          /\ \A i \in 1..Len(ListedRolls(h)) : CodeOf(h, i) \in Barcodes
      <4>1. flushed[h] \in Nat /\ Len(ListedRolls(h)) \in Nat /\ flushed[h] <= Len(ListedRolls(h))
        BY BodyFacts
      <4>2. \A i \in 1..Len(ListedRolls(h)) : CodeOf(h, i) \in Barcodes
        BY BodyFacts
      <4>3. QED
        BY <4>1, <4>2
    <3>2. h # Nobody
      BY ReceiptsAssumption
    <3>3. QED
      BY <1>1, <3>1, <3>2 DEF ReceiveInv, FlushedIsStored
  <2>2. CASE h # g
    <3>1. flushed'[h] = flushed[h]
      BY <1>3, <2>2 DEF ReceiveTypeOK
    <3>2. QED
      BY <1>1, <1>3, <2>1, <3>1 DEF ReceiveTypeOK
  <2>3. CASE h = g
    <3>1. flushed'[h] = flushed[h] + 1 /\ flushed[h] \in Nat
      BY <1>1, <1>3, <2>3 DEF ReceiveTypeOK
    <3>2. ASSUME NEW j \in 1..flushed'[h] PROVE j = n \/ j \in 1..flushed[h]
      BY <1>1, <2>3, <3>1
    <3>3. owner'[CodeOf(h, k)] = h /\ h \in fiches'
      BY <1>1, <1>3, <2>1, <2>3, <3>2 DEF ReceiveTypeOK
    <3>4. ASSUME NEW j \in 1..flushed'[h], CodeOf(h, j) = CodeOf(h, k)
          PROVE  j = k
      BY <2>1, <2>3, <3>2, <3>4
    <3>5. QED
      BY <3>3, <3>4
  <2>4. QED
    BY <2>2, <2>3
<1>5. LinesArePassed'
  <2> SUFFICES ASSUME NEW l \in lines'
               PROVE  /\ l[1] \in fiches'
                      /\ \A k \in DOMAIN ListedRolls(l[1]) :
                           LineOf(l[1], k) = l[2] => k <= flushed'[l[1]]
    BY <1>2 DEF LinesArePassed
  <2>1. CASE l \in lines
    <3>1. l[1] \in Receipts
      BY <2>1 DEF ReceiveTypeOK
    <3>2. /\ l[1] \in fiches
          /\ \A k \in DOMAIN ListedRolls(l[1]) : LineOf(l[1], k) = l[2] => k <= flushed[l[1]]
      BY <2>1 DEF ReceiveInv, LinesArePassed
    <3>3. flushed[l[1]] \in Nat /\ flushed'[l[1]] \in Nat /\ flushed[l[1]] <= flushed'[l[1]]
      BY <1>1, <1>3, <3>1 DEF ReceiveTypeOK
    <3>4. DOMAIN ListedRolls(l[1]) \subseteq Nat
      BY <3>1, BodyFacts
    <3>5. QED
      BY <1>3, <3>2, <3>3, <3>4
  <2>2. CASE l \in LineRows(g, LineOf(g, n) - 1)
    <3>1. l[1] = g /\ l[2] \in 1..(LineOf(g, n) - 1)
      BY <2>2 DEF LineRows
    <3>2. flushed'[g] = n
      BY <1>3 DEF ReceiveTypeOK
    <3>3. ASSUME NEW k \in DOMAIN ListedRolls(g), LineOf(g, k) = l[2]
          PROVE  k <= n
      <4>1. k \in 1..Len(ListedRolls(g)) /\ (n <= k => LineOf(g, n) <= LineOf(g, k))
        BY <1>1, BodyFacts
      <4>2. QED
        BY <1>1, <3>1, <3>3, <4>1
    <3>4. QED
      BY <1>3, <3>1, <3>2, <3>3
  <2>3. QED
    BY <1>3, <2>1, <2>2
<1>6. CreatedIsFlushed'
  <2> SUFFICES ASSUME NEW h \in Receipts, request[h] = "created"
               PROVE  /\ flushed'[h] = Len(ListedRolls(h)) /\ h \in fiches'
                      /\ LineRows(h, body[h].lines) \subseteq lines'
    BY <1>2 DEF CreatedIsFlushed
  <2>1. h # g
    BY DEF ReceiveRoll, More
  <2>2. QED
    BY <1>3, <2>1 DEF ReceiveInv, CreatedIsFlushed, ReceiveTypeOK
<1>7. RollsHaveTheirReceipt'
  BY <1>1, <1>3 DEF ReceiveInv, RollsHaveTheirReceipt, ReceiveTypeOK
<1>8. QED
  BY <1>4, <1>5, <1>6, <1>7 DEF ReceiveInv
(* However requests interleave and break off, ReceiveInv holds.            *)
LEMMA ReceiveSafe == ReceiveSpec => []ReceiveInv
<1>1. ReceiveInit => ReceiveInv
  BY ReceiptsAssumption DEF ReceiveInit, ReceiveInv, FlushedIsStored, LinesArePassed,
         CreatedIsFlushed, RollsHaveTheirReceipt
<1>2. ReceiveTypeOK /\ ReceiveInv /\ [ReceiveNext]_receiveVars => ReceiveInv'
  <2> SUFFICES ASSUME ReceiveTypeOK, ReceiveInv, [ReceiveNext]_receiveVars PROVE ReceiveInv'
    OBVIOUS
  <2> USE DEF ReceiveInv
  <2>1. ASSUME NEW g \in Receipts, Open(g) \/ Reject(g) \/ Break(g)
        PROVE  ReceiveInv'
    <3>1. /\ UNCHANGED <<body, flushed, fiches, lines, owner>>
          /\ \A h \in Receipts : request'[h] = "created" => request[h] = "created"
      BY <2>1 DEF Open, Reject, Break, End, tables, ReceiveTypeOK
    <3>2. FlushedIsStored' /\ LinesArePassed' /\ RollsHaveTheirReceipt'
      BY <3>1 DEF FlushedIsStored, LinesArePassed, RollsHaveTheirReceipt,
                  CodeOf, LineOf, ListedRolls
    <3>3. CreatedIsFlushed'
      BY <3>1 DEF CreatedIsFlushed, LineRows, ListedRolls
    <3>4. QED
      BY <3>2, <3>3
  <2>2. ASSUME NEW g \in Receipts, ReceiveRoll(g)
        PROVE  ReceiveInv'
    BY <2>2, RollStored
  <2>3. ASSUME NEW g \in Receipts, Complete(g)
        PROVE  ReceiveInv'
    <3>1. /\ UNCHANGED <<body, flushed, owner>>
          /\ fiches' = fiches \cup {g}
          /\ lines' = lines \cup LineRows(g, body[g].lines)
          /\ \A h \in Receipts : h # g => request'[h] = request[h]
      BY <2>3 DEF Complete, End, ReceiveTypeOK
    <3>2. flushed[g] = Len(ListedRolls(g))
      <4>1. flushed[g] \in Nat /\ Len(ListedRolls(g)) \in Nat /\ flushed[g] <= Len(ListedRolls(g))
        BY BodyFacts
      <4>2. QED
        BY <2>3, <4>1 DEF Complete, Upcoming
    <3>3. FlushedIsStored' /\ RollsHaveTheirReceipt'
      BY <3>1 DEF FlushedIsStored, RollsHaveTheirReceipt, CodeOf, ListedRolls
    <3>4. LinesArePassed'
      <4> SUFFICES ASSUME NEW l \in lines'
                   PROVE  /\ l[1] \in fiches'
                          /\ \A k \in DOMAIN ListedRolls(l[1]) :
                               LineOf(l[1], k) = l[2] => k <= flushed[l[1]]
        BY <3>1 DEF LinesArePassed, LineOf, ListedRolls
      <4>1. CASE l \in lines
        BY <3>1, <4>1 DEF LinesArePassed
      <4>2. CASE l \in LineRows(g, body[g].lines)
        BY <3>1, <3>2, <4>2, BodyFacts DEF LineRows
      <4>3. QED
        BY <3>1, <4>1, <4>2
    <3>5. CreatedIsFlushed'
      BY <3>1, <3>2 DEF CreatedIsFlushed, LineRows, ListedRolls
    <3>6. QED
      BY <3>3, <3>4, <3>5
  <2>4. ASSUME NEW b \in Barcodes, CreateSingleRoll(b)
        PROVE  ReceiveInv'
    <3>1. /\ UNCHANGED <<body, request, flushed, fiches, lines>>
          /\ owner[b] = Nobody /\ owner' = [owner EXCEPT ![b] = Direct]
          /\ Direct \notin Receipts /\ Nobody \notin Receipts
      BY <2>4, ReceiptsAssumption DEF CreateSingleRoll
    <3>2. FlushedIsStored'
      <4> SUFFICES ASSUME NEW g \in Receipts, NEW k \in 1..flushed[g]
                   PROVE  owner'[CodeOf(g, k)] = g
        BY <3>1 DEF FlushedIsStored, CodeOf, ListedRolls
      <4>1. owner[CodeOf(g, k)] = g
        BY DEF FlushedIsStored
      <4>2. CodeOf(g, k) # b
        BY <3>1, <4>1
      <4>3. QED
        BY <3>1, <4>1, <4>2 DEF ReceiveTypeOK
    <3>3. LinesArePassed' /\ CreatedIsFlushed' /\ RollsHaveTheirReceipt'
      BY <3>1 DEF LinesArePassed, CreatedIsFlushed, RollsHaveTheirReceipt, LineRows,
                  LineOf, ListedRolls, ReceiveTypeOK
    <3>4. QED
      BY <3>2, <3>3
  <2>5. CASE UNCHANGED receiveVars
    BY <2>5 DEF receiveVars, FlushedIsStored, LinesArePassed, CreatedIsFlushed,
                RollsHaveTheirReceipt, LineRows, CodeOf, LineOf, ListedRolls
  <2>6. QED
    BY <2>1, <2>2, <2>3, <2>4, <2>5 DEF ReceiveNext, Step
<1>3. QED
  BY <1>1, <1>2, ReceiptsTypeCorrect, PTL DEF ReceiveSpec

(* However receipts interleave and break off, the row of a line is there   *)
(* only with every roll it counts, each once, stored under its receipt.    *)
THEOREM LinesAreReceivedHolds == ReceiveSpec => []LinesAreReceived
<1>1. ReceiveTypeOK /\ ReceiveInv => LinesAreReceived
  <2> SUFFICES ASSUME ReceiveTypeOK, ReceiveInv, NEW l \in lines,
                      NEW j \in DOMAIN ListedRolls(l[1]), NEW k \in DOMAIN ListedRolls(l[1]),
                      LineOf(l[1], j) = l[2], LineOf(l[1], k) = l[2]
               PROVE  /\ owner[CodeOf(l[1], j)] = l[1]
                      /\ CodeOf(l[1], j) = CodeOf(l[1], k) => j = k
    BY DEF LinesAreReceived, ReceiveInv, LinesArePassed
  <2>1. l[1] \in Receipts
    BY DEF ReceiveTypeOK
  <2>2. /\ DOMAIN ListedRolls(l[1]) = 1..Len(ListedRolls(l[1])) /\ Len(ListedRolls(l[1])) \in Nat
        /\ flushed[l[1]] \in Nat
    BY <2>1, BodyFacts
  <2>3. j <= flushed[l[1]] /\ k <= flushed[l[1]]
    BY DEF ReceiveInv, LinesArePassed
  <2>4. j \in 1..flushed[l[1]] /\ k \in 1..flushed[l[1]]
    BY <2>2, <2>3
  <2>5. QED
    BY <2>1, <2>4 DEF ReceiveInv, FlushedIsStored
<1>2. QED
  BY <1>1, ReceiptsTypeCorrect, ReceiveSafe, PTL

(* Every roll that names a receipt names one that is in the table. *)
THEOREM RollsHaveTheirReceiptHolds == ReceiveSpec => []RollsHaveTheirReceipt
<1>1. ReceiveInv => RollsHaveTheirReceipt
  BY DEF ReceiveInv
<1>2. QED
  BY <1>1, ReceiveSafe, PTL

(* A receipt whose client was told 201 is in stock in full. *)
THEOREM CreatedIsWholeHolds == ReceiveSpec => []CreatedIsWhole
<1>1. ReceiveTypeOK /\ ReceiveInv => CreatedIsWhole
  <2> SUFFICES ASSUME ReceiveTypeOK, ReceiveInv, NEW g \in Receipts, request[g] = "created"
               PROVE  Whole(g)
    BY DEF CreatedIsWhole
  <2>1. /\ flushed[g] = Len(ListedRolls(g)) /\ g \in fiches
        /\ LineRows(g, body[g].lines) \subseteq lines
    BY DEF ReceiveInv, CreatedIsFlushed
  <2>2. DOMAIN ListedRolls(g) = 1..flushed[g]
    BY <2>1, BodyFacts
  <2>3. QED
    BY <2>1, <2>2 DEF ReceiveInv, FlushedIsStored, Whole
<1>2. QED
  BY <1>1, ReceiptsTypeCorrect, ReceiveSafe, PTL
=============================================================================
