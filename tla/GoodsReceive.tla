---------------------------- MODULE GoodsReceive ----------------------------
(***************************************************************************)
(* GoodsReceiveService.create: one request that enters a receipt, its      *)
(* rolls and its lines.                                                    *)
(*                                                                         *)
(* The handler persists the receipt and then, line by line, calls          *)
(* createRoll for each roll.  createRoll ends with a flush of its own, so  *)
(* the request is not one transaction but one per roll and a last one.     *)
(* Whatever is pending goes with the next flush: the receipt with the      *)
(* first roll, and the row of a line, persisted after its rolls, with the  *)
(* first roll of a later line or with the last flush.  A flush that fails  *)
(* ends the request and leaves what the earlier ones committed.            *)
(*                                                                         *)
(* Between two flushes other receipts, and single rolls entered by         *)
(* POST /inventory/rolls, can take the barcodes this one still has to      *)
(* enter.  The names are apart from those of RollStock, which has what     *)
(* happens to a roll afterwards.                                           *)
(***************************************************************************)
EXTENDS Integers, Sequences

CONSTANTS
  Receipts,  \* requests, each with the row of goods_receives it creates
  Barcodes,
  Bodies     \* the request bodies, as the order in which they list rolls

(* A body numbers its lines, and names for each roll its line and barcode. *)
(* Lines may be empty, and barcodes may be repeated.                       *)
ASSUME BodiesAssumption ==
  \A b \in Bodies :
    /\ b.lines \in Nat
    /\ b.rolls \in Seq([line : 1..b.lines, code : Barcodes])
    /\ \A j, k \in DOMAIN b.rolls : j <= k => b.rolls[j].line <= b.rolls[k].line

VARIABLES
  body,     \* what each request asks for
  request,  \* how far the request has come, as its client sees it
  flushed,  \* how many rolls it has committed
  fiches,   \* goods_receives: the receipts that are there, all COMPLETED
  lines,    \* goods_receive_lines: <<receipt, line>>
  owner     \* inventory_items: the goodsReceiveId of each barcode

receiveVars == <<body, request, flushed, fiches, lines, owner>>
tables == <<fiches, lines, owner>>

Nobody == "no such roll"
Direct == "entered without a receipt"
ASSUME ReceiptsAssumption == Receipts \cap {Nobody, Direct} = {}

RequestState == {"new", "open", "created", "failed"}

ListedRolls(g) == body[g].rolls
LineOf(g, k) == ListedRolls(g)[k].line
CodeOf(g, k) == ListedRolls(g)[k].code

ReceiveTypeOK ==
  /\ body \in [Receipts -> Bodies]
  /\ request \in [Receipts -> RequestState]
  /\ flushed \in [Receipts -> Nat]
  /\ fiches \in SUBSET Receipts
  /\ lines \subseteq Receipts \X Nat
  /\ owner \in [Barcodes -> Receipts \cup {Nobody, Direct}]
  /\ \A g \in Receipts : flushed[g] <= Len(ListedRolls(g))

ReceiveInit ==
  /\ body \in [Receipts -> Bodies]
  /\ request = [g \in Receipts |-> "new"]
  /\ flushed = [g \in Receipts |-> 0]
  /\ fiches = {}
  /\ lines = {}
  /\ owner = [b \in Barcodes |-> Nobody]

-----------------------------------------------------------------------------
(* Operators named ...Fault are the definition that follows them with a    *)
(* slip in it; they are used only to see that the properties notice.       *)

Upcoming(g) == flushed[g] + 1
LineRows(g, n) == {g} \X (1..n)
More(g) == request[g] = "open" /\ Upcoming(g) <= Len(ListedRolls(g))
Taken(g) == owner[CodeOf(g, Upcoming(g))] # Nobody
End(g, answer) == request' = [request EXCEPT ![g] = answer]

Open(g) ==
  /\ request[g] = "new"
  /\ End(g, "open")
  /\ UNCHANGED <<body, flushed, tables>>

ReceiveRollFault(g) ==  \* the line is persisted before its rolls
  /\ More(g) /\ ~Taken(g)
  /\ owner' = [owner EXCEPT ![CodeOf(g, Upcoming(g))] = g]
  /\ fiches' = fiches \cup {g}
  /\ lines' = lines \cup LineRows(g, LineOf(g, Upcoming(g)))
  /\ flushed' = [flushed EXCEPT ![g] = Upcoming(g)]
  /\ UNCHANGED <<body, request>>

(* createRoll: the roll and its PURCHASE movement, with what is pending.   *)
ReceiveRoll(g) ==
  /\ More(g) /\ ~Taken(g)
  /\ owner' = [owner EXCEPT ![CodeOf(g, Upcoming(g))] = g]
  /\ fiches' = fiches \cup {g}
  /\ lines' = lines \cup LineRows(g, LineOf(g, Upcoming(g)) - 1)
  /\ flushed' = [flushed EXCEPT ![g] = Upcoming(g)]
  /\ UNCHANGED <<body, request>>

RejectFault(g) ==  \* goes on with the next roll
  /\ More(g) /\ Taken(g)
  /\ flushed' = [flushed EXCEPT ![g] = Upcoming(g)]
  /\ UNCHANGED <<body, request, tables>>

RejectRetryFault(g) ==  \* tries the same roll again
  /\ More(g) /\ Taken(g)
  /\ UNCHANGED receiveVars

(* The barcode is taken: unique index on (tenant, barcode). *)
Reject(g) ==
  /\ More(g) /\ Taken(g)
  /\ End(g, "failed")
  /\ UNCHANGED <<body, flushed, tables>>

CompleteFault(g) ==  \* counts the last flush too
  /\ request[g] = "open" /\ Upcoming(g) > Len(ListedRolls(g))
  /\ fiches' = fiches \cup {g}
  /\ lines' = lines \cup LineRows(g, body[g].lines)
  /\ flushed' = [flushed EXCEPT ![g] = Upcoming(g)]
  /\ End(g, "created")
  /\ UNCHANGED <<body, owner>>

(* The last flush, and the answer 201. *)
Complete(g) ==
  /\ request[g] = "open" /\ Upcoming(g) > Len(ListedRolls(g))
  /\ fiches' = fiches \cup {g}
  /\ lines' = lines \cup LineRows(g, body[g].lines)
  /\ End(g, "created")
  /\ UNCHANGED <<body, flushed, owner>>

(* The connection is lost or the process dies before the next flush. *)
Break(g) ==
  /\ request[g] = "open"
  /\ End(g, "failed")
  /\ UNCHANGED <<body, flushed, tables>>

(* POST /inventory/rolls: createRoll without a receipt. *)
CreateSingleRoll(b) ==
  /\ owner[b] = Nobody
  /\ owner' = [owner EXCEPT ![b] = Direct]
  /\ UNCHANGED <<body, request, flushed, fiches, lines>>

Step(g) == ReceiveRoll(g) \/ Reject(g) \/ Complete(g)

ReceiveNext ==
  \/ \E g \in Receipts : Open(g) \/ Step(g) \/ Break(g)
  \/ \E b \in Barcodes : CreateSingleRoll(b)

(* A handler that runs goes on until it returns or throws. *)
Fairness == \A g \in Receipts : WF_receiveVars(Step(g))

ReceiveSpec == ReceiveInit /\ [][ReceiveNext]_receiveVars /\ Fairness

-----------------------------------------------------------------------------
(* The row of a line is there only with its receipt and with every roll    *)
(* it counts: receivedRollCount never counts a roll that is not in stock   *)
(* under this receipt, or one roll twice.                                  *)
LinesAreReceived ==
  \A l \in lines : LET g == l[1] IN
    /\ g \in fiches
    /\ \A j, k \in DOMAIN ListedRolls(g) :
         LineOf(g, j) = l[2] /\ LineOf(g, k) = l[2] =>
           /\ owner[CodeOf(g, j)] = g
           /\ CodeOf(g, j) = CodeOf(g, k) => j = k

(* A roll that names a receipt names one that exists (goodsReceiveId is a  *)
(* plain column, the database does not check it).                          *)
RollsHaveTheirReceipt ==
  \A b \in Barcodes : owner[b] \in Receipts => owner[b] \in fiches

Whole(g) ==
  /\ g \in fiches
  /\ \A k \in DOMAIN ListedRolls(g) : owner[CodeOf(g, k)] = g
  /\ LineRows(g, body[g].lines) \subseteq lines

(* A client that is told 201 has everything in stock, whatever other       *)
(* requests did between the flushes.                                       *)
CreatedIsWhole == \A g \in Receipts : request[g] = "created" => Whole(g)

(* Every receipt that is being entered is answered. *)
EveryReceiptEnds ==
  \A g \in Receipts : request[g] = "open" ~> request[g] \in {"created", "failed"}

(* The inductive strengthening: the flushed rolls are there, each once,    *)
(* and a line is written when the loop has passed all its rolls.           *)
FlushedIsStored ==
  \A g \in Receipts : \A k \in 1..flushed[g] :
    /\ owner[CodeOf(g, k)] = g /\ g \in fiches
    /\ \A j \in 1..flushed[g] : CodeOf(g, j) = CodeOf(g, k) => j = k

LinesArePassed ==
  \A l \in lines : LET g == l[1] IN
    /\ g \in fiches
    /\ \A k \in DOMAIN ListedRolls(g) : LineOf(g, k) = l[2] => k <= flushed[g]

CreatedIsFlushed ==
  \A g \in Receipts : request[g] = "created" =>
    /\ flushed[g] = Len(ListedRolls(g)) /\ g \in fiches
    /\ LineRows(g, body[g].lines) \subseteq lines

ReceiveInv ==
  FlushedIsStored /\ LinesArePassed /\ CreatedIsFlushed /\ RollsHaveTheirReceipt
=============================================================================
