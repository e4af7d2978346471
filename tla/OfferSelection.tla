--------------------------- MODULE OfferSelection ---------------------------
(***************************************************************************)
(* Selecting one among the offers of a tender: selectQuote of              *)
(* LogisticsService, whose tenders are shipment plans and whose offers are *)
(* freight quotes, and selectResponse of SourcingService, whose tenders    *)
(* are requests for quotation and whose offers are the suppliers'          *)
(* responses.                                                              *)
(*                                                                         *)
(* isSelected is a column of the offer, and the handler keeps it unique:   *)
(* it finds the offer, finds the selected offers of the same tender, and   *)
(* flushes the old ones unselected and the new one selected.  An UPDATE is *)
(* sent only for the rows whose value differs from the one read.           *)
(*                                                                         *)
(* Prices, carriers and dates are left out.  The bodies of createQuote and *)
(* addResponse do not name isSelected, as those of the clients do not.     *)
(* The names are apart from those of Progress, which has the rest of the   *)
(* two services.                                                           *)
(***************************************************************************)
EXTENDS FiniteSets

CONSTANTS
  Tenders,
  Offers,
  Nothing,   \* no offer; the tender of a freight quote without a plan
  TenderOf,  \* the tender that each offer is made for
  Selects,   \* select requests, each served once: the bound of a TLC run
  Contested  \* the tenders for which two selects may be in progress together

ASSUME NothingAssumption == Nothing \notin Tenders
ASSUME TenderAssumption == TenderOf \in [Offers -> Tenders \cup {Nothing}]
ASSUME ContestedAssumption == Contested \subseteq Tenders

Uncontested == Tenders \ Contested

VARIABLES
  made,      \* the offers whose row is in the table
  selected,  \* the offers whose isSelected is set
  select     \* the select requests

selectVars == <<made, selected, select>>

SelectPhase == {"new", "find", "flush", "done"}

(* The offer is that of the request once it has begun; was is its          *)
(* isSelected as the request read it, and others are the selected offers   *)
(* that it found.                                                          *)
Select == [phase : SelectPhase, offer : Offers \cup {Nothing}, was : BOOLEAN,
           others : SUBSET Offers]

SelectTypeOK ==
  /\ made \in SUBSET Offers
  /\ selected \in SUBSET made
  /\ select \in [Selects -> Select]

SelectInit ==
  /\ made = {}
  /\ selected = {}
  /\ select = [q \in Selects |->
       [phase |-> "new", offer |-> Nothing, was |-> FALSE, others |-> {}]]

-----------------------------------------------------------------------------
(* createQuote and addResponse. *)
Add(o) ==
  /\ o \notin made
  /\ made' = made \cup {o}
  /\ UNCHANGED <<selected, select>>

Selecting(q) == select[q].phase \in {"find", "flush"}
Tender(q) == TenderOf[select[q].offer]

(* The code never waits: every tender is in Contested unless   its users   *)
(* select one offer at a time.                                             *)
MaySelect(t) ==
  t \in Uncontested => \A p \in Selects : Selecting(p) => Tender(p) # t

(* Operators named ...Fault are the definition that follows them with a    *)
(* slip in it; they are used only to see that the properties notice.       *)

BeginUncheckedFault(q, o) ==  \* does not look whether the offer exists
  /\ select[q].phase = "new"
  /\ MaySelect(TenderOf[o])
  /\ select' = [select EXCEPT ![q] =
       [phase |-> IF TenderOf[o] = Nothing THEN "flush" ELSE "find",
        offer |-> o, was |-> FALSE, others |-> {}]]
  /\ UNCHANGED <<made, selected>>

(* The first find.  A quote that belongs to no plan has no others. *)
Begin(q, o) ==
  /\ select[q].phase = "new"
  /\ o \in made
  /\ MaySelect(TenderOf[o])
  /\ select' = [select EXCEPT ![q] =
       [phase |-> IF TenderOf[o] = Nothing THEN "flush" ELSE "find",
        offer |-> o, was |-> o \in selected, others |-> {}]]
  /\ UNCHANGED <<made, selected>>

Found(t) == {o \in selected : TenderOf[o] = t}

(* The second find.  A row that the query returns is the row as read. *)
FindOthers(q) ==
  /\ select[q].phase = "find"
  /\ select' = [select EXCEPT ![q] =
       [phase |-> "flush", offer |-> select[q].offer,
        was |-> select[q].was \/ select[q].offer \in Found(Tender(q)),
        others |-> Found(Tender(q))]]
  /\ UNCHANGED <<made, selected>>

SelectedAfterFault(before, o, was, others) ==  \* unselects after it has selected
  (before \cup {o}) \ others

(* The rows after the flush: the others are unselected, and the offer is   *)
(* written only if it was not selected when it was read.                   *)
SelectedAfter(before, o, was, others) ==
  (before \ (others \ {o})) \cup (IF was THEN {} ELSE {o})

Flush(q) ==
  /\ select[q].phase = "flush"
  /\ selected' = SelectedAfter(selected, select[q].offer, select[q].was, select[q].others)
  /\ select' = [select EXCEPT ![q].phase = "done"]
  /\ UNCHANGED made

SelectNext ==
  \/ \E o \in Offers : Add(o) \/ \E q \in Selects : Begin(q, o)
  \/ \E q \in Selects : FindOthers(q) \/ Flush(q)

SelectSpec == SelectInit /\ [][SelectNext]_selectVars

-----------------------------------------------------------------------------
(* Where selects do not overlap, a tender has one selected offer at most.  *)
OneSelected ==
  \A o, p \in selected :
    TenderOf[o] = TenderOf[p] /\ TenderOf[o] \in Uncontested => o = p

(* Where selects do not overlap, the selected offer is the one selected    *)
(* last, and there is one from the first select on.                        *)
Choice == INSTANCE OfferChoice WITH
            Tenders <- Uncontested,
            chosen <- [t \in Uncontested |-> Found(t)]
ImplementsChoice == Choice!Spec

(* However selects overlap, a quote without a plan is not unselected by    *)
(* the selection of another.                                               *)
LoneStaySelected ==
  [][\A o \in selected : TenderOf[o] = Nothing => o \in selected']_selectVars
=============================================================================
