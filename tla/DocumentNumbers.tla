--------------------------- MODULE DocumentNumbers ---------------------------
(***************************************************************************)
(* The numbers of sales orders, purchase orders, receipts, invoices and    *)
(* payments.                                                               *)
(*                                                                         *)
(* Every create counts the rows of its tenant (await em.count), for an     *)
(* invoice those of the same type, writes the count plus one into the      *)
(* number, and inserts the row some awaits later.  No index makes the      *)
(* numbers unique.  remove only sets deletedAt, and the counts include     *)
(* deleted rows.                                                           *)
(*                                                                         *)
(* A number is its counter.  The prefix of the series is left out, though  *)
(* three types of invoices share INV, and so is the year behind it: the    *)
(* counter does not restart with it.                                       *)
(***************************************************************************)
EXTENDS Naturals, Sequences, FiniteSets

CONSTANTS
  Tenants,
  Creates,   \* requests, each served once: the bound of a TLC run
  Series,    \* the series of a run, among AllSeries
  Overlapping \* those of which two creates may be in progress together

Orders == {"SO", "PO"}
Invoices == {"SALES", "PURCHASE", "RETURN_SALES", "RETURN_PURCHASE"}
AllSeries == Orders \cup Invoices \cup {"GR", "PAY"}

ASSUME SeriesAssumption == Series \subseteq AllSeries
ASSUME OverlapAssumption == Overlapping \subseteq Series

VARIABLES
  docs,      \* the rows of each tenant and series, in the order of insertion
  unserved,  \* requests that have not arrived
  pending    \* requests that have counted and not inserted

numberVars == <<docs, unserved, pending>>

Doc == [number : Nat \ {0}, deleted : BOOLEAN]
Creating == [id : Creates, tenant : Tenants, series : Series, number : Nat \ {0}]

NumberTypeOK ==
  /\ docs \in [Tenants -> [Series -> Seq(Doc)]]
  /\ unserved \in SUBSET Creates
  /\ pending \in SUBSET Creating

NumberInit ==
  /\ docs = [t \in Tenants |-> [s \in Series |-> <<>>]]
  /\ unserved = Creates
  /\ pending = {}

-----------------------------------------------------------------------------
(* Operators named ...Fault are the definition that follows them with a    *)
(* slip in it; they are used only to see that the properties notice.       *)

CountFault(t, s) ==  \* leaves out deleted rows
  Len(SelectSeq(docs[t][s], LAMBDA d : ~d.deleted))

Count(t, s) == Len(docs[t][s])

(* The code never waits: every series is in Overlapping unless its users   *)
(* create one document at a time.                                          *)
MayStart(t, s) ==
  s \in Overlapping \/ \A p \in pending : <<p.tenant, p.series>> # <<t, s>>

BeginDocumentFault(q, t, s) ==  \* the count itself is the number
  /\ q \in unserved /\ MayStart(t, s)
  /\ unserved' = unserved \ {q}
  /\ pending' = pending \cup
       {[id |-> q, tenant |-> t, series |-> s, number |-> Count(t, s)]}
  /\ UNCHANGED docs

BeginDocument(q, t, s) ==
  /\ q \in unserved /\ MayStart(t, s)
  /\ unserved' = unserved \ {q}
  /\ pending' = pending \cup
       {[id |-> q, tenant |-> t, series |-> s, number |-> Count(t, s) + 1]}
  /\ UNCHANGED docs

(* The flush that inserts the document: the one that ends create, or for a *)
(* receipt that of its first roll.                                         *)
Insert(p) ==
  /\ docs' = [docs EXCEPT ![p.tenant][p.series] =
                Append(@, [number |-> p.number, deleted |-> FALSE])]
  /\ pending' = pending \ {p}
  /\ UNCHANGED unserved

(* The flush fails or the process dies: no row. *)
GiveUp(p) ==
  /\ pending' = pending \ {p}
  /\ UNCHANGED <<docs, unserved>>

RemoveFault(t, s, n) ==  \* deletes the row
  /\ s \in Orders \cup Invoices
  /\ n \in DOMAIN docs[t][s] /\ ~docs[t][s][n].deleted
  /\ docs' = [docs EXCEPT ![t][s] =
                SubSeq(@, 1, n - 1) \o SubSeq(@, n + 1, Len(@))]
  /\ UNCHANGED <<unserved, pending>>

(* remove of the order and invoice services: soft delete.  Receipts and    *)
(* payments have none.                                                     *)
Remove(t, s, n) ==
  /\ s \in Orders \cup Invoices
  /\ n \in DOMAIN docs[t][s] /\ ~docs[t][s][n].deleted
  /\ docs' = [docs EXCEPT ![t][s][n].deleted = TRUE]
  /\ UNCHANGED <<unserved, pending>>

NumberNext ==
  \/ \E q \in Creates, t \in Tenants, s \in Series : BeginDocument(q, t, s)
  \/ \E p \in pending : Insert(p) \/ GiveUp(p)
  \/ \E t \in Tenants, s \in Series : \E n \in DOMAIN docs[t][s] : Remove(t, s, n)

NumberSpec == NumberInit /\ [][NumberNext]_numberVars

-----------------------------------------------------------------------------
(* However creates overlap: the n-th row has a number between one and n,   *)
(* and so has a number in flight, so counters never run ahead of the rows. *)
NumberWithinCount ==
  /\ \A t \in Tenants, s \in Series : \A n \in DOMAIN docs[t][s] :
       docs[t][s][n].number \in 1..n
  /\ \A p \in pending : p.number \in 1..(Len(docs[p.tenant][p.series]) + 1)

(* A create takes a number above all that are there when it counts, those  *)
(* of deleted documents included: only creates that overlap can share one. *)
FreshWhenCounted ==
  [][\A p \in pending' \ pending :
       \A n \in DOMAIN docs[p.tenant][p.series] :
         docs[p.tenant][p.series][n].number < p.number]_numberVars

(* Where creates of one series do not overlap: the n-th row has the number *)
(* n, deleted or not.                                                      *)
Serial == Series \ Overlapping

NumberIsRank ==
  \A t \in Tenants, s \in Serial : \A n \in DOMAIN docs[t][s] :
    docs[t][s][n].number = n

(* What makes it inductive: one create at a time holds the next number.    *)
RankInv ==
  /\ NumberIsRank
  /\ \A p \in pending : p.series \in Serial =>
       /\ p.number = Len(docs[p.tenant][p.series]) + 1
       /\ \A r \in pending : p.tenant = r.tenant /\ p.series = r.series => p = r

(* There the numbers are those of an auto-increment series.                *)
Counter == INSTANCE NumberSeries WITH
  Series <- Serial,
  last <- [t \in Tenants |-> [s \in Serial |-> Len(docs[t][s])]]

Incremented ==
  /\ Counter!SSpec
  /\ [][\A t \in Tenants, s \in Serial :
          LET d == docs[t][s] IN
            Len(d') > Len(d) => d'[Len(d')].number = Len(d) + 1]_numberVars
=============================================================================
