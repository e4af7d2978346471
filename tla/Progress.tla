------------------------------- MODULE Progress -------------------------------
(***************************************************************************)
(* How production orders with their milestones, shipment plans and         *)
(* requests for quotation go on: ProductionService, and what               *)
(* LogisticsService and SourcingService do besides selecting offers.       *)
(*                                                                         *)
(* A status can be set to any other at any time.  The first time that a    *)
(* row runs (IN_PROGRESS, IN_TRANSIT) and when it is finished (COMPLETED,  *)
(* DELIVERED), the handler sets a date as well: it finds the row, assigns, *)
(* and flushes the columns that differ from those that it read.  A new     *)
(* production order takes two flushes, its own and that of its milestones. *)
(*                                                                         *)
(* A date that a handler sets is the request that it serves; the others    *)
(* are those that bodies name.  The body of a create may name the status   *)
(* and the dates of the new row; that of updateMilestone, which is         *)
(* assigned after the handler has set its dates, may name any of them and  *)
(* may erase dates.  Quality checks, bills of materials, customs           *)
(* declarations and container events are rows that nothing else depends    *)
(* on, and are left out, as are plain columns.                             *)
(* Operators named ...Fault are the definition that follows them with a    *)
(* plausible mistake.                                                      *)
(***************************************************************************)
EXTENDS FiniteSets

CONSTANTS
  Orders, Plans, Rfqs,  \* what can be created
  Codes,                \* the milestones that every production order is given
  None,                 \* no date
  Named,                \* dates that bodies name
  Unnamed,              \* what a body says of a date that it does not name
  Requests,             \* requests, each served once: the bound of a TLC run
  Overlapping           \* the rows that two updates may be changing together

Milestones == Orders \X Codes
Dated == Orders \cup Milestones \cup Plans
Rows == Dated \cup Rfqs

ASSUME KindAssumption ==
  /\ Orders \cap (Plans \cup Rfqs \cup Milestones) = {}
  /\ Milestones \cap (Plans \cup Rfqs) = {}
ASSUME NoneAssumption == None \notin Requests /\ None \notin Rows
ASSUME NamedAssumption == Named \cap (Requests \cup {None}) = {}
ASSUME UnnamedAssumption == Unnamed \notin Requests \cup Named \cup {None}
ASSUME OverlapAssumption == Overlapping \subseteq Rows

Serial == Rows \ Overlapping

VARIABLES
  row, request,
  noStart, noEnd  \* history: rows that a body has left without the date

vars == <<row, request, noStart, noEnd>>

(* absent: there is no row.  open: the status of a new row.  other: every  *)
(* status that sets no date.                                               *)
Status == {"absent", "open", "running", "finished", "other"}
NewStatus == Status \ {"absent"}

Date == Requests \cup Named \cup {None}
Row == [status : Status, start : Date, end : Date]

Phase == {"new", "milestones", "write", "created", "done"}
Request == [phase : Phase, of : Rows \cup {None}, seen : Row]

(* What a body may say of r: only that of a milestone is assigned to the   *)
(* row, of the others the handlers take the status.                        *)
Bodies(r) ==
  LET dates == IF r \in Milestones THEN Named \cup {None, Unnamed} ELSE {Unnamed}
      statuses == IF r \in Milestones THEN NewStatus \cup {"unnamed"} ELSE NewStatus
  IN [to : statuses, start : dates, end : dates]

(* And of a new row. *)
NewRows(r) ==
  LET dates == IF r \in Dated THEN Named \cup {None} ELSE {None} IN
  [status : NewStatus, start : dates, end : dates]

Absent == [status |-> "absent", start |-> None, end |-> None]
Open == [Absent EXCEPT !.status = "open"]
Idle == [phase |-> "new", of |-> None, seen |-> Absent]

TypeOK ==
  /\ row \in [Rows -> Row]
  /\ request \in [Requests -> Request]
  /\ \A r \in Rows : row[r].status = "absent" => row[r] = Absent
  /\ \A q \in Requests : request[q].phase = "write" =>
       request[q].of \in Rows /\ request[q].seen.status # "absent"
  /\ noStart \in SUBSET Dated /\ noEnd \in SUBSET Dated

Over(phase) == [Idle EXCEPT !.phase = phase]

(* Some have been created before, by bodies that name nothing of it.       *)
Init ==
  /\ \E created \in SUBSET (Orders \cup Plans \cup Rfqs) : row = [r \in Rows |->
       IF r \in created \cup ((created \cap Orders) \X Codes) THEN Open ELSE Absent]
  /\ request = [q \in Requests |-> Idle]
  /\ noStart = {} /\ noEnd = {}

Exists(r) == row[r].status # "absent"
Running(q) == request[q].phase \in {"milestones", "write"}

-----------------------------------------------------------------------------
(* The row of a create, with the status and the dates of its body. *)
Insert(r, new) ==
  /\ ~Exists(r)
  /\ row' = [row EXCEPT ![r] = new]
  /\ noStart' = IF r \in Dated /\ new.status = "running" /\ new.start = None
                  THEN noStart \cup {r} ELSE noStart
  /\ noEnd' = IF r \in Dated /\ new.status = "finished" /\ new.end = None
                THEN noEnd \cup {r} ELSE noEnd

(* createPlan and createRFQ: one flush.                                    *)
Create(q, r, new) ==
  /\ request[q].phase = "new"
  /\ Insert(r, new)
  /\ request' = [request EXCEPT ![q] = Over("done")]

(* The first flush of createOrder. *)
CreateOrder(q, o, new) ==
  /\ request[q].phase = "new"
  /\ Insert(o, new)
  /\ request' = [request EXCEPT ![q] = [Idle EXCEPT !.phase = "milestones", !.of = o]]

InsertMilestonesFault(q) ==  \* a flush of its own for each
  /\ request[q].phase = "milestones"
  /\ \E m \in {request[q].of} \X Codes : /\ ~Exists(m)
                                         /\ row' = [row EXCEPT ![m] = Open]
  /\ request' = [request EXCEPT ![q].phase =
       IF \A m \in {request[q].of} \X Codes : row'[m] # Absent THEN "created" ELSE "milestones"]
  /\ UNCHANGED <<noStart, noEnd>>

(* The second one. *)
InsertMilestones(q) ==
  /\ request[q].phase = "milestones"
  /\ row' = [r \in Rows |-> IF r \in {request[q].of} \X Codes THEN Open ELSE row[r]]
  /\ request' = [request EXCEPT ![q].phase = "created"]
  /\ UNCHANGED <<noStart, noEnd>>

-----------------------------------------------------------------------------
(* The code never waits: every row is in Overlapping unless its users make *)
(* one change of it at a time.                                             *)
MayStart(r) ==
  r \in Serial => \A p \in Requests : request[p].phase = "write" => request[p].of # r

FindFault(q, r) ==  \* whether there is such a row or not
  /\ request[q].phase = "new" /\ MayStart(r)
  /\ request' = [request EXCEPT ![q] =
       [phase |-> "write", of |-> r, seen |-> row[r]]]
  /\ UNCHANGED <<row, noStart, noEnd>>

(* updateOrderStatus, updateMilestone, updatePlanStatus, updateRFQStatus:  *)
(* first the row is found; the body is looked at afterwards.               *)
Find(q, r) ==
  /\ request[q].phase = "new" /\ Exists(r) /\ MayStart(r)
  /\ request' = [request EXCEPT ![q] =
       [phase |-> "write", of |-> r, seen |-> row[r]]]
  /\ UNCHANGED <<row, noStart, noEnd>>

(* A start is set once; an order is given an end whenever it is completed, *)
(* a milestone and a plan the first time.                                  *)
Starts(r, seen, status) == r \in Dated /\ status = "running" /\ seen.start = None

EndsFault(r, seen, status) ==  \* when it is finished after it has run
  r \in Dated /\ status = "finished" /\ seen.status = "running"

Ends(r, seen, status) ==
  /\ r \in Dated /\ status = "finished"
  /\ r \in Orders \/ seen.end = None

(* The row as the handler has it: its own dates first, then the body.      *)
Assigned(r, seen, body, q) ==
  [status |-> IF body.to = "unnamed" THEN seen.status ELSE body.to,
   start  |-> IF body.start # Unnamed THEN body.start
              ELSE IF Starts(r, seen, body.to) THEN q ELSE seen.start,
   end    |-> IF body.end # Unnamed THEN body.end
              ELSE IF Ends(r, seen, body.to) THEN q ELSE seen.end]

(* The row after the flush: a column is written if it differs from what    *)
(* the request read.                                                       *)
Written(now, seen, after) ==
  [status |-> IF after.status # seen.status THEN after.status ELSE now.status,
   start  |-> IF after.start # seen.start THEN after.start ELSE now.start,
   end    |-> IF after.end # seen.end THEN after.end ELSE now.end]

(* History: a body that erases a date, or names none, has left the row     *)
(* without it, until one is written.                                       *)
Without(rows, r, named, date) ==
  IF date # None THEN rows \ {r} ELSE IF named = None THEN rows \cup {r} ELSE rows

Write(q, body) ==
  LET r == request[q].of
      seen == request[q].seen
      after == Written(row[r], seen, Assigned(r, seen, body, q))
  IN
  /\ request[q].phase = "write" /\ body \in Bodies(r)
  /\ row' = [row EXCEPT ![r] = after]
  /\ request' = [request EXCEPT ![q] = Over("done")]
  /\ noStart' = Without(noStart, r, body.start, after.start)
  /\ noEnd' = Without(noEnd, r, body.end, after.end)

(* The process ends, or the database cannot be reached.                    *)
Break(q) ==
  /\ Running(q)
  /\ request' = [request EXCEPT ![q] = Over("done")]
  /\ UNCHANGED <<row, noStart, noEnd>>

Next == \E q \in Requests :
  \/ \E r \in Plans \cup Rfqs : \E new \in NewRows(r) : Create(q, r, new)
  \/ \E o \in Orders : \E new \in NewRows(o) : CreateOrder(q, o, new)
  \/ \E r \in Rows : Find(q, r) \/ \E body \in Bodies(r) : Write(q, body)
  \/ InsertMilestones(q) \/ Break(q)

Spec == Init /\ [][Next]_vars

-----------------------------------------------------------------------------
(* However updates overlap, what runs has a start and what is finished has *)
(* an end, although status and dates of a row can come from two requests;  *)
(* only rows that a body has left without the date do not, the one of a    *)
(* create that names the status and no date, or the one of a milestone     *)
(* that erases the date, and these until one is written.                   *)
StatusHasItsDate ==
  \A r \in Dated :
    /\ row[r].status = "running" => row[r].start # None \/ r \in noStart
    /\ row[r].status = "finished" => row[r].end # None \/ r \in noEnd

(* An order has all of its milestones or none, whatever happens between    *)
(* the two flushes, and all of them if its creation has been answered.     *)
MilestonesTogether ==
  /\ \A o \in Orders : \/ \A c \in Codes : Exists(<<o, c>>) /\ Exists(o)
                       \/ \A c \in Codes : ~Exists(<<o, c>>)
  /\ \A q \in Requests : request[q].phase = "created" =>
       \A c \in Codes : Exists(<<request[q].of, c>>)

(* Where updates of a row do not overlap, a handler sets a start once, when*)
(* the row begins to run, and an end only when it is finished, and moves it*)
(* only for an order that is completed again; another date, or none, comes *)
(* from a body, and only to milestones.                                    *)
DatesMoveWithStatus ==
  [][\A r \in Serial : Exists(r) =>
       /\ row'[r].start # row[r].start =>
            IF row'[r].start \in Requests
              THEN row[r].start = None /\ row'[r].status = "running"
              ELSE r \in Milestones
       /\ row'[r].end # row[r].end =>
            IF row'[r].end \in Requests
              THEN row'[r].status = "finished" /\ (r \in Orders \/ row[r].end = None)
              ELSE r \in Milestones]_vars
=============================================================================
