---------------------------- MODULE ProgressProofs ----------------------------
(* Theorems about Progress, for all sets of rows, milestones and requests. *)
EXTENDS Progress, OfferSelection, TLAPS

(* Who creates an order has it alone, and it has no milestones before.     *)
Creating ==
  /\ \A q \in Requests : request[q].phase = "milestones" =>
       /\ request[q].of \in Orders /\ Exists(request[q].of)
       /\ \A c \in Codes : ~Exists(<<request[q].of, c>>)
  /\ \A p, q \in Requests :
       request[p].phase = "milestones" /\ request[q].phase = "milestones"
         /\ request[p].of = request[q].of => p = q
  /\ \A q \in Requests : request[q].phase = "created" => request[q].of \in Orders

(* What a request has read, there still is: rows stay, and so do dates     *)
(* unless a body erases them.                                              *)
SeenRemains ==
  \A q \in Requests : request[q].phase = "write" =>
    /\ Exists(request[q].of)
    /\ request[q].seen.start # None =>
         row[request[q].of].start # None \/ request[q].of \in noStart
    /\ request[q].seen.end # None =>
         row[request[q].of].end # None \/ request[q].of \in noEnd

(* A row that is changed by one request at a time is as that one read it.  *)
SerialSeen ==
  \A q \in Requests : request[q].phase = "write" /\ request[q].of \in Serial =>
    /\ row[request[q].of] = request[q].seen
    /\ \A p \in Requests :
         request[p].phase = "write" /\ request[p].of = request[q].of => p = q

Inv == TypeOK /\ StatusHasItsDate /\ MilestonesTogether /\ Creating /\ SeenRemains /\ SerialSeen

(* ------------------------------------------------------------------------- *)
(* The kinds of rows are apart. *)
LEMMA Kinds ==
  /\ \A o \in Orders : o \in Rows /\ o \notin Milestones /\ o \notin Plans \cup Rfqs
  /\ \A o \in Orders, c \in Codes : /\ <<o, c>> \in Rows /\ <<o, c>> \in Milestones
                                    /\ <<o, c>> \notin Orders \cup Plans \cup Rfqs
  /\ Dated \subseteq Rows
BY KindAssumption DEF Rows, Dated, Milestones

(* The constant rows have their type. *)
LEMMA Constant ==
  /\ Absent \in Row /\ Open \in Row /\ Idle \in Request
  /\ Absent.status = "absent" /\ Absent.start = None /\ Absent.end = None
  /\ Open.status = "open" /\ Open.start = None /\ Open.end = None
  /\ Idle.phase = "new"
BY DEF Absent, Open, Idle, Row, Date, Request, Status, NewStatus, Phase

LEMMA OverIsRequest ==
  ASSUME NEW phase \in Phase
  PROVE  Over(phase) \in Request /\ Over(phase).phase = phase
BY Constant DEF Over, Idle, Request

LEMMA NewRowIsRow ==
  ASSUME NEW r \in Rows, NEW new \in NewRows(r)
  PROVE  new \in Row /\ new.status # "absent"
BY DEF NewRows, Row, Date, NewStatus

LEMMA InitInv == Init => Inv
<1> SUFFICES ASSUME Init PROVE Inv
  OBVIOUS
<1>1. PICK created \in SUBSET (Orders \cup Plans \cup Rfqs) : row = [r \in Rows |->
        IF r \in created \cup ((created \cap Orders) \X Codes) THEN Open ELSE Absent]
  BY DEF Init
<1>2. /\ \A r \in Rows : row[r] \in {Absent, Open}
      /\ \A q \in Requests : request[q].phase = "new"
      /\ row \in [Rows -> Row] /\ request \in [Requests -> Request]
      /\ noStart = {} /\ noEnd = {}
  BY <1>1, Constant DEF Init
<1>3. TypeOK /\ StatusHasItsDate
  BY <1>2, Constant, Kinds DEF TypeOK, StatusHasItsDate
<1>4. ASSUME NEW o \in Orders
      PROVE  \/ \A c \in Codes : Exists(<<o, c>>) /\ Exists(o)
             \/ \A c \in Codes : ~Exists(<<o, c>>)
  <2>1. CASE o \in created
    <3>1. \A c \in Codes : <<o, c>> \in (created \cap Orders) \X Codes
      BY <2>1
    <3> QED BY <2>1, <3>1, <1>1, Constant, Kinds DEF Exists
  <2>2. CASE o \notin created
    <3>1. \A c \in Codes : <<o, c>> \notin created \cup ((created \cap Orders) \X Codes)
      BY <2>2, Kinds
    <3> QED BY <3>1, <1>1, Constant, Kinds DEF Exists
  <2> QED BY <2>1, <2>2
<1>5. MilestonesTogether
  BY <1>2, <1>4 DEF MilestonesTogether
<1>6. Creating
  BY <1>2 DEF Creating, Exists
<1>7. SeenRemains /\ SerialSeen
  BY <1>2 DEF SeenRemains, SerialSeen, Exists
<1> QED BY <1>3, <1>5, <1>6, <1>7 DEF Inv

(* A new row keeps the dates of what runs and what is finished, and what   *)
(* the requests have read.                                                 *)
LEMMA InsertInv ==
  ASSUME Inv, NEW r \in Rows, NEW new \in NewRows(r), Insert(r, new)
  PROVE  /\ ~Exists(r) /\ Exists(r)' /\ row'[r] = new
         /\ \A s \in Rows : s # r => row'[s] = row[s]
         /\ row' \in [Rows -> Row] /\ StatusHasItsDate'
         /\ \A s \in Rows : row'[s].status = "absent" => row'[s] = Absent
         /\ noStart \subseteq noStart' /\ noEnd \subseteq noEnd'
         /\ noStart' \in SUBSET Dated /\ noEnd' \in SUBSET Dated
<1>1. new \in Row /\ new.status # "absent"
  BY NewRowIsRow
<1>2. /\ ~Exists(r) /\ row'[r] = new /\ row' \in [Rows -> Row]
      /\ \A s \in Rows : s # r => row'[s] = row[s]
  BY <1>1 DEF Insert, Inv, TypeOK
<1>3. /\ noStart \subseteq noStart' /\ noEnd \subseteq noEnd'
      /\ noStart' \in SUBSET Dated /\ noEnd' \in SUBSET Dated
      /\ r \in Dated /\ new.status = "running" => new.start # None \/ r \in noStart'
      /\ r \in Dated /\ new.status = "finished" => new.end # None \/ r \in noEnd'
  BY DEF Insert, Inv, TypeOK
<1>4. StatusHasItsDate'
  BY <1>2, <1>3, Kinds DEF Inv, StatusHasItsDate
<1>5. \A s \in Rows : row'[s].status = "absent" => row'[s] = Absent
  BY <1>1, <1>2 DEF Inv, TypeOK
<1> QED BY <1>1, <1>2, <1>3, <1>4, <1>5 DEF Exists

(* createPlan and createRFQ keep the invariant. *)
LEMMA CreateInv ==
  ASSUME Inv, NEW q \in Requests, NEW r \in Plans \cup Rfqs, NEW new \in NewRows(r),
         Create(q, r, new)
  PROVE  Inv'
<1>1. r \in Rows /\ r \notin Orders /\ r \notin Milestones
  BY KindAssumption DEF Rows, Dated
<1>2. Insert(r, new)
  BY DEF Create
<1>3. /\ ~Exists(r) /\ \A s \in Rows : s # r => row'[s] = row[s]
      /\ row' \in [Rows -> Row] /\ StatusHasItsDate'
      /\ \A s \in Rows : row'[s].status = "absent" => row'[s] = Absent
      /\ noStart \subseteq noStart' /\ noEnd \subseteq noEnd'
      /\ noStart' \in SUBSET Dated /\ noEnd' \in SUBSET Dated
  BY <1>1, <1>2, InsertInv
<1>4. Over("done") \in Request /\ Over("done").phase = "done"
  BY OverIsRequest DEF Phase
<1>5. /\ \A p \in Requests : p # q => request'[p] = request[p]
      /\ request'[q].phase = "done" /\ request' \in [Requests -> Request]
  BY <1>4 DEF Create, Inv, TypeOK
<1>6. TypeOK'
  BY <1>3, <1>5 DEF Inv, TypeOK
<1>7. \A o \in Orders : /\ row'[o] = row[o]
                        /\ \A c \in Codes : row'[<<o, c>>] = row[<<o, c>>]
  BY <1>1, <1>3, Kinds
<1>8. MilestonesTogether'
  <2>1. \A p \in Requests : request'[p].phase = "created" =>
          \A c \in Codes : row'[<<request'[p].of, c>>].status # "absent"
    BY <1>5, <1>7 DEF Inv, MilestonesTogether, Creating, Exists
  <2> QED BY <2>1, <1>7 DEF Inv, MilestonesTogether, Exists
<1>9. Creating'
  BY <1>5, <1>7 DEF Inv, Creating, Exists
<1>10. ASSUME NEW p \in Requests, request'[p].phase = "write"
       PROVE  /\ request'[p] = request[p] /\ request[p].of \in Rows
              /\ row'[request[p].of] = row[request[p].of]
  <2>1. request'[p] = request[p] /\ request[p].of \in Rows /\ Exists(request[p].of)
    BY <1>5, <1>10 DEF Inv, TypeOK, SeenRemains
  <2> QED BY <2>1, <1>3
<1>11. SeenRemains' /\ SerialSeen'
  BY <1>3, <1>10 DEF Inv, SeenRemains, SerialSeen, Exists
<1> QED BY <1>3, <1>6, <1>8, <1>9, <1>11 DEF Inv

(* The first flush of createOrder keeps it. *)
LEMMA CreateOrderInv ==
  ASSUME Inv, NEW q \in Requests, NEW o \in Orders, NEW new \in NewRows(o),
         CreateOrder(q, o, new)
  PROVE  Inv'
<1> DEFINE n == [Idle EXCEPT !.phase = "milestones", !.of = o]
<1>1. n \in Request /\ n.phase = "milestones" /\ n.of = o
  BY Kinds, Constant DEF Idle, Request, Phase
<1> HIDE DEF n
<1>4. /\ ~Exists(o) /\ Exists(o)' /\ \A s \in Rows : s # o => row'[s] = row[s]
      /\ row' \in [Rows -> Row] /\ StatusHasItsDate'
      /\ \A s \in Rows : row'[s].status = "absent" => row'[s] = Absent
      /\ noStart \subseteq noStart' /\ noEnd \subseteq noEnd'
      /\ noStart' \in SUBSET Dated /\ noEnd' \in SUBSET Dated
  BY Kinds, InsertInv DEF CreateOrder
<1>2. /\ request[q].phase = "new"
      /\ \A p \in Requests : request'[p] = IF p = q THEN n ELSE request[p]
      /\ request' \in [Requests -> Request]
  BY <1>1 DEF CreateOrder, Inv, TypeOK, n
<1>3. TypeOK'
  BY <1>1, <1>2, <1>4 DEF Inv, TypeOK
<1>5. \A x \in Orders :
        /\ row'[x].status # "absent" <=> x = o \/ row[x].status # "absent"
        /\ \A c \in Codes : row'[<<x, c>>] = row[<<x, c>>]
  BY <1>4, Kinds DEF Exists
<1>6. \A c \in Codes : row[<<o, c>>].status = "absent"
  BY <1>4 DEF Inv, MilestonesTogether, Exists
<1>7. \A p \in Requests : request'[p].phase = "created" =>
        request[p].phase = "created" /\ request'[p].of = request[p].of
                                     /\ request[p].of \in Orders
  BY <1>1, <1>2 DEF Inv, Creating
<1>8. MilestonesTogether'
  <2>1. \A x \in Orders :
          \/ \A c \in Codes : row'[<<x, c>>].status # "absent" /\ row'[x].status # "absent"
          \/ \A c \in Codes : row'[<<x, c>>].status = "absent"
    BY <1>5, <1>6 DEF Inv, MilestonesTogether, Exists
  <2>2. \A p \in Requests : request'[p].phase = "created" =>
          \A c \in Codes : row'[<<request'[p].of, c>>].status # "absent"
    BY <1>5, <1>7 DEF Inv, MilestonesTogether, Exists
  <2> QED BY <2>1, <2>2 DEF MilestonesTogether, Exists
<1>9. Creating'
  <2>1. \A p \in Requests : request'[p].phase = "milestones" =>
          /\ request'[p].of \in Orders /\ row'[request'[p].of].status # "absent"
          /\ \A c \in Codes : row'[<<request'[p].of, c>>].status = "absent"
          /\ p # q => request'[p] = request[p] /\ request[p].of # o
    BY <1>1, <1>2, <1>4, <1>5, <1>6 DEF Inv, Creating, Exists
  <2>2. \A p, s \in Requests :
          request'[p].phase = "milestones" /\ request'[s].phase = "milestones"
            /\ request'[p].of = request'[s].of => p = s
    BY <1>1, <1>2, <2>1 DEF Inv, Creating
  <2> QED BY <1>7, <2>1, <2>2 DEF Creating, Exists
<1>10. ASSUME NEW p \in Requests, request'[p].phase = "write"
       PROVE  /\ request'[p] = request[p] /\ request[p].of \in Rows
              /\ row'[request[p].of] = row[request[p].of]
  <2>1. request'[p] = request[p] /\ request[p].of \in Rows /\ Exists(request[p].of)
    BY <1>1, <1>2, <1>10 DEF Inv, TypeOK, SeenRemains
  <2> QED BY <2>1, <1>4
<1>11. SeenRemains' /\ SerialSeen'
  BY <1>4, <1>10 DEF Inv, SeenRemains, SerialSeen, Exists
<1> QED BY <1>3, <1>4, <1>8, <1>9, <1>11 DEF Inv

(* So does the second one, which sees that there are no milestones yet. *)
LEMMA InsertMilestonesInv ==
  ASSUME Inv, NEW q \in Requests, InsertMilestones(q)
  PROVE  Inv'
<1> DEFINE o == request[q].of
           new == {o} \X Codes
<1>1. /\ o \in Orders /\ Exists(o) /\ request[q].phase = "milestones"
      /\ \A c \in Codes : ~Exists(<<o, c>>)
  BY DEF InsertMilestones, Inv, Creating
<1>2. \A s \in Rows : row'[s] = IF s \in new THEN Open ELSE row[s]
  BY DEF InsertMilestones
<1>3. row' \in [Rows -> Row]
  BY Constant DEF InsertMilestones, Inv, TypeOK
<1>4. /\ \A p \in Requests : /\ p # q => request'[p] = request[p]
                             /\ request'[p].of = request[p].of
      /\ request'[q].phase = "created"
      /\ request' \in [Requests -> Request]
      /\ noStart' = noStart /\ noEnd' = noEnd
  BY DEF InsertMilestones, Inv, TypeOK, Request, Phase
<1>5. \A s \in Rows : s \in new => ~Exists(s) /\ s \notin Orders
  BY <1>1, Kinds
<1> HIDE DEF o
<1>6. \A x \in Orders :
        /\ row'[x].status # "absent" <=> row[x].status # "absent"
        /\ \A c \in Codes : row'[<<x, c>>].status # "absent" <=>
                             x = o \/ row[<<x, c>>].status # "absent"
  BY <1>2, <1>5, Constant, Kinds DEF Exists
<1>7. TypeOK'
  BY <1>2, <1>3, <1>4, Constant DEF Inv, TypeOK
<1>8. StatusHasItsDate'
  BY <1>2, <1>4, Constant, Kinds DEF Inv, StatusHasItsDate
<1>9. MilestonesTogether'
  <2>1. \A x \in Orders :
          \/ \A c \in Codes : row'[<<x, c>>].status # "absent" /\ row'[x].status # "absent"
          \/ \A c \in Codes : row'[<<x, c>>].status = "absent"
    BY <1>1, <1>6 DEF Inv, MilestonesTogether, Exists
  <2>2. ASSUME NEW p \in Requests, request'[p].phase = "created", NEW c \in Codes
        PROVE  row'[<<request'[p].of, c>>].status # "absent"
    <3>1. CASE p = q
      BY <3>1, <1>1, <1>4, <1>6 DEF o
    <3>2. CASE p # q
      <4>1. /\ request[p].phase = "created" /\ request[p].of \in Orders
            /\ row[<<request[p].of, c>>].status # "absent"
        BY <3>2, <2>2, <1>4 DEF Inv, MilestonesTogether, Creating, Exists
      <4> QED BY <4>1, <1>4, <1>6
    <3> QED BY <3>1, <3>2
  <2> QED BY <2>1, <2>2 DEF MilestonesTogether, Exists
<1>10. Creating'
  <2>1. \A p \in Requests : request'[p].phase = "milestones" =>
          /\ request'[p] = request[p] /\ request[p].phase = "milestones"
          /\ request[p].of # o
    BY <1>1, <1>4 DEF Inv, Creating, o
  <2>2. \A p \in Requests : request'[p].phase = "created" => request'[p].of \in Orders
    BY <1>1, <1>4 DEF Inv, Creating, o
  <2>3. \A p \in Requests : request'[p].phase = "milestones" =>
          /\ request'[p].of \in Orders /\ row'[request'[p].of].status # "absent"
          /\ \A c \in Codes : row'[<<request'[p].of, c>>].status = "absent"
    BY <2>1, <1>6 DEF Inv, Creating, Exists
  <2>4. \A p, s \in Requests :
          request'[p].phase = "milestones" /\ request'[s].phase = "milestones"
            /\ request'[p].of = request'[s].of => p = s
    BY <2>1 DEF Inv, Creating
  <2> QED BY <2>2, <2>3, <2>4 DEF Creating, Exists
<1>11. \A p \in Requests : request'[p].phase = "write" =>
         /\ request'[p] = request[p] /\ request[p].of \in Rows
         /\ row'[request[p].of] = row[request[p].of]
  BY <1>2, <1>4, <1>5 DEF Inv, TypeOK, SeenRemains
<1>12. SeenRemains' /\ SerialSeen'
  BY <1>4, <1>11 DEF Inv, SeenRemains, SerialSeen, Exists
<1> QED BY <1>7, <1>8, <1>9, <1>10, <1>12 DEF Inv

(* Finding a row keeps it: what is read is the row. *)
LEMMA FindInv ==
  ASSUME Inv, NEW q \in Requests, NEW r \in Rows, Find(q, r)
  PROVE  Inv'
<1> DEFINE n == [phase |-> "write", of |-> r, seen |-> row[r]]
<1>1. /\ n \in Request /\ n.phase = "write" /\ n.of = r /\ n.seen = row[r]
      /\ row[r].status # "absent" /\ MayStart(r)
  BY DEF Find, Exists, Inv, TypeOK, Request, Phase
<1> HIDE DEF n
<1>2. /\ row' = row /\ noStart' = noStart /\ noEnd' = noEnd /\ request[q].phase = "new"
      /\ \A p \in Requests : request'[p] = IF p = q THEN n ELSE request[p]
      /\ request' \in [Requests -> Request]
  BY <1>1 DEF Find, Inv, TypeOK, n
<1>3. TypeOK' /\ StatusHasItsDate'
  BY <1>1, <1>2 DEF Inv, TypeOK, StatusHasItsDate
<1>4. MilestonesTogether' /\ Creating'
  BY <1>1, <1>2 DEF Inv, MilestonesTogether, Creating, Exists
<1>5. SeenRemains'
  BY <1>1, <1>2 DEF Inv, SeenRemains, Exists
<1>6. SerialSeen'
  BY <1>1, <1>2 DEF Inv, SerialSeen, MayStart
<1> QED BY <1>3, <1>4, <1>5, <1>6 DEF Inv

(* What the body and the handler make of a date, and what is written of it *)
(* to a row that may have changed since it was read.                       *)
LEMMA WriteDate ==
  ASSUME NEW q \in Requests, NEW named \in Date \cup {Unnamed}, NEW sets \in BOOLEAN,
         NEW seen \in Date, NEW now \in Date, NEW assigned, NEW after,
         assigned = IF named # Unnamed THEN named ELSE IF sets THEN q ELSE seen,
         after = IF assigned # seen THEN assigned ELSE now
  PROVE  /\ after \in Date
         /\ after = None =>
              \/ named = None
              \/ now = None /\ (seen # None \/ (named = Unnamed /\ ~sets))
         /\ now = seen /\ after # now =>
              (named # Unnamed /\ after = named) \/ (named = Unnamed /\ sets /\ after = q)
BY NoneAssumption DEF Date

(* What a flush of an update does to its row: its dates stay or are those  *)
(* of the request or its body, and a new status comes with its date.       *)
LEMMA WriteRow ==
  ASSUME Inv, NEW q \in Requests, NEW r \in Rows, NEW body \in Bodies(r),
         request[q].of = r, Write(q, body)
  PROVE  /\ row'[r] \in Row /\ row'[r].status # "absent"
         /\ \A s \in Rows : s # r => row'[s] = row[s]
         /\ row' \in [Rows -> Row]
         /\ noStart' \in SUBSET Dated /\ noEnd' \in SUBSET Dated
         /\ \A s : s # r => (s \in noStart => s \in noStart') /\ (s \in noEnd => s \in noEnd')
         /\ row[r].start # None \/ r \in noStart => row'[r].start # None \/ r \in noStart'
         /\ row[r].end # None \/ r \in noEnd => row'[r].end # None \/ r \in noEnd'
         /\ r \in Dated =>
              /\ row'[r].status = "running" => row'[r].start # None \/ r \in noStart'
              /\ row'[r].status = "finished" => row'[r].end # None \/ r \in noEnd'
         /\ row[r] = request[q].seen =>
              /\ row'[r].start # row[r].start =>
                   IF row'[r].start \in Requests
                     THEN row[r].start = None /\ row'[r].status = "running"
                     ELSE r \in Milestones
              /\ row'[r].end # row[r].end =>
                   IF row'[r].end \in Requests
                     THEN row'[r].status = "finished" /\ (r \in Orders \/ row[r].end = None)
                     ELSE r \in Milestones
<1> DEFINE seen == request[q].seen
           a == Assigned(r, seen, body, q)
           w == Written(row[r], seen, a)
<1>1. request[q].phase = "write"
  BY DEF Write
<1>2. /\ seen \in Row /\ row[r] \in Row /\ row[r].status # "absent" /\ seen.status # "absent"
      /\ seen.start # None => row[r].start # None \/ r \in noStart
      /\ seen.end # None => row[r].end # None \/ r \in noEnd
  BY <1>1 DEF Inv, TypeOK, Request, SeenRemains, Exists
<1>3. r \in Dated =>
        /\ row[r].status = "running" => row[r].start # None \/ r \in noStart
        /\ row[r].status = "finished" => row[r].end # None \/ r \in noEnd
  BY DEF Inv, StatusHasItsDate
<1>4. /\ body.to \in NewStatus \cup {"unnamed"}
      /\ body.start \in Date \cup {Unnamed} /\ body.end \in Date \cup {Unnamed}
      /\ body.start \notin Requests /\ body.end \notin Requests
      /\ r \notin Milestones => body.start = Unnamed /\ body.end = Unnamed
  <2>1. CASE r \in Milestones
    <3>1. body \in [to : NewStatus \cup {"unnamed"}, start : Named \cup {None, Unnamed},
                     end : Named \cup {None, Unnamed}]
      BY <2>1 DEF Bodies
    <3>2. /\ body.to \in NewStatus \cup {"unnamed"}
          /\ body.start \in Named \cup {None, Unnamed}
          /\ body.end \in Named \cup {None, Unnamed}
      BY <3>1
    <3> QED BY <2>1, <3>2, NoneAssumption, NamedAssumption, UnnamedAssumption DEF Date
  <2>2. CASE r \notin Milestones
    <3>1. body \in [to : NewStatus, start : {Unnamed}, end : {Unnamed}]
      BY <2>2 DEF Bodies
    <3>2. body.to \in NewStatus /\ body.start = Unnamed /\ body.end = Unnamed
      BY <3>1
    <3> QED BY <3>2, UnnamedAssumption DEF Date
  <2> QED BY <2>1, <2>2
<1>5. /\ a.status = IF body.to = "unnamed" THEN seen.status ELSE body.to
      /\ a.start = IF body.start # Unnamed THEN body.start
                   ELSE IF Starts(r, seen, body.to) THEN q ELSE seen.start
      /\ a.end = IF body.end # Unnamed THEN body.end
                 ELSE IF Ends(r, seen, body.to) THEN q ELSE seen.end
  BY DEF Assigned
<1> HIDE DEF a
<1>6. /\ w.status = IF a.status # seen.status THEN a.status ELSE row[r].status
      /\ w.start = IF a.start # seen.start THEN a.start ELSE row[r].start
      /\ w.end = IF a.end # seen.end THEN a.end ELSE row[r].end
      /\ w = [status |-> w.status, start |-> w.start, end |-> w.end]
  BY DEF Written
<1>7. /\ row' = [row EXCEPT ![r] = w]
      /\ noStart' = Without(noStart, r, body.start, w.start)
      /\ noEnd' = Without(noEnd, r, body.end, w.end)
  BY DEF Write, a
<1> HIDE DEF w, seen
<1>8. Starts(r, seen, body.to) \in BOOLEAN /\ Ends(r, seen, body.to) \in BOOLEAN
      /\ seen.start \in Date /\ row[r].start \in Date
      /\ seen.end \in Date /\ row[r].end \in Date
  BY <1>2 DEF Starts, Ends, Row
<1>9. /\ w.start \in Date
      /\ w.start = None =>
           \/ body.start = None
           \/ row[r].start = None
                /\ (seen.start # None \/ (body.start = Unnamed /\ ~Starts(r, seen, body.to)))
      /\ row[r].start = seen.start /\ w.start # row[r].start =>
           (body.start # Unnamed /\ w.start = body.start)
             \/ (body.start = Unnamed /\ Starts(r, seen, body.to) /\ w.start = q)
  BY <1>4, <1>5, <1>6, <1>8, WriteDate
<1>10. /\ w.end \in Date
       /\ w.end = None =>
            \/ body.end = None
            \/ row[r].end = None
                 /\ (seen.end # None \/ (body.end = Unnamed /\ ~Ends(r, seen, body.to)))
       /\ row[r].end = seen.end /\ w.end # row[r].end =>
            (body.end # Unnamed /\ w.end = body.end)
              \/ (body.end = Unnamed /\ Ends(r, seen, body.to) /\ w.end = q)
  <2>1. PICK sets : sets = Ends(r, seen, body.to)
    OBVIOUS
  <2>2. sets \in BOOLEAN
    BY <2>1, <1>8
  <2>3. PICK named : named = body.end
    OBVIOUS
  <2>4. named \in Date \cup {Unnamed}
    BY <2>3, <1>4
  <2>5. PICK assigned, after, read, now :
             assigned = a.end /\ after = w.end /\ read = seen.end /\ now = row[r].end
    OBVIOUS
  <2>6. /\ assigned = IF named # Unnamed THEN named ELSE IF sets THEN q ELSE read
        /\ after = IF assigned # read THEN assigned ELSE now
        /\ read \in Date /\ now \in Date
    BY <2>1, <2>3, <2>5, <1>5, <1>6, <1>8
  <2>7. /\ after \in Date
        /\ after = None =>
             \/ named = None
             \/ now = None /\ (read # None \/ (named = Unnamed /\ ~sets))
        /\ now = read /\ after # now =>
             (named # Unnamed /\ after = named) \/ (named = Unnamed /\ sets /\ after = q)
    <3> HIDE <1>4, <1>5, <1>6, <1>8
    <3> QED BY <2>2, <2>4, <2>6, WriteDate
  <2> QED BY <2>1, <2>3, <2>5, <2>7
<1>11. w.status \in NewStatus
  BY <1>2, <1>4, <1>5, <1>6 DEF Row, NewStatus
<1>12. w \in Row
  BY <1>6, <1>9, <1>10, <1>11 DEF Row, NewStatus
<1>13. /\ row'[r] = w /\ row' \in [Rows -> Row]
       /\ \A s \in Rows : s # r => row'[s] = row[s]
  BY <1>7, <1>12 DEF Inv, TypeOK
<1>14. r \notin Dated => r \notin Milestones /\ body.start = Unnamed /\ body.end = Unnamed
  BY <1>4 DEF Dated
<1>15. /\ noStart' \in SUBSET Dated /\ noEnd' \in SUBSET Dated
       /\ \A s : s # r => (s \in noStart => s \in noStart') /\ (s \in noEnd => s \in noEnd')
  BY <1>7, <1>14, UnnamedAssumption DEF Without, Inv, TypeOK
<1>16. /\ w.start = None => (r \in noStart' <=> body.start = None \/ r \in noStart)
       /\ w.end = None => (r \in noEnd' <=> body.end = None \/ r \in noEnd)
  BY <1>7 DEF Without
<1>17. /\ row[r].start # None \/ r \in noStart => w.start # None \/ r \in noStart'
       /\ row[r].end # None \/ r \in noEnd => w.end # None \/ r \in noEnd'
  BY <1>9, <1>10, <1>16
<1>18. ASSUME r \in Dated, w.status = "running", w.start = None PROVE r \in noStart'
  <2>1. CASE body.start = None
    BY <2>1, <1>16, <1>18
  <2>2. CASE row[r].start = None /\ seen.start # None
    BY <2>2, <1>2, <1>16, <1>18
  <2>3. CASE /\ row[r].start = None /\ seen.start = None /\ ~Starts(r, seen, body.to)
    <3>1. body.to # "running"
      BY <2>3, <1>18 DEF Starts
    <3>2. w.status = row[r].status
      BY <3>1, <1>4, <1>5, <1>6, <1>18 DEF NewStatus
    <3> QED BY <2>3, <3>2, <1>3, <1>16, <1>18
  <2> QED BY <2>1, <2>2, <2>3, <1>9, <1>18
<1>19. ASSUME r \in Dated, w.status = "finished", w.end = None PROVE r \in noEnd'
  <2>1. CASE body.end = None
    BY <2>1, <1>16, <1>19
  <2>2. CASE row[r].end = None /\ seen.end # None
    BY <2>2, <1>2, <1>16, <1>19
  <2>3. CASE /\ row[r].end = None /\ seen.end = None /\ ~Ends(r, seen, body.to)
    <3>1. body.to # "finished"
      BY <2>3, <1>19 DEF Ends
    <3>2. w.status = row[r].status
      BY <3>1, <1>4, <1>5, <1>6, <1>19 DEF NewStatus
    <3> QED BY <2>3, <3>2, <1>3, <1>16, <1>19
  <2> QED BY <2>1, <2>2, <2>3, <1>10, <1>19
<1>20. ASSUME row[r] = seen, w.start # row[r].start
       PROVE  IF w.start \in Requests THEN row[r].start = None /\ w.status = "running"
                                       ELSE r \in Milestones
  <2>1. CASE body.start # Unnamed /\ w.start = body.start
    BY <2>1, <1>4
  <2>2. CASE Starts(r, seen, body.to) /\ w.start = q
    <3>1. body.to = "running" /\ seen.start = None
      BY <2>2 DEF Starts
    <3> QED BY <2>2, <3>1, <1>5, <1>6, <1>20
  <2> QED BY <2>1, <2>2, <1>9, <1>20
<1>21. ASSUME row[r] = seen, w.end # row[r].end
       PROVE  IF w.end \in Requests
                THEN w.status = "finished" /\ (r \in Orders \/ row[r].end = None)
                ELSE r \in Milestones
  <2>1. CASE body.end # Unnamed /\ w.end = body.end
    BY <2>1, <1>4
  <2>2. CASE Ends(r, seen, body.to) /\ w.end = q
    <3>1. body.to = "finished" /\ (r \in Orders \/ seen.end = None)
      BY <2>2 DEF Ends
    <3> QED BY <2>2, <3>1, <1>5, <1>6, <1>21
  <2> QED BY <2>1, <2>2, <1>10, <1>21
<1> QED BY <1>11, <1>12, <1>13, <1>15, <1>17, <1>18, <1>19, <1>20, <1>21 DEF NewStatus, seen

LEMMA WriteInv ==
  ASSUME Inv, NEW q \in Requests, NEW r \in Rows, NEW body \in Bodies(r), Write(q, body)
  PROVE  Inv'
<1>1. request[q].phase = "write" /\ request[q].of \in Rows
  BY DEF Write, Inv, TypeOK
<1> DEFINE x == request[q].of
<1>0. /\ x \in Rows /\ body \in Bodies(x)
  BY <1>1 DEF Write
<1>2. /\ row'[x] \in Row /\ row'[x].status # "absent"
      /\ \A s \in Rows : s # x => row'[s] = row[s]
      /\ row' \in [Rows -> Row]
      /\ noStart' \in SUBSET Dated /\ noEnd' \in SUBSET Dated
      /\ \A s : s # x => (s \in noStart => s \in noStart') /\ (s \in noEnd => s \in noEnd')
      /\ row[x].start # None \/ x \in noStart => row'[x].start # None \/ x \in noStart'
      /\ row[x].end # None \/ x \in noEnd => row'[x].end # None \/ x \in noEnd'
      /\ x \in Dated =>
           /\ row'[x].status = "running" => row'[x].start # None \/ x \in noStart'
           /\ row'[x].status = "finished" => row'[x].end # None \/ x \in noEnd'
  BY <1>0, WriteRow
<1>3. row[x].status # "absent"
  BY <1>1 DEF Inv, SeenRemains, Exists
<1>4. Over("done") \in Request /\ Over("done").phase = "done"
  BY OverIsRequest DEF Phase
<1>5. /\ \A p \in Requests : p # q => request'[p] = request[p]
      /\ request'[q].phase = "done"
      /\ request' \in [Requests -> Request]
  BY <1>4 DEF Write, Inv, TypeOK
<1> HIDE DEF x
<1>6. TypeOK'
  BY <1>0, <1>2, <1>5 DEF Inv, TypeOK
<1>7. StatusHasItsDate'
  BY <1>2, Kinds DEF Inv, StatusHasItsDate
<1>8. /\ \A s \in Rows : row'[s].status # "absent" <=> row[s].status # "absent"
      /\ \A p \in Requests : request'[p].phase \in {"created", "milestones"} =>
           request'[p] = request[p] /\ request[p].of \in Orders
  BY <1>0, <1>2, <1>3, <1>5 DEF Inv, Creating
<1>9. MilestonesTogether'
  <2>1. \A o \in Orders :
          \/ \A c \in Codes : row'[<<o, c>>].status # "absent" /\ row'[o].status # "absent"
          \/ \A c \in Codes : row'[<<o, c>>].status = "absent"
    BY <1>8, Kinds DEF Inv, MilestonesTogether, Exists
  <2>2. \A p \in Requests : request'[p].phase = "created" =>
          \A c \in Codes : row'[<<request'[p].of, c>>].status # "absent"
    BY <1>8, Kinds DEF Inv, MilestonesTogether, Exists
  <2> QED BY <2>1, <2>2 DEF MilestonesTogether, Exists
<1>10. Creating'
  <2>1. \A p \in Requests : request'[p].phase = "milestones" =>
          /\ request'[p].of \in Orders /\ row'[request'[p].of].status # "absent"
          /\ \A c \in Codes : row'[<<request'[p].of, c>>].status = "absent"
    BY <1>8, Kinds DEF Inv, Creating, Exists
  <2>2. \A p, s \in Requests :
          request'[p].phase = "milestones" /\ request'[s].phase = "milestones"
            /\ request'[p].of = request'[s].of => p = s
    BY <1>8 DEF Inv, Creating
  <2> QED BY <1>8, <2>1, <2>2 DEF Creating, Exists
<1>11. \A p \in Requests : request'[p].phase = "write" =>
         /\ p # q /\ request'[p] = request[p] /\ request[p].of \in Rows
  BY <1>5 DEF Inv, TypeOK
<1>12. SeenRemains'
  BY <1>2, <1>8, <1>11 DEF Inv, SeenRemains, Exists
<1>13. \A p \in Requests : request'[p].phase = "write" /\ request'[p].of \in Serial =>
         request'[p].of # x
  BY <1>1, <1>11 DEF Inv, SerialSeen, x
<1>14. SerialSeen'
  BY <1>2, <1>11, <1>13 DEF Inv, SerialSeen
<1> QED BY <1>6, <1>7, <1>9, <1>10, <1>12, <1>14 DEF Inv

LEMMA BreakInv ==
  ASSUME Inv, NEW q \in Requests, Break(q)
  PROVE  Inv'
<1>0. Over("done") \in Request /\ Over("done").phase = "done"
  BY OverIsRequest DEF Phase
<1>1. /\ row' = row /\ noStart' = noStart /\ noEnd' = noEnd
      /\ \A p \in Requests : p # q => request'[p] = request[p]
      /\ request'[q].phase = "done" /\ request' \in [Requests -> Request]
  BY <1>0 DEF Break, Inv, TypeOK
<1>2. TypeOK' /\ StatusHasItsDate'
  BY <1>1 DEF Inv, TypeOK, StatusHasItsDate
<1>3. MilestonesTogether' /\ Creating'
  BY <1>1 DEF Inv, MilestonesTogether, Creating, Exists
<1>4. SeenRemains' /\ SerialSeen'
  BY <1>1 DEF Inv, SeenRemains, SerialSeen, Exists
<1> QED BY <1>2, <1>3, <1>4 DEF Inv

LEMMA InvNext == Inv /\ [Next]_vars => Inv'
<1> SUFFICES ASSUME Inv, [Next]_vars PROVE Inv'
  OBVIOUS
<1>1. CASE \E q \in Requests : \E r \in Plans \cup Rfqs : \E new \in NewRows(r) :
             Create(q, r, new)
  BY <1>1, CreateInv
<1>2. CASE \E q \in Requests : \E o \in Orders : \E new \in NewRows(o) :
             CreateOrder(q, o, new)
  BY <1>2, CreateOrderInv
<1>3. CASE \E q \in Requests : InsertMilestones(q)
  BY <1>3, InsertMilestonesInv
<1>4. CASE \E q \in Requests : \E r \in Rows : Find(q, r)
  BY <1>4, FindInv
<1>5. CASE \E q \in Requests : \E r \in Rows : \E body \in Bodies(r) : Write(q, body)
  BY <1>5, WriteInv
<1>6. CASE \E q \in Requests : Break(q)
  BY <1>6, BreakInv
<1>7. CASE UNCHANGED vars
  BY <1>7 DEF vars, Inv, TypeOK, StatusHasItsDate, MilestonesTogether, Creating, SeenRemains,
       SerialSeen, Exists
<1> QED BY <1>1, <1>2, <1>3, <1>4, <1>5, <1>6, <1>7 DEF Next

(* Every reachable state satisfies the invariant: the handlers of           *)
(* production, plans and requests for quotation keep it step by step.      *)
THEOREM Invariant == Spec => []Inv
BY InitInv, InvNext, PTL DEF Spec

(* ------------------------------------------------------------------------- *)
(* The variables keep their types, a row that is not there is blank, and   *)
(* what an update will write to is a row that it has found.                *)
THEOREM TypeCorrect == Spec => []TypeOK
BY Invariant, PTL DEF Inv

(* updateOrderStatus, updateMilestone and updatePlanStatus: whatever runs  *)
(* or is finished has its date, for any overlap of updates of one row,     *)
(* unless a body has left it without.                                      *)
THEOREM DatesAreThere == Spec => []StatusHasItsDate
BY Invariant, PTL DEF Inv

(* createOrder: an order has all of its milestones or none of them.        *)
THEOREM MilestonesAreTogether == Spec => []MilestonesTogether
BY Invariant, PTL DEF Inv

(* One update of a row at a time: the dates that handlers set move only    *)
(* with the status that they belong to, and bodies set only milestones'.   *)
THEOREM DatesMove == Spec => DatesMoveWithStatus
<1> DEFINE Moves ==
             \A r \in Serial : Exists(r) =>
               /\ row'[r].start # row[r].start =>
                    IF row'[r].start \in Requests
                      THEN row[r].start = None /\ row'[r].status = "running"
                      ELSE r \in Milestones
               /\ row'[r].end # row[r].end =>
                    IF row'[r].end \in Requests
                      THEN row'[r].status = "finished" /\ (r \in Orders \/ row[r].end = None)
                      ELSE r \in Milestones
<1>1. Inv /\ [Next]_vars => Moves
  <2> SUFFICES ASSUME Inv, [Next]_vars, NEW r \in Serial, Exists(r), row'[r] # row[r]
               PROVE  /\ row'[r].start # row[r].start =>
                           IF row'[r].start \in Requests
                             THEN row[r].start = None /\ row'[r].status = "running"
                             ELSE r \in Milestones
                      /\ row'[r].end # row[r].end =>
                           IF row'[r].end \in Requests
                             THEN row'[r].status = "finished"
                                    /\ (r \in Orders \/ row[r].end = None)
                             ELSE r \in Milestones
    OBVIOUS
  <2>1. r \in Rows /\ row[r].status # "absent"
    BY DEF Serial, Exists
  <2>2. PICK q \in Requests :
             request[q].of = r /\ \E body \in Bodies(r) : Write(q, body)
    <3>1. ASSUME NEW q \in Requests, NEW s \in Rows, NEW new \in NewRows(s), Insert(s, new)
          PROVE FALSE
      BY <3>1, <2>1, InsertInv DEF Exists
    <3>2. \A s \in Plans \cup Rfqs \cup Orders : s \in Rows
      BY DEF Rows, Dated
    <3>3. ASSUME NEW q \in Requests, InsertMilestones(q) PROVE FALSE
      <4>1. \A c \in Codes : row[<<request[q].of, c>>].status = "absent"
        BY <3>3 DEF InsertMilestones, Inv, Creating, Exists
      <4>2. r \in {request[q].of} \X Codes
        BY <3>3, <2>1 DEF InsertMilestones
      <4> QED BY <4>1, <4>2, <2>1
    <3>4. ASSUME NEW q \in Requests, NEW body, Write(q, body)
          PROVE  request[q].of = r /\ body \in Bodies(r)
      BY <3>4, <2>1 DEF Write, Inv, TypeOK
    <3>5. ASSUME row' = row PROVE FALSE
      BY <3>5
    <3> QED BY <3>1, <3>2, <3>3, <3>4, <3>5 DEF Next, vars, Create, CreateOrder, Find, Break
  <2>3. row[r] = request[q].seen
    BY <2>2 DEF Write, Inv, SerialSeen
  <2> QED BY <2>1, <2>2, <2>3, WriteRow
<1> QED BY <1>1, Invariant, PTL DEF Spec, DatesMoveWithStatus

-----------------------------------------------------------------------------
(* The offers for shipment plans and requests for quotation, and the       *)
(* selects among them: theorems about OfferSelection, for every value of   *)
(* its constants.                                                          *)

(* A request that has begun has an offer of the table, and what it found   *)
(* to unselect are offers of the same tender.                              *)
OfferTold(q) ==
  /\ select[q].offer \in made
  /\ select[q].phase = "find" => Tender(q) # Nothing
  /\ \A o \in select[q].others : TenderOf[o] = Tender(q) /\ Tender(q) # Nothing

(* Where selects do not overlap, what a request has read is still so.      *)
OfferFresh(q) ==
  Tender(q) \in Uncontested =>
    /\ select[q].was <=> select[q].offer \in selected
    /\ select[q].phase = "flush" => select[q].others = Found(Tender(q))

SelectsApart ==
  \A p, q \in Selects :
    Selecting(p) /\ Selecting(q) /\ Tender(p) = Tender(q) /\ Tender(p) \in Uncontested
      => p = q

OfferInv ==
  /\ SelectTypeOK
  /\ \A q \in Selects : Selecting(q) => OfferTold(q) /\ OfferFresh(q)
  /\ SelectsApart
  /\ OneSelected

LEMMA OfferInitInv == SelectInit => OfferInv
BY DEF SelectInit, OfferInv, SelectTypeOK, Select, SelectPhase, Selecting, SelectsApart, OneSelected

LEMMA OfferAddInv ==
  ASSUME OfferInv, NEW o \in Offers, Add(o)
  PROVE  OfferInv'
BY DEF Add, OfferInv, SelectTypeOK, Selecting, OfferTold, OfferFresh, SelectsApart,
       OneSelected, Found, Tender

LEMMA OfferBeginInv ==
  ASSUME OfferInv, NEW o \in Offers, NEW q \in Selects, Begin(q, o)
  PROVE  OfferInv'
<1> DEFINE new == [phase |-> IF TenderOf[o] = Nothing THEN "flush" ELSE "find",
                   offer |-> o, was |-> o \in selected, others |-> {}]
<1>1. new \in Select
  BY DEF Select, SelectPhase
<1>2. /\ select \in [Selects -> Select]
      /\ select' = [select EXCEPT ![q] = new]
      /\ select'[q] = new
      /\ \A p \in Selects : p # q => select'[p] = select[p]
      /\ selected' = selected /\ made' = made /\ o \in made /\ MaySelect(TenderOf[o])
  BY DEF OfferInv, SelectTypeOK, Begin
<1>3. /\ new.offer = o /\ new.was = (o \in selected) /\ new.others = {}
      /\ new.phase = "flush" => TenderOf[o] = Nothing
      /\ new.phase = "find" => TenderOf[o] # Nothing
      /\ new.phase \in {"flush", "find"}
  OBVIOUS
<1>4. new.phase = "flush" => TenderOf[o] \notin Uncontested
  BY <1>3, NothingAssumption DEF Uncontested
<1> HIDE DEF new
<1>5. SelectTypeOK'
  BY <1>1, <1>2 DEF OfferInv, SelectTypeOK
<1>6. Selecting(q)' => OfferTold(q)' /\ OfferFresh(q)'
  BY <1>2, <1>3, <1>4 DEF OfferTold, OfferFresh, Tender, Selecting
<1>7. ASSUME NEW p \in Selects, p # q
      PROVE  /\ Selecting(p)' <=> Selecting(p)
             /\ Tender(p)' = Tender(p)
             /\ OfferTold(p)' <=> OfferTold(p)
             /\ OfferFresh(p)' <=> OfferFresh(p)
  BY <1>2, <1>7 DEF Selecting, Tender, OfferTold, OfferFresh, Found
<1>8. \A p \in Selects : Selecting(p)' => OfferTold(p)' /\ OfferFresh(p)'
  BY <1>6, <1>7 DEF OfferInv
<1>9. SelectsApart'
  <2> SUFFICES ASSUME NEW p \in Selects, NEW r \in Selects, p # r,
                      Selecting(p)', Selecting(r)', Tender(p)' = Tender(r)',
                      Tender(p)' \in Uncontested
               PROVE  FALSE
    BY DEF SelectsApart, Uncontested
  <2>1. CASE p # q /\ r # q
    BY <2>1, <1>7 DEF OfferInv, SelectsApart
  <2>2. Tender(q)' = TenderOf[o]
    BY <1>2, <1>3 DEF Tender
  <2>3. CASE p = q
    <3>1. r # q /\ Selecting(r) /\ Tender(r) = TenderOf[o] /\ TenderOf[o] \in Uncontested
      BY <2>2, <2>3, <1>7
    <3> QED BY <3>1, <1>2 DEF MaySelect
  <2>4. CASE r = q
    <3>1. p # q /\ Selecting(p) /\ Tender(p) = TenderOf[o] /\ TenderOf[o] \in Uncontested
      BY <2>2, <2>4, <1>7
    <3> QED BY <3>1, <1>2 DEF MaySelect
  <2> QED BY <2>1, <2>3, <2>4
<1>10. OneSelected'
  BY <1>2 DEF OfferInv, OneSelected
<1> QED BY <1>5, <1>8, <1>9, <1>10 DEF OfferInv

LEMMA OfferFindInv ==
  ASSUME OfferInv, NEW q \in Selects, FindOthers(q)
  PROVE  OfferInv'
<1> DEFINE o == select[q].offer
           t == Tender(q)
           new == [phase |-> "flush", offer |-> o, was |-> select[q].was \/ o \in Found(t),
                   others |-> Found(t)]
<1>1. select[q] \in Select /\ OfferTold(q) /\ OfferFresh(q) /\ Selecting(q) /\ o \in made
      /\ o \in Offers /\ t # Nothing /\ selected \subseteq made /\ made \subseteq Offers
  BY DEF OfferInv, SelectTypeOK, FindOthers, Selecting, OfferTold
<1>2. new \in Select
  BY <1>1 DEF Select, SelectPhase, Found
<1>3. /\ select' = [select EXCEPT ![q] = new]
      /\ select'[q] = new
      /\ \A p \in Selects : p # q => select'[p] = select[p]
      /\ selected' = selected /\ made' = made
  BY DEF OfferInv, SelectTypeOK, FindOthers
<1>4. /\ new.offer = o /\ new.phase = "flush" /\ new.others = Found(t)
      /\ t \in Uncontested => (new.was <=> o \in selected)
  BY <1>1 DEF OfferFresh, Found, Tender
<1>5. Tender(q)' = t /\ Selecting(q)'
  BY <1>3, <1>4 DEF Tender, Selecting
<1> HIDE DEF new
<1>6. SelectTypeOK'
  BY <1>2, <1>3 DEF OfferInv, SelectTypeOK
<1>7. OfferTold(q)' /\ OfferFresh(q)'
  BY <1>1, <1>3, <1>4, <1>5 DEF OfferTold, OfferFresh, Found
<1>8. ASSUME NEW p \in Selects, p # q
      PROVE  /\ Selecting(p)' <=> Selecting(p)
             /\ Tender(p)' = Tender(p)
             /\ OfferTold(p)' <=> OfferTold(p)
             /\ OfferFresh(p)' <=> OfferFresh(p)
  BY <1>3, <1>8 DEF Selecting, Tender, OfferTold, OfferFresh, Found
<1>9. SelectsApart'
  BY <1>1, <1>5, <1>8 DEF OfferInv, SelectsApart
<1>10. OneSelected'
  BY <1>3 DEF OfferInv, OneSelected
<1> QED BY <1>6, <1>7, <1>8, <1>9, <1>10 DEF OfferInv

(* What a flush does: other tenders keep their offers, and a tender whose  *)
(* selects do not overlap has the request's offer alone.                   *)
LEMMA FlushSelects ==
  ASSUME OfferInv, NEW q \in Selects, Flush(q)
  PROVE  /\ Selecting(q) /\ select[q].offer \in made /\ made \subseteq Offers
         /\ selected' \subseteq made
         /\ \A p \in Offers : TenderOf[p] # Tender(q) => (p \in selected' <=> p \in selected)
         /\ Tender(q) = Nothing => selected \subseteq selected'
         /\ Tender(q) \in Uncontested => Found(Tender(q))' = {select[q].offer}
<1>1. /\ Selecting(q) /\ OfferTold(q) /\ OfferFresh(q)
      /\ selected \subseteq made /\ made \subseteq Offers
  BY DEF OfferInv, SelectTypeOK, Flush, Selecting
<1>2. selected' = (selected \ (select[q].others \ {select[q].offer}))
                    \cup (IF select[q].was THEN {} ELSE {select[q].offer})
  BY DEF Flush, SelectedAfter
<1>3. \A p \in Offers : TenderOf[p] # Tender(q) => (p \in selected' <=> p \in selected)
  BY <1>1, <1>2 DEF OfferTold, Tender
<1>4. Tender(q) = Nothing => selected \subseteq selected'
  BY <1>1, <1>2 DEF OfferTold
<1>5. ASSUME Tender(q) \in Uncontested PROVE Found(Tender(q))' = {select[q].offer}
  <2>1. /\ select[q].others = Found(Tender(q))
        /\ select[q].was <=> select[q].offer \in selected
    BY <1>1, <1>5 DEF OfferFresh, Flush
  <2>2. Tender(q)' = Tender(q)
    BY DEF Flush, OfferInv, SelectTypeOK, Tender, Select
  <2>3. \A p : p \in selected' /\ TenderOf[p] = Tender(q) <=> p = select[q].offer
    BY <1>2, <2>1 DEF Found, Tender
  <2> QED BY <2>2, <2>3 DEF Found
<1> QED BY <1>1, <1>2, <1>3, <1>4, <1>5 DEF OfferTold

LEMMA OfferFlushInv ==
  ASSUME OfferInv, NEW q \in Selects, Flush(q)
  PROVE  OfferInv'
<1>1. /\ Selecting(q) /\ select[q].offer \in made /\ made \subseteq Offers
      /\ selected' \subseteq made
      /\ \A p \in Offers : TenderOf[p] # Tender(q) => (p \in selected' <=> p \in selected)
      /\ Tender(q) \in Uncontested => Found(Tender(q))' = {select[q].offer}
  BY FlushSelects
<1>2. /\ select' = [select EXCEPT ![q].phase = "done"]
      /\ select[q] \in Select /\ made' = made
      /\ \A p \in Selects : p # q => select'[p] = select[p]
      /\ select'[q] = [select[q] EXCEPT !.phase = "done"]
  BY DEF OfferInv, SelectTypeOK, Flush
<1>3. select'[q] \in Select /\ select'[q].phase = "done"
  BY <1>2 DEF Select, SelectPhase
<1>4. ~Selecting(q)'
  BY <1>3 DEF Selecting
<1>5. SelectTypeOK'
  BY <1>1, <1>2, <1>3 DEF OfferInv, SelectTypeOK
<1>6. ASSUME NEW p \in Selects, p # q
      PROVE  /\ Selecting(p)' <=> Selecting(p)
             /\ Tender(p)' = Tender(p)
             /\ OfferTold(p)' <=> OfferTold(p)
  BY <1>2, <1>6 DEF Selecting, Tender, OfferTold
<1>7. ASSUME NEW p \in Selects, Selecting(p)' PROVE OfferTold(p)' /\ OfferFresh(p)'
  <2>1. /\ p # q /\ Selecting(p) /\ OfferTold(p) /\ OfferFresh(p)
        /\ OfferTold(p)' /\ Tender(p)' = Tender(p)
    BY <1>4, <1>6, <1>7 DEF OfferInv
  <2>2. ASSUME Tender(p) \in Uncontested
        PROVE  /\ select[p].offer \in selected' <=> select[p].offer \in selected
               /\ Found(Tender(p))' = Found(Tender(p))
    <3>1. Tender(p) # Tender(q)
      BY <2>1, <2>2, <1>1 DEF OfferInv, SelectsApart
    <3>2. select[p].offer \in Offers /\ TenderOf[select[p].offer] = Tender(p)
      BY <2>1, <1>1 DEF OfferTold, Tender
    <3>3. \A x : TenderOf[x] = Tender(p) => (x \in selected' <=> x \in selected)
      BY <3>1, <1>1 DEF OfferInv, SelectTypeOK
    <3> QED BY <2>1, <3>2, <3>3 DEF Found
  <2> QED BY <2>1, <2>2, <1>2 DEF OfferFresh
<1>8. SelectsApart'
  BY <1>4, <1>6 DEF OfferInv, SelectsApart
<1>9. OneSelected'
  <2> SUFFICES ASSUME NEW x \in selected', NEW y \in selected',
                      TenderOf[x] = TenderOf[y], TenderOf[x] \in Uncontested
               PROVE  x = y
    BY DEF OneSelected, Uncontested
  <2>1. x \in Offers /\ y \in Offers
    BY <1>1
  <2>2. CASE TenderOf[x] = Tender(q)
    <3>1. Tender(q)' = Tender(q)
      BY <1>2 DEF Tender, Select
    <3>2. x \in Found(Tender(q))' /\ y \in Found(Tender(q))'
      BY <2>2, <3>1 DEF Found
    <3> QED BY <3>2, <2>2, <1>1
  <2>3. CASE TenderOf[x] # Tender(q)
    BY <2>1, <2>3, <1>1 DEF OfferInv, OneSelected
  <2> QED BY <2>2, <2>3
<1> QED BY <1>5, <1>7, <1>8, <1>9 DEF OfferInv

LEMMA OfferStepInv ==
  ASSUME OfferInv, [SelectNext]_selectVars
  PROVE  OfferInv'
<1>1. CASE UNCHANGED selectVars
  BY <1>1 DEF selectVars, OfferInv, SelectTypeOK, Selecting, OfferTold, OfferFresh, SelectsApart,
       OneSelected, Found, Tender
<1>2. CASE SelectNext
  BY <1>2, OfferAddInv, OfferBeginInv, OfferFindInv, OfferFlushInv DEF SelectNext
<1> QED BY <1>1, <1>2

(* Every reachable state satisfies the invariant: offers and selects keep  *)
(* it step by step.                                                        *)
THEOREM OffersInvariant == SelectSpec => []OfferInv
BY OfferInitInv, OfferStepInv, PTL DEF SelectSpec

(* Type correctness of the specification. *)
THEOREM OffersTypeCorrect == SelectSpec => []SelectTypeOK
<1>1. OfferInv => SelectTypeOK
  BY DEF OfferInv
<1> QED BY OffersInvariant, <1>1, PTL

(* Where selects do not overlap, a tender has one selected offer at most.  *)
THEOREM OneSelectedHolds == SelectSpec => []OneSelected
<1>1. OfferInv => OneSelected
  BY DEF OfferInv
<1> QED BY OffersInvariant, <1>1, PTL

(* However selects overlap, a quote without a plan stays selected.         *)
THEOREM LoneStaySelectedHolds == SelectSpec => LoneStaySelected
<1>1. ASSUME OfferInv, [SelectNext]_selectVars
      PROVE  [\A o \in selected : TenderOf[o] = Nothing => o \in selected']_selectVars
  <2>1. CASE selected' = selected
    BY <2>1
  <2>2. ASSUME NEW q \in Selects, Flush(q)
        PROVE  \A o \in selected : TenderOf[o] = Nothing => o \in selected'
    BY <2>2, <1>1, FlushSelects DEF OfferInv, SelectTypeOK
  <2> QED BY <2>1, <2>2, <1>1 DEF SelectNext, Add, Begin, FindOthers, selectVars
<1> QED BY OffersInvariant, <1>1, PTL DEF SelectSpec, LoneStaySelected

(* Where selects do not overlap, selecting implements choosing: the        *)
(* selected offer of a tender is the one selected last.                    *)
THEOREM ChoiceImplemented == SelectSpec => ImplementsChoice
<1> DEFINE chosen == [t \in Uncontested |-> Found(t)]
<1>1. SelectInit => Choice!Init
  BY DEF SelectInit, Choice!Init, Found
<1>2. ASSUME OfferInv, [SelectNext]_selectVars
      PROVE  [Choice!Next]_chosen
  <2>1. CASE selected' = selected
    BY <2>1 DEF Found
  <2>2. ASSUME NEW q \in Selects, Flush(q)
        PROVE  [Choice!Next]_chosen
    <3>1. /\ select[q].offer \in Offers /\ selected \subseteq Offers /\ selected' \subseteq Offers
          /\ \A p \in Offers : TenderOf[p] # Tender(q) => (p \in selected' <=> p \in selected)
          /\ Tender(q) \in Uncontested => Found(Tender(q))' = {select[q].offer}
          /\ Tender(q)' = Tender(q)
      BY <1>2, <2>2, FlushSelects DEF OfferInv, SelectTypeOK, Flush, Tender, Select
    <3>2. \A t \in Uncontested : t # Tender(q) => Found(t)' = Found(t)
      BY <3>1 DEF Found
    <3>3. CASE Tender(q) \notin Uncontested
      <4>1. \A t \in Uncontested : Found(t)' = Found(t)
        BY <3>2, <3>3
      <4>2. chosen' = chosen
        BY <4>1
      <4> QED BY <4>2
    <3>4. CASE Tender(q) \in Uncontested
      <4>1. chosen' = [chosen EXCEPT ![Tender(q)] = {select[q].offer}]
        BY <3>1, <3>2, <3>4
      <4>2. Choice!Choose(Tender(q), select[q].offer)
        BY <4>1 DEF Choice!Choose
      <4> QED BY <4>2, <3>1, <3>4 DEF Choice!Next
    <3> QED BY <3>3, <3>4
  <2> QED BY <2>1, <2>2, <1>2 DEF SelectNext, Add, Begin, FindOthers, selectVars
<1> QED BY OffersInvariant, <1>1, <1>2, PTL DEF SelectSpec, ImplementsChoice, Choice!Spec
=============================================================================
