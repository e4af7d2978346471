-------------------------- MODULE NotificationsProofs --------------------------
(* Proofs about Notifications, for every value of its constants.           *)
EXTENDS Notifications, TLAPS

(* What a request goes on, while others run: the rows that it found are    *)
(* its recipient's, what it has not found is read, and a clear found read  *)
(* rows; where requests do not overlap, what it marks is still unread.     *)
Told(q) ==
  /\ request[q].phase = "insert" =>
       /\ request[q].op \in {"create", "broadcast"}
       /\ request[q].found \subseteq {q} \X Users
       /\ request[q].op = "broadcast" => {q} \X steady[q] \subseteq request[q].found
  /\ request[q].phase = "mark" =>
       /\ request[q].op \in {"read", "readAll"}
       /\ request[q].found \subseteq Of(request[q].user)
       /\ request[q].op = "readAll" =>
            \A r \in before[q] : Recipient(r) = request[q].user => r \in read \cup request[q].found
       /\ request[q].user \in Serial => request[q].found \cap read = {}
  /\ request[q].phase = "remove" =>
       /\ request[q].op \in {"delete", "clear"}
       /\ request[q].found \subseteq Of(request[q].user)
       /\ request[q].op = "clear" => request[q].found \subseteq read

(* What is in the table was written by requests that are over.             *)
Over(q) == request[q].phase = "done"
WrittenByOver ==
  /\ \A r \in sent : Over(r[1])
  /\ \A r \in Rows : /\ readAt[r] # None => Over(readAt[r])
                     /\ deletedAt[r] # None => Over(deletedAt[r])

Apart ==
  \A p, q \in Requests :
    Running(p) /\ Running(q) /\ request[p].user = request[q].user
      /\ request[p].user \in Serial => p = q

Inv ==
  /\ TypeOK
  /\ \A q \in Requests : Told(q)
  /\ WrittenByOver
  /\ Apart
  /\ BroadcastReachesAll /\ ReadAllReads /\ RecipientsDecide

LEMMA InitInv == Init => Inv
<1> SUFFICES ASSUME Init PROVE Inv
  OBVIOUS
<1>1. TypeOK
  BY DEF Init, TypeOK, Request, Phase, Operation, Rows
<1>2. \A q \in Requests : request[q].phase = "new" /\ request[q].op = "none"
  BY DEF Init
<1>3. \A r \in Rows : readAt[r] = None /\ deletedAt[r] = None
  BY DEF Init
<1>4. sent = {}
  BY DEF Init
<1> QED BY <1>1, <1>2, <1>3, <1>4 DEF Inv, Told, WrittenByOver, Apart, Running,
           BroadcastReachesAll, ReadAllReads, RecipientsDecide

(* The users change, and every history of who stayed with them.            *)
LEMMA UsersChangeInv ==
  ASSUME Inv, NEW now \in SUBSET Users, NEW awake \in SUBSET now, UsersChange(now, awake),
         \A r \in sent : Recipient(r) \in now
  PROVE  Inv'
<1>1. /\ users' = now /\ active' = awake
      /\ sent' = sent /\ read' = read /\ readAt' = readAt /\ deletedAt' = deletedAt
      /\ request' = request /\ before' = before
      /\ steady' = [q \in Requests |-> steady[q] \cap awake]
  BY DEF UsersChange, rows
<1>2. TypeOK'
  BY <1>1 DEF Inv, TypeOK
<1>3. \A q \in Requests : steady'[q] \subseteq steady[q]
  BY <1>1
<1>4. \A q \in Requests : Told(q)'
  BY <1>1, <1>3 DEF Inv, Told, Of
<1>5. WrittenByOver' /\ Apart'
  BY <1>1 DEF Inv, WrittenByOver, Over, Apart, Running
<1>6. BroadcastReachesAll'
  BY <1>1, <1>3 DEF Inv, BroadcastReachesAll
<1>7. ReadAllReads' /\ RecipientsDecide'
  BY <1>1 DEF Inv, ReadAllReads, RecipientsDecide
<1> QED BY <1>2, <1>4, <1>5, <1>6, <1>7 DEF Inv

(* A request begins with what it is told.                                  *)
LEMMA BeginInv ==
  ASSUME Inv, NEW q \in Requests, NEW op \in Operation, NEW u \in Users \cup {None},
         NEW phase \in {"insert", "mark", "remove", "done"}, NEW found \in SUBSET Rows,
         Begin(q, op, u, phase, found),
         phase = "insert" =>
           /\ op \in {"create", "broadcast"} /\ found \subseteq {q} \X Users
           /\ op = "broadcast" => found = {q} \X active,
         phase = "mark" =>
           /\ op \in {"read", "readAll"} /\ found \subseteq Of(u) \ read
           /\ op = "readAll" => found = Of(u) \ read,
         phase = "remove" =>
           /\ op \in {"delete", "clear"} /\ found \subseteq Of(u)
           /\ op = "clear" => found \subseteq read,
         phase = "done" => op \notin {"readAll"} /\ (op = "broadcast" => active = {}),
         u \in Serial => \A p \in Requests : Running(p) => request[p].user # u
  PROVE  Inv'
<1> DEFINE new == [phase |-> phase, op |-> op, user |-> u, found |-> found]
<1>1. new \in Request
  BY DEF Request, Phase
<1>2. /\ new.phase = phase /\ new.op = op /\ new.user = u /\ new.found = found
  OBVIOUS
<1>3. /\ request \in [Requests -> Request] /\ before \in [Requests -> SUBSET Rows]
      /\ steady \in [Requests -> SUBSET Users]
  BY DEF Inv, TypeOK
<1>4. /\ request' = [request EXCEPT ![q] = new]
      /\ before' = [before EXCEPT ![q] = sent] /\ steady' = [steady EXCEPT ![q] = active]
      /\ users' = users /\ active' = active
      /\ sent' = sent /\ read' = read /\ readAt' = readAt /\ deletedAt' = deletedAt
      /\ request[q].phase = "new"
  BY DEF Begin, rows
<1> HIDE DEF new
<1>5. /\ request'[q] = new /\ before'[q] = sent /\ steady'[q] = active
      /\ \A p \in Requests : p # q =>
           request'[p] = request[p] /\ before'[p] = before[p] /\ steady'[p] = steady[p]
  BY <1>3, <1>4
<1>6. TypeOK'
  BY <1>1, <1>3, <1>4 DEF Inv, TypeOK
<1>7. Told(q)'
  BY <1>2, <1>4, <1>5 DEF Told, Of
<1>8. \A p \in Requests : p # q => Told(p)'
  BY <1>4, <1>5 DEF Inv, Told, Of
<1>9. \A p \in Requests : Over(p) => p # q /\ Over(p)'
  BY <1>4, <1>5 DEF Over
<1>10. \A r \in Rows : /\ r[1] \in Requests
                       /\ readAt[r] # None => readAt[r] \in Requests
                       /\ deletedAt[r] # None => deletedAt[r] \in Requests
  BY DEF Inv, TypeOK, Rows
<1>11. WrittenByOver'
  BY <1>4, <1>9, <1>10 DEF Inv, TypeOK, WrittenByOver
<1>12. Apart'
  <2> SUFFICES ASSUME NEW p \in Requests, NEW r \in Requests, p # r,
                      Running(p)', Running(r)', request'[p].user = request'[r].user,
                      request'[p].user \in Serial
               PROVE  FALSE
    BY DEF Apart, Serial
  <2>1. CASE p # q /\ r # q
    BY <2>1, <1>5 DEF Inv, Apart, Running
  <2>2. CASE p = q
    BY <2>2, <1>2, <1>5 DEF Running
  <2>3. CASE r = q
    BY <2>3, <1>2, <1>5 DEF Running
  <2> QED BY <2>1, <2>2, <2>3
<1>13. BroadcastReachesAll'
  <2>1. \A v \in Users : <<q, v>> \notin sent
    BY <1>4 DEF Inv, WrittenByOver, Over
  <2> QED BY <2>1, <1>2, <1>4, <1>5 DEF Inv, BroadcastReachesAll
<1>14. ReadAllReads'
  BY <1>2, <1>4, <1>5 DEF Inv, ReadAllReads
<1>15. RecipientsDecide'
  BY <1>4, <1>5, <1>9, <1>10 DEF Inv, WrittenByOver, RecipientsDecide
<1> QED BY <1>6, <1>7, <1>8, <1>11, <1>12, <1>13, <1>14, <1>15 DEF Inv

(* The end of a request: nothing but its phase changes in what it is told. *)
Ends(q, phase) == request' = [request EXCEPT ![q].phase = phase]

LEMMA EndFacts ==
  ASSUME Inv, NEW q \in Requests, NEW phase \in {"done", "failed"}, Ends(q, phase), Running(q),
         UNCHANGED <<users, active, before, steady>>
  PROVE  /\ request' \in [Requests -> Request]
         /\ request'[q].phase = phase
         /\ \A p \in Requests : /\ request'[p].op = request[p].op
                                /\ request'[p].user = request[p].user
                                /\ request'[p].found = request[p].found
                                /\ p # q => request'[p].phase = request[p].phase
         /\ ~Over(q)
         /\ \A p \in Requests : Over(p) => Over(p)'
         /\ Apart'
<1>1. request \in [Requests -> Request] /\ phase \in Phase
  BY DEF Inv, TypeOK, Phase
<1>2. request' \in [Requests -> Request]
  BY <1>1 DEF Ends, Request
<1>3. /\ request'[q].phase = phase
      /\ \A p \in Requests : /\ request'[p].op = request[p].op
                             /\ request'[p].user = request[p].user
                             /\ request'[p].found = request[p].found
                             /\ p # q => request'[p].phase = request[p].phase
  BY <1>1 DEF Ends, Request
<1>4. ~Over(q)
  BY DEF Over, Running
<1>7. \A p \in Requests : p # q => (Over(p)' <=> Over(p))
  BY <1>3 DEF Over
<1>5. \A p \in Requests : Running(p)' => Running(p)
  BY <1>3 DEF Running
<1>6. Apart'
  BY <1>3, <1>5 DEF Inv, Apart, Serial
<1> QED BY <1>2, <1>3, <1>4, <1>6, <1>7

LEMMA RowFacts ==
  ASSUME TypeOK
  PROVE  /\ sent \subseteq Rows
         /\ \A r \in Rows : /\ r[1] \in Requests /\ Recipient(r) \in Users
                            /\ readAt[r] # None => readAt[r] \in Requests
                            /\ deletedAt[r] # None => deletedAt[r] \in Requests
BY DEF TypeOK, Rows, Recipient

LEMMA BreakInv ==
  ASSUME Inv, NEW q \in Requests, Running(q), Ends(q, "failed"),
         UNCHANGED <<users, active, rows, history>>
  PROVE  Inv'
<1>1. /\ users' = users /\ active' = active /\ before' = before /\ steady' = steady
      /\ sent' = sent /\ read' = read /\ readAt' = readAt /\ deletedAt' = deletedAt
  BY DEF rows, history
<1>2. /\ request' \in [Requests -> Request]
      /\ request'[q].phase = "failed"
      /\ \A p \in Requests : /\ request'[p].op = request[p].op
                             /\ request'[p].user = request[p].user
                             /\ request'[p].found = request[p].found
                             /\ p # q => request'[p].phase = request[p].phase
      /\ ~Over(q)
      /\ \A p \in Requests : Over(p) => Over(p)'
      /\ Apart'
  BY <1>1, EndFacts
<1>3. TypeOK'
  BY <1>1, <1>2 DEF Inv, TypeOK
<1>4. \A p \in Requests : Told(p)'
  BY <1>1, <1>2 DEF Inv, Told, Of
<1>5. WrittenByOver'
  BY <1>1, <1>2, RowFacts DEF Inv, WrittenByOver
<1>6. \A u \in Users : <<q, u>> \notin sent
  BY <1>2 DEF Inv, WrittenByOver
<1>7. BroadcastReachesAll'
  BY <1>1, <1>2, <1>6 DEF Inv, BroadcastReachesAll
<1>8. ReadAllReads'
  BY <1>1, <1>2 DEF Inv, ReadAllReads
<1>9. RecipientsDecide'
  BY <1>1, <1>2, RowFacts DEF Inv, RecipientsDecide
<1> QED BY <1>2, <1>3, <1>4, <1>5, <1>7, <1>8, <1>9 DEF Inv

LEMMA InsertInv ==
  ASSUME Inv, NEW q \in Requests, Insert(q)
  PROVE  Inv'
<1>1. /\ users' = users /\ active' = active /\ before' = before /\ steady' = steady
      /\ read' = read /\ readAt' = readAt /\ deletedAt' = deletedAt
      /\ Running(q) /\ request[q].phase = "insert"
  BY DEF Insert, history, Running
<1>2. CASE ~\A r \in request[q].found : Recipient(r) \in users
  <2>1. Ends(q, "failed") /\ sent' = sent
    BY <1>2 DEF Insert, Ends
  <2> QED BY <1>1, <2>1, BreakInv DEF rows, history
<1>3. CASE \A r \in request[q].found : Recipient(r) \in users
  <2>1. Ends(q, "done") /\ sent' = sent \cup request[q].found
    BY <1>3 DEF Insert, Ends
  <2>2. /\ request' \in [Requests -> Request]
        /\ request'[q].phase = "done"
        /\ \A p \in Requests : /\ request'[p].op = request[p].op
                               /\ request'[p].user = request[p].user
                               /\ request'[p].found = request[p].found
                               /\ p # q => request'[p].phase = request[p].phase
        /\ ~Over(q)
        /\ \A p \in Requests : Over(p) => Over(p)'
        /\ Apart'
    BY <1>1, <2>1, EndFacts
  <2>3. /\ request[q].op \in {"create", "broadcast"}
        /\ request[q].found \subseteq {q} \X Users
        /\ request[q].op = "broadcast" => {q} \X steady[q] \subseteq request[q].found
        /\ request[q].found \subseteq Rows
    BY <1>1 DEF Inv, Told, Rows
  <2>4. \A r \in request[q].found : r[1] = q
    BY <2>3
  <2>5. TypeOK'
    BY <1>1, <1>3, <2>1, <2>2, <2>3 DEF Inv, TypeOK
  <2>6. \A p \in Requests : Told(p)'
    BY <1>1, <2>1, <2>2 DEF Inv, Told, Of
  <2>7. \A r \in sent' : Over(r[1])'
    BY <2>1, <2>2, <2>4, RowFacts DEF Inv, WrittenByOver, Over
  <2>8. WrittenByOver'
    BY <1>1, <2>2, <2>7, RowFacts DEF Inv, WrittenByOver
  <2>9. BroadcastReachesAll'
    BY <1>1, <2>1, <2>2, <2>3, <2>4 DEF Inv, BroadcastReachesAll
  <2>10. ReadAllReads'
    BY <1>1, <2>2, <2>3 DEF Inv, ReadAllReads
  <2>11. RecipientsDecide'
    BY <1>1, <2>2, RowFacts DEF Inv, RecipientsDecide
  <2> QED BY <2>2, <2>5, <2>6, <2>8, <2>9, <2>10, <2>11 DEF Inv
<1> QED BY <1>2, <1>3

LEMMA MarkInv ==
  ASSUME Inv, NEW q \in Requests, Mark(q)
  PROVE  Inv'
<1>1. /\ users' = users /\ active' = active /\ before' = before /\ steady' = steady
      /\ sent' = sent /\ deletedAt' = deletedAt
      /\ read' = read \cup request[q].found
      /\ readAt' = [r \in Rows |-> IF r \in request[q].found THEN q ELSE readAt[r]]
      /\ Running(q) /\ request[q].phase = "mark" /\ Ends(q, "done")
  BY DEF Mark, history, Running, Ends, Written
<1>2. /\ request' \in [Requests -> Request]
      /\ request'[q].phase = "done"
      /\ \A p \in Requests : /\ request'[p].op = request[p].op
                             /\ request'[p].user = request[p].user
                             /\ request'[p].found = request[p].found
                             /\ p # q => request'[p].phase = request[p].phase
      /\ ~Over(q)
      /\ \A p \in Requests : Over(p) => Over(p)'
      /\ Apart'
  BY <1>1, EndFacts
<1>3. /\ request[q].op \in {"read", "readAll"}
      /\ request[q].found \subseteq Of(request[q].user)
      /\ request[q].op = "readAll" =>
           \A r \in before[q] : Recipient(r) = request[q].user => r \in read'
      /\ request[q].found \subseteq sent
      /\ q # None
  BY <1>1, NoneAssumption DEF Inv, Told, Of
<1>4. \A r \in request[q].found : Recipient(r) = request[q].user
  BY <1>3 DEF Of
<1>5. TypeOK'
  <2>1. readAt' \in [Rows -> Requests \cup {None}]
    BY <1>1 DEF Inv, TypeOK
  <2>2. \A r \in Rows : r \in read' <=> readAt'[r] # None
    BY <1>1, <1>3 DEF Inv, TypeOK
  <2> QED BY <1>1, <1>2, <1>3, <2>1, <2>2 DEF Inv, TypeOK
<1>6. ASSUME NEW p \in Requests PROVE Told(p)'
  <2>1. CASE p = q
    BY <2>1, <1>2 DEF Told
  <2>2. CASE p # q
    <3>1. Running(p) /\ request[p].user \in Serial => request[p].user # request[q].user
      BY <1>1, <2>2 DEF Inv, Apart
    <3>2. request[p].phase = "mark" => request[p].found \subseteq Of(request[p].user)
      BY DEF Inv, Told
    <3>3. request[p].phase = "mark" /\ request[p].user \in Serial =>
            request[p].found \cap read' = {}
      BY <1>1, <1>4, <3>1, <3>2 DEF Inv, Told, Of, Running
    <3> QED BY <1>1, <1>2, <2>2, <3>3 DEF Inv, Told, Of
  <2> QED BY <2>1, <2>2
<1>7. WrittenByOver'
  BY <1>1, <1>2, RowFacts DEF Inv, WrittenByOver, Over
<1>8. BroadcastReachesAll'
  BY <1>1, <1>2, <1>3 DEF Inv, BroadcastReachesAll
<1>9. ReadAllReads'
  BY <1>1, <1>2, <1>3 DEF Inv, ReadAllReads
<1>10. RecipientsDecide'
  BY <1>1, <1>2, <1>4, RowFacts DEF Inv, RecipientsDecide
<1> QED BY <1>2, <1>5, <1>6, <1>7, <1>8, <1>9, <1>10 DEF Inv

LEMMA RemoveInv ==
  ASSUME Inv, NEW q \in Requests, Remove(q)
  PROVE  Inv'
<1>1. /\ users' = users /\ active' = active /\ before' = before /\ steady' = steady
      /\ sent' = sent /\ read' = read /\ readAt' = readAt
      /\ deletedAt' = [r \in Rows |-> IF r \in request[q].found THEN q ELSE deletedAt[r]]
      /\ Running(q) /\ request[q].phase = "remove" /\ Ends(q, "done")
  BY DEF Remove, history, Running, Ends, Written
<1>2. /\ request' \in [Requests -> Request]
      /\ request'[q].phase = "done"
      /\ \A p \in Requests : /\ request'[p].op = request[p].op
                             /\ request'[p].user = request[p].user
                             /\ request'[p].found = request[p].found
                             /\ p # q => request'[p].phase = request[p].phase
      /\ ~Over(q)
      /\ \A p \in Requests : Over(p) => Over(p)'
      /\ Apart'
  BY <1>1, EndFacts
<1>3. /\ request[q].op \in {"delete", "clear"}
      /\ request[q].op = "clear" => request[q].found \subseteq read
      /\ \A r \in request[q].found : Recipient(r) = request[q].user
  BY <1>1 DEF Inv, Told, Of
<1>4. TypeOK'
  BY <1>1, <1>2 DEF Inv, TypeOK
<1>5. \A p \in Requests : Told(p)'
  BY <1>1, <1>2 DEF Inv, Told, Of
<1>6. WrittenByOver'
  BY <1>1, <1>2, RowFacts DEF Inv, WrittenByOver, Over
<1>7. BroadcastReachesAll'
  BY <1>1, <1>2, <1>3 DEF Inv, BroadcastReachesAll
<1>8. ReadAllReads'
  BY <1>1, <1>2, <1>3 DEF Inv, ReadAllReads
<1>9. RecipientsDecide'
  BY <1>1, <1>2, <1>3, RowFacts DEF Inv, RecipientsDecide
<1> QED BY <1>2, <1>4, <1>5, <1>6, <1>7, <1>8, <1>9 DEF Inv

LEMMA NextInv == Inv /\ [Next]_vars => Inv'
<1> SUFFICES ASSUME Inv, [Next]_vars PROVE Inv'
  OBVIOUS
<1> USE DEF Operation
<1>1. CASE UNCHANGED vars
  BY <1>1 DEF vars, Inv, TypeOK, Told, Of, WrittenByOver, Over, Apart, Running,
              BroadcastReachesAll, ReadAllReads, RecipientsDecide
<1>2. users \subseteq Users /\ active \subseteq users /\ read \subseteq sent
      /\ sent \subseteq Rows /\ \A r \in sent : Recipient(r) \in users
  BY DEF Inv, TypeOK
<1>3. ASSUME NEW u \in Users, AddUser(u) PROVE Inv'
  BY <1>2, <1>3, UsersChangeInv DEF AddUser
<1>4. ASSUME NEW u \in Users, NEW isActive \in BOOLEAN, UpdateStatus(u, isActive) PROVE Inv'
  BY <1>2, <1>4, UsersChangeInv DEF UpdateStatus
<1>5. ASSUME NEW u \in Users, RemoveUser(u) PROVE Inv'
  <2>1. \A r \in sent : Recipient(r) \in users \ {u}
    BY <1>2, <1>5 DEF RemoveUser, Of
  <2> QED BY <1>2, <1>5, <2>1, UsersChangeInv DEF RemoveUser
<1>6. None \notin Serial
  BY NoneAssumption DEF Serial
<1>7. ASSUME NEW q \in Requests, NEW us \in SUBSET Users, CreateForMultiple(q, us) PROVE Inv'
  <2>1. {q} \X us \subseteq {q} \X Users /\ {q} \X us \in SUBSET Rows
    BY DEF Rows
  <2> QED BY <1>6, <1>7, <2>1, BeginInv DEF CreateForMultiple
<1>8. ASSUME NEW q \in Requests, CreateForTenant(q) PROVE Inv'
  <2>1. {q} \X active \subseteq {q} \X Users /\ {q} \X active \in SUBSET Rows
    BY <1>2 DEF Rows
  <2>2. CASE active = {}
    BY <1>6, <1>8, <2>1, <2>2, BeginInv DEF CreateForTenant
  <2>3. CASE active # {}
    BY <1>6, <1>8, <2>1, <2>3, BeginInv DEF CreateForTenant
  <2> QED BY <2>2, <2>3
<1>9. ASSUME NEW q \in Requests, NEW u \in Users, MarkAllAsRead(q, u) PROVE Inv'
  <2>1. Of(u) \ read \in SUBSET Rows
    BY <1>2 DEF Of
  <2> QED BY <1>9, <2>1, BeginInv DEF MarkAllAsRead, MayAsk
<1>10. ASSUME NEW q \in Requests, NEW u \in Users, ClearRead(q, u) PROVE Inv'
  <2>1. Of(u) \cap read \in SUBSET Rows /\ Of(u) \cap read \subseteq Of(u)
    BY <1>2 DEF Of
  <2> QED BY <1>10, <2>1, BeginInv DEF ClearRead, MayAsk
<1>11. ASSUME NEW q \in Requests, NEW u \in Users, NEW r \in sent, MarkAsRead(q, u, r)
       PROVE  Inv'
  <2> DEFINE found == (Of(u) \ read) \cap {r}
  <2>1. found \in SUBSET Rows /\ found \subseteq Of(u) \ read
    BY <1>2 DEF Of
  <2>2. CASE found = {}
    BY <1>11, <2>1, <2>2, BeginInv DEF MarkAsRead, MayAsk
  <2>3. CASE found # {}
    BY <1>11, <2>1, <2>3, BeginInv DEF MarkAsRead, MayAsk
  <2> QED BY <2>2, <2>3
<1>12. ASSUME NEW q \in Requests, NEW u \in Users, NEW r \in sent, Delete(q, u, r)
       PROVE  Inv'
  <2> DEFINE found == Of(u) \cap {r}
  <2>1. found \in SUBSET Rows /\ found \subseteq Of(u)
    BY <1>2 DEF Of
  <2>2. CASE found = {}
    BY <1>12, <2>1, <2>2, BeginInv DEF Delete, MayAsk
  <2>3. CASE found # {}
    BY <1>12, <2>1, <2>3, BeginInv DEF Delete, MayAsk
  <2> QED BY <2>2, <2>3
<1>13. ASSUME NEW q \in Requests, Break(q) PROVE Inv'
  BY <1>13, BreakInv DEF Break, Ends
<1> QED BY <1>1, <1>3, <1>4, <1>5, <1>7, <1>8, <1>9, <1>10, <1>11, <1>12, <1>13,
           InsertInv, MarkInv, RemoveInv DEF Next

LEMMA Invariant == Spec => []Inv
BY InitInv, NextInv, PTL DEF Spec

(* The variables keep their types; a row has a recipient in the table of   *)
(* users, and a date of reading exactly if it is read.                     *)
THEOREM TypeCorrect == Spec => []TypeOK
<1>1. Inv => TypeOK
  BY DEF Inv
<1> QED BY <1>1, Invariant, PTL

(* A broadcast reaches everyone who was active throughout, or, if it       *)
(* fails, no one.                                                          *)
THEOREM BroadcastsReach == Spec => []BroadcastReachesAll
<1>1. Inv => BroadcastReachesAll
  BY DEF Inv
<1> QED BY <1>1, Invariant, PTL

(* markAllAsRead leaves nothing unread that was there when it began.       *)
THEOREM AllAreRead == Spec => []ReadAllReads
<1>1. Inv => ReadAllReads
  BY DEF Inv
<1> QED BY <1>1, Invariant, PTL

(* Only a recipient's request marks or removes what they were sent, and    *)
(* clearRead removes only what is read.                                    *)
THEOREM RecipientsDecided == Spec => []RecipientsDecide
<1>1. Inv => RecipientsDecide
  BY DEF Inv
<1> QED BY <1>1, Invariant, PTL

(* Where a recipient's requests do not overlap, dates of reading stay.     *)
THEOREM DatesStay == Spec => ReadDateStays
<1> DEFINE A == \A r \in read : Recipient(r) \in Serial => readAt'[r] = readAt[r]
<1>1. ASSUME Inv, [Next]_vars PROVE [A]_vars
  <2>1. ASSUME NEW q \in Requests, Mark(q) PROVE A
    <3>1. \A r \in request[q].found : Recipient(r) = request[q].user
      BY <1>1, <2>1 DEF Mark, Inv, Told, Of
    <3>2. request[q].user \in Serial => request[q].found \cap read = {}
      BY <1>1, <2>1 DEF Mark, Inv, Told
    <3>3. read \subseteq Rows
      BY <1>1 DEF Inv, TypeOK
    <3> QED BY <2>1, <3>1, <3>2, <3>3 DEF Mark, Written
  <2>2. ASSUME readAt' = readAt PROVE A
    BY <2>2
  <2>3. (\E q \in Requests : Mark(q)) \/ readAt' = readAt
    BY <1>1 DEF Next, vars, rows, AddUser, UpdateStatus, RemoveUser, UsersChange, Begin,
                CreateForMultiple, CreateForTenant, Insert, MarkAsRead, MarkAllAsRead,
                Delete, ClearRead, Remove, Break
  <2> QED BY <2>1, <2>2, <2>3
<1> QED BY <1>1, Invariant, PTL DEF Spec, ReadDateStays
=============================================================================
