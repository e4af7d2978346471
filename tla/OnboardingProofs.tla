-------------------------- MODULE OnboardingProofs --------------------------
(***************************************************************************)
(* Proofs about Onboarding and, below them, about DocumentNumbers, for     *)
(* every value of their constants.                                         *)
(***************************************************************************)
EXTENDS Onboarding, DocumentNumbers, TLAPS

(* What a request in a phase has been given.                               *)
Given(q) ==
  /\ request[q].phase = "tenant" => request[q].domain \in Domains
  /\ request[q].phase \in {"tenant", "owner", "user"} => request[q].email \in Emails
  /\ request[q].phase = "insert" => request[q].key \in Keys
  /\ request[q].phase = "insert" => request[q].tenant \in Requests \ {q}
  /\ request[q].phase \in {"update", "toggle"} =>
       request[q].row \in Rows /\ Stored(request[q].row)

(* How far the creation of the tenant has come.                            *)
Reached(q) ==
  /\ Exists(q) => request[q].phase \in {"owner", "seed", "created", "failed"}
  /\ request[q].phase \in {"owner", "seed", "created"} => Exists(q)
  /\ request[q].phase \in {"seed", "created"} => Owned(q)
  /\ request[q].phase = "created" => Seeded(q)

(* A request's rows are empty before its insert, and its tenant's are      *)
(* there only when the tenant has been created.                            *)
Held(q) ==
  \A k \in Keys :
    /\ request[q].phase \notin {"created", "done"} => ~Stored(<<q, k>>)
    /\ definition[<<q, k>>].tenant = q => request[q].phase = "created"

(* What a request that writes the flag, and that no other overlaps, has    *)
(* seen.                                                                   *)
Counted(r) ==
  /\ ~Stored(r) => due[r] = TRUE
  /\ r \notin raced =>
       /\ definition[r].active = due[r]
       /\ \A q \in Requests : Flagging(q, r) => request[q].seen = definition[r].active
       /\ \A p, q \in Requests : Flagging(p, r) /\ Flagging(q, r) => p = q

Inv ==
  /\ TypeOK
  /\ \A q \in Requests : Given(q) /\ Reached(q) /\ Held(q)
  /\ \A r \in Rows : Counted(r)

LEMMA InitInv == Init => Inv
<1> SUFFICES ASSUME Init PROVE Inv
  OBVIOUS
<1>1. TypeOK
  BY DEF Init, TypeOK, TenantRow, UserRow, DefinitionRow, Request, Phase, Flag, Rows, Idle
<1>2. \A q \in Requests : request[q].phase = "new" /\ tenant[q].domain = None
  BY DEF Init, Idle
<1>3. \A r \in Rows : definition[r].tenant = None /\ definition[r].active = TRUE /\ due[r] = TRUE
  BY DEF Init
<1>4. ASSUME NEW q \in Requests PROVE Given(q) /\ Reached(q) /\ Held(q)
  BY <1>2, <1>3, NoneAssumption DEF Given, Reached, Held, Exists, Stored, Rows
<1>5. ASSUME NEW r \in Rows PROVE Counted(r)
  BY <1>2, <1>3 DEF Counted, Flagging
<1> QED BY <1>1, <1>4, <1>5 DEF Inv

(* A step of one request that changes nothing else.                        *)
LEMMA RequestStep ==
  ASSUME Inv, NEW q \in Requests, NEW new \in Request,
         request' = [request EXCEPT ![q] = new],
         UNCHANGED <<tenant, user, definition, due>>,
         raced \subseteq raced', raced' \in SUBSET Rows
  PROVE  /\ TypeOK'
         /\ request'[q] = new
         /\ \A p \in Requests \ {q} : request'[p] = request[p]
         /\ \A p \in Requests \ {q} : Given(p)' /\ Reached(p)' /\ Held(p)'
<1>1. TypeOK'
  BY DEF Inv, TypeOK
<1>2. request'[q] = new /\ \A p \in Requests \ {q} : request'[p] = request[p]
  BY DEF Inv, TypeOK
<1>3. tenant' = tenant /\ user' = user /\ definition' = definition
  OBVIOUS
<1>4. ASSUME NEW p \in Requests \ {q} PROVE Given(p)' /\ Reached(p)' /\ Held(p)'
  <2>1. Given(p) /\ Reached(p) /\ Held(p) /\ request'[p] = request[p]
    BY <1>2 DEF Inv
  <2>2. Given(p)'
    BY <2>1, <1>3 DEF Given, Stored
  <2>3. Reached(p)'
    BY <2>1, <1>3 DEF Reached, Exists, Owned, Seeded
  <2>4. Held(p)'
    BY <2>1, <1>3 DEF Held, Stored
  <2> QED BY <2>2, <2>3, <2>4
<1> QED BY <1>1, <1>2, <1>4

(* A request that will write no flag begins, or one fails.                 *)
LEMMA BeginsInv ==
  ASSUME Inv, NEW q \in Requests, NEW new \in Request,
         request[q].phase \notin {"created", "done"},
         new.phase \in {"tenant", "user", "insert", "update", "conflict", "failed"},
         Exists(q) => new.phase = "failed",
         new.phase = "tenant" => new.domain \in Domains,
         new.phase \in {"tenant", "user"} => new.email \in Emails,
         new.phase = "insert" => new.key \in Keys,
         new.phase = "insert" => new.tenant \in Requests \ {q},
         new.phase = "update" =>
           new.flag = "unnamed" /\ new.row \in Rows /\ Stored(new.row),
         request' = [request EXCEPT ![q] = new],
         UNCHANGED <<tenant, user, definition, due>>,
         raced \subseteq raced', raced' \in SUBSET Rows
  PROVE  Inv'
<1>1. /\ TypeOK'
      /\ request'[q] = new
      /\ \A p \in Requests \ {q} : request'[p] = request[p]
      /\ \A p \in Requests \ {q} : Given(p)' /\ Reached(p)' /\ Held(p)'
  BY RequestStep
<1>2. tenant' = tenant /\ user' = user /\ definition' = definition
      /\ due' = due
  OBVIOUS
<1>3. Given(q)'
  BY <1>1, <1>2 DEF Given, Stored
<1>4. Reached(q)'
  BY <1>1, <1>2 DEF Reached, Exists
<1>5. Held(q)'
  <2>1. Held(q)
    BY DEF Inv
  <2>2. \A k \in Keys : ~Stored(<<q, k>>)
    BY <2>1 DEF Held
  <2> QED BY <2>2, <1>1, <1>2, NoneAssumption DEF Held, Stored
<1>6. ASSUME NEW r \in Rows PROVE Counted(r)'
  <2>1. Counted(r)
    BY DEF Inv
  <2>2. \A p \in Requests : Flagging(p, r)' => Flagging(p, r) /\ request'[p] = request[p]
    BY <1>1 DEF Flagging
  <2> QED BY <2>1, <2>2, <1>2 DEF Counted, Stored
<1> QED BY <1>1, <1>3, <1>4, <1>5, <1>6 DEF Inv

LEMMA QuietInv ==
  ASSUME Inv, NEW q \in Requests, NEW new \in Request,
         request[q].phase \notin {"created", "done"},
         new.phase \in {"tenant", "user", "insert", "conflict", "failed"},
         Exists(q) => new.phase = "failed",
         new.phase = "tenant" => new.domain \in Domains,
         new.phase \in {"tenant", "user"} => new.email \in Emails,
         new.phase = "insert" => new.key \in Keys /\ new.tenant \in Requests \ {q},
         request' = [request EXCEPT ![q] = new],
         UNCHANGED <<tenant, user, definition, history>>
  PROVE  Inv'
<1>1. UNCHANGED <<tenant, user, definition, due>> /\ raced' = raced /\ raced \in SUBSET Rows
  BY DEF history, Inv, TypeOK
<1> QED BY <1>1, BeginsInv

LEMMA OverIsRequest ==
  ASSUME NEW phase \in Phase
  PROVE  Over(phase) \in Request /\ Over(phase).phase = phase
BY DEF Over, Idle, Request, Flag

LEMMA CreateTenantInv ==
  ASSUME Inv, NEW q \in Requests, NEW d \in Domains, NEW e \in Emails, CreateTenant(q, d, e)
  PROVE  Inv'
<1> DEFINE new == [Idle EXCEPT !.phase = "tenant", !.domain = d, !.email = e]
<1>1. request[q].phase = "new" /\ UNCHANGED <<tenant, user, definition, history>>
  BY DEF CreateTenant, Begin
<1>2. ~Exists(q)
  BY <1>1 DEF Inv, Reached
<1>3. CASE request' = [request EXCEPT ![q] = Over("conflict")]
  <2>1. Over("conflict") \in Request /\ Over("conflict").phase = "conflict"
    BY OverIsRequest DEF Phase
  <2> QED BY <2>1, <1>1, <1>2, <1>3, QuietInv
<1>4. CASE request' = [request EXCEPT ![q] = new]
  <2>1. new \in Request /\ new.phase = "tenant" /\ new.domain = d /\ new.email = e
    BY DEF Idle, Request, Phase, Flag
  <2> HIDE DEF new
  <2> QED BY <2>1, <1>1, <1>2, <1>4, QuietInv
<1> QED BY <1>3, <1>4 DEF CreateTenant, Begin

LEMMA CreateUserInv ==
  ASSUME Inv, NEW q \in Requests, NEW t \in Requests \cup {None}, NEW e \in Emails,
         CreateUser(q, t, e)
  PROVE  Inv'
<1> DEFINE new == [Idle EXCEPT !.phase = "user", !.tenant = t, !.email = e]
<1>1. request[q].phase = "new" /\ UNCHANGED <<tenant, user, definition, history>>
  BY DEF CreateUser, Begin
<1>2. ~Exists(q)
  BY <1>1 DEF Inv, Reached
<1>3. CASE request' = [request EXCEPT ![q] = Over("conflict")]
  <2>1. Over("conflict") \in Request /\ Over("conflict").phase = "conflict"
    BY OverIsRequest DEF Phase
  <2> QED BY <2>1, <1>1, <1>2, <1>3, QuietInv
<1>4. CASE request' = [request EXCEPT ![q] = new]
  <2>1. new \in Request /\ new.phase = "user" /\ new.email = e
    BY DEF Idle, Request, Phase, Flag
  <2> HIDE DEF new
  <2> QED BY <2>1, <1>1, <1>2, <1>4, QuietInv
<1> QED BY <1>3, <1>4 DEF CreateUser, Begin

LEMMA CreateDefinitionInv ==
  ASSUME Inv, NEW q \in Requests, NEW t \in Requests, NEW key \in Keys,
         NEW flag \in Flag, CreateDefinition(q, t, key, flag)
  PROVE  Inv'
<1> DEFINE new == [Idle EXCEPT !.phase = "insert", !.tenant = t, !.key = key, !.flag = flag]
<1>1. /\ request[q].phase = "new" /\ Exists(t)
      /\ UNCHANGED <<tenant, user, definition, history>>
  BY DEF CreateDefinition, Begin
<1>2. ~Exists(q) /\ t # q
  BY <1>1 DEF Inv, Reached
<1>3. CASE request' = [request EXCEPT ![q] = Over("conflict")]
  <2>1. Over("conflict") \in Request /\ Over("conflict").phase = "conflict"
    BY OverIsRequest DEF Phase
  <2> QED BY <2>1, <1>1, <1>2, <1>3, QuietInv
<1>4. CASE request' = [request EXCEPT ![q] = new]
  <2>1. new \in Request /\ new.phase = "insert" /\ new.tenant = t /\ new.key = key
    BY DEF Idle, Request, Phase, Flag
  <2> HIDE DEF new
  <2> QED BY <2>1, <1>1, <1>2, <1>4, QuietInv
<1> QED BY <1>3, <1>4 DEF CreateDefinition, Begin

LEMMA FailInv ==
  ASSUME Inv, NEW q \in Requests, Fail(q)
  PROVE  Inv'
<1>1. Over("failed") \in Request /\ Over("failed").phase = "failed"
  BY OverIsRequest DEF Phase
<1>2. /\ request' = [request EXCEPT ![q] = Over("failed")]
      /\ UNCHANGED <<tenant, user, definition, history>>
      /\ request[q].phase \notin {"created", "done"}
  BY DEF Fail, End, Refused
<1> QED BY <1>1, <1>2, QuietInv

(* A request that is not about the flag leaves the definitions as they are.*)
LEMMA CountedKept ==
  ASSUME Inv, NEW q \in Requests,
         request'[q].phase \notin {"toggle", "update"},
         \A p \in Requests \ {q} : request'[p] = request[p],
         UNCHANGED <<definition, history>>
  PROVE  \A r \in Rows : Counted(r)'
<1>1. definition' = definition /\ due' = due /\ raced' = raced
  BY DEF history
<1>2. ASSUME NEW r \in Rows PROVE Counted(r)'
  <2>1. Counted(r)
    BY DEF Inv
  <2>2. \A p \in Requests : Flagging(p, r)' => Flagging(p, r) /\ request'[p] = request[p]
    BY DEF Flagging
  <2> QED BY <2>1, <2>2, <1>1 DEF Counted, Stored
<1> QED BY <1>2

LEMMA InsertTenantInv ==
  ASSUME Inv, NEW q \in Requests, InsertTenant(q)
  PROVE  Inv'
<1> DEFINE d == request[q].domain
           row == [domain |-> d, deleted |-> FALSE]
           new == [request[q] EXCEPT !.phase = "owner"]
<1>1. /\ request[q].phase = "tenant" /\ request[q] \in Request
      /\ Given(q) /\ Reached(q) /\ Held(q) /\ d \in Domains /\ request[q].email \in Emails
      /\ user' = user /\ definition' = definition /\ due' = due /\ raced' = raced
  BY DEF Inv, TypeOK, InsertTenant, Given, history
<1>2. row \in TenantRow /\ row.domain = d
  BY <1>1 DEF TenantRow
<1>3. new \in Request /\ new.phase = "owner" /\ new.email = request[q].email
  BY <1>1 DEF Request, Phase
<1>4. /\ tenant' = [tenant EXCEPT ![q] = row] /\ tenant'[q] = row
      /\ request' = [request EXCEPT ![q] = new] /\ request'[q] = new
      /\ \A p \in Requests \ {q} : tenant'[p] = tenant[p] /\ request'[p] = request[p]
  BY DEF Inv, TypeOK, InsertTenant
<1> HIDE DEF new, row
<1>5. TypeOK'
  BY <1>1, <1>2, <1>3, <1>4 DEF Inv, TypeOK
<1>6. Given(q)' /\ Reached(q)' /\ Held(q)'
  BY <1>1, <1>2, <1>3, <1>4, NoneAssumption DEF Given, Reached, Held, Exists, Stored
<1>7. ASSUME NEW p \in Requests \ {q} PROVE Given(p)' /\ Reached(p)' /\ Held(p)'
  <2>1. Given(p) /\ Reached(p) /\ Held(p)
    BY DEF Inv
  <2>2. Given(p)' /\ Held(p)'
    BY <2>1, <1>1, <1>4 DEF Given, Held, Stored
  <2>3. Reached(p)'
    BY <2>1, <1>1, <1>4 DEF Reached, Exists, Owned, Seeded
  <2> QED BY <2>2, <2>3
<1>8. \A r \in Rows : Counted(r)'
  BY <1>1, <1>3, <1>4, CountedKept DEF history
<1> QED BY <1>5, <1>6, <1>7, <1>8 DEF Inv

(* A new user takes no tenant's owner away.                                *)
LEMMA OwnersStay ==
  ASSUME Inv, NEW e \in Emails, NEW row \in UserRow, ~user[e].present,
         user' = [user EXCEPT ![e] = row]
  PROVE  \A t \in Requests : Owned(t) => Owned(t)'
<1>1. \A f \in Emails \ {e} : user'[f] = user[f]
  BY DEF Inv, TypeOK
<1> QED BY <1>1 DEF Owned

LEMMA InsertOwnerInv ==
  ASSUME Inv, NEW q \in Requests, InsertOwner(q)
  PROVE  Inv'
<1> DEFINE e == request[q].email
           row == [present |-> TRUE, tenant |-> q, owner |-> TRUE]
           new == [request[q] EXCEPT !.phase = "seed"]
<1>1. /\ request[q].phase = "owner" /\ request[q] \in Request
      /\ Given(q) /\ Reached(q) /\ Held(q) /\ e \in Emails /\ ~user[e].present
      /\ tenant' = tenant /\ definition' = definition /\ due' = due /\ raced' = raced
  BY DEF Inv, TypeOK, InsertOwner, Given, history
<1>2. row \in UserRow /\ row.present = TRUE /\ row.owner = TRUE /\ row.tenant = q
  BY DEF UserRow
<1>3. new \in Request /\ new.phase = "seed"
  BY <1>1 DEF Request, Phase
<1>4. /\ user' = [user EXCEPT ![e] = row] /\ user'[e] = row
      /\ request' = [request EXCEPT ![q] = new] /\ request'[q] = new
      /\ \A p \in Requests \ {q} : request'[p] = request[p]
  BY <1>1 DEF Inv, TypeOK, InsertOwner
<1> HIDE DEF new, row
<1>5. TypeOK'
  BY <1>1, <1>2, <1>3, <1>4 DEF Inv, TypeOK
<1>6. Owned(q)'
  BY <1>1, <1>2, <1>4 DEF Owned
<1>7. Given(q)' /\ Reached(q)' /\ Held(q)'
  BY <1>1, <1>3, <1>4, <1>6 DEF Given, Reached, Held, Exists, Stored
<1>8. ASSUME NEW p \in Requests \ {q} PROVE Given(p)' /\ Reached(p)' /\ Held(p)'
  <2>1. Given(p) /\ Reached(p) /\ Held(p) /\ (Owned(p) => Owned(p)')
    BY <1>1, <1>2, <1>4, OwnersStay DEF Inv
  <2>2. Given(p)' /\ Held(p)'
    BY <2>1, <1>1, <1>4 DEF Given, Held, Stored
  <2>3. Reached(p)'
    BY <2>1, <1>1, <1>4 DEF Reached, Exists, Seeded
  <2> QED BY <2>2, <2>3
<1>9. \A r \in Rows : Counted(r)'
  BY <1>1, <1>3, <1>4, CountedKept DEF history
<1> QED BY <1>5, <1>7, <1>8, <1>9 DEF Inv

LEMMA InsertUserInv ==
  ASSUME Inv, NEW q \in Requests, InsertUser(q)
  PROVE  Inv'
<1> DEFINE e == request[q].email
           row == [present |-> TRUE, tenant |-> request[q].tenant, owner |-> FALSE]
           new == Over("done")
<1>1. /\ request[q].phase = "user" /\ request[q] \in Request
      /\ Given(q) /\ Reached(q) /\ Held(q) /\ e \in Emails /\ ~user[e].present
      /\ tenant' = tenant /\ definition' = definition /\ due' = due /\ raced' = raced
  BY DEF Inv, TypeOK, InsertUser, Given, history
<1>2. row \in UserRow
  BY <1>1 DEF UserRow, Request
<1>3. new \in Request /\ new.phase = "done"
  BY OverIsRequest DEF Phase
<1>4. /\ user' = [user EXCEPT ![e] = row]
      /\ request' = [request EXCEPT ![q] = new] /\ request'[q] = new
      /\ \A p \in Requests \ {q} : request'[p] = request[p]
  BY <1>1 DEF Inv, TypeOK, InsertUser, End
<1> HIDE DEF new, row
<1>5. TypeOK'
  BY <1>1, <1>2, <1>3, <1>4 DEF Inv, TypeOK
<1>6. Given(q)' /\ Reached(q)' /\ Held(q)'
  BY <1>1, <1>3, <1>4, NoneAssumption DEF Given, Reached, Held, Exists, Stored
<1>7. ASSUME NEW p \in Requests \ {q} PROVE Given(p)' /\ Reached(p)' /\ Held(p)'
  <2>1. Given(p) /\ Reached(p) /\ Held(p) /\ (Owned(p) => Owned(p)')
    BY <1>1, <1>2, <1>4, OwnersStay DEF Inv
  <2>2. Given(p)' /\ Held(p)'
    BY <2>1, <1>1, <1>4 DEF Given, Held, Stored
  <2>3. Reached(p)'
    BY <2>1, <1>1, <1>4 DEF Reached, Exists, Seeded
  <2> QED BY <2>2, <2>3
<1>8. \A r \in Rows : Counted(r)'
  BY <1>1, <1>3, <1>4, CountedKept DEF history
<1> QED BY <1>5, <1>6, <1>7, <1>8 DEF Inv

(* Steps of no request.                                                    *)
LEMMA UpdateTenantInv ==
  ASSUME Inv, NEW t \in Requests, NEW d \in Domains, UpdateTenant(t, d)
  PROVE  Inv'
<1> DEFINE row == [tenant[t] EXCEPT !.domain = d]
<1>1. /\ user' = user /\ definition' = definition /\ request' = request
      /\ due' = due /\ raced' = raced /\ Exists(t) /\ d # None
  BY NoneAssumption DEF UpdateTenant, history
<1>2. row \in TenantRow /\ row.domain = d
  BY DEF Inv, TypeOK, TenantRow
<1>3. /\ tenant' = [tenant EXCEPT ![t] = row] /\ tenant'[t] = row
      /\ \A p \in Requests \ {t} : tenant'[p] = tenant[p]
  BY DEF Inv, TypeOK, UpdateTenant
<1> HIDE DEF row
<1>4. \A p \in Requests : Exists(p)' <=> Exists(p)
  BY <1>1, <1>2, <1>3 DEF Exists
<1>5. TypeOK'
  BY <1>1, <1>2, <1>3 DEF Inv, TypeOK
<1>6. ASSUME NEW p \in Requests PROVE Given(p)' /\ Reached(p)' /\ Held(p)'
  <2>1. Given(p) /\ Reached(p) /\ Held(p)
    BY DEF Inv
  <2>2. Given(p)' /\ Held(p)'
    BY <2>1, <1>1 DEF Given, Held, Stored
  <2>3. Reached(p)'
    BY <2>1, <1>1, <1>4 DEF Reached, Owned, Seeded
  <2> QED BY <2>2, <2>3
<1>7. \A r \in Rows : Counted(r)'
  BY <1>1 DEF Inv, Counted, Stored, Flagging
<1> QED BY <1>5, <1>6, <1>7 DEF Inv

LEMMA RemoveTenantInv ==
  ASSUME Inv, NEW t \in Requests, RemoveTenant(t)
  PROVE  Inv'
<1> DEFINE row == [tenant[t] EXCEPT !.deleted = TRUE]
<1>1. /\ user' = user /\ definition' = definition /\ request' = request
      /\ due' = due /\ raced' = raced
  BY DEF RemoveTenant, history
<1>2. row \in TenantRow /\ row.domain = tenant[t].domain
  BY DEF Inv, TypeOK, TenantRow
<1>3. /\ tenant' = [tenant EXCEPT ![t] = row] /\ tenant'[t] = row
      /\ \A p \in Requests \ {t} : tenant'[p] = tenant[p]
  BY DEF Inv, TypeOK, RemoveTenant
<1> HIDE DEF row
<1>4. \A p \in Requests : Exists(p)' <=> Exists(p)
  BY <1>2, <1>3 DEF Exists
<1>5. TypeOK'
  BY <1>1, <1>2, <1>3 DEF Inv, TypeOK
<1>6. ASSUME NEW p \in Requests PROVE Given(p)' /\ Reached(p)' /\ Held(p)'
  <2>1. Given(p) /\ Reached(p) /\ Held(p)
    BY DEF Inv
  <2>2. Given(p)' /\ Held(p)'
    BY <2>1, <1>1 DEF Given, Held, Stored
  <2>3. Reached(p)'
    BY <2>1, <1>1, <1>4 DEF Reached, Owned, Seeded
  <2> QED BY <2>2, <2>3
<1>7. \A r \in Rows : Counted(r)'
  BY <1>1 DEF Inv, Counted, Stored, Flagging
<1> QED BY <1>5, <1>6, <1>7 DEF Inv

LEMMA RemoveUserInv ==
  ASSUME Inv, NEW e \in Emails, RemoveUser(e)
  PROVE  Inv'
<1> DEFINE row == [present |-> FALSE, tenant |-> None, owner |-> FALSE]
<1>1. /\ tenant' = tenant /\ definition' = definition /\ request' = request
      /\ due' = due /\ raced' = raced /\ ~user[e].owner
  BY DEF RemoveUser, history
<1>2. /\ user' = [user EXCEPT ![e] = row] /\ row \in UserRow
      /\ \A f \in Emails \ {e} : user'[f] = user[f]
  BY DEF Inv, TypeOK, RemoveUser, UserRow
<1>3. TypeOK'
  BY <1>1, <1>2 DEF Inv, TypeOK
<1>4. \A p \in Requests : Owned(p) => Owned(p)'
  BY <1>1, <1>2 DEF Owned
<1>5. ASSUME NEW p \in Requests PROVE Given(p)' /\ Reached(p)' /\ Held(p)'
  <2>1. Given(p) /\ Reached(p) /\ Held(p)
    BY DEF Inv
  <2>2. Given(p)' /\ Held(p)'
    BY <2>1, <1>1 DEF Given, Held, Stored
  <2>3. Reached(p)'
    BY <2>1, <1>1, <1>4 DEF Reached, Exists, Seeded
  <2> QED BY <2>2, <2>3
<1>6. \A r \in Rows : Counted(r)'
  BY <1>1 DEF Inv, Counted, Stored, Flagging
<1> QED BY <1>3, <1>5, <1>6 DEF Inv

(* Where the definitions keep their tenants and their flags.               *)
LEMMA OtherColumns ==
  ASSUME Inv,
         \A r \in Rows : /\ definition'[r].tenant = definition[r].tenant
                         /\ definition'[r].active = definition[r].active,
         UNCHANGED <<tenant, user, request, history>>
  PROVE  /\ \A p \in Requests : Given(p)' /\ Reached(p)' /\ Held(p)'
         /\ \A r \in Rows : Counted(r)'
<1>1. request' = request /\ tenant' = tenant /\ user' = user /\ due' = due /\ raced' = raced
  BY DEF history
<1>2. \A r \in Rows : Stored(r)' <=> Stored(r)
  BY DEF Stored
<1>3. ASSUME NEW p \in Requests PROVE Given(p)' /\ Reached(p)' /\ Held(p)'
  <2>1. Given(p) /\ Reached(p) /\ Held(p) /\ request'[p] = request[p]
    BY <1>1 DEF Inv
  <2>2. Given(p)'
    BY <2>1, <1>2 DEF Given
  <2>3. \A k \in Keys : <<p, k>> \in Rows
    BY DEF Rows
  <2>4. Reached(p)'
    BY <2>1, <2>3, <1>1, SeedsAssumption DEF Reached, Exists, Owned, Seeded
  <2>5. Held(p)'
    BY <2>1, <2>3, <1>2 DEF Held
  <2> QED BY <2>2, <2>4, <2>5
<1>4. ASSUME NEW r \in Rows PROVE Counted(r)'
  <2>1. Counted(r)
    BY DEF Inv
  <2>2. \A p \in Requests : Flagging(p, r)' => Flagging(p, r) /\ request'[p] = request[p]
    BY <1>1 DEF Flagging
  <2> QED BY <2>1, <2>2, <1>1, <1>2 DEF Counted
<1> QED BY <1>3, <1>4

LEMMA RemoveDefinitionInv ==
  ASSUME Inv, NEW r \in Rows, RemoveDefinition(r)
  PROVE  Inv'
<1> DEFINE row == [definition[r] EXCEPT !.deleted = TRUE]
<1>1. /\ tenant' = tenant /\ user' = user /\ request' = request
      /\ due' = due /\ raced' = raced
  BY DEF RemoveDefinition, history
<1>2. /\ row \in DefinitionRow /\ row.tenant = definition[r].tenant
      /\ row.active = definition[r].active
  BY DEF Inv, TypeOK, DefinitionRow
<1>3. /\ definition' = [definition EXCEPT ![r] = row] /\ definition'[r] = row
      /\ \A x \in Rows \ {r} : definition'[x] = definition[x]
  BY DEF Inv, TypeOK, RemoveDefinition
<1> HIDE DEF row
<1>4. TypeOK'
  BY <1>1, <1>2, <1>3 DEF Inv, TypeOK
<1>5. \A x \in Rows : /\ definition'[x].tenant = definition[x].tenant
                     /\ definition'[x].active = definition[x].active
  BY <1>2, <1>3
<1>6. /\ \A p \in Requests : Given(p)' /\ Reached(p)' /\ Held(p)'
      /\ \A x \in Rows : Counted(x)'
  BY <1>1, <1>5, OtherColumns DEF history
<1> QED BY <1>4, <1>6 DEF Inv

(* Definitions are inserted into rows of the request's own that were empty.*)
LEMMA Inserted ==
  ASSUME Inv, NEW q \in Requests, NEW new \in SUBSET Rows,
         \A r \in new : r[1] = q /\ ~Stored(r) /\ definition'[r].active = due'[r]
                        /\ definition'[r].tenant # None,
         \A r \in Rows \ new : definition'[r] = definition[r] /\ due'[r] = due[r],
         request'[q].phase \notin {"toggle", "update"},
         \A p \in Requests \ {q} : request'[p] = request[p],
         UNCHANGED <<tenant, user, raced>>
  PROVE  /\ \A p \in Requests \ {q} : Given(p)' /\ Reached(p)' /\ Held(p)'
         /\ \A r \in Rows : Counted(r)'
<1>1. tenant' = tenant /\ user' = user /\ raced' = raced
  OBVIOUS
<1>2. \A r \in Rows : Stored(r) => Stored(r)'
  BY DEF Stored
<1>3. ASSUME NEW p \in Requests \ {q} PROVE Given(p)' /\ Reached(p)' /\ Held(p)'
  <2>1. Given(p) /\ Reached(p) /\ Held(p) /\ request'[p] = request[p]
    BY DEF Inv
  <2>2. \A k \in Keys : <<p, k>> \in Rows /\ definition'[<<p, k>>] = definition[<<p, k>>]
    BY DEF Rows
  <2>3. Given(p)'
    BY <2>1, <1>2 DEF Given
  <2>4. Reached(p)'
    BY <2>1, <2>2, <1>1, SeedsAssumption DEF Reached, Exists, Owned, Seeded
  <2>5. Held(p)'
    BY <2>1, <2>2 DEF Held, Stored
  <2> QED BY <2>3, <2>4, <2>5
<1>4. ASSUME NEW r \in Rows PROVE Counted(r)'
  <2>1. Counted(r) /\ definition[r].active \in BOOLEAN /\ due[r] \in BOOLEAN
    BY DEF Inv, TypeOK, DefinitionRow
  <2>2. \A p \in Requests : Flagging(p, r)' => Flagging(p, r) /\ request'[p] = request[p]
    BY DEF Flagging
  <2>3. \A p \in Requests : Flagging(p, r) => Stored(r)
    BY DEF Inv, Given, Flagging
  <2>4. CASE r \in new
    BY <2>1, <2>2, <2>3, <2>4, <1>1 DEF Counted, Stored
  <2>5. CASE r \notin new
    BY <2>1, <2>2, <2>5, <1>1 DEF Counted, Stored
  <2> QED BY <2>4, <2>5
<1> QED BY <1>3, <1>4

LEMMA SeedInv ==
  ASSUME Inv, NEW q \in Requests, Seed(q)
  PROVE  Inv'
<1> DEFINE new == {r \in Rows : r[1] = q /\ r[2] \in Seeds}
           row(k) == [tenant |-> q, key |-> k, active |-> TRUE, deleted |-> FALSE]
           over == Over("created")
<1>1. /\ request[q].phase = "seed" /\ Given(q) /\ Reached(q) /\ Held(q)
      /\ tenant' = tenant /\ user' = user /\ due' = due /\ raced' = raced
  BY DEF Inv, Seed, history
<1>2. over \in Request /\ over.phase = "created"
  BY OverIsRequest DEF Phase
<1>3. \A k \in Keys : row(k) \in DefinitionRow /\ row(k).tenant = q /\ row(k).active = TRUE
  BY DEF DefinitionRow
<1>4. /\ request' = [request EXCEPT ![q] = over] /\ request'[q] = over
      /\ \A p \in Requests \ {q} : request'[p] = request[p]
  BY DEF Inv, TypeOK, Seed, End
<1>5. definition' = [r \in Rows |-> IF r \in new THEN row(r[2]) ELSE definition[r]]
  BY DEF Seed
<1>6. \A r \in new : r \in Rows /\ r[1] = q /\ r[2] \in Keys /\ r = <<q, r[2]>>
  BY DEF Rows
<1>7. \A k \in Seeds : <<q, k>> \in new
  BY SeedsAssumption DEF Rows
<1> HIDE DEF over, new, row
<1>8. TypeOK'
  BY <1>1, <1>2, <1>3, <1>4, <1>5, <1>6 DEF Inv, TypeOK
<1>9. \A r \in new : r[1] = q /\ ~Stored(r)
  BY <1>1, <1>6 DEF Held
<1>10. \A r \in new : definition'[r].tenant = q /\ definition'[r].active = TRUE
  BY <1>3, <1>5, <1>6
<1>11. /\ \A p \in Requests \ {q} : Given(p)' /\ Reached(p)' /\ Held(p)'
       /\ \A r \in Rows : Counted(r)'
  <2>1. new \in SUBSET Rows
    BY <1>6
  <2>2. \A r \in new : r[1] = q /\ ~Stored(r) /\ definition'[r].active = due'[r]
                       /\ definition'[r].tenant # None
    <3>1. \A r \in new : due[r] = TRUE
      BY <1>6, <1>9 DEF Inv, Counted
    <3> QED BY <3>1, <1>1, <1>9, <1>10, NoneAssumption
  <2>3. \A r \in Rows \ new : definition'[r] = definition[r] /\ due'[r] = due[r]
    BY <1>1, <1>5
  <2>4. request'[q].phase \notin {"toggle", "update"} /\ UNCHANGED <<tenant, user, raced>>
    BY <1>1, <1>2, <1>4
  <2>5. \A p \in Requests \ {q} : request'[p] = request[p]
    BY <1>4
  <2> QED BY <2>1, <2>2, <2>3, <2>4, <2>5, Inserted
<1>12. Seeded(q)'
  BY <1>7, <1>10 DEF Seeded
<1>13. Given(q)' /\ Reached(q)' /\ Held(q)'
  BY <1>1, <1>2, <1>4, <1>12 DEF Given, Reached, Held, Exists, Owned
<1> QED BY <1>8, <1>11, <1>13 DEF Inv

LEMMA InsertDefinitionInv ==
  ASSUME Inv, NEW q \in Requests, InsertDefinition(q)
  PROVE  Inv'
<1> DEFINE t == request[q].tenant
           key == request[q].key
           active == request[q].flag # "inactive"
           row == [tenant |-> t, key |-> key, active |-> active, deleted |-> FALSE]
           over == Over("done")
<1>1. /\ request[q].phase = "insert" /\ Given(q) /\ Reached(q) /\ Held(q)
      /\ tenant' = tenant /\ user' = user /\ raced' = raced
      /\ t \in Requests /\ t # q /\ t # None /\ key \in Keys
  BY NoneAssumption DEF Inv, InsertDefinition, Given
<1>2. over \in Request /\ over.phase = "done"
  BY OverIsRequest DEF Phase
<1>3. /\ active \in BOOLEAN /\ row \in DefinitionRow /\ row.tenant = t
      /\ row.active = active /\ <<q, key>> \in Rows
  BY <1>1 DEF DefinitionRow, Rows
<1>4. /\ request' = [request EXCEPT ![q] = over] /\ request'[q] = over
      /\ \A p \in Requests \ {q} : request'[p] = request[p]
  BY DEF Inv, TypeOK, InsertDefinition, End
<1>5. /\ definition' = [definition EXCEPT ![<<q, key>>] = row]
      /\ definition'[<<q, key>>] = row
      /\ \A r \in Rows \ {<<q, key>>} : definition'[r] = definition[r]
  BY <1>3 DEF Inv, TypeOK, InsertDefinition
<1>11. /\ due' = [due EXCEPT ![<<q, key>>] = active] /\ due'[<<q, key>>] = active
       /\ \A r \in Rows \ {<<q, key>>} : due'[r] = due[r]
  BY <1>3 DEF Inv, TypeOK, InsertDefinition
<1> HIDE DEF over, row, active
<1>6. TypeOK'
  BY <1>1, <1>2, <1>3, <1>4, <1>5, <1>11 DEF Inv, TypeOK
<1>7. ~Stored(<<q, key>>)
  BY <1>1 DEF Held
<1>8. /\ \A p \in Requests \ {q} : Given(p)' /\ Reached(p)' /\ Held(p)'
      /\ \A r \in Rows : Counted(r)'
  <2> DEFINE new == {<<q, key>>}
  <2>1. new \in SUBSET Rows
    BY <1>3
  <2>2. \A r \in new : r[1] = q /\ ~Stored(r) /\ definition'[r].active = due'[r]
                       /\ definition'[r].tenant # None
    BY <1>1, <1>3, <1>5, <1>7, <1>11
  <2>3. \A r \in Rows \ new : definition'[r] = definition[r] /\ due'[r] = due[r]
    BY <1>5, <1>11
  <2>4. request'[q].phase \notin {"toggle", "update"} /\ UNCHANGED <<tenant, user, raced>>
    BY <1>1, <1>2, <1>4
  <2>5. \A p \in Requests \ {q} : request'[p] = request[p]
    BY <1>4
  <2> HIDE DEF new
  <2> QED BY <2>1, <2>2, <2>3, <2>4, <2>5, Inserted
<1>9. Held(q)'
  <2> SUFFICES ASSUME NEW k \in Keys PROVE definition'[<<q, k>>].tenant # q
    BY <1>2, <1>4 DEF Held
  <2>1. CASE k = key
    BY <2>1, <1>1, <1>3, <1>5
  <2>2. CASE k # key
    <3>1. <<q, k>> \in Rows /\ <<q, k>> # <<q, key>>
      BY <2>2 DEF Rows
    <3> QED BY <3>1, <1>1, <1>5, NoneAssumption DEF Held, Stored
  <2> QED BY <2>1, <2>2
<1>10. Given(q)' /\ Reached(q)'
  BY <1>1, <1>2, <1>4 DEF Given, Reached, Exists
<1> QED BY <1>6, <1>8, <1>9, <1>10 DEF Inv

(* A request that will write the flag begins.                              *)
LEMMA FlagsInv ==
  ASSUME Inv, NEW q \in Requests, NEW r \in Rows, NEW new \in Request,
         request[q].phase = "new", Stored(r),
         new.phase \in {"toggle", "update"}, new.row = r, new.seen = definition[r].active,
         request' = [request EXCEPT ![q] = new],
         UNCHANGED <<tenant, user, definition, due>>, Races(r)
  PROVE  Inv'
<1>1. /\ request[q].phase = "new" /\ Reached(q) /\ Held(q) /\ Stored(r)
      /\ definition[r].active \in BOOLEAN
      /\ tenant' = tenant /\ user' = user /\ definition' = definition /\ due' = due
      /\ raced' = IF \E p \in Requests : Flagging(p, r) THEN raced \cup {r} ELSE raced
  BY DEF Inv, TypeOK, DefinitionRow, Races
<1>2. /\ new \in Request /\ new.phase \in {"toggle", "update"} /\ new.row = r
      /\ new.seen = definition[r].active
  OBVIOUS
<1>3. /\ request'[q] = new
      /\ \A p \in Requests \ {q} : request'[p] = request[p]
  BY DEF Inv, TypeOK
<1>4. TypeOK'
  BY <1>1, <1>2, <1>3 DEF Inv, TypeOK
<1>5. Given(q)' /\ Reached(q)' /\ Held(q)'
  BY <1>1, <1>2, <1>3, NoneAssumption DEF Given, Reached, Held, Exists, Stored
<1>6. ASSUME NEW p \in Requests \ {q} PROVE Given(p)' /\ Reached(p)' /\ Held(p)'
  <2>1. Given(p) /\ Reached(p) /\ Held(p)
    BY DEF Inv
  <2>2. Given(p)' /\ Held(p)'
    BY <2>1, <1>1, <1>3 DEF Given, Held, Stored
  <2>3. Reached(p)'
    BY <2>1, <1>1, <1>3 DEF Reached, Exists, Owned, Seeded
  <2> QED BY <2>2, <2>3
<1>7. ASSUME NEW x \in Rows PROVE Counted(x)'
  <2>1. Counted(x)
    BY DEF Inv
  <2>2. CASE x # r
    <3>1. \A p \in Requests : Flagging(p, x)' => Flagging(p, x) /\ request'[p] = request[p]
      BY <2>2, <1>2, <1>3 DEF Flagging
    <3>2. x \notin raced' => x \notin raced
      BY <1>1
    <3> QED BY <2>1, <3>1, <3>2, <1>1 DEF Counted, Stored
  <2>3. CASE x = r
    <3>1. Stored(x)' /\ (x \notin raced' => x \notin raced)
      BY <2>3, <1>1 DEF Stored
    <3>2. ASSUME x \notin raced', NEW p \in Requests, Flagging(p, x)' PROVE p = q
      BY <2>3, <3>2, <1>1, <1>3 DEF Flagging
    <3> QED BY <2>1, <2>3, <3>1, <3>2, <1>1, <1>2, <1>3 DEF Counted
  <2> QED BY <2>2, <2>3
<1> QED BY <1>4, <1>5, <1>6, <1>7 DEF Inv

LEMMA ToggleInv ==
  ASSUME Inv, NEW q \in Requests, NEW r \in Rows, Toggle(q, r)
  PROVE  Inv'
<1> DEFINE new == [Idle EXCEPT !.phase = "toggle", !.row = r, !.seen = definition[r].active]
<1>1. /\ request[q].phase = "new" /\ Stored(r) /\ definition[r].active \in BOOLEAN
      /\ UNCHANGED <<tenant, user, definition, due>> /\ Races(r)
      /\ request' = [request EXCEPT ![q] = new]
  BY DEF Inv, TypeOK, DefinitionRow, Toggle, Begin
<1>2. /\ new \in Request /\ new.phase = "toggle" /\ new.row = r
      /\ new.seen = definition[r].active
  BY <1>1 DEF Idle, Request, Phase, Flag
<1> HIDE DEF new
<1> QED BY <1>1, <1>2, FlagsInv

LEMMA UpdateDefinitionInv ==
  ASSUME Inv, NEW q \in Requests, NEW r \in Rows, NEW key \in Keys \cup {None},
         NEW flag \in Flag, UpdateDefinition(q, r, key, flag)
  PROVE  Inv'
<1> DEFINE new == [Idle EXCEPT !.phase = "update", !.row = r, !.key = key, !.flag = flag,
                               !.seen = definition[r].active]
<1>1. /\ request[q].phase = "new" /\ Stored(r) /\ definition[r].active \in BOOLEAN
      /\ UNCHANGED <<tenant, user, definition, due>> /\ raced \in SUBSET Rows
  BY DEF Inv, TypeOK, DefinitionRow, UpdateDefinition, Begin
<1>2. ~Exists(q)
  BY <1>1 DEF Inv, Reached
<1>3. /\ new \in Request /\ new.phase = "update" /\ new.row = r /\ new.flag = flag
      /\ new.seen = definition[r].active
  BY <1>1 DEF Idle, Request, Phase
<1>4. IF flag = "unnamed" THEN raced' = raced ELSE Races(r)
  BY DEF UpdateDefinition
<1>5. raced \subseteq raced' /\ raced' \in SUBSET Rows
  BY <1>1, <1>4 DEF Races
<1>6. CASE request' = [request EXCEPT ![q] = Over("conflict")]
  <2>1. Over("conflict") \in Request /\ Over("conflict").phase = "conflict"
    BY OverIsRequest DEF Phase
  <2> QED BY <2>1, <1>1, <1>2, <1>5, <1>6, BeginsInv
<1>7. CASE request' = [request EXCEPT ![q] = new]
  <2> HIDE DEF new
  <2>1. CASE flag = "unnamed"
    BY <2>1, <1>1, <1>2, <1>3, <1>5, <1>7, BeginsInv
  <2>2. CASE flag # "unnamed"
    BY <2>2, <1>1, <1>3, <1>4, <1>7, FlagsInv
  <2> QED BY <2>1, <2>2
<1> QED BY <1>6, <1>7 DEF UpdateDefinition, Begin

(* A request writes columns of a row other than its tenant, and the flag,  *)
(* if no other overlaps with it, as it is due.                             *)
LEMMA WrittenInv ==
  ASSUME Inv, NEW q \in Requests, NEW r \in Rows, NEW row \in DefinitionRow,
         NEW flag \in BOOLEAN,
         request[q].phase \in {"update", "toggle"}, request[q].row = r,
         row.tenant = definition[r].tenant,
         r \notin raced => row.active = flag,
         ~Flagging(q, r) => row.active = definition[r].active /\ flag = due[r],
         definition' = [definition EXCEPT ![r] = row],
         due' = [due EXCEPT ![r] = flag],
         request' = [request EXCEPT ![q] = Over("done")],
         UNCHANGED <<tenant, user, raced>>
  PROVE  Inv'
<1> DEFINE over == Over("done")
<1>1. /\ Given(q) /\ Reached(q) /\ Held(q) /\ Stored(r)
      /\ tenant' = tenant /\ user' = user /\ raced' = raced
  BY DEF Inv, Given
<1>2. over \in Request /\ over.phase = "done"
  BY OverIsRequest DEF Phase
<1>3. /\ request' = [request EXCEPT ![q] = over] /\ request'[q] = over
      /\ \A p \in Requests \ {q} : request'[p] = request[p]
  BY DEF Inv, TypeOK
<1>4. /\ definition'[r] = row /\ due'[r] = flag
      /\ \A x \in Rows \ {r} : definition'[x] = definition[x] /\ due'[x] = due[x]
  BY DEF Inv, TypeOK
<1> HIDE DEF over
<1>5. TypeOK'
  BY <1>1, <1>2, <1>3, <1>4 DEF Inv, TypeOK
<1>6. \A x \in Rows : definition'[x].tenant = definition[x].tenant
  BY <1>4
<1>7. \A p \in Requests, k \in Keys :
        definition'[<<p, k>>].tenant = definition[<<p, k>>].tenant
  BY <1>6 DEF Rows
<1>8. Given(q)' /\ Reached(q)' /\ Held(q)'
  BY <1>1, <1>2, <1>3, <1>7, NoneAssumption DEF Given, Reached, Held, Exists, Stored
<1>9. ASSUME NEW p \in Requests \ {q} PROVE Given(p)' /\ Reached(p)' /\ Held(p)'
  <2>1. Given(p) /\ Reached(p) /\ Held(p)
    BY DEF Inv
  <2>2. Given(p)' /\ Held(p)'
    BY <2>1, <1>3, <1>6, <1>7 DEF Given, Held, Stored
  <2>3. Reached(p)'
    BY <2>1, <1>1, <1>3, <1>7, SeedsAssumption DEF Reached, Exists, Owned, Seeded
  <2> QED BY <2>2, <2>3
<1>10. ASSUME NEW x \in Rows PROVE Counted(x)'
  <2>1. Counted(x)
    BY DEF Inv
  <2>2. \A p \in Requests : Flagging(p, x)' => Flagging(p, x) /\ p # q /\ request'[p] = request[p]
    BY <1>2, <1>3 DEF Flagging
  <2>3. CASE x # r
    <3>1. definition'[x] = definition[x] /\ due'[x] = due[x]
      BY <2>3, <1>4
    <3> QED BY <2>1, <2>2, <3>1, <1>1 DEF Counted, Stored
  <2>4. CASE x = r
    <3>1. Stored(x)'
      BY <2>4, <1>1, <1>6 DEF Stored
    <3>2. ASSUME x \notin raced PROVE definition'[x].active = due'[x]
      BY <2>4, <3>2, <1>4
    <3>3. CASE Flagging(q, r)
      <4>1. ASSUME x \notin raced PROVE \A p \in Requests : ~Flagging(p, x)'
        BY <2>1, <2>2, <2>4, <3>3, <4>1 DEF Counted
      <4> QED BY <3>1, <3>2, <4>1, <1>1 DEF Counted
    <3>4. CASE ~Flagging(q, r)
      <4>1. definition'[x].active = definition[x].active /\ due'[x] = due[x]
        BY <2>4, <3>4, <1>4
      <4> QED BY <2>1, <2>2, <3>1, <4>1, <1>1 DEF Counted
    <3> QED BY <3>3, <3>4
  <2> QED BY <2>3, <2>4
<1> QED BY <1>5, <1>8, <1>9, <1>10 DEF Inv

LEMMA WriteToggleInv ==
  ASSUME Inv, NEW q \in Requests, WriteToggle(q)
  PROVE  Inv'
<1> DEFINE r == request[q].row
           row == [definition[r] EXCEPT !.active = ~request[q].seen]
           flag == ~due[r]
<1>1. /\ request[q].phase = "toggle" /\ r \in Rows /\ request[q].seen \in BOOLEAN
      /\ Flagging(q, r) /\ Counted(r) /\ UNCHANGED <<tenant, user, raced>>
  BY DEF Inv, TypeOK, Request, WriteToggle, Given, Flagging
<1>2. /\ row \in DefinitionRow /\ row.tenant = definition[r].tenant
      /\ row.active = ~request[q].seen /\ flag \in BOOLEAN
  BY <1>1 DEF Inv, TypeOK, DefinitionRow
<1>3. r \notin raced => row.active = flag
  <2>1. r \notin raced => request[q].seen = definition[r].active /\ definition[r].active = due[r]
    BY <1>1 DEF Counted
  <2> QED BY <2>1, <1>2
<1>4. /\ definition' = [definition EXCEPT ![r] = row]
      /\ due' = [due EXCEPT ![r] = flag]
      /\ request' = [request EXCEPT ![q] = Over("done")]
  BY DEF WriteToggle, End
<1> HIDE DEF row, flag
<1> QED BY <1>1, <1>2, <1>3, <1>4, WrittenInv

LEMMA WriteDefinitionInv ==
  ASSUME Inv, NEW q \in Requests, WriteDefinition(q)
  PROVE  Inv'
<1> DEFINE r == request[q].row
           key == request[q].key
           named == request[q].flag # "unnamed"
           active == request[q].flag = "active"
           kept == ~named \/ active = request[q].seen
           row == [definition[r] EXCEPT
                     !.key = IF key = None THEN definition[r].key ELSE key,
                     !.active = IF kept THEN definition[r].active ELSE active]
           flag == IF ~named THEN due[r] ELSE active
<1>1. /\ request[q].phase = "update" /\ r \in Rows /\ request[q].seen \in BOOLEAN
      /\ key \in Keys \cup {None} /\ Counted(r) /\ UNCHANGED <<tenant, user, raced>>
      /\ definition[r] \in DefinitionRow /\ due[r] \in BOOLEAN
  BY DEF Inv, TypeOK, Request, WriteDefinition, Given
<1>2. Flagging(q, r) <=> named
  BY <1>1 DEF Flagging
<1>3. /\ row \in DefinitionRow /\ row.tenant = definition[r].tenant
      /\ row.active = IF kept THEN definition[r].active ELSE active
  BY <1>1 DEF DefinitionRow
<1>4. /\ definition' = [definition EXCEPT ![r] = row]
      /\ due' = [due EXCEPT ![r] = flag]
      /\ request' = [request EXCEPT ![q] = Over("done")]
  BY DEF WriteDefinition, End
<1>5. flag \in BOOLEAN
  BY <1>1
<1>6. r \notin raced => row.active = flag
  <2> SUFFICES ASSUME r \notin raced PROVE row.active = flag
    OBVIOUS
  <2>1. definition[r].active = due[r] /\ (named => request[q].seen = definition[r].active)
    BY <1>1, <1>2 DEF Counted
  <2>2. CASE ~named
    BY <2>1, <2>2, <1>3
  <2>3. CASE named /\ active = request[q].seen
    BY <2>1, <2>3, <1>3
  <2>4. CASE named /\ active # request[q].seen
    BY <2>4, <1>3
  <2> QED BY <2>2, <2>3, <2>4
<1>7. ~named => row.active = definition[r].active /\ flag = due[r]
  BY <1>3
<1> HIDE DEF row, flag, named
<1> QED BY <1>1, <1>2, <1>3, <1>4, <1>5, <1>6, <1>7, WrittenInv

LEMMA NextInv ==
  ASSUME Inv, [Next]_vars
  PROVE  Inv'
<1>1. CASE UNCHANGED vars
  BY <1>1 DEF vars, history, Inv, TypeOK, Given, Reached, Held, Counted, Exists, Owned, Seeded,
              Stored, Flagging
<1>2. ASSUME NEW q \in Requests, NEW d \in Domains, NEW e \in Emails, CreateTenant(q, d, e)
      PROVE Inv'
  BY <1>2, CreateTenantInv
<1>3. ASSUME NEW q \in Requests,
             InsertTenant(q) \/ InsertOwner(q) \/ Seed(q) \/ InsertUser(q)
               \/ InsertDefinition(q) \/ WriteDefinition(q) \/ WriteToggle(q) \/ Fail(q)
      PROVE Inv'
  BY <1>3, InsertTenantInv, InsertOwnerInv, SeedInv, InsertUserInv, InsertDefinitionInv,
     WriteDefinitionInv, WriteToggleInv, FailInv
<1>4. ASSUME NEW q \in Requests, NEW t \in Requests \cup {None}, NEW e \in Emails,
             CreateUser(q, t, e)
      PROVE Inv'
  BY <1>4, CreateUserInv
<1>5. ASSUME NEW q \in Requests, NEW t \in Requests, NEW key \in Keys,
             NEW flag \in Flag, CreateDefinition(q, t, key, flag)
      PROVE Inv'
  BY <1>5, CreateDefinitionInv
<1>6. ASSUME NEW q \in Requests, NEW r \in Rows, Toggle(q, r) PROVE Inv'
  BY <1>6, ToggleInv
<1>7. ASSUME NEW q \in Requests, NEW r \in Rows, NEW key \in Keys \cup {None},
             NEW flag \in Flag, UpdateDefinition(q, r, key, flag)
      PROVE Inv'
  BY <1>7, UpdateDefinitionInv
<1>8. ASSUME NEW t \in Requests, RemoveTenant(t) \/ \E d \in Domains : UpdateTenant(t, d)
      PROVE Inv'
  BY <1>8, RemoveTenantInv, UpdateTenantInv
<1>9. ASSUME NEW e \in Emails, RemoveUser(e) PROVE Inv'
  BY <1>9, RemoveUserInv
<1>10. ASSUME NEW r \in Rows, RemoveDefinition(r) PROVE Inv'
  BY <1>10, RemoveDefinitionInv
<1> QED BY <1>1, <1>2, <1>3, <1>4, <1>5, <1>6, <1>7, <1>8, <1>9, <1>10 DEF Next

LEMMA InvHolds == Spec => []Inv
<1>1. Init => Inv
  BY InitInv
<1>2. Inv /\ [Next]_vars => Inv'
  BY NextInv
<1> QED BY <1>1, <1>2, PTL DEF Spec

(* Every variable keeps its type: tenants.service.ts, users.service.ts,    *)
(* base-definition.service.ts.                                             *)
THEOREM TypeCorrect == Spec => []TypeOK
BY InvHolds, PTL DEF Inv

(* A tenant whose creation was answered keeps its owner and its seeded     *)
(* definitions: TenantsService.create, UsersService.remove.                *)
THEOREM CreatedIsCompleteHolds == Spec => []CreatedIsComplete
<1>1. Inv => CreatedIsComplete
  BY DEF Inv, Reached, CreatedIsComplete
<1> QED BY <1>1, InvHolds, PTL

(* A tenant has all of the seeded definitions, and an owner, or none of    *)
(* them: TenantOnboardingService.onboardTenant.                            *)
THEOREM SeedsTogetherHolds == Spec => []SeedsTogether
<1>1. ASSUME Inv, NEW q \in Requests, NEW k \in Seeds, definition[<<q, k>>].tenant = q
      PROVE  Seeded(q) /\ Owned(q)
  <2>1. request[q].phase = "created"
    BY <1>1, SeedsAssumption DEF Inv, Held
  <2> QED BY <2>1, <1>1 DEF Inv, Reached
<1>2. Inv => SeedsTogether
  BY <1>1 DEF SeedsTogether
<1> QED BY <1>2, InvHolds, PTL

(* Writes of the flag that did not overlap are counted: toggleActive,      *)
(* create and update.                                                      *)
THEOREM TogglesCountHolds == Spec => []TogglesCount
<1>1. Inv => TogglesCount
  BY SMTT(40) DEF Inv, Counted, TogglesCount
<1> QED BY <1>1, InvHolds, PTL

-----------------------------------------------------------------------------
(* The numbers of documents: DocumentNumbers.                              *)

(* A series gets one more row, or one of its rows is marked as deleted.    *)
LEMMA InsertedSeries ==
  ASSUME NumberTypeOK, NEW p \in pending, Insert(p)
  PROVE  /\ p \in Creating /\ p.tenant \in Tenants /\ p.series \in Series
         /\ p.number \in Nat \ {0}
         /\ LET d == docs[p.tenant][p.series] IN
              /\ d \in Seq(Doc)
              /\ docs'[p.tenant][p.series] = Append(d, [number |-> p.number, deleted |-> FALSE])
              /\ docs'[p.tenant][p.series] \in Seq(Doc)
         /\ \A t \in Tenants, s \in Series :
              ~(t = p.tenant /\ s = p.series) => docs'[t][s] = docs[t][s]
         /\ docs' \in [Tenants -> [Series -> Seq(Doc)]]
         /\ pending' = pending \ {p} /\ unserved' = unserved
<1> DEFINE row == [number |-> p.number, deleted |-> FALSE]
<1>1. /\ p \in Creating /\ p.tenant \in Tenants /\ p.series \in Series
      /\ p.number \in Nat \ {0}
  BY DEF NumberTypeOK, Creating
<1>2. row \in Doc /\ docs[p.tenant][p.series] \in Seq(Doc)
  BY <1>1 DEF Doc, NumberTypeOK
<1>3. Append(docs[p.tenant][p.series], row) \in Seq(Doc)
  BY <1>2
<1>4. /\ docs' = [docs EXCEPT ![p.tenant][p.series] = Append(@, row)]
      /\ pending' = pending \ {p} /\ unserved' = unserved
  BY DEF Insert
<1> HIDE DEF row
<1>5. docs' \in [Tenants -> [Series -> Seq(Doc)]]
  BY <1>1, <1>3, <1>4 DEF NumberTypeOK
<1>6. /\ docs'[p.tenant][p.series] = Append(docs[p.tenant][p.series], row)
      /\ \A t \in Tenants, s \in Series :
              ~(t = p.tenant /\ s = p.series) => docs'[t][s] = docs[t][s]
  BY <1>1, <1>4 DEF NumberTypeOK
<1>7. QED
  BY <1>1, <1>2, <1>3, <1>4, <1>5, <1>6 DEF row

LEMMA RemovedSeries ==
  ASSUME NumberTypeOK, NEW t \in Tenants, NEW s \in Series, NEW n \in DOMAIN docs[t][s],
         Remove(t, s, n)
  PROVE  /\ docs' \in [Tenants -> [Series -> Seq(Doc)]]
         /\ \A u \in Tenants, v \in Series :
              /\ Len(docs'[u][v]) = Len(docs[u][v])
              /\ \A m \in 1..Len(docs[u][v]) : docs'[u][v][m].number = docs[u][v][m].number
         /\ pending' = pending /\ unserved' = unserved
<1> DEFINE d == docs[t][s]
           e == [d EXCEPT ![n].deleted = TRUE]
<1>1. d \in Seq(Doc) /\ n \in 1..Len(d) /\ d[n] \in Doc
  BY DEF NumberTypeOK
<1>2. /\ e \in Seq(Doc) /\ Len(e) = Len(d)
      /\ \A m \in 1..Len(d) : e[m].number = d[m].number
  <2>1. [d[n] EXCEPT !.deleted = TRUE] \in Doc
        /\ [d[n] EXCEPT !.deleted = TRUE].number = d[n].number
    BY <1>1 DEF Doc
  <2>2. e = [d EXCEPT ![n] = [d[n] EXCEPT !.deleted = TRUE]]
    BY <1>1
  <2>3. QED
    BY <1>1, <2>1, <2>2
<1>3. /\ docs' = [docs EXCEPT ![t] = [docs[t] EXCEPT ![s] = e]]
      /\ pending' = pending /\ unserved' = unserved
  BY DEF Remove, NumberTypeOK
<1> HIDE DEF d, e
<1>4. docs' \in [Tenants -> [Series -> Seq(Doc)]]
  BY <1>2, <1>3 DEF NumberTypeOK
<1>5. \A u \in Tenants, v \in Series :
        IF u = t /\ v = s THEN docs'[u][v] = e ELSE docs'[u][v] = docs[u][v]
  BY <1>3 DEF NumberTypeOK
<1>6. QED
  BY <1>2, <1>3, <1>4, <1>5 DEF d

(* Rows and requests keep their shape, and every number is at least one.   *)
THEOREM NumbersTypeCorrect == NumberSpec => []NumberTypeOK
<1>1. NumberInit => NumberTypeOK
  BY DEF NumberInit, NumberTypeOK
<1>2. NumberTypeOK /\ [NumberNext]_numberVars => NumberTypeOK'
  <2> SUFFICES ASSUME NumberTypeOK, [NumberNext]_numberVars PROVE NumberTypeOK'
    OBVIOUS
  <2>1. ASSUME NEW q \in Creates, NEW t \in Tenants, NEW s \in Series, BeginDocument(q, t, s)
        PROVE  NumberTypeOK'
    <3>1. Count(t, s) + 1 \in Nat \ {0}
      BY DEF NumberTypeOK, Count
    <3>2. [id |-> q, tenant |-> t, series |-> s, number |-> Count(t, s) + 1] \in Creating
      BY <3>1 DEF Creating
    <3>3. QED
      BY <2>1, <3>2 DEF BeginDocument, NumberTypeOK
  <2>2. ASSUME NEW p \in pending, Insert(p) PROVE NumberTypeOK'
    BY <2>2, InsertedSeries DEF NumberTypeOK
  <2>3. ASSUME NEW p \in pending, GiveUp(p) PROVE NumberTypeOK'
    BY <2>3 DEF GiveUp, NumberTypeOK
  <2>4. ASSUME NEW t \in Tenants, NEW s \in Series, NEW n \in DOMAIN docs[t][s],
               Remove(t, s, n)
        PROVE  NumberTypeOK'
    BY <2>4, RemovedSeries DEF NumberTypeOK
  <2>5. CASE UNCHANGED numberVars
    BY <2>5 DEF numberVars, NumberTypeOK
  <2>6. QED
    BY <2>1, <2>2, <2>3, <2>4, <2>5 DEF NumberNext
<1>3. QED
  BY <1>1, <1>2, PTL DEF NumberSpec

(* However creates overlap, counters never run ahead of the rows.          *)
THEOREM NumberWithinCountHolds == NumberSpec => []NumberWithinCount
<1>1. NumberInit => NumberWithinCount
  BY DEF NumberInit, NumberWithinCount
<1>2. NumberTypeOK /\ NumberWithinCount /\ [NumberNext]_numberVars => NumberWithinCount'
  <2> SUFFICES ASSUME NumberTypeOK, NumberWithinCount, [NumberNext]_numberVars PROVE NumberWithinCount'
    OBVIOUS
  <2>1. ASSUME NEW q \in Creates, NEW t \in Tenants, NEW s \in Series, BeginDocument(q, t, s)
        PROVE  NumberWithinCount'
    <3> DEFINE new == [id |-> q, tenant |-> t, series |-> s, number |-> Count(t, s) + 1]
    <3>1. docs' = docs /\ pending' = pending \cup {new}
      BY <2>1 DEF BeginDocument
    <3>2. Len(docs[t][s]) \in Nat
      BY DEF NumberTypeOK
    <3>3. new.number \in 1..(Len(docs[new.tenant][new.series]) + 1)
      BY <3>2 DEF Count
    <3> HIDE DEF new
    <3>4. QED
      BY <3>1, <3>3 DEF NumberWithinCount
  <2>2. ASSUME NEW p \in pending, Insert(p) PROVE NumberWithinCount'
    <3> DEFINE d == docs[p.tenant][p.series]
               row == [number |-> p.number, deleted |-> FALSE]
    <3>1. /\ d \in Seq(Doc) /\ Len(d) \in Nat
          /\ docs'[p.tenant][p.series] = Append(d, row)
          /\ p.tenant \in Tenants /\ p.series \in Series
          /\ p.number \in 1..(Len(d) + 1)
      BY <2>2, InsertedSeries DEF NumberWithinCount
    <3>2. ASSUME NEW t \in Tenants, NEW s \in Series
          PROVE  /\ Len(docs[t][s]) \in Nat /\ Len(docs'[t][s]) \in Nat
                 /\ Len(docs[t][s]) <= Len(docs'[t][s])
                 /\ \A n \in DOMAIN docs'[t][s] : docs'[t][s][n].number \in 1..n
      <4>1. CASE t = p.tenant /\ s = p.series
        <5>1. Len(Append(d, row)) = Len(d) + 1
          BY SMTT(40), <3>1
        <5>2. ASSUME NEW n \in 1..(Len(d) + 1) PROVE Append(d, row)[n].number \in 1..n
          <6>1. CASE n \in 1..Len(d)
            BY <3>1, <6>1 DEF NumberWithinCount
          <6>2. CASE n = Len(d) + 1
            BY SMTT(40), <3>1, <6>2
          <6>3. QED
            BY SMTT(40), <3>1, <6>1, <6>2
        <5>3. DOMAIN Append(d, row) = 1..(Len(d) + 1)
          BY <3>1
        <5>4. docs[t][s] = d /\ docs'[t][s] = Append(d, row)
          BY <3>1, <4>1
        <5> HIDE DEF d, row
        <5>5. QED
          BY <3>1, <5>1, <5>2, <5>3, <5>4
      <4>2. CASE ~(t = p.tenant /\ s = p.series)
        <5>1. docs'[t][s] = docs[t][s]
          BY <2>2, <4>2, InsertedSeries
        <5>2. Len(docs[t][s]) \in Nat
          BY DEF NumberTypeOK
        <5>3. QED
          BY <5>1, <5>2 DEF NumberWithinCount
      <4>3. QED
        BY <4>1, <4>2
    <3>3. ASSUME NEW r \in pending'
          PROVE  r.number \in 1..(Len(docs'[r.tenant][r.series]) + 1)
      <4>1. r \in pending
        BY <2>2 DEF Insert
      <4>2. r.tenant \in Tenants /\ r.series \in Series
        BY <4>1 DEF NumberTypeOK, Creating
      <4>3. r.number \in 1..(Len(docs[r.tenant][r.series]) + 1)
        BY <4>1 DEF NumberWithinCount
      <4>4. /\ Len(docs[r.tenant][r.series]) \in Nat /\ Len(docs'[r.tenant][r.series]) \in Nat
            /\ Len(docs[r.tenant][r.series]) <= Len(docs'[r.tenant][r.series])
        BY <3>2, <4>2
      <4> DEFINE before == Len(docs[r.tenant][r.series])
                 after == Len(docs'[r.tenant][r.series])
      <4>5. before \in Nat /\ after \in Nat /\ before <= after /\ r.number \in 1..(before + 1)
        BY <4>3, <4>4
      <4> HIDE DEF before, after
      <4>6. r.number \in 1..(after + 1)
        BY <4>5
      <4>7. QED
        BY <4>6 DEF after
    <3>4. QED
      BY <3>2, <3>3 DEF NumberWithinCount
  <2>3. ASSUME NEW p \in pending, GiveUp(p) PROVE NumberWithinCount'
    BY <2>3 DEF GiveUp, NumberWithinCount
  <2>4. ASSUME NEW t \in Tenants, NEW s \in Series, NEW n \in DOMAIN docs[t][s],
               Remove(t, s, n)
        PROVE  NumberWithinCount'
    <3>1. /\ docs' \in [Tenants -> [Series -> Seq(Doc)]]
          /\ \A u \in Tenants, v \in Series :
               /\ Len(docs'[u][v]) = Len(docs[u][v])
               /\ \A m \in 1..Len(docs[u][v]) : docs'[u][v][m].number = docs[u][v][m].number
          /\ pending' = pending
      BY <2>4, RemovedSeries
    <3>2. \A u \in Tenants, v \in Series :
            /\ DOMAIN docs[u][v] = 1..Len(docs[u][v])
            /\ DOMAIN docs'[u][v] = 1..Len(docs'[u][v])
      BY <3>1 DEF NumberTypeOK
    <3>3. ASSUME NEW u \in Tenants, NEW v \in Series, NEW m \in DOMAIN docs'[u][v]
          PROVE  docs'[u][v][m].number \in 1..m
      <4>1. m \in 1..Len(docs[u][v]) /\ m \in DOMAIN docs[u][v]
        BY <3>1, <3>2
      <4>2. docs'[u][v][m].number = docs[u][v][m].number
        BY <3>1, <4>1
      <4>3. docs[u][v][m].number \in 1..m
        BY <4>1 DEF NumberWithinCount
      <4>4. QED
        BY <4>2, <4>3
    <3>4. ASSUME NEW r \in pending
          PROVE  r.number \in 1..(Len(docs'[r.tenant][r.series]) + 1)
      BY <3>1 DEF NumberWithinCount, NumberTypeOK, Creating
    <3>5. QED
      BY <3>1, <3>3, <3>4 DEF NumberWithinCount
  <2>5. CASE UNCHANGED numberVars
    BY <2>5 DEF numberVars, NumberWithinCount
  <2>6. QED
    BY <2>1, <2>2, <2>3, <2>4, <2>5 DEF NumberNext
<1>3. QED
  BY <1>1, <1>2, NumbersTypeCorrect, PTL DEF NumberSpec

(* A create takes a number above all those that were there when it         *)
(* counted: two documents share a number only if their creates overlapped. *)
THEOREM FreshWhenCountedHolds == NumberSpec => FreshWhenCounted
<1> DEFINE Fresh == \A p \in pending' \ pending :
                      \A n \in DOMAIN docs[p.tenant][p.series] :
                        docs[p.tenant][p.series][n].number < p.number
<1>1. NumberTypeOK /\ NumberWithinCount /\ [NumberNext]_numberVars => [Fresh]_numberVars
  <2> SUFFICES ASSUME NumberTypeOK, NumberWithinCount, NumberNext PROVE Fresh
    OBVIOUS
  <2>1. ASSUME NEW q \in Creates, NEW t \in Tenants, NEW s \in Series, BeginDocument(q, t, s)
        PROVE  Fresh
    <3> DEFINE new == [id |-> q, tenant |-> t, series |-> s, number |-> Count(t, s) + 1]
    <3> SUFFICES ASSUME NEW p \in pending' \ pending,
                        NEW n \in DOMAIN docs[p.tenant][p.series]
                 PROVE  docs[p.tenant][p.series][n].number < p.number
      OBVIOUS
    <3>1. p = new
      BY <2>1 DEF BeginDocument
    <3>2. /\ n \in 1..Len(docs[t][s]) /\ Len(docs[t][s]) \in Nat
          /\ docs[t][s][n].number \in 1..n
      BY <3>1 DEF NumberTypeOK, NumberWithinCount
    <3>3. QED
      BY <3>1, <3>2 DEF Count
  <2>2. ASSUME NEW p \in pending, Insert(p) \/ GiveUp(p) PROVE Fresh
    BY <2>2 DEF Insert, GiveUp
  <2>3. ASSUME NEW t \in Tenants, NEW s \in Series, NEW n \in DOMAIN docs[t][s],
               Remove(t, s, n)
        PROVE  Fresh
    BY <2>3 DEF Remove
  <2>4. QED
    BY <2>1, <2>2, <2>3 DEF NumberNext
<1>2. QED
  BY <1>1, NumbersTypeCorrect, NumberWithinCountHolds, PTL DEF NumberSpec, FreshWhenCounted
-----------------------------------------------------------------------------
LEMMA RankSafe == NumberSpec => []RankInv
<1>1. NumberInit => RankInv
  BY DEF NumberInit, RankInv, NumberIsRank, Serial
<1>2. NumberTypeOK /\ RankInv /\ [NumberNext]_numberVars => RankInv'
  <2> SUFFICES ASSUME NumberTypeOK, RankInv, [NumberNext]_numberVars PROVE RankInv'
    OBVIOUS
  <2>1. ASSUME NEW q \in Creates, NEW t \in Tenants, NEW s \in Series, BeginDocument(q, t, s)
        PROVE  RankInv'
    <3> DEFINE new == [id |-> q, tenant |-> t, series |-> s, number |-> Count(t, s) + 1]
    <3>1. /\ docs' = docs /\ pending' = pending \cup {new}
          /\ s \in Serial => \A p \in pending : ~(p.tenant = t /\ p.series = s)
      BY <2>1 DEF BeginDocument, MayStart, Serial
    <3>2. /\ new.tenant = t /\ new.series = s
          /\ new.number = Len(docs[new.tenant][new.series]) + 1
      BY DEF Count
    <3> HIDE DEF new
    <3>3. ASSUME NEW p \in pending', p.series \in Serial
          PROVE  /\ p.number = Len(docs[p.tenant][p.series]) + 1
                 /\ \A r \in pending' : p.tenant = r.tenant /\ p.series = r.series => p = r
      <4>1. CASE p = new
        BY <3>1, <3>2, <3>3, <4>1
      <4>2. CASE p \in pending
        BY <3>1, <3>2, <3>3, <4>2 DEF RankInv
      <4>3. QED
        BY <3>1, <3>3, <4>1, <4>2
    <3>4. QED
      BY <3>1, <3>3 DEF RankInv, NumberIsRank
  <2>2. ASSUME NEW p \in pending, Insert(p) PROVE RankInv'
    <3> DEFINE d == docs[p.tenant][p.series]
               row == [number |-> p.number, deleted |-> FALSE]
    <3>1. /\ d \in Seq(Doc) /\ Len(d) \in Nat
          /\ docs'[p.tenant][p.series] = Append(d, row)
          /\ p.tenant \in Tenants /\ p.series \in Series
          /\ p.series \in Serial => p.number = Len(d) + 1
          /\ pending' = pending \ {p}
      BY <2>2, InsertedSeries DEF RankInv
    <3>2. \A t \in Tenants, s \in Series :
            ~(t = p.tenant /\ s = p.series) => docs'[t][s] = docs[t][s]
      BY <2>2, InsertedSeries
    <3>3. ASSUME p.series \in Serial
          PROVE  \A n \in DOMAIN Append(d, row) : Append(d, row)[n].number = n
      <4>1. DOMAIN Append(d, row) = 1..(Len(d) + 1)
        BY <3>1
      <4>2. \A n \in 1..Len(d) : Append(d, row)[n] = d[n] /\ d[n].number = n
        BY <3>1, <3>3 DEF RankInv, NumberIsRank
      <4>3. row.number = Len(d) + 1
        BY <3>1, <3>3
      <4> HIDE DEF d, row
      <4>4. Append(d, row)[Len(d) + 1] = row
        BY <3>1
      <4>5. \A n \in 1..(Len(d) + 1) : n \in 1..Len(d) \/ n = Len(d) + 1
        BY <3>1
      <4>6. QED
        BY <4>1, <4>2, <4>3, <4>4, <4>5
    <3> HIDE DEF d, row
    <3>4. NumberIsRank'
      <4> SUFFICES ASSUME NEW t \in Tenants, NEW s \in Serial, NEW n \in DOMAIN docs'[t][s]
                   PROVE  docs'[t][s][n].number = n
        BY DEF NumberIsRank
      <4>0. s \in Series
        BY DEF Serial
      <4>1. CASE t = p.tenant /\ s = p.series
        BY <3>1, <3>3, <4>1
      <4>2. CASE ~(t = p.tenant /\ s = p.series)
        BY <3>2, <4>0, <4>2 DEF RankInv, NumberIsRank
      <4>3. QED
        BY <4>1, <4>2
    <3>5. \A r \in pending' : r.series \in Serial =>
            r.number = Len(docs'[r.tenant][r.series]) + 1
      <4> SUFFICES ASSUME NEW r \in pending, r # p, r.series \in Serial
                   PROVE  r.number = Len(docs'[r.tenant][r.series]) + 1
        BY <3>1
      <4>1. ~(r.tenant = p.tenant /\ r.series = p.series)
        BY DEF RankInv
      <4>2. r.tenant \in Tenants /\ r.series \in Series
        BY DEF NumberTypeOK, Creating
      <4>3. docs'[r.tenant][r.series] = docs[r.tenant][r.series]
        BY <3>2, <4>1, <4>2
      <4>4. QED
        BY <4>3 DEF RankInv
    <3>6. \A r, v \in pending' : r.series \in Serial /\ r.tenant = v.tenant /\ r.series = v.series => r = v
      BY <3>1 DEF RankInv
    <3>7. QED
      BY <3>4, <3>5, <3>6 DEF RankInv
  <2>3. ASSUME NEW p \in pending, GiveUp(p) PROVE RankInv'
    BY <2>3 DEF GiveUp, RankInv, NumberIsRank
  <2>4. ASSUME NEW t \in Tenants, NEW s \in Series, NEW n \in DOMAIN docs[t][s],
               Remove(t, s, n)
        PROVE  RankInv'
    <3>1. /\ docs' \in [Tenants -> [Series -> Seq(Doc)]]
          /\ \A u \in Tenants, v \in Series :
               /\ Len(docs'[u][v]) = Len(docs[u][v])
               /\ \A m \in 1..Len(docs[u][v]) : docs'[u][v][m].number = docs[u][v][m].number
          /\ pending' = pending
      BY <2>4, RemovedSeries
    <3>2. \A u \in Tenants, v \in Series :
            /\ DOMAIN docs[u][v] = 1..Len(docs[u][v])
            /\ DOMAIN docs'[u][v] = 1..Len(docs'[u][v])
      BY <3>1 DEF NumberTypeOK
    <3>3. NumberIsRank'
      <4> SUFFICES ASSUME NEW u \in Tenants, NEW v \in Serial, NEW m \in DOMAIN docs'[u][v]
                   PROVE  docs'[u][v][m].number = m
        BY DEF NumberIsRank
      <4>0. v \in Series
        BY DEF Serial
      <4>1. m \in 1..Len(docs[u][v]) /\ m \in DOMAIN docs[u][v]
        BY <3>1, <3>2, <4>0
      <4>2. docs'[u][v][m].number = docs[u][v][m].number
        BY <3>1, <4>0, <4>1
      <4>3. QED
        BY <4>1, <4>2 DEF RankInv, NumberIsRank
    <3>4. \A r \in pending : r.series \in Serial =>
            r.number = Len(docs'[r.tenant][r.series]) + 1
      <4> TAKE r \in pending
      <4> HAVE r.series \in Serial
      <4>1. r.tenant \in Tenants /\ r.series \in Series
        BY DEF NumberTypeOK, Creating
      <4>2. QED
        BY <3>1, <4>1 DEF RankInv
    <3>5. QED
      BY <3>1, <3>3, <3>4 DEF RankInv
  <2>5. CASE UNCHANGED numberVars
    BY <2>5 DEF numberVars, RankInv, NumberIsRank
  <2>6. QED
    BY <2>1, <2>2, <2>3, <2>4, <2>5 DEF NumberNext
<1>3. QED
  BY <1>1, <1>2, NumbersTypeCorrect, PTL DEF NumberSpec

(* Where creates of a series do not overlap, the n-th document of a        *)
(* tenant in a series has the number n, whatever was deleted or failed.    *)
THEOREM NumberIsRankHolds == NumberSpec => []NumberIsRank
<1>1. RankInv => NumberIsRank
  BY DEF RankInv
<1>2. QED
  BY <1>1, RankSafe, PTL

-----------------------------------------------------------------------------
(* The auto-increment series.                                              *)

Taken == [t \in Tenants |-> [s \in Serial |-> Len(docs[t][s])]]

Numbered == \A t \in Tenants, s \in Serial :
              LET d == docs[t][s]
              IN  Len(d') > Len(d) => d'[Len(d')].number = Len(d) + 1

LEMMA LengthsRest ==
  ASSUME NumberTypeOK, \A t \in Tenants, s \in Series : Len(docs'[t][s]) = Len(docs[t][s])
  PROVE  Taken' = Taken /\ Numbered
<1>1. \A t \in Tenants, s \in Serial : /\ Len(docs'[t][s]) = Len(docs[t][s])
                                       /\ Len(docs[t][s]) \in Nat
  BY DEF Serial, NumberTypeOK
<1>2. Taken' = Taken
  BY <1>1 DEF Taken
<1>3. Numbered
  BY <1>1 DEF Numbered
<1>4. QED
  BY <1>2, <1>3

LEMMA InsertTakes ==
  ASSUME NumberTypeOK, RankInv, NEW p \in pending, Insert(p)
  PROVE  [Counter!SNext]_Taken /\ Numbered
<1> DEFINE d == docs[p.tenant][p.series]
           row == [number |-> p.number, deleted |-> FALSE]
<1>1. /\ d \in Seq(Doc) /\ Len(d) \in Nat /\ p.tenant \in Tenants
      /\ docs'[p.tenant][p.series] = Append(d, row)
      /\ \A t \in Tenants, s \in Series :
           ~(t = p.tenant /\ s = p.series) => docs'[t][s] = docs[t][s]
  BY InsertedSeries
<1>2. Len(Append(d, row)) = Len(d) + 1 /\ Append(d, row)[Len(d) + 1] = row
  BY SMTT(40), <1>1
<1>3. Serial \subseteq Series /\ \A t \in Tenants, s \in Serial : Len(docs[t][s]) \in Nat
  BY DEF Serial, NumberTypeOK
<1>4. row.number = p.number
  OBVIOUS
<1>5. p.series \in Serial => p.number = Len(d) + 1
  BY DEF RankInv
<1> HIDE DEF d, row
<1>6. Numbered
  <2> SUFFICES ASSUME NEW t \in Tenants, NEW s \in Serial, Len(docs'[t][s]) > Len(docs[t][s])
               PROVE  docs'[t][s][Len(docs'[t][s])].number = Len(docs[t][s]) + 1
    BY DEF Numbered
  <2>1. t = p.tenant /\ s = p.series
    BY <1>1, <1>3
  <2>2. QED
    BY <1>1, <1>2, <1>4, <1>5, <2>1 DEF d
<1>7. CASE p.series \notin Serial
  <2>1. \A t \in Tenants, s \in Serial : docs'[t][s] = docs[t][s]
    BY <1>1, <1>3, <1>7
  <2>2. Taken' = Taken
    BY <2>1 DEF Taken
  <2>3. QED
    BY <1>6, <2>2
<1>8. CASE p.series \in Serial
  <2>1. \A t \in Tenants, s \in Serial :
          Len(docs'[t][s]) = IF t = p.tenant /\ s = p.series THEN Len(docs[t][s]) + 1
                                                             ELSE Len(docs[t][s])
    BY <1>1, <1>2, <1>3 DEF d
  <2>2. Taken' = [t \in Tenants |-> [s \in Serial |->
          IF t = p.tenant /\ s = p.series THEN Taken[t][s] + 1 ELSE Taken[t][s]]]
    BY <2>1 DEF Taken
  <2>3. Taken' = [Taken EXCEPT ![p.tenant][p.series] = @ + 1]
    <3>1. Taken \in [Tenants -> [Serial -> Nat]]
      BY <1>3 DEF Taken
    <3>2. QED
      BY <1>1, <1>8, <2>2, <3>1
  <2>4. Counter!Take(p.tenant, p.series)
    BY <2>3 DEF Counter!Take, Taken
  <2>5. QED
    BY <1>1, <1>6, <1>8, <2>4 DEF Counter!SNext
<1>9. QED
  BY <1>7, <1>8

(* Where creates of a series do not overlap, its counter is that of an     *)
(* auto-increment series: each insertion takes the next number, and        *)
(* neither a failed create nor a removal takes one or gives one back.      *)
THEOREM IncrementedHolds == NumberSpec => Incremented
<1>1. NumberInit => Counter!SInit
  <2> SUFFICES ASSUME NumberInit PROVE Counter!SInit
    OBVIOUS
  <2>1. \A t \in Tenants, s \in Serial : Len(docs[t][s]) = 0
    BY DEF NumberInit, Serial
  <2>2. Taken = [t \in Tenants |-> [s \in Serial |-> 0]]
    BY <2>1 DEF Taken
  <2>3. QED
    BY <2>2 DEF Counter!SInit, Taken
<1>2. NumberTypeOK /\ RankInv /\ [NumberNext]_numberVars => [Counter!SNext]_Taken /\ [Numbered]_numberVars
  <2> SUFFICES ASSUME NumberTypeOK, RankInv, [NumberNext]_numberVars
               PROVE  [Counter!SNext]_Taken /\ Numbered
    OBVIOUS
  <2>1. ASSUME docs' = docs PROVE [Counter!SNext]_Taken /\ Numbered
    BY <2>1, LengthsRest
  <2>2. ASSUME NEW q \in Creates, NEW t \in Tenants, NEW s \in Series, BeginDocument(q, t, s)
        PROVE  [Counter!SNext]_Taken /\ Numbered
    BY <2>1, <2>2 DEF BeginDocument
  <2>3. ASSUME NEW p \in pending, Insert(p) \/ GiveUp(p)
        PROVE  [Counter!SNext]_Taken /\ Numbered
    BY <2>1, <2>3, InsertTakes DEF GiveUp
  <2>4. ASSUME NEW t \in Tenants, NEW s \in Series, NEW n \in DOMAIN docs[t][s],
               Remove(t, s, n)
        PROVE  [Counter!SNext]_Taken /\ Numbered
    BY <2>4, RemovedSeries, LengthsRest
  <2>5. CASE UNCHANGED numberVars
    BY <2>1, <2>5 DEF numberVars
  <2>6. QED
    BY <2>2, <2>3, <2>4, <2>5 DEF NumberNext
<1>3. [Counter!SNext]_Taken <=>
        [Counter!SNext]_([t \in Tenants |-> [s \in Serial |-> Len(docs[t][s])]])
  BY DEF Taken
<1>4. QED
  BY <1>1, <1>2, <1>3, NumbersTypeCorrect, RankSafe, PTL
  DEF NumberSpec, Incremented, Counter!SSpec, Numbered
=============================================================================
