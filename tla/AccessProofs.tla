----------------------------- MODULE AccessProofs -----------------------------
(* Proofs about Access, for every set of permissions, roles, users,        *)
(* tenants and requests.                                                   *)
EXTENDS Access, TLAPS

(* What a flush would insert.                                              *)
Inserts(r) == r.found \ r.seen

(* What a request in hand knows of its owner: nobody else has created it,  *)
(* or it is where it was found unless it was removed.                      *)
OwnerAsRead(r) ==
  IF r.made THEN home[r.of] = Absent ELSE home[r.of] \in {r.by, Removed}

(* And of what it is to insert: it was assignable when it was looked up,   *)
(* and since then can only have been removed.                              *)
Sound(r) ==
  /\ r.of \in Owners /\ r.seen \subseteq Items(r.of) /\ r.found \subseteq Items(r.of)
  /\ OwnerAsRead(r)
  /\ r.of \in Users => \A i \in Inserts(r) : home[i] \in {r.by, Platform, Removed}
  /\ r.of \in Roles /\ r.by \in Tenants => Inserts(r) \subseteq everTenant

RequestsSound == \A q \in Requests : Running(q) => Sound(request[q])

MakersApart ==
  \A p, q \in Requests :
    /\ Running(p) /\ request[p].made /\ Running(q) /\ request[q].made
    /\ request[p].of = request[q].of
    => p = q

HistoryKept == \A p \in Permissions : scope[p] = "TENANT" => p \in everTenant

TenantRoles == \A r \in Roles : home[r] \in Tenants => holds[r] \subseteq everTenant

Inv ==
  /\ TypeOK
  /\ RequestsSound
  /\ MakersApart
  /\ HistoryKept
  /\ TenantRoles
  /\ RolesFitUsers

LEMMA HeldSets ==
  ASSUME NEW o, NEW held, held \subseteq Items(o)
  PROVE  held \in (SUBSET Permissions) \cup (SUBSET Roles)
<1>1. held \subseteq Permissions \/ held \subseteq Roles
  BY DEF Items
<1>2. held \in SUBSET Permissions \/ held \in SUBSET Roles
  BY <1>1
<1> QED BY <1>2

LEMMA InitInv == Init => Inv
<1> SUFFICES ASSUME Init PROVE Inv
  OBVIOUS
<1>1. /\ \A o \in Owners : home[o] \in Homes \cup {Absent, Removed}
      /\ home[AdminRole] = Platform /\ home[AdminUser] = Host
      /\ AdminRole # AdminUser /\ AdminRole \in Owners /\ AdminUser \in Owners
  BY NameAssumption, SeedAssumption DEF Init, Owners, Homes
<1>2. TypeOK
  <2>1. \A p \in Permissions : scope[p] \in Scopes \cup {Absent, Removed}
    BY DEF Init, Scopes
  <2>2. ASSUME NEW o \in Owners
        PROVE  /\ holds[o] \subseteq {i \in Items(o) : There(i)}
               /\ holds[o] # {} => Live(o)
    <3>1. CASE o = AdminRole
      BY <3>1, <1>1, SeedAssumption DEF Init, Items, There, Live, Homes, Scopes
    <3>2. CASE o = AdminUser
      BY <3>2, <1>1, SeedAssumption, NameAssumption DEF Init, Items, There, Live, Homes
    <3>3. CASE o \notin {AdminRole, AdminUser}
      BY <3>3 DEF Init
    <3> QED BY <3>1, <3>2, <3>3
  <2>3. Idle \in Request
    BY DEF Idle, Request, Homes
  <2>4. everTenant \subseteq Permissions
    BY SeedAssumption DEF Init
  <2> QED BY <2>1, <2>2, <2>3, <2>4, <1>1 DEF Init, TypeOK
<1>3. \A q \in Requests : ~Running(q)
  BY DEF Init, Idle, Running
<1>4. HistoryKept
  BY NameAssumption, SeedAssumption DEF Init, HistoryKept, Scopes
<1>5. TenantRoles
  BY <1>1, NameAssumption, SeedAssumption DEF Init, TenantRoles, Owners
<1>6. RolesFitUsers
  BY <1>1, NameAssumption, SeedAssumption DEF Init, RolesFitUsers, Owners
<1> QED BY <1>2, <1>3, <1>4, <1>5, <1>6 DEF Inv, RequestsSound, MakersApart

(* A permission that is created or gets another scope.                     *)
LEMMA ScopeInv ==
  ASSUME Inv, NEW p \in Permissions, NEW s \in Scopes,
         CreatePermission(p, s) \/ UpdatePermission(p, s)
  PROVE  Inv'
<1>1. /\ scope' = [scope EXCEPT ![p] = s]
      /\ everTenant' = everTenant \cup (IF s = "TENANT" THEN {p} ELSE {})
      /\ UNCHANGED <<home, holds, request>>
  BY DEF CreatePermission, UpdatePermission
<1>2. /\ scope \in [Permissions -> Scopes \cup {Absent, Removed}]
      /\ scope'[p] = s /\ \A i \in Permissions : i # p => scope'[i] = scope[i]
      /\ everTenant \subseteq everTenant'
  BY <1>1 DEF Inv, TypeOK
<1>3. TypeOK'
  <2>1. \A i : There(i) => There(i)'
    BY <1>1, <1>2 DEF There, Live
  <2>2. /\ scope' \in [Permissions -> Scopes \cup {Absent, Removed}]
        /\ everTenant' \subseteq Permissions
    BY <1>1, <1>2 DEF Inv, TypeOK
  <2> QED BY <2>1, <2>2, <1>1 DEF Inv, TypeOK, Live, Items
<1>4. RequestsSound' /\ MakersApart'
  BY <1>1, <1>2 DEF Inv, RequestsSound, MakersApart, Running, Sound, OwnerAsRead,
       Inserts, Items
<1>5. HistoryKept' /\ TenantRoles' /\ RolesFitUsers'
  BY <1>1, <1>2 DEF Inv, HistoryKept, TenantRoles, RolesFitUsers
<1> QED BY <1>3, <1>4, <1>5 DEF Inv

(* The pairs go with a permission.                                         *)
LEMMA RemovePermissionInv ==
  ASSUME Inv, NEW p \in Permissions, RemovePermission(p)
  PROVE  Inv'
<1>1. /\ scope' = [scope EXCEPT ![p] = Removed] /\ holds' = Without(p)
      /\ UNCHANGED <<home, request, everTenant>>
  BY DEF RemovePermission
<1>2. /\ scope \in [Permissions -> Scopes \cup {Absent, Removed}]
      /\ scope'[p] = Removed /\ \A i \in Permissions : i # p => scope'[i] = scope[i]
      /\ DOMAIN holds' = Owners
      /\ \A o \in Owners : holds'[o] \subseteq holds[o] \ {p}
  BY <1>1 DEF Inv, TypeOK, Without
<1>3. TypeOK'
  <2>1. \A i : i # p /\ There(i) => There(i)'
    BY <1>1, <1>2 DEF There, Live
  <2>2. scope' \in [Permissions -> Scopes \cup {Absent, Removed}]
    BY <1>1, <1>2
  <2>3. ASSUME NEW o \in Owners
        PROVE  /\ holds'[o] \subseteq {i \in Items(o) : There(i)'}
               /\ holds'[o] # {} => Live(o)'
    BY <1>1, <1>2, <2>1 DEF Inv, TypeOK, Live
  <2> QED BY <2>2, <2>3, <1>1, <1>2 DEF Inv, TypeOK, Items
<1>4. RequestsSound' /\ MakersApart'
  BY <1>1 DEF Inv, RequestsSound, MakersApart, Running, Sound, OwnerAsRead, Inserts, Items
<1>5. HistoryKept'
  BY <1>1, <1>2, NameAssumption DEF Inv, HistoryKept, Scopes
<1>6. TenantRoles' /\ RolesFitUsers'
  BY <1>1, <1>2 DEF Inv, TenantRoles, RolesFitUsers, Owners
<1> QED BY <1>3, <1>4, <1>5, <1>6 DEF Inv

(* A role or a user that is removed.                                       *)
LEMMA RemoveInv ==
  ASSUME Inv, NEW x \in Owners, Remove(x)
  PROVE  Inv'
<1>1. /\ home' = [home EXCEPT ![x] = Removed] /\ holds' = Without(x) /\ Live(x)
      /\ UNCHANGED <<scope, request, everTenant>>
  BY DEF Remove
<1>2. /\ home \in [Owners -> Homes \cup {Absent, Removed}]
      /\ home'[x] = Removed /\ \A o \in Owners : o # x => home'[o] = home[o]
      /\ DOMAIN holds' = Owners /\ holds'[x] = {}
      /\ \A o \in Owners : holds'[o] \subseteq holds[o] \ {x}
      /\ home[x] # Absent
  BY <1>1, NameAssumption DEF Inv, TypeOK, Without, Live, Homes
<1>3. TypeOK'
  <2>1. home' \in [Owners -> Homes \cup {Absent, Removed}]
    BY <1>1, <1>2
  <2>2. ASSUME NEW o \in Owners
        PROVE  /\ holds'[o] \subseteq {i \in Items(o) : There(i)'}
               /\ holds'[o] # {} => Live(o)'
    <3>1. \A i \in Items(o) : i # x /\ There(i) => There(i)'
      BY <1>1, <1>2 DEF There, Live, Items, Owners
    <3> QED BY <3>1, <1>2 DEF Inv, TypeOK, Live
  <2> QED BY <2>1, <2>2, <1>1, <1>2 DEF Inv, TypeOK, Items
<1>4. RequestsSound'
  <2> SUFFICES ASSUME NEW q \in Requests, Running(q) PROVE Sound(request[q])'
    BY <1>1 DEF RequestsSound, Running
  <2> DEFINE r == request[q]
  <2>1. Sound(r) /\ r \in Request
    BY DEF Inv, RequestsSound, TypeOK
  <2>2. OwnerAsRead(r)'
    BY <2>1, <1>1, <1>2 DEF Sound, OwnerAsRead
  <2>3. r.of \in Users => \A i \in Inserts(r) : home'[i] \in {r.by, Platform, Removed}
    <3>1. r.of \in Users => Inserts(r) \subseteq Owners
      BY <2>1, NameAssumption DEF Sound, Inserts, Items, Owners
    <3> QED BY <3>1, <2>1, <1>2 DEF Sound
  <2> QED BY <2>1, <2>2, <2>3, <1>1 DEF Sound, Inserts, Items
<1>5. MakersApart' /\ HistoryKept'
  BY <1>1 DEF Inv, MakersApart, HistoryKept, Running
<1>6. TenantRoles' /\ RolesFitUsers'
  <2>1. TenantRoles'
    BY <1>1, <1>2, NameAssumption DEF Inv, TenantRoles, Owners
  <2>2. ASSUME NEW u \in Users, NEW r \in holds'[u]
        PROVE  home'[r] \in {home'[u], Platform}
    <3>1. r \in holds[u] /\ r # x /\ u # x /\ r \in Owners
      BY <1>2, NameAssumption DEF Inv, TypeOK, Owners, Items
    <3> QED BY <3>1, <1>2 DEF Inv, RolesFitUsers, Owners
  <2> QED BY <2>1, <2>2 DEF RolesFitUsers
<1> QED BY <1>3, <1>4, <1>5, <1>6 DEF Inv

(* A request begins with a new owner, or with one that it has found.       *)
LEMMA BeginInv ==
  ASSUME Inv, NEW q \in Requests, NEW o \in Owners, NEW by \in Homes, NEW made \in BOOLEAN,
         Begin(q, o, by, made),
         IF made THEN Fresh(o) ELSE Findable(o, by)
  PROVE  Inv'
<1> DEFINE new == [Idle EXCEPT !.phase = "lookup", !.of = o, !.by = by, !.made = made,
                              !.seen = holds[o]]
<1>1. /\ request' = [request EXCEPT ![q] = new]
      /\ UNCHANGED <<scope, home, holds, everTenant>>
  BY DEF Begin
<1>2. /\ request'[q] = new /\ \A p \in Requests : p # q => request'[p] = request[p]
  BY <1>1 DEF Inv, TypeOK
<1>3. new \in Request /\ holds[o] \subseteq Items(o)
  <2>1. holds[o] \subseteq Items(o)
    BY DEF Inv, TypeOK
  <2>2. holds[o] \in (SUBSET Permissions) \cup (SUBSET Roles)
    BY <2>1, HeldSets
  <2> QED BY <2>1, <2>2 DEF Request, Idle, Homes
<1>4. /\ new.of = o /\ new.by = by /\ new.made = made /\ new.seen = holds[o]
      /\ new.found = {} /\ new.phase = "lookup"
  <2>1. new = [Idle EXCEPT !.phase = "lookup", !.of = o, !.by = by, !.made = made,
                           !.seen = holds[o]]
    OBVIOUS
  <2> HIDE DEF new
  <2> QED BY <2>1 DEF Idle
<1> HIDE DEF new
<1>5. TypeOK'
  <2>1. request' \in [Requests -> Request]
    BY <1>1, <1>3 DEF Inv, TypeOK
  <2> QED BY <2>1, <1>1 DEF Inv, TypeOK, There, Live
<1>6. OwnerAsRead(new)
  BY <1>4 DEF OwnerAsRead, Fresh, Findable
<1>7. RequestsSound'
  <2>1. Sound(new)
    BY <1>3, <1>4, <1>6 DEF Sound, Inserts
  <2>2. \A p \in Requests : Running(p)' => Sound(request'[p])
    BY <2>1, <1>2 DEF Inv, RequestsSound, Running
  <2> QED BY <2>2, <1>1 DEF RequestsSound, Sound, OwnerAsRead
<1>8. MakersApart'
  BY <1>2, <1>4 DEF Inv, MakersApart, Running, Fresh
<1>9. HistoryKept' /\ TenantRoles' /\ RolesFitUsers'
  BY <1>1 DEF Inv, HistoryKept, TenantRoles, RolesFitUsers
<1> QED BY <1>5, <1>7, <1>8, <1>9 DEF Inv

(* What is looked up is assignable, and what the body does not name is not *)
(* inserted.                                                               *)
LEMMA LookupInv ==
  ASSUME Inv, NEW q \in Requests, NEW found,
         request[q].phase = "lookup",
         \/ found \subseteq Assignable(request[q].of, request[q].by)
         \/ found = request[q].seen,
         request' = [request EXCEPT ![q].phase = "flush", ![q].found = found],
         UNCHANGED <<scope, home, holds, everTenant>>
  PROVE  Inv'
<1> DEFINE r == request[q]
           new == [r EXCEPT !.phase = "flush", !.found = found]
<1>1. r \in Request /\ Running(q) /\ Sound(r)
  BY DEF Inv, TypeOK, Running, RequestsSound
<1>2. /\ request'[q] = new /\ \A p \in Requests : p # q => request'[p] = request[p]
      /\ request' = [request EXCEPT ![q] = new]
  BY DEF Inv, TypeOK
<1>3. /\ found \subseteq Items(r.of)
      /\ r.of \in Users => \A i \in found \ r.seen : home[i] \in {r.by, Platform, Removed}
      /\ r.of \in Roles /\ r.by \in Tenants => found \ r.seen \subseteq everTenant
  <2>1. CASE found = r.seen
    BY <2>1, <1>1 DEF Sound
  <2>2. CASE found \subseteq Assignable(r.of, r.by)
    BY <2>2, <1>1, NameAssumption
    DEF Assignable, Inv, HistoryKept, Items
  <2> QED BY <2>1, <2>2
<1>4. new \in Request
  <2>1. found \in (SUBSET Permissions) \cup (SUBSET Roles)
    BY <1>3, HeldSets
  <2> QED BY <2>1, <1>1 DEF Request
<1>5. /\ new.of = r.of /\ new.by = r.by /\ new.made = r.made /\ new.seen = r.seen
      /\ new.found = found /\ new.phase = "flush"
  <2>1. new = [r EXCEPT !.phase = "flush", !.found = found]
    OBVIOUS
  <2> HIDE DEF new, r
  <2> QED BY <2>1, <1>1 DEF Request
<1> HIDE DEF new
<1>6. TypeOK'
  <2>1. request' \in [Requests -> Request]
    BY <1>2, <1>4 DEF Inv, TypeOK
  <2> QED BY <2>1 DEF Inv, TypeOK, There, Live
<1>7. RequestsSound'
  <2>1. Sound(new)
    BY <1>1, <1>3, <1>5 DEF Sound, Inserts, OwnerAsRead
  <2>2. \A p \in Requests : Running(p)' => Sound(request'[p])
    BY <2>1, <1>2 DEF Inv, RequestsSound, Running
  <2> QED BY <2>2 DEF RequestsSound, Sound, OwnerAsRead
<1>8. MakersApart'
  <2>1. ASSUME NEW p \in Requests, Running(p)'
        PROVE  /\ Running(p) /\ request'[p].of = request[p].of
               /\ request'[p].made = request[p].made
    BY <2>1, <1>1, <1>2, <1>5 DEF Running
  <2> SUFFICES ASSUME NEW p \in Requests, NEW w \in Requests,
                      Running(p)', request'[p].made, Running(w)', request'[w].made,
                      request'[p].of = request'[w].of
               PROVE  p = w
    BY DEF MakersApart
  <2>2. request[p].made /\ request[w].made
    BY <2>1
  <2> QED BY <2>1, <2>2 DEF Inv, MakersApart
<1>9. HistoryKept' /\ TenantRoles' /\ RolesFitUsers'
  BY DEF Inv, HistoryKept, TenantRoles, RolesFitUsers
<1> QED BY <1>6, <1>7, <1>8, <1>9 DEF Inv

(* A request that is over is not running, and disturbs no other.           *)
LEMMA OverRequest ==
  ASSUME Inv, NEW q \in Requests, NEW phase \in {"done", "failed"},
         request' = [request EXCEPT ![q] = [Idle EXCEPT !.phase = phase]]
  PROVE  /\ request' \in [Requests -> Request]
         /\ ~Running(q)'
         /\ \A p \in Requests : Running(p)' =>
              p # q /\ Running(p) /\ request'[p] = request[p]
         /\ MakersApart'
<1> DEFINE over == [Idle EXCEPT !.phase = phase]
<1>1. over \in Request /\ over.phase = phase
  BY DEF Idle, Request, Homes
<1>2. /\ request'[q] = over /\ \A p \in Requests : p # q => request'[p] = request[p]
      /\ request' \in [Requests -> Request]
  BY <1>1 DEF Inv, TypeOK
<1>3. ~Running(q)'
  BY <1>1, <1>2 DEF Running
<1> QED BY <1>2, <1>3 DEF Running, Inv, MakersApart

LEMMA FailInv ==
  ASSUME Inv, NEW q \in Requests, Fail(q)
  PROVE  Inv'
<1>1. /\ request' = [request EXCEPT ![q] = [Idle EXCEPT !.phase = "failed"]]
      /\ UNCHANGED <<scope, home, holds, everTenant>>
  BY DEF Fail
<1>2. /\ request' \in [Requests -> Request] /\ MakersApart'
      /\ \A p \in Requests : Running(p)' => Running(p) /\ request'[p] = request[p]
  BY <1>1, OverRequest
<1>3. TypeOK'
  BY <1>1, <1>2 DEF Inv, TypeOK, There, Live
<1>4. RequestsSound'
  BY <1>1, <1>2 DEF Inv, RequestsSound, Sound, OwnerAsRead
<1>5. HistoryKept' /\ TenantRoles' /\ RolesFitUsers'
  BY <1>1 DEF Inv, HistoryKept, TenantRoles, RolesFitUsers
<1> QED BY <1>2, <1>3, <1>4, <1>5 DEF Inv

(* What a flush does to the owner: it is there or removed, and gets        *)
(* nothing but what is inserted.                                           *)
LEMMA FlushFacts ==
  ASSUME Inv, NEW q \in Requests, Flush(q)
  PROVE  LET r == request[q] IN
         /\ r \in Request /\ Sound(r) /\ r.of \in Owners /\ r.by \in Homes
         /\ home'[r.of] = (IF r.made THEN r.by ELSE home[r.of])
         /\ home'[r.of] \in {r.by, Removed}
         /\ \A o \in Owners : o # r.of => home'[o] = home[o] /\ holds'[o] = holds[o]
         /\ home' \in [Owners -> Homes \cup {Absent, Removed}]
         /\ \A o \in Owners : Live(o) => home'[o] = home[o]
         /\ DOMAIN holds' = Owners
         /\ holds'[r.of] \subseteq holds[r.of] \cup Inserts(r)
         /\ \A i \in Inserts(r) : There(i)
         /\ home'[r.of] = Removed => holds'[r.of] = {}
         /\ home'[r.of] = r.by => holds'[r.of] = HeldAfter(r)
<1> DEFINE r == request[q]
<1>1. /\ r.phase = "flush" /\ Accepted(r)
      /\ home' = IF r.made THEN [home EXCEPT ![r.of] = r.by] ELSE home
      /\ holds' = [holds EXCEPT ![r.of] =
           IF r.made \/ Live(r.of) THEN HeldAfter(r) ELSE {}]
  BY DEF Flush
<1>2. /\ r \in Request /\ Sound(r) /\ r.of \in Owners /\ r.by \in Homes
      /\ home \in [Owners -> Homes \cup {Absent, Removed}] /\ DOMAIN holds = Owners
  BY <1>1 DEF Inv, TypeOK, RequestsSound, Running, Sound, Request
<1>3. /\ home'[r.of] = (IF r.made THEN r.by ELSE home[r.of])
      /\ \A o \in Owners : o # r.of => home'[o] = home[o] /\ holds'[o] = holds[o]
      /\ home' \in [Owners -> Homes \cup {Absent, Removed}]
      /\ DOMAIN holds' = Owners
      /\ holds'[r.of] = IF r.made \/ Live(r.of) THEN HeldAfter(r) ELSE {}
  BY <1>1, <1>2
<1>4. home'[r.of] \in {r.by, Removed} /\ (r.made => home[r.of] = Absent)
  BY <1>2, <1>3 DEF Sound, OwnerAsRead
<1>5. \A o \in Owners : Live(o) => home'[o] = home[o]
  BY <1>3, <1>4, NameAssumption DEF Live, Homes
<1>6. /\ holds'[r.of] \subseteq holds[r.of] \cup Inserts(r)
      /\ \A i \in Inserts(r) : There(i)
  BY <1>1, <1>3 DEF HeldAfter, Inserts, Accepted
<1>7. /\ home'[r.of] = Removed => holds'[r.of] = {}
      /\ home'[r.of] = r.by => holds'[r.of] = HeldAfter(r)
  BY <1>2, <1>3, NameAssumption DEF Live, Homes
<1> QED BY <1>2, <1>3, <1>4, <1>5, <1>6, <1>7

LEMMA FlushInv ==
  ASSUME Inv, NEW q \in Requests, Flush(q)
  PROVE  Inv'
<1> DEFINE r == request[q]
<1>1. /\ request' = [request EXCEPT ![q] = [Idle EXCEPT !.phase = "done"]]
      /\ UNCHANGED <<scope, everTenant>> /\ Running(q)
  BY DEF Flush, Running
<1>2. /\ request' \in [Requests -> Request] /\ MakersApart'
      /\ \A p \in Requests : Running(p)' =>
           p # q /\ Running(p) /\ request'[p] = request[p]
  BY <1>1, OverRequest
<1>3. /\ r \in Request /\ Sound(r) /\ r.of \in Owners /\ r.by \in Homes
      /\ home'[r.of] = (IF r.made THEN r.by ELSE home[r.of])
      /\ home'[r.of] \in {r.by, Removed}
      /\ \A o \in Owners : o # r.of => home'[o] = home[o] /\ holds'[o] = holds[o]
      /\ home' \in [Owners -> Homes \cup {Absent, Removed}]
      /\ \A o \in Owners : Live(o) => home'[o] = home[o]
      /\ DOMAIN holds' = Owners
      /\ holds'[r.of] \subseteq holds[r.of] \cup Inserts(r)
      /\ \A i \in Inserts(r) : There(i)
      /\ home'[r.of] = Removed => holds'[r.of] = {}
  BY FlushFacts
<1>4. ASSUME NEW o \in Owners, NEW i \in holds'[o]
      PROVE  i \in Items(o) /\ There(i) /\ There(i)'
  <2>1. i \in Items(o) /\ There(i)
    BY <1>3 DEF Inv, TypeOK, Sound, Inserts
  <2>2. CASE i \in Permissions
    BY <2>1, <2>2, <1>1 DEF There
  <2>3. CASE i \notin Permissions
    BY <2>1, <2>3, <1>3 DEF There, Live, Items, Owners
  <2> QED BY <2>1, <2>2, <2>3
<1>5. TypeOK'
  <2>1. ASSUME NEW o \in Owners, holds'[o] # {} PROVE Live(o)'
    <3>1. CASE o = r.of
      BY <3>1, <2>1, <1>3 DEF Live
    <3>2. CASE o # r.of
      BY <3>2, <2>1, <1>3 DEF Live, Inv, TypeOK
    <3> QED BY <3>1, <3>2
  <2>2. \A o \in Owners : holds'[o] \subseteq {i \in Items(o) : There(i)'}
    BY <1>4
  <2>3. /\ scope' \in [Permissions -> Scopes \cup {Absent, Removed}]
        /\ everTenant' \subseteq Permissions
    BY <1>1 DEF Inv, TypeOK
  <2> QED BY <2>1, <2>2, <2>3, <1>2, <1>3 DEF TypeOK, Items
<1>6. RequestsSound'
  <2> SUFFICES ASSUME NEW p \in Requests, Running(p)' PROVE Sound(request[p])'
    BY DEF RequestsSound
  <2> DEFINE w == request[p]
  <2>1. p # q /\ Running(p) /\ request'[p] = w /\ Sound(w) /\ w \in Request
    BY <1>2 DEF Inv, RequestsSound, TypeOK
  <2>2. OwnerAsRead(w)'
    <3>1. CASE w.of # r.of
      BY <3>1, <2>1, <1>3 DEF Sound, OwnerAsRead
    <3>2. CASE w.of = r.of /\ r.made
      <4>1. home[w.of] = Absent
        BY <3>2, <1>3 DEF Sound, OwnerAsRead
      <4>2. w.made
        BY <4>1, <2>1, NameAssumption DEF Sound, OwnerAsRead, Request, Homes
      <4> QED BY <4>2, <3>2, <2>1, <1>1 DEF Inv, MakersApart
    <3>3. CASE w.of = r.of /\ ~r.made
      BY <3>3, <2>1, <1>3 DEF Sound, OwnerAsRead
    <3> QED BY <3>1, <3>2, <3>3
  <2>3. ASSUME w.of \in Users, NEW i \in Inserts(w)
        PROVE  home'[i] \in {w.by, Platform, Removed}
    <3>1. i \in Owners /\ home[i] \in {w.by, Platform, Removed} /\ w.by \in Homes
      BY <2>1, <2>3, NameAssumption DEF Sound, Inserts, Items, Owners, Request
    <3>2. home[i] \in Homes => home'[i] = home[i]
      BY <3>1, <1>3 DEF Live
    <3>3. home[i] = Removed => home'[i] = Removed
      BY <3>1, <1>3, NameAssumption DEF Sound, OwnerAsRead
    <3> QED BY <3>1, <3>2, <3>3 DEF Homes
  <2> QED BY <2>1, <2>2, <2>3, <1>1 DEF Sound, Inserts, Items
<1>7. HistoryKept'
  BY <1>1 DEF Inv, HistoryKept
<1>8. TenantRoles'
  <2> SUFFICES ASSUME NEW o \in Roles, home'[o] \in Tenants
               PROVE  holds'[o] \subseteq everTenant
    BY <1>1 DEF TenantRoles
  <2>1. CASE o # r.of
    BY <2>1, <1>3 DEF Inv, TenantRoles, Owners
  <2>2. CASE o = r.of
    <3>1. r.by \in Tenants
      BY <2>2, <1>3, NameAssumption
    <3>2. Inserts(r) \subseteq everTenant
      BY <2>2, <3>1, <1>3 DEF Sound
    <3>3. holds[o] \subseteq everTenant
      <4>1. CASE home[o] \in Tenants
        BY <4>1 DEF Inv, TenantRoles
      <4>2. CASE home[o] \notin Tenants
        <5>1. home[o] = Absent
          BY <2>2, <4>2, <1>3 DEF Sound, OwnerAsRead
        <5> QED BY <5>1, <2>2, <1>3, NameAssumption DEF Inv, TypeOK, Live, Homes
      <4> QED BY <4>1, <4>2
    <3> QED BY <2>2, <3>2, <3>3, <1>3
  <2> QED BY <2>1, <2>2
<1>9. RolesFitUsers'
  <2> SUFFICES ASSUME NEW u \in Users, NEW i \in holds'[u]
               PROVE  home'[i] \in {home'[u], Platform}
    BY DEF RolesFitUsers
  <2>1. u \in Owners /\ i \in Roles /\ i \in Owners /\ Live(i) /\ home'[i] = home[i]
    BY <1>3, <1>4, NameAssumption DEF Items, Owners, There
  <2>2. CASE i \in holds[u]
    <3>1. Live(u)
      BY <2>1, <2>2 DEF Inv, TypeOK
    <3> QED BY <3>1, <2>1, <2>2, <1>3 DEF Inv, RolesFitUsers
  <2>3. CASE i \notin holds[u]
    <3>1. u = r.of /\ i \in Inserts(r) /\ home'[u] # Removed
      BY <2>1, <2>3, <1>3
    <3>2. home'[u] = r.by /\ home[i] \in {r.by, Platform, Removed}
      BY <3>1, <1>3 DEF Sound
    <3> QED BY <3>2, <2>1, NameAssumption DEF Live, Homes
  <2> QED BY <2>2, <2>3
<1> QED BY <1>2, <1>5, <1>6, <1>7, <1>8, <1>9 DEF Inv

LEMMA NextInv == Inv /\ [Next]_vars => Inv'
<1> SUFFICES ASSUME Inv, [Next]_vars PROVE Inv'
  OBVIOUS
<1>1. CASE UNCHANGED vars
  BY <1>1 DEF vars, Inv, TypeOK, RequestsSound, MakersApart, HistoryKept, TenantRoles,
       RolesFitUsers, Sound, OwnerAsRead, Inserts, Running, There, Live
<1>2. CASE \E p \in Permissions :
             \/ \E s \in Scopes : CreatePermission(p, s) \/ UpdatePermission(p, s)
             \/ RemovePermission(p)
  BY <1>2, ScopeInv, RemovePermissionInv
<1>3. CASE \E o \in Owners : Remove(o)
  BY <1>3, RemoveInv
<1>4. ASSUME NEW q \in Requests, NEW o \in Owners,
             \/ CreateSystemRole(q, o) \/ UpdateSystemRole(q, o)
             \/ \E t \in Tenants : \/ CreateRole(q, o, t) \/ UpdateRole(q, o, t)
                                   \/ CreateUser(q, o, t) \/ UpdateUser(q, o, t)
      PROVE  Inv'
  <2>1. CASE CreateSystemRole(q, o)
    BY <2>1, BeginInv DEF CreateSystemRole, Homes
  <2>2. CASE UpdateSystemRole(q, o)
    BY <2>2, BeginInv DEF UpdateSystemRole, Homes
  <2>3. ASSUME NEW t \in Tenants, CreateRole(q, o, t) \/ CreateUser(q, o, t)
        PROVE  Inv'
    BY <2>3, BeginInv DEF CreateRole, CreateUser, Homes
  <2>4. ASSUME NEW t \in Tenants, UpdateRole(q, o, t) \/ UpdateUser(q, o, t)
        PROVE  Inv'
    BY <2>4, BeginInv DEF UpdateRole, UpdateUser, Homes
  <2> QED BY <1>4, <2>1, <2>2, <2>3, <2>4
<1>5. ASSUME NEW q \in Requests, NEW named, Lookup(q, named) PROVE Inv'
  <2> DEFINE found == named \cap Assignable(request[q].of, request[q].by)
  <2>1. /\ request[q].phase = "lookup"
        /\ request' = [request EXCEPT ![q].phase = "flush", ![q].found = found]
        /\ UNCHANGED <<scope, home, holds, everTenant>>
    BY <1>5 DEF Lookup
  <2>2. found \subseteq Assignable(request[q].of, request[q].by)
    OBVIOUS
  <2> HIDE DEF found
  <2> QED BY <2>1, <2>2, LookupInv
<1>6. ASSUME NEW q \in Requests, LookUpNothing(q) PROVE Inv'
  BY <1>6, LookupInv DEF LookUpNothing
<1>7. ASSUME NEW q \in Requests, Flush(q) \/ Fail(q) PROVE Inv'
  BY <1>7, FlushInv, FailInv
<1> QED BY <1>1, <1>2, <1>3, <1>4, <1>5, <1>6, <1>7 DEF Next

LEMMA Invariance == Spec => []Inv
BY InitInv, NextInv, PTL DEF Spec

(* Only what is there holds and is held: no flush gives a removed          *)
(* permission to a role or a removed role to a user, and nothing that is   *)
(* removed keeps its pairs.                                                *)
THEOREM TypeCorrect == Spec => []TypeOK
<1>1. Inv => TypeOK
  BY DEF Inv
<1> QED BY <1>1, Invariance, PTL

(* A user's roles are of the user's own tenant or of the platform, however *)
(* the requests that set them overlap with removals.                       *)
THEOREM RolesFitUsersHold == Spec => []RolesFitUsers
<1>1. Inv => RolesFitUsers
  BY DEF Inv
<1> QED BY <1>1, Invariance, PTL

(* What a tenant could never assign comes to a tenant's user only by a     *)
(* role that the platform made.                                            *)
THEOREM PlatformRightsHold == Spec => []PlatformRightsFromPlatform
<1>1. Inv => PlatformRightsFromPlatform
  <2> SUFFICES ASSUME Inv, NEW u \in Users, NEW p \in Rights(u) \ everTenant
               PROVE  \E r \in holds[u] : home[r] = Platform /\ p \in holds[r]
    BY DEF PlatformRightsFromPlatform, Inv, TenantRoles
  <2>1. PICK r \in holds[u] : p \in holds[r]
    BY DEF Rights
  <2>2. r \in Roles /\ There(r)
    BY NameAssumption DEF Inv, TypeOK, Items, Owners
  <2>3. home[r] \in Homes
    BY <2>2, NameAssumption DEF There, Live
  <2>4. home[r] \notin Tenants
    BY <2>1, <2>2 DEF Inv, TenantRoles
  <2> QED BY <2>1, <2>3, <2>4 DEF Homes
<1> QED BY <1>1, Invariance, PTL

(* A flush changes only what its request decided on, whatever other        *)
(* requests have flushed since it read its owner.                          *)
THEOREM SetsOnlyItsDifferenceHolds == Spec => SetsOnlyItsDifference
<1> DEFINE Step(q) ==
      request[q].phase = "flush" /\ request'[q].phase = "done" =>
        LET r == request[q]
            before == holds[r.of]
            after == holds'[r.of]
        IN /\ (after \ before) \cap r.seen = {}
           /\ before \ after \subseteq r.seen
           /\ before = r.seen /\ home'[r.of] # Removed => after = r.found
<1>1. Inv /\ [Next]_vars => [\A q \in Requests : Step(q)]_vars
  <2> SUFFICES ASSUME Inv, Next, NEW q \in Requests,
                      request[q].phase = "flush", request'[q].phase = "done"
               PROVE  Step(q)
    OBVIOUS
  <2> DEFINE r == request[q]
  <2>1. Flush(q)
    <3>1. DOMAIN request = Requests /\ r.phase = "flush" /\ request'[q] # r
      BY DEF Inv, TypeOK
    <3>2. \A p \in Permissions :
            /\ \A s \in Scopes : ~CreatePermission(p, s) /\ ~UpdatePermission(p, s)
            /\ ~RemovePermission(p)
      BY <3>1 DEF CreatePermission, UpdatePermission, RemovePermission
    <3>3. \A o \in Owners : ~Remove(o)
      BY <3>1 DEF Remove
    <3>4. ASSUME NEW w \in Requests, NEW o \in Owners
          PROVE  /\ ~CreateSystemRole(w, o) /\ ~UpdateSystemRole(w, o)
                 /\ \A t \in Tenants : /\ ~CreateRole(w, o, t) /\ ~UpdateRole(w, o, t)
                                      /\ ~CreateUser(w, o, t) /\ ~UpdateUser(w, o, t)
      <4>1. ASSUME NEW by, NEW made PROVE ~Begin(w, o, by, made)
        BY <3>1 DEF Begin
      <4> QED BY <4>1 DEF CreateSystemRole, UpdateSystemRole, CreateRole, UpdateRole,
                      CreateUser, UpdateUser
    <3>5. ASSUME NEW w \in Requests, NEW named PROVE ~Lookup(w, named) /\ ~LookUpNothing(w)
      BY <3>1 DEF Lookup, LookUpNothing
    <3>6. ASSUME NEW w \in Requests, Fail(w) PROVE FALSE
      <4>1. w = q
        BY <3>1, <3>6 DEF Fail
      <4>2. request'[q].phase = "failed"
        BY <4>1, <3>1, <3>6 DEF Fail, Idle
      <4> QED BY <4>2
    <3>7. ASSUME NEW w \in Requests, Flush(w) PROVE w = q
      BY <3>1, <3>7 DEF Flush
    <3>8. \E w \in Requests :
            \/ \E o \in Owners :
                 \/ CreateSystemRole(w, o) \/ UpdateSystemRole(w, o)
                 \/ \E t \in Tenants : \/ CreateRole(w, o, t) \/ UpdateRole(w, o, t)
                                       \/ CreateUser(w, o, t) \/ UpdateUser(w, o, t)
            \/ \E named : Lookup(w, named)
            \/ LookUpNothing(w) \/ Flush(w) \/ Fail(w)
      BY <3>2, <3>3, Zenon DEF Next
    <3>9. \E w \in Requests : Flush(w)
      BY <3>4, <3>5, <3>6, <3>8, Zenon
    <3> QED BY <3>7, <3>9
  <2>2. /\ r.of \in Owners /\ Sound(r) /\ home'[r.of] \in {r.by, Removed}
        /\ r.by \in Homes
        /\ home'[r.of] = (IF r.made THEN r.by ELSE home[r.of])
        /\ home'[r.of] = Removed => holds'[r.of] = {}
        /\ home'[r.of] = r.by => holds'[r.of] = HeldAfter(r)
    BY <2>1, FlushFacts
  <2>3. CASE home'[r.of] = r.by
    BY <2>2, <2>3, NameAssumption DEF HeldAfter, Homes
  <2>4. CASE home'[r.of] # r.by
    <3>1. home[r.of] = Removed /\ holds'[r.of] = {}
      BY <2>2, <2>4
    <3>2. holds[r.of] = {}
      BY <3>1, <2>2, NameAssumption DEF Inv, TypeOK, Live, Homes
    <3> QED BY <3>1, <3>2, <2>2, <2>4
  <2> QED BY <2>3, <2>4
<1> QED BY <1>1, Invariance, PTL DEF Spec, SetsOnlyItsDifference
=============================================================================
