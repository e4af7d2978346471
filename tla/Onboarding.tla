----------------------------- MODULE Onboarding -----------------------------
(***************************************************************************)
(* Tenants, their users and their definitions: TenantsService with its     *)
(* TenantOnboardingService, UsersService, the user operations of           *)
(* AdminUsersService, and BaseDefinitionService, on which the services of  *)
(* all the kinds of definitions (units, currencies, statuses, ...) rest.   *)
(*                                                                         *)
(* Creating a tenant takes three transactions: the tenant, its owner, and  *)
(* all of its seeded definitions; others run in between, and what fails    *)
(* later does not undo what was committed before.  Domains, e-mails and    *)
(* codes are looked up first, and unique indexes watch the inserts.        *)
(*                                                                         *)
(* A tenant, and a definition, is named by the request that inserts it.    *)
(* Names, passwords, roles, subscriptions, features and the columns that   *)
(* belong to one kind of definition are left out.  The body of a PATCH of  *)
(* a definition is assigned to the row: it may name the code and isActive, *)
(* as that of a POST may name isActive.                                    *)
(* Operators named ...Fault are the definition that follows them with a    *)
(* plausible mistake.                                                      *)
(***************************************************************************)
EXTENDS FiniteSets

CONSTANTS
  Domains, Emails,
  Keys,      \* what the indexes tell definitions apart by: kind, type, code
  Seeds,     \* the keys of the definitions that a new tenant is given
  None,
  Requests   \* requests, each served once: the bound of a TLC run

ASSUME SeedsAssumption == Seeds \subseteq Keys
ASSUME NoneAssumption ==
  None \notin Domains /\ None \notin Requests /\ None \notin Requests \X Keys

VARIABLES
  tenant,      \* the rows of tenants
  user,        \* the rows of users
  definition,  \* the rows of the tables of definitions
  request,     \* where each request is
  due, raced   \* history: what the writes of a definition's flag come to,
               \* if no two of them overlapped, and the rows where two did

vars == <<tenant, user, definition, request, due, raced>>
history == <<due, raced>>

Rows == Requests \X Keys

TenantRow == [domain : Domains \cup {None}, deleted : BOOLEAN]
UserRow == [present : BOOLEAN, tenant : Requests \cup {None}, owner : BOOLEAN]
DefinitionRow == [tenant : Requests \cup {None}, key : Keys, active : BOOLEAN,
                  deleted : BOOLEAN]
Phase == {"new", "tenant", "owner", "seed", "user", "insert", "update", "toggle",
          "created", "conflict", "failed", "done"}
Flag == {"unnamed", "active", "inactive"}  \* isActive in the body of a request
Request == [phase : Phase, domain : Domains \cup {None}, email : Emails \cup {None},
            tenant : Requests \cup {None}, key : Keys \cup {None},
            row : Rows \cup {None}, seen : BOOLEAN, flag : Flag]

TypeOK ==
  /\ tenant \in [Requests -> TenantRow]
  /\ user \in [Emails -> UserRow]
  /\ definition \in [Rows -> DefinitionRow]
  /\ request \in [Requests -> Request]
  /\ due \in [Rows -> BOOLEAN] /\ raced \in SUBSET Rows

Idle == [phase |-> "new", domain |-> None, email |-> None, tenant |-> None,
         key |-> None, row |-> None, seen |-> FALSE, flag |-> "unnamed"]
Over(phase) == [Idle EXCEPT !.phase = phase]

Init ==
  /\ tenant = [q \in Requests |-> [domain |-> None, deleted |-> FALSE]]
  /\ user = [e \in Emails |-> [present |-> FALSE, tenant |-> None, owner |-> FALSE]]
  /\ definition = [r \in Rows |->
       [tenant |-> None, key |-> r[2], active |-> TRUE, deleted |-> FALSE]]
  /\ request = [q \in Requests |-> Idle]
  /\ due = [r \in Rows |-> TRUE] /\ raced = {}

Exists(t) == t \in Requests /\ tenant[t].domain # None
DomainTaken(d) == \E t \in Requests : tenant[t].domain = d

(* What the lookup by code finds, and what the unique index refuses, in    *)
(* the rows of a tenant other than row: the lookup does not know types.    *)
CodeTaken(t, key, row) ==
  \E r \in Rows \ {row} : /\ definition[r].tenant = t
                          /\ definition[r].key.kind = key.kind
                          /\ definition[r].key.code = key.code
KeyTaken(t, key, row) ==
  \E r \in Rows \ {row} : definition[r].tenant = t /\ definition[r].key = key

(* A request begins, and looks up what should not be taken. *)
Begin(q, taken, next) ==
  /\ request[q].phase = "new"
  /\ request' = [request EXCEPT ![q] = IF taken THEN Over("conflict") ELSE next]

End(q, phase) == request' = [request EXCEPT ![q] = Over(phase)]

-----------------------------------------------------------------------------
(* TenantsService.                                                         *)

CreateTenant(q, d, e) ==
  /\ Begin(q, DomainTaken(d), [Idle EXCEPT !.phase = "tenant", !.domain = d, !.email = e])
  /\ UNCHANGED <<tenant, user, definition, history>>

InsertTenant(q) ==
  LET d == request[q].domain IN
  /\ request[q].phase = "tenant"
  /\ ~DomainTaken(d)
  /\ tenant' = [tenant EXCEPT ![q] = [domain |-> d, deleted |-> FALSE]]
  /\ request' = [request EXCEPT ![q].phase = "owner"]
  /\ UNCHANGED <<user, definition, history>>

(* The owner is given the tenant's domain. *)
InsertOwnerFault(q) ==
  LET e == request[q].email IN
  /\ request[q].phase = "owner"
  /\ ~user[e].present
  /\ user' = [user EXCEPT ![e] =
       [present |-> TRUE, tenant |-> request[q].domain, owner |-> TRUE]]
  /\ request' = [request EXCEPT ![q].phase = "seed"]
  /\ UNCHANGED <<tenant, definition, history>>

(* After the password has been hashed. *)
InsertOwner(q) ==
  LET e == request[q].email IN
  /\ request[q].phase = "owner"
  /\ ~user[e].present
  /\ user' = [user EXCEPT ![e] = [present |-> TRUE, tenant |-> q, owner |-> TRUE]]
  /\ request' = [request EXCEPT ![q].phase = "seed"]
  /\ UNCHANGED <<tenant, definition, history>>

(* What the tenant has already is passed over. *)
SeedFault(q) ==
  /\ request[q].phase = "seed"
  /\ definition' = [r \in Rows |->
       IF r[1] = q /\ r[2] \in Seeds /\ ~KeyTaken(q, r[2], None)
         THEN [tenant |-> q, key |-> r[2], active |-> TRUE, deleted |-> FALSE]
         ELSE definition[r]]
  /\ End(q, "created")
  /\ UNCHANGED <<tenant, user, history>>

(* onboardTenant: one flush with all of the definitions. *)
Seed(q) ==
  /\ request[q].phase = "seed"
  /\ \A k \in Seeds : ~KeyTaken(q, k, None)
  /\ definition' = [r \in Rows |->
       IF r[1] = q /\ r[2] \in Seeds
         THEN [tenant |-> q, key |-> r[2], active |-> TRUE, deleted |-> FALSE]
         ELSE definition[r]]
  /\ End(q, "created")
  /\ UNCHANGED <<tenant, user, history>>

(* update writes the domain that it is given, without looking; remove      *)
(* leaves the row, its users and its definitions.                          *)
UpdateTenant(t, d) ==
  /\ Exists(t) /\ ~DomainTaken(d)
  /\ tenant' = [tenant EXCEPT ![t].domain = d]
  /\ UNCHANGED <<user, definition, request, history>>

RemoveTenant(t) ==
  /\ Exists(t)
  /\ tenant' = [tenant EXCEPT ![t].deleted = TRUE]
  /\ UNCHANGED <<user, definition, request, history>>

-----------------------------------------------------------------------------
(* UsersService, for the users of a tenant, and AdminUsersService, for     *)
(* those of the platform, which have no tenant.                            *)

CreateUser(q, t, e) ==
  /\ t = None \/ Exists(t)
  /\ Begin(q, user[e].present, [Idle EXCEPT !.phase = "user", !.tenant = t, !.email = e])
  /\ UNCHANGED <<tenant, user, definition, history>>

InsertUser(q) ==
  LET e == request[q].email IN
  /\ request[q].phase = "user"
  /\ ~user[e].present
  /\ user' = [user EXCEPT ![e] =
       [present |-> TRUE, tenant |-> request[q].tenant, owner |-> FALSE]]
  /\ End(q, "done")
  /\ UNCHANGED <<tenant, definition, history>>

(* The owner is not looked for. *)
RemoveUserFault(e) ==
  /\ user[e].present
  /\ user' = [user EXCEPT ![e] = [present |-> FALSE, tenant |-> None, owner |-> FALSE]]
  /\ UNCHANGED <<tenant, definition, request, history>>

RemoveUser(e) ==
  /\ user[e].present /\ ~user[e].owner
  /\ user' = [user EXCEPT ![e] = [present |-> FALSE, tenant |-> None, owner |-> FALSE]]
  /\ UNCHANGED <<tenant, definition, request, history>>

-----------------------------------------------------------------------------
(* BaseDefinitionService.                                                  *)

CreateDefinition(q, t, key, flag) ==
  /\ Exists(t)
  /\ Begin(q, CodeTaken(t, key, None),
           [Idle EXCEPT !.phase = "insert", !.tenant = t, !.key = key, !.flag = flag])
  /\ UNCHANGED <<tenant, user, definition, history>>

InsertDefinition(q) ==
  LET t == request[q].tenant
      key == request[q].key
      active == request[q].flag # "inactive"
  IN
  /\ request[q].phase = "insert"
  /\ ~KeyTaken(t, key, None)
  /\ definition' = [definition EXCEPT ![<<q, key>>] =
       [tenant |-> t, key |-> key, active |-> active, deleted |-> FALSE]]
  /\ due' = [due EXCEPT ![<<q, key>>] = active]
  /\ End(q, "done")
  /\ UNCHANGED <<tenant, user, raced>>

Stored(r) == definition[r].tenant # None

(* A request on its way that will write the flag of r.                     *)
Flagging(q, r) ==
  /\ request[q].row = r
  /\ \/ request[q].phase = "toggle"
     \/ request[q].phase = "update" /\ request[q].flag # "unnamed"

(* History: another begins to write it. *)
Races(r) ==
  raced' = IF \E q \in Requests : Flagging(q, r) THEN raced \cup {r} ELSE raced

(* update with another code, a flag or both. *)
UpdateDefinition(q, r, key, flag) ==
  /\ Stored(r)
  /\ key # None => /\ key # definition[r].key
                   /\ key.kind = definition[r].key.kind
                   /\ key.type = definition[r].key.type
  /\ Begin(q, key # None /\ CodeTaken(definition[r].tenant, key, r),
           [Idle EXCEPT !.phase = "update", !.row = r, !.key = key, !.flag = flag,
                        !.seen = definition[r].active])
  /\ IF flag = "unnamed" THEN raced' = raced ELSE Races(r)
  /\ UNCHANGED <<tenant, user, definition, due>>

(* The flag is written as it was read. *)
WriteDefinitionFault(q) ==
  LET r == request[q].row
      key == request[q].key
      flag == request[q].flag
  IN
  /\ request[q].phase = "update"
  /\ key # None => ~KeyTaken(definition[r].tenant, key, r)
  /\ definition' = [definition EXCEPT
       ![r].key = IF key = None THEN @ ELSE key,
       ![r].active = IF flag = "unnamed" THEN request[q].seen ELSE flag = "active"]
  /\ due' = [due EXCEPT ![r] = IF flag = "unnamed" THEN @ ELSE flag = "active"]
  /\ End(q, "done")
  /\ UNCHANGED <<tenant, user, raced>>

(* The UPDATE names the columns that differ from what was read.            *)
WriteDefinition(q) ==
  LET r == request[q].row
      key == request[q].key
      flag == request[q].flag
      active == flag = "active"
  IN
  /\ request[q].phase = "update"
  /\ key # None => ~KeyTaken(definition[r].tenant, key, r)
  /\ definition' = [definition EXCEPT
       ![r].key = IF key = None THEN @ ELSE key,
       ![r].active = IF flag = "unnamed" \/ active = request[q].seen THEN @ ELSE active]
  /\ due' = [due EXCEPT ![r] = IF flag = "unnamed" THEN @ ELSE active]
  /\ End(q, "done")
  /\ UNCHANGED <<tenant, user, raced>>

(* toggleActive. *)
Toggle(q, r) ==
  /\ Stored(r)
  /\ Begin(q, FALSE, [Idle EXCEPT !.phase = "toggle", !.row = r,
                                  !.seen = definition[r].active])
  /\ Races(r)
  /\ UNCHANGED <<tenant, user, definition, due>>

WriteToggle(q) ==
  LET r == request[q].row IN
  /\ request[q].phase = "toggle"
  /\ definition' = [definition EXCEPT ![r].active = ~request[q].seen]
  /\ due' = [due EXCEPT ![r] = ~@]
  /\ End(q, "done")
  /\ UNCHANGED <<tenant, user, raced>>

(* remove leaves the row, and its code with it. *)
RemoveDefinition(r) ==
  /\ Stored(r)
  /\ definition' = [definition EXCEPT ![r].deleted = TRUE]
  /\ UNCHANGED <<tenant, user, request, history>>

-----------------------------------------------------------------------------
(* A unique index refuses the row, and the request fails: with what it has *)
(* committed before.                                                       *)
Refused(q) ==
  \/ request[q].phase = "tenant" /\ DomainTaken(request[q].domain)
  \/ request[q].phase \in {"owner", "user"} /\ user[request[q].email].present
  \/ request[q].phase = "seed" /\ \E k \in Seeds : KeyTaken(q, k, None)
  \/ request[q].phase = "insert" /\ KeyTaken(request[q].tenant, request[q].key, None)
  \/ /\ request[q].phase = "update" /\ request[q].key # None
     /\ KeyTaken(definition[request[q].row].tenant, request[q].key, request[q].row)

Fail(q) ==
  /\ Refused(q)
  /\ End(q, "failed")
  /\ UNCHANGED <<tenant, user, definition, history>>

Next ==
  \/ \E q \in Requests :
       \/ \E d \in Domains, e \in Emails : CreateTenant(q, d, e)
       \/ InsertTenant(q) \/ InsertOwner(q) \/ Seed(q)
       \/ \E t \in Requests \cup {None}, e \in Emails : CreateUser(q, t, e)
       \/ InsertUser(q)
       \/ \E t \in Requests, key \in Keys, flag \in Flag : CreateDefinition(q, t, key, flag)
       \/ InsertDefinition(q)
       \/ \E r \in Rows :
            \/ Toggle(q, r)
            \/ \E key \in Keys \cup {None}, flag \in Flag : UpdateDefinition(q, r, key, flag)
       \/ WriteDefinition(q) \/ WriteToggle(q)
       \/ Fail(q)
  \/ \E t \in Requests : RemoveTenant(t) \/ \E d \in Domains : UpdateTenant(t, d)
  \/ \E e \in Emails : RemoveUser(e)
  \/ \E r \in Rows : RemoveDefinition(r)

Spec == Init /\ [][Next]_vars

-----------------------------------------------------------------------------
Owned(t) == \E e \in Emails : user[e].present /\ user[e].owner /\ user[e].tenant = t
Seeded(t) == \A k \in Seeds : definition[<<t, k>>].tenant = t

(* A create that is answered with the tenant has left it with an owner,    *)
(* who is never removed, and with every one of its definitions.            *)
CreatedIsComplete ==
  \A q \in Requests : request[q].phase = "created" => Exists(q) /\ Owned(q) /\ Seeded(q)

(* A tenant has been given all of its definitions or none of them, and     *)
(* none before its owner, whoever else adds definitions to it meanwhile.   *)
SeedsTogether ==
  \A q \in Requests :
    \/ Seeded(q) /\ Owned(q)
    \/ \A k \in Seeds : definition[<<q, k>>].tenant # q

(* A definition is as active as the last value that a POST or a PATCH gave *)
(* it and the toggles since then say, whatever other columns, and by whom, *)
(* were written meanwhile; rows where two writes of the flag overlapped,   *)
(* one of which is then lost, are left out.                                *)
TogglesCount == \A r \in Rows \ raced : definition[r].active = due[r]
=============================================================================
