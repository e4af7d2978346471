-------------------------------- MODULE Access --------------------------------
(***************************************************************************)
(* Who may do what: permissions with their scope, roles of the platform    *)
(* and of tenants, and users with their roles (PermissionsService,         *)
(* RolesService, UsersService).                                            *)
(*                                                                         *)
(* Roles hold permissions and users hold roles, in tables of pairs.  A     *)
(* request that sets what an owner (a role or a user) holds reads the      *)
(* owner with its pairs, looks up what the body names among what may be    *)
(* held, and flushes the difference: pairs that it found and had not seen  *)
(* are inserted, pairs that it had seen and did not find are deleted.      *)
(*                                                                         *)
(* The owner of a tenant is a user that is never removed, which is one of  *)
(* the behaviours of a user here; Onboarding creates it.  Users without a  *)
(* tenant (createSuperAdmin) hold no roles and are left out, as are names, *)
(* descriptions and categories.  A slug that is used again after its       *)
(* permission was removed is another permission.                           *)
(* Operators named ...Fault are the definition that follows them with a    *)
(* plausible mistake.                                                      *)
(***************************************************************************)

CONSTANTS
  Permissions, Roles, Users,  \* what can be created
  Tenants, Platform,          \* whose a role is; users are of tenants
  Absent, Removed,            \* not yet created; not there any more
  PlatformSeeds, TenantSeeds, \* the permissions of AdminSeeder, by scope
  AdminRole, AdminUser, Host, \* its role and its user, in the tenant Host
  Requests                    \* requests, each served once: a run's bound

Owners == Roles \cup Users
Homes == Tenants \cup {Platform}
Scopes == {"TENANT", "PLATFORM"}

ASSUME NameAssumption ==
  /\ Roles \cap Users = {} /\ Permissions \cap Roles = {}
  /\ {Platform, Absent, Removed} \cap Tenants = {}
  /\ Platform # Absent /\ Platform # Removed /\ Absent # Removed
  /\ {Absent, Removed} \cap Scopes = {}
ASSUME SeedAssumption ==
  /\ PlatformSeeds \cup TenantSeeds \subseteq Permissions
  /\ PlatformSeeds \cap TenantSeeds = {}
  /\ AdminRole \in Roles /\ AdminUser \in Users /\ Host \in Tenants

VARIABLES
  scope,        \* the assignableScope of each permission
  home,         \* whose each role and user is
  holds,        \* roles_permissions and users_roles
  request,
  everTenant    \* history: what has been assignable by tenants at some time

vars == <<scope, home, holds, request, everTenant>>

Items(o) == IF o \in Roles THEN Permissions ELSE Roles
Live(o) == home[o] \in Homes
There(i) == IF i \in Permissions THEN scope[i] \in Scopes ELSE Live(i)

(* by: who asks, a tenant or the platform; seen: what the owner held when  *)
(* it was read; found: what it is to hold; made: is the owner created?     *)
Request == [phase : {"new", "lookup", "flush", "done", "failed"},
            of : Owners \cup {Absent}, by : Homes, made : BOOLEAN,
            seen : (SUBSET Permissions) \cup (SUBSET Roles),
            found : (SUBSET Permissions) \cup (SUBSET Roles)]

Idle == [phase |-> "new", of |-> Absent, by |-> Platform, made |-> FALSE,
         seen |-> {}, found |-> {}]
Running(q) == request[q].phase \in {"lookup", "flush"}

(* And: only what is there holds, and is held.                             *)
TypeOK ==
  /\ scope \in [Permissions -> Scopes \cup {Absent, Removed}]
  /\ home \in [Owners -> Homes \cup {Absent, Removed}]
  /\ request \in [Requests -> Request]
  /\ everTenant \subseteq Permissions
  /\ DOMAIN holds = Owners
  /\ \A o \in Owners : /\ holds[o] \subseteq {i \in Items(o) : There(i)}
                       /\ holds[o] # {} => Live(o)

(* After AdminSeeder. *)
Init ==
  /\ scope = [p \in Permissions |-> IF p \in PlatformSeeds THEN "PLATFORM"
                ELSE IF p \in TenantSeeds THEN "TENANT" ELSE Absent]
  /\ home = [o \in Owners |-> IF o = AdminRole THEN Platform
               ELSE IF o = AdminUser THEN Host ELSE Absent]
  /\ holds = [o \in Owners |-> IF o = AdminRole THEN PlatformSeeds
                ELSE IF o = AdminUser THEN {AdminRole} ELSE {}]
  /\ request = [q \in Requests |-> Idle]
  /\ everTenant = TenantSeeds

-----------------------------------------------------------------------------
(* Permissions: one flush each. *)
CreatePermission(p, s) ==
  /\ scope[p] = Absent
  /\ scope' = [scope EXCEPT ![p] = s]
  /\ everTenant' = everTenant \cup (IF s = "TENANT" THEN {p} ELSE {})
  /\ UNCHANGED <<home, holds, request>>

(* Roles that hold the permission keep it, whatever its scope becomes.     *)
UpdatePermission(p, s) ==
  /\ There(p) /\ scope[p] # s
  /\ scope' = [scope EXCEPT ![p] = s]
  /\ everTenant' = everTenant \cup (IF s = "TENANT" THEN {p} ELSE {})
  /\ UNCHANGED <<home, holds, request>>

(* Pairs go with what they name, by the foreign keys of the tables. *)
WithoutFault(i) == [o \in Owners |-> holds[o] \ {i}]

Without(i) == [o \in Owners |-> IF o = i THEN {} ELSE holds[o] \ {i}]

RemovePermission(p) ==
  /\ There(p)
  /\ scope' = [scope EXCEPT ![p] = Removed]
  /\ holds' = Without(p)
  /\ UNCHANGED <<home, request, everTenant>>

(* deleteSystemRole, and remove of roles and of users: found and deleted.  *)
(* The role of the seeder is a protected one.                              *)
Remove(o) ==
  /\ Live(o) /\ o # AdminRole
  /\ home' = [home EXCEPT ![o] = Removed]
  /\ holds' = Without(o)
  /\ UNCHANGED <<scope, request, everTenant>>

-----------------------------------------------------------------------------
(* Setting what an owner holds. *)
Begin(q, o, by, made) ==
  /\ request[q].phase = "new"
  /\ request' = [request EXCEPT ![q] =
       [Idle EXCEPT !.phase = "lookup", !.of = o, !.by = by, !.made = made,
                    !.seen = holds[o]]]
  /\ UNCHANGED <<scope, home, holds, everTenant>>

(* A new owner's id is drawn by the request, which inserts it last.        *)
Fresh(o) == home[o] = Absent /\ \A p \in Requests : request[p].of # o

CreateSystemRole(q, r) == r \in Roles /\ Fresh(r) /\ Begin(q, r, Platform, TRUE)
CreateRole(q, r, t) == r \in Roles /\ Fresh(r) /\ Begin(q, r, t, TRUE)
CreateUser(q, u, t) == u \in Users /\ Fresh(u) /\ Begin(q, u, t, TRUE)

FindableFault(o, by) == Live(o)  \* by id alone

(* A role or user is found by its id and its tenant, or none. *)
Findable(o, by) == home[o] = by

UpdateSystemRole(q, r) ==
  r \in Roles /\ Findable(r, Platform) /\ Begin(q, r, Platform, FALSE)
UpdateRole(q, r, t) == r \in Roles /\ Findable(r, t) /\ Begin(q, r, t, FALSE)
UpdateUser(q, u, t) == u \in Users /\ Findable(u, t) /\ Begin(q, u, t, FALSE)

(* What the lookup finds of what a body can name.                          *)
AssignableFault(o, by) ==  \* the scope, and whose role it is, not asked
  {i \in Items(o) : There(i)}

Assignable(o, by) ==
  {i \in Items(o) : IF o \in Users THEN home[i] \in {by, Platform}
                    ELSE There(i) /\ (by = Platform \/ scope[i] = "TENANT")}

Lookup(q, named) ==
  LET r == request[q] IN
  /\ r.phase = "lookup"
  /\ request' = [request EXCEPT ![q].phase = "flush",
                                ![q].found = named \cap Assignable(r.of, r.by)]
  /\ UNCHANGED <<scope, home, holds, everTenant>>

(* A body that does not name any leaves the pairs as they are. *)
LookUpNothing(q) ==
  /\ request[q].phase = "lookup"
  /\ request' = [request EXCEPT ![q].phase = "flush", ![q].found = request[q].seen]
  /\ UNCHANGED <<scope, home, holds, everTenant>>

HeldAfterFault(r) == r.found  \* all pairs written anew

HeldAfter(r) == (holds[r.of] \ (r.seen \ r.found)) \cup (r.found \ r.seen)

(* The flush fails as a whole when it would insert a pair that is there,   *)
(* or one of something that was removed.                                   *)
Accepted(r) ==
  LET inserts == r.found \ r.seen IN
  /\ \A i \in inserts : There(i) /\ i \notin holds[r.of]
  /\ inserts # {} => r.made \/ Live(r.of)

Flush(q) ==
  LET r == request[q] IN
  /\ r.phase = "flush" /\ Accepted(r)
  /\ home' = IF r.made THEN [home EXCEPT ![r.of] = r.by] ELSE home
  /\ holds' = [holds EXCEPT ![r.of] =
       IF r.made \/ Live(r.of) THEN HeldAfter(r) ELSE {}]
  /\ request' = [request EXCEPT ![q] = [Idle EXCEPT !.phase = "done"]]
  /\ UNCHANGED <<scope, everTenant>>

(* A flush that fails, or anything else that ends a request early.         *)
Fail(q) ==
  /\ Running(q)
  /\ request' = [request EXCEPT ![q] = [Idle EXCEPT !.phase = "failed"]]
  /\ UNCHANGED <<scope, home, holds, everTenant>>

Next ==
  \/ \E p \in Permissions :
       \/ \E s \in Scopes : CreatePermission(p, s) \/ UpdatePermission(p, s)
       \/ RemovePermission(p)
  \/ \E o \in Owners : Remove(o)
  \/ \E q \in Requests :
       \/ \E o \in Owners :
            \/ CreateSystemRole(q, o) \/ UpdateSystemRole(q, o)
            \/ \E t \in Tenants : \/ CreateRole(q, o, t) \/ UpdateRole(q, o, t)
                                  \/ CreateUser(q, o, t) \/ UpdateUser(q, o, t)
       \/ \E named \in (SUBSET Permissions) \cup (SUBSET Roles) : Lookup(q, named)
       \/ LookUpNothing(q) \/ Flush(q) \/ Fail(q)

Spec == Init /\ [][Next]_vars

-----------------------------------------------------------------------------
(* What the guard of a request asks for is found in one of the roles.      *)
Rights(u) == UNION {holds[r] : r \in holds[u]}

(* A tenant's role holds only what tenants could assign at some time, and  *)
(* so a user of a tenant can do what never was assignable only by a role   *)
(* that the platform made.                                                 *)
PlatformRightsFromPlatform ==
  /\ \A r \in Roles : home[r] \in Tenants => holds[r] \subseteq everTenant
  /\ \A u \in Users : \A p \in Rights(u) \ everTenant :
       \E r \in holds[u] : home[r] = Platform /\ p \in holds[r]

(* A user's roles are of the user's own tenant, or of the platform.        *)
RolesFitUsers ==
  \A u \in Users : \A r \in holds[u] : home[r] \in {home[u], Platform}

(* Requests that set what one owner holds may overlap.  Each changes only  *)
(* what it decided on: what another took away since does not come back,    *)
(* what another gave since stays, and if nothing changed since it was read *)
(* the owner holds what the lookup found and no more.                      *)
SetsOnlyItsDifference ==
  [][\A q \in Requests :
       request[q].phase = "flush" /\ request'[q].phase = "done" =>
         LET r == request[q]
             before == holds[r.of]
             after == holds'[r.of]
         IN /\ (after \ before) \cap r.seen = {}
            /\ before \ after \subseteq r.seen
            /\ before = r.seen /\ home'[r.of] # Removed => after = r.found]_vars
=============================================================================
