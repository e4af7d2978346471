---------------------------- MODULE Notifications ----------------------------
(***************************************************************************)
(* The notifications of one tenant: NotificationService, next to the       *)
(* operations that add, deactivate and remove the users it writes to.      *)
(*                                                                         *)
(* A broadcast finds the active users and inserts one row for each in one  *)
(* flush.  A recipient marks rows as read, deletes them, or clears those   *)
(* that are read; each of these finds rows, assigns to them and flushes.   *)
(* Removal sets deletedAt; every find sees removed rows as well.           *)
(*                                                                         *)
(* A row is named by the request that inserts it and its recipient, and a  *)
(* date by the request that writes it.  Texts, types and severities are    *)
(* left out, and so are findAll and getUnreadCount, which only read.       *)
(* Operators named ...Fault are the definition that follows them with a    *)
(* plausible mistake.                                                      *)
(***************************************************************************)
EXTENDS FiniteSets

CONSTANTS
  Users,
  Requests,    \* requests, each served once: the bound of a TLC run
  None,        \* no user; no date
  Overlapping  \* the users whose own requests may be in progress together

ASSUME NoneAssumption == None \notin Users /\ None \notin Requests
ASSUME OverlapAssumption == Overlapping \subseteq Users

Serial == Users \ Overlapping

VARIABLES
  users,      \* the rows of users of the tenant
  active,     \* those whose isActive is set
  sent,       \* the rows of notifications
  read,       \* those whose isRead is set
  readAt,     \* the date of each row, or None
  deletedAt,  \* the same
  request,    \* where each request is
  before,     \* history: the notifications that were there when it began
  steady      \* history: the users active ever since it began

vars == <<users, active, sent, read, readAt, deletedAt, request, before, steady>>
rows == <<sent, read, readAt, deletedAt>>
history == <<before, steady>>

Rows == Requests \X Users
Recipient(r) == r[2]

Operation == {"none", "create", "broadcast", "read", "readAll", "delete", "clear"}
Phase == {"new", "insert", "mark", "remove", "done", "failed"}

(* The user is the one that asks, and found are the rows to be written. *)
Request == [phase : Phase, op : Operation, user : Users \cup {None}, found : SUBSET Rows]

TypeOK ==
  /\ users \in SUBSET Users /\ active \in SUBSET users
  /\ sent \in SUBSET Rows /\ read \in SUBSET sent
  /\ readAt \in [Rows -> Requests \cup {None}]
  /\ deletedAt \in [Rows -> Requests \cup {None}]
  /\ request \in [Requests -> Request]
  /\ before \in [Requests -> SUBSET Rows] /\ steady \in [Requests -> SUBSET Users]
  /\ \A r \in sent : Recipient(r) \in users
  /\ \A r \in Rows : r \in read <=> readAt[r] # None

Init ==
  /\ users \in SUBSET Users /\ active = users
  /\ sent = {} /\ read = {}
  /\ readAt = [r \in Rows |-> None] /\ deletedAt = [r \in Rows |-> None]
  /\ request = [q \in Requests |->
       [phase |-> "new", op |-> "none", user |-> None, found |-> {}]]
  /\ before = [q \in Requests |-> {}] /\ steady = [q \in Requests |-> {}]

Of(u) == {r \in sent : Recipient(r) = u}
Running(q) == request[q].phase \in {"insert", "mark", "remove"}

-----------------------------------------------------------------------------
(* The users, as UsersService and AdminUsersService change them.           *)

UsersChange(now, awake) ==
  /\ users' = now /\ active' = awake
  /\ steady' = [q \in Requests |-> steady[q] \cap awake]
  /\ UNCHANGED <<rows, request, before>>

AddUser(u) == u \notin users /\ UsersChange(users \cup {u}, active \cup {u})

UpdateStatus(u, isActive) ==
  /\ u \in users
  /\ UsersChange(users, IF isActive THEN active \cup {u} ELSE active \ {u})

RemoveUserFault(u) ==  \* the foreign key is missing
  u \in users /\ UsersChange(users \ {u}, active \ {u})

(* The foreign key of recipient keeps a user who has been notified.        *)
RemoveUser(u) ==
  /\ u \in users /\ Of(u) = {}
  /\ UsersChange(users \ {u}, active \ {u})

-----------------------------------------------------------------------------
(* A request begins: it finds what it will write, in one query.            *)
Begin(q, op, u, phase, found) ==
  /\ request[q].phase = "new"
  /\ request' = [request EXCEPT ![q] =
       [phase |-> phase, op |-> op, user |-> u, found |-> found]]
  /\ before' = [before EXCEPT ![q] = sent]
  /\ steady' = [steady EXCEPT ![q] = active]
  /\ UNCHANGED <<users, active, rows>>

(* create and createForMultiple. *)
CreateForMultiple(q, us) == Begin(q, "create", None, "insert", {q} \X us)

CreateForTenant(q) ==
  Begin(q, "broadcast", None, IF active = {} THEN "done" ELSE "insert", {q} \X active)

InsertFault(q) ==  \* a flush of its own for each user
  /\ request[q].phase = "insert"
  /\ sent' = sent \cup {r \in request[q].found : Recipient(r) \in users}
  /\ request' = [request EXCEPT ![q].phase =
       IF \A r \in request[q].found : Recipient(r) \in users THEN "done" ELSE "failed"]
  /\ UNCHANGED <<users, active, read, readAt, deletedAt, history>>

(* One flush: all the rows, if the foreign keys allow, or none.            *)
Insert(q) ==
  /\ request[q].phase = "insert"
  /\ IF \A r \in request[q].found : Recipient(r) \in users
       THEN /\ sent' = sent \cup request[q].found
            /\ request' = [request EXCEPT ![q].phase = "done"]
       ELSE /\ request' = [request EXCEPT ![q].phase = "failed"]
            /\ UNCHANGED sent
  /\ UNCHANGED <<users, active, read, readAt, deletedAt, history>>

-----------------------------------------------------------------------------
(* What a recipient asks for.  The code never waits: every user is in      *)
(* Overlapping unless they ask for one thing at a time.                    *)
MayAsk(u) ==
  /\ u \in users
  /\ u \in Serial => \A p \in Requests : Running(p) => request[p].user # u

MarkAsRead(q, u, r) ==
  LET found == (Of(u) \ read) \cap {r} IN
  MayAsk(u) /\ Begin(q, "read", u, IF found = {} THEN "done" ELSE "mark", found)

MarkAllAsReadFault(q, u) ==  \* a page of them
  \E found \in SUBSET (Of(u) \ read) :
    /\ Of(u) \ read # {} => Cardinality(found) = 1
    /\ MayAsk(u) /\ Begin(q, "readAll", u, "mark", found)

MarkAllAsRead(q, u) == MayAsk(u) /\ Begin(q, "readAll", u, "mark", Of(u) \ read)

Delete(q, u, r) ==
  LET found == Of(u) \cap {r} IN
  MayAsk(u) /\ Begin(q, "delete", u, IF found = {} THEN "done" ELSE "remove", found)

ClearReadFault(q, u) ==  \* all of them
  MayAsk(u) /\ Begin(q, "clear", u, "remove", Of(u))

ClearRead(q, u) == MayAsk(u) /\ Begin(q, "clear", u, "remove", Of(u) \cap read)

(* The flushes: isRead and readAt are written together, and a date is      *)
(* written whatever the row has by now.                                    *)
Written(dates, found, q) == [r \in Rows |-> IF r \in found THEN q ELSE dates[r]]

Mark(q) ==
  /\ request[q].phase = "mark"
  /\ read' = read \cup request[q].found
  /\ readAt' = Written(readAt, request[q].found, q)
  /\ request' = [request EXCEPT ![q].phase = "done"]
  /\ UNCHANGED <<users, active, sent, deletedAt, history>>

Remove(q) ==
  /\ request[q].phase = "remove"
  /\ deletedAt' = Written(deletedAt, request[q].found, q)
  /\ request' = [request EXCEPT ![q].phase = "done"]
  /\ UNCHANGED <<users, active, sent, read, readAt, history>>

(* The process ends, or the database cannot be reached.                    *)
Break(q) ==
  /\ Running(q)
  /\ request' = [request EXCEPT ![q].phase = "failed"]
  /\ UNCHANGED <<users, active, rows, history>>

Next ==
  \/ \E u \in Users : \/ AddUser(u) \/ RemoveUser(u)
                      \/ \E isActive \in BOOLEAN : UpdateStatus(u, isActive)
  \/ \E q \in Requests :
       \/ \E us \in SUBSET Users : CreateForMultiple(q, us)
       \/ CreateForTenant(q) \/ Insert(q) \/ Mark(q) \/ Remove(q) \/ Break(q)
       \/ \E u \in Users :
            \/ MarkAllAsRead(q, u) \/ ClearRead(q, u)
            \/ \E r \in sent : MarkAsRead(q, u, r) \/ Delete(q, u, r)

Spec == Init /\ [][Next]_vars

-----------------------------------------------------------------------------
(* A broadcast that has been answered has a notification for everyone who  *)
(* was active from its start to its end, and one that failed has none at   *)
(* all, whoever came, left or was deactivated meanwhile.                   *)
BroadcastReachesAll ==
  \A q \in Requests : request[q].op = "broadcast" =>
    /\ request[q].phase = "done" => {q} \X steady[q] \subseteq sent
    /\ request[q].phase = "failed" => \A u \in Users : <<q, u>> \notin sent

(* When markAllAsRead is answered, all that the recipient had been sent    *)
(* when it began is read, however other requests overlap with it.          *)
ReadAllReads ==
  \A q \in Requests : request[q].op = "readAll" /\ request[q].phase = "done" =>
    \A r \in before[q] : Recipient(r) = request[q].user => r \in read

(* What is written to a notification was asked for by its recipient, and   *)
(* clearRead deletes nothing that has not been read.                       *)
RecipientsDecide ==
  \A r \in Rows :
    /\ readAt[r] # None => request[readAt[r]].user = Recipient(r)
    /\ deletedAt[r] # None =>
         /\ request[deletedAt[r]].user = Recipient(r)
         /\ request[deletedAt[r]].op = "clear" => r \in read

(* Where a recipient's requests do not overlap, the date on which          *)
(* something was read is that of the first request that marked it.         *)
ReadDateStays ==
  [][\A r \in read : Recipient(r) \in Serial => readAt'[r] = readAt[r]]_vars
=============================================================================
