-------------------------- MODULE ClassificationTree --------------------------
(***************************************************************************)
(* The classification trees: create, remove, move, deactivate, activate    *)
(* and update of ClassificationService, and the seeder that fills an empty *)
(* table before or while they run.                                         *)
(*                                                                         *)
(* A node stores its parent, and two values that repeat what the parents   *)
(* say: its depth, and its path, the slugs from the root down, by which    *)
(* the service finds the nodes below it (path LIKE '<path>.%').  A move    *)
(* checks for a cycle by walking up from the new parent, one find per      *)
(* level, then writes the node, and in a second transaction rewrites the   *)
(* paths below it: the find of those paths flushes the node first.  A row  *)
(* that a request holds is not asked for again by its id.  A request may   *)
(* break off at any time; what it has committed stays.                     *)
(*                                                                         *)
(* A path is the sequence of the classification type and the slugs; a slug *)
(* is the code in lower case with other characters replaced.  Names, sort  *)
(* order and the other columns that update writes are in Records.          *)
(***************************************************************************)
EXTENDS Integers, Sequences

CONSTANTS
  Nodes,     \* the codes of a tenant, unique within a type, and the seeder's
  None,      \* the parent of a root
  Types,
  TypeOf,    \* the classificationType of each node
  Slug,      \* the slug of each node's code
  System,    \* the nodes that are created as system nodes
  Seeds,     \* the forests to begin with: their parents
  Batches,   \* what the seeder commits at a time: the parents of its nodes
  SeedSlug,  \* the last slug that it writes in a node's path
  Requests   \* requests, each served once: the bound of a TLC run

Parent == Nodes \cup {None}

(* Parents that a recursion from the roots down has given. *)
IsForest(parent) ==
  /\ DOMAIN parent \subseteq Nodes
  /\ \A n \in DOMAIN parent : parent[n] \in DOMAIN parent \cup {None}
  /\ \A S \in SUBSET DOMAIN parent : S # {} => \E n \in S : parent[n] \notin S

ASSUME NodesAssumption == None \notin Nodes /\ TypeOf \in [Nodes -> Types]
ASSUME SystemAssumption == System \subseteq Nodes
ASSUME SeedsAssumption == \A parent \in Seeds : IsForest(parent)

(* Batches after the first put nodes under those of another type, states   *)
(* under countries and cities under states.  In the first, a path ends as  *)
(* create would have it.                                                   *)
ASSUME BatchesAssumption ==
  /\ Len(Batches) \in Nat \ {0} /\ DOMAIN Batches = 1..Len(Batches)
  /\ IsForest(Batches[1]) /\ \A n \in DOMAIN Batches[1] : SeedSlug[n] = Slug[n]
  /\ \A k \in DOMAIN Batches \ {1} : \A n \in DOMAIN Batches[k] :
       /\ n \in Nodes /\ Batches[k][n] \in Nodes
       /\ TypeOf[Batches[k][n]] # TypeOf[n]
  /\ \A j, k \in DOMAIN Batches : j # k => DOMAIN Batches[j] \cap DOMAIN Batches[k] = {}

(* The nodes of the platform, which belong to no tenant. *)
Platform == UNION {DOMAIN Batches[k] : k \in DOMAIN Batches}

VARIABLES
  node,     \* the rows of classification_nodes
  request,  \* where each request is
  held,     \* the rows that each request holds, as it knows them
  seeder,   \* the batch that the seeder is at and the parents it has found
  overlapped, \* have two requests been in progress together?
  selfMoved,  \* has a request named the node itself as its new parent?
  mixed,      \* the types in which a path does not tell what is below a node
  behind      \* the nodes that a move left behind when it broke off

(* The last four are history: no step depends on them.                     *)
history == <<overlapped, selfMoved>>
vars == <<node, request, held, seeder, history, mixed, behind>>

Names == Types \cup {Slug[n] : n \in Nodes} \cup {SeedSlug[n] : n \in Platform}
Row == [present : BOOLEAN, parent : Parent, path : Seq(Names), depth : Nat,
        active : BOOLEAN, deleted : BOOLEAN]
Phase == {"new", "insert", "delete", "target", "walk", "write", "find", "rewrite", "done"}
Request == [phase : Phase, node : Parent, target : Parent, at : Parent,
            old : Seq(Names), below : SUBSET Nodes]

IsImages(f) == DOMAIN f \subseteq Nodes /\ f \in [DOMAIN f -> Row]

TypeOK ==
  /\ node \in [Nodes -> Row]
  /\ request \in [Requests -> Request]
  /\ DOMAIN held = Requests /\ \A q \in Requests : IsImages(held[q])
  /\ seeder.at \in 0..Len(Batches)
  /\ IsImages(seeder.found)
  /\ overlapped \in BOOLEAN /\ selfMoved \in BOOLEAN
  /\ mixed \subseteq Types /\ behind \subseteq Nodes

Idle == [phase |-> "new", node |-> None, target |-> None, at |-> None,
         old |-> <<>>, below |-> {}]

SeedPath(parent, slug) ==
  LET path[n \in DOMAIN parent] ==
        Append(IF parent[n] = None THEN <<TypeOf[n]>> ELSE path[parent[n]], slug[n])
  IN path

(* The rows of a forest that create, or the seeder, has built from the     *)
(* roots down.                                                             *)
Seeded(parent, slug) ==
  LET path == SeedPath(parent, slug) IN
  [n \in Nodes |->
     IF n \in DOMAIN parent
       THEN [present |-> TRUE, parent |-> parent[n], path |-> path[n],
             depth |-> Len(path[n]) - 2, active |-> TRUE, deleted |-> FALSE]
       ELSE [present |-> FALSE, parent |-> None, path |-> <<>>, depth |-> 0,
             active |-> TRUE, deleted |-> FALSE]]

Present == {n \in Nodes : node[n].present}

(* Types with a node under one of another type, which move refuses and     *)
(* create does not, or with two codes that have the same slug, as "A-B"    *)
(* and "A_B" do: a move above finds too few or too many paths.             *)
SameSlug == [n \in Nodes |->
  {m \in Nodes \ {n} : TypeOf[m] = TypeOf[n] /\ Slug[m] = Slug[n]}]
Strays == {TypeOf[n] : n \in {m \in Present :
             \/ node[m].parent # None /\ TypeOf[node[m].parent] # TypeOf[m]
             \/ SameSlug[m] \cap Present # {}}}

Init ==
  /\ \E parent \in Seeds : node = Seeded(parent, Slug)
  /\ request = [q \in Requests |-> Idle]
  /\ held = [q \in Requests |-> [n \in {} |-> Idle]]
  /\ seeder = [at |-> 0, found |-> [n \in {} |-> Idle]]
  /\ overlapped = FALSE /\ selfMoved = FALSE /\ mixed = Strays /\ behind = {}

Over == [Idle EXCEPT !.phase = "done"]

-----------------------------------------------------------------------------
(* Reading.                                                                *)

Children(n) == {c \in Present : node[c].parent = n}
Running(q) == request[q].phase \notin {"new", "done"}
Busy == \E q \in Requests : Running(q)

(* A request begins, and moves n under target if it is a move. *)
Begin(q, first) ==
  /\ request[q].phase = "new"
  /\ request' = [request EXCEPT ![q] = first]
  /\ overlapped' = (overlapped \/ Busy)
  /\ selfMoved' =
       (selfMoved \/ (first.phase = "target" /\ first.node = first.target))

(* What a request holds after a query has returned the rows of S: it takes *)
(* them over, also those that it held, for it has nothing unsaved.         *)
Queried(q, S) ==
  [n \in DOMAIN held[q] \cup S |-> IF n \in S THEN node[n] ELSE held[q][n]]

(* What it holds after findOne of n with its parent: rows that it holds    *)
(* are not asked for again.                                                *)
Loaded(q, n) ==
  Queried(q, IF n \in DOMAIN held[q] THEN {held[q][n].parent} \ (DOMAIN held[q] \cup {None})
               ELSE {n, node[n].parent} \ {None})

(* The request is answered, and its EntityManager is gone. *)
End(q) ==
  /\ request' = [request EXCEPT ![q] = Over]
  /\ held' = [held EXCEPT ![q] = [n \in {} |-> Idle]]

-----------------------------------------------------------------------------
(* create: the parent, of whatever type, and then the insert.              *)

Create(q, n, parent) ==
  /\ parent # None => parent \in Present
  /\ Begin(q, [Idle EXCEPT !.phase = "insert", !.node = n, !.target = parent])
  /\ held' = IF parent = None THEN held ELSE [held EXCEPT ![q] = Loaded(q, parent)]
  /\ UNCHANGED node

(* Operators named ...Fault are the definition that follows them with a    *)
(* slip in it; they are used only to see that the properties notice.       *)

InsertFault(q) ==  \* forgets that a root has depth zero
  LET n == request[q].node
      parent == request[q].target
      above == held[q][parent]
  IN
  /\ request[q].phase = "insert"
  /\ n \notin Present
  /\ node' = [node EXCEPT ![n] =
       [present |-> TRUE, parent |-> parent,
        path |-> Append(IF parent = None THEN <<TypeOf[n]>> ELSE above.path, Slug[n]),
        depth |-> IF parent = None THEN -1 ELSE above.depth + 1,
        active |-> TRUE, deleted |-> FALSE]]
  /\ End(q)

Insert(q) ==
  LET n == request[q].node
      parent == request[q].target
      above == held[q][parent]
  IN
  /\ request[q].phase = "insert"
  /\ n \notin Present
  /\ node' = [node EXCEPT ![n] =
       [present |-> TRUE, parent |-> parent,
        path |-> Append(IF parent = None THEN <<TypeOf[n]>> ELSE above.path, Slug[n]),
        depth |-> IF parent = None THEN 0 ELSE above.depth + 1,
        active |-> TRUE, deleted |-> FALSE]]
  /\ End(q)

(* The unique index refuses the code. *)
InsertFails(q) ==
  /\ request[q].phase = "insert"
  /\ request[q].node \in Present
  /\ End(q)
  /\ UNCHANGED node

-----------------------------------------------------------------------------
(* remove: the count of the children, and then the flush.                  *)

Remove(q, n) ==
  /\ n \in Present \ System
  /\ Children(n) = {}
  /\ Begin(q, [Idle EXCEPT !.phase = "delete", !.node = n])
  /\ UNCHANGED <<node, held>>

(* A node with children is refused: deleted ones are counted too. *)
RemoveRefused(q, n) ==
  /\ n \in Present \ System
  /\ Children(n) # {}
  /\ Begin(q, Over)
  /\ UNCHANGED <<node, held>>

Delete(q) ==
  /\ request[q].phase = "delete"
  /\ node' = [node EXCEPT ![request[q].node].deleted = TRUE]
  /\ End(q)

-----------------------------------------------------------------------------
(* update with isActive, activate and deactivate.  deactivate sets the     *)
(* flag of the node; for the nodes below it sets that of the copies (toDto)*)
(* that getChildren returns, which no flush sees.                          *)

Update(n, active) ==
  /\ n \in Present
  /\ active \/ n \notin System
  /\ node' = [node EXCEPT ![n].active = active]
  /\ UNCHANGED <<request, held, seeder, history, mixed, behind>>

Activate(n) == Update(n, TRUE)
Deactivate(n) == Update(n, FALSE)

-----------------------------------------------------------------------------
(* move.                                                                   *)

Move(q, n, target) ==
  /\ n \in Present
  /\ Begin(q, [Idle EXCEPT !.phase = "target", !.node = n, !.target = target])
  /\ held' = [held EXCEPT ![q] = Loaded(q, n)]
  /\ UNCHANGED node

FindTarget(q) ==
  LET target == request[q].target IN
  /\ request[q].phase = "target"
  /\ target \in Present
  /\ held' = [held EXCEPT ![q] = Loaded(q, target)]
  /\ request' = [request EXCEPT ![q].phase = "walk", ![q].at = target]
  /\ UNCHANGED node

FindTargetFails(q) ==
  /\ request[q].phase = "target"
  /\ request[q].target \notin Present
  /\ End(q)
  /\ UNCHANGED node

(* isDescendant, one level of it. *)
Above(q) == held[q][request[q].at].parent

WalkUpFault(q) ==  \* asks for the parent and stays where it is
  /\ request[q].phase = "walk"
  /\ Above(q) \notin {None, request[q].node}
  /\ held' = [held EXCEPT ![q] = Loaded(q, Above(q))]
  /\ UNCHANGED <<node, request>>

WalkUp(q) ==
  /\ request[q].phase = "walk"
  /\ Above(q) \notin {None, request[q].node}
  /\ held' = [held EXCEPT ![q] = Loaded(q, Above(q))]
  /\ request' = [request EXCEPT ![q].at = Above(q)]
  /\ UNCHANGED node

SameType(q) == TypeOf[request[q].node] = TypeOf[request[q].target]

WalkRefuses(q) ==
  /\ request[q].phase = "walk"
  /\ \/ Above(q) = request[q].node
     \/ Above(q) = None /\ ~SameType(q)
  /\ End(q)
  /\ UNCHANGED node

WalkPassesFault(q) ==  \* looks one level up only
  /\ request[q].phase = "walk"
  /\ Above(q) # request[q].node /\ SameType(q)
  /\ request' = [request EXCEPT ![q].phase = "write",
                                ![q].old = held[q][request[q].node].path]
  /\ UNCHANGED <<node, held>>

WalkPasses(q) ==
  /\ request[q].phase = "walk"
  /\ Above(q) = None /\ SameType(q)
  /\ request' = [request EXCEPT ![q].phase = "write",
                                ![q].old = held[q][request[q].node].path]
  /\ UNCHANGED <<node, held>>

(* The UPDATE names only the columns that changed in the image. *)
Written(row, image, after) ==
  [row EXCEPT
     !.parent = IF after.parent # image.parent THEN after.parent ELSE @,
     !.path = IF after.path # image.path THEN after.path ELSE @,
     !.depth = IF after.depth # image.depth THEN after.depth ELSE @]

(* The node itself: the flush that the find of the paths below begins with.*)
WriteNode(q) ==
  LET n == request[q].node
      above == held[q][request[q].target]
      after == [held[q][n] EXCEPT !.parent = request[q].target,
                                  !.depth = above.depth + 1,
                                  !.path = Append(above.path, Slug[n])]
  IN
  /\ request[q].phase = "write"
  /\ node' = [node EXCEPT ![n] = Written(@, held[q][n], after)]
  /\ held' = [held EXCEPT ![q][n] = after]
  /\ request' = [request EXCEPT ![q].phase = "find"]

StartsWith(path, prefix) ==
  Len(path) > Len(prefix) /\ SubSeq(path, 1, Len(prefix)) = prefix

FindBelowFault(q) ==  \* looks for the path that the node has been given
  LET n == request[q].node
      below == {m \in Present : /\ TypeOf[m] = TypeOf[n]
                                /\ StartsWith(node[m].path, held[q][n].path)}
  IN
  /\ request[q].phase = "find"
  /\ request' = [request EXCEPT ![q].phase = "rewrite", ![q].below = below]
  /\ held' = [held EXCEPT ![q] = Queried(q, below)]
  /\ UNCHANGED node

(* The find of updateChildPaths, by the paths that are in the table. *)
FindBelow(q) ==
  LET n == request[q].node
      below == {m \in Present : /\ TypeOf[m] = TypeOf[n]
                                /\ StartsWith(node[m].path, request[q].old)}
  IN
  /\ request[q].phase = "find"
  /\ request' = [request EXCEPT ![q].phase = "rewrite", ![q].below = below]
  /\ held' = [held EXCEPT ![q] = Queried(q, below)]
  /\ UNCHANGED node

(* The path and depth that updateChildPaths gives a node. *)
Rewritten(image, old, new) ==
  LET path == new \o SubSeq(image.path, Len(old) + 1, Len(image.path)) IN
  [image EXCEPT !.path = path, !.depth = Len(path) - 1]

Rewrite(q) ==
  LET new == held[q][request[q].node].path
      after(m) == Rewritten(held[q][m], request[q].old, new)
  IN
  /\ request[q].phase = "rewrite"
  /\ node' = [m \in Nodes |->
       IF m \in request[q].below THEN Written(node[m], held[q][m], after(m)) ELSE node[m]]
  /\ End(q)

-----------------------------------------------------------------------------
(* The seeder: trees and countries, then the states of the countries, then *)
(* their cities.  It does nothing to a table with rows in it.  The find    *)
(* that looks for the parents of a batch flushes the one before; a run may *)
(* break off at any time, and the next one then finds rows.                *)

SeedTo(at, found) == seeder' = [at |-> at, found |-> found]
Found(S) == [n \in S |-> node[n]]

SeedBegin ==
  /\ seeder.at = 0
  /\ Present = {}
  /\ SeedTo(1, Found({}))
  /\ UNCHANGED node

SeedTrees ==
  /\ seeder.at = 1
  /\ node' = [n \in Nodes |-> IF n \in DOMAIN Batches[1]
                               THEN Seeded(Batches[1], SeedSlug)[n] ELSE node[n]]
  /\ SeedTo(IF Len(Batches) = 1 THEN 0 ELSE 2, Found({}))

SeedFind ==
  /\ seeder.at > 1 /\ seeder.found = Found({})
  /\ SeedTo(seeder.at, Found(Present \cap DOMAIN Batches[seeder.at - 1]))
  /\ UNCHANGED node

(* A node whose parent was not found is passed over. *)
SeedBelow ==
  LET parent == Batches[seeder.at]
      row(n) == [present |-> TRUE, parent |-> parent[n],
                 path |-> Append(seeder.found[parent[n]].path, SeedSlug[n]),
                 depth |-> seeder.at - 1, active |-> TRUE, deleted |-> FALSE]
  IN
  /\ seeder.at > 1 /\ seeder.found # Found({})
  /\ node' = [n \in Nodes |->
       IF n \in DOMAIN parent /\ parent[n] \in DOMAIN seeder.found
         THEN row(n) ELSE node[n]]
  /\ SeedTo(IF seeder.at = Len(Batches) THEN 0 ELSE seeder.at + 1, Found({}))

SeedBreaks ==
  /\ seeder.at > 0
  /\ SeedTo(0, Found({}))
  /\ UNCHANGED node

Seed ==
  /\ SeedBegin \/ SeedTrees \/ SeedFind \/ SeedBelow \/ SeedBreaks
  /\ mixed' = mixed \cup Strays'
  /\ UNCHANGED <<request, held, history, behind>>

-----------------------------------------------------------------------------
(* A move below a path that starts with that of the node, though it is not *)
(* below the node: a node that was left behind is above the target.  The   *)
(* rewrite then finds the node itself and what is above the target.        *)
Misled(q) ==
  LET n == request[q].node IN
  /\ request[q].phase = "write"
  /\ \E m \in behind : TypeOf[m] = TypeOf[n]
  /\ StartsWith(held[q][request[q].target].path, request[q].old)

(* History: a node that is moved is no longer behind. *)
Noted(q) ==
  LET n == request[q].node IN
  /\ mixed' = mixed \cup Strays' \cup (IF Misled(q) THEN {TypeOf[n]} ELSE {})
  /\ behind' = IF request[q].phase = "write" THEN behind \ {n} ELSE behind

(* The next step of a request that has begun. *)
Advance(q) ==
  /\ \/ Insert(q) \/ InsertFails(q)
     \/ Delete(q)
     \/ FindTarget(q) \/ FindTargetFails(q)
     \/ WalkUp(q) \/ WalkRefuses(q) \/ WalkPasses(q)
     \/ WriteNode(q) \/ FindBelow(q) \/ Rewrite(q)
  /\ Noted(q)
  /\ UNCHANGED <<seeder, history>>

(* A query or a flush fails, or the process does.  Between its two         *)
(* transactions a move leaves the nodes under its node behind, with the    *)
(* paths that they had.                                                    *)
Break(q) ==
  /\ Running(q)
  /\ End(q)
  /\ behind' = IF request[q].phase \in {"find", "rewrite"}
                 THEN behind \cup Children(request[q].node) ELSE behind
  /\ UNCHANGED <<node, seeder, history, mixed>>

Next ==
  \/ \E q \in Requests, n \in Nodes :
       /\ \/ Remove(q, n) \/ RemoveRefused(q, n)
          \/ \E parent \in Parent : n \notin Platform /\ Create(q, n, parent)
          \/ \E target \in Nodes : Move(q, n, target)
       /\ UNCHANGED <<seeder, mixed, behind>>
  \/ \E q \in Requests : Advance(q) \/ Break(q)
  \/ \E n \in Nodes : Activate(n) \/ Deactivate(n)
  \/ Seed

Spec == Init /\ [][Next]_vars

(* The event loop and the database get to every request that has begun. *)
FairSpec == Spec /\ \A q \in Requests : WF_vars(Advance(q))

-----------------------------------------------------------------------------
(* No nodes are above one another in a circle: among any, one has its      *)
(* parent elsewhere.                                                       *)
NoCycle == \A S \in SUBSET Present : S # {} => \E n \in S : node[n].parent \notin S

(* As long as requests neither overlapped nor moved a node under itself,   *)
(* no node is above itself: the walk up from the new parent of a move      *)
(* finds every cycle that the move would close.                            *)
Acyclic == ~overlapped /\ ~selfMoved => NoCycle

(* Under the same conditions, between two requests a path is that of the   *)
(* parent and the node's own slug, so that the nodes that a move finds by  *)
(* path are those below.  A move that breaks off between its transactions  *)
(* leaves the nodes right under its node behind, and no others; they stay  *)
(* so, with what is below them, until they are moved themselves.  Types    *)
(* whose paths do not tell what is below a node are left out: those with a *)
(* node under one of another type or with two equal slugs, and those in    *)
(* which a move was misled by what another has left behind.                *)
PathFollowsParent ==
  ~overlapped /\ ~selfMoved /\ ~Busy =>
    \A n \in Present \ behind : TypeOf[n] \notin mixed =>
      node[n].path = Append(IF node[n].parent = None THEN <<TypeOf[n]>>
                              ELSE node[node[n].parent].path, Slug[n])

(* Without overlap and self-moves, a request that has begun comes to its   *)
(* end: the walk up the parents does not go round.                         *)
RequestsEnd ==
  \A q \in Requests :
    Running(q) ~> (request[q].phase = "done" \/ overlapped \/ selfMoved)
=============================================================================
