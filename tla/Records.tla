------------------------------- MODULE Records -------------------------------
(***************************************************************************)
(* Master data: partners and what hangs below them, products and their     *)
(* variants, attributes, sales channels, the books of accounting, the      *)
(* platform configuration, the menu, the audit log, and the columns of     *)
(* orders, definitions, classification nodes, tenants, users and what is   *)
(* written about a production order or a shipment that no other module is  *)
(* about.                                                                  *)
(*                                                                         *)
(* Every update finds a row, assigns what the body names and flushes the   *)
(* columns that differ from those that it read; a list of them (bulkUpdate *)
(* of configurations, reorder) does so one by one, and a menu node that    *)
(* gets new columns and a new parent in two flushes.  Removing sets        *)
(* deletedAt for some kinds and deletes the row for others, and who finds  *)
(* a removed row differs between kinds, as does what a body can do to a    *)
(* reference.                                                              *)
(*                                                                         *)
(* A row has one plain column and, in some kinds, one reference to another *)
(* table.  For a configuration these are value and category, which is      *)
(* never empty: there None is the default; for a user whether it is active *)
(* and when it last logged in; and a JSON column that updates merge into   *)
(* is a row of its own, of which the two are two keys.                     *)
(* A date of removal is the request that removes, or one that a body names:*)
(* where bodies are assigned as a whole without a validation, they can set *)
(* the date like any other column, and empty it.  They do not move a row   *)
(* to another parent, tenant or id.                                        *)
(* Operators named ...Fault are the definition that follows them with a    *)
(* plausible mistake.                                                      *)
(***************************************************************************)
EXTENDS FiniteSets

CONSTANTS
  Partners, Addresses, Contacts, Counterparties, Interactions,
  Products, Variants, Attributes,
  Channels, Mappings,   \* sales channels, and the products that they list
  Books,                \* stock valuations and exchange differences
  TaxReports, Configs,
  MenuNodes, SeededNodes,                   \* the menu; what MenuSeeder inserts
  AuditEntries, Boms, Customs, Events,      \* inserted, and not changed here
  QualityChecks, SalesOrders, PurchaseOrders, Definitions, ClassificationNodes,
  Tenants, Users,
  Flags,                \* Tenant.features, ClassificationNode.properties
  ParentOf,             \* where a part is created below
  KeyOf,                \* the key of each configuration
  Values, References,   \* what the two columns can hold
  Dates,                \* dates of removal that bodies name
  Inactive,             \* the value of a menu node that is hidden, or of a
                        \* user that cannot log in
  None, Unnamed,        \* an empty column; a column that a body does not name
  Present,              \* the rows that are there to begin with
  Requests,             \* requests, each served once: the bound of a TLC run
  Overlapping           \* the rows that two requests may be changing together

PartnerParts == Addresses \cup Contacts \cup Counterparties \cup Interactions
Parts == PartnerParts \cup Variants \cup Mappings

(* The rows of a kind, by its name. *)
Kinds ==
  [partner |-> Partners, address |-> Addresses, contact |-> Contacts,
   counterparty |-> Counterparties, interaction |-> Interactions,
   product |-> Products, variant |-> Variants, attribute |-> Attributes,
   channel |-> Channels, mapping |-> Mappings, book |-> Books,
   taxReport |-> TaxReports, config |-> Configs, menuNode |-> MenuNodes,
   auditEntry |-> AuditEntries, bom |-> Boms, customs |-> Customs, event |-> Events,
   check |-> QualityChecks, salesOrder |-> SalesOrders,
   purchaseOrder |-> PurchaseOrders, definition |-> Definitions,
   classificationNode |-> ClassificationNodes, tenant |-> Tenants, user |-> Users,
   flag |-> Flags]
Rows == UNION {Kinds[k] : k \in DOMAIN Kinds}

(* Who has a reference that can be empty; whose reference an update can    *)
(* replace and not empty; who is not found any more after its removal.     *)
HasReference ==
  Partners \cup Addresses \cup Products \cup Variants \cup Books \cup Configs
    \cup MenuNodes \cup SalesOrders \cup Users \cup Flags
KeepsReference ==
  Partners \cup Products \cup Variants \cup Configs \cup SalesOrders \cup Flags
Hidden == Addresses \cup Contacts \cup Counterparties

(* Whose bodies are not validated, and are assigned with their date of     *)
(* removal, when there is one that anything reads.                         *)
Unchecked == Hidden \cup Interactions \cup Products \cup Variants
               \cup SalesOrders \cup Definitions

(* Who can have a date of removal, and who is deleted from the table.      *)
Dated == Partners \cup Unchecked \cup PurchaseOrders \cup Tenants
Erased == Attributes \cup Configs \cup Users

(* Whose rows one request can change as a list. *)
Listed == {Configs, Definitions, ClassificationNodes}

ASSUME KindAssumption ==
  /\ \A k, l \in DOMAIN Kinds : k = l \/ Kinds[k] \cap Kinds[l] = {}
  /\ ParentOf \in [Parts -> Partners \cup Products \cup Channels]
  /\ Configs \subseteq DOMAIN KeyOf /\ Present \cup Overlapping \subseteq Rows
  /\ \A r \in Present \cap Parts : ParentOf[r] \in Present
  /\ \A c, d \in Present \cap Configs : KeyOf[c] = KeyOf[d] => c = d
ASSUME ColumnAssumption ==
  /\ Unnamed \notin Values \cup References \cup Dates \cup {None}
  /\ Inactive \in Values /\ Values # {Inactive} /\ References # {}
  /\ SeededNodes \subseteq MenuNodes
  /\ None \notin Rows \cup Requests \cup Dates

Serial == Rows \ Overlapping

VARIABLES row, request

vars == <<row, request>>

Row == [state : {"absent", "there", "erased"}, value : Values \cup {None},
        reference : References \cup {None}, deletedAt : Requests \cup Dates \cup {None}]
Body == [value : Values \cup {Unnamed}, reference : References \cup {None, Unnamed},
         deletedAt : Dates \cup {None, Unnamed}]

(* of, seen: the row that the request has found, as it found it.  One that *)
(* is "next" is between two items of a list, and of is the one before.     *)
Request == [phase : {"new", "update", "remove", "next", "done", "failed"},
            of : Rows \cup {None}, seen : Row, body : Body]

Absent == [state |-> "absent", value |-> None, reference |-> None, deletedAt |-> None]
Nothing == [value |-> Unnamed, reference |-> Unnamed, deletedAt |-> Unnamed]
Idle == [phase |-> "new", of |-> None, seen |-> Absent, body |-> Nothing]

There(r) == row[r].state = "there"
Fits(r, body) ==
  /\ r \in HasReference \/ body.reference = Unnamed
  /\ r \in Unchecked \/ body.deletedAt = Unnamed
Given(column) == IF column = Unnamed THEN None ELSE column
Running(q) == request[q].phase \in {"update", "remove"}

(* And: what was erased or never was is empty; only rows of their kinds    *)
(* have dates and references; one row has a key.                           *)
TypeOK ==
  /\ row \in [Rows -> Row]
  /\ request \in [Requests -> Request]
  /\ \A r \in Rows :
       /\ ~There(r) => row[r] = [Absent EXCEPT !.state = row[r].state]
       /\ row[r].deletedAt # None => r \in Dated
       /\ row[r].reference # None => r \in HasReference
  /\ \A c, d \in Configs : There(c) /\ There(d) /\ KeyOf[c] = KeyOf[d] => c = d

(* A row that was created by an earlier request. *)
Earlier(r) ==
  [Absent EXCEPT !.state = "there", !.value = CHOOSE value \in Values : value # Inactive,
     !.reference = IF r \in HasReference THEN CHOOSE ref \in References : TRUE ELSE None]

Init ==
  /\ row = [r \in Rows |-> IF r \in Present THEN Earlier(r) ELSE Absent]
  /\ request = [q \in Requests |-> Idle]

-----------------------------------------------------------------------------
(* Creating: one flush.  The parent is found whether removed or not.       *)
InsertRow(q, r, body) ==
  /\ row[r] = Absent
  /\ Fits(r, body) /\ body.value # Unnamed
  /\ row' = [row EXCEPT ![r] =
       [Absent EXCEPT !.state = "there", !.value = body.value,
          !.reference = Given(body.reference), !.deletedAt = Given(body.deletedAt)]]
  /\ request' = [request EXCEPT ![q] = [Idle EXCEPT !.phase = "done"]]

Insert(q, kind) ==
  /\ request[q].phase = "new"
  /\ \E r \in kind, body \in Body : InsertRow(q, r, body)

InsertPart(q, kind) ==
  /\ request[q].phase = "new"
  /\ \E r \in kind, body \in Body : There(ParentOf[r]) /\ InsertRow(q, r, body)

CreatePartner(q) == Insert(q, Partners)
CreateAddress(q) == InsertPart(q, Addresses)
CreateContact(q) == InsertPart(q, Contacts)
CreateCounterparty(q) == InsertPart(q, Counterparties)
CreateInteraction(q) == InsertPart(q, Interactions)
CreateProduct(q) == Insert(q, Products)
CreateVariant(q) == InsertPart(q, Variants)
CreateAttribute(q) == Insert(q, Attributes)
CreateChannel(q) == Insert(q, Channels)
CreateMapping(q) == InsertPart(q, Mappings)
CreateBook(q) == Insert(q, Books)
CreateTaxReport(q) == Insert(q, TaxReports)
CreateMenuNode(q) == Insert(q, MenuNodes)
LogAction(q) == Insert(q, AuditEntries)
CreateBOM(q) == Insert(q, Boms)
CreateQC(q) == Insert(q, QualityChecks)
CreateCustoms(q) == Insert(q, Customs)
AddEvent(q) == Insert(q, Events)  \* below a plan; these are never removed

KeyTakenFault(r) == FALSE  \* neither looked up nor unique

(* A key that came up between the lookup and the flush fails the unique    *)
(* index.                                                                  *)
KeyTaken(r) == \E c \in Configs : There(c) /\ KeyOf[c] = KeyOf[r]

(* upsert of a key that is not there. *)
InsertConfig(q) ==
  /\ request[q].phase = "new"
  /\ \E r \in Configs, body \in Body : ~KeyTaken(r) /\ InsertRow(q, r, body)

(* MenuSeeder fills an empty menu, in one flush. *)
SeedMenu ==
  /\ \A m \in MenuNodes : row[m] = Absent
  /\ row' = [r \in Rows |-> IF r \in SeededNodes THEN Earlier(r) ELSE row[r]]
  /\ UNCHANGED request

-----------------------------------------------------------------------------
(* Changing: find, then flush.                                             *)

(* The code never waits: every row is in Overlapping unless its users make *)
(* one change of it at a time.                                             *)
MayStart(r) ==
  r \in Serial => \A p \in Requests : request[p].of # r

Findable(r) == There(r) /\ (r \in Hidden => row[r].deletedAt = None)

Find(q, r, phase, body) ==
  /\ request[q].phase = "new" /\ Findable(r) /\ MayStart(r) /\ Fits(r, body)
  /\ request' = [request EXCEPT ![q] =
       [phase |-> phase, of |-> r, seen |-> row[r], body |-> body]]
  /\ UNCHANGED row

Update(q, kind) ==
  request[q].phase = "new" /\ \E r \in kind, body \in Body : Find(q, r, "update", body)
SetValue(q, kind, values) ==
  \E r \in kind, value \in values : Find(q, r, "update", [Nothing EXCEPT !.value = value])
Remove(q, kind) == \E r \in kind : Find(q, r, "remove", Nothing)

UpdatePartner(q) == Update(q, Partners)
UpdateAddress(q) == Update(q, Addresses)
UpdateContact(q) == Update(q, Contacts)
UpdateCounterparty(q) == Update(q, Counterparties)
UpdateProduct(q) == Update(q, Products)
UpdateVariant(q) == Update(q, Variants)
UpdateAttribute(q) == Update(q, Attributes)
UpdateChannel(q) == Update(q, Channels)
UpdateTaxReport(q) == Update(q, TaxReports)
UpdateMenuNode(q) == Update(q, MenuNodes)
UpdateQC(q) == Update(q, QualityChecks)
UpdateSalesOrder(q) == Update(q, SalesOrders)
UpdateTenant(q) == Update(q, Tenants)  \* also its subscription

(* Flags that the body does not name are merged from what was read.        *)
UpdateFlags(q) == Update(q, Flags)

(* Also the first item of a reorder. *)
UpdateDefinition(q) == Update(q, Definitions)
UpdateNode(q) == Update(q, ClassificationNodes)

(* upsert of a key that is there, or the first that bulkUpdate finds. *)
UpdateConfig(q) ==
  /\ request[q].phase = "new"
  /\ \E r \in Configs, body \in Body :
       body.value # Unnamed /\ Find(q, r, "update", body)

(* Removing a menu node hides it. *)
RemoveMenuNode(q) == SetValue(q, MenuNodes, {Inactive})

UpdateStatus(q) == SetValue(q, Users, Values)

(* A login of a user that is active. *)
Login(q) ==
  \E u \in Users, time \in References :
    /\ row[u].value # Inactive
    /\ Find(q, u, "update", [Nothing EXCEPT !.reference = time])

RemovePartner(q) == Remove(q, Partners)
RemoveAddress(q) == Remove(q, Addresses)
RemoveContact(q) == Remove(q, Contacts)
RemoveCounterparty(q) == Remove(q, Counterparties)
RemoveProduct(q) == Remove(q, Products)
RemoveVariant(q) == Remove(q, Variants)
RemoveSalesOrder(q) == Remove(q, SalesOrders)
RemovePurchaseOrder(q) == Remove(q, PurchaseOrders)
RemoveDefinition(q) == Remove(q, Definitions)
RemoveTenant(q) == Remove(q, Tenants)

(* Attributes, configurations and users: found and deleted.  Nothing that  *)
(* another request does in between changes what is deleted.                *)
Erase(r) ==
  /\ There(r) /\ MayStart(r)
  /\ row' = [row EXCEPT ![r] = [Absent EXCEPT !.state = "erased"]]
  /\ UNCHANGED request

AssignedReferenceFault(r, body, seen) ==  \* what is not named is emptied
  IF body.reference = Unnamed THEN None ELSE body.reference

(* A relation that the body does not name is assigned what was read; in    *)
(* some kinds so is one that the body empties.                             *)
AssignedReference(r, body, seen) ==
  IF \/ body.reference = Unnamed
     \/ body.reference = None /\ r \in KeepsReference
  THEN seen.reference ELSE body.reference

(* The entity before the flush. *)
Assigned(q) ==
  LET seen == request[q].seen
      body == request[q].body
  IN IF request[q].phase = "remove" THEN [seen EXCEPT !.deletedAt = q]
     ELSE [seen EXCEPT !.reference = AssignedReference(request[q].of, body, seen),
             !.value = IF body.value = Unnamed THEN seen.value ELSE body.value,
             !.deletedAt = IF body.deletedAt = Unnamed THEN seen.deletedAt
                           ELSE body.deletedAt]

WrittenFault(r, seen, set) == set  \* every column

(* The row after it: columns are written that differ from what was read,   *)
(* and a JSON column as a whole.                                           *)
Written(r, seen, set) ==
  IF r \in Flags THEN IF set = seen THEN row[r] ELSE set
  ELSE [column \in DOMAIN set |->
          IF set[column] # seen[column] THEN set[column] ELSE row[r][column]]

(* An UPDATE of a row that was erased meanwhile changes nothing, and is    *)
(* answered like any other.                                                *)
Flush(q, set) ==
  LET r == request[q].of IN
  row' = IF There(r) THEN [row EXCEPT ![r] = Written(r, request[q].seen, set)] ELSE row

(* A menu node's own columns are flushed when its new parent is looked up. *)
LooksUpParent(q) ==
  /\ request[q].phase = "update" /\ request[q].of \in MenuNodes
  /\ request[q].body.value # Unnamed /\ request[q].body.reference # Unnamed

LookUpParent(q) ==
  LET set == [request[q].seen EXCEPT !.value = request[q].body.value] IN
  /\ LooksUpParent(q)
  /\ Flush(q, set)
  /\ request' = [request EXCEPT ![q].seen = set, ![q].body.value = Unnamed]

Answer(q) ==
  /\ Running(q) /\ ~LooksUpParent(q)
  /\ Flush(q, Assigned(q))
  /\ request' = [request EXCEPT ![q] = [Idle EXCEPT !.phase = "done"]]

(* A list: its items name values alone.  Finding the next row flushes what *)
(* was assigned to the one before; some lists pass over what is not found, *)
(* and a list may name a row again.                                        *)
FlushItem(q) ==
  /\ request[q].phase = "update" /\ request[q].of \in UNION Listed
  /\ request[q].body.reference = Unnamed /\ request[q].body.deletedAt = Unnamed
  /\ Flush(q, Assigned(q))
  /\ request' = [request EXCEPT ![q] =
       [Idle EXCEPT !.phase = "next", !.of = request[q].of]]

FindNext(q) ==
  /\ request[q].phase = "next"
  /\ \E kind \in Listed : request[q].of \in kind /\
       \E r \in kind, value \in Values :
         /\ There(r) /\ MayStart(r)
         /\ request' = [request EXCEPT ![q] =
              [phase |-> "update", of |-> r, seen |-> row[r],
               body |-> [Nothing EXCEPT !.value = value]]]
  /\ UNCHANGED row

FindNoMore(q) ==
  /\ request[q].phase = "next"
  /\ request' = [request EXCEPT ![q] = [Idle EXCEPT !.phase = "done"]]
  /\ UNCHANGED row

(* The database refuses or cannot be reached, or the process ends. *)
Break(q) ==
  /\ Running(q) \/ request[q].phase = "next"
  /\ request' = [request EXCEPT ![q] = [Idle EXCEPT !.phase = "failed"]]
  /\ UNCHANGED row

-----------------------------------------------------------------------------
PartnerRequest(q) ==
  \/ CreatePartner(q) \/ UpdatePartner(q) \/ RemovePartner(q)
  \/ CreateAddress(q) \/ UpdateAddress(q) \/ RemoveAddress(q)
  \/ CreateContact(q) \/ UpdateContact(q) \/ RemoveContact(q)
  \/ CreateCounterparty(q) \/ UpdateCounterparty(q) \/ RemoveCounterparty(q)
  \/ CreateInteraction(q)

ProductRequest(q) ==
  \/ CreateProduct(q) \/ UpdateProduct(q) \/ RemoveProduct(q)
  \/ CreateVariant(q) \/ UpdateVariant(q) \/ RemoveVariant(q)

AttributeRequest(q) == CreateAttribute(q) \/ UpdateAttribute(q)

ChannelRequest(q) == CreateChannel(q) \/ UpdateChannel(q) \/ CreateMapping(q)

AccountingRequest(q) == CreateBook(q) \/ CreateTaxReport(q) \/ UpdateTaxReport(q)

ConfigRequest(q) == InsertConfig(q) \/ UpdateConfig(q)

MenuRequest(q) == CreateMenuNode(q) \/ UpdateMenuNode(q) \/ RemoveMenuNode(q)

WorkRequest(q) ==
  \/ CreateBOM(q) \/ CreateQC(q) \/ UpdateQC(q)
  \/ CreateCustoms(q) \/ AddEvent(q) \/ LogAction(q)

OrderRequest(q) == UpdateSalesOrder(q) \/ RemoveSalesOrder(q) \/ RemovePurchaseOrder(q)

DefinitionRequest(q) == UpdateDefinition(q) \/ RemoveDefinition(q) \/ UpdateNode(q)

TenantRequest(q) ==
  \/ UpdateTenant(q) \/ UpdateFlags(q) \/ RemoveTenant(q)
  \/ UpdateStatus(q) \/ Login(q)

Next ==
  \/ \E q \in Requests :
       \/ PartnerRequest(q) \/ ProductRequest(q) \/ AttributeRequest(q)
       \/ ChannelRequest(q) \/ AccountingRequest(q) \/ ConfigRequest(q)
       \/ MenuRequest(q) \/ WorkRequest(q) \/ OrderRequest(q)
       \/ DefinitionRequest(q) \/ TenantRequest(q)
       \/ LookUpParent(q) \/ Answer(q)
       \/ FlushItem(q) \/ FindNext(q) \/ FindNoMore(q) \/ Break(q)
  \/ \E r \in Erased : Erase(r)
  \/ SeedMenu

Spec == Init /\ [][Next]_vars

-----------------------------------------------------------------------------
(* An update that read r removed, and whose body empties the date. *)
Revives(q, r) ==
  /\ request[q].phase = "update" /\ request'[q].phase = "done"
  /\ request[q].of = r /\ request[q].seen.deletedAt # None
  /\ request[q].body.deletedAt = None

(* However requests overlap, what was removed stays removed: an update     *)
(* that read a row before its removal does not bring it back, only one     *)
(* does that found it removed and whose body says so.  Addresses, contacts *)
(* and counterparties never come back, and do not even change any more     *)
(* where requests do not overlap.                                          *)
RemovedStays ==
  [][\A r \in Rows :
       /\ row[r].state = "erased" => row'[r] = row[r]
       /\ row[r].deletedAt # None =>
            /\ \/ row'[r].deletedAt # None
               \/ r \in Unchecked \ Hidden /\ \E q \in Requests : Revives(q, r)
            /\ r \in Hidden \cap Serial => row'[r] = row[r]]_vars

(* An update leaves alone what its body does not name, also the relations  *)
(* that the handler assigns again from what it read and the keys of a JSON *)
(* column that it merges into, and this however many requests overlap (but *)
(* for JSON columns); and where they do not overlap, each column has what  *)
(* the body names.                                                         *)
UpdatesSetWhatTheyName ==
  [][\A q \in Requests :
       request[q].phase = "update" /\ request'[q].phase \in {"update", "done", "next"}
         /\ request'[q] # request[q] =>
         LET body == request[q].body
             r == request[q].of
         IN /\ \A other \in Rows \ {r} : row'[other] = row[other]
            /\ row'[r].deletedAt # row[r].deletedAt => row'[r].deletedAt = body.deletedAt
            /\ r \notin Flags \cap Overlapping =>
                 /\ row'[r].value # row[r].value => row'[r].value = body.value
                 /\ row'[r].reference # row[r].reference =>
                      row'[r].reference = body.reference
            /\ r \in Serial =>
                 /\ body.value \in {Unnamed, row'[r].value}
                 /\ body.deletedAt \in {Unnamed, row'[r].deletedAt}
                 /\ \/ request'[q].phase = "update"
                    \/ body.reference \in {Unnamed, row'[r].reference}
                    \/ body.reference = None /\ r \in KeepsReference]_vars
=============================================================================
