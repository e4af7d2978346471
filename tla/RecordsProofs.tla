---------------------------- MODULE RecordsProofs ----------------------------
(***************************************************************************)
(* Proofs about Records, for every value of its constants.                 *)
(*                                                                         *)
(* Two invariants carry them: Inv, of rows and of what requests have found,*)
(* for any overlap, and SerialInv, of the rows whose requests do not       *)
(* overlap.  All creations are one step for them, and so are all finds:    *)
(* NextCases.                                                              *)
(***************************************************************************)
EXTENDS Records, TLAPS

(* Kinds have no row in common.                                            *)
LEMMA KindNames ==
  /\ DOMAIN Kinds =
       {"partner", "address", "contact", "counterparty", "interaction", "product",
        "variant", "attribute", "channel", "mapping", "book", "taxReport", "config",
        "menuNode", "auditEntry", "bom", "customs", "event", "check", "salesOrder",
        "purchaseOrder", "definition", "classificationNode", "tenant", "user", "flag"}
  /\ Kinds["partner"] = Partners /\ Kinds["address"] = Addresses
  /\ Kinds["contact"] = Contacts /\ Kinds["counterparty"] = Counterparties
  /\ Kinds["interaction"] = Interactions /\ Kinds["product"] = Products
  /\ Kinds["variant"] = Variants /\ Kinds["attribute"] = Attributes
  /\ Kinds["channel"] = Channels /\ Kinds["mapping"] = Mappings
  /\ Kinds["book"] = Books /\ Kinds["taxReport"] = TaxReports
  /\ Kinds["config"] = Configs /\ Kinds["menuNode"] = MenuNodes
  /\ Kinds["auditEntry"] = AuditEntries /\ Kinds["bom"] = Boms
  /\ Kinds["customs"] = Customs /\ Kinds["event"] = Events
  /\ Kinds["check"] = QualityChecks /\ Kinds["salesOrder"] = SalesOrders
  /\ Kinds["purchaseOrder"] = PurchaseOrders /\ Kinds["definition"] = Definitions
  /\ Kinds["classificationNode"] = ClassificationNodes /\ Kinds["tenant"] = Tenants
  /\ Kinds["user"] = Users /\ Kinds["flag"] = Flags
  BY DEF Kinds

LEMMA KindRows ==
  /\ Partners \subseteq Rows /\ Addresses \subseteq Rows /\ Contacts \subseteq Rows
  /\ Counterparties \subseteq Rows /\ Interactions \subseteq Rows
  /\ Products \subseteq Rows /\ Variants \subseteq Rows /\ Attributes \subseteq Rows
  /\ Channels \subseteq Rows /\ Mappings \subseteq Rows /\ Books \subseteq Rows
  /\ TaxReports \subseteq Rows /\ Configs \subseteq Rows /\ MenuNodes \subseteq Rows
  /\ AuditEntries \subseteq Rows /\ Boms \subseteq Rows /\ Customs \subseteq Rows
  /\ Events \subseteq Rows /\ QualityChecks \subseteq Rows /\ SalesOrders \subseteq Rows
  /\ PurchaseOrders \subseteq Rows /\ Definitions \subseteq Rows
  /\ ClassificationNodes \subseteq Rows /\ Tenants \subseteq Rows
  /\ Users \subseteq Rows /\ Flags \subseteq Rows
<1>1. \A k \in DOMAIN Kinds : Kinds[k] \subseteq Rows
  BY DEF Rows
<1> QED BY <1>1, KindNames

LEMMA ConfigsApart ==
  \A r \in Configs :
    /\ r \notin Partners \cup Addresses \cup Contacts \cup Counterparties
    /\ r \notin Interactions \cup Products \cup Variants \cup Attributes \cup Channels
    /\ r \notin Mappings \cup Books \cup TaxReports \cup MenuNodes \cup AuditEntries
    /\ r \notin Boms \cup Customs \cup Events \cup QualityChecks
<1>1. \A k \in DOMAIN Kinds : k # "config" => Configs \cap Kinds[k] = {}
  BY KindAssumption, KindNames
<1> QED BY <1>1, KindNames

LEMMA ErasedApart == Erased \cap Dated = {}
<1>1. \A k \in DOMAIN Kinds : k # "config" => Configs \cap Kinds[k] = {}
  BY KindAssumption, KindNames
<1>2. \A k \in DOMAIN Kinds : k # "attribute" => Attributes \cap Kinds[k] = {}
  BY KindAssumption, KindNames
<1>3. \A k \in DOMAIN Kinds : k # "user" => Users \cap Kinds[k] = {}
  BY KindAssumption, KindNames
<1>4. Configs \cap Dated = {}
  BY <1>1, KindNames DEF Dated, Unchecked, Hidden
<1>5. Attributes \cap Dated = {}
  BY <1>2, KindNames DEF Dated, Unchecked, Hidden
<1>6. Users \cap Dated = {}
  BY <1>3, KindNames DEF Dated, Unchecked, Hidden
<1> QED BY <1>4, <1>5, <1>6 DEF Erased

LEMMA FlagsApart == Flags \cap Dated = {}
<1>1. \A k \in DOMAIN Kinds : k # "flag" => Flags \cap Kinds[k] = {}
  BY KindAssumption, KindNames
<1> QED BY <1>1, KindNames DEF Dated, Unchecked, Hidden

LEMMA MenuApart == MenuNodes \cap Unchecked = {}
<1>1. \A k \in DOMAIN Kinds : k # "menuNode" => MenuNodes \cap Kinds[k] = {}
  BY KindAssumption, KindNames
<1> QED BY <1>1, KindNames DEF Unchecked, Hidden

LEMMA ListedApart == \A kind \in Listed : kind \subseteq Rows /\ kind \cap Hidden = {}
<1>1. \A k \in DOMAIN Kinds : k # "address" => Addresses \cap Kinds[k] = {}
  BY KindAssumption, KindNames
<1>2. \A k \in DOMAIN Kinds : k # "contact" => Contacts \cap Kinds[k] = {}
  BY KindAssumption, KindNames
<1>3. \A k \in DOMAIN Kinds : k # "counterparty" => Counterparties \cap Kinds[k] = {}
  BY KindAssumption, KindNames
<1>4. Configs \cap Hidden = {}
  BY <1>1, <1>2, <1>3, KindNames DEF Hidden
<1>5. Definitions \cap Hidden = {}
  BY <1>1, <1>2, <1>3, KindNames DEF Hidden
<1>6. ClassificationNodes \cap Hidden = {}
  BY <1>1, <1>2, <1>3, KindNames DEF Hidden
<1> QED BY <1>4, <1>5, <1>6, KindRows DEF Listed

-----------------------------------------------------------------------------
(* A row as its kind may be, and a request that has found one.             *)
RowOK(r, x) ==
  /\ x \in Row
  /\ x.state # "there" => x = [Absent EXCEPT !.state = x.state]
  /\ x.deletedAt # None => r \in Dated
  /\ x.reference # None => r \in HasReference

FoundOK(r, x) == RowOK(r, x) /\ x.state = "there"

RequestOK(x) ==
  /\ x \in Request
  /\ x.phase \in {"update", "remove"} =>
       /\ x.of \in Rows /\ Fits(x.of, x.body) /\ FoundOK(x.of, x.seen)
       /\ x.of \in Hidden => x.seen.deletedAt = None
       /\ x.phase = "remove" => x.of \in Dated

OneRowPerKey ==
  \A c, d \in Configs : There(c) /\ There(d) /\ KeyOf[c] = KeyOf[d] => c = d

RowsOK ==
  /\ row \in [Rows -> Row]
  /\ \A r \in Rows : RowOK(r, row[r])
  /\ OneRowPerKey

RequestsOK ==
  /\ request \in [Requests -> Request]
  /\ \A q \in Requests : RequestOK(request[q])

Inv == RowsOK /\ RequestsOK

LEMMA InvTypes == Inv => TypeOK
  BY DEF Inv, RowsOK, RequestsOK, RowOK, OneRowPerKey, There, TypeOK

LEMMA Nones ==
  /\ Absent \in Row /\ Nothing \in Body /\ Idle \in Request
  /\ \A q \in Requests : q # None
  /\ \A r \in Rows : r # None
  BY ColumnAssumption DEF Absent, Nothing, Idle, Row, Body, Request

LEMMA IdleOK ==
  \A phase \in {"done", "failed"} : RequestOK([Idle EXCEPT !.phase = phase])
  BY Nones DEF RequestOK, Request, Idle

LEMMA EarlierOK ==
  ASSUME NEW r \in Rows
  PROVE  RowOK(r, Earlier(r)) /\ Earlier(r).state = "there"
<1>1. (CHOOSE value \in Values : value # Inactive) \in Values
  BY ColumnAssumption
<1>2. (CHOOSE ref \in References : TRUE) \in References
  BY ColumnAssumption
<1> QED BY <1>1, <1>2 DEF Earlier, Absent, RowOK, Row

(* One row changes, and only a new one may take a key.                     *)
LEMMA RowChanges ==
  ASSUME RowsOK, NEW r \in Rows, NEW new, RowOK(r, new), row' = [row EXCEPT ![r] = new],
         r \in Configs /\ new.state = "there" => There(r) \/ ~KeyTaken(r)
  PROVE  RowsOK'
<1>1. row' \in [Rows -> Row] /\ row'[r] = new /\ \A s \in Rows \ {r} : row'[s] = row[s]
  BY DEF RowsOK, RowOK
<1>2. \A s \in Rows : RowOK(s, row'[s])
  BY <1>1 DEF RowsOK
<1>3. OneRowPerKey'
  <2> SUFFICES ASSUME NEW c \in Configs, NEW d \in Configs, There(c)', There(d)',
                      KeyOf[c] = KeyOf[d]
               PROVE  c = d
    BY DEF OneRowPerKey
  <2>1. c \in Rows /\ d \in Rows
    BY KindRows
  <2>2. \A s \in Configs \ {r} : There(s)' => There(s)
    BY <1>1, KindRows DEF There
  <2>3. CASE c # r /\ d # r
    BY <2>2, <2>3 DEF RowsOK, OneRowPerKey
  <2>4. CASE c = r \/ d = r
    <3>1. r \in Configs /\ new.state = "there"
      BY <2>4, <1>1 DEF There
    <3>2. CASE There(r)
      BY <2>2, <2>4, <3>2 DEF RowsOK, OneRowPerKey
    <3>3. CASE ~KeyTaken(r)
      BY <2>2, <2>4, <3>3 DEF KeyTaken
    <3> QED BY <3>1, <3>2, <3>3
  <2> QED BY <2>3, <2>4
<1> QED BY <1>1, <1>2, <1>3 DEF RowsOK

LEMMA RequestChanges ==
  ASSUME RequestsOK, NEW q \in Requests, NEW new, RequestOK(new),
         request' = [request EXCEPT ![q] = new]
  PROVE  RequestsOK' /\ request'[q] = new
         /\ \A p \in Requests \ {q} : request'[p] = request[p]
<1>1. /\ request' \in [Requests -> Request] /\ request'[q] = new
      /\ \A p \in Requests \ {q} : request'[p] = request[p]
  BY DEF RequestsOK, RequestOK
<1> QED BY <1>1 DEF RequestsOK

-----------------------------------------------------------------------------
(* What the requests of every kind are: the creation of a row, or the find *)
(* of one that is to be changed or removed.                                *)
Creating(q) ==
  /\ request[q].phase = "new"
  /\ \E r \in Rows, body \in Body :
       /\ r \in Configs => ~KeyTaken(r)
       /\ InsertRow(q, r, body)

Finding(q) ==
  \E r \in Rows, body \in Body, phase \in {"update", "remove"} :
    /\ phase = "remove" => r \in Dated
    /\ Find(q, r, phase, body)

LEMMA InsertCase ==
  ASSUME NEW q \in Requests
  PROVE  \A kind \in SUBSET Rows :
           (\A r \in kind : r \notin Configs) /\ (Insert(q, kind) \/ InsertPart(q, kind))
             => Creating(q)
  BY DEF Insert, InsertPart, Creating

LEMMA UpdateCase ==
  ASSUME NEW q \in Requests
  PROVE  \A kind \in SUBSET Rows : Update(q, kind) => Finding(q)
  BY DEF Update, Finding

LEMMA ValueBody ==
  /\ \A value \in Values : [Nothing EXCEPT !.value = value] \in Body
  /\ \A ref \in References : [Nothing EXCEPT !.reference = ref] \in Body
  BY DEF Nothing, Body

LEMMA SetValueCase ==
  ASSUME NEW q \in Requests
  PROVE  \A kind \in SUBSET Rows, values \in SUBSET Values :
           SetValue(q, kind, values) => Finding(q)
  BY ValueBody DEF SetValue, Finding

LEMMA RemoveCase ==
  ASSUME NEW q \in Requests
  PROVE  \A kind \in SUBSET Rows : kind \subseteq Dated /\ Remove(q, kind) => Finding(q)
  BY Nones DEF Remove, Finding

LEMMA PartnerCases ==
  ASSUME NEW q \in Requests, PartnerRequest(q)
  PROVE  Creating(q) \/ Finding(q)
<1>1. CASE \/ CreatePartner(q) \/ CreateAddress(q) \/ CreateContact(q)
           \/ CreateCounterparty(q) \/ CreateInteraction(q)
  <2>1. \/ Insert(q, Partners) \/ InsertPart(q, Addresses) \/ InsertPart(q, Contacts)
        \/ InsertPart(q, Counterparties) \/ InsertPart(q, Interactions)
    BY <1>1 DEF CreatePartner, CreateAddress, CreateContact, CreateCounterparty,
                CreateInteraction
  <2> QED BY <2>1, InsertCase, ConfigsApart, KindRows
<1>2. CASE \/ UpdatePartner(q) \/ UpdateAddress(q) \/ UpdateContact(q)
           \/ UpdateCounterparty(q)
  <2>1. \/ Update(q, Partners) \/ Update(q, Addresses) \/ Update(q, Contacts)
        \/ Update(q, Counterparties)
    BY <1>2 DEF UpdatePartner, UpdateAddress, UpdateContact, UpdateCounterparty
  <2> QED BY <2>1, UpdateCase, KindRows
<1>3. CASE \/ RemovePartner(q) \/ RemoveAddress(q) \/ RemoveContact(q)
           \/ RemoveCounterparty(q)
  <2>1. \/ Remove(q, Partners) \/ Remove(q, Addresses) \/ Remove(q, Contacts)
        \/ Remove(q, Counterparties)
    BY <1>3 DEF RemovePartner, RemoveAddress, RemoveContact, RemoveCounterparty
  <2>2. Partners \cup Addresses \cup Contacts \cup Counterparties \subseteq Dated
    BY DEF Dated, Unchecked, Hidden
  <2> QED BY <2>1, <2>2, RemoveCase, KindRows
<1> QED BY <1>1, <1>2, <1>3 DEF PartnerRequest

LEMMA ProductCases ==
  ASSUME NEW q \in Requests, ProductRequest(q) \/ AttributeRequest(q)
  PROVE  Creating(q) \/ Finding(q)
<1>1. CASE CreateProduct(q) \/ CreateVariant(q) \/ CreateAttribute(q)
  <2>1. Insert(q, Products) \/ InsertPart(q, Variants) \/ Insert(q, Attributes)
    BY <1>1 DEF CreateProduct, CreateVariant, CreateAttribute
  <2> QED BY <2>1, InsertCase, ConfigsApart, KindRows
<1>2. CASE UpdateProduct(q) \/ UpdateVariant(q) \/ UpdateAttribute(q)
  <2>1. Update(q, Products) \/ Update(q, Variants) \/ Update(q, Attributes)
    BY <1>2 DEF UpdateProduct, UpdateVariant, UpdateAttribute
  <2> QED BY <2>1, UpdateCase, KindRows
<1>3. CASE RemoveProduct(q) \/ RemoveVariant(q)
  <2>1. Remove(q, Products) \/ Remove(q, Variants)
    BY <1>3 DEF RemoveProduct, RemoveVariant
  <2>2. Products \cup Variants \subseteq Dated
    BY DEF Dated, Unchecked
  <2> QED BY <2>1, <2>2, RemoveCase, KindRows
<1> QED BY <1>1, <1>2, <1>3 DEF ProductRequest, AttributeRequest

LEMMA ChannelCases ==
  ASSUME NEW q \in Requests, ChannelRequest(q) \/ AccountingRequest(q)
  PROVE  Creating(q) \/ Finding(q)
<1>1. CASE CreateChannel(q) \/ CreateMapping(q) \/ CreateBook(q) \/ CreateTaxReport(q)
  <2>1. \/ Insert(q, Channels) \/ InsertPart(q, Mappings) \/ Insert(q, Books)
        \/ Insert(q, TaxReports)
    BY <1>1 DEF CreateChannel, CreateMapping, CreateBook, CreateTaxReport
  <2> QED BY <2>1, InsertCase, ConfigsApart, KindRows
<1>2. CASE UpdateChannel(q) \/ UpdateTaxReport(q)
  <2>1. Update(q, Channels) \/ Update(q, TaxReports)
    BY <1>2 DEF UpdateChannel, UpdateTaxReport
  <2> QED BY <2>1, UpdateCase, KindRows
<1> QED BY <1>1, <1>2 DEF ChannelRequest, AccountingRequest

LEMMA ConfigCases ==
  ASSUME NEW q \in Requests, ConfigRequest(q)
  PROVE  Creating(q) \/ Finding(q)
<1>1. CASE InsertConfig(q)
  BY <1>1, KindRows DEF InsertConfig, Creating
<1>2. CASE UpdateConfig(q)
  BY <1>2, KindRows DEF UpdateConfig, Finding
<1> QED BY <1>1, <1>2 DEF ConfigRequest

LEMMA MenuCases ==
  ASSUME NEW q \in Requests, MenuRequest(q) \/ WorkRequest(q)
  PROVE  Creating(q) \/ Finding(q)
<1>1. CASE \/ CreateMenuNode(q) \/ CreateBOM(q) \/ CreateQC(q) \/ CreateCustoms(q)
           \/ AddEvent(q) \/ LogAction(q)
  <2>1. \/ Insert(q, MenuNodes) \/ Insert(q, Boms) \/ Insert(q, QualityChecks)
        \/ Insert(q, Customs) \/ Insert(q, Events) \/ Insert(q, AuditEntries)
    BY <1>1 DEF CreateMenuNode, CreateBOM, CreateQC, CreateCustoms, AddEvent, LogAction
  <2> QED BY <2>1, InsertCase, ConfigsApart, KindRows
<1>2. CASE UpdateMenuNode(q) \/ UpdateQC(q)
  <2>1. Update(q, MenuNodes) \/ Update(q, QualityChecks)
    BY <1>2 DEF UpdateMenuNode, UpdateQC
  <2> QED BY <2>1, UpdateCase, KindRows
<1>3. CASE RemoveMenuNode(q)
  BY <1>3, SetValueCase, KindRows, ColumnAssumption DEF RemoveMenuNode
<1> QED BY <1>1, <1>2, <1>3 DEF MenuRequest, WorkRequest

LEMMA OrderCases ==
  ASSUME NEW q \in Requests,
         OrderRequest(q) \/ DefinitionRequest(q) \/ TenantRequest(q)
  PROVE  Creating(q) \/ Finding(q)
<1>1. CASE \/ UpdateSalesOrder(q) \/ UpdateDefinition(q) \/ UpdateNode(q)
           \/ UpdateTenant(q) \/ UpdateFlags(q)
  <2>1. \/ Update(q, SalesOrders) \/ Update(q, Definitions)
        \/ Update(q, ClassificationNodes) \/ Update(q, Tenants) \/ Update(q, Flags)
    BY <1>1 DEF UpdateSalesOrder, UpdateDefinition, UpdateNode, UpdateTenant, UpdateFlags
  <2> QED BY <2>1, UpdateCase, KindRows
<1>2. CASE \/ RemoveSalesOrder(q) \/ RemovePurchaseOrder(q) \/ RemoveDefinition(q)
           \/ RemoveTenant(q)
  <2>1. \/ Remove(q, SalesOrders) \/ Remove(q, PurchaseOrders) \/ Remove(q, Definitions)
        \/ Remove(q, Tenants)
    BY <1>2 DEF RemoveSalesOrder, RemovePurchaseOrder, RemoveDefinition, RemoveTenant
  <2>2. SalesOrders \cup PurchaseOrders \cup Definitions \cup Tenants \subseteq Dated
    BY DEF Dated, Unchecked
  <2> QED BY <2>1, <2>2, RemoveCase, KindRows
<1>3. CASE UpdateStatus(q)
  BY <1>3, SetValueCase, KindRows DEF UpdateStatus
<1>4. CASE Login(q)
  BY <1>4, ValueBody, KindRows DEF Login, Finding
<1> QED BY <1>1, <1>2, <1>3, <1>4 DEF OrderRequest, DefinitionRequest, TenantRequest

LEMMA NextCases ==
  ASSUME Next
  PROVE  \/ \E q \in Requests :
              \/ Creating(q) \/ Finding(q) \/ LookUpParent(q) \/ Answer(q)
              \/ FlushItem(q) \/ FindNext(q) \/ FindNoMore(q) \/ Break(q)
         \/ \E r \in Erased : Erase(r)
         \/ SeedMenu
<1>1. ASSUME NEW q \in Requests,
             \/ PartnerRequest(q) \/ ProductRequest(q) \/ AttributeRequest(q)
             \/ ChannelRequest(q) \/ AccountingRequest(q) \/ ConfigRequest(q)
             \/ MenuRequest(q) \/ WorkRequest(q) \/ OrderRequest(q)
             \/ DefinitionRequest(q) \/ TenantRequest(q)
      PROVE  Creating(q) \/ Finding(q)
  BY <1>1, PartnerCases, ProductCases, ChannelCases, ConfigCases, MenuCases, OrderCases
<1> QED BY <1>1 DEF Next

-----------------------------------------------------------------------------
(* What a flush leaves.                                                    *)

(* What an UPDATE of the columns that differ makes of a row, one column    *)
(* after the other.                                                        *)
Merged(set, seen, now) ==
  [state |-> IF set.state # seen.state THEN set.state ELSE now.state,
   value |-> IF set.value # seen.value THEN set.value ELSE now.value,
   reference |-> IF set.reference # seen.reference THEN set.reference ELSE now.reference,
   deletedAt |-> IF set.deletedAt # seen.deletedAt THEN set.deletedAt ELSE now.deletedAt]

LEMMA WrittenColumns ==
  ASSUME NEW r \in Rows \ Flags, row[r] \in Row, NEW seen \in Row, NEW set \in Row
  PROVE  Written(r, seen, set) = Merged(set, seen, row[r])
  BY DEF Written, Merged, Row

LEMMA WrittenOK ==
  ASSUME NEW r \in Rows, FoundOK(r, row[r]), NEW seen, FoundOK(r, seen),
         NEW set, FoundOK(r, set)
  PROVE  FoundOK(r, Written(r, seen, set))
<1>1. CASE r \in Flags
  BY <1>1 DEF Written
<1>2. CASE r \notin Flags
  <2>1. row[r] \in Row /\ seen \in Row /\ set \in Row
    BY DEF FoundOK, RowOK
  <2>2. Written(r, seen, set) = Merged(set, seen, row[r])
    BY <1>2, <2>1, WrittenColumns
  <2>3. FoundOK(r, Merged(set, seen, row[r]))
    BY DEF Merged, FoundOK, RowOK, Row
  <2> QED BY <2>2, <2>3
<1> QED BY <1>1, <1>2

(* A request that is running has found its row.                            *)
LEMMA RunningFound ==
  ASSUME Inv, NEW q \in Requests, Running(q)
  PROVE  /\ request[q] \in Request /\ request[q].body \in Body
         /\ request[q].of \in Rows /\ Fits(request[q].of, request[q].body)
         /\ FoundOK(request[q].of, request[q].seen)
         /\ request[q].of \in Hidden => request[q].seen.deletedAt = None
         /\ request[q].phase = "remove" => request[q].of \in Dated
<1>1. RequestOK(request[q])
  BY DEF Inv, RequestsOK
<1> QED BY <1>1 DEF RequestOK, Running, Request

(* What an update assigns, column by column.                               *)
LEMMA AssignedColumns ==
  ASSUME Inv, NEW q \in Requests, Running(q), request[q].phase = "update"
  PROVE  LET r == request[q].of
             seen == request[q].seen
             body == request[q].body
         IN /\ FoundOK(r, Assigned(q))
            /\ Assigned(q).deletedAt = IF body.deletedAt = Unnamed THEN seen.deletedAt
                                       ELSE body.deletedAt
            /\ Assigned(q).value = IF body.value = Unnamed THEN seen.value ELSE body.value
            /\ Assigned(q).reference = AssignedReference(r, body, seen)
<1>1. request[q].seen \in Row
  BY RunningFound DEF FoundOK, RowOK
<1>2. Assigned(q) = [request[q].seen EXCEPT
         !.reference = AssignedReference(request[q].of, request[q].body, request[q].seen),
         !.value = IF request[q].body.value = Unnamed THEN request[q].seen.value
                   ELSE request[q].body.value,
         !.deletedAt = IF request[q].body.deletedAt = Unnamed
                         THEN request[q].seen.deletedAt ELSE request[q].body.deletedAt]
  BY DEF Assigned
<1>3. AssignedReference(request[q].of, request[q].body, request[q].seen)
        \in References \cup {None}
  BY <1>1, RunningFound DEF AssignedReference, Row, Body
<1>4. AssignedReference(request[q].of, request[q].body, request[q].seen) # None
        => request[q].of \in HasReference
  BY RunningFound DEF AssignedReference, FoundOK, RowOK, Fits
<1>5. (IF request[q].body.value = Unnamed THEN request[q].seen.value
       ELSE request[q].body.value) \in Values \cup {None}
  BY <1>1, RunningFound DEF Row, Body
<1>6. PICK date : date = IF request[q].body.deletedAt = Unnamed
                           THEN request[q].seen.deletedAt ELSE request[q].body.deletedAt
  OBVIOUS
<1>7. date \in Requests \cup Dates \cup {None}
  BY <1>1, <1>6, RunningFound DEF Row, Body
<1>8. date # None => request[q].of \in Dated
  BY <1>6, RunningFound DEF FoundOK, RowOK, Fits, Dated
<1> HIDE DEF Assigned
<1> QED BY <1>1, <1>2, <1>3, <1>4, <1>5, <1>6, <1>7, <1>8, RunningFound
        DEF FoundOK, RowOK, Row

LEMMA AssignedOK ==
  ASSUME Inv, NEW q \in Requests, Running(q)
  PROVE  FoundOK(request[q].of, Assigned(q))
<1>1. CASE request[q].phase = "update"
  BY <1>1, AssignedColumns
<1>2. CASE request[q].phase = "remove"
  <2>1. Assigned(q) = [request[q].seen EXCEPT !.deletedAt = q]
    BY <1>2 DEF Assigned
  <2> QED BY <1>2, <2>1, RunningFound DEF FoundOK, RowOK, Row
<1> QED BY <1>1, <1>2 DEF Running

LEMMA LookedUpOK ==
  ASSUME Inv, NEW q \in Requests, LooksUpParent(q)
  PROVE  /\ Running(q)
         /\ FoundOK(request[q].of, [request[q].seen EXCEPT !.value = request[q].body.value])
<1>1. Running(q)
  BY DEF LooksUpParent, Running
<1> QED BY <1>1, RunningFound DEF LooksUpParent, FoundOK, RowOK, Row, Body

(* The request after that. *)
LEMMA LookedUpRequest ==
  ASSUME Inv, NEW q \in Requests, LooksUpParent(q), NEW set,
         set = [request[q].seen EXCEPT !.value = request[q].body.value],
         NEW new, new = [request[q] EXCEPT !.seen = set, !.body.value = Unnamed]
  PROVE  RequestOK(new)
<1>1. /\ Running(q) /\ FoundOK(request[q].of, set)
      /\ request[q] \in Request /\ request[q].body \in Body
      /\ request[q].of \in Rows /\ Fits(request[q].of, request[q].body)
      /\ request[q].seen \in Row
      /\ request[q].of \in Hidden => request[q].seen.deletedAt = None
  BY LookedUpOK, RunningFound DEF FoundOK, RowOK
<1>2. PICK body : body = [request[q].body EXCEPT !.value = Unnamed]
  OBVIOUS
<1>3. body \in Body /\ Fits(request[q].of, body)
  BY <1>1, <1>2 DEF Body, Fits
<1>4. set.deletedAt = request[q].seen.deletedAt
  BY <1>1 DEF Row
<1>5. new = [request[q] EXCEPT !.seen = set, !.body = body]
  BY <1>2
<1>6. /\ new.phase = "update" /\ new.of = request[q].of
      /\ new.seen = set /\ new.body = body
      /\ new \in Request
  BY <1>1, <1>3, <1>5 DEF LooksUpParent, Request, FoundOK, RowOK
<1> QED BY <1>1, <1>3, <1>4, <1>6 DEF RequestOK

LEMMA FlushOK ==
  ASSUME Inv, NEW q \in Requests, Running(q), NEW set, FoundOK(request[q].of, set),
         Flush(q, set)
  PROVE  LET r == request[q].of IN
         /\ RowsOK'
         /\ row' \in [Rows -> Row]
         /\ \A other \in Rows \ {r} : row'[other] = row[other]
         /\ There(r) => /\ FoundOK(r, row[r])
                        /\ row'[r] = Written(r, request[q].seen, set)
         /\ ~There(r) => row' = row
<1> DEFINE r == request[q].of
           new == Written(r, request[q].seen, set)
<1>1. r \in Rows /\ FoundOK(r, request[q].seen)
  BY RunningFound
<1>2. CASE There(r)
  <2>1. FoundOK(r, row[r])
    BY <1>1, <1>2 DEF Inv, RowsOK, FoundOK, There
  <2>2. FoundOK(r, new)
    BY <1>1, <2>1, WrittenOK
  <2>3. row' = [row EXCEPT ![r] = new]
    BY <1>2 DEF Flush
  <2>4. RowsOK'
    <3> HIDE DEF r, new
    <3> QED BY <1>1, <1>2, <2>2, <2>3, RowChanges DEF Inv, FoundOK
  <2> QED BY <1>1, <1>2, <2>1, <2>3, <2>4 DEF Inv, RowsOK
<1>3. CASE ~There(r)
  <2>1. row' = row
    BY <1>3 DEF Flush
  <2> QED BY <1>3, <2>1 DEF Inv, RowsOK, RowOK, OneRowPerKey, There
<1> QED BY <1>2, <1>3

-----------------------------------------------------------------------------
(* Every step keeps Inv.                                                   *)
LEMMA InitInv == Init => Inv
<1> SUFFICES ASSUME Init PROVE Inv
  OBVIOUS
<1>1. \A r \in Rows : RowOK(r, Absent)
  BY Nones DEF RowOK, Absent
<1>2. \A r \in Rows : RowOK(r, row[r])
  BY <1>1, EarlierOK DEF Init
<1>3. row \in [Rows -> Row]
  BY <1>2 DEF Init, RowOK
<1>4. \A r \in Rows : There(r) => r \in Present
  BY DEF Init, There, Absent
<1>5. OneRowPerKey
  BY <1>4, KindRows, KindAssumption DEF OneRowPerKey
<1>6. RequestsOK
  BY Nones DEF Init, RequestsOK, RequestOK, Idle
<1> QED BY <1>2, <1>3, <1>5, <1>6 DEF Inv, RowsOK

LEMMA RestInv == ASSUME Inv, UNCHANGED vars PROVE Inv'
  BY DEF vars, Inv, RowsOK, RequestsOK, OneRowPerKey, There

(* Where the rows do not change.                                           *)
LEMMA QuietRows == ASSUME RowsOK, row' = row PROVE RowsOK'
  BY DEF RowsOK, OneRowPerKey, There
LEMMA QuietRequests == ASSUME RequestsOK, request' = request PROVE RequestsOK'
  BY DEF RequestsOK

LEMMA CreatingInv ==
  ASSUME Inv, NEW q \in Requests, Creating(q)
  PROVE  Inv'
<1>1. PICK r \in Rows, body \in Body :
        (r \in Configs => ~KeyTaken(r)) /\ InsertRow(q, r, body)
  BY DEF Creating
<1>2. PICK new : new = [Absent EXCEPT !.state = "there", !.value = body.value,
          !.reference = Given(body.reference), !.deletedAt = Given(body.deletedAt)]
  OBVIOUS
<1>3. /\ new = [state |-> "there", value |-> body.value,
                reference |-> Given(body.reference), deletedAt |-> Given(body.deletedAt)]
      /\ body.value \in Values
  BY <1>1, <1>2 DEF InsertRow, Absent, Body
<1>4. /\ Given(body.reference) \in References \cup {None}
      /\ Given(body.reference) # None => r \in HasReference
  BY <1>1 DEF InsertRow, Fits, Given, Body
<1>5. /\ Given(body.deletedAt) \in Requests \cup Dates \cup {None}
      /\ Given(body.deletedAt) # None => r \in Dated
  BY <1>1 DEF InsertRow, Fits, Given, Body, Dated
<1>6. RowOK(r, new)
  BY <1>3, <1>4, <1>5 DEF RowOK, Row
<1>7. row' = [row EXCEPT ![r] = new]
  BY <1>1, <1>2 DEF InsertRow
<1>8. RowsOK'
  BY <1>1, <1>6, <1>7, RowChanges DEF Inv
<1>9. RequestsOK'
  BY <1>1, IdleOK, RequestChanges DEF InsertRow, Inv
<1> QED BY <1>8, <1>9 DEF Inv

LEMMA FoundRequestOK ==
  ASSUME Inv, NEW r \in Rows, Findable(r), NEW phase \in {"update", "remove"},
         NEW body \in Body, Fits(r, body), phase = "remove" => r \in Dated
  PROVE  RequestOK([phase |-> phase, of |-> r, seen |-> row[r], body |-> body])
<1>1. FoundOK(r, row[r]) /\ (r \in Hidden => row[r].deletedAt = None)
  BY DEF Findable, Inv, RowsOK, FoundOK, There
<1> QED BY <1>1 DEF RequestOK, Request, FoundOK, RowOK

LEMMA FindingInv ==
  ASSUME Inv, NEW q \in Requests, Finding(q)
  PROVE  Inv'
<1>1. PICK r \in Rows, body \in Body, phase \in {"update", "remove"} :
        (phase = "remove" => r \in Dated) /\ Find(q, r, phase, body)
  BY DEF Finding
<1>2. RequestOK([phase |-> phase, of |-> r, seen |-> row[r], body |-> body])
  BY <1>1, FoundRequestOK DEF Find
<1>3. RequestsOK'
  BY <1>1, <1>2, RequestChanges DEF Inv, Find
<1> QED BY <1>1, <1>3, QuietRows DEF Inv, Find

LEMMA LookUpParentInv ==
  ASSUME Inv, NEW q \in Requests, LookUpParent(q)
  PROVE  Inv'
<1>1. PICK set : set = [request[q].seen EXCEPT !.value = request[q].body.value]
  OBVIOUS
<1>2. Running(q) /\ FoundOK(request[q].of, set) /\ Flush(q, set)
  BY <1>1, LookedUpOK DEF LookUpParent
<1>3. RowsOK'
  BY <1>2, FlushOK
<1>4. PICK new : new = [request[q] EXCEPT !.seen = set, !.body.value = Unnamed]
  OBVIOUS
<1>5. RequestOK(new)
  BY ZenonT(60), <1>1, <1>4, LookedUpRequest DEF LookUpParent
<1>6. request' = [request EXCEPT ![q] = new]
  BY <1>1, <1>4 DEF LookUpParent, Inv, RequestsOK
<1>7. RequestsOK'
  BY <1>5, <1>6, RequestChanges DEF Inv
<1> QED BY <1>3, <1>7 DEF Inv

LEMMA AnswerInv ==
  ASSUME Inv, NEW q \in Requests, Answer(q)
  PROVE  Inv'
<1>1. Running(q) /\ Flush(q, Assigned(q))
  BY DEF Answer
<1>2. RowsOK'
  BY <1>1, AssignedOK, FlushOK
<1>3. RequestsOK'
  BY IdleOK, RequestChanges DEF Answer, Inv
<1> QED BY <1>2, <1>3 DEF Inv

LEMMA FlushItemInv ==
  ASSUME Inv, NEW q \in Requests, FlushItem(q)
  PROVE  Inv'
<1>1. Running(q) /\ Flush(q, Assigned(q))
  BY DEF FlushItem, Running
<1>2. RowsOK'
  BY <1>1, AssignedOK, FlushOK
<1>3. RequestOK([Idle EXCEPT !.phase = "next", !.of = request[q].of])
  BY <1>1, RunningFound, Nones DEF RequestOK, Request, Idle
<1>4. RequestsOK'
  BY <1>3, RequestChanges DEF FlushItem, Inv
<1> QED BY <1>2, <1>4 DEF Inv

LEMMA FindNextInv ==
  ASSUME Inv, NEW q \in Requests, FindNext(q)
  PROVE  Inv'
<1>1. PICK r \in Rows, value \in Values :
         /\ Findable(r)
         /\ request' = [request EXCEPT ![q] =
              [phase |-> "update", of |-> r, seen |-> row[r],
               body |-> [Nothing EXCEPT !.value = value]]]
  BY ListedApart DEF FindNext, Findable
<1>2. [Nothing EXCEPT !.value = value] \in Body /\ Fits(r, [Nothing EXCEPT !.value = value])
  BY ValueBody DEF Fits, Nothing
<1>3. RequestOK([phase |-> "update", of |-> r, seen |-> row[r],
                 body |-> [Nothing EXCEPT !.value = value]])
  BY <1>1, <1>2, FoundRequestOK
<1>4. RequestsOK'
  BY <1>1, <1>3, RequestChanges DEF Inv
<1> QED BY <1>4, QuietRows DEF Inv, FindNext

LEMMA EndInv ==
  ASSUME Inv, NEW q \in Requests, FindNoMore(q) \/ Break(q)
  PROVE  Inv'
<1>1. row' = row
  BY DEF FindNoMore, Break
<1>2. RequestsOK'
  BY IdleOK, RequestChanges DEF FindNoMore, Break, Inv
<1> QED BY <1>1, <1>2, QuietRows DEF Inv

LEMMA EraseInv ==
  ASSUME Inv, NEW r \in Erased, Erase(r)
  PROVE  Inv'
<1>1. r \in Rows
  BY KindRows DEF Erased
<1>2. RowOK(r, [Absent EXCEPT !.state = "erased"])
  BY Nones DEF RowOK, Absent, Row
<1>3. RowsOK'
  BY <1>1, <1>2, RowChanges DEF Inv, Erase, Absent
<1> QED BY <1>3, QuietRequests DEF Inv, Erase

LEMMA SeedMenuInv ==
  ASSUME Inv, SeedMenu
  PROVE  Inv'
<1>1. \A r \in Rows : row'[r] = IF r \in SeededNodes THEN Earlier(r) ELSE row[r]
  BY DEF SeedMenu
<1>2. \A r \in Rows : RowOK(r, row'[r])
  BY <1>1, EarlierOK DEF Inv, RowsOK
<1>3. row' \in [Rows -> Row]
  BY <1>1, <1>2 DEF SeedMenu, RowOK
<1>4. \A c \in Configs : row'[c] = row[c]
  BY <1>1, ConfigsApart, KindRows, ColumnAssumption
<1>5. OneRowPerKey'
  BY <1>4 DEF OneRowPerKey, Inv, RowsOK, There
<1> QED BY <1>2, <1>3, <1>5, QuietRequests DEF Inv, RowsOK, SeedMenu

LEMMA NextInv == ASSUME Inv, [Next]_vars PROVE Inv'
<1>1. CASE Next
  BY <1>1, NextCases, CreatingInv, FindingInv, LookUpParentInv, AnswerInv, FlushItemInv,
     FindNextInv, EndInv, EraseInv, SeedMenuInv
<1>2. CASE UNCHANGED vars
  BY <1>2, RestInv
<1> QED BY <1>1, <1>2

LEMMA InvHolds == Spec => []Inv
<1>1. Inv /\ [Next]_vars => Inv'
  BY NextInv
<1> QED BY <1>1, InitInv, PTL DEF Spec

(* Rows are of their kinds: only who can be removed has a date, only who   *)
(* refers to something has a reference, what was deleted from the table is *)
(* empty, and no two configurations that are there have the same key.      *)
THEOREM TypeCorrect == Spec => []TypeOK
  BY InvHolds, InvTypes, PTL

-----------------------------------------------------------------------------
(* Where requests do not overlap: one request at a time is about a row,    *)
(* and what it has found is what is there.                                 *)
Alone(q) ==
  request[q].of \in Serial =>
    /\ Running(q) =>
         /\ row[request[q].of] = request[q].seen
         /\ request[q].of \in Hidden => request[q].seen.deletedAt = None
    /\ \A p \in Requests : request[p].of = request[q].of => p = q

SerialInv == \A q \in Requests : Alone(q)

LEMMA SerialNone == None \notin Serial /\ Serial \subseteq Rows
  BY ColumnAssumption DEF Serial

(* One request goes on, and changes no row that another one, without       *)
(* overlap, has found.                                                     *)
LEMMA SerialStep ==
  ASSUME Inv, SerialInv, NEW q \in Requests, NEW new, RequestOK(new),
         request' = [request EXCEPT ![q] = new],
         new.of \in Serial =>
           \A p \in Requests \ {q} : request[p].of # new.of,
         new.of \in Serial /\ new.phase \in {"update", "remove"} =>
           /\ row'[new.of] = new.seen
           /\ new.of \in Hidden => new.seen.deletedAt = None,
         \A p \in Requests \ {q} : Running(p) /\ request[p].of \in Serial =>
           row'[request[p].of] = row[request[p].of]
  PROVE  SerialInv'
<1>1. request'[q] = new /\ \A p \in Requests \ {q} : request'[p] = request[p]
  BY RequestChanges DEF Inv
<1>2. ASSUME NEW p \in Requests, request'[p].of \in Serial, Running(p)'
      PROVE  /\ row'[request'[p].of] = request'[p].seen
             /\ request'[p].of \in Hidden => request'[p].seen.deletedAt = None
  <2>1. CASE p = q
    BY <1>1, <1>2, <2>1 DEF Running
  <2>2. CASE p # q
    BY <1>1, <1>2, <2>2 DEF Running, SerialInv, Alone
  <2> QED BY <2>1, <2>2
<1>3. ASSUME NEW p \in Requests, request'[p].of \in Serial, NEW o \in Requests,
             request'[o].of = request'[p].of
      PROVE  o = p
  <2>1. CASE p = q
    BY <1>1, <1>3, <2>1
  <2>2. CASE p # q /\ o = q
    BY <1>1, <1>3, <2>2
  <2>3. CASE p # q /\ o # q
    BY <1>1, <1>3, <2>3 DEF SerialInv, Alone
  <2> QED BY <2>1, <2>2, <2>3
<1> QED BY <1>2, <1>3 DEF SerialInv, Alone

(* What is found in a row without overlap, is there.                       *)
LEMMA SerialFound ==
  ASSUME Inv, SerialInv, NEW q \in Requests, Running(q), request[q].of \in Serial
  PROVE  /\ There(request[q].of) /\ row[request[q].of] = request[q].seen
         /\ request[q].of \in Hidden => request[q].seen.deletedAt = None
  BY RunningFound DEF SerialInv, Alone, FoundOK, There

LEMMA SerialOthers ==
  ASSUME Inv, SerialInv, NEW q \in Requests, request[q].of \in Serial,
         NEW p \in Requests \ {q}
  PROVE  request[p].of # request[q].of
  BY DEF SerialInv, Alone

(* Alone with its row, a request writes all that it assigns.               *)
LEMMA WrittenAlone ==
  ASSUME NEW r \in Rows, NEW set \in Row, row[r] \in Row
  PROVE  Written(r, row[r], set) = set
<1>1. CASE r \in Flags
  BY <1>1 DEF Written
<1>2. CASE r \notin Flags
  <2>1. Written(r, row[r], set) = Merged(set, row[r], row[r])
    BY <1>2, WrittenColumns
  <2>2. Merged(set, row[r], row[r]) =
          [state |-> set.state, value |-> set.value, reference |-> set.reference,
           deletedAt |-> set.deletedAt]
    BY DEF Merged
  <2>3. set = [state |-> set.state, value |-> set.value, reference |-> set.reference,
               deletedAt |-> set.deletedAt]
    BY DEF Row
  <2> QED BY <2>1, <2>2, <2>3
<1> QED BY <1>1, <1>2

(* A flush leaves the rows that others, without overlap, have found.       *)
LEMMA FlushElsewhere ==
  ASSUME Inv, SerialInv, NEW q \in Requests, Running(q), NEW set,
         FoundOK(request[q].of, set), Flush(q, set)
  PROVE  \A p \in Requests \ {q} : Running(p) /\ request[p].of \in Serial =>
           row'[request[p].of] = row[request[p].of]
<1>1. \A other \in Rows \ {request[q].of} : row'[other] = row[other]
  BY FlushOK
<1> SUFFICES ASSUME NEW p \in Requests \ {q}, Running(p), request[p].of \in Serial
             PROVE  row'[request[p].of] = row[request[p].of]
  OBVIOUS
<1>2. request[q].of # request[p].of
  BY SerialOthers
<1> QED BY <1>1, <1>2, SerialNone

LEMMA InitSerial == Init => SerialInv
  BY SerialNone DEF Init, SerialInv, Alone, Idle

LEMMA IdleSerial ==
  ASSUME Inv, SerialInv, NEW q \in Requests, NEW phase \in {"done", "failed"},
         request' = [request EXCEPT ![q] = [Idle EXCEPT !.phase = phase]],
         \A p \in Requests \ {q} : Running(p) /\ request[p].of \in Serial =>
           row'[request[p].of] = row[request[p].of]
  PROVE  SerialInv'
<1>1. PICK new : new = [Idle EXCEPT !.phase = phase]
  OBVIOUS
<1>2. RequestOK(new) /\ new.of \notin Serial
  BY <1>1, IdleOK, SerialNone DEF Idle
<1> QED BY <1>1, <1>2, SerialStep

LEMMA CreatingSerial ==
  ASSUME Inv, SerialInv, NEW q \in Requests, Creating(q)
  PROVE  SerialInv'
<1>1. PICK r \in Rows, body \in Body : InsertRow(q, r, body)
  BY DEF Creating
<1>2. \A s \in Rows : row[s].state = "there" => row'[s] = row[s]
  BY <1>1 DEF InsertRow, Absent, Inv, RowsOK
<1>3. \A p \in Requests \ {q} : Running(p) /\ request[p].of \in Serial =>
        row'[request[p].of] = row[request[p].of]
  BY <1>2, SerialFound, SerialNone DEF There
<1> QED BY <1>1, <1>3, IdleSerial DEF InsertRow

LEMMA FindingSerial ==
  ASSUME Inv, SerialInv, NEW q \in Requests, Finding(q)
  PROVE  SerialInv'
<1>1. PICK r \in Rows, body \in Body, phase \in {"update", "remove"} :
        (phase = "remove" => r \in Dated) /\ Find(q, r, phase, body)
  BY DEF Finding
<1>2. PICK new : new = [phase |-> phase, of |-> r, seen |-> row[r], body |-> body]
  OBVIOUS
<1>3. RequestOK(new)
  BY <1>1, <1>2, FoundRequestOK DEF Find
<1>4. request' = [request EXCEPT ![q] = new] /\ row' = row
  BY <1>1, <1>2 DEF Find
<1>5. new.of = r /\ new.seen = row[r]
  BY <1>2
<1>6. r \in Serial => \A p \in Requests : request[p].of # r
  BY <1>1 DEF Find, MayStart
<1>7. r \in Hidden => row[r].deletedAt = None
  BY <1>1 DEF Find, Findable
<1> QED BY <1>3, <1>4, <1>5, <1>6, <1>7, SerialStep

LEMMA LookUpParentSerial ==
  ASSUME Inv, SerialInv, NEW q \in Requests, LookUpParent(q)
  PROVE  SerialInv'
<1>1. PICK set : set = [request[q].seen EXCEPT !.value = request[q].body.value]
  OBVIOUS
<1>2. Running(q) /\ FoundOK(request[q].of, set) /\ Flush(q, set)
  BY <1>1, LookedUpOK DEF LookUpParent
<1>3. PICK new : new = [request[q] EXCEPT !.seen = set, !.body.value = Unnamed]
  OBVIOUS
<1>4. RequestOK(new) /\ new.of = request[q].of /\ new.seen = set
  <2>1. LooksUpParent(q)
    BY DEF LookUpParent
  <2>2. RequestOK(new)
    BY ZenonT(60), <1>1, <1>3, <2>1, LookedUpRequest
  <2>3. new.of = request[q].of /\ new.seen = set
    BY <1>2, <1>3, RunningFound DEF Request
  <2> QED BY <2>2, <2>3
<1>5. request' = [request EXCEPT ![q] = new]
  BY <1>1, <1>3 DEF LookUpParent, Inv, RequestsOK
<1>6. ASSUME request[q].of \in Serial
      PROVE  /\ row'[request[q].of] = set
             /\ request[q].of \in Hidden => set.deletedAt = None
  <2>1. /\ There(request[q].of) /\ row[request[q].of] = request[q].seen
        /\ request[q].of \in Hidden => request[q].seen.deletedAt = None
    BY <1>2, <1>6, SerialFound
  <2>2. row'[request[q].of] = Written(request[q].of, request[q].seen, set)
    BY <1>2, <2>1, FlushOK
  <2>3. Written(request[q].of, row[request[q].of], set) = set
    BY <1>2, <2>1, RunningFound, WrittenAlone DEF FoundOK, RowOK
  <2>4. set.deletedAt = request[q].seen.deletedAt
    BY <1>1
  <2> QED BY <2>1, <2>2, <2>3, <2>4
<1>7. \A p \in Requests \ {q} : Running(p) /\ request[p].of \in Serial =>
        row'[request[p].of] = row[request[p].of]
  BY <1>2, FlushElsewhere
<1> QED BY <1>4, <1>5, <1>6, <1>7, SerialOthers, SerialStep

LEMMA AnswerSerial ==
  ASSUME Inv, SerialInv, NEW q \in Requests, Answer(q)
  PROVE  SerialInv'
<1>1. Running(q) /\ Flush(q, Assigned(q))
  BY DEF Answer
<1>2. \A p \in Requests \ {q} : Running(p) /\ request[p].of \in Serial =>
        row'[request[p].of] = row[request[p].of]
  BY <1>1, AssignedOK, FlushElsewhere
<1> QED BY <1>2, IdleSerial DEF Answer

LEMMA FlushItemSerial ==
  ASSUME Inv, SerialInv, NEW q \in Requests, FlushItem(q)
  PROVE  SerialInv'
<1>1. Running(q) /\ Flush(q, Assigned(q))
  BY DEF FlushItem, Running
<1>2. \A p \in Requests \ {q} : Running(p) /\ request[p].of \in Serial =>
        row'[request[p].of] = row[request[p].of]
  BY <1>1, AssignedOK, FlushElsewhere
<1>3. PICK new : new = [Idle EXCEPT !.phase = "next", !.of = request[q].of]
  OBVIOUS
<1>4. RequestOK(new) /\ new.of = request[q].of /\ new.phase = "next"
  BY <1>1, <1>3, RunningFound, Nones DEF RequestOK, Request, Idle
<1>5. request' = [request EXCEPT ![q] = new]
  BY <1>3 DEF FlushItem
<1> QED BY <1>2, <1>4, <1>5, SerialOthers, SerialStep

LEMMA FindNextSerial ==
  ASSUME Inv, SerialInv, NEW q \in Requests, FindNext(q)
  PROVE  SerialInv'
<1>1. PICK r \in Rows, value \in Values :
         /\ Findable(r) /\ MayStart(r) /\ r \notin Hidden
         /\ request' = [request EXCEPT ![q] =
              [phase |-> "update", of |-> r, seen |-> row[r],
               body |-> [Nothing EXCEPT !.value = value]]]
  BY ListedApart DEF FindNext, Findable
<1>2. PICK new : new = [phase |-> "update", of |-> r, seen |-> row[r],
                        body |-> [Nothing EXCEPT !.value = value]]
  OBVIOUS
<1>3. [Nothing EXCEPT !.value = value] \in Body /\ Fits(r, [Nothing EXCEPT !.value = value])
  BY ValueBody DEF Fits, Nothing
<1>4. RequestOK(new)
  BY <1>1, <1>2, <1>3, FoundRequestOK
<1>5. new.of = r /\ new.seen = row[r]
  BY <1>2
<1>6. request' = [request EXCEPT ![q] = new] /\ row' = row
  BY <1>1, <1>2 DEF FindNext
<1> QED BY <1>1, <1>4, <1>5, <1>6, SerialStep DEF MayStart

LEMMA EndSerial ==
  ASSUME Inv, SerialInv, NEW q \in Requests, FindNoMore(q) \/ Break(q)
  PROVE  SerialInv'
  BY IdleSerial DEF FindNoMore, Break

(* The requests rest, and so do the rows that they have found.             *)
LEMMA RowsSerial ==
  ASSUME Inv, SerialInv, request' = request,
         \A q \in Requests : Running(q) /\ request[q].of \in Serial =>
           row'[request[q].of] = row[request[q].of]
  PROVE  SerialInv'
  BY DEF SerialInv, Alone, Running

LEMMA EraseSerial ==
  ASSUME Inv, SerialInv, NEW r \in Erased, Erase(r)
  PROVE  SerialInv'
<1>1. \A s \in Rows \ {r} : row'[s] = row[s]
  BY DEF Erase, Inv, RowsOK
<1>2. \A q \in Requests : request[q].of \in Serial => request[q].of # r
  BY DEF Erase, MayStart
<1> QED BY <1>1, <1>2, SerialNone, RowsSerial DEF Erase

LEMMA SeedMenuSerial ==
  ASSUME Inv, SerialInv, SeedMenu
  PROVE  SerialInv'
<1>1. \A r \in Rows : row[r].state = "there" => row'[r] = row[r]
  BY ColumnAssumption DEF SeedMenu, Absent
<1> QED BY <1>1, SerialFound, SerialNone, RowsSerial DEF There, SeedMenu

LEMMA NextSerial == ASSUME Inv, SerialInv, [Next]_vars PROVE SerialInv'
<1>1. CASE Next
  BY <1>1, NextCases, CreatingSerial, FindingSerial, LookUpParentSerial, AnswerSerial,
     FlushItemSerial, FindNextSerial, EndSerial, EraseSerial, SeedMenuSerial
<1>2. CASE UNCHANGED vars
  BY <1>2 DEF vars, SerialInv, Alone, Running
<1> QED BY <1>1, <1>2

LEMMA SerialHolds == Spec => []SerialInv
<1>1. Inv /\ SerialInv /\ [Next]_vars => SerialInv'
  BY NextSerial
<1> QED BY <1>1, InitSerial, InvHolds, PTL DEF Spec

-----------------------------------------------------------------------------
(* What was removed stays removed.                                         *)
Kept(r) ==
  /\ row[r].state = "erased" => row'[r] = row[r]
  /\ row[r].deletedAt # None =>
       /\ \/ row'[r].deletedAt # None
          \/ r \in Unchecked \ Hidden /\ \E q \in Requests : Revives(q, r)
       /\ r \in Hidden \cap Serial => row'[r] = row[r]

LEMMA FreshKept ==
  ASSUME \A r \in Rows : row[r] # Absent => row'[r] = row[r]
  PROVE  \A r \in Rows : Kept(r)
  BY DEF Kept, Absent

LEMMA FlushKept ==
  ASSUME Inv, SerialInv, NEW q \in Requests, Running(q), NEW set,
         FoundOK(request[q].of, set), Flush(q, set),
         set.deletedAt = None /\ request[q].seen.deletedAt # None =>
           request[q].of \in Unchecked \ Hidden /\ Revives(q, request[q].of)
  PROVE  \A r \in Rows : Kept(r)
<1>1. PICK o : o = request[q].of
  OBVIOUS
<1>2. /\ \A other \in Rows \ {o} : row'[other] = row[other]
      /\ There(o) => /\ FoundOK(o, row[o])
                     /\ row'[o] = Written(o, request[q].seen, set)
      /\ ~There(o) => row' = row
  BY <1>1, FlushOK
<1>3. o \in Rows /\ FoundOK(o, request[q].seen) /\ FoundOK(o, set)
  BY <1>1, RunningFound
<1>4. ASSUME There(o) PROVE Kept(o)
  <2>1. row[o].state # "erased"
    BY <1>4 DEF There
  <2>2. ASSUME row[o].deletedAt # None
        PROVE  \/ row'[o].deletedAt # None
               \/ o \in Unchecked \ Hidden /\ Revives(q, o)
    <3>1. o \in Dated /\ o \notin Flags
      BY <1>2, <1>4, <2>2, FlagsApart DEF FoundOK, RowOK
    <3>2. row'[o] = Merged(set, request[q].seen, row[o])
      BY <1>2, <1>3, <1>4, <3>1, WrittenColumns DEF FoundOK, RowOK
    <3> QED BY <1>1, <2>2, <3>2 DEF Merged
  <2>3. ASSUME row[o].deletedAt # None, o \in Hidden \cap Serial PROVE row'[o] = row[o]
    BY <1>1, <2>3, SerialFound
  <2> QED BY <2>1, <2>2, <2>3 DEF Kept
<1> QED BY <1>2, <1>4 DEF Kept

LEMMA RemovalStep ==
  ASSUME Inv, SerialInv, [Next]_vars
  PROVE  \A r \in Rows : Kept(r)
<1>1. CASE row' = row
  BY <1>1 DEF Kept
<1>2. ASSUME NEW q \in Requests, Creating(q) PROVE \A r \in Rows : Kept(r)
  BY <1>2, FreshKept DEF Creating, InsertRow, Inv, RowsOK
<1>3. ASSUME NEW q \in Requests, LookUpParent(q) PROVE \A r \in Rows : Kept(r)
  <2>1. PICK set : set = [request[q].seen EXCEPT !.value = request[q].body.value]
    OBVIOUS
  <2>2. Running(q) /\ FoundOK(request[q].of, set) /\ Flush(q, set)
    BY <1>3, <2>1, LookedUpOK DEF LookUpParent
  <2>3. set.deletedAt = request[q].seen.deletedAt
    BY <2>1
  <2> QED BY <2>2, <2>3, FlushKept
<1>4. ASSUME NEW q \in Requests, Answer(q) \/ FlushItem(q) PROVE \A r \in Rows : Kept(r)
  <2>1. Running(q) /\ Flush(q, Assigned(q))
    BY <1>4 DEF Answer, FlushItem, Running
  <2>2. FoundOK(request[q].of, Assigned(q))
    BY <2>1, AssignedOK
  <2>3. Assigned(q).deletedAt = None /\ request[q].seen.deletedAt # None =>
          request[q].of \in Unchecked \ Hidden /\ Revives(q, request[q].of)
    <3>1. CASE request[q].phase = "update"
      <4> SUFFICES ASSUME Assigned(q).deletedAt = None, request[q].seen.deletedAt # None
                   PROVE  request[q].of \in Unchecked \ Hidden /\ Revives(q, request[q].of)
        OBVIOUS
      <4>1. request[q].body.deletedAt = None
        BY <2>1, <3>1, AssignedColumns
      <4>2. request[q].of \in Unchecked \ Hidden
        BY <2>1, <4>1, RunningFound, ColumnAssumption DEF Fits
      <4>3. request'[q].phase = "done"
        BY <1>4, <4>1, ColumnAssumption DEF Answer, FlushItem, Inv, RequestsOK, Idle
      <4> QED BY <3>1, <4>1, <4>2, <4>3 DEF Revives
    <3>2. CASE request[q].phase = "remove"
      BY <2>1, <3>2, RunningFound, Nones DEF Assigned, FoundOK, RowOK, Row
    <3> QED BY <2>1, <3>1, <3>2 DEF Running
  <2> QED BY <2>1, <2>2, <2>3, FlushKept
<1>5. ASSUME NEW e \in Erased, Erase(e) PROVE \A r \in Rows : Kept(r)
  <2>1. e \in Rows /\ e \notin Dated
    BY KindRows, ErasedApart DEF Erased
  <2>2. \A r \in Rows \ {e} : row'[r] = row[r]
    BY <1>5 DEF Erase, Inv, RowsOK
  <2>3. row[e].state # "erased" /\ row[e].deletedAt = None
    BY <1>5, <2>1 DEF Erase, There, Inv, RowsOK, RowOK
  <2> QED BY <2>2, <2>3 DEF Kept
<1>6. CASE SeedMenu
  BY <1>6, FreshKept, ColumnAssumption DEF SeedMenu
<1>7. \A q \in Requests : Finding(q) \/ FindNext(q) \/ FindNoMore(q) \/ Break(q)
        => row' = row
  BY DEF Finding, Find, FindNext, FindNoMore, Break
<1>8. CASE Next
  BY <1>1, <1>2, <1>3, <1>4, <1>5, <1>6, <1>7, <1>8, NextCases
<1> QED BY <1>1, <1>8 DEF vars

(* No update brings a removed row back, though it read it before, however  *)
(* requests overlap, unless it read the row removed and its body empties   *)
(* the date: remove and update of every service.                           *)
THEOREM RemovedStaysHolds == Spec => RemovedStays
<1>1. Inv /\ SerialInv /\ [Next]_vars => [\A r \in Rows : Kept(r)]_vars
  BY RemovalStep
<1>2. Spec => [][\A r \in Rows : Kept(r)]_vars
  BY <1>1, InvHolds, SerialHolds, PTL DEF Spec
<1> QED BY <1>2 DEF RemovedStays, Kept

-----------------------------------------------------------------------------
(* An update sets what its body names.                                     *)
Sets(q) ==
  LET body == request[q].body
      r == request[q].of
  IN /\ \A other \in Rows \ {r} : row'[other] = row[other]
     /\ row'[r].deletedAt # row[r].deletedAt => row'[r].deletedAt = body.deletedAt
     /\ r \notin Flags \cap Overlapping =>
          /\ row'[r].value # row[r].value => row'[r].value = body.value
          /\ row'[r].reference # row[r].reference => row'[r].reference = body.reference
     /\ r \in Serial =>
          /\ body.value \in {Unnamed, row'[r].value}
          /\ body.deletedAt \in {Unnamed, row'[r].deletedAt}
          /\ \/ request'[q].phase = "update"
             \/ body.reference \in {Unnamed, row'[r].reference}
             \/ body.reference = None /\ r \in KeepsReference

(* A flush of an entity that differs from what was read in what the body   *)
(* names, and where the body names something else, has it.                 *)
LEMMA FlushSets ==
  ASSUME Inv, SerialInv, NEW q \in Requests, Running(q), NEW set,
         FoundOK(request[q].of, set), Flush(q, set),
         set.deletedAt # request[q].seen.deletedAt =>
           set.deletedAt = request[q].body.deletedAt,
         request[q].body.deletedAt \in {Unnamed, set.deletedAt},
         set.value # request[q].seen.value => set.value = request[q].body.value,
         set.reference # request[q].seen.reference =>
           set.reference = request[q].body.reference,
         request[q].body.value \in {Unnamed, set.value},
         \/ request'[q].phase = "update"
         \/ request[q].body.reference \in {Unnamed, set.reference}
         \/ request[q].body.reference = None /\ request[q].of \in KeepsReference
  PROVE  Sets(q)
<1>1. PICK r : r = request[q].of
  OBVIOUS
<1>2. PICK seen : seen = request[q].seen
  OBVIOUS
<1>3. /\ \A other \in Rows \ {r} : row'[other] = row[other]
      /\ There(r) => /\ FoundOK(r, row[r])
                     /\ row'[r] = Written(r, seen, set)
      /\ ~There(r) => row' = row
  BY <1>1, <1>2, FlushOK
<1>4. r \in Rows /\ FoundOK(r, seen) /\ FoundOK(r, set)
  BY <1>1, <1>2, RunningFound
<1>5. r \in Serial => There(r) /\ row[r] = seen /\ row'[r] = set
  BY <1>1, <1>2, <1>3, <1>4, SerialFound, WrittenAlone DEF FoundOK, RowOK
<1>6. There(r) /\ r \notin Flags => row'[r] = Merged(set, seen, row[r])
  BY <1>3, <1>4, WrittenColumns DEF FoundOK, RowOK
<1>7. row'[r].deletedAt # row[r].deletedAt =>
        row'[r].deletedAt = request[q].body.deletedAt
  <2>1. CASE ~There(r)
    BY <1>3, <2>1
  <2>2. CASE There(r) /\ r \notin Flags
    BY <1>2, <1>6, <2>2 DEF Merged
  <2>3. CASE There(r) /\ r \in Flags
    <3>1. set.deletedAt = None /\ row[r].deletedAt = None
      BY <1>3, <1>4, <2>3, FlagsApart DEF FoundOK, RowOK
    <3> QED BY <1>3, <2>3, <3>1 DEF Written
  <2> QED BY <2>1, <2>2, <2>3
<1>8. ASSUME r \notin Flags \cap Overlapping
      PROVE  /\ row'[r].value # row[r].value => row'[r].value = request[q].body.value
             /\ row'[r].reference # row[r].reference =>
                  row'[r].reference = request[q].body.reference
  <2>1. CASE ~There(r)
    BY <1>3, <2>1
  <2>2. CASE There(r) /\ r \notin Flags
    BY <1>2, <1>6, <2>2 DEF Merged
  <2>3. CASE r \in Serial
    BY <1>2, <1>5, <2>3
  <2> QED BY <1>4, <1>8, <2>1, <2>2, <2>3 DEF Serial
<1> QED BY <1>1, <1>3, <1>5, <1>7, <1>8 DEF Sets

LEMMA LookUpParentSets ==
  ASSUME Inv, SerialInv, NEW q \in Requests, LookUpParent(q)
  PROVE  Sets(q)
<1>1. PICK set : set = [request[q].seen EXCEPT !.value = request[q].body.value]
  OBVIOUS
<1>2. Running(q) /\ FoundOK(request[q].of, set) /\ Flush(q, set)
  BY <1>1, LookedUpOK DEF LookUpParent
<1>3. request[q].seen \in Row
  BY <1>2, RunningFound DEF FoundOK, RowOK
<1>4. /\ set.deletedAt = request[q].seen.deletedAt
      /\ request[q].body.deletedAt = Unnamed
      /\ set.value = request[q].body.value
      /\ set.reference = request[q].seen.reference
  <2>1. request[q].of \notin Unchecked
    BY MenuApart DEF LookUpParent, LooksUpParent
  <2>2. request[q].body.deletedAt = Unnamed
    BY <1>2, <2>1, RunningFound DEF Fits
  <2> QED BY <1>1, <1>3, <2>2 DEF Row
<1>5. request'[q].phase = "update"
  BY DEF LookUpParent, LooksUpParent, Inv, RequestsOK, Request
<1> QED BY <1>2, <1>4, <1>5, FlushSets

LEMMA AnswerSets ==
  ASSUME Inv, SerialInv, NEW q \in Requests, Answer(q) \/ FlushItem(q),
         request[q].phase = "update"
  PROVE  Sets(q)
<1>1. Running(q) /\ Flush(q, Assigned(q))
  BY DEF Answer, FlushItem, Running
<1>2. PICK set : set = Assigned(q)
  OBVIOUS
<1>3. /\ FoundOK(request[q].of, set) /\ Flush(q, set)
      /\ set.deletedAt = IF request[q].body.deletedAt = Unnamed
                           THEN request[q].seen.deletedAt ELSE request[q].body.deletedAt
      /\ set.value = IF request[q].body.value = Unnamed THEN request[q].seen.value
                     ELSE request[q].body.value
      /\ set.reference =
           AssignedReference(request[q].of, request[q].body, request[q].seen)
  BY <1>1, <1>2, AssignedColumns
<1>4. set.reference # request[q].seen.reference => set.reference = request[q].body.reference
  BY <1>3 DEF AssignedReference
<1>5. \/ request[q].body.reference \in {Unnamed, set.reference}
      \/ request[q].body.reference = None /\ request[q].of \in KeepsReference
  BY <1>3 DEF AssignedReference
<1> QED BY <1>1, <1>3, <1>4, <1>5, FlushSets

(* Only its own steps move a request, and of those that end an update or   *)
(* go on with it, each is a flush.                                         *)
LEMMA OthersRest ==
  ASSUME Inv, NEW p \in Requests, NEW q \in Requests \ {p},
         \/ Creating(p) \/ Finding(p) \/ LookUpParent(p) \/ Answer(p)
         \/ FlushItem(p) \/ FindNext(p) \/ FindNoMore(p) \/ Break(p)
  PROVE  request'[q] = request[q]
<1>1. \E new : request' = [request EXCEPT ![p] = new]
  <2>1. CASE LookUpParent(p)
    <3>1. request' = [request EXCEPT ![p] =
            [request[p] EXCEPT
               !.seen = [request[p].seen EXCEPT !.value = request[p].body.value],
               !.body.value = Unnamed]]
      BY <2>1 DEF LookUpParent, Inv, RequestsOK
    <3> QED BY <3>1
  <2>2. CASE ~LookUpParent(p)
    BY <2>2 DEF Creating, InsertRow, Finding, Find, Answer, FlushItem, FindNext,
                FindNoMore, Break
  <2> QED BY <2>1, <2>2
<1> QED BY <1>1 DEF Inv, RequestsOK

LEMMA UpdateStep ==
  ASSUME Inv, SerialInv, [Next]_vars, NEW q \in Requests, request[q].phase = "update",
         request'[q].phase \in {"update", "done", "next"}, request'[q] # request[q]
  PROVE  Sets(q)
<1>1. request' # request
  OBVIOUS
<1>2. \E p \in Requests :
        \/ Creating(p) \/ Finding(p) \/ LookUpParent(p) \/ Answer(p)
        \/ FlushItem(p) \/ FindNext(p) \/ FindNoMore(p) \/ Break(p)
  BY <1>1, NextCases DEF vars, Erase, SeedMenu
<1>3. \/ Creating(q) \/ Finding(q) \/ LookUpParent(q) \/ Answer(q)
      \/ FlushItem(q) \/ FindNext(q) \/ FindNoMore(q) \/ Break(q)
  BY <1>2, OthersRest
<1>4. ~Creating(q) /\ ~Finding(q) /\ ~FindNext(q) /\ ~FindNoMore(q)
  BY DEF Creating, Finding, Find, FindNext, FindNoMore
<1>5. ~Break(q)
  BY DEF Break, Inv, RequestsOK, Idle
<1> QED BY <1>3, <1>4, <1>5, LookUpParentSets, AnswerSets

(* However requests overlap, an update leaves alone what its body does not *)
(* name (but for JSON columns), and where they do not, each column has     *)
(* what the body names: update of every service.                           *)
THEOREM UpdatesSetWhatTheyNameHolds == Spec => UpdatesSetWhatTheyName
<1> DEFINE A == \A q \in Requests :
                  request[q].phase = "update"
                    /\ request'[q].phase \in {"update", "done", "next"}
                    /\ request'[q] # request[q] => Sets(q)
<1>1. Inv /\ SerialInv /\ [Next]_vars => [A]_vars
  BY UpdateStep
<1>2. Spec => [][A]_vars
  BY <1>1, InvHolds, SerialHolds, PTL DEF Spec
<1> QED BY <1>2 DEF UpdatesSetWhatTheyName, Sets
=============================================================================
