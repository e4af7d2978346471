SPECIFICATION Spec
CONSTANTS
  partner = partner
  newPartner = newPartner
  address = address
  newAddress = newAddress
  contact = contact
  counterparty = counterparty
  interaction = interaction
  product = product
  newProduct = newProduct
  variant = variant
  attribute = attribute
  channel = channel
  newChannel = newChannel
  mapping = mapping
  book = book
  report = report
  config1 = config1
  config2 = config2
  config3 = config3
  menu = menu
  newMenu = newMenu
  entry = entry
  bom = bom
  customs = customs
  event = event
  check = check
  newCheck = newCheck
  order = order
  purchase = purchase
  item1 = item1
  item2 = item2
  node = node
  tenant = tenant
  user = user
  features = features
  properties = properties
  q1 = q1
  q2 = q2
  None = None
  Unnamed = Unnamed
  v = v
  w = w
  x = x
  d = d
  Partners = {partner, newPartner}
  Addresses = {address, newAddress}
  Contacts = {contact}
  Counterparties = {counterparty}
  Interactions = {interaction}
  Products = {product, newProduct}
  Variants = {variant}
  Attributes = {attribute}
  Channels = {channel, newChannel}
  Mappings = {mapping}
  Books = {book}
  TaxReports = {report}
  Configs = {config1, config2, config3}
  MenuNodes = {menu, newMenu}
  SeededNodes = {menu}
  AuditEntries = {entry}
  Boms = {bom}
  Customs = {customs}
  Events = {event}
  QualityChecks = {check, newCheck}
  SalesOrders = {order}
  PurchaseOrders = {purchase}
  Definitions = {item1, item2}
  ClassificationNodes = {node}
  Tenants = {tenant}
  Users = {user}
  Flags = {features, properties}
  Inactive = w
  ParentOf <- Below
  KeyOf <- Keys
  Values = {v, w}
  References = {x}
  Dates = {d}
  Present <- Some
  Requests <- TwoRequests
  Overlapping <- Shared
SYMMETRY RequestSymmetry
INVARIANTS TypeOK
PROPERTIES RemovedStays UpdatesSetWhatTheyName
CHECK_DEADLOCK FALSE
