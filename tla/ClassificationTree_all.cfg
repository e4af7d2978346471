SPECIFICATION FairSpec
CONSTANTS
  a = a
  b = b
  c = c
  d = d
  e = e
  f = f
  q1 = q1
  q2 = q2
  None = None
  Nodes <- SixNodes
  Types <- ThreeTypes
  TypeOf <- MCTypeOf
  Slug <- MCSlug
  System <- SystemNodes
  Seeds <- Forests
  Batches <- CountryThenState
  SeedSlug <- MCSeedSlug
  Requests <- TwoRequests
INVARIANTS TypeOK  
 
CHECK_DEADLOCK FALSE
