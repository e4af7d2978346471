SPECIFICATION SelectSpec
CONSTANTS
  a1 = a1
  a2 = a2
  b1 = b1
  b2 = b2
  l1 = l1
  l2 = l2
  plan = plan
  rfq = rfq
  q1 = q1
  q2 = q2
  q3 = q3
  Nothing = Nothing
  Offers <- SixOffers
  Tenders <- TwoTenders
  TenderOf <- MCTenderOf
  Selects <- ThreeRequests
  Contested <- OneOverlapping
INVARIANTS SelectTypeOK
PROPERTIES ImplementsChoice
CHECK_DEADLOCK FALSE
