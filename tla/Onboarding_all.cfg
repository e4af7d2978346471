SPECIFICATION Spec
CONSTANTS
  q1 = q1
  q2 = q2
  q3 = q3
  None = None
  Domains <- TwoDomains
  Emails <- TwoEmails
  Keys <- ThreeKeys
  Seeds <- TwoSeeds
  Requests <- ThreeRequests
INVARIANTS TypeOK CreatedIsComplete SeedsTogether TogglesCount
CHECK_DEADLOCK FALSE
