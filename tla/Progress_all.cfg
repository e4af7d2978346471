SPECIFICATION Spec
CONSTANTS
  o1 = o1
  p1 = p1
  f1 = f1
  d1 = d1
  q1 = q1
  q2 = q2
  q3 = q3
  None = None
  Unnamed = Unnamed
  Named <- OneDate
  Orders <- OneOrder
  Plans <- OnePlan
  Rfqs <- OneRfq
  Codes = {"DOKUMA", "BOYAMA"}
  Requests <- ThreeRequests
  Overlapping <- Shared
SYMMETRY RequestSymmetry
INVARIANTS TypeOK StatusHasItsDate MilestonesTogether
CHECK_DEADLOCK FALSE
