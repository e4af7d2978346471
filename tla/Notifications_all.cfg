SPECIFICATION Spec
CONSTANTS
  u1 = u1
  u2 = u2
  q1 = q1
  q2 = q2
  q3 = q3
  None = None
  Users <- TwoUsers
  Requests <- ThreeRequests
  Overlapping <- OneUser
SYMMETRY RequestSymmetry
INVARIANTS TypeOK BroadcastReachesAll ReadAllReads RecipientsDecide
CHECK_DEADLOCK FALSE
