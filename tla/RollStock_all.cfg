SPECIFICATION Spec
CONSTANTS
  r1 = r1
  r2 = r2
  q1 = q1
  q2 = q2
  q3 = q3
  q4 = q4
  Rolls <- TwoRolls
  Requests <- FourRequests
  Amounts <- SmallAmounts
  Overlapping <- OneRoll
SYMMETRY RequestSymmetry
INVARIANTS TypeOK ReservedWithinAllocated  BooksAgree
PROPERTIES ImplementsAccount
CHECK_DEADLOCK FALSE
