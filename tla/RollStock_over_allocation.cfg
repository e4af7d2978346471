SPECIFICATION Spec
CONSTANTS
  r1 = r1
  r2 = r2
  q1 = q1
  q2 = q2
  q3 = q3
  q4 = q4
  Rolls <- OneRoll
  Requests <- ThreeRequests
  Amounts = {1, 2, 3}
  Overlapping <- OneRoll
SYMMETRY RequestSymmetry
PROPERTY AllocationWasAvailable
CHECK_DEADLOCK FALSE
